--------------------------- MODULE SensorSsmProofs ---------------------------
(***************************************************************************)
(* Proofs about SensorSsm for every geometry the sensor may report and     *)
(* every reply request 0x43 may give.                                      *)
(***************************************************************************)
EXTENDS SensorSsm, TLAPS

ReplyCmds == StatusCmds \cup {"SCAN_9338_CAPTURE_CMD"}

(* The inductive invariant.  A reply is in step because the endpoint is      *)
(* empty when a command goes out, and it is empty because the state before   *)
(* a command resets it; both need that a timer only runs in a delay state.   *)
(* The buffers match the geometry for as long as the device is open, and a   *)
(* scan only runs on an open device.                                         *)
IInv ==
  /\ SensorTypeOK
  /\ flight = "timer" <=> ssm \in Delays
  /\ flight = "none" <=> ssm = "off"
  /\ ssm \in ReplyCmds => pipe = "empty"
  /\ ReplyInStep
  /\ FreshFrame
  /\ ssm \in ScanStates => isOpen
  /\ isOpen => area > 0 /\ bufLen = area + 2

------------------------------------------------------------------------------
\* The groups of states do not overlap where the proofs tell them apart.
LEMMA Groups ==
  /\ "off" \notin InitStates \cup ScanStates
  /\ CtrlOuts \cup BulkReads \cup Delays \subseteq InitStates \cup ScanStates
  /\ (CtrlOuts \cup BulkReads) \cap (Delays \cup LiftStates) = {}
  /\ InitStates \cap (ScanStates \cup LiftStates \cup Delays) = {}
BY DEF CtrlOuts, BulkReads, Delays, LiftStates, InitStates, ScanStates,
       BeforeFrame, ArmStates, SelectStates, StatusCmds, StatusReads

\* Where a control transfer leads: to a command only from a reset of the
\* endpoint, to a read only from its command.
LEMMA CtrlSuccessor ==
  ASSUME NEW s \in CtrlOuts
  PROVE  /\ NextState(s) \in CtrlOuts \cup BulkReads
         /\ NextState(s) \in ReplyCmds => s \in ArmStates
         /\ NextState(s) \in StatusReads \cup {"INIT_9338_INFO_READ"} => s \in StatusCmds
         /\ NextState(s) = "SCAN_9338_CAPTURE_READ" => s = "SCAN_9338_CAPTURE_CMD"
         /\ NextState(s) \in ScanStates <=> s \in ScanStates
BY DEF CtrlOuts, BulkReads, ReplyCmds, ArmStates, SelectStates, StatusCmds,
       StatusReads, NextState, ScanStates, BeforeFrame, LiftStates

LEMMA ReadSuccessor ==
  ASSUME NEW s \in StatusReads
  PROVE  NextState(s) \in ArmStates \cap BeforeFrame
BY DEF StatusReads, NextState, ArmStates, BeforeFrame

\* The fallback keeps the area of a frame positive.
LEMMA AreaPositive ==
  ASSUME NEW info \in InfoReplies
  PROVE  Dim(info[1], 64) * Dim(info[2], 80) \in Nat \ {0}
<1> DEFINE w == Dim(info[1], 64)
           h == Dim(info[2], 80)
<1>1. w \in Nat \ {0} /\ h \in Nat \ {0}
  BY InfoAssumption DEF Dim
<1>2. \A a, b \in Nat \ {0} : a * b \in Nat \ {0}
  OBVIOUS
<1> QED BY <1>1, <1>2

------------------------------------------------------------------------------
LEMMA InitIInv == SensorInit => IInv
<1> SUFFICES ASSUME SensorInit PROVE IInv
  OBVIOUS
<1>1. SensorTypeOK
  BY DEF SensorInit, SensorTypeOK
<1>2. ssm = "off" /\ flight = "none" /\ isOpen = FALSE
  BY DEF SensorInit
<1>3. ssm \notin ReplyCmds \cup StatusReads \cup Delays \cup LiftStates \cup ScanStates
  BY <1>2 DEF ReplyCmds, ScanStates, LiftStates, Delays, StatusReads, StatusCmds,
     BeforeFrame
<1>4. ReplyInStep /\ FreshFrame
  BY <1>2, <1>3 DEF ReplyInStep, FreshFrame
<1> QED
  BY <1>1, <1>2, <1>3, <1>4 DEF IInv

LEMMA NextIInv == IInv /\ [SensorNext]_sensorVars => IInv'
<1> SUFFICES ASSUME IInv, [SensorNext]_sensorVars PROVE IInv'
  OBVIOUS
<1>1. CASE Timer
  BY <1>1 DEF Timer, IInv, SensorTypeOK, ReplyInStep, FreshFrame, ReplyCmds, Enter,
     Issue, NextState, Delays, LiftStates, device, memory, ScanStates, BeforeFrame,
     StatusReads, StatusCmds, InitStates
<1>2. CASE CtrlAck
  <2> DEFINE t == NextState(ssm)
  <2>1. ssm \in CtrlOuts /\ ssm' = t /\ flight' = Issue(t)
    BY <1>2 DEF CtrlAck, Enter
  <2>2. t \in CtrlOuts \cup BulkReads
    BY <2>1, CtrlSuccessor
  <2>3. SensorTypeOK' /\ flight' \in {"live", "doomed"}
    BY <1>2, <2>1, <2>2, Groups
    DEF CtrlAck, Obeys, Queue, IInv, SensorTypeOK, memory, Issue
  <2>4. ssm' \in ReplyCmds => pipe' = "empty"
    <3>1. ssm' \in ReplyCmds => ssm \in ArmStates
      BY <2>1, CtrlSuccessor
    <3>2. ssm \in ArmStates => ssm \notin SelectStates \cup StatusCmds
      BY DEF ArmStates, SelectStates, StatusCmds
    <3>3. ssm \in ArmStates => pipe' = "empty"
      BY <1>2, <3>2 DEF CtrlAck, Obeys
    <3> QED BY <3>1, <3>3
  <2>5. ReplyInStep'
    BY <1>2, <2>1, CtrlSuccessor
    DEF CtrlAck, Obeys, IInv, ReplyInStep, ReplyCmds, Queue, ArmStates, SelectStates,
        StatusCmds
  <2>6. FreshFrame'
    BY <2>1, <2>2, Groups DEF FreshFrame
  <2>7. ssm' \in ScanStates => isOpen'
    BY <1>2, <2>1, CtrlSuccessor DEF CtrlAck, IInv, memory
  <2>8. isOpen' => area' > 0 /\ bufLen' = area' + 2
    BY <1>2 DEF CtrlAck, IInv, memory
  <2> QED
    BY <2>1, <2>2, <2>3, <2>4, <2>5, <2>6, <2>7, <2>8, Groups DEF IInv
<1>3. CASE FingerPolled
  BY <1>3 DEF FingerPolled, IInv, SensorTypeOK, ReplyInStep, FreshFrame, ReplyCmds,
     Enter, Issue, NextState, Delays, LiftStates, device, memory, ScanStates,
     BeforeFrame, StatusReads, StatusCmds, InitStates
<1>4. CASE StatusRead
  <2>1. /\ ssm \in StatusReads /\ ssm' = NextState(ssm)
        /\ flight' = Issue(NextState(ssm))
        /\ pipe' \in {pipe, "empty"}
        /\ UNCHANGED <<cancelled, finger, sampled, memory>>
    BY <1>4 DEF StatusRead, Enter
  <2>2. ssm' \in ArmStates \cap BeforeFrame
    BY <2>1, ReadSuccessor
  <2>3. ssm \in ScanStates
    BY <2>1 DEF StatusReads, ScanStates, BeforeFrame
  <2> QED
    BY <2>1, <2>2, <2>3 DEF IInv, SensorTypeOK, ReplyInStep, FreshFrame, ReplyCmds,
       Issue, Delays, LiftStates, memory, ScanStates, BeforeFrame, ArmStates,
       StatusReads, StatusCmds
<1>5. CASE ImageRead
  BY <1>5 DEF ImageRead, IInv, SensorTypeOK, ReplyInStep, FreshFrame, ReplyCmds,
     Enter, Issue, NextState, Delays, LiftStates, ScanStates, BeforeFrame,
     StatusReads, StatusCmds, InitStates
<1>6. CASE StillThere
  BY <1>6 DEF StillThere, IInv, SensorTypeOK, ReplyInStep, FreshFrame, ReplyCmds,
     Enter, Issue, Delays, LiftStates, device, memory, ScanStates, BeforeFrame,
     StatusReads, StatusCmds, InitStates
<1>7. CASE InitDone
  <2>1. area' \in Nat \ {0} /\ bufLen' = area' + 2
    BY <1>7, AreaPositive DEF InitDone, InfoRead
  <2> QED
    BY <1>7, <2>1 DEF InitDone, InfoRead, InfoArrives, Stop, IInv, SensorTypeOK,
       ReplyInStep, FreshFrame, ReplyCmds, Delays, LiftStates, ScanStates,
       BeforeFrame, StatusReads, StatusCmds
<1>8. CASE ScanDone
  BY <1>8 DEF ScanDone, Lifted, Rescan, Older, Stop, IInv, SensorTypeOK, ReplyInStep,
     FreshFrame, ReplyCmds, Enter, Issue, Delays, LiftStates, device, ScanStates,
     BeforeFrame, StatusReads, StatusCmds, InitStates
<1>9. ASSUME Unseen PROVE pipe' \in {"empty", "status", "frame"} /\ sampled' \in BOOLEAN
  BY <1>9 DEF Unseen, Obeys, Queue, IInv, SensorTypeOK
<1>10. CASE Fail
  BY <1>9, <1>10, Groups DEF Fail, Failed, Stop, memory, IInv, SensorTypeOK,
     ReplyInStep, FreshFrame, ReplyCmds, Delays, LiftStates, ScanStates, BeforeFrame,
     StatusReads, StatusCmds
<1>11. CASE HostRestart
  BY <1>9, <1>11 DEF HostRestart, HostLost, Stop, IInv, SensorTypeOK, ReplyInStep,
     FreshFrame, ReplyCmds, Delays, LiftStates, ScanStates, BeforeFrame, StatusReads,
     StatusCmds
<1>12. CASE StartInit
  BY <1>12 DEF StartInit, IInv, SensorTypeOK, ReplyInStep, FreshFrame, ReplyCmds,
     Enter, Issue, Delays, LiftStates, device, memory, ScanStates, BeforeFrame,
     StatusReads, StatusCmds, InitStates
<1>13. CASE FirstScan
  BY <1>13 DEF FirstScan, Forgotten, IInv, SensorTypeOK, ReplyInStep, FreshFrame,
     ReplyCmds, Enter, Issue, Delays, LiftStates, ScanStates, BeforeFrame,
     StatusReads, StatusCmds, InitStates
<1>14. CASE FreeBuffers
  BY <1>14 DEF FreeBuffers, IInv, SensorTypeOK, ReplyInStep, FreshFrame, ReplyCmds,
     wires, device, Delays, LiftStates, ScanStates, BeforeFrame, StatusReads,
     StatusCmds
<1>15. CASE Place \/ Lift \/ Cancel
  <2>1. UNCHANGED <<ssm, flight, pipe, memory>>
    BY <1>15 DEF Place, Lift, Cancel, wires, device, memory
  <2>2. finger' \in BOOLEAN /\ sampled' \in BOOLEAN /\ cancelled' \in BOOLEAN
    BY <1>15 DEF Place, Lift, Cancel, wires, device, IInv, SensorTypeOK
  <2>3. SensorTypeOK'
    BY <2>1, <2>2 DEF memory, IInv, SensorTypeOK
  <2> QED
    BY <2>1, <2>3 DEF memory, IInv, ReplyInStep, FreshFrame
<1>16. CASE UNCHANGED sensorVars
  BY <1>16 DEF sensorVars, wires, device, memory, IInv, SensorTypeOK, ReplyInStep,
     FreshFrame
<1> QED
  BY <1>1, <1>2, <1>3, <1>4, <1>5, <1>6, <1>7, <1>8, <1>10, <1>11, <1>12, <1>13,
     <1>14, <1>15, <1>16 DEF SensorNext, MainLoop, SsmStep

(* Every reachable state satisfies the inductive invariant.                  *)
THEOREM Invariant == SensorSpec => []IInv
BY InitIInv, NextIInv, PTL DEF SensorSpec

(* Type correctness.                                                         *)
THEOREM TypeCorrect == SensorSpec => []SensorTypeOK
<1>1. IInv => SensorTypeOK BY DEF IInv
<1> QED BY <1>1, Invariant, PTL

(* Bulk replies never get out of step, whatever was cancelled or lost before.*)
THEOREM InStep == SensorSpec => []ReplyInStep
<1>1. IInv => ReplyInStep BY DEF IInv
<1> QED BY <1>1, Invariant, PTL

(* A scan only completes with the frame it captured itself.                  *)
THEOREM Fresh == SensorSpec => []FreshFrame
<1>1. IInv => FreshFrame BY DEF IInv
<1> QED BY <1>1, Invariant, PTL

(* The frame fits the buffer, for every geometry the sensor reports.         *)
THEOREM BufferFits == SensorSpec => []BufferHoldsFrame
<1>1. IInv => BufferHoldsFrame BY DEF IInv, BufferHoldsFrame
<1> QED BY <1>1, Invariant, PTL

------------------------------------------------------------------------------
(* A scan that has not taken its picture yet finds the touch unsampled: the  *)
(* previous scan of the operation saw the finger leave, and a touch that was *)
(* sampled has its finger still on the sensor.                               *)
NotYet ==
  /\ sampled => finger
  /\ ssm \in BeforeFrame => ~sampled

LEMMA NotYetStep ==
  ASSUME 0 \notin OddReplies, IInv, NotYet, [SensorNext]_sensorVars
  PROVE  NotYet'
<1>1. CASE SsmStep
  <2>1. CASE Timer
    <3>1. ssm \in Delays
      BY <2>1 DEF Timer, IInv
    <3>2. ssm' \in BeforeFrame => ssm \in BeforeFrame
      BY <2>1, <3>1 DEF Timer, Enter, NextState, Delays, BeforeFrame
    <3> QED BY <2>1, <3>2 DEF Timer, NotYet, device
  <2>2. CASE CtrlAck
    <3>1. ssm \in BeforeFrame \ {"SCAN_9338_CAPTURE_CMD"} \/ ssm' \notin BeforeFrame
      BY <2>2 DEF CtrlAck, CtrlOuts, ArmStates, SelectStates, StatusCmds, Enter,
         NextState, BeforeFrame
    <3>2. ssm # "SCAN_9338_CAPTURE_CMD" => sampled' = sampled
      BY <2>2 DEF CtrlAck, Obeys, IInv, SensorTypeOK
    <3>3. sampled' => finger'
      BY <2>2 DEF CtrlAck, Obeys, NotYet
    <3> QED BY <3>1, <3>2, <3>3 DEF NotYet
  <2>3. CASE FingerPolled
    BY <2>3 DEF FingerPolled, NotYet, device, BeforeFrame
  <2>4. CASE StatusRead
    BY <2>4 DEF StatusRead, NotYet, StatusReads, BeforeFrame
  <2>5. CASE ImageRead
    BY <2>5 DEF ImageRead, Enter, NextState, NotYet, BeforeFrame
  <2>6. CASE StillThere
    BY <2>6 DEF StillThere, Enter, device, NotYet, BeforeFrame
  <2> QED BY <1>1, <2>1, <2>2, <2>3, <2>4, <2>5, <2>6 DEF SsmStep
<1>2. CASE ScanDone
  <2>1. 0 \in FingerReplies /\ UNCHANGED <<finger, sampled>>
    BY <1>2 DEF ScanDone, Lifted, device
  <2>2. ~finger
    BY <2>1 DEF FingerReplies
  <2> QED BY <2>1, <2>2 DEF NotYet
<1>3. CASE InitDone \/ Fail \/ HostRestart
  <2>1. ssm' = "off"
    BY <1>3 DEF InitDone, Fail, HostRestart, HostLost, Stop
  <2>2. sampled' => finger'
    BY <1>3 DEF InitDone, InfoRead, InfoArrives, Fail, Failed, HostRestart, Unseen,
       Obeys, NotYet
  <2> QED BY <2>1, <2>2 DEF NotYet, BeforeFrame
<1>4. CASE StartInit
  BY <1>4 DEF StartInit, Enter, device, NotYet, BeforeFrame
<1>5. CASE FirstScan
  BY <1>5 DEF FirstScan, NotYet
<1>6. CASE FreeBuffers \/ Place \/ Lift \/ Cancel
  BY <1>6 DEF FreeBuffers, Place, Lift, Cancel, wires, device, NotYet
<1>7. CASE UNCHANGED sensorVars
  BY <1>7 DEF sensorVars, wires, device, NotYet
<1> QED
  BY <1>1, <1>2, <1>3, <1>4, <1>5, <1>6, <1>7 DEF SensorNext, MainLoop

(* One touch gives at most one frame per operation, if the reader never says *)
(* that a finger on the sensor is gone.                                      *)
THEOREM OneSample ==
  ASSUME 0 \notin OddReplies
  PROVE  SensorSpec => OneSamplePerTouch
<1>1. SensorInit => NotYet
  BY DEF SensorInit, NotYet, BeforeFrame
<1>2. IInv /\ NotYet /\ [SensorNext]_sensorVars => NotYet'
  BY NotYetStep
<1>3. IInv /\ NotYet /\ [SensorNext]_sensorVars => [CaptureTaken => ~sampled]_sensorVars
  BY DEF CaptureTaken, NotYet, BeforeFrame
<1> QED
  BY <1>1, <1>2, <1>3, Invariant, PTL DEF SensorSpec, OneSamplePerTouch
------------------------------------------------------------------------------
(* How many more completions a cancelled machine can see at most.  What is   *)
(* in flight when the cancel comes may land and lead to a delay, the delay   *)
(* runs out, and the transfer submitted after it fails.                      *)
LandingsLeft == CASE flight = "live"   -> 3
                  [] flight = "timer"  -> 2
                  [] flight = "doomed" -> 1
                  [] OTHER             -> 0

(* What a step does to a cancelled machine: nothing withdraws the cancel or  *)
(* adds to the completions left, and one of the main loop's uses one up or   *)
(* ends the machine.                                                         *)
CancelRunsDown ==
  cancelled /\ ssm # "off" =>
    \/ ssm' = "off"
    \/ cancelled' /\ LandingsLeft' < LandingsLeft
    \/ cancelled' /\ ~MainLoop /\ LandingsLeft' = LandingsLeft

\* A state entered after a cancel is a delay or fails.
LEMMA EnterCancelled ==
  ASSUME NEW s, Enter(s), cancelled'
  PROVE  flight' = IF s \in Delays THEN "timer" ELSE "doomed"
BY DEF Enter, Issue

LEMMA MainLoopRunsDown ==
  ASSUME IInv, MainLoop, cancelled, ssm # "off"
  PROVE  ssm' = "off" \/ (cancelled' /\ LandingsLeft' < LandingsLeft)
<1>1. CASE Timer
  <2>1. ssm \in Delays /\ Enter(NextState(ssm)) /\ cancelled'
    BY <1>1 DEF Timer, IInv
  <2>2. NextState(ssm) \notin Delays
    BY <2>1 DEF Delays, NextState
  <2>3. flight' = "doomed"
    BY <2>1, <2>2, EnterCancelled
  <2> QED BY <1>1, <2>1, <2>3 DEF Timer, LandingsLeft
<1>2. ASSUME flight = "live", cancelled', NEW s, Enter(s)
      PROVE  LandingsLeft' < LandingsLeft
  <2>1. flight' \in {"timer", "doomed"}
    BY <1>2, EnterCancelled
  <2> QED BY <1>2, <2>1 DEF LandingsLeft
<1>3. CASE CtrlAck \/ StatusRead \/ ImageRead
  BY <1>2, <1>3 DEF CtrlAck, StatusRead, ImageRead
<1>4. CASE FingerPolled \/ StillThere
  BY <1>2, <1>4 DEF FingerPolled, StillThere
<1>5. CASE ScanDone
  BY <1>2, <1>5 DEF ScanDone, Lifted, Rescan, Stop
<1>6. CASE InitDone \/ Fail
  BY <1>6 DEF InitDone, Fail, Stop
<1> QED
  BY <1>1, <1>3, <1>4, <1>5, <1>6 DEF MainLoop, SsmStep

LEMMA CancelStep ==
  ASSUME IInv, SensorNext
  PROVE  CancelRunsDown
<1>1. CASE MainLoop
  BY <1>1, MainLoopRunsDown DEF CancelRunsDown
<1>2. CASE HostRestart
  BY <1>2 DEF HostRestart, HostLost, Stop, CancelRunsDown
<1>3. CASE StartInit \/ FirstScan \/ FreeBuffers \/ Cancel
  BY <1>3 DEF StartInit, FirstScan, FreeBuffers, Cancel, CancelRunsDown
<1>4. CASE (Place \/ Lift) /\ ~MainLoop
  <2>1. UNCHANGED <<flight, cancelled>>
    BY <1>4 DEF Place, Lift, wires
  <2> QED BY <1>4, <2>1 DEF LandingsLeft, CancelRunsDown
<1> QED BY <1>1, <1>2, <1>3, <1>4 DEF SensorNext

(* A cancelled machine ends after at most three completions, for every reply *)
(* the sensor may give: the part of CancelEnds that is not fairness.         *)
THEOREM CancelledMachineRunsDown == SensorSpec => [][CancelRunsDown]_sensorVars
<1>1. IInv /\ [SensorNext]_sensorVars => [CancelRunsDown]_sensorVars
  BY CancelStep
<1> QED BY <1>1, Invariant, PTL DEF SensorSpec

------------------------------------------------------------------------------
(* The handshake only goes forward.                                          *)
HandshakeLeft == CASE ssm = "INIT_9338_ARM1"      -> 5
                   [] ssm = "INIT_9338_SELECT"    -> 4
                   [] ssm = "INIT_9338_ARM2"      -> 3
                   [] ssm = "INIT_9338_INFO_CMD"  -> 2
                   [] ssm = "INIT_9338_INFO_READ" -> 1
                   [] OTHER                       -> 0

HandshakeRunsDown ==
  ssm \in InitStates =>
    \/ ssm' = "off"
    \/ ssm' \in InitStates /\ HandshakeLeft' < HandshakeLeft
    \/ ~MainLoop /\ ssm' = ssm

\* No step but the main loop's and a restart of the host moves a machine.
LEMMA OthersKeepMachine ==
  ASSUME SensorNext, ~MainLoop, ssm # "off"
  PROVE  ssm' = "off" \/ ssm' = ssm
BY DEF SensorNext, StartInit, FirstScan, FreeBuffers, HostRestart, HostLost, Stop,
       Place, Lift, Cancel, wires

LEMMA HandshakeStep ==
  ASSUME IInv, SensorNext
  PROVE  HandshakeRunsDown
<1> SUFFICES ASSUME ssm \in InitStates, MainLoop PROVE
      ssm' = "off" \/ (ssm' \in InitStates /\ HandshakeLeft' < HandshakeLeft)
  BY OthersKeepMachine, Groups DEF HandshakeRunsDown
<1>1. CASE CtrlAck
  <2>1. ssm \in InitStates \ {"INIT_9338_INFO_READ"} /\ ssm' = NextState(ssm)
    BY <1>1 DEF CtrlAck, CtrlOuts, ArmStates, SelectStates, StatusCmds, Enter
  <2>2. CASE ssm = "INIT_9338_ARM1"
    BY <2>1, <2>2 DEF NextState, InitStates, HandshakeLeft
  <2>3. CASE ssm = "INIT_9338_SELECT"
    BY <2>1, <2>3 DEF NextState, InitStates, HandshakeLeft
  <2>4. CASE ssm = "INIT_9338_ARM2"
    BY <2>1, <2>4 DEF NextState, InitStates, HandshakeLeft
  <2>5. CASE ssm = "INIT_9338_INFO_CMD"
    BY <2>1, <2>5 DEF NextState, InitStates, HandshakeLeft
  <2> QED BY <2>1, <2>2, <2>3, <2>4, <2>5 DEF InitStates
<1>2. ~Timer /\ ~FingerPolled /\ ~StatusRead /\ ~ImageRead /\ ~StillThere /\ ~Lifted
  BY DEF Timer, FingerPolled, StatusRead, ImageRead, StillThere, Lifted,
     InitStates, IInv, Delays, StatusReads
<1>3. CASE InitDone \/ Fail
  BY <1>3 DEF InitDone, Fail, Stop
<1> QED BY <1>1, <1>2, <1>3 DEF MainLoop, SsmStep, ScanDone

(* A handshake ends after at most five completions, whatever the reader      *)
(* answers and whether or not it is cancelled: what OpenIsAnswered needs     *)
(* beside fairness.                                                          *)
THEOREM OpenRunsDown == SensorSpec => [][HandshakeRunsDown]_sensorVars
<1>1. IInv /\ [SensorNext]_sensorVars => [HandshakeRunsDown]_sensorVars
  BY HandshakeStep
<1> QED BY <1>1, Invariant, PTL DEF SensorSpec

(* The wait for removal, with the finger gone.                               *)
LiftRunsDown ==
  ~finger /\ ssm \in LiftStates =>
    \/ ssm' \notin LiftStates
    \/ ssm = "SCAN_9338_LIFT_DELAY" /\ ssm' = "SCAN_9338_WAIT_LIFT"
    \/ ~MainLoop /\ ssm' = ssm

LEMMA LiftStep ==
  ASSUME OddReplies = {}, IInv, SensorNext
  PROVE  LiftRunsDown
<1> SUFFICES ASSUME ssm \in LiftStates, ~finger, MainLoop PROVE
      \/ ssm' \notin LiftStates
      \/ ssm = "SCAN_9338_LIFT_DELAY" /\ ssm' = "SCAN_9338_WAIT_LIFT"
  BY OthersKeepMachine DEF LiftRunsDown, LiftStates
<1>1. CASE Timer
  BY <1>1 DEF Timer, IInv, Delays, LiftStates, Enter, NextState
<1>2. ~CtrlAck /\ ~FingerPolled /\ ~StatusRead /\ ~ImageRead /\ ~InitDone
  BY Groups DEF CtrlAck, FingerPolled, StatusRead, ImageRead, InitDone, InfoRead,
     InfoArrives, LiftStates, BulkReads
<1>3. ~StillThere
  BY DEF StillThere, FingerReplies
<1>4. CASE ScanDone \/ Fail
  BY <1>4 DEF ScanDone, Rescan, Enter, Fail, Stop, LiftStates
<1> QED BY <1>1, <1>2, <1>3, <1>4 DEF MainLoop, SsmStep

(* If the reader answers truthfully, the wait for removal ends at its next   *)
(* poll after the finger has left: what LiftNoticed needs beside fairness.   *)
THEOREM WaitForLiftRunsDown ==
  ASSUME OddReplies = {}
  PROVE  SensorSpec => [][LiftRunsDown]_sensorVars
<1>1. IInv /\ [SensorNext]_sensorVars => [LiftRunsDown]_sensorVars
  BY LiftStep
<1> QED BY <1>1, Invariant, PTL DEF SensorSpec

------------------------------------------------------------------------------
(* What fairness is needed for.  The prover does not reason about ENABLED,   *)
(* so the condition of WF_sensorVars(MainLoop) is stated as the code has it: *)
(* the main loop has a timer to run or a transfer to end exactly while a     *)
(* machine runs.                                                             *)
KeepsLanding == []<>(ssm = "off") \/ []<><<MainLoop>>_sensorVars

\* A step of the main loop moves the machine.
LEMMA MainLoopMoves ==
  ASSUME IInv, MainLoop
  PROVE  ssm' # ssm
<1>1. CASE Timer
  BY <1>1 DEF Timer, IInv, Delays, Enter, NextState
<1>2. CASE CtrlAck
  BY <1>2 DEF CtrlAck, Enter, NextState, CtrlOuts, ArmStates, SelectStates, StatusCmds
<1>3. CASE FingerPolled \/ StatusRead \/ ImageRead \/ StillThere
  BY <1>3 DEF FingerPolled, StatusRead, ImageRead, StillThere, Enter, NextState,
     StatusReads
<1>4. CASE InitDone \/ ScanDone \/ Fail
  BY <1>4 DEF InitDone, InfoRead, InfoArrives, ScanDone, Lifted, Rescan, Enter, Fail,
     Failed, Stop, IInv
<1> QED BY <1>1, <1>2, <1>3, <1>4 DEF MainLoop, SsmStep

(* A cancelled machine ends, for every reply the sensor may give, if the     *)
(* main loop keeps running.                                                  *)
THEOREM CancelledEnds == SensorSpec /\ KeepsLanding => CancelEnds
<1> DEFINE Off  == ssm = "off"
           P(k) == cancelled /\ ~Off /\ LandingsLeft = k
           P1 == P(1)
           P2 == P(2)
           P3 == P(3)
<1>1. IInv /\ cancelled /\ ~Off => P1 \/ P2 \/ P3
  BY DEF IInv, SensorTypeOK, LandingsLeft
<1>2. ASSUME IInv, IInv', [SensorNext]_sensorVars, cancelled, ~Off, ~Off'
      PROVE  /\ cancelled'
             /\ LandingsLeft' < LandingsLeft \/ LandingsLeft' = LandingsLeft
             /\ <<MainLoop>>_sensorVars => LandingsLeft' < LandingsLeft
             /\ LandingsLeft \in 1 .. 3 /\ LandingsLeft' \in 1 .. 3
  <2>1. CASE SensorNext
    BY <1>2, <2>1, CancelStep DEF CancelRunsDown, IInv, SensorTypeOK, LandingsLeft
  <2>2. CASE UNCHANGED sensorVars
    BY <1>2, <2>2 DEF sensorVars, wires, IInv, SensorTypeOK, LandingsLeft
  <2> QED BY <1>2, <2>1, <2>2
<1>3. IInv /\ IInv' /\ [SensorNext]_sensorVars /\ P1 =>
        /\ P1' \/ Off'
        /\ <<MainLoop>>_sensorVars => Off'
  BY <1>2
<1>4. IInv /\ IInv' /\ [SensorNext]_sensorVars /\ P2 =>
        /\ P2' \/ P1' \/ Off'
        /\ <<MainLoop>>_sensorVars => P1' \/ Off'
  BY <1>2
<1>5. IInv /\ IInv' /\ [SensorNext]_sensorVars /\ P3 =>
        /\ P3' \/ P2' \/ P1' \/ Off'
        /\ <<MainLoop>>_sensorVars => P2' \/ P1' \/ Off'
  BY <1>2
<1> HIDE DEF Off, P, P1, P2, P3
<1>6. SensorSpec /\ KeepsLanding => (cancelled /\ ~Off ~> Off)
  BY <1>1, <1>3, <1>4, <1>5, Invariant, PTL DEF SensorSpec, KeepsLanding, Off
<1> QED BY <1>6, PTL DEF CancelEnds, Off

(* When the finger leaves for good the wait for its removal ends, if the     *)
(* reader answers truthfully and the main loop keeps running.                *)
THEOREM RemovalNoticed ==
  ASSUME OddReplies = {}
  PROVE  SensorSpec /\ KeepsLanding => LiftNoticed
<1> DEFINE Off   == ssm = "off"
           Delay == ssm = "SCAN_9338_LIFT_DELAY"
           Poll  == ssm = "SCAN_9338_WAIT_LIFT"
           Out   == ssm \notin LiftStates
<1>1. Off => Out
  BY Groups DEF LiftStates
<1>2. Out \/ Delay \/ Poll
  BY DEF LiftStates
<1>3. ASSUME IInv, [SensorNext]_sensorVars, ~finger, ~Out, ~Out'
      PROVE  \/ Delay /\ Poll'
             \/ ssm' = ssm /\ ~<<MainLoop>>_sensorVars
  <2>1. CASE SensorNext
    BY <1>2, <1>3, <2>1, LiftStep DEF LiftRunsDown
  <2>2. CASE UNCHANGED sensorVars
    BY <1>2, <1>3, <2>2 DEF sensorVars, wires
  <2> QED BY <1>3, <2>1, <2>2
<1>4. ASSUME IInv, [SensorNext]_sensorVars, ~finger, Poll
      PROVE  (Poll' \/ Out') /\ (<<MainLoop>>_sensorVars => Out')
  BY <1>3, <1>4 DEF LiftStates
<1>5. ASSUME IInv, [SensorNext]_sensorVars, ~finger, Delay
      PROVE  (Delay' \/ Poll' \/ Out') /\ (<<MainLoop>>_sensorVars => Poll' \/ Out')
  BY <1>3, <1>5 DEF LiftStates
<1>6. IInv /\ [SensorNext]_sensorVars /\ ~finger /\ Poll =>
        (Poll' \/ Out') /\ (<<MainLoop>>_sensorVars => Out')
  BY <1>4
<1>7. IInv /\ [SensorNext]_sensorVars /\ ~finger /\ Delay =>
        (Delay' \/ Poll' \/ Out') /\ (<<MainLoop>>_sensorVars => Poll' \/ Out')
  BY <1>5
<1> HIDE DEF Off, Delay, Poll, Out
<1>8. SensorSpec /\ KeepsLanding => (<>[](~finger) => []<>Out)
  BY <1>1, <1>2, <1>6, <1>7, Invariant, PTL DEF SensorSpec, KeepsLanding, Off
<1> QED BY <1>8, PTL DEF LiftNoticed, Out
==============================================================================
