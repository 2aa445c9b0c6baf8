----------------------------- MODULE Ft9201Proofs -----------------------------
(***************************************************************************)
(* Proofs about the driver for every number of enrollment stages, every    *)
(* set of prints and galleries, and every engine the assumptions allow.    *)
(*                                                                         *)
(* First the driver is shown to keep its state machines within             *)
(* SensorSpec, which makes every theorem of SensorSsmProofs one about the  *)
(* driver.  On that rests the invariant that ties libfprint's current      *)
(* action to the machine that runs, and on both the refinement of          *)
(* FpDeviceContract.                                                       *)
(***************************************************************************)
EXTENDS Ft9201, SensorSsmProofs, MatchEngineProofs

\* The ways out of a scan that go on with another one.
Rescans == ScanRejected \/ SampleRejected \/ MoreSamples

LEMMA StepKeepsSensor == [Next]_vars => [SensorNext]_sensorVars
<1> SUFFICES ASSUME [Next]_vars PROVE SensorNext \/ UNCHANGED sensorVars
  BY DEF SensorNext
<1>1. CASE SsmRuns
  BY <1>1 DEF SsmRuns, SensorNext, MainLoop
<1>2. CASE InitSsmComplete
  BY <1>2 DEF InitSsmComplete, InitDone, SensorNext, MainLoop
<1>3. CASE InitSsmFailed \/ ScanFailed
  BY <1>3 DEF InitSsmFailed, ScanFailed, Fail, SensorNext, MainLoop
<1>4. CASE InitSsmAborts
  <2>1. InfoArrives /\ HostLost
    BY <1>4 DEF InitSsmAborts, DriverLost
  <2>2. Unseen /\ UNCHANGED finger
    BY <2>1 DEF InfoArrives, Unseen, BulkReads
  <2> QED BY <2>1, <2>2 DEF HostRestart, SensorNext
<1>5. CASE ScanWithoutEngine \/ IdentifyScan \/ VerifyScan \/ EnrollmentEnds
  BY <1>5 DEF ScanWithoutEngine, IdentifyScan, VerifyScan, EnrollmentEnds, EnrollScan,
     ScanDone, SensorNext, MainLoop
<1>6. CASE Rescans
  BY <1>6 DEF Rescans, ScanRejected, SampleRejected, MoreSamples, EnrollScan, Again,
     ScanDone, SensorNext, MainLoop
<1>7. CASE DevOpen \/ DevClose
  BY <1>7 DEF DevOpen, DevClose, SensorNext
<1>8. CASE DevOpenRefused \/ DevVerifyInvalid
  BY <1>8 DEF DevOpenRefused, DevVerifyInvalid
<1>9. CASE DevEnroll \/ DevVerify \/ DevIdentify
  BY <1>9 DEF DevEnroll, DevVerify, DevIdentify, SensorNext
<1>10. CASE World \/ Restarted
  BY <1>10 DEF World, Restarted, SensorNext
<1>11. CASE UNCHANGED vars
  BY <1>11 DEF vars
<1> QED
  BY <1>1, <1>2, <1>3, <1>4, <1>5, <1>6, <1>7, <1>8, <1>9, <1>10, <1>11
  DEF Next, HostNext, Rescans

(* Composed with its handlers the machines keep to SensorSsm's specification.*)
THEOREM KeepsSensor == Spec => KeepsSensorSpec
<1>1. Init => SensorInit
  BY DEF Init
<1> QED BY <1>1, StepKeepsSensor, PTL DEF Spec, KeepsSensorSpec, SensorSpec

(* Hence what is proved of the machines holds in the driver.                 *)
THEOREM SensorInvariant == Spec => []IInv
BY KeepsSensor, Invariant, PTL DEF KeepsSensorSpec

------------------------------------------------------------------------------
(* An enrollment that still waits for a frame is owed at least one stage.    *)
StageIsLeft == action = "enroll" => enrollDone < NrStages

(* The inductive invariant of the driver: the action libfprint waits for is  *)
(* the one the running machine's handler will answer.  BusyIffRunning alone  *)
(* is not inductive, since the handler picks the answer's kind from the two  *)
(* flags and not from the action.                                            *)
DInv ==
  /\ BusyIffRunning
  /\ action \in Actions
  /\ ssm \in ScanStates => action = Owner
  /\ enrollDone \in Nat /\ StageIsLeft

\* A step inside a machine leaves it in the same machine.
LEMMA SameMachine ==
  ASSUME IInv, SsmStep
  PROVE  /\ ssm' \in InitStates <=> ssm \in InitStates
         /\ ssm' \in ScanStates <=> ssm \in ScanStates
         /\ ssm' # "off" /\ ssm # "off"
         /\ UNCHANGED isOpen
<1>1. CASE CtrlAck
  BY <1>1, CtrlSuccessor, Groups DEF CtrlAck, Enter, memory
<1>2. CASE Timer
  BY <1>2, Groups DEF Timer, IInv, Delays, Enter, NextState, memory, InitStates,
     ScanStates, BeforeFrame, LiftStates
<1>3. CASE StatusRead
  BY <1>3, ReadSuccessor, Groups
     DEF StatusRead, Enter, memory, ScanStates, StatusReads,
     BeforeFrame, InitStates
<1>4. CASE FingerPolled \/ ImageRead \/ StillThere
  BY <1>4, Groups DEF FingerPolled, ImageRead, StillThere, Enter, NextState, memory,
     InitStates, ScanStates, BeforeFrame, LiftStates
<1> QED BY <1>1, <1>2, <1>3, <1>4 DEF SsmStep

\* The steps that leave the machine and the action alone.
LEMMA QuietStep ==
  ASSUME DInv, ssm' = ssm, action' = action, enrollDone' = enrollDone,
         ssm \in ScanStates => UNCHANGED <<isVerify, isIdentify>>
  PROVE  DInv'
BY DEF DInv, BusyIffRunning, StageIsLeft, Owner

\* Both ends of a machine at once: no action is left, no machine runs.
LEMMA IdleIsFine ==
  ASSUME ssm' = "off", action' = "none", enrollDone' \in Nat
  PROVE  DInv'
BY Groups DEF DInv, BusyIffRunning, StageIsLeft, Actions

\* A scan that begins or begins again for the action its handler will answer.
LEMMA ScanIsOwned ==
  ASSUME ssm' = "SCAN_9338_WAIT_DELAY", action' = Owner',
         enrollDone' \in Nat, action' = "enroll" => enrollDone' < NrStages
  PROVE  DInv'
<1>1. ssm' \in ScanStates \ (InitStates \cup {"off"})
  BY DEF ScanStates, BeforeFrame, InitStates
<1>2. action' \in {"enroll", "verify", "identify"}
  BY DEF Owner
<1> QED BY <1>1, <1>2 DEF DInv, BusyIffRunning, StageIsLeft, Actions

LEMMA LiftedScans ==
  ASSUME DInv, Lifted
  PROVE  ssm \in ScanStates /\ action = Owner
BY DEF DInv, Lifted, ScanStates, LiftStates

LEMMA InitDInv == Init => DInv
<1> SUFFICES ASSUME Init PROVE DInv
  OBVIOUS
<1> QED
  BY Groups DEF Init, SensorInit, DInv, BusyIffRunning, Actions, StageIsLeft

LEMMA NextDInv == IInv /\ DInv /\ [Next]_vars => DInv'
<1> SUFFICES ASSUME IInv, DInv, [Next]_vars PROVE DInv'
  OBVIOUS
<1> USE DEF Say
<1>1. CASE SsmRuns
  BY <1>1, SameMachine DEF SsmRuns, driverVars, flags, DInv, BusyIffRunning,
     StageIsLeft, Owner
<1>2. CASE InitSsmComplete \/ InitSsmFailed
  <2>1. ssm \in InitStates /\ ssm' = "off" /\ UNCHANGED enrollDone
    BY <1>2
       DEF InitSsmComplete, InitSsmFailed, InfoRead, InfoArrives, InitStates, Stop, flags
  <2>2. action = "open"
    BY <2>1 DEF DInv, BusyIffRunning
  <2>3. action' = "none"
    BY <1>2, <2>2 DEF InitSsmComplete, InitSsmFailed, Complete
  <2> QED BY <2>1, <2>3, IdleIsFine DEF DInv
<1>3. CASE InitSsmAborts \/ Restarted
  BY <1>3, IdleIsFine DEF InitSsmAborts, Restarted, DriverLost, HostLost, Stop
<1>4. CASE ScanFailed \/ ScanWithoutEngine
  <2>1. action = Owner /\ ssm' = "off" /\ UNCHANGED enrollDone
    BY <1>4, LiftedScans DEF ScanFailed, ScanWithoutEngine, DInv, Stop, flags
  <2>2. action' = "none"
    BY <1>4, <2>1 DEF ScanFailed, ScanWithoutEngine, Complete
  <2> QED BY <2>1, <2>2, IdleIsFine DEF DInv
<1>5. CASE ScanRejected
  <2>1. action = Owner /\ UNCHANGED <<isVerify, isIdentify, enrollDone>>
    BY <1>5, LiftedScans DEF ScanRejected, flags
  <2>2. CASE isIdentify
    <3>1. ssm' = "off" /\ action' = "none"
      BY <1>5, <2>1, <2>2 DEF ScanRejected, Stop, Complete, Owner
    <3> QED BY <2>1, <3>1, IdleIsFine DEF DInv
  <2>3. CASE ~isIdentify
    <3>1. ssm' = "SCAN_9338_WAIT_DELAY" /\ UNCHANGED action
      BY <1>5, <2>3 DEF ScanRejected, Again, Rescan, Enter
    <3> QED BY <2>1, <3>1, ScanIsOwned DEF DInv, StageIsLeft, Owner
  <2> QED BY <2>2, <2>3
<1>6. CASE IdentifyScan \/ VerifyScan
  <2>1. action = Owner /\ ssm' = "off" /\ UNCHANGED enrollDone
    BY <1>6, LiftedScans DEF IdentifyScan, VerifyScan, Stop, flags
  <2>2. action' = "none"
    BY <1>6, <2>1 DEF IdentifyScan, VerifyScan, Complete, Owner
  <2> QED BY <2>1, <2>2, IdleIsFine DEF DInv
<1>7. CASE SampleRejected \/ MoreSamples
  <2>1. action = Owner /\ UNCHANGED <<isVerify, isIdentify, action>>
    BY <1>7, LiftedScans DEF SampleRejected, MoreSamples, EnrollScan, Again, flags
  <2>2. ssm' = "SCAN_9338_WAIT_DELAY"
    BY <1>7 DEF SampleRejected, MoreSamples, Again, Rescan, Enter
  <2>3. enrollDone' \in Nat /\ (action' = "enroll" => enrollDone' < NrStages)
    BY <1>7, <2>1 DEF SampleRejected, MoreSamples, flags, DInv, StageIsLeft
  <2> QED BY <2>1, <2>2, <2>3, ScanIsOwned DEF Owner
<1>8. CASE EnrollmentEnds
  <2>1. action = "enroll" /\ ssm' = "off" /\ enrollDone' \in Nat
    BY <1>8, LiftedScans DEF EnrollmentEnds, EnrollScan, Owner, Stop, DInv
  <2>2. action' = "none"
    BY <1>8, <2>1 DEF EnrollmentEnds, Say, Complete, Enrolled
  <2> QED BY <2>1, <2>2, IdleIsFine
<1>9. CASE DevOpen
  <2>1. ssm' \in InitStates /\ action' = "open" /\ UNCHANGED enrollDone
    BY <1>9 DEF DevOpen, Begin, StartInit, Enter, InitStates, flags
  <2> QED BY <2>1, Groups DEF DInv, BusyIffRunning, Actions, StageIsLeft
<1>10. CASE DevOpenRefused \/ DevVerifyInvalid \/ DevClose
  <2>1. ssm' = "off" /\ action' = "none" /\ UNCHANGED enrollDone
    BY <1>10 DEF DevOpenRefused, DevVerifyInvalid, DevClose, FreeBuffers, wires,
       sensorVars, flags, DInv, BusyIffRunning
  <2> QED BY <2>1, IdleIsFine DEF DInv
<1>11. CASE DevEnroll \/ DevVerify \/ DevIdentify
  <2>1. ssm' = "SCAN_9338_WAIT_DELAY"
    BY <1>11 DEF DevEnroll, DevVerify, DevIdentify, FirstScan, Enter
  <2>2. action' = Owner'
    BY <1>11 DEF DevEnroll, DevVerify, DevIdentify, Begin, Owner
  <2>3. enrollDone' \in Nat /\ (action' = "enroll" => enrollDone' < NrStages)
    BY <1>11, DriverAssumption DEF DevEnroll, DevVerify, DevIdentify, Begin, DInv
  <2> QED BY <2>1, <2>2, <2>3, ScanIsOwned
<1>12. CASE World
  <2>1. ssm' = ssm /\ UNCHANGED <<action, isVerify, isIdentify, enrollDone>>
    BY <1>12 DEF World, Place, Lift, Cancel, wires, driverVars, flags
  <2> QED BY <2>1, QuietStep
<1>13. CASE UNCHANGED vars
  BY <1>13, QuietStep DEF vars, sensorVars, wires, driverVars, flags
<1> QED
  BY <1>1, <1>2, <1>3, <1>4, <1>5, <1>6, <1>7, <1>8, <1>9, <1>10, <1>11, <1>12, <1>13
  DEF Next, HostNext

THEOREM DriverInvariant == Spec => [](IInv /\ DInv)
BY InitDInv, NextDInv, SensorInvariant, PTL DEF Spec

(* libfprint waits exactly while a machine runs that will answer it.         *)
THEOREM Busy == Spec => []BusyIffRunning
<1>1. DInv => BusyIffRunning BY DEF DInv
<1> QED BY <1>1, DriverInvariant, PTL

(* An enrollment that waits for a frame is owed a stage, for every           *)
(* nr_enroll_stages.                                                         *)
THEOREM StageLeft == Spec => []StageIsLeft
<1>1. DInv => StageIsLeft BY DEF DInv
<1> QED BY <1>1, DriverInvariant, PTL
------------------------------------------------------------------------------
(* How far an action is from its answer.  SensorSsmProofs shows the measures *)
(* of the machines; here they are of what libfprint waits for.               *)
ActionRunsDown ==
  cancelled /\ action # "none" =>
    \/ action' = "none"
    \/ cancelled' /\ LandingsLeft' < LandingsLeft
    \/ cancelled' /\ ~HostNext /\ LandingsLeft' = LandingsLeft

OpenAdvances ==
  action = "open" =>
    \/ action' = "none"
    \/ action' = "open" /\ HandshakeLeft' < HandshakeLeft
    \/ action' = "open" /\ ~HostNext /\ ssm' = ssm

\* A step of the host is one of the main loop's, or ends the process.
LEMMA HostRunsMachine == HostNext => MainLoop \/ ssm' = "off"
BY DEF HostNext, SsmRuns, InitSsmComplete, InitSsmFailed, InitSsmAborts, DriverLost,
   HostLost, ScanFailed, ScanWithoutEngine, ScanRejected, IdentifyScan, VerifyScan,
   SampleRejected, MoreSamples, EnrollmentEnds, EnrollScan, Again, MainLoop, InitDone,
   ScanDone, Fail, Stop

\* An action ends with its machine.
LEMMA AnsweredWithMachine ==
  ASSUME DInv, DInv'
  PROVE  /\ action # "none" <=> ssm # "off"
         /\ ssm' = "off" => action' = "none"
         /\ action = "open" <=> ssm \in InitStates
         /\ ssm' \in InitStates => action' = "open"
BY DEF DInv, BusyIffRunning

LEMMA ActionStep ==
  ASSUME IInv, DInv, DInv', [Next]_vars, action # "none"
  PROVE  /\ ActionRunsDown
         /\ OpenAdvances
<1>1. ssm # "off" /\ (ssm' = "off" => action' = "none")
  BY AnsweredWithMachine
<1>2. CASE HostNext
  <2>1. CASE ssm' = "off"
    BY <1>1, <2>1 DEF ActionRunsDown, OpenAdvances
  <2>2. CASE ssm' # "off"
    <3>1. MainLoop
      BY <1>2, <2>2, HostRunsMachine
    <3>2. CancelRunsDown /\ HandshakeRunsDown
      BY <3>1, CancelStep, HandshakeStep DEF SensorNext
    <3> QED
      BY <1>1, <2>2, <3>1, <3>2, AnsweredWithMachine
      DEF ActionRunsDown, OpenAdvances, CancelRunsDown, HandshakeRunsDown
  <2> QED BY <2>1, <2>2
<1>3. CASE ~HostNext /\ SensorNext
  <2>1. CancelRunsDown /\ HandshakeRunsDown
    BY <1>3, CancelStep, HandshakeStep
  <2> QED
    BY <1>1, <1>3, <2>1, AnsweredWithMachine
    DEF ActionRunsDown, OpenAdvances, CancelRunsDown, HandshakeRunsDown
<1>4. CASE ~HostNext /\ UNCHANGED sensorVars
  <2>1. UNCHANGED <<ssm, flight, cancelled>>
    BY <1>4 DEF sensorVars, wires
  <2> QED
    BY <1>4, <2>1, AnsweredWithMachine DEF ActionRunsDown, OpenAdvances, LandingsLeft
<1> QED BY <1>2, <1>3, <1>4, StepKeepsSensor

(* A cancelled action is answered after at most three completions, although  *)
(* dev_cancel does nothing: what CancelIsAnswered needs beside fairness.     *)
THEOREM CancelledActionRunsDown == Spec => [][ActionRunsDown]_vars
<1>1. IInv /\ DInv /\ DInv' /\ [Next]_vars => [ActionRunsDown]_vars
  BY ActionStep DEF ActionRunsDown
<1> QED BY <1>1, DriverInvariant, PTL DEF Spec

(* An open is answered after at most five completions, for every reply of    *)
(* the reader and every outcome of the engine's open: what OpenIsAnswered    *)
(* needs beside fairness.                                                    *)
THEOREM OpenRunsToAnswer == Spec => [][OpenAdvances]_vars
<1>1. IInv /\ DInv /\ DInv' /\ [Next]_vars => [OpenAdvances]_vars
  BY ActionStep DEF OpenAdvances
<1> QED BY <1>1, DriverInvariant, PTL DEF Spec

\* What fairness is needed for: the main loop keeps running while a machine of
\* the driver waits for it.
HostKeepsRunning == []<>(ssm = "off") \/ []<><<HostNext>>_vars

(* A cancelled action is answered, if the main loop keeps running.           *)
THEOREM CancelledIsAnswered == Spec /\ HostKeepsRunning => CancelIsAnswered
<1> DEFINE Off  == ssm = "off"
           Idle == action = "none"
           P(k) == cancelled /\ ~Idle /\ LandingsLeft = k
           P1 == P(1)
           P2 == P(2)
           P3 == P(3)
<1>1. DInv /\ Off => Idle
  BY DEF DInv, BusyIffRunning
<1>2. IInv /\ DInv /\ cancelled /\ ~Idle => P1 \/ P2 \/ P3
  BY DEF IInv, DInv, BusyIffRunning, SensorTypeOK, LandingsLeft
<1>3. ASSUME IInv, DInv, IInv', DInv', [Next]_vars, cancelled, ~Idle, ~Idle'
      PROVE  /\ cancelled'
             /\ LandingsLeft' < LandingsLeft \/ LandingsLeft' = LandingsLeft
             /\ <<HostNext>>_vars => LandingsLeft' < LandingsLeft
             /\ LandingsLeft \in 1 .. 3 /\ LandingsLeft' \in 1 .. 3
  <2>1. LandingsLeft \in 1 .. 3 /\ LandingsLeft' \in 1 .. 3
    BY <1>3 DEF IInv, DInv, BusyIffRunning, SensorTypeOK, LandingsLeft
  <2>2. ActionRunsDown
    BY <1>3, ActionStep
  <2> QED BY <1>3, <2>1, <2>2 DEF ActionRunsDown
<1>4. IInv /\ DInv /\ IInv' /\ DInv' /\ [Next]_vars /\ P1 =>
        /\ P1' \/ Idle'
        /\ <<HostNext>>_vars => Idle'
  BY <1>3
<1>5. IInv /\ DInv /\ IInv' /\ DInv' /\ [Next]_vars /\ P2 =>
        /\ P2' \/ P1' \/ Idle'
        /\ <<HostNext>>_vars => P1' \/ Idle'
  BY <1>3
<1>6. IInv /\ DInv /\ IInv' /\ DInv' /\ [Next]_vars /\ P3 =>
        /\ P3' \/ P2' \/ P1' \/ Idle'
        /\ <<HostNext>>_vars => P2' \/ P1' \/ Idle'
  BY <1>3
<1> HIDE DEF Off, Idle, P, P1, P2, P3
<1>7. Spec /\ HostKeepsRunning => (cancelled /\ ~Idle ~> Idle)
  BY <1>1, <1>2, <1>4, <1>5, <1>6, DriverInvariant, PTL DEF Spec, HostKeepsRunning, Off
<1> QED BY <1>7, PTL DEF CancelIsAnswered, Idle

(* An open is answered, whatever the reader and the engine do, if the main   *)
(* loop keeps running.                                                       *)
THEOREM OpenAnswered == Spec /\ HostKeepsRunning => OpenIsAnswered
<1> DEFINE Off  == ssm = "off"
           Opens == action = "open"
           P(k) == Opens /\ HandshakeLeft = k
           P1 == P(1)
           P2 == P(2)
           P3 == P(3)
           P4 == P(4)
           P5 == P(5)
<1>1. DInv /\ Off => ~Opens
  BY DEF DInv, BusyIffRunning
<1>2. DInv /\ Opens => HandshakeLeft \in 1 .. 5
  BY DEF DInv, BusyIffRunning, InitStates, HandshakeLeft
<1>3. DInv /\ Opens => P1 \/ P2 \/ P3 \/ P4 \/ P5
  BY <1>2
<1>4. ASSUME IInv, DInv, DInv', [Next]_vars, Opens, Opens'
      PROVE  /\ HandshakeLeft' < HandshakeLeft \/ HandshakeLeft' = HandshakeLeft
             /\ <<HostNext>>_vars => HandshakeLeft' < HandshakeLeft
             /\ HandshakeLeft \in 1 .. 5 /\ HandshakeLeft' \in 1 .. 5
  <2>1. HandshakeLeft \in 1 .. 5 /\ HandshakeLeft' \in 1 .. 5
    BY <1>4 DEF DInv, BusyIffRunning, InitStates, HandshakeLeft
  <2>2. OpenAdvances
    BY <1>4, ActionStep
  <2>3. ssm' = ssm => HandshakeLeft' = HandshakeLeft
    BY DEF HandshakeLeft
  <2>4. \/ HandshakeLeft' < HandshakeLeft
        \/ HandshakeLeft' = HandshakeLeft /\ ~HostNext
    BY <1>4, <2>2, <2>3 DEF OpenAdvances
  <2> QED BY <2>1, <2>4
<1>5. IInv /\ DInv /\ DInv' /\ [Next]_vars /\ P1 =>
        (P1' \/ ~Opens') /\ (<<HostNext>>_vars => ~Opens')
  BY <1>4
<1>6. IInv /\ DInv /\ DInv' /\ [Next]_vars /\ P2 =>
        (P2' \/ P1' \/ ~Opens') /\ (<<HostNext>>_vars => P1' \/ ~Opens')
  BY <1>4
<1>7. IInv /\ DInv /\ DInv' /\ [Next]_vars /\ P3 =>
        /\ P3' \/ P2' \/ P1' \/ ~Opens'
        /\ <<HostNext>>_vars => P2' \/ P1' \/ ~Opens'
  BY <1>4
<1>8. IInv /\ DInv /\ DInv' /\ [Next]_vars /\ P4 =>
        /\ P4' \/ P3' \/ P2' \/ P1' \/ ~Opens'
        /\ <<HostNext>>_vars => P3' \/ P2' \/ P1' \/ ~Opens'
  BY <1>4
<1>9. IInv /\ DInv /\ DInv' /\ [Next]_vars /\ P5 =>
        /\ P5' \/ P4' \/ P3' \/ P2' \/ P1' \/ ~Opens'
        /\ <<HostNext>>_vars => P4' \/ P3' \/ P2' \/ P1' \/ ~Opens'
  BY <1>4
<1> HIDE DEF Off, Opens, P, P1, P2, P3, P4, P5
<1>10. Spec /\ HostKeepsRunning => (Opens ~> ~Opens)
  BY <1>1, <1>3, <1>5, <1>6, <1>7, <1>8, <1>9, DriverInvariant, PTL
     DEF Spec, HostKeepsRunning, Off
<1>11. ~Opens => action # "open"
  BY DEF Opens
<1> QED BY <1>10, <1>11, PTL DEF OpenIsAnswered, Opens

(* When the finger leaves for good the driver's wait for its removal ends,   *)
(* if the reader answers truthfully and the main loop keeps running.         *)
THEOREM DriverNoticesLift ==
  ASSUME OddReplies = {}
  PROVE  Spec /\ HostKeepsRunning => LiftNoticed
<1> DEFINE Off == ssm = "off"
<1>1. IInv /\ <<HostNext>>_vars => <<MainLoop>>_sensorVars \/ Off'
  BY HostRunsMachine, MainLoopMoves DEF sensorVars, wires
<1> HIDE DEF Off
<1>2. Spec /\ HostKeepsRunning => KeepsLanding
  BY <1>1, SensorInvariant, PTL DEF HostKeepsRunning, KeepsLanding, Off
<1> QED BY <1>2, KeepsSensor, RemovalNoticed, PTL DEF KeepsSensorSpec

------------------------------------------------------------------------------
(* The driver implements FpDeviceContract: one lemma per kind of step a      *)
(* client can see, then the step of the whole.                               *)

\* The handlers that answer the current action.
LEMMA Answered ==
  ASSUME NEW kind \in Actions \ {"none"}, NEW a \in Contract!Answers(kind),
         NEW w \in BOOLEAN, w => a = "enrolled",
         a = "enrolled" => w \/ (IF action = "enroll" THEN enrollDone ELSE 0) + 1 = NrStages,
         action = kind, action' = "none", told'.to = kind, told'.what = a, told'.whole = w,
         isOpen' = (isOpen \/ a = "ok"), cancelled' = cancelled
  PROVE  Contract!ContractNext
<1>1. Contract!Finish(kind)
  BY DEF Contract!Finish
<1> QED BY <1>1 DEF Contract!ContractNext, Actions

\* The vfuncs that start one.
LEMMA Started ==
  ASSUME NEW kind \in Actions \ {"none"}, action = "none", kind = "open" <=> ~isOpen,
         action' = kind, kind = "enroll" => enrollDone' = 0,
         cancelled' = FALSE, told' = Silence, isOpen' = isOpen
  PROVE  Contract!ContractNext
<1>1. Contract!Start(kind)
  BY DEF Contract!Start, Contract!MayStart, Contract!Nothing, Silence
<1> QED BY <1>1 DEF Contract!ContractNext, Actions

\* The loss of the process, and the abort inside an open.
LEMMA Lost ==
  ASSUME NEW e, DriverLost(e)
  PROVE  Contract!ContractNext
BY DEF DriverLost, HostLost, Silence, Contract!ContractNext, Contract!Die,
   Contract!Nothing

LEMMA InitContract == Init => Contract!ContractInit
BY DEF Init, SensorInit, Silence, Contract!ContractInit, Contract!Nothing

LEMMA StepContract ==
  ASSUME IInv, DInv, [Next]_vars
  PROVE  [Contract!ContractNext]_(Contract!contractVars)
<1> SUFFICES Contract!ContractNext \/ UNCHANGED Contract!contractVars
  OBVIOUS
<1> USE DEF Say
<1>1. CASE SsmRuns
  <2>1. UNCHANGED <<cancelled, isOpen, action, told, enrollDone>>
    BY <1>1, SameMachine
       DEF SsmRuns, SsmStep, Timer, CtrlAck, FingerPolled, StatusRead,
       ImageRead, StillThere, driverVars, flags
  <2> QED BY <2>1 DEF Contract!contractVars
<1>2. CASE InitSsmComplete
  <2>1. action = "open" /\ isOpen' = TRUE /\ cancelled' = cancelled
    BY <1>2
       DEF InitSsmComplete, InfoRead, InfoArrives, InitStates, DInv, BusyIffRunning
  <2>2. action' = "none" /\ told'.to = "open" /\ told'.what = "ok" /\ told'.whole = FALSE
    BY <1>2, <2>1 DEF InitSsmComplete, Complete
  <2> QED BY <2>1, <2>2, Answered DEF Contract!Answers, Actions
<1>3. CASE InitSsmFailed
  <2>1. action = "open" /\ isOpen' = isOpen /\ cancelled' = cancelled
    BY <1>3 DEF InitSsmFailed, Failed, memory, DInv, BusyIffRunning
  <2>2. /\ action' = "none" /\ told'.to = "open" /\ told'.what = "error"
        /\ told'.whole = FALSE
    BY <1>3, <2>1 DEF InitSsmFailed, Complete
  <2>3. isOpen' = (isOpen \/ told'.what = "ok")
    BY <2>1, <2>2 DEF IInv, SensorTypeOK
  <2> QED BY <2>1, <2>2, <2>3, Answered DEF Contract!Answers, Actions
<1>4. CASE InitSsmAborts \/ Restarted
  BY <1>4, Lost DEF InitSsmAborts, Restarted
<1>5. ASSUME NEW a \in {"match", "nomatch", "invalid", "error", "retry"},
             a \in Contract!Answers(Owner), action = Owner, action' = "none",
             told'.to = Owner, told'.what = a, told'.whole = FALSE,
             UNCHANGED <<isOpen, cancelled>>
      PROVE  Contract!ContractNext
  <2>1. Owner \in Actions \ {"none"}
    BY DEF Owner, Actions
  <2>2. isOpen' = (isOpen \/ a = "ok")
    BY <1>5 DEF IInv, SensorTypeOK
  <2> QED BY <1>5, <2>1, <2>2, Answered
<1>6. CASE ScanFailed \/ ScanWithoutEngine
  <2>1. action = Owner /\ UNCHANGED <<isOpen, cancelled>>
    BY <1>6, LiftedScans
       DEF ScanFailed, ScanWithoutEngine, Failed, Lifted, memory, DInv
  <2>2. action' = "none" /\ told'.to = Owner /\ told'.what = "error" /\ told'.whole = FALSE
    BY <1>6, <2>1 DEF ScanFailed, ScanWithoutEngine, Complete
  <2>3. "error" \in Contract!Answers(Owner)
    BY DEF Contract!Answers, Owner
  <2> QED BY <1>5, <2>1, <2>2, <2>3
<1>7. CASE ScanRejected
  <2>1. action = Owner /\ UNCHANGED <<isOpen, cancelled, enrollDone>>
    BY <1>7, LiftedScans DEF ScanRejected, Lifted, flags
  <2>2. CASE isIdentify
    <3>1. Owner = "identify"
      BY <2>2 DEF Owner
    <3>2. /\ action' = "none" /\ told'.to = Owner /\ told'.what = "retry"
          /\ told'.whole = FALSE
      BY <1>7, <2>1, <2>2, <3>1 DEF ScanRejected, Complete
    <3>3. "retry" \in Contract!Answers(Owner)
      BY <3>1 DEF Contract!Answers
    <3> QED BY <1>5, <2>1, <3>2, <3>3
  <2>3. CASE ~isIdentify
    BY <1>7, <2>1, <2>3 DEF ScanRejected, Again, Contract!contractVars
  <2> QED BY <2>2, <2>3
<1>8. CASE IdentifyScan
  <2>1. action = Owner /\ Owner = "identify" /\ UNCHANGED <<isOpen, cancelled>>
    BY <1>8, LiftedScans DEF IdentifyScan, Lifted, Owner
  <2>2. PICK a \in {"invalid", "match", "nomatch"} :
          action' = "none" /\ told'.to = Owner /\ told'.what = a /\ told'.whole = FALSE
    BY <1>8, <2>1 DEF IdentifyScan, Complete
  <2>3. a \in Contract!Answers(Owner)
    BY <2>1 DEF Contract!Answers
  <2> QED BY <1>5, <2>1, <2>2, <2>3
<1>9. CASE VerifyScan
  <2>1. action = Owner /\ Owner = "verify" /\ UNCHANGED <<isOpen, cancelled>>
    BY <1>9, LiftedScans DEF VerifyScan, Lifted, Owner
  <2>2. PICK a \in {"match", "nomatch"} :
          action' = "none" /\ told'.to = Owner /\ told'.what = a /\ told'.whole = FALSE
    BY <1>9, <2>1 DEF VerifyScan, Complete
  <2>3. a \in Contract!Answers(Owner)
    BY <2>1 DEF Contract!Answers
  <2> QED BY <1>5, <2>1, <2>2, <2>3
<1>10. CASE SampleRejected
  BY <1>10 DEF SampleRejected, EnrollScan, Lifted, Again, flags, Contract!contractVars
<1>11. CASE MoreSamples
  <2>1. action = "enroll" /\ UNCHANGED <<isOpen, cancelled, action, told>>
    BY <1>11, LiftedScans DEF MoreSamples, EnrollScan, Owner, Lifted, Again
  <2>2. Contract!Stage
    BY <1>11, <2>1 DEF MoreSamples, Contract!Stage
  <2> QED BY <2>2 DEF Contract!ContractNext
<1>12. CASE EnrollmentEnds
  <2>1. action = Owner /\ Owner = "enroll" /\ UNCHANGED <<isOpen, cancelled>>
    BY <1>12, LiftedScans DEF EnrollmentEnds, EnrollScan, Lifted, Owner
  <2>2. PICK u \in Updated :
          /\ enrollDone' < NrStages => u[2] = 0
          /\ \E c \in EnrollCommit(u[1], Main) :
               IF c[2] = 0 THEN Enrolled(c[1].rec, u[2] = 0) ELSE Say("enroll", "error")
    BY <1>12 DEF EnrollmentEnds
  <2>3. CASE Say("enroll", "error")
    <3>1. action' = "none" /\ told'.to = Owner /\ told'.what = "error" /\ told'.whole = FALSE
      BY <2>1, <2>3 DEF Complete
    <3>2. "error" \in Contract!Answers(Owner)
      BY <2>1 DEF Contract!Answers
    <3> QED BY <1>5, <2>1, <3>1, <3>2
  <2>4. ASSUME NEW rec, Enrolled(rec, u[2] = 0) PROVE Contract!ContractNext
    <3> DEFINE w == u[2] = 0
    <3>1. /\ action' = "none"
          /\ told' = [Silence EXCEPT !.to = "enroll", !.what = "enrolled",
                                     !.rec = rec, !.whole = w]
      BY <2>1, <2>4 DEF Enrolled
    <3>2. /\ told'.to = "enroll" /\ told'.what = "enrolled" /\ told'.whole = w
      BY <3>1, Zenon DEF Silence
    <3>3. w \/ enrollDone + 1 = NrStages
      BY <1>12, <2>1, <2>2, DriverAssumption DEF EnrollmentEnds, DInv, StageIsLeft
    <3>4. w \in BOOLEAN
      OBVIOUS
    <3> HIDE DEF w
    <3>5. /\ action = "enroll" /\ "enrolled" \in Contract!Answers("enroll")
          /\ "enroll" \in Actions \ {"none"}
      BY <2>1 DEF Contract!Answers, Actions
    <3>6. isOpen' = (isOpen \/ "enrolled" = "ok")
      BY <2>1 DEF IInv, SensorTypeOK
    <3> QED BY <2>1, <3>1, <3>2, <3>3, <3>4, <3>5, <3>6, Answered
  <2> QED BY <2>2, <2>3, <2>4
<1>13. CASE DevOpen
  BY <1>13, Started DEF DevOpen, Begin, StartInit, memory, Actions
<1>14. CASE DevEnroll \/ DevVerify \/ DevIdentify
  <2>1. PICK kind \in {"enroll", "verify", "identify"} :
          /\ action = "none" /\ action' = kind /\ told' = Silence
          /\ kind = "enroll" => enrollDone' = 0
    BY <1>14 DEF DevEnroll, DevVerify, DevIdentify, Begin
  <2>2. isOpen /\ isOpen' = isOpen /\ cancelled' = FALSE
    BY <1>14 DEF DevEnroll, DevVerify, DevIdentify, FirstScan
  <2> QED BY <2>1, <2>2, Started DEF Actions
<1>15. CASE DevOpenRefused
  <2>1. Contract!Refuse("open")
    BY <1>15 DEF DevOpenRefused, Silence, sensorVars, wires, memory, Contract!Refuse,
       Contract!MayStart
  <2> QED BY <2>1 DEF Contract!ContractNext
<1>16. CASE DevVerifyInvalid
  <2>1. Contract!Refuse("verify")
    BY <1>16
       DEF DevVerifyInvalid, Silence, sensorVars, wires, memory, Contract!Refuse,
       Contract!MayStart
  <2> QED BY <2>1 DEF Contract!ContractNext
<1>17. CASE DevClose
  <2>1. Contract!Close
    BY <1>17
       DEF DevClose, FreeBuffers, Silence, wires, Contract!Close, Contract!Nothing
  <2> QED BY <2>1 DEF Contract!ContractNext
<1>18. CASE World
  <2>1. UNCHANGED <<action, told, enrollDone, isOpen>>
    BY <1>18 DEF World, Place, Lift, Cancel, memory, driverVars, flags
  <2>2. CASE Cancel
    <3>1. Contract!CancelAction
      BY <2>1, <2>2 DEF Cancel, DInv, BusyIffRunning, Contract!CancelAction
    <3> QED BY <3>1 DEF Contract!ContractNext
  <2>3. CASE Place \/ Lift
    BY <2>1, <2>3 DEF Place, Lift, wires, Contract!contractVars
  <2> QED BY <1>18, <2>2, <2>3 DEF World
<1>19. CASE UNCHANGED vars
  BY <1>19
     DEF vars, sensorVars, wires, memory, driverVars, flags, Contract!contractVars
<1> QED
  BY <1>1, <1>2, <1>3, <1>4, <1>6, <1>7, <1>8, <1>9, <1>10, <1>11, <1>12, <1>13,
     <1>14, <1>15, <1>16, <1>17, <1>18, <1>19 DEF Next, HostNext

(* The driver implements the contract, for every number of stages: each      *)
(* action is answered at most once, with an answer of its own kind, and a    *)
(* cancelled or failed one leaves no stage behind.                           *)
THEOREM Implements == Spec => ImplementsContract
BY InitContract, StepContract, DriverInvariant, PTL
DEF Spec, ImplementsContract, Contract!ContractSpec
------------------------------------------------------------------------------
(* The gallery loop of identify, for galleries of every length.              *)

\* The gallery loop's recursive function exists: there is no least number of
\* prints for which it does not.
LEMMA WalkDefined ==
  ASSUME NEW g \in Seq(Prints), NEW e0, NEW alike
  PROVE  LET walk == GalleryWalk(g, e0, alike) IN
         /\ walk[0] = <<e0, {}, FALSE>>
         /\ \A n \in 1 .. Len(g) : walk[n] = GalleryTurn(walk[n - 1], g[n], alike)
<1> DEFINE Val(f, n) == IF n = 0 THEN <<e0, {}, FALSE>>
                     ELSE GalleryTurn(f[n - 1], g[n], alike)
           Def(f, m) == f = [n \in 0 .. m |-> Val(f, n)]
           T == {m \in 0 .. Len(g) : ~ \E f : Def(f, m)}
<1>0. Len(g) \in Nat
  OBVIOUS
<1>1. T = {}
  <2> SUFFICES ASSUME T # {} PROVE FALSE
    OBVIOUS
  <2>0. T \subseteq Nat
    <3> HIDE DEF Def
    <3> QED BY <1>0
  <2> HIDE DEF T
  <2>1. PICK m \in T : \A k \in T : m <= k
    BY <2>0, LeastNat
  <2>2. m \in 0 .. Len(g) /\ ~ \E f : Def(f, m)
    BY <2>1 DEF T
  <2>3. CASE m = 0
    <3> DEFINE f == [n \in 0 .. 0 |-> <<e0, {}, FALSE>>]
    <3>1. Def(f, 0)
      OBVIOUS
    <3> QED BY <2>2, <2>3, <3>1
  <2>4. CASE m # 0
    <3>1. m - 1 \in 0 .. Len(g) /\ m - 1 \notin T /\ m \in Nat /\ m - 1 \in Nat
      BY <1>0, <2>0, <2>1, <2>2, <2>4
    <3>2. PICK f : Def(f, m - 1)
      BY <3>1 DEF T
    <3> DEFINE h == [n \in 0 .. m |-> IF n = m THEN Val(f, m) ELSE f[n]]
    <3>3. \A n \in 0 .. m - 1 : h[n] = f[n]
      BY <3>1
    <3>4. \A n \in 0 .. m - 1 : f[n] = Val(f, n)
      BY <3>2
    <3>5. \A n \in 0 .. m : h[n] = Val(h, n)
      <4> TAKE n \in 0 .. m
      <4>1. n # 0 => h[n - 1] = f[n - 1]
        BY <3>1, <3>3
      <4>2. Val(h, n) = Val(f, n)
        BY <4>1
      <4>3. CASE n = m
        BY <4>2, <4>3
      <4>4. CASE n # m
        <5>1. n \in 0 .. m - 1
          BY <3>1, <4>4
        <5> QED BY <3>3, <3>4, <4>2, <5>1
      <4> QED BY <4>3, <4>4
    <3>6. Def(h, m)
      <4> DEFINE q == [n \in 0 .. m |-> Val(h, n)]
      <4>1. \A n \in 0 .. m : h[n] = q[n]
        BY <3>5
      <4>2. h = [n \in 0 .. m |-> h[n]]
        OBVIOUS
      <4> HIDE DEF h, Val
      <4> QED BY <4>1, <4>2
    <3> QED BY <2>2, <3>6
  <2> QED BY <2>3, <2>4
<1>2. PICK f : Def(f, Len(g))
  <2> HIDE DEF Def
  <2> QED BY <1>0, <1>1
<1>3. GalleryWalk(g, e0, alike) = CHOOSE w : Def(w, Len(g))
  BY Zenon DEF GalleryWalk
<1> DEFINE w == GalleryWalk(g, e0, alike)
<1>4. Def(w, Len(g))
  <2> HIDE DEF Def
  <2> QED BY <1>2, <1>3
<1>5. \A n \in 0 .. Len(g) : w[n] = Val(w, n)
  <2> HIDE DEF w, Val
  <2> QED BY <1>4
<1> HIDE DEF w
<1>6. w[0] = <<e0, {}, FALSE>>
  <2>1. 0 \in 0 .. Len(g)
    BY <1>0
  <2>2. Val(w, 0) = <<e0, {}, FALSE>>
    OBVIOUS
  <2> HIDE DEF Val
  <2> QED BY <1>5, <2>1, <2>2
<1>7. \A n \in 1 .. Len(g) : w[n] = GalleryTurn(w[n - 1], g[n], alike)
  BY <1>0, <1>5
<1> QED BY <1>6, <1>7 DEF w

EngRecs == EngineRecords(Templates, Tags, {Main})

\* One template compared: what Verifies says of the driver's engine.
LEMMA Compared ==
  ASSUME NEW e \in EngRecs, e.iface, e.frame.purpose = 1,
         NEW t \in Prints, t # Malformed, NEW alike \in SUBSET Templates
  PROVE  LET v == VerifyTemplate(e, Main, t, alike)   r == v[1] IN
         /\ r \in EngRecs /\ r.iface /\ r.misuse = e.misuse /\ r.pend = e.pend
         /\ r.loaded = e.loaded /\ r.dead = e.dead /\ r.frame = e.frame
         /\ v[2] = 1 <=> t \in alike
         /\ t # Unusable => r.rec = {t}
<1>1. t \in Templates \cup {Unusable} /\ Unusable \notin alike /\ Main \in {Main}
  BY DriverAssumption DEF Prints
<1> DEFINE v == VerifyTemplate(e, Main, t, alike)
<1>2. /\ v[1] \in EngRecs /\ v[1].iface /\ v[1].misuse = e.misuse
      /\ v[1].loaded = e.loaded /\ v[1].dead = e.dead
  <2>1. v[1] \in EngRecs BY <1>1, Verifies DEF EngRecs
  <2>2. v[1].iface BY <1>1, Verifies DEF EngRecs
  <2>3. v[1].misuse = e.misuse BY <1>1, Verifies DEF EngRecs
  <2>4. v[1].loaded = e.loaded BY <1>1, Verifies DEF EngRecs
  <2>5. v[1].dead = e.dead BY <1>1, Verifies DEF EngRecs
  <2> QED BY <2>1, <2>2, <2>3, <2>4, <2>5
<1>3. /\ v[1].pend = e.pend /\ v[1].frame = e.frame
      /\ v[2] = 1 <=> t # Unusable /\ t \in alike
      /\ t # Unusable => v[1].rec = {t}
  BY <1>1, Verifies DEF EngRecs
<1> HIDE DEF v
<1> QED BY <1>1, <1>2, <1>3 DEF v

\* What the gallery loop holds after n prints.
WalkHolds(g, e0, alike, w, n) ==
  LET Stops == alike \cup {Malformed}
      At(i) == g[i] \in Stops /\ \A j \in 1 .. i - 1 : g[j] \notin Stops
  IN  /\ w[1] \in EngRecs /\ w[1].iface /\ w[1].misuse = e0.misuse
      /\ w[1].pend = e0.pend /\ w[1].loaded = e0.loaded /\ w[1].dead = e0.dead /\ w[1].frame = e0.frame
      /\ w[3] \in BOOLEAN
      /\ w[2] = {} /\ ~w[3] => \A i \in 1 .. n : g[i] \notin Stops
      /\ w[2] # {} => ~w[3] /\ \E i \in 1 .. n : At(i) /\ g[i] \in alike /\ w[2] = {g[i]}
      /\ w[3] => w[2] = {} /\ \E i \in 1 .. n : At(i) /\ g[i] = Malformed

\* One more turn of the loop.
LEMMA TurnHolds ==
  ASSUME NEW g \in Seq(Prints), NEW alike \in SUBSET Templates,
         NEW e0 \in EngRecs, e0.iface, e0.frame.purpose = 1,
         NEW n \in 1 .. Len(g), NEW w, WalkHolds(g, e0, alike, w, n - 1)
  PROVE  WalkHolds(g, e0, alike, GalleryTurn(w, g[n], alike), n)
<1> DEFINE Stops == alike \cup {Malformed}
           At(i) == g[i] \in Stops /\ \A j \in 1 .. i - 1 : g[j] \notin Stops
           t == GalleryTurn(w, g[n], alike)
<1>1. Len(g) \in Nat /\ g[n] \in Prints /\ n \in Nat /\ Malformed \notin alike
  BY DriverAssumption
<1>2. \A i \in 1 .. n - 1 : i \in 1 .. n
  BY <1>1
<1>3. /\ w[1] \in EngRecs /\ w[1].iface /\ w[1].misuse = e0.misuse
      /\ w[1].pend = e0.pend /\ w[1].loaded = e0.loaded /\ w[1].dead = e0.dead /\ w[1].frame = e0.frame
      /\ w[3] \in BOOLEAN
      /\ w[2] = {} /\ ~w[3] => \A i \in 1 .. n - 1 : g[i] \notin Stops
      /\ w[2] # {} => ~w[3] /\ \E i \in 1 .. n - 1 : At(i) /\ g[i] \in alike /\ w[2] = {g[i]}
      /\ w[3] => w[2] = {} /\ \E i \in 1 .. n - 1 : At(i) /\ g[i] = Malformed
  BY DEF WalkHolds
<1>4. SUFFICES
      /\ t[1] \in EngRecs /\ t[1].iface /\ t[1].misuse = e0.misuse
      /\ t[1].pend = e0.pend /\ t[1].loaded = e0.loaded /\ t[1].dead = e0.dead /\ t[1].frame = e0.frame
      /\ t[3] \in BOOLEAN
      /\ t[2] = {} /\ ~t[3] => \A i \in 1 .. n : g[i] \notin Stops
      /\ t[2] # {} => ~t[3] /\ \E i \in 1 .. n : At(i) /\ g[i] \in alike /\ t[2] = {g[i]}
      /\ t[3] => t[2] = {} /\ \E i \in 1 .. n : At(i) /\ g[i] = Malformed
  BY DEF WalkHolds
<1> HIDE DEF At
<1>5. CASE w[2] # {} \/ w[3]
  <2>1. t = w
    BY <1>5 DEF GalleryTurn
  <2> HIDE DEF t
  <2> QED BY <1>2, <1>3, <1>5, <2>1
<1>6. CASE ~(w[2] # {} \/ w[3])
  <2>1. \A i \in 1 .. n - 1 : g[i] \notin Stops
    BY <1>3, <1>6
  <2>2. g[n] \in Stops => At(n)
    BY <2>1 DEF At
  <2>3. n \in 1 .. n
    BY <1>1
  <2>4. CASE g[n] = Malformed
    <3>1. t = <<w[1], {}, TRUE>>
      BY <1>6, <2>4 DEF GalleryTurn
    <3>2. t[1] = w[1] /\ t[2] = {} /\ t[3] = TRUE
      BY <3>1
    <3> HIDE DEF t
    <3> QED BY <1>3, <2>2, <2>3, <2>4, <3>2
  <2>5. CASE g[n] # Malformed
    <3> DEFINE v == VerifyTemplate(w[1], Main, g[n], alike)
    <3>1. t = <<v[1], IF v[2] = 1 THEN {g[n]} ELSE {}, FALSE>>
      BY <1>6, <2>5 DEF GalleryTurn
    <3>2. t[1] = v[1] /\ t[2] = (IF v[2] = 1 THEN {g[n]} ELSE {}) /\ t[3] = FALSE
      BY <3>1
    <3>3. /\ v[1] \in EngRecs /\ v[1].iface /\ v[1].misuse = e0.misuse
          /\ v[1].pend = e0.pend /\ v[1].loaded = e0.loaded /\ v[1].dead = e0.dead /\ v[1].frame = e0.frame
          /\ v[2] = 1 <=> g[n] \in alike
      <4>1. w[1].frame.purpose = 1
        BY <1>3
      <4> QED BY <1>1, <1>3, <2>5, <4>1, Compared
    <3> HIDE DEF t, v
    <3>4. CASE g[n] \in alike
      BY <2>2, <2>3, <3>2, <3>3, <3>4
    <3>5. CASE g[n] \notin alike
      <4>1. g[n] \notin Stops
        BY <2>5, <3>5
      <4>2. \A i \in 1 .. n : i \in 1 .. n - 1 \/ i = n
        BY <1>1
      <4> QED BY <2>1, <3>2, <3>3, <3>5, <4>1, <4>2
    <3> QED BY <3>4, <3>5
  <2> QED BY <2>4, <2>5
<1> QED BY <1>5, <1>6

\* Hence all of them.
LEMMA Walked ==
  ASSUME NEW g \in Seq(Prints), NEW alike \in SUBSET Templates,
         NEW e0 \in EngRecs, e0.iface, e0.frame.purpose = 1
  PROVE  WalkHolds(g, e0, alike, GalleryWalk(g, e0, alike)[Len(g)], Len(g))
<1> DEFINE walk == GalleryWalk(g, e0, alike)
           T == {n \in 0 .. Len(g) : ~WalkHolds(g, e0, alike, walk[n], n)}
<1>1. Len(g) \in Nat
  OBVIOUS
<1>2. /\ walk[0] = <<e0, {}, FALSE>>
      /\ \A n \in 1 .. Len(g) : walk[n] = GalleryTurn(walk[n - 1], g[n], alike)
  BY WalkDefined
<1> HIDE DEF walk
<1>3. SUFFICES ASSUME T # {} PROVE FALSE
  BY <1>1 DEF walk
<1>4. T \subseteq Nat
  BY <1>1
<1> HIDE DEF T
<1>5. PICK m \in T : \A k \in T : m <= k
  BY <1>3, <1>4, LeastNat
<1>6. m \in 0 .. Len(g) /\ ~WalkHolds(g, e0, alike, walk[m], m)
  BY <1>5 DEF T
<1>7. CASE m = 0
  <2> DEFINE z == <<e0, {}, FALSE>>
  <2>1. z[1] = e0 /\ z[2] = {} /\ z[3] = FALSE /\ walk[0] = z
    BY <1>2
  <2>2. \A i \in 1 .. 0 : FALSE
    OBVIOUS
  <2> HIDE DEF z
  <2>3. WalkHolds(g, e0, alike, z, 0)
    BY <2>1, <2>2 DEF WalkHolds
  <2> QED BY <1>6, <1>7, <2>1, <2>3
<1>8. CASE m # 0
  <2>1. m \in 1 .. Len(g) /\ m - 1 \in 0 .. Len(g) /\ m - 1 \notin T
    BY <1>1, <1>4, <1>5, <1>6, <1>8
  <2>2. WalkHolds(g, e0, alike, walk[m - 1], m - 1)
    BY <2>1 DEF T
  <2>3. WalkHolds(g, e0, alike, GalleryTurn(walk[m - 1], g[m], alike), m)
    BY <2>1, <2>2, TurnHolds
  <2> QED BY <1>2, <1>6, <2>1, <2>3
<1> QED BY <1>7, <1>8
------------------------------------------------------------------------------
(* The driver's use of the engine, and its answers.                          *)

\* The passing of time, for the frames the driver's engine holds.
LEMMA GrownOlder ==
  ASSUME NEW e \in EngRecs
  PROVE  /\ Relabel(e, Older) \in EngRecs
         /\ Relabel(e, Older).iface = e.iface
         /\ Relabel(e, Older).loaded = e.loaded /\ Relabel(e, Older).dead = e.dead
         /\ Relabel(e, Older).folds = e.folds /\ Relabel(e, Older).refused = e.refused
         /\ Relabel(e, Older).misuse = e.misuse
         /\ e.pend \subseteq {"scan", "op"} => Relabel(e, Older).pend \subseteq {"scan", "op"}
<1> DEFINE R == {Older(x) : x \in e.rec}
           P == {Older(x) : x \in e.pend}
           f == [e.frame EXCEPT !.tag = Older(@)]
<1>1. R \in SUBSET (Templates \cup Tags) /\ P \in SUBSET Tags
  BY DEF Older, EngRecs, EngineRecords, Tags
<1>2. f \in [tag : Tags \cup {"none"}, purpose : {0, 1, 4}]
  BY DEF Older, EngRecs, EngineRecords, Tags
<1>3. e.pend \subseteq {"scan", "op"} => P \subseteq {"scan", "op"}
  BY DEF Older
<1>4. Relabel(e, Older) = [e EXCEPT !.rec = R, !.pend = P, !.frame = f]
  BY DEF Relabel, EngRecs, EngineRecords
<1> DEFINE z == [e EXCEPT !.rec = R, !.pend = P, !.frame = f]
<1> HIDE DEF R, P, f
<1>5. /\ z.iface = e.iface /\ z.loaded = e.loaded /\ z.dead = e.dead
      /\ z.misuse = e.misuse /\ z.folds = e.folds /\ z.pend = P
      /\ z.refused = e.refused
  BY DEF EngRecs, EngineRecords
<1>6. z \in EngRecs
  BY <1>1, <1>2 DEF EngRecs, EngineRecords
<1> QED BY <1>3, <1>4, <1>5, <1>6

LEMMA AllForgotten ==
  ASSUME NEW e \in EngRecs
  PROVE  /\ Relabel(e, Forgotten) \in EngRecs
         /\ Relabel(e, Forgotten).iface = e.iface
         /\ Relabel(e, Forgotten).loaded = e.loaded /\ Relabel(e, Forgotten).dead = e.dead
         /\ Relabel(e, Forgotten).misuse = e.misuse
<1> DEFINE R == {Forgotten(x) : x \in e.rec}
           P == {Forgotten(x) : x \in e.pend}
           f == [e.frame EXCEPT !.tag = Forgotten(@)]
<1>1. R \in SUBSET (Templates \cup Tags) /\ P \in SUBSET Tags
  BY DEF Forgotten, EngRecs, EngineRecords, Tags
<1>2. f \in [tag : Tags \cup {"none"}, purpose : {0, 1, 4}]
  BY DEF Forgotten, EngRecs, EngineRecords, Tags
<1>4. Relabel(e, Forgotten) = [e EXCEPT !.rec = R, !.pend = P, !.frame = f]
  BY DEF Relabel, EngRecs, EngineRecords
<1> DEFINE z == [e EXCEPT !.rec = R, !.pend = P, !.frame = f]
<1> HIDE DEF R, P, f
<1>5. /\ z.iface = e.iface /\ z.loaded = e.loaded /\ z.dead = e.dead
      /\ z.misuse = e.misuse /\ z.folds = e.folds /\ z.pend = P
      /\ z.refused = e.refused
  BY DEF EngRecs, EngineRecords
<1>6. z \in EngRecs
  BY <1>1, <1>2 DEF EngRecs, EngineRecords
<1> QED BY <1>4, <1>5, <1>6

Usable(e) == e \in EngRecs /\ e.iface /\ ~e.misuse

\* The driver's flags, its request and what it holds of the engine.
AInv ==
  /\ eng \in EngRecs /\ ~eng.misuse /\ (eng.loaded => eng.iface)
  /\ engineOk \in BOOLEAN /\ (engineOk => eng.iface)
  /\ isVerify \in BOOLEAN /\ isIdentify \in BOOLEAN
  /\ tmplBlob \in Prints /\ request \in Seq(Prints) /\ told \in Replies
  /\ action = "verify" => request = <<tmplBlob>> /\ tmplBlob # Malformed
  /\ VerifyAnswersRequest
  /\ IdentifyAnswersGallery

\* The frame a finished scan offers, and what the engine is after it.
LEMMA ScanAccepted ==
  ASSUME IInv, AInv, engineOk, Lifted, NEW a \in AcceptScan
  PROVE  /\ Usable(a[1]) /\ a[1].pend = eng.pend /\ a[1].dead = eng.dead
         /\ a[1].folds = eng.folds /\ a[1].refused = eng.refused
         /\ a[2] = 0 => a[1].frame = [tag |-> "scan",
                                      purpose |-> IF isVerify \/ isIdentify THEN 1 ELSE 4]
<1>1. image = "scan" /\ eng \in EngRecs /\ eng.iface /\ ~eng.misuse
  BY DEF Lifted, IInv, FreshFrame, LiftStates, AInv
<1> DEFINE p == IF isVerify \/ isIdentify THEN 1 ELSE 4
<1>2. a \in Accept(eng, Main, "scan", p) /\ p \in {1, 4}
  BY <1>1 DEF AcceptScan
<1> HIDE DEF p
<1>3. "scan" \in Tags /\ Main \in {Main}
  BY DEF Tags
<1>4. /\ Usable(a[1]) /\ a[1].pend = eng.pend /\ a[1].dead = eng.dead
      /\ a[1].folds = eng.folds /\ a[1].refused = eng.refused
      /\ a[2] = 0 => a[1].frame.tag = "scan" /\ a[1].frame.purpose = p
  BY <1>1, <1>2, <1>3, Accepts DEF EngRecs, Usable
<1>5. a[1].frame \in [tag : Tags \cup {"none"}, purpose : {0, 1, 4}]
  BY <1>4 DEF Usable, EngRecs, EngineRecords
<1> QED BY <1>4, <1>5 DEF p

LEMMA ScanFolded ==
  ASSUME IInv, AInv, EnrollScan, NEW u \in Updated
  PROVE  /\ Usable(u[1]) /\ u[1].dead = eng.dead
         /\ u[1].folds \in {eng.folds, eng.folds + 1} /\ u[1].refused = eng.refused
         /\ u[2] = 2 => u[1].folds = eng.folds
         /\ u[1].pend \subseteq eng.pend \cup {"scan"}
<1>1. PICK a \in AcceptScan : a[2] = 0 /\ u \in EnrollUpdate(a[1], Main)
  BY DEF Updated, Accepted
<1>2. /\ Usable(a[1]) /\ a[1].pend = eng.pend /\ a[1].dead = eng.dead
      /\ a[1].folds = eng.folds /\ a[1].refused = eng.refused
      /\ a[1].frame.tag = "scan" /\ a[1].frame.purpose = 4
  BY <1>1, ScanAccepted DEF EnrollScan
<1>3. "scan" \in Tags /\ Main \in {Main}
  BY DEF Tags
<1> QED BY <1>1, <1>2, <1>3, Folds DEF EngRecs, Usable

\* A step that gives no verdict of a comparison keeps the invariant, if the
\* engine is in order after it.
LEMMA NoVerdict ==
  ASSUME AInv, eng' \in EngRecs, ~eng'.misuse, eng'.loaded => eng'.iface,
         engineOk' \in BOOLEAN, engineOk' => eng'.iface,
         isVerify' \in BOOLEAN, isIdentify' \in BOOLEAN,
         tmplBlob' \in Prints, request' \in Seq(Prints), told' \in Replies,
         action' = "verify" => request' = <<tmplBlob'>> /\ tmplBlob' # Malformed,
         \/ told' = told /\ request' = request
         \/ told'.what \in {"nothing", "ok", "error", "retry", "enrolled"}
         \/ told'.to = "verify" /\ told'.what = "invalid"
  PROVE  AInv'
BY DEF AInv, VerifyAnswersRequest, FreshVerdict, IdentifyAnswersGallery, FirstIn

LEMMA SilenceTyped == Silence \in Replies /\ Silence.what = "nothing"
BY DEF Silence, NoFrame, Replies, Actions, Tags

LEMMA Says ==
  ASSUME AInv, NEW kind \in Actions, NEW what \in {"ok", "error", "retry"}, Say(kind, what)
  PROVE  /\ told' \in Replies
         /\ told' = told \/ told'.what = what
         /\ action' \in {action, "none"}
<1>1. CASE action = kind
  <2> DEFINE a == [to |-> kind, what |-> what, rec |-> {}, frame |-> NoFrame,
                   alike |-> {}, whole |-> FALSE]
  <2>1. action' = "none" /\ told' = a BY <1>1 DEF Say, Complete
  <2>2. NoFrame \in [tag : Tags, purpose : {0, 1, 4}] BY DEF NoFrame, Tags
  <2>3. a \in Replies /\ a.what = what BY <2>2 DEF Replies
  <2> QED BY <2>1, <2>3
<1>2. CASE action # kind BY <1>2 DEF Say, Complete, AInv
<1> QED BY <1>1, <1>2

LEMMA InitAInv == Init => AInv
<1> SUFFICES ASSUME Init PROVE AInv
  OBVIOUS
<1>1. NewProcess \in EngRecs /\ ~NewProcess.misuse /\ ~NewProcess.loaded
  BY Untouched DEF EngRecs
<1>2. told \in Replies /\ told.what = "nothing"
  BY SilenceTyped DEF Init
<1>3. request = <<>> /\ <<>> \in Seq(Prints)
  BY DEF Init
<1> QED
  BY <1>1, <1>2, <1>3
  DEF Init, AInv, VerifyAnswersRequest, IdentifyAnswersGallery, Prints

\* The handlers of the two machines that give no verdict.
LEMMA HandlersAInv ==
  ASSUME IInv, DInv, AInv,
         InitSsmComplete \/ InitSsmFailed \/ InitSsmAborts \/ ScanFailed
           \/ ScanWithoutEngine \/ ScanRejected
  PROVE  AInv'
<1>1. CASE InitSsmComplete
  <2>1. PICK r \in EngineOpen(eng, Main) : eng' = r[1] /\ engineOk' = (r[2] = 0)
    BY <1>1 DEF InitSsmComplete
  <2>2. /\ eng' \in EngRecs /\ ~eng'.misuse /\ (eng'.loaded => eng'.iface)
        /\ engineOk' => eng'.iface
    BY <2>1, Opened DEF AInv, EngRecs
  <2>3. /\ told' \in Replies /\ action' \in {action, "none"}
        /\ told' = told \/ told'.what = "ok"
    BY <1>1, Says DEF InitSsmComplete, Actions
  <2>4. UNCHANGED <<request, isVerify, isIdentify, tmplBlob>> /\ engineOk' \in BOOLEAN
    BY <1>1, <2>1 DEF InitSsmComplete
  <2> QED BY <2>2, <2>3, <2>4, NoVerdict DEF AInv
<1>2. CASE InitSsmFailed
  <2>1. /\ told' \in Replies /\ action' \in {action, "none"}
        /\ told' = told \/ told'.what = "error"
    BY <1>2, Says DEF InitSsmFailed, Actions
  <2> QED BY <1>2, <2>1, NoVerdict DEF InitSsmFailed, AInv, flags
<1>3. ASSUME NEW e, e \in {NewProcess, [NewProcess EXCEPT !.dead = TRUE]}, DriverLost(e)
      PROVE  AInv'
  <2>1. NewProcess \in EngRecs /\ ~NewProcess.misuse /\ ~NewProcess.loaded
    BY Untouched DEF EngRecs
  <2>2. e \in EngRecs /\ ~e.misuse /\ ~e.loaded
    BY <1>3, <2>1 DEF EngRecs, EngineRecords
  <2>3. request' = <<>> /\ <<>> \in Seq(Prints) /\ Malformed \in Prints
    BY <1>3 DEF DriverLost, Prints
  <2> QED BY <1>3, <2>2, <2>3, SilenceTyped, NoVerdict DEF DriverLost
<1>4. CASE InitSsmAborts
  BY <1>3, <1>4 DEF InitSsmAborts
<1>5. Owner \in Actions
  BY DEF Owner, Actions
<1>6. CASE ScanFailed \/ ScanWithoutEngine
  <2>1. /\ told' \in Replies /\ action' \in {action, "none"}
        /\ told' = told \/ told'.what = "error"
    BY <1>5, <1>6, Says DEF ScanFailed, ScanWithoutEngine
  <2> QED BY <1>6, <2>1, NoVerdict DEF ScanFailed, ScanWithoutEngine, AInv, flags
<1>7. CASE ScanRejected
  <2>1. PICK r \in IF ~scanOk THEN {<<eng, 1>>} ELSE IF engineOk THEN AcceptScan ELSE {} :
          IF isIdentify
          THEN Stop /\ UNCHANGED image /\ eng' = r[1] /\ Say("identify", "retry")
          ELSE Again(r[1])
    BY <1>7 DEF ScanRejected
  <2>2. r[1] \in EngRecs /\ ~r[1].misuse /\ (r[1].loaded => r[1].iface)
        /\ (engineOk => r[1].iface)
    <3>1. CASE ~scanOk
      BY <2>1, <3>1 DEF AInv
    <3>2. CASE scanOk
      <4>1. engineOk /\ r \in AcceptScan
        BY <2>1, <3>2
      <4> QED BY <1>7, <4>1, ScanAccepted DEF ScanRejected, Usable
    <3> QED BY <3>1, <3>2
  <2>3. UNCHANGED <<request, isVerify, isIdentify, engineOk, tmplBlob>>
    BY <1>7 DEF ScanRejected, flags
  <2>4. CASE isIdentify
    <3>1. /\ told' \in Replies /\ (told' = told \/ told'.what = "retry")
          /\ action' \in {action, "none"} /\ eng' = r[1]
      BY <2>1, <2>4, Says DEF Actions
    <3> QED BY <2>2, <2>3, <3>1, NoVerdict DEF AInv
  <2>5. CASE ~isIdentify
    <3>1. eng' = Relabel(r[1], Older) /\ UNCHANGED <<action, told>>
      BY <2>1, <2>5 DEF Again
    <3> QED BY <2>2, <2>3, <3>1, GrownOlder, NoVerdict DEF AInv
  <2> QED BY <2>4, <2>5
<1> QED BY <1>1, <1>2, <1>4, <1>6, <1>7

\* What libfprint and the world do.
LEMMA CallsAInv ==
  ASSUME AInv, DInv,
         DevOpen \/ DevOpenRefused \/ DevClose \/ DevEnroll \/ DevVerify
           \/ DevVerifyInvalid \/ DevIdentify \/ UNCHANGED driverVars
  PROVE  AInv'
<1>1. <<>> \in Seq(Prints) /\ Malformed \in Prints
  BY DEF Prints
<1>2. CASE UNCHANGED driverVars
  BY <1>2, NoVerdict DEF driverVars, flags, AInv
<1>3. CASE DevOpen
  BY <1>1, <1>3, SilenceTyped, NoVerdict DEF DevOpen, Begin, flags, AInv
<1>4. CASE DevOpenRefused
  <2>1. told' \in Replies /\ told'.what = "error"
    BY <1>4 DEF DevOpenRefused, Silence, NoFrame, Replies, Actions, Tags
  <2> QED BY <1>1, <1>4, <2>1, NoVerdict DEF DevOpenRefused, flags, AInv
<1>5. CASE DevClose
  BY <1>1, <1>5, SilenceTyped, NoVerdict DEF DevClose, EngineClose, AInv
<1>6. /\ Relabel(eng, Forgotten) \in EngRecs /\ ~Relabel(eng, Forgotten).misuse
      /\ Relabel(eng, Forgotten).loaded => Relabel(eng, Forgotten).iface
      /\ engineOk => Relabel(eng, Forgotten).iface
  BY AllForgotten DEF AInv
<1>7. CASE DevEnroll
  <2>1. eng' \in IF engineOk THEN EnrollBegin(Relabel(eng, Forgotten), Main)
                             ELSE {Relabel(eng, Forgotten)}
    BY <1>7 DEF DevEnroll
  <2>2. /\ eng' \in EngRecs /\ ~eng'.misuse /\ (eng'.loaded => eng'.iface)
        /\ engineOk => eng'.iface
    <3>1. CASE engineOk
      BY <1>6, <2>1, <3>1, Begins DEF EngRecs
    <3>2. CASE ~engineOk
      BY <1>6, <2>1, <3>2
    <3> QED BY <3>1, <3>2
  <2> QED BY <1>1, <1>7, <2>2, SilenceTyped, NoVerdict DEF DevEnroll, Begin, AInv
<1>8. CASE DevVerify
  <2>1. PICK p \in VerifyPrints \ {Malformed} :
          Begin("verify", <<p>>) /\ tmplBlob' = p /\ eng' = Relabel(eng, Forgotten)
    BY <1>8 DEF DevVerify
  <2>2. p \in Prints /\ <<p>> \in Seq(Prints)
    BY DriverAssumption
  <2>3. UNCHANGED engineOk /\ isVerify' = TRUE /\ isIdentify' = FALSE
    BY <1>8 DEF DevVerify
  <2> QED BY <1>6, <2>1, <2>2, <2>3, SilenceTyped, NoVerdict DEF Begin, AInv
<1>9. CASE DevVerifyInvalid
  <2>1. told' \in Replies /\ told'.what = "invalid" /\ told'.to = "verify"
    BY <1>9 DEF DevVerifyInvalid, Silence, NoFrame, Replies, Actions, Tags
  <2>2. request' = <<Malformed>> /\ <<Malformed>> \in Seq(Prints)
    BY <1>1, <1>9 DEF DevVerifyInvalid
  <2>3. action' # "verify"
    BY <1>9 DEF DevVerifyInvalid
  <2> QED BY <1>9, <2>1, <2>2, <2>3, NoVerdict DEF DevVerifyInvalid, AInv
<1>10. CASE DevIdentify
  <2>1. PICK g \in Galleries : Begin("identify", g)
    BY <1>10 DEF DevIdentify
  <2>2. g \in Seq(Prints)
    BY DriverAssumption
  <2>3. /\ action' = "identify" /\ request' = g /\ told' = Silence
        /\ eng' = Relabel(eng, Forgotten) /\ UNCHANGED <<engineOk, tmplBlob>>
        /\ isVerify' = FALSE /\ isIdentify' = TRUE
    BY <1>10, <2>1 DEF DevIdentify, Begin
  <2>4. told' \in Replies /\ told'.what = "nothing"
    BY <2>3, SilenceTyped
  <2> QED BY <1>6, <2>2, <2>3, <2>4, NoVerdict DEF AInv
<1> QED BY <1>2, <1>3, <1>4, <1>5, <1>7, <1>8, <1>9, <1>10

\* An enrollment's handlers.
LEMMA EnrollAInv ==
  ASSUME IInv, DInv, AInv, SampleRejected \/ MoreSamples \/ EnrollmentEnds
  PROVE  AInv'
<1>1. CASE SampleRejected \/ MoreSamples
  <2>1. PICK u \in Updated : Again(u[1])
    BY <1>1 DEF SampleRejected, MoreSamples
  <2>2. Usable(u[1])
    BY <1>1, ScanFolded DEF SampleRejected, MoreSamples
  <2>3. UNCHANGED <<request, isVerify, isIdentify, engineOk, tmplBlob>>
    BY <1>1 DEF SampleRejected, MoreSamples, flags
  <2>4. eng' = Relabel(u[1], Older) /\ UNCHANGED <<action, told>>
    BY <2>1 DEF Again
  <2>5. eng' \in EngRecs /\ eng'.iface /\ ~eng'.misuse
    BY <2>2, <2>4, GrownOlder DEF Usable
  <2> QED BY <2>3, <2>4, <2>5, NoVerdict DEF AInv
<1>2. CASE EnrollmentEnds
  <2>1. PICK u \in Updated : \E c \in EnrollCommit(u[1], Main) :
            /\ eng' = c[1]
            /\ IF c[2] = 0 THEN Enrolled(c[1].rec, u[2] = 0)
                           ELSE Say("enroll", "error")
    BY <1>2 DEF EnrollmentEnds
  <2>2. PICK c \in EnrollCommit(u[1], Main) :
            /\ eng' = c[1]
            /\ IF c[2] = 0 THEN Enrolled(c[1].rec, u[2] = 0)
                           ELSE Say("enroll", "error")
    BY <2>1
  <2>3. Usable(u[1])
    BY <1>2, ScanFolded DEF EnrollmentEnds
  <2>4. eng' \in EngRecs /\ eng'.iface /\ ~eng'.misuse
    BY <2>2, <2>3, Commits DEF Usable, EngRecs
  <2>5. UNCHANGED <<request, isVerify, isIdentify, engineOk, tmplBlob>>
    BY <1>2 DEF EnrollmentEnds
  <2>6. /\ told' \in Replies /\ action' \in {action, "none"}
        /\ told' = told \/ told'.what \in {"enrolled", "error"}
    <3>1. CASE c[2] = 0
      <4>1. c[1].rec \in SUBSET (Prints \cup Tags)
        BY <2>2, <2>4 DEF EngRecs, EngineRecords, Prints
      <4>2. CASE action = "enroll"
        <5> DEFINE w == u[2] = 0
                   a == [Silence EXCEPT !.to = "enroll", !.what = "enrolled",
                                        !.rec = c[1].rec, !.whole = w]
        <5>1. action' = "none" /\ told' = a BY <2>2, <3>1, <4>2 DEF Enrolled
        <5>2. w \in BOOLEAN OBVIOUS
        <5> HIDE DEF w
        <5>3. a \in Replies /\ a.what = "enrolled"
          BY <4>1, <5>2, SilenceTyped DEF Replies, Actions
        <5> QED BY <5>1, <5>3
      <4>3. CASE action # "enroll" BY <2>2, <3>1, <4>3 DEF Enrolled, AInv
      <4> QED BY <4>2, <4>3
    <3>2. CASE c[2] # 0
      BY <2>2, <3>2, Says DEF Actions
    <3> QED BY <3>1, <3>2
  <2> QED BY <2>4, <2>5, <2>6, NoVerdict DEF AInv
<1> QED BY <1>1, <1>2

\* The verdict of a verify.
LEMMA VerifyAInv ==
  ASSUME IInv, DInv, AInv, VerifyScan
  PROVE  AInv'
<1>1. PICK e \in Accepted, alike \in SUBSET Templates :
        LET v == VerifyTemplate(e, Main, tmplBlob, alike) IN
        /\ eng' = v[1]
        /\ Complete("verify", IF v[2] = 1 THEN "match" ELSE "nomatch",
                    v[1].rec, v[1].frame, alike)
  BY DEF VerifyScan
<1>2. PICK a \in AcceptScan : a[2] = 0 /\ e = a[1]
  BY DEF Accepted
<1>3. action = "verify" /\ isVerify /\ engineOk /\ Lifted
  BY LiftedScans DEF VerifyScan, Owner
<1>4. Usable(e) /\ e.frame = [tag |-> "scan", purpose |-> 1]
  BY <1>2, <1>3, ScanAccepted
<1>5. request = <<tmplBlob>> /\ tmplBlob # Malformed /\ tmplBlob \in Prints
  BY <1>3 DEF AInv
<1> DEFINE v == VerifyTemplate(e, Main, tmplBlob, alike)
<1>6. /\ v[1] \in EngRecs /\ v[1].iface /\ ~v[1].misuse
      /\ v[1].frame = [tag |-> "scan", purpose |-> 1]
      /\ v[2] = 1 <=> tmplBlob \in alike
      /\ tmplBlob # Unusable => v[1].rec = {tmplBlob}
  <2>1. e.frame.purpose = 1
    BY <1>4
  <2> QED BY <1>4, <1>5, <2>1, Compared DEF Usable
<1>7. eng' = v[1] /\ Complete("verify", IF v[2] = 1 THEN "match" ELSE "nomatch",
                              v[1].rec, v[1].frame, alike)
  BY <1>1
<1> HIDE DEF v
<1>8. /\ action' = "none"
      /\ told' = [to |-> "verify", what |-> IF v[2] = 1 THEN "match" ELSE "nomatch",
                  rec |-> v[1].rec, frame |-> v[1].frame, alike |-> alike,
                  whole |-> FALSE]
  BY <1>3, <1>7 DEF Complete
<1>9. told' \in Replies
  <2>1. /\ v[1].rec \in SUBSET (Prints \cup Tags)
        /\ v[1].frame \in [tag : Tags, purpose : {0, 1, 4}]
    BY <1>6 DEF EngRecs, EngineRecords, Prints, Tags
  <2> QED BY <1>8, <2>1 DEF Replies, Actions
<1>10. UNCHANGED <<request, isVerify, isIdentify, engineOk, tmplBlob>>
  BY DEF VerifyScan, flags
<1>11. /\ told'.to = "verify" /\ told'.alike = alike /\ told'.rec = v[1].rec
       /\ told'.frame = [tag |-> "scan", purpose |-> 1]
       /\ told'.what = "match" <=> v[2] = 1
  BY <1>6, <1>8
<1>12. VerifyAnswersRequest'
  BY <1>5, <1>6, <1>10, <1>11 DEF VerifyAnswersRequest, FreshVerdict
<1>13. IdentifyAnswersGallery'
  BY <1>11 DEF IdentifyAnswersGallery
<1> QED BY <1>6, <1>7, <1>8, <1>9, <1>10, <1>12, <1>13 DEF AInv

\* The verdict of an identify.
LEMMA IdentifyAInv ==
  ASSUME IInv, DInv, AInv, IdentifyScan
  PROVE  AInv'
<1>1. PICK e \in Accepted, alike \in SUBSET Templates :
        LET w == GalleryWalk(request, e, alike)[Len(request)] IN
        /\ eng' = w[1]
        /\ Complete("identify",
             IF w[3] THEN "invalid" ELSE IF w[2] # {} THEN "match" ELSE "nomatch",
             w[2], w[1].frame, alike)
  BY DEF IdentifyScan
<1>2. PICK a \in AcceptScan : a[2] = 0 /\ e = a[1]
  BY DEF Accepted
<1>3. action = "identify" /\ isIdentify /\ engineOk /\ Lifted
  BY LiftedScans DEF IdentifyScan, Owner
<1>4. Usable(e) /\ e.frame = [tag |-> "scan", purpose |-> 1]
  BY <1>2, <1>3, ScanAccepted
<1> DEFINE w == GalleryWalk(request, e, alike)[Len(request)]
           Stops == alike \cup {Malformed}
           At(i) == request[i] \in Stops /\ \A j \in 1 .. i - 1 : request[j] \notin Stops
<1>5. WalkHolds(request, e, alike, w, Len(request))
  <2>1. e.frame.purpose = 1 /\ request \in Seq(Prints)
    BY <1>4 DEF AInv
  <2> QED BY <1>4, <2>1, Walked DEF Usable
<1>6. /\ eng' = w[1]
      /\ Complete("identify",
           IF w[3] THEN "invalid" ELSE IF w[2] # {} THEN "match" ELSE "nomatch",
           w[2], w[1].frame, alike)
  BY <1>1
<1> HIDE DEF w
<1>7. /\ w[1] \in EngRecs /\ w[1].iface /\ ~w[1].misuse
      /\ w[1].frame = [tag |-> "scan", purpose |-> 1]
      /\ w[3] \in BOOLEAN
      /\ w[2] = {} /\ ~w[3] => \A i \in 1 .. Len(request) : request[i] \notin Stops
      /\ w[2] # {} => ~w[3] /\ \E i \in 1 .. Len(request) :
                                  At(i) /\ request[i] \in alike /\ w[2] = {request[i]}
      /\ w[3] => w[2] = {} /\ \E i \in 1 .. Len(request) : At(i) /\ request[i] = Malformed
  BY <1>4, <1>5 DEF WalkHolds, Usable
<1> DEFINE what == IF w[3] THEN "invalid" ELSE IF w[2] # {} THEN "match" ELSE "nomatch"
<1>8. /\ action' = "none"
      /\ told' = [to |-> "identify", what |-> what, rec |-> w[2], frame |-> w[1].frame,
                  alike |-> alike, whole |-> FALSE]
  BY <1>3, <1>6 DEF Complete
<1>9. w[2] \in SUBSET (Prints \cup Tags)
  <2>1. \A i \in 1 .. Len(request) : request[i] \in Prints
    BY DEF AInv
  <2> QED BY <1>7, <2>1
<1>10. told' \in Replies
  <2>1. /\ w[1].frame \in [tag : Tags, purpose : {0, 1, 4}]
        /\ what \in {"invalid", "match", "nomatch"}
    BY <1>7 DEF EngRecs, EngineRecords, Tags
  <2> HIDE DEF what
  <2> QED BY <1>8, <1>9, <2>1 DEF Replies, Actions
<1>11. UNCHANGED <<request, isVerify, isIdentify, engineOk, tmplBlob>>
  BY DEF IdentifyScan, flags
<1>12. /\ told'.to = "identify" /\ told'.alike = alike /\ told'.rec = w[2]
       /\ told'.frame = [tag |-> "scan", purpose |-> 1] /\ told'.what = what
  BY <1>7, <1>8
<1>13. VerifyAnswersRequest'
  BY <1>12 DEF VerifyAnswersRequest
<1> DEFINE Hits == {i \in DOMAIN request : At(i)}
<1>14. FirstIn(told.alike \cup {Malformed})' = Hits /\ DOMAIN request = 1 .. Len(request)
  BY <1>11, <1>12 DEF FirstIn, AInv
<1>15. what = "nomatch" => Hits = {}
  BY <1>7, <1>14
<1>16. what = "match" => \E i \in Hits : w[2] = {request[i]} \cap alike
  <2>1. SUFFICES ASSUME what = "match" PROVE \E i \in Hits : w[2] = {request[i]} \cap alike
    OBVIOUS
  <2>2. PICK i \in 1 .. Len(request) : At(i) /\ request[i] \in alike /\ w[2] = {request[i]}
    BY <1>7, <2>1
  <2>3. i \in Hits /\ w[2] = {request[i]} \cap alike
    BY <1>14, <2>2
  <2> QED BY <2>3
<1>17. what = "invalid" => \E i \in Hits : request[i] = Malformed
  BY <1>7, <1>14
<1> HIDE DEF Hits, what
<1>18. IdentifyAnswersGallery'
  BY <1>11, <1>12, <1>14, <1>15, <1>16, <1>17 DEF IdentifyAnswersGallery, FreshVerdict
<1> QED BY <1>6, <1>7, <1>8, <1>10, <1>11, <1>13, <1>18 DEF AInv

LEMMA NextAInv == IInv /\ DInv /\ AInv /\ [Next]_vars => AInv'
<1> SUFFICES ASSUME IInv, DInv, AInv, [Next]_vars PROVE AInv'
  OBVIOUS
<1>1. CASE Restarted
  <2>1. NewProcess \in EngRecs /\ ~NewProcess.misuse /\ ~NewProcess.loaded
    BY Untouched DEF EngRecs
  <2>2. <<>> \in Seq(Prints) /\ Malformed \in Prints
    BY DEF Prints
  <2> QED BY <1>1, <2>1, <2>2, SilenceTyped, NoVerdict DEF Restarted, DriverLost
<1>2. CASE SsmRuns \/ World \/ UNCHANGED vars
  BY <1>2, CallsAInv DEF SsmRuns, World, vars
<1> QED
  BY <1>1, <1>2, HandlersAInv, CallsAInv, EnrollAInv, VerifyAInv, IdentifyAInv
  DEF Next, HostNext

(* What an enrollment may commit.                                            *)
FoldInv ==
  /\ action = "enroll" /\ engineOk /\ ~eng.refused => eng.pend \subseteq {"scan", "op"}
  /\ EnrolledFromThisOp

LEMMA InitFoldInv == Init => FoldInv
BY DEF Init, FoldInv, EnrolledFromThisOp, Silence

LEMMA NextFoldInv ==
  ASSUME IInv, DInv, AInv, FoldInv, [Next]_vars
  PROVE  FoldInv'
<1> USE DEF FoldInv, EnrolledFromThisOp
<1>1. CASE \/ SsmRuns \/ World \/ UNCHANGED vars
  BY <1>1 DEF SsmRuns, World, vars, driverVars, flags
<1>2. CASE InitSsmComplete \/ InitSsmFailed
  BY <1>2
     DEF InitSsmComplete, InitSsmFailed, InfoRead, InfoArrives, InitStates, Say, Complete,
     DInv, BusyIffRunning
<1>3. CASE InitSsmAborts \/ Restarted
  BY <1>3 DEF InitSsmAborts, Restarted, DriverLost, Silence
<1>4. CASE ScanFailed \/ ScanWithoutEngine
  <2>1. action = Owner
    BY <1>4, LiftedScans DEF ScanFailed, ScanWithoutEngine, DInv
  <2> QED BY <1>4, <2>1 DEF ScanFailed, ScanWithoutEngine, Say, Complete
<1>5. CASE ScanRejected
  <2>1. PICK r \in IF ~scanOk THEN {<<eng, 1>>} ELSE IF engineOk THEN AcceptScan ELSE {} :
          IF isIdentify
          THEN Stop /\ UNCHANGED image /\ eng' = r[1] /\ Say("identify", "retry")
          ELSE Again(r[1])
    BY <1>5 DEF ScanRejected
  <2>2. action = Owner /\ UNCHANGED <<isVerify, isIdentify, engineOk>>
    BY <1>5, LiftedScans DEF ScanRejected, flags
  <2>3. CASE isIdentify
    BY <2>1, <2>2, <2>3 DEF Say, Complete, Owner
  <2>4. CASE ~isIdentify
    <3>1. r[1] \in EngRecs /\ r[1].pend = eng.pend /\ r[1].refused = eng.refused
      <4>1. CASE ~scanOk
        BY <2>1, <4>1 DEF AInv
      <4>2. CASE scanOk
        <5>1. engineOk /\ r \in AcceptScan
          BY <2>1, <4>2
        <5> QED BY <1>5, <5>1, ScanAccepted DEF ScanRejected, Usable
      <4> QED BY <4>1, <4>2
    <3>2. eng' = Relabel(r[1], Older) /\ UNCHANGED <<action, told>>
      BY <2>1, <2>4 DEF Again
    <3> QED BY <2>2, <3>1, <3>2, GrownOlder
  <2> QED BY <2>3, <2>4
<1>6. CASE IdentifyScan \/ VerifyScan
  <2>1. action = Owner /\ Owner # "enroll"
    BY <1>6, LiftedScans DEF IdentifyScan, VerifyScan, Owner
  <2>2. action' = "none" /\ told'.what # "enrolled"
    BY <1>6, <2>1, LiftedScans DEF IdentifyScan, VerifyScan, Complete, Owner
  <2> QED BY <2>2
<1>7. CASE SampleRejected \/ MoreSamples
  <2>1. PICK u \in Updated : Again(u[1])
    BY <1>7 DEF SampleRejected, MoreSamples
  <2>2. /\ Usable(u[1]) /\ u[1].pend \subseteq eng.pend \cup {"scan"}
        /\ u[1].refused = eng.refused
    BY <1>7, ScanFolded DEF SampleRejected, MoreSamples
  <2>3. eng' = Relabel(u[1], Older) /\ UNCHANGED <<action, told, engineOk>>
    BY <1>7, <2>1 DEF Again, SampleRejected, MoreSamples, flags
  <2> QED BY <2>2, <2>3, GrownOlder DEF Usable
<1>8. CASE EnrollmentEnds
  <2>1. PICK u \in Updated : \E c \in EnrollCommit(u[1], Main) :
            /\ eng' = c[1]
            /\ IF c[2] = 0 THEN Enrolled(c[1].rec, u[2] = 0)
                           ELSE Say("enroll", "error")
    BY <1>8 DEF EnrollmentEnds
  <2>2. PICK c \in EnrollCommit(u[1], Main) :
            /\ eng' = c[1]
            /\ IF c[2] = 0 THEN Enrolled(c[1].rec, u[2] = 0)
                           ELSE Say("enroll", "error")
    BY <2>1
  <2>3. /\ Usable(u[1]) /\ u[1].pend \subseteq eng.pend \cup {"scan"}
        /\ u[1].refused = eng.refused
    BY <1>8, ScanFolded DEF EnrollmentEnds
  <2>4. action = "enroll" /\ engineOk
    BY <1>8, LiftedScans DEF EnrollmentEnds, EnrollScan, Owner
  <2>5. ~eng.refused => u[1].pend \subseteq {"scan", "op"}
    BY <2>3, <2>4
  <2>6. /\ c[1].refused = eng.refused
        /\ c[2] = 0 => c[1].rec = u[1].pend /\ c[1].rec # {}
    BY <2>2, <2>3, Commits DEF Usable, EngRecs
  <2>7. CASE c[2] = 0
    BY <2>2, <2>4, <2>5, <2>6, <2>7 DEF Enrolled, Silence
  <2>8. CASE c[2] # 0
    BY <2>2, <2>4, <2>8 DEF Say, Complete
  <2> QED BY <2>7, <2>8
<1>9. CASE DevEnroll
  <2>1. engineOk => eng' \in EnrollBegin(Relabel(eng, Forgotten), Main)
    BY <1>9 DEF DevEnroll
  <2>2. engineOk /\ ~eng'.refused => eng'.pend = {}
    BY <2>1, AllForgotten, Begins DEF AInv, EngRecs
  <2> QED BY <1>9, <2>2 DEF DevEnroll, Begin, Silence
<1>10. CASE DevOpen \/ DevVerify \/ DevIdentify
  <2>1. action' \in {"open", "verify", "identify"} /\ told' = Silence
    BY <1>10 DEF DevOpen, DevVerify, DevIdentify, Begin
  <2> QED BY <2>1 DEF Silence
<1>11. CASE DevOpenRefused \/ DevClose \/ DevVerifyInvalid
  <2>1. action' = "none"
    BY <1>11 DEF DevOpenRefused, DevClose, DevVerifyInvalid
  <2>2. DevOpenRefused => told'.what = "error"
    BY DEF DevOpenRefused, Silence
  <2>3. DevVerifyInvalid => told'.what = "invalid"
    BY DEF DevVerifyInvalid, Silence
  <2>4. DevClose => told'.what = "nothing"
    BY DEF DevClose, Silence
  <2> QED BY <1>11, <2>1, <2>2, <2>3, <2>4
<1> QED
  BY <1>1, <1>2, <1>3, <1>4, <1>5, <1>6, <1>7, <1>8, <1>9, <1>10, <1>11
  DEF Next, HostNext

THEOREM AnswersInvariant == Spec => []AInv
BY InitAInv, NextAInv, DriverInvariant, PTL DEF Spec

(* Type correctness of the driver, with its machines and the engine.         *)
THEOREM DriverTypeCorrect == Spec => []TypeOK
<1>1. IInv /\ DInv /\ AInv => TypeOK
  BY DEF IInv, DInv, AInv, TypeOK, EngRecs
<1> QED BY <1>1, DriverInvariant, AnswersInvariant, PTL

(* The driver only enters the engine in contract.                            *)
THEOREM InContractInDriver == Spec => []NoEngineMisuse
<1>1. AInv => NoEngineMisuse
  BY DEF AInv, NoEngineMisuse
<1> QED BY <1>1, AnswersInvariant, PTL

(* Verify answers for the print it was asked about, from a frame of its own. *)
THEOREM VerifyIsRight == Spec => []VerifyAnswersRequest
<1>1. AInv => VerifyAnswersRequest
  BY DEF AInv
<1> QED BY <1>1, AnswersInvariant, PTL

(* Identify names the first print like the frame, for every gallery.         *)
THEOREM IdentifyIsRight == Spec => []IdentifyAnswersGallery
<1>1. AInv => IdentifyAnswersGallery
  BY DEF AInv
<1> QED BY <1>1, AnswersInvariant, PTL

(* What is committed was folded in this enrollment, for every number of      *)
(* stages, unless its Create failed: verifies, cancelled and failed          *)
(* enrollments and earlier failed creates leave nothing behind.              *)
THEOREM EnrolledIsOwn == Spec => []EnrolledFromThisOp
<1>1. FoldInv => EnrolledFromThisOp
  BY DEF FoldInv
<1>2. IInv /\ DInv /\ AInv /\ FoldInv /\ [Next]_vars => FoldInv'
  BY NextFoldInv
<1> QED BY <1>1, <1>2, InitFoldInv, DriverInvariant, AnswersInvariant, PTL DEF Spec

------------------------------------------------------------------------------
(* When the process is lost to the engine.                                   *)

AbortIsReload ==
  eng'.dead => \/ eng.dead
               \/ /\ ~eng.loaded /\ eng.shims > 0
                  /\ eng.shims + ShimCount > ShimTable

LEMMA AbortStep == IInv /\ DInv /\ AInv /\ [Next]_vars => AbortIsReload
<1> SUFFICES ASSUME IInv, DInv, AInv, [Next]_vars, ~eng.dead, eng'.dead
             PROVE  /\ ~eng.loaded /\ eng.shims > 0
                    /\ eng.shims + ShimCount > ShimTable
  BY DEF AbortIsReload
<1>1. eng \in EngRecs /\ Main \in {Main} BY DEF AInv
<1>2. CASE InitSsmAborts
  <2>1. PICK r \in EngineOpen(eng, Main) : r[1].dead BY <1>2 DEF InitSsmAborts
  <2> QED BY <1>1, <2>1, OpenAborts DEF EngRecs
<1>3. CASE eng' \in EngRecs /\ eng'.dead = eng.dead BY <1>3
<1>4. CASE InitSsmComplete
  <2>1. \E r \in EngineOpen(eng, Main) : ~r[1].dead /\ eng' = r[1]
    BY <1>4 DEF InitSsmComplete
  <2> QED BY <2>1
<1>5. CASE Restarted
  <2>1. ~eng'.dead BY <1>5 DEF Restarted, DriverLost, NewProcess
  <2> QED BY <2>1
<1>6. CASE UNCHANGED eng BY <1>6
<1>7. ASSUME NEW e \in EngRecs, e.dead = eng.dead, Again(e) PROVE FALSE
  <2>1. eng' = Relabel(e, Older) BY <1>7 DEF Again
  <2> QED BY <1>7, <2>1, GrownOlder
<1>8. CASE ScanRejected
  <2>1. PICK r \in IF ~scanOk THEN {<<eng, 1>>} ELSE IF engineOk THEN AcceptScan ELSE {} :
          eng' = r[1] \/ Again(r[1])
    BY <1>8 DEF ScanRejected
  <2>2. r[1] \in EngRecs /\ r[1].dead = eng.dead
    <3>1. CASE ~scanOk BY <1>1, <2>1, <3>1
    <3>2. CASE scanOk
      <4>1. engineOk /\ r \in AcceptScan BY <2>1, <3>2
      <4> QED BY <1>8, <4>1, ScanAccepted DEF ScanRejected, Usable
    <3> QED BY <3>1, <3>2
  <2> QED BY <1>7, <2>1, <2>2
<1>9. CASE SampleRejected \/ MoreSamples
  <2>1. EnrollScan /\ \E u \in Updated : Again(u[1])
    BY <1>9 DEF SampleRejected, MoreSamples
  <2> QED BY <1>7, <2>1, ScanFolded DEF Usable
<1>10. CASE EnrollmentEnds
  <2>1. EnrollScan /\ \E u \in Updated : \E c \in EnrollCommit(u[1], Main) : eng' = c[1]
    BY <1>10 DEF EnrollmentEnds
  <2>2. PICK u \in Updated : \E c \in EnrollCommit(u[1], Main) : eng' = c[1] BY <2>1
  <2>3. Usable(u[1]) /\ u[1].dead = eng.dead BY <2>1, <2>2, ScanFolded
  <2> QED BY <2>2, <2>3, Commits DEF Usable, EngRecs
<1>11. ASSUME NEW e \in Accepted, Lifted, engineOk, isVerify \/ isIdentify
       PROVE  Usable(e) /\ e.frame.purpose = 1 /\ e.dead = eng.dead
  <2>1. PICK a \in AcceptScan : a[2] = 0 /\ e = a[1] BY DEF Accepted
  <2> QED BY <1>11, <2>1, ScanAccepted
<1>12. CASE VerifyScan
  <2>1. PICK e \in Accepted, alike \in SUBSET Templates :
          eng' = VerifyTemplate(e, Main, tmplBlob, alike)[1]
    BY <1>12 DEF VerifyScan
  <2>2. Usable(e) /\ e.frame.purpose = 1 /\ e.dead = eng.dead
    BY <1>11, <1>12 DEF VerifyScan
  <2>3. action = "verify" BY <1>12, LiftedScans DEF VerifyScan, Owner
  <2>4. tmplBlob \in Prints /\ tmplBlob # Malformed BY <2>3 DEF AInv
  <2> QED BY <2>1, <2>2, <2>4, Compared DEF Usable
<1>13. CASE IdentifyScan
  <2>1. PICK e \in Accepted, alike \in SUBSET Templates :
          eng' = GalleryWalk(request, e, alike)[Len(request)][1]
    BY <1>13 DEF IdentifyScan
  <2>2. Usable(e) /\ e.frame.purpose = 1 /\ e.dead = eng.dead
    BY <1>11, <1>13 DEF IdentifyScan
  <2> DEFINE w == GalleryWalk(request, e, alike)[Len(request)]
  <2>3. WalkHolds(request, e, alike, w, Len(request))
    BY <2>2, Walked DEF Usable, AInv
  <2> HIDE DEF w
  <2>4. w[1].dead = e.dead BY <2>3 DEF WalkHolds
  <2> QED BY <2>1, <2>2, <2>4 DEF w
<1>14. Relabel(eng, Forgotten) \in EngRecs /\ Relabel(eng, Forgotten).dead = eng.dead
       /\ (engineOk => Relabel(eng, Forgotten).iface)
  BY <1>1, AllForgotten DEF AInv
<1>15. CASE DevEnroll
  <2>1. eng' \in IF engineOk THEN EnrollBegin(Relabel(eng, Forgotten), Main)
                             ELSE {Relabel(eng, Forgotten)}
    BY <1>15 DEF DevEnroll
  <2> QED BY <1>1, <1>14, <2>1, Begins DEF EngRecs
<1>16. CASE DevVerify \/ DevIdentify
  <2>1. eng' = Relabel(eng, Forgotten) BY <1>16 DEF DevVerify, DevIdentify
  <2> QED BY <1>14, <2>1
<1>17. CASE \/ SsmRuns \/ World \/ UNCHANGED vars \/ InitSsmFailed \/ ScanFailed
            \/ ScanWithoutEngine \/ DevOpen \/ DevOpenRefused \/ DevClose
            \/ DevVerifyInvalid
  <2>1. UNCHANGED eng
    BY <1>17 DEF SsmRuns, World, vars, driverVars, InitSsmFailed, ScanFailed,
                 ScanWithoutEngine, DevOpen, DevOpenRefused, DevClose, EngineClose,
                 DevVerifyInvalid
  <2> QED BY <1>6, <2>1
<1> QED
  BY <1>2, <1>4, <1>5, <1>8, <1>9, <1>10, <1>12, <1>13, <1>15, <1>16, <1>17, Zenon
  DEF Next, HostNext

(* abort() is met only by an open that loads the engine again, in a process  *)
(* where no load has succeeded and one has registered its shims before: the  *)
(* first open of a process never aborts, nor one after a successful open.    *)
THEOREM AbortsOnlyOnReload == Spec => [][AbortIsReload]_vars
<1>1. IInv /\ DInv /\ AInv /\ [Next]_vars => AbortIsReload BY AbortStep
<1> QED BY <1>1, DriverInvariant, AnswersInvariant, PTL DEF Spec

------------------------------------------------------------------------------
(* What a stage counts.                                                      *)

\* The two counts part at one place: the sample of a stage that is announced
\* was not folded, since Update failed and Status was asked all the same.
GapIsFailedUpdate ==
  StageIsFoldedFrame /\ ~StageIsFoldedFrame' => MoreSamples /\ eng'.folds = eng.folds

\* And never the other way: a frame that is folded is announced.
FoldsAreAnnounced == action = "enroll" /\ engineOk => eng.folds <= enrollDone

LEMMA StageStep ==
  ASSUME IInv, DInv, AInv, StageIsFoldedFrame, [Next]_vars,
         MoreSamples => eng'.folds # eng.folds
  PROVE  StageIsFoldedFrame'
<1>1. eng \in EngRecs /\ eng.folds \in Nat /\ enrollDone \in Nat
  BY DEF AInv, DInv, EngRecs, EngineRecords
<1>2. CASE action' # "enroll" BY <1>2 DEF StageIsFoldedFrame
<1>3. CASE UNCHANGED <<eng, enrollDone, action>> BY <1>3 DEF StageIsFoldedFrame
<1>4. CASE SsmRuns \/ World \/ UNCHANGED vars
  BY <1>3, <1>4 DEF SsmRuns, World, vars, driverVars, flags
<1>5. CASE DevEnroll
  <2>1. enrollDone' = 0 BY <1>5 DEF DevEnroll
  <2>2. eng' \in EngRecs
    <3>1. eng' \in IF engineOk THEN EnrollBegin(Relabel(eng, Forgotten), Main)
                               ELSE {Relabel(eng, Forgotten)}
      BY <1>5 DEF DevEnroll
    <3>2. /\ Relabel(eng, Forgotten) \in EngRecs
          /\ engineOk => Relabel(eng, Forgotten).iface
      BY <1>1, AllForgotten DEF AInv
    <3> QED BY <3>1, <3>2, Begins DEF EngRecs
  <2>3. eng'.folds \in Nat BY <2>2 DEF EngRecs, EngineRecords
  <2> QED BY <2>1, <2>3 DEF StageIsFoldedFrame
<1>6. ASSUME NEW e \in EngRecs, Again(e), e.folds \in {eng.folds, eng.folds + 1},
             UNCHANGED enrollDone
      PROVE  StageIsFoldedFrame'
  <2>1. eng' = Relabel(e, Older) /\ action' = action BY <1>6 DEF Again
  <2>2. eng'.folds = e.folds BY <1>6, <2>1, GrownOlder
  <2> QED BY <1>1, <1>6, <2>1, <2>2 DEF StageIsFoldedFrame
<1>7. CASE ScanRejected
  <2>1. PICK r \in IF ~scanOk THEN {<<eng, 1>>} ELSE IF engineOk THEN AcceptScan ELSE {} :
          IF isIdentify
          THEN Stop /\ UNCHANGED image /\ eng' = r[1] /\ Say("identify", "retry")
          ELSE Again(r[1])
    BY <1>7 DEF ScanRejected
  <2>2. r[1] \in EngRecs /\ r[1].folds = eng.folds /\ UNCHANGED enrollDone
    <3>1. CASE ~scanOk BY <1>1, <1>7, <2>1, <3>1 DEF ScanRejected, flags
    <3>2. CASE scanOk
      <4>1. engineOk /\ r \in AcceptScan BY <2>1, <3>2
      <4> QED BY <1>7, <4>1, ScanAccepted DEF ScanRejected, Usable, flags
    <3> QED BY <3>1, <3>2
  <2>3. CASE isIdentify
    <3>1. action = Owner BY <1>7, LiftedScans DEF ScanRejected
    <3>2. action' # "enroll" BY <2>1, <2>3, <3>1 DEF Say, Complete, Owner
    <3> QED BY <1>2, <3>2
  <2> QED BY <1>6, <2>1, <2>2, <2>3
<1>8. CASE SampleRejected
  <2>1. PICK u \in Updated : Again(u[1]) BY <1>8 DEF SampleRejected
  <2>2. EnrollScan /\ UNCHANGED enrollDone BY <1>8 DEF SampleRejected, flags
  <2> QED BY <1>6, <2>1, <2>2, ScanFolded DEF Usable
<1>9. CASE MoreSamples
  <2>1. PICK u \in Updated : Again(u[1]) BY <1>9 DEF MoreSamples
  <2>2. action' = action /\ enrollDone' = enrollDone + 1
    BY <1>9, <2>1 DEF MoreSamples, Again
  <2>3. u[1] \in EngRecs /\ u[1].folds \in {eng.folds, eng.folds + 1}
    BY <1>9, ScanFolded DEF MoreSamples, Usable
  <2>4. eng'.folds = u[1].folds BY <2>1, <2>3, GrownOlder DEF Again
  <2>5. eng'.folds = eng.folds + 1 BY <1>9, <2>3, <2>4
  <2> QED BY <1>1, <2>2, <2>5 DEF StageIsFoldedFrame
<1>10. CASE EnrollmentEnds \/ IdentifyScan \/ VerifyScan
  <2>1. action = Owner
    BY <1>10, LiftedScans DEF EnrollmentEnds, EnrollScan, IdentifyScan, VerifyScan
  <2>2. action' = "none"
    BY <1>10, <2>1
    DEF EnrollmentEnds, EnrollScan, IdentifyScan, VerifyScan, Say, Complete, Enrolled,
        Owner
  <2> QED BY <1>2, <2>2
<1>13. CASE ScanFailed \/ ScanWithoutEngine
  <2>1. action = Owner
    BY <1>13, LiftedScans DEF ScanFailed, ScanWithoutEngine, DInv
  <2>2. action' = "none" BY <1>13, <2>1 DEF ScanFailed, ScanWithoutEngine, Say, Complete
  <2> QED BY <1>2, <2>2
<1>14. CASE InitSsmComplete \/ InitSsmFailed
  <2>1. action = "open"
    BY <1>14 DEF InitSsmComplete, InitSsmFailed, InfoRead, InfoArrives, InitStates,
                 DInv, BusyIffRunning
  <2>2. action' = "none"
    BY <1>14, <2>1 DEF InitSsmComplete, InitSsmFailed, Say, Complete
  <2> QED BY <1>2, <2>2
<1>11. CASE InitSsmAborts \/ Restarted
  <2>1. action' # "enroll" BY <1>11 DEF InitSsmAborts, Restarted, DriverLost
  <2> QED BY <1>2, <2>1
<1>12. CASE \/ DevOpen \/ DevOpenRefused \/ DevClose \/ DevVerify
            \/ DevVerifyInvalid \/ DevIdentify
  <2>1. action' # "enroll"
    BY <1>12 DEF DevOpen, DevOpenRefused, DevClose, DevVerify, DevVerifyInvalid,
                 DevIdentify, Begin
  <2> QED BY <1>2, <2>1
<1> QED
  BY <1>4, <1>5, <1>7, <1>8, <1>9, <1>10, <1>11, <1>12, <1>13, <1>14, Zenon
  DEF Next, HostNext

(* The number of completed stages gets ahead of the frames folded into the   *)
(* template only where a stage is announced whose Update failed: no bad      *)
(* scan, rejected frame, rescan, restart or earlier enrollment does it.      *)
THEOREM StagesPartAtFailedUpdate == Spec => [][GapIsFailedUpdate]_vars
<1>1. IInv /\ DInv /\ AInv /\ [Next]_vars => [GapIsFailedUpdate]_vars
  <2> SUFFICES ASSUME IInv, DInv, AInv, [Next]_vars,
                      StageIsFoldedFrame, ~StageIsFoldedFrame'
               PROVE  MoreSamples /\ eng'.folds = eng.folds
    BY DEF GapIsFailedUpdate
  <2> QED BY StageStep
<1> QED BY <1>1, DriverInvariant, AnswersInvariant, PTL DEF Spec

LEMMA AnnouncedStep ==
  ASSUME IInv, DInv, AInv, FoldsAreAnnounced, [Next]_vars
  PROVE  FoldsAreAnnounced'
<1>1. eng \in EngRecs /\ eng.folds \in Nat /\ enrollDone \in Nat
  BY DEF AInv, DInv, EngRecs, EngineRecords
<1>2. CASE action' # "enroll" BY <1>2 DEF FoldsAreAnnounced
<1>3. CASE SsmRuns \/ World \/ UNCHANGED vars
  BY <1>3 DEF SsmRuns, World, vars, driverVars, flags, FoldsAreAnnounced
<1>4. CASE DevEnroll
  <2>1. engineOk' = engineOk /\ enrollDone' = 0 BY <1>4 DEF DevEnroll
  <2>2. engineOk => eng'.folds = 0
    <3>1. /\ Relabel(eng, Forgotten) \in EngRecs
          /\ engineOk => Relabel(eng, Forgotten).iface
      BY <1>1, AllForgotten DEF AInv
    <3>2. engineOk => eng' \in EnrollBegin(Relabel(eng, Forgotten), Main)
      BY <1>4 DEF DevEnroll
    <3> QED BY <3>1, <3>2, Begins DEF EngRecs
  <2> QED BY <2>1, <2>2 DEF FoldsAreAnnounced
<1>5. ASSUME NEW e \in EngRecs, Again(e), engineOk' = engineOk,
             e.folds - eng.folds <= enrollDone' - enrollDone, enrollDone' \in Nat
      PROVE  FoldsAreAnnounced'
  <2>1. eng' = Relabel(e, Older) /\ action' = action BY <1>5 DEF Again
  <2>2. eng'.folds = e.folds /\ e.folds \in Nat
    BY <1>5, <2>1, GrownOlder DEF EngRecs, EngineRecords
  <2> QED BY <1>1, <1>5, <2>1, <2>2 DEF FoldsAreAnnounced
<1>6. CASE ScanRejected
  <2>1. PICK r \in IF ~scanOk THEN {<<eng, 1>>} ELSE IF engineOk THEN AcceptScan ELSE {} :
          IF isIdentify
          THEN Stop /\ UNCHANGED image /\ eng' = r[1] /\ Say("identify", "retry")
          ELSE Again(r[1])
    BY <1>6 DEF ScanRejected
  <2>2. r[1] \in EngRecs /\ r[1].folds = eng.folds /\ UNCHANGED <<enrollDone, engineOk>>
    <3>1. CASE ~scanOk BY <1>1, <1>6, <2>1, <3>1 DEF ScanRejected, flags
    <3>2. CASE scanOk
      <4>1. engineOk /\ r \in AcceptScan BY <2>1, <3>2
      <4> QED BY <1>6, <4>1, ScanAccepted DEF ScanRejected, Usable, flags
    <3> QED BY <3>1, <3>2
  <2>3. CASE isIdentify
    <3>1. action = Owner BY <1>6, LiftedScans DEF ScanRejected
    <3>2. action' # "enroll" BY <2>1, <2>3, <3>1 DEF Say, Complete, Owner
    <3> QED BY <1>2, <3>2
  <2>4. CASE ~isIdentify
    <3>1. r[1].folds - eng.folds <= enrollDone' - enrollDone BY <1>1, <2>2
    <3> QED BY <1>1, <1>5, <2>1, <2>2, <2>4, <3>1
  <2> QED BY <2>3, <2>4
<1>7. CASE SampleRejected
  <2>1. PICK u \in Updated : u[2] = 2 /\ Again(u[1]) BY <1>7 DEF SampleRejected
  <2>2. EnrollScan /\ UNCHANGED <<enrollDone, engineOk>> BY <1>7 DEF SampleRejected, flags
  <2>3. u[1] \in EngRecs /\ u[1].folds = eng.folds BY <2>1, <2>2, ScanFolded DEF Usable
  <2>4. u[1].folds - eng.folds <= enrollDone' - enrollDone BY <1>1, <2>2, <2>3
  <2> QED BY <1>1, <1>5, <2>1, <2>2, <2>3, <2>4
<1>8. CASE MoreSamples
  <2>1. PICK u \in Updated : Again(u[1]) BY <1>8 DEF MoreSamples
  <2>2. EnrollScan /\ enrollDone' = enrollDone + 1 /\ engineOk' = engineOk
    BY <1>8 DEF MoreSamples
  <2>3. u[1] \in EngRecs /\ u[1].folds \in {eng.folds, eng.folds + 1}
    BY <2>2, ScanFolded DEF Usable
  <2>4. u[1].folds - eng.folds <= enrollDone' - enrollDone BY <1>1, <2>2, <2>3
  <2> QED BY <1>1, <1>5, <2>1, <2>2, <2>3, <2>4
<1>9. CASE EnrollmentEnds \/ IdentifyScan \/ VerifyScan
  <2>1. action = Owner
    BY <1>9, LiftedScans DEF EnrollmentEnds, EnrollScan, IdentifyScan, VerifyScan
  <2>2. action' = "none"
    BY <1>9, <2>1
    DEF EnrollmentEnds, EnrollScan, IdentifyScan, VerifyScan, Say, Complete, Enrolled,
        Owner
  <2> QED BY <1>2, <2>2
<1>10. CASE ScanFailed \/ ScanWithoutEngine
  <2>1. action = Owner
    BY <1>10, LiftedScans DEF ScanFailed, ScanWithoutEngine, DInv
  <2>2. action' = "none" BY <1>10, <2>1 DEF ScanFailed, ScanWithoutEngine, Say, Complete
  <2> QED BY <1>2, <2>2
<1>11. CASE InitSsmComplete \/ InitSsmFailed
  <2>1. action = "open"
    BY <1>11 DEF InitSsmComplete, InitSsmFailed, InfoRead, InfoArrives, InitStates,
                 DInv, BusyIffRunning
  <2>2. action' = "none"
    BY <1>11, <2>1 DEF InitSsmComplete, InitSsmFailed, Say, Complete
  <2> QED BY <1>2, <2>2
<1>12. CASE InitSsmAborts \/ Restarted
  <2>1. action' # "enroll" BY <1>12 DEF InitSsmAborts, Restarted, DriverLost
  <2> QED BY <1>2, <2>1
<1>13. CASE \/ DevOpen \/ DevOpenRefused \/ DevClose \/ DevVerify
            \/ DevVerifyInvalid \/ DevIdentify
  <2>1. action' # "enroll"
    BY <1>13 DEF DevOpen, DevOpenRefused, DevClose, DevVerify, DevVerifyInvalid,
                 DevIdentify, Begin
  <2> QED BY <1>2, <2>1
<1> QED
  BY <1>3, <1>4, <1>6, <1>7, <1>8, <1>9, <1>10, <1>11, <1>12, <1>13, Zenon
  DEF Next, HostNext

(* No frame goes into the template unseen: those folded since Create was     *)
(* called never outnumber the stages announced, over bad scans, rejected     *)
(* samples, rescans, restarts and enrollments broken off before.             *)
THEOREM FoldedIsAnnounced == Spec => []FoldsAreAnnounced
<1>1. Init => FoldsAreAnnounced BY DEF Init, FoldsAreAnnounced
<1>2. IInv /\ DInv /\ AInv /\ FoldsAreAnnounced /\ [Next]_vars => FoldsAreAnnounced'
  BY AnnouncedStep
<1> QED BY <1>1, <1>2, DriverInvariant, AnswersInvariant, PTL DEF Spec

==============================================================================
