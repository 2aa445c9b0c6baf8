------------------------------ MODULE SensorSsm ------------------------------
(***************************************************************************)
(* The two sequential state machines (FpiSsm) by which ft9201.c talks to   *)
(* the reader: the PID 9338 handshake run by dev_open and the scan cycle   *)
(* run by start_scan.  Only the states PID 9338 can reach are here: the    *)
(* handshake completes in info_9338_cb and the scan cycle in lift_9338_cb, *)
(* so the legacy states listed after them in both enums are never entered. *)
(*                                                                         *)
(* An asynchronous call and its callback are one "flight": run_state       *)
(* issues it when a state is entered, the callback's step lands it.  The   *)
(* step that ends a machine is left open here (no value for ssm'): the     *)
(* completion handler decides whether another scan starts.  Module Ft9201  *)
(* conjoins the handlers; the specification below lets them do anything    *)
(* they may.                                                               *)
(***************************************************************************)
EXTENDS Integers

CONSTANTS
  InfoReplies,   \* <<width, height>> bytes 23 and 24 of a sensor-info reply
  OddReplies     \* what request 0x43 may answer besides the truth (1 or 0)

ASSUME InfoAssumption == InfoReplies \subseteq (0 .. 255) \X (0 .. 255)
ASSUME OddAssumption == OddReplies \subseteq 0 .. 255

VARIABLES
  ssm,         \* state of the running machine, "off" when none runs
  flight,      \* "none", "timer", "live", or "doomed": submitted after a cancel
  cancelled,   \* the current action's GCancellable
  pipe,        \* undelivered bulk-in data in the device
  finger,      \* a finger rests on the sensor
  sampled,     \* this touch has been photographed by the current operation
  image,       \* whose frame image_buf holds
  scanOk,      \* self->scan_ok
  area,        \* sensor_width * sensor_height
  bufLen,      \* bytes allocated for image_buf, 0 when it is NULL
  isOpen       \* libfprint has the device open

wires   == <<ssm, flight, cancelled>>
device  == <<pipe, finger, sampled>>
memory  == <<image, scanOk, area, bufLen, isOpen>>
sensorVars == <<wires, device, memory>>

------------------------------------------------------------------------------
(* The states, grouped by what run_state does on entry.                      *)

ArmStates    == {"INIT_9338_ARM1", "INIT_9338_ARM2", "SCAN_9338_STATUS_ARM1",
                 "SCAN_9338_SELECT_ARM", "SCAN_9338_STATUS_ARM2",
                 "SCAN_9338_CAPTURE_ARM"}
SelectStates == {"INIT_9338_SELECT", "SCAN_9338_SELECT"}
StatusCmds   == {"INIT_9338_INFO_CMD", "SCAN_9338_STATUS_CMD1",
                 "SCAN_9338_STATUS_CMD2"}
CtrlOuts     == ArmStates \cup SelectStates \cup StatusCmds
                  \cup {"SCAN_9338_CAPTURE_CMD"}
StatusReads  == {"SCAN_9338_STATUS_READ1", "SCAN_9338_STATUS_READ2"}
BulkReads    == StatusReads \cup {"INIT_9338_INFO_READ", "SCAN_9338_CAPTURE_READ"}
Delays       == {"SCAN_9338_WAIT_DELAY", "SCAN_9338_LIFT_DELAY"}
LiftStates   == {"SCAN_9338_LIFT_DELAY", "SCAN_9338_WAIT_LIFT"}

InitStates == {"INIT_9338_ARM1", "INIT_9338_SELECT", "INIT_9338_ARM2",
               "INIT_9338_INFO_CMD", "INIT_9338_INFO_READ"}
BeforeFrame ==   \* scan states up to the command that takes the picture
  {"SCAN_9338_WAIT_DELAY", "SCAN_9338_WAIT_FINGER", "SCAN_9338_STATUS_ARM1",
   "SCAN_9338_STATUS_CMD1", "SCAN_9338_STATUS_READ1", "SCAN_9338_SELECT_ARM",
   "SCAN_9338_SELECT", "SCAN_9338_STATUS_ARM2", "SCAN_9338_STATUS_CMD2",
   "SCAN_9338_STATUS_READ2", "SCAN_9338_CAPTURE_ARM", "SCAN_9338_CAPTURE_CMD"}
ScanStates == BeforeFrame \cup LiftStates \cup {"SCAN_9338_CAPTURE_READ"}

\* fpi_ssm_next_state: the successor in the enum.  The last state of either
\* machine would run on into the legacy states.
NextState(s) ==
  CASE s = "INIT_9338_ARM1"         -> "INIT_9338_SELECT"
    [] s = "INIT_9338_SELECT"       -> "INIT_9338_ARM2"
    [] s = "INIT_9338_ARM2"         -> "INIT_9338_INFO_CMD"
    [] s = "INIT_9338_INFO_CMD"     -> "INIT_9338_INFO_READ"
    [] s = "SCAN_9338_WAIT_DELAY"   -> "SCAN_9338_WAIT_FINGER"
    [] s = "SCAN_9338_WAIT_FINGER"  -> "SCAN_9338_STATUS_ARM1"
    [] s = "SCAN_9338_STATUS_ARM1"  -> "SCAN_9338_STATUS_CMD1"
    [] s = "SCAN_9338_STATUS_CMD1"  -> "SCAN_9338_STATUS_READ1"
    [] s = "SCAN_9338_STATUS_READ1" -> "SCAN_9338_SELECT_ARM"
    [] s = "SCAN_9338_SELECT_ARM"   -> "SCAN_9338_SELECT"
    [] s = "SCAN_9338_SELECT"       -> "SCAN_9338_STATUS_ARM2"
    [] s = "SCAN_9338_STATUS_ARM2"  -> "SCAN_9338_STATUS_CMD2"
    [] s = "SCAN_9338_STATUS_CMD2"  -> "SCAN_9338_STATUS_READ2"
    [] s = "SCAN_9338_STATUS_READ2" -> "SCAN_9338_CAPTURE_ARM"
    [] s = "SCAN_9338_CAPTURE_ARM"  -> "SCAN_9338_CAPTURE_CMD"
    [] s = "SCAN_9338_CAPTURE_CMD"  -> "SCAN_9338_CAPTURE_READ"
    [] s = "SCAN_9338_CAPTURE_READ" -> "SCAN_9338_LIFT_DELAY"
    [] s = "SCAN_9338_LIFT_DELAY"   -> "SCAN_9338_WAIT_LIFT"
    [] s = "SCAN_9338_WAIT_LIFT"    -> "SCAN_BG_RESET_EP"
    [] s = "INIT_9338_INFO_READ"    -> "INIT_WAKE1"

\* Mutant of Issue: the transfer is submitted without the action's cancellable.
IssueUncancellable(s) == IF s \in Delays THEN "timer" ELSE "live"

\* A delayed next_state ignores the cancellable; a transfer submitted with a
\* cancelled one is never sent and fails.
Issue(s) == IF s \in Delays THEN "timer"
            ELSE IF cancelled' THEN "doomed" ELSE "live"

Enter(s) == ssm' = s /\ flight' = Issue(s)
Stop     == ssm' = "off" /\ flight' = "none"

------------------------------------------------------------------------------
(* The device end (external: only its requests are in the repository).       *)
(* Request 0x34 resets the bulk endpoint; a reply queues behind one that was *)
(* never collected.  Whether a select is answered is not known: both happen. *)

Queue(reply) == IF pipe = "empty" THEN reply ELSE pipe

Obeys ==
  /\ pipe' \in CASE ssm \in ArmStates    -> {"empty"}
                 [] ssm \in SelectStates -> {pipe, Queue("status")}
                 [] ssm \in StatusCmds   -> {Queue("status")}
                 [] OTHER                -> {Queue("frame")}
  /\ sampled' = (sampled \/ (ssm = "SCAN_9338_CAPTURE_CMD" /\ finger))

FingerReplies == {IF finger THEN 1 ELSE 0} \cup OddReplies

------------------------------------------------------------------------------
(* Steps inside a machine.                                                   *)

Timer ==
  /\ flight = "timer"
  /\ UNCHANGED <<cancelled, device, memory>>
  /\ Enter(NextState(ssm))

\* ctrl_out_cb without an error.
CtrlAck ==
  /\ flight = "live" /\ ssm \in CtrlOuts
  /\ UNCHANGED <<cancelled, finger, memory>>
  /\ Obeys
  /\ Enter(NextState(ssm))

\* finger_9338_cb: anything but 1 polls again.
FingerPolled ==
  /\ flight = "live" /\ ssm = "SCAN_9338_WAIT_FINGER"
  /\ UNCHANGED <<cancelled, device, memory>>
  /\ \E v \in FingerReplies :
       Enter(IF v = 1 THEN NextState(ssm) ELSE "SCAN_9338_WAIT_DELAY")

\* Mutant of StatusRead: the capture goes out without resetting the endpoint.
StatusReadSkipsArm ==
  /\ flight = "live" /\ ssm \in StatusReads
  /\ UNCHANGED <<cancelled, finger, sampled, memory>>
  /\ pipe' \in {pipe, "empty"}
  /\ Enter(IF ssm = "SCAN_9338_STATUS_READ2" THEN "SCAN_9338_CAPTURE_CMD"
           ELSE NextState(ssm))

\* status_9338_cb looks at no byte and no length: an empty packet, which leaves
\* the reply in the device, advances as well.
StatusRead ==
  /\ flight = "live" /\ ssm \in StatusReads
  /\ UNCHANGED <<cancelled, finger, sampled, memory>>
  /\ pipe' \in {pipe, "empty"}
  /\ Enter(NextState(ssm))

\* Mutant of ImageRead: a short frame, which leaves the old one, goes on too.
ImageReadAnyLength ==
  /\ flight = "live" /\ ssm = "SCAN_9338_CAPTURE_READ" /\ pipe = "frame"
  /\ UNCHANGED <<cancelled, finger, sampled, area, bufLen, isOpen>>
  /\ pipe' = "empty"
  /\ image' \in {image, "scan"} /\ scanOk' = TRUE
  /\ Enter(NextState(ssm))

\* image_9338_cb with at least w * h bytes, which a status reply does not have.
ImageRead ==
  /\ flight = "live" /\ ssm = "SCAN_9338_CAPTURE_READ" /\ pipe = "frame"
  /\ UNCHANGED <<cancelled, finger, sampled, area, bufLen, isOpen>>
  /\ pipe' = "empty"
  /\ image' = "scan" /\ scanOk' = TRUE
  /\ Enter(NextState(ssm))

\* Mutants of StillThere: next_state in place of the jump back, and a poll that
\* goes on whatever was read.
StillThereRunsOn ==
  /\ flight = "live" /\ ssm = "SCAN_9338_WAIT_LIFT"
  /\ UNCHANGED <<cancelled, device, memory>>
  /\ \E v \in FingerReplies : v # 0
  /\ Enter(NextState(ssm))
StillThereAlways ==
  /\ flight = "live" /\ ssm = "SCAN_9338_WAIT_LIFT"
  /\ UNCHANGED <<cancelled, device, memory>>
  /\ Enter("SCAN_9338_LIFT_DELAY")

\* lift_9338_cb: anything but 0 polls again.
StillThere ==
  /\ flight = "live" /\ ssm = "SCAN_9338_WAIT_LIFT"
  /\ UNCHANGED <<cancelled, device, memory>>
  /\ \E v \in FingerReplies : v # 0
  /\ Enter("SCAN_9338_LIFT_DELAY")

SsmStep == Timer \/ CtrlAck \/ FingerPolled \/ StatusRead \/ ImageRead \/ StillThere

------------------------------------------------------------------------------
(* What ends a machine.  Each leaves ssm', flight' and the driver's part to  *)
(* the completion handler it is conjoined with.                              *)

Dim(byte, default) == IF byte = 0 THEN default ELSE byte

\* info_9338_cb with 25 bytes or more.
InfoArrives ==
  /\ flight = "live" /\ ssm = "INIT_9338_INFO_READ" /\ pipe # "empty"
  /\ pipe' = "empty" /\ UNCHANGED <<finger, sampled>>

\* Mutant of InfoRead: image_buf is sized before the geometry is stored.
InfoReadSizesFirst ==
  /\ InfoArrives
  /\ \E info \in InfoReplies : area' = Dim(info[1], 64) * Dim(info[2], 80)
  /\ bufLen' = area + 2 /\ image' = "zero" /\ isOpen' = TRUE
  /\ UNCHANGED <<cancelled, scanOk>>

\* Its geometry, the buffers init_ssm_complete allocates for it, and the end of
\* the open, which succeeds whatever becomes of the engine.
InfoRead ==
  /\ InfoArrives
  /\ \E info \in InfoReplies : area' = Dim(info[1], 64) * Dim(info[2], 80)
  /\ bufLen' = area' + 2 /\ image' = "zero" /\ isOpen' = TRUE
  /\ UNCHANGED <<cancelled, scanOk>>

\* Mutant of Lifted: compares as the legacy wait_lift_cb does.
LiftedUnlessPresent ==
  /\ flight = "live" /\ ssm = "SCAN_9338_WAIT_LIFT"
  /\ \E v \in FingerReplies : v # 1
  /\ UNCHANGED <<cancelled, device, scanOk, area, bufLen, isOpen>>

\* lift_9338_cb, buffer[0] == 0.
Lifted ==
  /\ flight = "live" /\ ssm = "SCAN_9338_WAIT_LIFT" /\ 0 \in FingerReplies
  /\ UNCHANGED <<cancelled, device, scanOk, area, bufLen, isOpen>>

\* What becomes of a transfer whose outcome is lost: a live one may have
\* reached the device or taken the data along, a doomed one was never sent.
Unseen ==
  \/ UNCHANGED <<pipe, sampled>>
  \/ flight = "live" /\ ssm \in CtrlOuts /\ Obeys
  \/ flight = "live" /\ ssm \in BulkReads /\ pipe' = "empty" /\ UNCHANGED sampled

\* fpi_ssm_mark_failed: the transfer returned an error, or info_9338_cb or
\* image_9338_cb threw away a reply that is too short.
Failed ==
  /\ flight \in {"live", "doomed"}
  /\ Unseen
  /\ UNCHANGED <<cancelled, finger, memory>>

------------------------------------------------------------------------------
(* What the driver does to the machines.                                     *)

\* The age of a frame: of this scan, of this operation, of an earlier one.
Older(tag)     == IF tag = "scan" THEN "op" ELSE tag
Forgotten(tag) == IF tag \in {"scan", "op"} THEN "old" ELSE tag

\* start_scan from a completion handler: the next scan of the same operation.
Rescan == image' = Older(image) /\ Enter("SCAN_9338_WAIT_DELAY")

\* start_scan from dev_enroll, dev_verify or dev_identify.
FirstScan ==
  /\ ssm = "off" /\ isOpen
  /\ cancelled' = FALSE
  /\ sampled' = FALSE
  /\ image' = Forgotten(image)
  /\ Enter("SCAN_9338_WAIT_DELAY")
  /\ UNCHANGED <<pipe, finger, scanOk, area, bufLen, isOpen>>

\* dev_open after the interface is claimed.
StartInit ==
  /\ ssm = "off" /\ ~isOpen
  /\ cancelled' = FALSE
  /\ Enter("INIT_9338_ARM1")
  /\ UNCHANGED <<device, memory>>

\* dev_close frees image_buf.
FreeBuffers ==
  /\ ssm = "off" /\ isOpen
  /\ bufLen' = 0 /\ image' = "none" /\ isOpen' = FALSE
  /\ UNCHANGED <<wires, device, scanOk, area>>

\* fprintd's memory is gone; the device's is not.
HostLost ==
  /\ Stop /\ cancelled' = FALSE
  /\ image' = "none" /\ scanOk' = FALSE /\ area' = 0 /\ bufLen' = 0
  /\ isOpen' = FALSE

HostRestart == HostLost /\ Unseen /\ UNCHANGED finger

(* The rest of the world.                                                    *)

Place == ~finger /\ finger' = TRUE /\ UNCHANGED <<wires, pipe, sampled, memory>>

Lift ==
  /\ finger /\ finger' = FALSE
  /\ sampled' = FALSE
  /\ UNCHANGED <<wires, pipe, memory>>

\* The caller cancels its action; dev_cancel itself does nothing.
Cancel ==
  /\ ssm # "off" /\ ~cancelled
  /\ cancelled' = TRUE
  /\ UNCHANGED <<ssm, flight, device, memory>>

------------------------------------------------------------------------------
InitDone == InfoRead /\ Stop
ScanDone == Lifted /\ (Rescan \/ (Stop /\ UNCHANGED image))
Fail     == Failed /\ Stop

SensorInit ==
  /\ ssm = "off" /\ flight = "none" /\ cancelled = FALSE
  /\ pipe \in {"empty", "status", "frame"}   \* left by whoever used it before
  /\ finger \in BOOLEAN /\ sampled = FALSE
  /\ image = "none" /\ scanOk = FALSE /\ area = 0 /\ bufLen = 0
  /\ isOpen = FALSE

MainLoop == SsmStep \/ InitDone \/ ScanDone \/ Fail
SensorNext ==
  \/ MainLoop
  \/ StartInit \/ FirstScan \/ FreeBuffers \/ HostRestart
  \/ Place \/ Lift \/ Cancel

SensorSpec == SensorInit /\ [][SensorNext]_sensorVars

\* The main loop runs a timer that is due, and every transfer ends: each one is
\* submitted with a timeout of 5 s.
FairSensorSpec == SensorSpec /\ WF_sensorVars(MainLoop)

------------------------------------------------------------------------------
(* Type correctness: every variable stays in its range.                      *)
SensorTypeOK ==
  /\ ssm \in InitStates \cup ScanStates \cup {"off"}
  /\ flight \in {"none", "timer", "live", "doomed"}
  /\ cancelled \in BOOLEAN
  /\ pipe \in {"empty", "status", "frame"}
  /\ finger \in BOOLEAN /\ sampled \in BOOLEAN
  /\ image \in {"none", "zero", "scan", "op", "old"}
  /\ scanOk \in BOOLEAN
  /\ area \in Nat /\ bufLen \in Nat /\ isOpen \in BOOLEAN

(* A machine that waits for bulk data finds the reply to its own command at  *)
(* the endpoint, never one an earlier, cancelled, failed or crashed cycle    *)
(* left there: this is what the 0x34 request before every command is for.    *)
ReplyInStep ==
  /\ ssm \in StatusReads \cup {"INIT_9338_INFO_READ"} => pipe = "status"
  /\ ssm = "SCAN_9338_CAPTURE_READ" => pipe = "frame"

(* A scan that waits for the finger to lift, hence one that completes, holds *)
(* the frame it captured itself.  scan_ok is never cleared, so only the      *)
(* failure of a short read keeps an earlier frame from being used again.     *)
FreshFrame ==
  ssm \in LiftStates => image = "scan" /\ scanOk

(* Whenever a scan runs, image_buf is allocated for the geometry of the last *)
(* handshake: the memcpy of image_9338_cb stays inside it.                   *)
BufferHoldsFrame ==
  ssm \in ScanStates => area > 0 /\ bufLen = area + 2

(* One touch yields at most one frame in an operation: a rescan does not     *)
(* take its picture before the finger has left the sensor.                   *)
CaptureTaken == ssm = "SCAN_9338_CAPTURE_CMD" /\ ssm' = "SCAN_9338_CAPTURE_READ"
OneSamplePerTouch == [][CaptureTaken => ~sampled]_sensorVars

(* A cancelled machine ends, although the delays do not see the cancellable. *)
CancelEnds == cancelled /\ ssm # "off" ~> ssm = "off"

(* When the finger leaves for good the wait for its removal ends.            *)
LiftNoticed == <>[](~finger) => []<>(ssm \notin LiftStates)
==============================================================================
