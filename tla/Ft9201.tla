------------------------------- MODULE Ft9201 --------------------------------
(***************************************************************************)
(* The driver ft9201.c as libfprint sees it: the vfuncs of FpDeviceClass,  *)
(* the completion handlers of the two state machines of SensorSsm and the  *)
(* calls they make into MatchEngine.                                       *)
(*                                                                         *)
(* libfprint (external) runs one action at a time on an open device, hands *)
(* each its own cancellable, and ignores a *_complete call for an action   *)
(* that is not the current one.  A handler is one step: nothing else runs  *)
(* in fprintd's main loop while it does.                                   *)
(***************************************************************************)
EXTENDS SensorSsm, MatchEngine, Sequences

CONSTANTS
  Templates,     \* templates of the prints on file
  VerifyPrints,  \* prints a verify may be asked for
  Galleries,     \* print lists an identify may be asked for
  NrStages       \* nr_enroll_stages

Malformed == "malformed"   \* fpi-data that is missing or not "(ay)"
Prints    == Templates \cup {Unusable, Malformed}
Main      == "main"        \* the thread of fprintd's main loop

ASSUME DriverAssumption ==
  /\ NrStages \in Nat \ {0}
  /\ VerifyPrints \subseteq Prints
  /\ Galleries \subseteq Seq(Prints)
  /\ {Unusable, Malformed} \cap Templates = {}
  /\ {"none", "zero", "scan", "op", "old"} \cap Templates = {}

VARIABLES
  action,      \* libfprint's current action, "none" when idle
  request,     \* the prints it was asked about
  told,        \* the answer to the last action
  isVerify, isIdentify, enrollDone, engineOk,
  tmplBlob,    \* self->tmpl_blob, Malformed when NULL
  eng          \* ft_engine.c's globals and the DLL

flags == <<isVerify, isIdentify, enrollDone, engineOk, tmplBlob>>
driverVars == <<action, request, told, flags, eng>>
vars == <<sensorVars, driverVars>>

Silence == [to |-> "none", what |-> "nothing", rec |-> {}, frame |-> NoFrame,
            alike |-> {}, whole |-> FALSE]

\* fpi_device_{open,enroll,verify,identify}_complete.
Complete(kind, what, rec, frame, alike) ==
  IF action = kind
  THEN /\ action' = "none"
       /\ told' = [to |-> kind, what |-> what, rec |-> rec, frame |-> frame,
                   alike |-> alike, whole |-> FALSE]
  ELSE UNCHANGED <<action, told>>

Say(kind, what) == Complete(kind, what, {}, NoFrame, {})

\* Which *_complete a scan's handler calls when it gives up.
Owner == IF isIdentify THEN "identify" ELSE IF isVerify THEN "verify" ELSE "enroll"

Begin(kind, prints) ==
  /\ action = "none" /\ ~eng.dead
  /\ action' = kind /\ request' = prints /\ told' = Silence

------------------------------------------------------------------------------
(* Opening and closing.                                                      *)

DevOpen ==
  /\ Begin("open", <<>>)
  /\ StartInit
  /\ UNCHANGED <<flags, eng>>

\* The interface cannot be claimed.
DevOpenRefused ==
  /\ action = "none" /\ ~eng.dead /\ ~isOpen
  /\ request' = <<>> /\ told' = [Silence EXCEPT !.to = "open", !.what = "error"]
  /\ UNCHANGED <<sensorVars, action, flags, eng>>

\* Mutant of InitSsmComplete: the result of ft_engine_open is not kept.
InitSsmCompleteTrusting ==
  /\ InfoRead /\ Stop
  /\ \E r \in EngineOpen(eng, Main) : ~r[1].dead /\ eng' = r[1]
  /\ engineOk' = TRUE
  /\ Say("open", "ok")
  /\ UNCHANGED <<request, isVerify, isIdentify, enrollDone, tmplBlob>>

InitSsmComplete ==
  /\ InfoRead /\ Stop
  /\ \E r \in EngineOpen(eng, Main) :
       /\ ~r[1].dead
       /\ eng' = r[1] /\ engineOk' = (r[2] = 0)
  /\ Say("open", "ok")
  /\ UNCHANGED <<request, isVerify, isIdentify, enrollDone, tmplBlob>>

\* Mutant of InitSsmFailed: the error is dropped without an answer.
InitSsmFailedSilently ==
  /\ ssm \in InitStates /\ Failed /\ Stop
  /\ UNCHANGED <<action, told, request, flags, eng>>

InitSsmFailed ==
  /\ ssm \in InitStates /\ Failed /\ Stop
  /\ Say("open", "error")
  /\ UNCHANGED <<request, flags, eng>>

DriverLost(e) ==
  /\ HostLost
  /\ action' = "none" /\ request' = <<>> /\ told' = Silence
  /\ isVerify' = FALSE /\ isIdentify' = FALSE /\ enrollDone' = 0
  /\ engineOk' = FALSE /\ tmplBlob' = Malformed
  /\ eng' = e

\* ft_engine_open calls abort(): the process ends inside init_ssm_complete.
InitSsmAborts ==
  /\ InfoArrives
  /\ \E r \in EngineOpen(eng, Main) :
       r[1].dead /\ DriverLost([NewProcess EXCEPT !.dead = TRUE])

DevClose ==
  /\ action = "none" /\ ~eng.dead
  /\ FreeBuffers
  /\ tmplBlob' = Malformed
  /\ eng' = IF engineOk THEN EngineClose(eng) ELSE eng
  /\ request' = <<>> /\ told' = Silence
  /\ UNCHANGED <<action, isVerify, isIdentify, enrollDone, engineOk>>

------------------------------------------------------------------------------
(* Starting an action.                                                       *)

DevEnroll ==
  /\ Begin("enroll", <<>>)
  /\ FirstScan
  /\ isVerify' = FALSE /\ isIdentify' = FALSE /\ enrollDone' = 0
  /\ LET e == Relabel(eng, Forgotten) IN
     eng' \in IF engineOk THEN EnrollBegin(e, Main) ELSE {e}
  /\ UNCHANGED <<engineOk, tmplBlob>>

\* Mutants of DevVerify: is_identify is not cleared; a template already loaded
\* is used again.
DevVerifyKeepsIdentify ==
  \E p \in VerifyPrints \ {Malformed} :
    /\ Begin("verify", <<p>>)
    /\ FirstScan
    /\ isVerify' = TRUE /\ tmplBlob' = p
    /\ eng' = Relabel(eng, Forgotten)
    /\ UNCHANGED <<isIdentify, enrollDone, engineOk>>
DevVerifyCachesBlob ==
  \E p \in VerifyPrints \ {Malformed} :
    /\ Begin("verify", <<p>>)
    /\ FirstScan
    /\ isIdentify' = FALSE /\ isVerify' = TRUE
    /\ tmplBlob' = IF tmplBlob = Malformed THEN p ELSE tmplBlob
    /\ eng' = Relabel(eng, Forgotten)
    /\ UNCHANGED <<enrollDone, engineOk>>

DevVerify ==
  \E p \in VerifyPrints \ {Malformed} :
    /\ Begin("verify", <<p>>)
    /\ FirstScan
    /\ isIdentify' = FALSE /\ isVerify' = TRUE /\ tmplBlob' = p
    /\ eng' = Relabel(eng, Forgotten)
    /\ UNCHANGED <<enrollDone, engineOk>>

\* The stored print is invalid: answered at once, is_verify keeps its value.
DevVerifyInvalid ==
  /\ Malformed \in VerifyPrints
  /\ action = "none" /\ ~eng.dead /\ isOpen
  /\ request' = <<Malformed>>
  /\ told' = [Silence EXCEPT !.to = "verify", !.what = "invalid"]
  /\ isIdentify' = FALSE
  /\ UNCHANGED <<sensorVars, action, isVerify, enrollDone, engineOk, tmplBlob, eng>>

DevIdentify ==
  \E g \in Galleries :
    /\ Begin("identify", g)
    /\ FirstScan
    /\ isVerify' = FALSE /\ isIdentify' = TRUE
    /\ eng' = Relabel(eng, Forgotten)
    /\ UNCHANGED <<enrollDone, engineOk, tmplBlob>>

------------------------------------------------------------------------------
(* scan_ssm_complete, one action per way out.                                *)

ScanFailed ==
  /\ ssm \in ScanStates /\ Failed /\ Stop
  /\ Say(Owner, "error")
  /\ UNCHANGED <<request, flags, eng>>

ScanWithoutEngine ==
  /\ Lifted /\ scanOk /\ ~engineOk
  /\ Stop /\ UNCHANGED image
  /\ Say(Owner, "error")
  /\ UNCHANGED <<request, flags, eng>>

\* Mutant of Again: the scan resumes after the wait for a finger.
AgainNoWait(e) ==
  /\ image' = Older(image) /\ Enter("SCAN_9338_STATUS_ARM1")
  /\ eng' = Relabel(e, Older) /\ UNCHANGED <<action, told>>

Again(e) == Rescan /\ eng' = Relabel(e, Older) /\ UNCHANGED <<action, told>>

AcceptScan == Accept(eng, Main, image, IF isVerify \/ isIdentify THEN 1 ELSE 4)

\* Mutant of ScanRejected: verify reports the retry, as identify does.
ScanRejectedReports ==
  /\ Lifted
  /\ \E r \in IF ~scanOk THEN {<<eng, 1>>} ELSE IF engineOk THEN AcceptScan ELSE {} :
       /\ r[2] # 0
       /\ IF isIdentify \/ isVerify
          THEN Stop /\ UNCHANGED image /\ eng' = r[1] /\ Say(Owner, "retry")
          ELSE Again(r[1])
  /\ UNCHANGED <<request, flags>>

\* A bad scan or a frame the engine rejects.  Identify gives up with a retry;
\* verify scans again in silence, enroll after a progress report of the retry.
ScanRejected ==
  /\ Lifted
  /\ \E r \in IF ~scanOk THEN {<<eng, 1>>} ELSE IF engineOk THEN AcceptScan ELSE {} :
       /\ r[2] # 0
       /\ IF isIdentify
          THEN Stop /\ UNCHANGED image /\ eng' = r[1] /\ Say("identify", "retry")
          ELSE Again(r[1])
  /\ UNCHANGED <<request, flags>>

\* The engine after a frame it accepts.
Accepted == {r[1] : r \in {a \in AcceptScan : a[2] = 0}}

\* Mutant of GalleryTurn: the loop does not break at a match.
GalleryTurnNoBreak(w, print, alike) ==
  IF w[3] THEN w
  ELSE IF print = Malformed THEN <<w[1], {}, TRUE>>
  ELSE LET v == VerifyTemplate(w[1], Main, print, alike) IN
       <<v[1], IF v[2] = 1 THEN {print} ELSE w[2], FALSE>>

\* One turn of the gallery loop on <<engine, match, invalid>>.
GalleryTurn(w, print, alike) ==
  IF w[2] # {} \/ w[3] THEN w
  ELSE IF print = Malformed THEN <<w[1], {}, TRUE>>
  ELSE LET v == VerifyTemplate(w[1], Main, print, alike) IN
       <<v[1], IF v[2] = 1 THEN {print} ELSE {}, FALSE>>

\* What the loop holds after each number of prints.
GalleryWalk(g, e0, alike) ==
  LET walk[n \in 0 .. Len(g)] ==
        IF n = 0 THEN <<e0, {}, FALSE>> ELSE GalleryTurn(walk[n - 1], g[n], alike)
  IN  walk

IdentifyScan ==
  /\ Lifted /\ scanOk /\ engineOk /\ isIdentify
  /\ \E e \in Accepted, alike \in SUBSET Templates :
       LET w == GalleryWalk(request, e, alike)[Len(request)] IN
       /\ eng' = w[1]
       /\ Complete("identify",
                   IF w[3] THEN "invalid" ELSE IF w[2] # {} THEN "match" ELSE "nomatch",
                   w[2], w[1].frame, alike)
  /\ Stop /\ UNCHANGED <<image, request, flags>>

VerifyScan ==
  /\ Lifted /\ scanOk /\ engineOk /\ isVerify /\ ~isIdentify
  /\ \E e \in Accepted, alike \in SUBSET Templates :
       LET v == VerifyTemplate(e, Main, tmplBlob, alike) IN
       /\ eng' = v[1]
       /\ Complete("verify", IF v[2] = 1 THEN "match" ELSE "nomatch",
                   v[1].rec, v[1].frame, alike)
  /\ Stop /\ UNCHANGED <<image, request, flags>>

EnrollScan == Lifted /\ scanOk /\ engineOk /\ ~isVerify /\ ~isIdentify

Updated == UNION {EnrollUpdate(e, Main) : e \in Accepted}

SampleRejected ==
  /\ EnrollScan
  /\ \E u \in Updated : u[2] = 2 /\ Again(u[1])
  /\ UNCHANGED <<request, flags>>

MoreSamples ==
  /\ EnrollScan
  /\ enrollDone' = enrollDone + 1
  /\ enrollDone' < NrStages
  /\ \E u \in Updated : u[2] = 1 /\ Again(u[1])
  /\ UNCHANGED <<request, isVerify, isIdentify, engineOk, tmplBlob>>

\* The print is handed out; `whole` if Status found the template complete.
Enrolled(rec, whole) ==
  IF action = "enroll"
  THEN /\ action' = "none"
       /\ told' = [Silence EXCEPT !.to = "enroll", !.what = "enrolled",
                                  !.rec = rec, !.whole = whole]
  ELSE UNCHANGED <<action, told>>

\* Mutant of EnrollmentEnds: the last stage is counted one short.
EnrollmentEndsShort ==
  /\ EnrollScan
  /\ enrollDone' = enrollDone + 1
  /\ \E u \in Updated :
       /\ u[2] # 2 /\ (enrollDone' + 1 < NrStages => u[2] = 0)
       /\ \E c \in EnrollCommit(u[1], Main) :
            /\ eng' = c[1]
            /\ IF c[2] = 0 THEN Enrolled(c[1].rec, u[2] = 0)
                           ELSE Say("enroll", "error")
  /\ Stop /\ UNCHANGED <<image, request, isVerify, isIdentify, engineOk, tmplBlob>>

EnrollmentEnds ==
  /\ EnrollScan
  /\ enrollDone' = enrollDone + 1
  /\ \E u \in Updated :
       /\ u[2] # 2 /\ (enrollDone' < NrStages => u[2] = 0)
       /\ \E c \in EnrollCommit(u[1], Main) :
            /\ eng' = c[1]
            /\ IF c[2] = 0 THEN Enrolled(c[1].rec, u[2] = 0)
                           ELSE Say("enroll", "error")
  /\ Stop /\ UNCHANGED <<image, request, isVerify, isIdentify, engineOk, tmplBlob>>
------------------------------------------------------------------------------
(* Everything else leaves the driver's memory alone.                         *)

SsmRuns   == SsmStep /\ UNCHANGED driverVars
World     == (Place \/ Lift \/ Cancel) /\ UNCHANGED driverVars
Restarted == HostRestart /\ DriverLost(NewProcess)

Init ==
  /\ SensorInit
  /\ action = "none" /\ request = <<>> /\ told = Silence
  /\ isVerify = FALSE /\ isIdentify = FALSE /\ enrollDone = 0
  /\ engineOk = FALSE /\ tmplBlob = Malformed
  /\ eng = NewProcess

\* What fprintd's main loop does by itself: due timers and ended transfers.
HostNext ==
  \/ SsmRuns
  \/ InitSsmComplete \/ InitSsmFailed \/ InitSsmAborts
  \/ ScanFailed \/ ScanWithoutEngine \/ ScanRejected
  \/ IdentifyScan \/ VerifyScan
  \/ SampleRejected \/ MoreSamples \/ EnrollmentEnds

Next ==
  \/ HostNext
  \/ DevOpen \/ DevOpenRefused \/ DevClose
  \/ DevEnroll \/ DevVerify \/ DevVerifyInvalid \/ DevIdentify
  \/ World \/ Restarted

Spec     == Init /\ [][Next]_vars
FairSpec == Spec /\ WF_vars(HostNext)

------------------------------------------------------------------------------
Tags    == {"none", "zero", "scan", "op", "old"}
Actions == {"none", "open", "enroll", "verify", "identify"}
Replies == [to : Actions,
            what : {"nothing", "ok", "error", "invalid", "retry", "match",
                    "nomatch", "enrolled"},
            rec : SUBSET (Prints \cup Tags),
            frame : [tag : Tags, purpose : {0, 1, 4}],
            alike : SUBSET Templates,
            whole : BOOLEAN]

(* Type correctness: the driver's, the sensor's and the engine's variables   *)
(* stay in their ranges.                                                     *)
TypeOK ==
  /\ SensorTypeOK
  /\ action \in Actions /\ request \in Seq(Prints) /\ told \in Replies
  /\ isVerify \in BOOLEAN /\ isIdentify \in BOOLEAN /\ enrollDone \in Nat
  /\ engineOk \in BOOLEAN /\ tmplBlob \in Prints
  /\ eng \in EngineRecords(Templates, Tags, {Main})

(* libfprint waits for an answer exactly while a machine of the driver runs  *)
(* that will give it: no handler forgets to answer, answers for the wrong    *)
(* action (libfprint would ignore it and wait for ever) or leaves a machine  *)
(* running behind an answer.                                                 *)
BusyIffRunning ==
  /\ action = "none" <=> ssm = "off"
  /\ action = "open" <=> ssm \in InitStates

(* The engine is only entered through an interface it has returned, on an    *)
(* armed thread, and with a sample accepted for the purpose of the call.     *)
NoEngineMisuse == ~eng.misuse

(* A match or no-match of verify compares a frame of its own scan with the   *)
(* template of the print it was asked about.                                 *)
FreshVerdict == told.frame = [tag |-> "scan", purpose |-> 1]
VerifyAnswersRequest ==
  told.to = "verify" /\ told.what \in {"match", "nomatch"} =>
    /\ FreshVerdict
    /\ told.what = "match" <=> request[1] \in told.alike
    /\ request[1] # Unusable => told.rec = {request[1]}

(* Identify names the first print of the gallery the engine finds like the   *)
(* fresh frame, and says there is none only when there is none; a malformed  *)
(* print spoils the answer only when no earlier one matches.                 *)
FirstIn(S) == {i \in DOMAIN request :
                 request[i] \in S /\ \A j \in 1 .. i - 1 : request[j] \notin S}
IdentifyAnswersGallery ==
  told.to = "identify" /\ told.what \in {"match", "nomatch", "invalid"} =>
    LET hit == FirstIn(told.alike \cup {Malformed}) IN
    /\ FreshVerdict
    /\ told.what = "nomatch" => hit = {}
    /\ told.what = "match"   => \E i \in hit : told.rec = {request[i]} \cap told.alike
    /\ told.what = "invalid" => \E i \in hit : request[i] = Malformed

(* A committed template is built from frames of its own enrollment alone:    *)
(* not from a cancelled one before it, nor the template a verify loaded.     *)
(* The one way another's frames get in is a Create that failed, which        *)
(* ft_engine_enroll_begin does not notice.                                   *)
EnrolledFromThisOp ==
  told.what = "enrolled" =>
    /\ told.rec # {}
    /\ ~eng.refused => told.rec \subseteq {"scan", "op"}

(* A cancelled action is answered, although dev_cancel does nothing and the  *)
(* scan's delays do not see the cancellable.                                 *)
CancelIsAnswered == cancelled /\ action # "none" ~> action = "none"

(* An open is answered, whatever the reader and the engine do.               *)
OpenIsAnswered == action = "open" ~> action # "open"

(* The driver implements the contract libfprint's clients rely on.           *)
Contract == INSTANCE FpDeviceContract WITH
  open <- isOpen, Stages <- NrStages,
  stage <- IF action = "enroll" THEN enrollDone ELSE 0,
  answer <- <<told.to, told.what, told.whole>>
ImplementsContract == Contract!ContractSpec

(* Composed with its handlers the state machines keep to SensorSsm's         *)
(* specification, so what is checked and proved of that holds of the driver. *)
KeepsSensorSpec == SensorSpec

(* Bringing the hardware up without a working matcher DLL keeps fprintd      *)
(* alive.                                                                    *)
NeverAborts == ~eng.dead

(* Every completed enrollment stage is a frame folded into the template.     *)
StageIsFoldedFrame == action = "enroll" => enrollDone <= eng.folds
==============================================================================
