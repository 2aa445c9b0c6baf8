----------------------------- MODULE MatchEngine -----------------------------
(***************************************************************************)
(* ft_engine.c's public API: the process-wide state behind it as a record  *)
(* and every call as an operator on that record.  A call whose result      *)
(* depends on the vendor DLL returns the set of <<record, return value>>   *)
(* it may end in.  The DLL itself is external: what it may answer is read  *)
(* off the code that handles the answer.                                   *)
(*                                                                         *)
(* Bytes are abstracted to where they come from: a template the caller     *)
(* supplies is itself, one the DLL builds is the set of frames folded in,  *)
(* and a frame is its tag.                                                 *)
(***************************************************************************)
EXTENDS Integers

CONSTANTS
  ShimTable,   \* slots of shims[]
  ShimCount    \* entries register_shims adds per call

ASSUME ShimAssumption == ShimTable \in Nat /\ ShimCount \in 1 .. ShimTable

Unusable == "unusable"   \* a stored template of length 0 or over 1 MB
NoFrame  == [tag |-> "none", purpose |-> 0]

NewProcess ==
  [loaded   |-> FALSE,    \* g_loaded
   iface    |-> FALSE,    \* g_iface is set
   shims    |-> 0,        \* nshims
   reserved |-> FALSE,    \* the image's address range is mapped
   dead     |-> FALSE,    \* abort() was called
   armed    |-> {},       \* threads whose %gs points at the fake TEB
   have     |-> FALSE,    \* g_have_record
   rec      |-> {},       \* g_rec_template
   frame    |-> NoFrame,  \* in the DLL: the last accepted sample
   refused  |-> FALSE,    \* in the DLL: the last Create failed
   pend     |-> {},       \* in the DLL: the frames of the open enrollment
   folds    |-> 0,        \* in the DLL: samples folded since Create was called
   misuse   |-> FALSE]    \* an engine entry point was called out of contract

SetGs(e, th) == [e EXCEPT !.armed = @ \cup {th}]

\* A jump through g_iface: a crash when it is NULL, and undefined when %gs is
\* not armed on this thread or the call's own precondition does not hold.
Enter_DLL(e, th, pre) ==
  [e EXCEPT !.misuse = @ \/ ~e.iface \/ th \notin e.armed \/ ~pre]

------------------------------------------------------------------------------
\* load_pe, get_export, Query and Attach after the shims are registered: the
\* files may be missing, the image may be refused once its range is reserved
\* (nothing unmaps it, so no later attempt can reserve it), DllMain, Query or
\* Attach may fail.
LoadOutcomes(e, th) ==
  {<<e, -1>>} \cup
  IF e.reserved THEN {}
  ELSE LET r == [e EXCEPT !.reserved = TRUE] IN
       {<<r, -1>>, <<[SetGs(r, th) EXCEPT !.iface = TRUE], -4>>,
        <<[SetGs(r, th) EXCEPT !.iface = TRUE, !.loaded = TRUE], 0>>}
         \cup {SetGs(r, th)} \X {-1, -2, -3}

\* Mutant of EngineOpen: reg() writes without looking at the table's size.
EngineOpenUnchecked(e, th) ==
  IF e.loaded THEN {<<SetGs(e, th), 0>>}
  ELSE LoadOutcomes([e EXCEPT !.shims = @ + ShimCount], th)

EngineOpen(e, th) ==
  IF e.loaded THEN {<<SetGs(e, th), 0>>}
  ELSE IF e.shims + ShimCount > ShimTable
       THEN {<<[e EXCEPT !.shims = ShimTable, !.dead = TRUE], -1>>}
       ELSE LoadOutcomes([e EXCEPT !.shims = @ + ShimCount], th)

\* Mutant of EngineClose: the interface is dropped, as its comment warns.
EngineCloseClears(e) == [e EXCEPT !.iface = FALSE]

EngineClose(e) == e

\* A rejected sample leaves the DLL with the one it had.
Accept(e, th, tag, purpose) ==
  LET d == Enter_DLL(SetGs(e, th), th, TRUE) IN
  {<<d, 1>>, <<[d EXCEPT !.frame = [tag |-> tag, purpose |-> purpose]], 0>>}

\* Mutant of EnrollBegin: Create is not called.
EnrollBeginNoCreate(e, th) ==
  {[Enter_DLL(SetGs(e, th), th, TRUE) EXCEPT !.have = FALSE, !.rec = {}]}

\* Create's HRESULT is not looked at.  If it failed, the frames of the
\* enrollment before are still there.
EnrollBegin(e, th) ==
  LET d == [Enter_DLL(SetGs(e, th), th, TRUE)
              EXCEPT !.have = FALSE, !.rec = {}, !.folds = 0]
  IN  {[d EXCEPT !.refused = FALSE, !.pend = {}], [d EXCEPT !.refused = TRUE]}

\* Only 0x80098008 or a reject detail is a rejection; any other failing HRESULT
\* of Update folds nothing and is answered by Status like a success.
EnrollUpdate(e, th) ==
  LET d      == Enter_DLL(SetGs(e, th), th, e.frame.purpose = 4)
      folded == [d EXCEPT !.pend = @ \cup {e.frame.tag}, !.folds = @ + 1]
  IN  {<<d, 2>>} \cup ({folded, d} \X {0, 1})

\* st_AddRecord stores what Commit hands it, unless it is empty or too large;
\* Commit may fail before or after.
EnrollCommit(e, th) ==
  LET d      == [Enter_DLL(SetGs(e, th), th, TRUE) EXCEPT !.have = FALSE]
      stored == IF d.pend = {} THEN {}
                ELSE {[d EXCEPT !.have = TRUE, !.rec = d.pend]}
  IN  {<<r, -1>> : r \in stored \cup {d}}
        \cup {<<r, IF r.have THEN 0 ELSE -1>> : r \in stored \cup {d}}

\* One comparison; `alike` is the set of templates the DLL finds like the frame.
VerifyTemplate(e, th, t, alike) ==
  LET s == SetGs(e, th) IN
  IF t = Unusable THEN <<s, 0>>
  ELSE LET loaded == [s EXCEPT !.have = TRUE, !.rec = {t}] IN
       <<Enter_DLL(loaded, th, e.frame.purpose = 1), IF t \in alike THEN 1 ELSE 0>>

\* The passing of time, for the frames the process still holds.
Relabel(e, f(_)) ==
  [e EXCEPT !.rec = {f(x) : x \in @}, !.pend = {f(x) : x \in @}, !.frame.tag = f(@)]

EngineRecords(Templates, Tags, Threads) ==
  [loaded : BOOLEAN, iface : BOOLEAN, shims : 0 .. ShimTable, reserved : BOOLEAN,
   dead : BOOLEAN, armed : SUBSET Threads, have : BOOLEAN,
   rec : SUBSET (Templates \cup Tags),
   frame : [tag : Tags \cup {"none"}, purpose : {0, 1, 4}],
   refused : BOOLEAN, pend : SUBSET Tags, folds : Nat, misuse : BOOLEAN]
==============================================================================
