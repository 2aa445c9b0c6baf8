---------------------------- MODULE EngineSession ----------------------------
(***************************************************************************)
(* Every legal use of ft_engine.h: a caller that opens the engine and then *)
(* makes its calls one at a time, each on any thread (fprintd re-opens the *)
(* device "often on a different thread"), in any order ft_engine.h allows: *)
(* an update follows the accept of an enrollment frame, a verify that of a *)
(* verification frame, and a verify may come between an enrollment's calls.*)
(***************************************************************************)
EXTENDS MatchEngine

CONSTANTS Threads, Templates, MaxFolds   \* MaxFolds bounds the updates

ASSUME SessionAssumption ==
  MaxFolds \in Nat /\ {"op", "old", "none", Unusable} \cap Templates = {}

VARIABLES
  eng,
  usable,     \* the last ft_engine_open returned 0
  enrolling,  \* between ft_engine_enroll_begin and a successful commit
  out         \* the blob ft_engine_enroll_commit returned last, {} if none

vars == <<eng, usable, enrolling, out>>

\* Frames of the enrollment begun last are "op", earlier ones "old".
Aged(tag) == IF tag = "op" THEN "old" ELSE tag

Init == eng = NewProcess /\ usable = FALSE /\ enrolling = FALSE /\ out = {}

Alive == ~eng.dead
Ready == Alive /\ usable

Open(th) ==
  /\ Alive
  /\ \E r \in EngineOpen(eng, th) : eng' = r[1] /\ usable' = (r[2] = 0)
  /\ UNCHANGED <<enrolling, out>>

Close ==
  /\ Ready
  /\ eng' = EngineClose(eng) /\ usable' = FALSE
  /\ UNCHANGED <<enrolling, out>>

AcceptFrame(th) ==
  /\ Ready
  /\ \E purpose \in {1, 4} : \E r \in Accept(eng, th, "op", purpose) : eng' = r[1]
  /\ UNCHANGED <<usable, enrolling, out>>

Begin(th) ==
  /\ Ready
  /\ eng' \in EnrollBegin(Relabel(eng, Aged), th)
  /\ enrolling' = TRUE /\ out' = {}
  /\ UNCHANGED usable

Update(th) ==
  /\ Ready /\ enrolling
  /\ eng.frame = [tag |-> "op", purpose |-> 4] /\ eng.folds < MaxFolds
  /\ \E r \in EnrollUpdate(eng, th) : eng' = r[1]
  /\ UNCHANGED <<usable, enrolling, out>>

Commit(th) ==
  /\ Ready /\ enrolling
  /\ \E r \in EnrollCommit(eng, th) :
       /\ eng' = r[1]
       /\ out' = IF r[2] = 0 THEN r[1].rec ELSE {}
       /\ enrolling' = (r[2] # 0)
  /\ UNCHANGED usable

Verify(th) ==
  /\ Ready /\ eng.frame.purpose = 1
  /\ \E t \in Templates \cup {Unusable} : eng' = VerifyTemplate(eng, th, t, {})[1]
  /\ UNCHANGED <<usable, enrolling, out>>

Restart ==
  /\ eng' = NewProcess /\ usable' = FALSE /\ enrolling' = FALSE /\ out' = {}

Next ==
  \/ Close \/ Restart
  \/ \E th \in Threads : \/ Open(th) \/ AcceptFrame(th) \/ Begin(th)
                         \/ Update(th) \/ Commit(th) \/ Verify(th)

Spec == Init /\ [][Next]_vars

------------------------------------------------------------------------------
(* Type correctness of the session and the engine behind it.                 *)
TypeOK ==
  /\ eng \in EngineRecords(Templates, {"op", "old"}, Threads)
  /\ usable \in BOOLEAN /\ enrolling \in BOOLEAN
  /\ out \in SUBSET (Templates \cup {"op", "old"})

(* Whatever thread a call arrives on, it enters the DLL through an interface *)
(* that is still there and with %gs armed on that thread, also after a close *)
(* and a re-open that loads nothing.                                         *)
NoMisuse == ~eng.misuse

(* Unless the begin failed unseen, a successful commit returns a template of *)
(* this enrollment's frames, never the one a verify in between left in the   *)
(* single-record store.                                                      *)
CommitReturnsOwn == ~eng.refused => out \subseteq {"op"}

(* The store shows the engine no record of an earlier enrollment, unless the *)
(* DLL kept its frames when a begin failed: a commit that failed after       *)
(* AddRecord leaves a record behind, but only until the next begin.          *)
NoLeftoverRecord == ~eng.refused /\ eng.have => "old" \notin eng.rec
==============================================================================
