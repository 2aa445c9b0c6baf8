------------------------- MODULE StorageAdapterProofs -------------------------
(***************************************************************************)
(* Proofs about the engine's API, for every number of threads, stored      *)
(* templates and folds and every size of the shim table, and about the     *)
(* storage adapter behind it, for every size of the record and every       *)
(* length and number of stored templates.                                  *)
(***************************************************************************)
EXTENDS StorageAdapter, MatchEngineProofs

(* The session.                                                              *)

Recs == EngineRecords(Templates, {"op", "old"}, Threads)

(* The inductive invariant of NoMisuse.  What a call needs is that the       *)
(* interface is there once an open succeeded, also an earlier one whose      *)
(* engine a later open finds loaded; that %gs is armed each call sees to.    *)
EInv ==
  /\ TypeOK /\ NoMisuse
  /\ eng.loaded => eng.iface
  /\ usable => eng.iface

------------------------------------------------------------------------------
\* A call in contract leaves no trace.
LEMMA InContract ==
  ASSUME NEW e \in Recs, NEW th \in Threads, e.iface, th \in e.armed
  PROVE  Enter_DLL(e, th, TRUE) = e
BY DEF Enter_DLL, Recs, EngineRecords

\* So a call that arms %gs first only needs the interface.
LEMMA Entered ==
  ASSUME NEW e \in Recs, NEW th \in Threads, e.iface
  PROVE  Enter_DLL(SetGs(e, th), th, TRUE) = SetGs(e, th)
<1>1. SetGs(e, th) \in Recs /\ th \in SetGs(e, th).armed /\ SetGs(e, th).iface
  BY Armed DEF Recs
<1> QED BY <1>1, InContract

LEMMA Aging ==
  ASSUME NEW e \in Recs
  PROVE  /\ Relabel(e, Aged) \in Recs
         /\ Relabel(e, Aged).iface = e.iface
         /\ Relabel(e, Aged).loaded = e.loaded
         /\ Relabel(e, Aged).misuse = e.misuse
<1> DEFINE R == {Aged(x) : x \in e.rec}
           P == {Aged(x) : x \in e.pend}
           f == [e.frame EXCEPT !.tag = Aged(@)]
<1>1. R \in SUBSET (Templates \cup {"op", "old"}) /\ P \in SUBSET {"op", "old"}
  BY DEF Aged, Recs, EngineRecords
<1>2. f \in [tag : {"op", "old"} \cup {"none"}, purpose : {0, 1, 4}]
  BY DEF Aged, Recs, EngineRecords
<1>3. Relabel(e, Aged) = [e EXCEPT !.rec = R, !.pend = P, !.frame = f]
  BY DEF Relabel, Recs, EngineRecords
<1> DEFINE z == [e EXCEPT !.rec = R, !.pend = P, !.frame = f]
<1> HIDE DEF R, P, f
<1>4. z.iface = e.iface /\ z.loaded = e.loaded /\ z.misuse = e.misuse
  BY DEF Recs, EngineRecords
<1>5. z \in Recs
  BY <1>1, <1>2 DEF Recs, EngineRecords
<1> QED BY <1>3, <1>4, <1>5

------------------------------------------------------------------------------
LEMMA InitEInv == Init => EInv
BY Untouched DEF Init, EInv, TypeOK, NoMisuse, Recs

LEMMA NextEInv == EInv /\ [Next]_vars => EInv'
<1> SUFFICES ASSUME EInv, [Next]_vars PROVE EInv'
  OBVIOUS
<1>1. eng \in Recs /\ ~eng.misuse /\ (eng.loaded => eng.iface)
  BY DEF EInv, TypeOK, NoMisuse, Recs
<1>2. ASSUME NEW th \in Threads, Open(th) PROVE EInv'
  <2>1. PICK r \in EngineOpen(eng, th) : eng' = r[1] /\ usable' = (r[2] = 0)
    BY <1>2 DEF Open
  <2>2. /\ eng' \in Recs /\ ~eng'.misuse /\ (eng'.loaded => eng'.iface)
        /\ usable' => eng'.iface
    BY <1>1, <2>1, Opened DEF Recs
  <2> QED BY <1>2, <2>1, <2>2 DEF Open, EInv, TypeOK, NoMisuse, Recs
<1>3. CASE Close
  BY <1>3 DEF Close, EngineClose, EInv, TypeOK, NoMisuse
<1>4. CASE Restart
  BY <1>4, Untouched DEF Restart, EInv, TypeOK, NoMisuse, Recs
<1>5. ASSUME Ready, eng' \in Recs, eng'.iface, eng'.misuse = eng.misuse,
             usable' = usable, enrolling' \in BOOLEAN,
             out' \in SUBSET (Templates \cup {"op", "old"})
      PROVE  EInv'
  BY <1>1, <1>5 DEF Ready, EInv, TypeOK, NoMisuse, Recs
<1>6. Ready => eng.iface
  BY DEF Ready, EInv
<1>7. ASSUME NEW th \in Threads, AcceptFrame(th) PROVE EInv'
  BY <1>1, <1>5, <1>6, <1>7, Accepts DEF AcceptFrame, EInv, TypeOK, Recs
<1>8. ASSUME NEW th \in Threads, Begin(th) PROVE EInv'
  BY <1>1, <1>5, <1>6, <1>8, Aging, Begins DEF Begin, Recs
<1>9. ASSUME NEW th \in Threads, Update(th) PROVE EInv'
  BY <1>1, <1>5, <1>6, <1>9, Folds DEF Update, EInv, TypeOK, Recs
<1>10. ASSUME NEW th \in Threads, Commit(th) PROVE EInv'
  <2>1. PICK r \in EnrollCommit(eng, th) :
          eng' = r[1] /\ out' = (IF r[2] = 0 THEN r[1].rec ELSE {})
    BY <1>10 DEF Commit
  <2>2. r[1] \in Recs /\ r[1].iface /\ r[1].misuse = eng.misuse
    BY <1>1, <1>6, <1>10, Commits DEF Commit, Recs
  <2>3. out' \in SUBSET (Templates \cup {"op", "old"})
    BY <2>1, <2>2 DEF Recs, EngineRecords
  <2> QED BY <1>5, <1>10, <2>1, <2>2, <2>3 DEF Commit
<1>11. ASSUME NEW th \in Threads, Verify(th) PROVE EInv'
  BY <1>1, <1>5, <1>6, <1>11, Verifies DEF Verify, EInv, TypeOK, Recs
<1>12. CASE UNCHANGED vars
  BY <1>12 DEF vars, EInv, TypeOK, NoMisuse
<1> QED
  BY <1>2, <1>3, <1>4, <1>7, <1>8, <1>9, <1>10, <1>11, <1>12 DEF Next

THEOREM SessionInvariant == Spec => []EInv
BY InitEInv, NextEInv, PTL DEF Spec

(* Type correctness of the session and the engine's state.                   *)
THEOREM TypeCorrect == Spec => []TypeOK
<1>1. EInv => TypeOK BY DEF EInv
<1> QED BY <1>1, SessionInvariant, PTL

(* No legal order of calls, on any number of threads, with closes, re-opens  *)
(* and failed opens among them, enters the DLL out of contract.              *)
THEOREM InContractAlways == Spec => []NoMisuse
<1>1. EInv => NoMisuse BY DEF EInv
<1> QED BY <1>1, SessionInvariant, PTL

------------------------------------------------------------------------------
(* What a commit may store: while the DLL holds only frames of the           *)
(* enrollment begun last, the store can hold no older ones.  A Create that   *)
(* succeeds sees to it, whatever a failed one before it left.                *)
OwnInv ==
  /\ ~eng.refused => eng.pend \subseteq {"op"}
  /\ CommitReturnsOwn /\ NoLeftoverRecord

LEMMA NextOwnInv ==
  ASSUME EInv, OwnInv, [Next]_vars
  PROVE  OwnInv'
<1> USE DEF OwnInv, CommitReturnsOwn, NoLeftoverRecord
<1>1. eng \in Recs /\ ~eng.misuse /\ (eng.loaded => eng.iface) /\ (Ready => eng.iface)
  BY DEF EInv, TypeOK, NoMisuse, Recs, Ready
<1>2. ASSUME NEW th \in Threads, Open(th) PROVE OwnInv'
  BY <1>1, <1>2, Opened DEF Open, Recs
<1>3. CASE Close \/ UNCHANGED vars
  BY <1>3 DEF Close, EngineClose, vars
<1>4. CASE Restart
  BY <1>4 DEF Restart, NewProcess
<1>5. ASSUME NEW th \in Threads, AcceptFrame(th) PROVE OwnInv'
  BY <1>1, <1>5, Accepts DEF AcceptFrame, Ready, Recs
<1>6. ASSUME NEW th \in Threads, Begin(th) PROVE OwnInv'
  <2>1. Relabel(eng, Aged) \in Recs /\ Relabel(eng, Aged).iface
    BY <1>1, <1>6, Aging DEF Begin
  <2>2. ~eng'.have /\ (~eng'.refused => eng'.pend = {})
    BY <1>6, <2>1, Begins DEF Begin, Recs
  <2> QED BY <1>6, <2>2 DEF Begin
<1>7. ASSUME NEW th \in Threads, Update(th) PROVE OwnInv'
  BY <1>1, <1>7, Folds DEF Update, Recs
<1>8. ASSUME NEW th \in Threads, Commit(th) PROVE OwnInv'
  BY <1>1, <1>8, Commits DEF Commit, Recs
<1>9. ASSUME NEW th \in Threads, Verify(th) PROVE OwnInv'
  <2>1. PICK t \in Templates \cup {Unusable} : eng' = VerifyTemplate(eng, th, t, {})[1]
    BY <1>9 DEF Verify
  <2>2. t # Unusable => t # "old"
    BY SessionAssumption
  <2>3. eng.iface /\ eng.frame.purpose = 1
    BY <1>1, <1>9 DEF Verify
  <2>4. eng'.pend = eng.pend
    BY <1>1, <2>1, <2>3, Verifies DEF Recs
  <2>5. eng'.refused = eng.refused
    BY <1>1, <2>1, <2>3, Verifies DEF Recs
  <2>6. t = Unusable => eng'.rec = eng.rec /\ eng'.have = eng.have
    <3>1. t = Unusable => eng' = SetGs(eng, th)
      BY <2>1 DEF VerifyTemplate
    <3> QED BY <1>1, <3>1, Armed DEF Recs
  <2>7. t # Unusable => eng'.rec = {t}
    BY <1>1, <2>1, <2>3, Verifies DEF Recs
  <2> QED BY <1>9, <2>2, <2>4, <2>5, <2>6, <2>7 DEF Verify
<1> QED
  BY <1>2, <1>3, <1>4, <1>5, <1>6, <1>7, <1>8, <1>9 DEF Next

LEMMA InitOwnInv == Init => OwnInv
BY DEF Init, NewProcess, OwnInv, CommitReturnsOwn, NoLeftoverRecord

(* Once Create succeeds, a commit returns frames of its own enrollment only, *)
(* also after commits and creates that failed.                               *)
THEOREM CommitsOwn == Spec => []CommitReturnsOwn
<1>1. OwnInv => CommitReturnsOwn
  BY DEF OwnInv
<1>2. EInv /\ OwnInv /\ [Next]_vars => OwnInv'
  BY NextOwnInv
<1> QED BY <1>1, <1>2, InitOwnInv, SessionInvariant, PTL DEF Spec

(* And the enrollment is never shown the record of an earlier one.           *)
THEOREM NoLeftover == Spec => []NoLeftoverRecord
<1>1. OwnInv => NoLeftoverRecord
  BY DEF OwnInv
<1>2. EInv /\ OwnInv /\ [Next]_vars => OwnInv'
  BY NextOwnInv
<1> QED BY <1>1, <1>2, InitOwnInv, SessionInvariant, PTL DEF Spec

------------------------------------------------------------------------------
(* The adapter.                                                              *)

(* Between calls the globals are what the engine's record says.              *)
Agrees == have = eng.have /\ Held = eng.rec

(* The inductive invariant: what a call in progress may count on.            *)
HInv ==
  /\ StoreTyped /\ EInv /\ RecordIsTheCallers
  /\ call = Idle => Agrees
  /\ call # Idle => usable /\ call.th \in Threads
  /\ call.op = "begin" => ~have /\ size = 0
  /\ call.op = "update" => /\ Agrees /\ enrolling /\ eng.folds < MaxFolds
                           /\ eng.frame = [tag |-> "op", purpose |-> 4]
  /\ call.op = "commit" =>
       /\ enrolling /\ (cursor => have)
       /\ \/ ~have /\ Held = eng.rec
          \/ have /\ Held = eng.pend /\ eng.pend # {}
  /\ call.op = "verify" =>
       /\ have /\ Held = {call.blob} /\ call.blob \in Templates
       /\ eng.frame.purpose = 1

------------------------------------------------------------------------------
\* After a copy the record holds what was copied, whatever was there.
LEMMA Stored ==
  ASSUME StoreTyped, NEW src \in Frames, NEW n \in 1 .. MaxSize, Store(src, n)
  PROVE  /\ Held' = src /\ have'
         /\ bytes' \in [1 .. MaxSize -> Frames] /\ size' \in 0 .. MaxSize
<1>1. bytes' = [c \in 1 .. MaxSize |-> IF c <= n THEN src ELSE bytes[c]] /\ size' = n
  BY DEF Store, Memcpy
<1>2. n \in Nat /\ n >= 1 /\ MaxSize \in Nat /\ n <= MaxSize
  BY StoreAssumption
<1>3. \A c \in 1 .. n : bytes'[c] = src
  BY <1>1, <1>2
<1>4. 1 \in 1 .. n
  BY <1>2
<1>5. Held' = UNION {bytes'[c] : c \in 1 .. n}
  BY <1>1 DEF Held
<1>6. {bytes'[c] : c \in 1 .. n} = {src}
  BY <1>3, <1>4
<1>7. bytes' \in [1 .. MaxSize -> Frames] /\ size' \in 0 .. MaxSize
  BY <1>1, <1>2 DEF StoreTyped
<1> QED BY <1>5, <1>6, <1>7 DEF Store

LEMMA Kept == ASSUME UNCHANGED record PROVE Held' = Held /\ have' = have /\ size' = size
BY DEF record, Held

LEMMA EmptyRecord == size = 0 => Held = {}
BY DEF Held

LEMMA HeldTyped == StoreTyped => Held \in Frames
<1> SUFFICES ASSUME StoreTyped PROVE \A c \in 1 .. size : bytes[c] \subseteq Templates \cup {"op", "old"}
  BY DEF Held, Frames
<1> QED BY StoreAssumption DEF StoreTyped, Frames

\* Bringing a record up to date that already is changes nothing.
LEMMA SyncedSame ==
  ASSUME NEW e \in Recs, have = e.have, Held = e.rec
  PROVE  Synced(e) = e
BY DEF Synced, Recs, EngineRecords

LEMMA SyncedAgrees ==
  ASSUME NEW e \in Recs
  PROVE  Synced(e).have = have /\ Synced(e).rec = Held
BY DEF Synced, Recs, EngineRecords

LEMMA EngTyped ==
  ASSUME HInv PROVE /\ eng \in Recs /\ ~eng.misuse /\ (eng.loaded => eng.iface)
                    /\ (usable => eng.iface)
BY DEF HInv, EInv, TypeOK, NoMisuse, Recs

------------------------------------------------------------------------------
(* Each call, when the DLL returns from it, is a step of EngineSession.      *)
LEMMA BeginStep == HInv /\ LeaveBegin => Begin(call.th)
<1> SUFFICES ASSUME HInv, LeaveBegin PROVE Begin(call.th)
  OBVIOUS
<1>1. call.op = "begin" /\ call # Idle /\ Alive
  BY DEF LeaveBegin, Leave, InDll
<1>2. usable /\ call.th \in Threads /\ ~have /\ Held = {}
  BY <1>1, EmptyRecord DEF HInv
<1>3. PICK e \in EnrollBegin(Relabel(eng, Aged), call.th) : eng' = Synced(e)
  BY DEF LeaveBegin
<1>4. e \in Recs /\ ~e.have /\ e.rec = {}
  BY <1>2, EngTyped, Aging, Begins DEF Recs
<1>5. e.have \in BOOLEAN /\ have \in BOOLEAN
  BY <1>4 DEF HInv, StoreTyped, Recs, EngineRecords
<1>6. Synced(e) = e
  BY <1>2, <1>4, <1>5, SyncedSame
<1> QED BY <1>1, <1>2, <1>3, <1>6 DEF LeaveBegin, Begin, Ready

LEMMA UpdateStep == HInv /\ LeaveUpdate => Update(call.th)
<1> SUFFICES ASSUME HInv, LeaveUpdate PROVE Update(call.th)
  OBVIOUS
<1>1. call.op = "update" /\ call # Idle /\ Alive
  BY DEF LeaveUpdate, Leave, InDll
<1>2. /\ usable /\ call.th \in Threads /\ Agrees /\ enrolling /\ eng.folds < MaxFolds
      /\ eng.frame = [tag |-> "op", purpose |-> 4]
  BY <1>1 DEF HInv
<1>3. PICK r \in EnrollUpdate(eng, call.th) : eng' = Synced(r[1])
  BY DEF LeaveUpdate
<1>4. r[1] \in Recs /\ r[1].rec = eng.rec /\ r[1].have = eng.have
  BY <1>2, EngTyped, Folds DEF Recs
<1>5. Synced(r[1]) = r[1]
  BY <1>2, <1>4, SyncedSame DEF Agrees
<1> QED BY <1>1, <1>2, <1>3, <1>5 DEF LeaveUpdate, Update, Ready

LEMMA CommitStep == HInv /\ LeaveCommit => Commit(call.th)
<1> SUFFICES ASSUME HInv, LeaveCommit PROVE Commit(call.th)
  OBVIOUS
<1>1. call.op = "commit" /\ call # Idle /\ Alive
  BY DEF LeaveCommit, Leave, InDll
<1>2. /\ usable /\ call.th \in Threads /\ enrolling /\ eng \in Recs /\ eng.iface
      /\ enrolling \in BOOLEAN
      /\ \/ ~have /\ Held = eng.rec
         \/ have /\ Held = eng.pend /\ eng.pend # {}
  BY <1>1, EngTyped DEF HInv, EInv, TypeOK
<1> DEFINE s == SetGs(eng, call.th)
           d == [s EXCEPT !.have = FALSE]
           w == [d EXCEPT !.have = TRUE, !.rec = d.pend]
           stored == IF d.pend = {} THEN {} ELSE {w}
<1>3. s \in Recs /\ s.pend = eng.pend /\ s.rec = eng.rec
  BY <1>2, Armed DEF Recs
<1>4. Enter_DLL(s, call.th, TRUE) = s
  BY <1>2, Entered
<1>5. eng' = Synced(s)
  BY <1>4 DEF LeaveCommit
<1>6. EnrollCommit(eng, call.th) =
        {<<q, -1>> : q \in stored \cup {d}}
          \cup {<<q, IF q.have THEN 0 ELSE -1>> : q \in stored \cup {d}}
  BY <1>4 DEF EnrollCommit
<1> HIDE DEF s
<1>7. have \in BOOLEAN
  BY DEF HInv, StoreTyped
<1>8. CASE ~have /\ Held = eng.rec
  <2>1. Synced(s) = d
    BY <1>3, <1>7, <1>8 DEF Synced, Recs, EngineRecords
  <2>2. out' = {} /\ enrolling' = TRUE
    BY <1>2, <1>8 DEF LeaveCommit
  <2> HIDE DEF d, stored
  <2>3. <<d, -1>> \in EnrollCommit(eng, call.th)
    BY <1>6
  <2>4. \E r \in EnrollCommit(eng, call.th) : r[1] = d /\ r[2] # 0
    BY <2>3
  <2> QED BY <1>1, <1>2, <1>5, <2>1, <2>2, <2>4 DEF Commit, Ready, LeaveCommit
<1>9. CASE have /\ Held = eng.pend /\ eng.pend # {}
  <2>1. Synced(s) = w /\ d.pend = eng.pend /\ w.have /\ w.rec = Held
    BY <1>3, <1>7, <1>9 DEF Synced, Recs, EngineRecords
  <2>2. w \in stored
    BY <1>9, <2>1
  <2> HIDE DEF d, stored, w
  <2>3. <<w, -1>> \in EnrollCommit(eng, call.th) /\ <<w, 0>> \in EnrollCommit(eng, call.th)
    BY <1>6, <2>1, <2>2
  <2>5. CASE out' = Held /\ enrolling' = FALSE
    <3>1. \E r \in EnrollCommit(eng, call.th) : r[1] = w /\ r[2] = 0
      BY <2>3
    <3> QED BY <1>1, <1>2, <1>5, <2>1, <2>5, <3>1 DEF Commit, Ready, LeaveCommit
  <2>6. CASE out' = {} /\ enrolling' = enrolling
    <3>1. \E r \in EnrollCommit(eng, call.th) : r[1] = w /\ r[2] # 0
      BY <2>3
    <3>2. enrolling' = TRUE
      BY <1>2, <2>6
    <3> QED BY <1>1, <1>2, <1>5, <2>1, <2>6, <3>1, <3>2 DEF Commit, Ready, LeaveCommit
  <2> QED BY <2>5, <2>6 DEF LeaveCommit
<1> QED BY <1>2, <1>8, <1>9

LEMMA VerifyStep == HInv /\ LeaveVerify => Verify(call.th)
<1> SUFFICES ASSUME HInv, LeaveVerify PROVE Verify(call.th)
  OBVIOUS
<1>1. call.op = "verify" /\ call # Idle /\ Alive
  BY DEF LeaveVerify, Leave, InDll
<1>2. /\ usable /\ call.th \in Threads /\ have /\ Held = {call.blob}
      /\ call.blob \in Templates /\ eng.frame.purpose = 1
      /\ eng \in Recs /\ eng.iface /\ have \in BOOLEAN
  BY <1>1, EngTyped DEF HInv, StoreTyped
<1> DEFINE s == SetGs(eng, call.th)
           l == [s EXCEPT !.have = TRUE, !.rec = {call.blob}]
<1>3. /\ s \in Recs /\ s.iface /\ call.th \in s.armed
  BY <1>2, Armed DEF Recs
<1>4. Enter_DLL(s, call.th, eng.frame.purpose = 1) = s
  BY <1>2, <1>3, InContract
<1>5. eng' = Synced(s)
  BY <1>4 DEF LeaveVerify
<1>6. call.blob # Unusable
  BY <1>2, SessionAssumption
<1> HIDE DEF s
<1>7. Synced(s) = l
  BY <1>2, <1>3 DEF Synced, Recs, EngineRecords
<1>8. l \in Recs /\ l.iface /\ call.th \in l.armed
  BY <1>2, <1>3 DEF Recs, EngineRecords
<1> HIDE DEF l
<1>9. Enter_DLL(l, call.th, eng.frame.purpose = 1) = l
  BY <1>2, <1>8, InContract
<1>10. VerifyTemplate(eng, call.th, call.blob, {})[1] = l
  BY <1>6, <1>9 DEF VerifyTemplate, l, s
<1> QED BY <1>1, <1>2, <1>5, <1>7, <1>10 DEF LeaveVerify, Verify, Ready

\* Everything else is a step of EngineSession as it stands, or none.
LEMMA Simulates == HInv /\ [StoreNext]_allVars => [Next]_vars
<1> SUFFICES ASSUME HInv, StoreNext PROVE Next \/ UNCHANGED vars
  BY DEF allVars, vars
<1>1. CASE Vtable
  BY <1>1 DEF Vtable, st_QueryBySubject, st_FirstRecord, st_NextRecord,
       st_GetCurrentRecord, st_AddRecord, Found
<1>2. CASE Closed \/ Crashed
  BY <1>2 DEF Closed, Crashed, Next
<1>3. ASSUME LeaveBegin \/ LeaveUpdate \/ LeaveCommit \/ LeaveVerify PROVE Next
  <2>1. call.th \in Threads
    BY <1>3 DEF HInv, LeaveBegin, LeaveUpdate, LeaveCommit, LeaveVerify, Leave, InDll
  <2> QED BY <1>3, <2>1, BeginStep, UpdateStep, CommitStep, VerifyStep DEF Next
<1>4. ASSUME NEW th \in Threads, Elsewhere(th) PROVE Next
  BY <1>4 DEF Elsewhere, Next
<1>5. ASSUME NEW th \in Threads, VerifyUnusable(th) PROVE Next
  <2>1. VerifyTemplate(eng, th, Unusable, {})[1] = SetGs(eng, th)
    BY DEF VerifyTemplate
  <2> QED BY <1>5, <2>1 DEF VerifyUnusable, Verify, Next
<1>6. ASSUME NEW th \in Threads,
             EnterBegin(th) \/ EnterUpdate(th) \/ EnterCommit(th) \/ EnterVerify(th)
      PROVE  UNCHANGED vars
  BY <1>6 DEF EnterBegin, EnterUpdate, EnterCommit, EnterVerify, Enter
<1> QED BY <1>1, <1>2, <1>3, <1>4, <1>5, <1>6 DEF StoreNext
------------------------------------------------------------------------------
LEMMA EmptyTyped ==
  /\ [c \in 1 .. MaxSize |-> {}] \in [1 .. MaxSize -> Frames] /\ 0 \in 0 .. MaxSize
  /\ Blind \in [rec : Frames, ident : Identities \cup {Blank}, sought : BOOLEAN]
BY StoreAssumption DEF Frames, Blind

LEMMA StoreInitHInv == StoreInit => HInv
<1> SUFFICES ASSUME StoreInit PROVE HInv
  OBVIOUS
<1>1. EInv /\ eng.have = FALSE /\ eng.rec = {}
  BY InitEInv DEF StoreInit, Init, NewProcess
<1>2. Held = {}
  BY EmptyRecord DEF StoreInit
<1>3. StoreTyped
  BY EmptyTyped DEF StoreInit, StoreTyped
<1> QED BY <1>1, <1>2, <1>3
           DEF StoreInit, HInv, Agrees, RecordIsTheCallers, Blind, Idle

\* A call of the vtable, inside an engine call.
LEMMA VtableHInv ==
  ASSUME HInv, Vtable, EInv' PROVE HInv'
<1> USE DEF HInv
<1>1. InDll /\ UNCHANGED <<vars, call>> /\ ident' \in Identities \cup {Blank}
  BY DEF Vtable, st_QueryBySubject, st_FirstRecord, st_NextRecord,
     st_GetCurrentRecord, st_AddRecord, Found, Name, StoreTyped
<1>2. CASE st_QueryBySubject \/ st_FirstRecord \/ st_NextRecord
  <2>1. cursor' \in {have, FALSE} /\ UNCHANGED <<record, seen>>
    BY <1>2 DEF st_QueryBySubject, st_FirstRecord, st_NextRecord, Found
  <2>2. StoreTyped'
    BY <1>1, <2>1 DEF StoreTyped, record
  <2>3. RecordIsTheCallers'
    BY <1>1, <2>1 DEF RecordIsTheCallers, vars
  <2>4. have' = have /\ size' = size /\ Held' = Held
    BY <2>1, Kept
  <2>5. (cursor => have)' \/ cursor' = cursor \/ call.op # "commit"
    BY <2>1, <2>4
  <2> QED BY <1>1, <2>2, <2>3, <2>4, <2>5 DEF InDll, Agrees, vars
<1>3. CASE st_GetCurrentRecord
  <2>1. /\ seen' = [rec |-> Held, ident |-> ident, sought |-> cursor]
        /\ UNCHANGED <<record, ident, cursor>>
    BY <1>3 DEF st_GetCurrentRecord
  <2>2. StoreTyped'
    BY <1>1, <2>1, HeldTyped DEF StoreTyped, record
  <2>3. RecordIsTheCallers'
    BY <1>1, <2>1 DEF RecordIsTheCallers, vars
  <2> QED BY <1>1, <2>1, <2>2, <2>3, Kept DEF InDll, Agrees, vars
<1>4. CASE st_AddRecord
  <2>1. call.op = "commit" /\ UNCHANGED <<cursor, seen>>
    BY <1>4 DEF st_AddRecord
  <2>2. CASE UNCHANGED record
    <3>1. StoreTyped'
      BY <1>1, <2>1, <2>2 DEF StoreTyped, record
    <3> QED BY <1>1, <2>1, <2>2, <3>1, Kept
               DEF InDll, Agrees, RecordIsTheCallers, vars
  <2>3. ASSUME NEW n \in 1 .. MaxSize, eng.pend # {}, Store(eng.pend, n) PROVE HInv'
    <3>1. eng.pend \in Frames
      BY EngTyped DEF Recs, EngineRecords, Frames
    <3>2. /\ Held' = eng.pend /\ have'
          /\ bytes' \in [1 .. MaxSize -> Frames] /\ size' \in 0 .. MaxSize
      BY <2>3, <3>1, Stored
    <3>3. have' = TRUE
      BY <2>3 DEF Store
    <3>4. StoreTyped'
      BY <1>1, <2>1, <3>2, <3>3 DEF StoreTyped
    <3> QED BY <1>1, <2>1, <2>3, <3>2, <3>4 DEF InDll, RecordIsTheCallers, vars, Idle
  <2> QED BY <1>4, <2>2, <2>3 DEF st_AddRecord
<1> QED BY <1>2, <1>3, <1>4 DEF Vtable

\* An engine call begins.
LEMMA EnterHInv ==
  ASSUME HInv, EInv', NEW th \in Threads,
         EnterBegin(th) \/ EnterUpdate(th) \/ EnterCommit(th) \/ EnterVerify(th)
  PROVE  HInv'
<1>1. PICK op \in {"begin", "update", "commit", "verify"}, blob \in Templates \cup {"none"} :
        Enter(op, th, blob)
  BY DEF EnterBegin, EnterUpdate, EnterCommit, EnterVerify
<1>2. /\ usable /\ call = Idle /\ Agrees /\ StoreTyped
      /\ call' = [op |-> op, th |-> th, blob |-> blob] /\ call' # Idle
      /\ cursor' = FALSE /\ seen' = Blind /\ UNCHANGED <<vars, ident>>
  BY <1>1 DEF Enter, Ready, HInv, Idle
<1>3. RecordIsTheCallers'
  BY <1>2 DEF RecordIsTheCallers, Blind
<1>4. /\ bytes' \in [1 .. MaxSize -> Frames] /\ size' \in 0 .. MaxSize
      /\ have' \in BOOLEAN
      => StoreTyped'
  BY <1>1, <1>2 DEF StoreTyped, Blind, Frames
<1>5. CASE EnterBegin(th)
  <2>1. bytes' \in [1 .. MaxSize -> Frames]
    BY <1>2, <1>5 DEF EnterBegin, StoreTyped, Frames, Aged
  <2>2. StoreTyped'
    BY <1>4, <1>5, <2>1, EmptyTyped DEF EnterBegin
  <2> QED BY <1>2, <1>3, <1>5, <2>2 DEF EnterBegin, Enter, HInv, vars
<1>6. CASE EnterUpdate(th)
  <2>1. StoreTyped'
    BY <1>2, <1>4, <1>6 DEF EnterUpdate, StoreTyped, record
  <2> QED BY <1>2, <1>3, <1>6, <2>1, Kept DEF EnterUpdate, Enter, HInv, vars, Agrees
<1>7. CASE EnterCommit(th)
  <2>1. StoreTyped'
    BY <1>2, <1>4, <1>7 DEF EnterCommit, StoreTyped
  <2>2. Held' = Held
    BY <1>7 DEF EnterCommit, Held
  <2> QED BY <1>2, <1>3, <1>7, <2>1, <2>2 DEF EnterCommit, Enter, HInv, vars, Agrees
<1>8. CASE EnterVerify(th)
  <2>1. PICK t \in Templates : Enter("verify", th, t) /\ Store({t}, SizeOf[t])
    BY <1>8 DEF EnterVerify
  <2>2. {t} \in Frames /\ SizeOf[t] \in 1 .. MaxSize
    BY StoreAssumption DEF Frames
  <2>3. /\ Held' = {t} /\ have' /\ have' = TRUE
        /\ bytes' \in [1 .. MaxSize -> Frames] /\ size' \in 0 .. MaxSize
    BY <1>2, <2>1, <2>2, Stored DEF Store
  <2>4. StoreTyped'
    BY <1>4, <2>3
  <2>5. call' = [op |-> "verify", th |-> th, blob |-> t]
    BY <2>1 DEF Enter
  <2> QED BY <1>2, <1>3, <1>8, <2>3, <2>4, <2>5 DEF EnterVerify, HInv, vars
<1> QED BY <1>5, <1>6, <1>7, <1>8

\* An engine call returns.
LEMMA LeaveHInv ==
  ASSUME HInv, EInv', LeaveBegin \/ LeaveUpdate \/ LeaveCommit \/ LeaveVerify
  PROVE  HInv'
<1>1. PICK op \in {"begin", "update", "commit", "verify"} : Leave(op)
  BY DEF LeaveBegin, LeaveUpdate, LeaveCommit, LeaveVerify
<1>2. /\ call' = Idle /\ cursor' = FALSE /\ seen' = Blind
      /\ UNCHANGED <<record, ident>>
  BY <1>1 DEF Leave
<1>3. call.th \in Threads /\ eng \in Recs /\ eng.iface
  BY <1>1, EngTyped DEF Leave, InDll, HInv
<1>4. PICK e \in Recs : eng' = Synced(e)
  <2>1. Enter_DLL(SetGs(eng, call.th), call.th, TRUE) \in Recs
    BY <1>3, Entered, Armed DEF Recs
  <2>2. CASE LeaveBegin
    BY <1>3, <2>2, Aging, Begins DEF LeaveBegin, Recs
  <2>3. CASE LeaveUpdate
    <3>1. eng.frame = [tag |-> "op", purpose |-> 4]
      BY <2>3 DEF LeaveUpdate, Leave, HInv
    <3> QED BY <1>3, <2>3, <3>1, Folds DEF LeaveUpdate, Recs
  <2>4. CASE LeaveCommit
    BY <2>1, <2>4 DEF LeaveCommit
  <2>5. CASE LeaveVerify
    <3>1. (eng.frame.purpose = 1) = TRUE
      BY <2>5 DEF LeaveVerify, Leave, HInv
    <3> QED BY <2>1, <2>5, <3>1 DEF LeaveVerify
  <2> QED BY <2>2, <2>3, <2>4, <2>5
<1>5. Agrees'
  <2>1. eng'.have = have /\ eng'.rec = Held
    BY <1>4, SyncedAgrees
  <2> QED BY <1>2, <2>1, Kept DEF Agrees
<1>6. StoreTyped'
  BY <1>2 DEF HInv, StoreTyped, record, Blind, Frames
<1> QED BY <1>2, <1>5, <1>6 DEF HInv, RecordIsTheCallers, Blind, Idle

LEMMA NextHInv == HInv /\ [StoreNext]_allVars => HInv'
<1> SUFFICES ASSUME HInv, [StoreNext]_allVars PROVE HInv'
  OBVIOUS
<1>1. EInv'
  BY Simulates, NextEInv DEF HInv
<1>2. ASSUME call = Idle, UNCHANGED storeVars, eng'.have = eng.have, eng'.rec = eng.rec
      PROVE  HInv'
  <2>1. Held' = Held /\ have' = have /\ size' = size
    BY <1>2, Kept DEF storeVars
  <2>2. StoreTyped'
    BY <1>2 DEF HInv, StoreTyped, storeVars, record
  <2> QED BY <1>1, <1>2, <2>1, <2>2
             DEF HInv, Agrees, RecordIsTheCallers, storeVars, Idle
<1>3. ASSUME NEW th \in Threads, Elsewhere(th) PROVE HInv'
  <2>1. eng'.have = eng.have /\ eng'.rec = eng.rec
    BY <1>3, EngTyped, Opened, Accepts
      DEF Elsewhere, Open, AcceptFrame, Ready, Recs
  <2> QED BY <1>2, <1>3, <2>1 DEF Elsewhere
<1>4. ASSUME NEW th \in Threads, VerifyUnusable(th) PROVE HInv'
  <2>1. eng'.have = eng.have /\ eng'.rec = eng.rec
    BY <1>4, EngTyped, Armed DEF VerifyUnusable, Recs
  <2> QED BY <1>2, <1>4, <2>1 DEF VerifyUnusable
<1>5. CASE Closed
  BY <1>2, <1>5 DEF Closed, Close, EngineClose
<1>6. CASE Crashed
  <2>1. Held' = {} /\ eng'.have = FALSE /\ eng'.rec = {}
    BY <1>6 DEF Crashed, NewStore, Restart, NewProcess, Held
  <2>2. StoreTyped'
    BY <1>6, EmptyTyped DEF Crashed, NewStore, StoreTyped
  <2> QED BY <1>1, <1>6, <2>1, <2>2
          DEF Crashed, NewStore, HInv, Agrees, RecordIsTheCallers, Blind, Idle
<1>7. CASE UNCHANGED allVars
  <2>1. Held' = Held
    BY <1>7, Kept DEF allVars, storeVars
  <2> QED BY <1>1, <1>7, <2>1
          DEF allVars, vars, storeVars, record, HInv, Agrees, RecordIsTheCallers, StoreTyped
<1> QED
  BY <1>1, <1>3, <1>4, <1>5, <1>6, <1>7, VtableHInv, EnterHInv, LeaveHInv
     DEF StoreNext

THEOREM StoreInvariant == StoreSpec => []HInv
BY StoreInitHInv, NextHInv, PTL DEF StoreSpec

(* The vtable keeps the record within its array, for every template length   *)
(* the DLL passes to AddRecord, and the calls around it the engine's record. *)
THEOREM StoreTypeCorrect == StoreSpec => []StoreTypeOK
<1>1. HInv => StoreTypeOK BY DEF HInv, EInv, StoreTypeOK
<1> QED BY <1>1, StoreInvariant, PTL

(* A DLL that asks before it reads is handed the caller's record.            *)
THEOREM HandsOutCallers == StoreSpec => []RecordIsTheCallers
<1>1. HInv => RecordIsTheCallers BY DEF HInv
<1> QED BY <1>1, StoreInvariant, PTL

(* The engine's calls, with the DLL's own calls of the vtable inside them,   *)
(* implement the atomic calls of EngineSession.                              *)
THEOREM Atomic == StoreSpec => CallsAreAtomic
<1>1. StoreInit => Init
  BY DEF StoreInit
<1>2. HInv /\ [StoreNext]_allVars => [Next]_vars
  BY Simulates
<1> QED BY <1>1, <1>2, StoreInvariant, PTL DEF StoreSpec, Spec, CallsAreAtomic
------------------------------------------------------------------------------
(* What a careless DLL may see.  Only EnterBegin ages frames, and it leaves  *)
(* the record empty until its Create has returned.                           *)
NoOldHeld == (~eng.refused => "old" \notin Held) /\ LeftoverNeverSeen

\* Only a begin learns what Create answers.
LEMMA RefusedKept ==
  ASSUME HInv, StoreNext, ~LeaveBegin, ~Crashed
  PROVE  eng'.refused = eng.refused
<1>1. eng \in Recs /\ ~eng.misuse /\ (eng.loaded => eng.iface) /\ (usable => eng.iface)
  BY EngTyped
<1>2. CASE UNCHANGED eng
  BY <1>2
<1>3. ASSUME NEW e \in Recs, eng' = Synced(e), e.refused = eng.refused
      PROVE  eng'.refused = eng.refused
  BY <1>3 DEF Synced, Recs, EngineRecords
<1>4. CASE LeaveUpdate
  <2>1. call.op = "update" /\ call # Idle
    BY <1>4 DEF LeaveUpdate, Leave, InDll
  <2>2. PICK r \in EnrollUpdate(eng, call.th) : eng' = Synced(r[1])
    BY <1>4 DEF LeaveUpdate
  <2>3. usable /\ call.th \in Threads /\ eng.frame = [tag |-> "op", purpose |-> 4]
    BY <2>1 DEF HInv
  <2>4. r[1] \in Recs /\ r[1].refused = eng.refused
    BY <1>1, <2>2, <2>3, Folds DEF Recs
  <2> QED BY <1>3, <2>2, <2>4
<1>5. CASE LeaveCommit \/ LeaveVerify
  <2>1. call # Idle /\ (call.op = "verify" => eng.frame.purpose = 1)
    BY <1>5 DEF LeaveCommit, LeaveVerify, Leave, InDll, HInv
  <2>2. usable /\ call.th \in Threads
    BY <2>1 DEF HInv
  <2> DEFINE s == SetGs(eng, call.th)
  <2>3. s \in Recs /\ s.refused = eng.refused /\ s.iface /\ call.th \in s.armed
    BY <1>1, <2>2, Armed DEF Recs
  <2>4. Enter_DLL(s, call.th, TRUE) = s
    BY <2>2, <2>3, InContract
  <2>5. CASE LeaveCommit
    <3>1. eng' = Synced(s) BY <2>4, <2>5 DEF LeaveCommit
    <3> HIDE DEF s
    <3> QED BY <1>3, <2>3, <3>1
  <2>6. CASE LeaveVerify
    <3>1. (eng.frame.purpose = 1) = TRUE
      BY <2>1, <2>6 DEF LeaveVerify, Leave
    <3>2. eng' = Synced(s) BY <2>4, <2>6, <3>1 DEF LeaveVerify
    <3> HIDE DEF s
    <3> QED BY <1>3, <2>3, <3>2
  <2> QED BY <1>5, <2>5, <2>6
<1>6. ASSUME NEW th \in Threads, Elsewhere(th) PROVE eng'.refused = eng.refused
  <2>1. CASE Open(th)
    BY <1>1, <2>1, Opened DEF Open, Recs
  <2>2. CASE AcceptFrame(th)
    BY <1>1, <2>2, Accepts DEF AcceptFrame, Ready, Recs
  <2> QED BY <1>6, <2>1, <2>2 DEF Elsewhere
<1>7. ASSUME NEW th \in Threads, VerifyUnusable(th) PROVE eng'.refused = eng.refused
  BY <1>1, <1>7, Armed DEF VerifyUnusable, Recs
<1>8. CASE Vtable \/ Closed
  BY <1>2, <1>8 DEF Vtable, st_QueryBySubject, st_FirstRecord, st_NextRecord,
     st_GetCurrentRecord, st_AddRecord, Found, Closed, Close, EngineClose, vars
<1>9. ASSUME NEW th \in Threads,
             EnterBegin(th) \/ EnterUpdate(th) \/ EnterCommit(th) \/ EnterVerify(th)
      PROVE  UNCHANGED eng
  BY <1>9 DEF EnterBegin, EnterUpdate, EnterCommit, EnterVerify, Enter, vars
<1> QED BY <1>2, <1>4, <1>5, <1>6, <1>7, <1>8, <1>9 DEF StoreNext

LEMMA NextNoOldHeld ==
  ASSUME HInv, OwnInv, NoOldHeld, [StoreNext]_allVars
  PROVE  NoOldHeld'
<1> USE DEF NoOldHeld, LeftoverNeverSeen
<1>1. ASSUME UNCHANGED record, seen' \in {seen, Blind}, eng'.refused = eng.refused
      PROVE  NoOldHeld'
  BY <1>1, Kept DEF Blind
<1>2. CASE UNCHANGED allVars
  BY <1>1, <1>2 DEF allVars, vars, storeVars
<1>3. CASE Crashed
  BY <1>3 DEF Crashed, NewStore, Held, Blind
<1>4. CASE LeaveBegin
  <2>1. size = 0 /\ UNCHANGED record /\ seen' = Blind
    BY <1>4 DEF LeaveBegin, Leave, InDll, HInv
  <2>2. Held' = {}
    BY <2>1, Kept, EmptyRecord
  <2> QED BY <2>1, <2>2 DEF Blind
<1>5. ASSUME StoreNext, ~LeaveBegin, ~Crashed PROVE NoOldHeld'
  <2>1. eng'.refused = eng.refused
    BY <1>5, RefusedKept
  <2>2. CASE Vtable
    <3>1. CASE UNCHANGED record /\ seen' = seen
      BY <1>1, <2>1, <3>1
    <3>2. CASE UNCHANGED record /\ seen'.rec = Held
      BY <2>1, <3>2, Kept
    <3>3. ASSUME NEW n \in 1 .. MaxSize, Store(eng.pend, n), UNCHANGED seen
          PROVE  NoOldHeld'
      <4>1. eng.pend \in Frames /\ (~eng.refused => "old" \notin eng.pend)
        BY EngTyped DEF Recs, EngineRecords, Frames, OwnInv
      <4> QED BY <2>1, <3>3, <4>1, Stored DEF HInv
    <3> QED BY <2>2, <3>1, <3>2, <3>3 DEF Vtable, st_QueryBySubject, st_FirstRecord,
              st_NextRecord, st_GetCurrentRecord, st_AddRecord, Found
  <2>3. ASSUME NEW th \in Threads, EnterBegin(th) PROVE NoOldHeld'
    BY <2>3 DEF EnterBegin, Enter, Blind, Held
  <2>4. ASSUME NEW th \in Threads, EnterCommit(th) PROVE NoOldHeld'
    BY <2>1, <2>4 DEF EnterCommit, Enter, Blind, Held
  <2>5. ASSUME NEW th \in Threads, EnterVerify(th) PROVE NoOldHeld'
    <3>1. PICK t \in Templates : Enter("verify", th, t) /\ Store({t}, SizeOf[t])
      BY <2>5 DEF EnterVerify
    <3>2. {t} \in Frames /\ SizeOf[t] \in 1 .. MaxSize /\ "old" # t
      BY StoreAssumption, SessionAssumption DEF Frames
    <3> QED BY <3>1, <3>2, Stored DEF HInv, Enter, Blind
  <2> QED
    BY <1>1, <1>5, <2>1, <2>2, <2>3, <2>4, <2>5
    DEF StoreNext, storeVars, Closed, Elsewhere, VerifyUnusable, EnterUpdate,
        Enter, Leave, LeaveUpdate, LeaveCommit, LeaveVerify
<1> QED BY <1>2, <1>3, <1>4, <1>5

(* Once Create succeeds, not even a DLL that reads the store without asking  *)
(* sees frames of an earlier enrollment.                                     *)
THEOREM LeftoverUnseen == StoreSpec => []LeftoverNeverSeen
<1>1. StoreInit => NoOldHeld /\ OwnInv
  <2>1. Init => OwnInv
    BY InitOwnInv
  <2> QED BY <2>1, EmptyRecord DEF StoreInit, NoOldHeld, LeftoverNeverSeen, Blind
<1>2. HInv /\ OwnInv /\ [StoreNext]_allVars => OwnInv'
  BY Simulates, NextOwnInv DEF HInv
<1>3. HInv /\ OwnInv /\ NoOldHeld /\ [StoreNext]_allVars => NoOldHeld'
  BY NextNoOldHeld
<1>4. NoOldHeld => LeftoverNeverSeen
  BY DEF NoOldHeld
<1> QED BY <1>1, <1>2, <1>3, <1>4, StoreInvariant, PTL DEF StoreSpec
==============================================================================
