---------------------------- MODULE StorageAdapter ----------------------------
(***************************************************************************)
(* The single-record storage adapter of ft_engine.c, from inside: an       *)
(* engine call of EngineSession is entered, the DLL calls the functions of *)
(* the storage vtable in any order and as often as it likes, and returns.  *)
(* The slots that hold st_default change nothing.  AddRecord comes from    *)
(* CommitEnrollment only (external: the DLL), with any template length.    *)
(*                                                                         *)
(* g_rec_template is MaxSize cells, each holding where its bytes are from: *)
(* a shorter template leaves the tail of a longer one behind it.           *)
(***************************************************************************)
EXTENDS EngineSession

CONSTANTS
  MaxSize,     \* sizeof g_rec_template, in cells
  SizeOf,      \* length of each stored template
  Identities   \* identities the DLL may name

Blank == "blank"   \* 76 zero bytes

ASSUME StoreAssumption ==
  /\ MaxSize \in Nat \ {0}
  /\ SizeOf \in [Templates -> 1 .. MaxSize]
  /\ Blank \notin Identities

VARIABLES
  bytes, size, have, ident,   \* g_rec_template, _tsize, g_have_record, g_rec_identity
  call,     \* the engine call the DLL is in: its kind, thread and template
  cursor,   \* in the DLL: the last query of this call found a record
  seen      \* what GetCurrentRecord last handed out in this call

record    == <<bytes, size, have>>
storeVars == <<record, ident, call, cursor, seen>>
allVars   == <<vars, storeVars>>

Idle  == [op |-> "none", th |-> "none", blob |-> "none"]
Blind == [rec |-> {}, ident |-> Blank, sought |-> FALSE]

\* The template the record stands for.
Held == UNION {bytes[c] : c \in 1 .. size}

Memcpy(src, n) == [c \in 1 .. MaxSize |-> IF c <= n THEN src ELSE bytes[c]]

Store(src, n) == bytes' = Memcpy(src, n) /\ size' = n /\ have' = TRUE

------------------------------------------------------------------------------
(* The vtable, called by the DLL while it runs.                              *)

InDll == Alive /\ call # Idle

Name(id) == ident' = id
Found(yes) == cursor' = yes /\ UNCHANGED <<vars, record, call, seen>>

st_QueryBySubject ==
  InDll /\ (UNCHANGED ident \/ \E id \in Identities : Name(id)) /\ Found(have)

st_FirstRecord == InDll /\ Found(have) /\ UNCHANGED ident
st_NextRecord  == InDll /\ Found(FALSE) /\ UNCHANGED ident

\* It does not look at g_have_record: the DLL may call it without a query.
st_GetCurrentRecord ==
  /\ InDll
  /\ seen' = [rec |-> Held, ident |-> ident, sought |-> cursor]
  /\ UNCHANGED <<vars, record, ident, call, cursor>>

\* Mutant of st_AddRecord: the length is not compared with the array's.
AddRecordUnchecked ==
  /\ InDll /\ call.op = "commit"
  /\ UNCHANGED ident \/ \E id \in Identities : Name(id)
  /\ \E n \in 0 .. MaxSize + 1 :
       IF n # 0 /\ eng.pend # {} THEN Store(eng.pend, n) ELSE UNCHANGED record
  /\ UNCHANGED <<vars, call, cursor, seen>>

\* A NULL, empty or oversize template is dropped, and S_OK is returned.
st_AddRecord ==
  /\ InDll /\ call.op = "commit"
  /\ UNCHANGED ident \/ \E id \in Identities : Name(id)
  /\ \E n \in 0 .. MaxSize + 1 :
       IF n \in 1 .. MaxSize /\ eng.pend # {}
       THEN Store(eng.pend, n) ELSE UNCHANGED record
  /\ UNCHANGED <<vars, call, cursor, seen>>

------------------------------------------------------------------------------
(* The calls of ft_engine.h that let the DLL run.                            *)

Enter(op, th, blob) ==
  /\ Ready /\ call = Idle
  /\ call' = [op |-> op, th |-> th, blob |-> blob]
  /\ cursor' = FALSE /\ seen' = Blind
  /\ UNCHANGED <<vars, ident>>

Leave(op) ==
  /\ InDll /\ call.op = op
  /\ call' = Idle /\ cursor' = FALSE /\ seen' = Blind
  /\ UNCHANGED <<record, ident>>

\* The engine's record with what the globals hold now.
Synced(e) == [e EXCEPT !.have = have, !.rec = Held]

\* Mutant of EnterBegin: the length of the last template is kept.
EnterBeginKeepsSize(th) ==
  /\ Enter("begin", th, "none")
  /\ have' = FALSE
  /\ bytes' = [c \in 1 .. MaxSize |-> {Aged(x) : x \in bytes[c]}]
  /\ UNCHANGED size

EnterBegin(th) ==
  /\ Enter("begin", th, "none")
  /\ have' = FALSE /\ size' = 0
  /\ bytes' = [c \in 1 .. MaxSize |-> {Aged(x) : x \in bytes[c]}]

LeaveBegin ==
  /\ Leave("begin")
  /\ \E e \in EnrollBegin(Relabel(eng, Aged), call.th) : eng' = Synced(e)
  /\ enrolling' = TRUE /\ out' = {}
  /\ UNCHANGED usable

EnterUpdate(th) ==
  /\ enrolling /\ eng.frame = [tag |-> "op", purpose |-> 4] /\ eng.folds < MaxFolds
  /\ Enter("update", th, "none")
  /\ UNCHANGED record

LeaveUpdate ==
  /\ Leave("update")
  /\ \E r \in EnrollUpdate(eng, call.th) : eng' = Synced(r[1])
  /\ UNCHANGED <<usable, enrolling, out>>

\* Mutant of EnterCommit: g_have_record is not cleared.
EnterCommitKeepsHave(th) ==
  enrolling /\ Enter("commit", th, "none") /\ UNCHANGED record

EnterCommit(th) ==
  /\ enrolling
  /\ Enter("commit", th, "none")
  /\ have' = FALSE /\ UNCHANGED <<bytes, size>>

\* CommitEnrollment's own result decides together with g_have_record.
LeaveCommit ==
  /\ Leave("commit")
  /\ eng' = Synced(Enter_DLL(SetGs(eng, call.th), call.th, TRUE))
  /\ \/ have /\ out' = Held /\ enrolling' = FALSE
     \/ out' = {} /\ UNCHANGED enrolling
  /\ UNCHANGED usable

\* Mutant of EnterVerify: the length is only ever raised.
EnterVerifyGrows(th) ==
  /\ eng.frame.purpose = 1
  /\ \E t \in Templates :
       /\ Enter("verify", th, t)
       /\ bytes' = Memcpy({t}, SizeOf[t]) /\ have' = TRUE
       /\ size' = IF SizeOf[t] > size THEN SizeOf[t] ELSE size

EnterVerify(th) ==
  /\ eng.frame.purpose = 1
  /\ \E t \in Templates : Enter("verify", th, t) /\ Store({t}, SizeOf[t])

LeaveVerify ==
  /\ Leave("verify")
  /\ eng' = Synced(Enter_DLL(SetGs(eng, call.th), call.th, eng.frame.purpose = 1))
  /\ UNCHANGED <<usable, enrolling, out>>

\* An empty or oversize template: answered before the DLL is entered.
VerifyUnusable(th) ==
  /\ Ready /\ call = Idle /\ eng.frame.purpose = 1
  /\ eng' = SetGs(eng, th)
  /\ UNCHANGED <<usable, enrolling, out, storeVars>>

------------------------------------------------------------------------------
NewStore ==
  /\ bytes' = [c \in 1 .. MaxSize |-> {}] /\ size' = 0 /\ have' = FALSE
  /\ ident' = Blank /\ call' = Idle /\ cursor' = FALSE /\ seen' = Blind

StoreInit ==
  /\ Init
  /\ bytes = [c \in 1 .. MaxSize |-> {}] /\ size = 0 /\ have = FALSE
  /\ ident = Blank /\ call = Idle /\ cursor = FALSE /\ seen = Blind

Elsewhere(th) == call = Idle /\ (Open(th) \/ AcceptFrame(th)) /\ UNCHANGED storeVars
Closed  == call = Idle /\ Close /\ UNCHANGED storeVars
Crashed == Restart /\ NewStore   \* fprintd dies, inside a call or between calls

Vtable ==
  \/ st_QueryBySubject \/ st_FirstRecord \/ st_NextRecord
  \/ st_GetCurrentRecord \/ st_AddRecord

StoreNext ==
  \/ Vtable \/ Closed \/ Crashed
  \/ LeaveBegin \/ LeaveUpdate \/ LeaveCommit \/ LeaveVerify
  \/ \E th \in Threads : \/ Elsewhere(th) \/ VerifyUnusable(th)
                         \/ EnterBegin(th) \/ EnterUpdate(th)
                         \/ EnterCommit(th) \/ EnterVerify(th)

StoreSpec == StoreInit /\ [][StoreNext]_allVars

------------------------------------------------------------------------------
Frames == SUBSET (Templates \cup {"op", "old"})

StoreTyped ==
  /\ bytes \in [1 .. MaxSize -> Frames] /\ size \in 0 .. MaxSize /\ have \in BOOLEAN
  /\ ident \in Identities \cup {Blank} /\ cursor \in BOOLEAN
  /\ call = Idle \/ call \in [op : {"begin", "update", "commit", "verify"},
                              th : Threads, blob : Templates \cup {"none"}]
  /\ seen \in [rec : Frames, ident : Identities \cup {Blank}, sought : BOOLEAN]

(* Type correctness of the engine's record, of the store's globals behind it *)
(* and of the DLL's calls into them.                                         *)
StoreTypeOK == TypeOK /\ StoreTyped

(* A DLL that asks before it reads is handed the caller's record and nothing *)
(* else: the whole template being verified, or the one this commit added --  *)
(* whatever longer template, failed commit or verify was in the store before.*)
RecordIsTheCallers ==
  seen.sought =>
    /\ call.op = "verify" => seen.rec = {call.blob}
    /\ call.op = "commit" => seen.rec = eng.pend

(* Even a DLL that reads without asking never sees frames of an earlier      *)
(* enrollment, as a failed commit leaves them in the store, unless it kept   *)
(* them itself when the last begin failed unseen.                            *)
LeftoverNeverSeen == ~eng.refused => "old" \notin seen.rec

(* Whatever the DLL does to the vtable inside a call, the call as a whole is *)
(* one atomic step of EngineSession.                                         *)
CallsAreAtomic == Spec
==============================================================================
