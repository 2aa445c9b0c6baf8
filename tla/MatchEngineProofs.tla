--------------------------- MODULE MatchEngineProofs ---------------------------
(***************************************************************************)
(* What each call of the engine's API keeps of its record, for every set   *)
(* of templates Ts, of frame tags Gs and of threads Hs: the facts that the *)
(* proofs about its callers, EngineSession and Ft9201, rest on, and what a *)
(* load may leave, which PeLoader's steps are measured by.                 *)
(***************************************************************************)
EXTENDS MatchEngine, WellFoundedInduction, TLAPS

\* Arming %gs changes nothing else.
LEMMA Armed ==
  ASSUME NEW Ts, NEW Gs, NEW Hs, NEW e \in EngineRecords(Ts, Gs, Hs), NEW th \in Hs
  PROVE  /\ SetGs(e, th) \in EngineRecords(Ts, Gs, Hs) /\ th \in SetGs(e, th).armed
         /\ SetGs(e, th).iface = e.iface /\ SetGs(e, th).loaded = e.loaded
         /\ SetGs(e, th).misuse = e.misuse /\ SetGs(e, th).dead = e.dead
         /\ SetGs(e, th).pend = e.pend /\ SetGs(e, th).refused = e.refused
         /\ SetGs(e, th).rec = e.rec /\ SetGs(e, th).have = e.have
         /\ SetGs(e, th).frame = e.frame /\ SetGs(e, th).folds = e.folds
BY DEF SetGs, EngineRecords

\* What an open may leave, whether it succeeds or not.
LEMMA Opened ==
  ASSUME NEW Ts, NEW Gs, NEW Hs, NEW e \in EngineRecords(Ts, Gs, Hs), NEW th \in Hs,
         ~e.misuse, e.loaded => e.iface,
         NEW r \in EngineOpen(e, th)
  PROVE  /\ r[1] \in EngineRecords(Ts, Gs, Hs) /\ ~r[1].misuse
         /\ r[1].loaded => r[1].iface
         /\ r[2] = 0 => r[1].iface
         /\ r[1].pend = e.pend /\ r[1].rec = e.rec /\ r[1].have = e.have
         /\ r[1].frame = e.frame /\ r[1].refused = e.refused
<1>1. CASE e.loaded
  BY <1>1, Armed DEF EngineOpen
<1>2. e.shims \in Nat /\ ShimTable \in Nat /\ ShimCount \in Nat
  BY ShimAssumption DEF EngineRecords
<1>3. CASE ~e.loaded /\ e.shims + ShimCount > ShimTable
  <2> DEFINE x == [e EXCEPT !.shims = ShimTable, !.dead = TRUE]
  <2>1. r = <<x, -1>>
    BY <1>3 DEF EngineOpen
  <2>2. ShimTable \in 0 .. ShimTable
    BY <1>2
  <2>3. x \in EngineRecords(Ts, Gs, Hs)
    BY <2>2 DEF EngineRecords
  <2>4. /\ ~x.misuse /\ ~x.loaded /\ x.pend = e.pend /\ x.rec = e.rec
        /\ x.have = e.have /\ x.frame = e.frame /\ x.refused = e.refused
    BY <1>3 DEF EngineRecords
  <2> HIDE DEF x
  <2> QED BY <2>1, <2>3, <2>4
<1>4. CASE ~e.loaded /\ ~(e.shims + ShimCount > ShimTable)
  <2> DEFINE d == [e EXCEPT !.shims = @ + ShimCount]
             s == [d EXCEPT !.reserved = TRUE]
             t == SetGs(s, th)
             u == [t EXCEPT !.iface = TRUE]
             v == [t EXCEPT !.iface = TRUE, !.loaded = TRUE]
             Kept(x) == /\ x \in EngineRecords(Ts, Gs, Hs) /\ ~x.misuse /\ (x.loaded => x.iface)
                        /\ x.pend = e.pend /\ x.rec = e.rec /\ x.have = e.have
                        /\ x.frame = e.frame /\ x.refused = e.refused
  <2>1. e.shims + ShimCount \in 0 .. ShimTable
    BY <1>2, <1>4
  <2>2. Kept(d) /\ ~d.loaded
    BY <1>4, <2>1 DEF EngineRecords
  <2>3. Kept(s) /\ ~s.loaded
    BY <2>2 DEF EngineRecords
  <2>4. Kept(t) /\ ~t.loaded
    <3> HIDE DEF s
    <3>1. s \in EngineRecords(Ts, Gs, Hs)
      BY <2>3
    <3> QED BY <2>3, <3>1, Armed
  <2>5. Kept(u) /\ Kept(v) /\ v.iface
    BY <2>4 DEF EngineRecords
  <2>6. r \in LoadOutcomes(d, th)
    BY <1>4 DEF EngineOpen
  <2>7. \/ r \in {<<d, -1>>, <<s, -1>>, <<u, -4>>, <<v, 0>>}
        \/ r \in {t} \X {-1, -2, -3}
    BY <2>6 DEF LoadOutcomes
  <2> HIDE DEF d, s, t, u, v
  <2>8. Kept(r[1]) /\ (r[2] = 0 => r[1].iface)
    BY <2>2, <2>3, <2>4, <2>5, <2>7
  <2> QED BY <2>8
<1> QED BY <1>1, <1>3, <1>4

\* Only a load that finds the shim table full ends the process.
LEMMA OpenAborts ==
  ASSUME NEW Ts, NEW Gs, NEW Hs, NEW e \in EngineRecords(Ts, Gs, Hs), NEW th \in Hs,
         NEW r \in EngineOpen(e, th), r[1].dead, ~e.dead
  PROVE  ~e.loaded /\ e.shims > 0 /\ e.shims + ShimCount > ShimTable
<1>1. e.shims \in Nat /\ ShimTable \in Nat /\ ShimCount \in 1 .. ShimTable
  BY ShimAssumption DEF EngineRecords
<1>2. CASE e.loaded
  <2>1. r[1] = SetGs(e, th) BY <1>2 DEF EngineOpen
  <2> QED BY <2>1, Armed
<1>3. CASE ~e.loaded /\ e.shims + ShimCount > ShimTable
  BY <1>1, <1>3
<1>4. CASE ~e.loaded /\ ~(e.shims + ShimCount > ShimTable)
  <2> DEFINE d == [e EXCEPT !.shims = @ + ShimCount]
             s == [d EXCEPT !.reserved = TRUE]
             t == SetGs(s, th)
             u == [t EXCEPT !.iface = TRUE]
             v == [t EXCEPT !.iface = TRUE, !.loaded = TRUE]
  <2>1. e.shims + ShimCount \in 0 .. ShimTable BY <1>1, <1>4
  <2>2. s \in EngineRecords(Ts, Gs, Hs) /\ ~s.dead /\ ~d.dead
    BY <2>1 DEF EngineRecords
  <2>3. t \in EngineRecords(Ts, Gs, Hs) /\ ~t.dead
    <3> HIDE DEF s
    <3> QED BY <2>2, Armed
  <2>4. ~u.dead /\ ~v.dead
    <3> HIDE DEF t
    <3> QED BY <2>3 DEF EngineRecords
  <2>5. \/ r \in {<<d, -1>>, <<s, -1>>, <<u, -4>>, <<v, 0>>}
        \/ r \in {t} \X {-1, -2, -3}
    BY <1>4 DEF EngineOpen, LoadOutcomes
  <2> HIDE DEF d, s, t, u, v
  <2> QED BY <2>2, <2>3, <2>4, <2>5
<1> QED BY <1>2, <1>3, <1>4

\* The calls an enrollment and a verification make: each arms %gs, and then
\* enters the DLL in contract, which leaves no trace.
LEMMA Accepts ==
  ASSUME NEW Ts, NEW Gs, NEW Hs, NEW e \in EngineRecords(Ts, Gs, Hs), NEW th \in Hs,
         e.iface, NEW tag \in Gs, NEW purpose \in {1, 4},
         NEW r \in Accept(e, th, tag, purpose)
  PROVE  /\ r[1] \in EngineRecords(Ts, Gs, Hs) /\ r[1].iface /\ r[1].misuse = e.misuse
         /\ r[1].pend = e.pend /\ r[1].rec = e.rec /\ r[1].have = e.have
         /\ r[1].loaded = e.loaded /\ r[1].dead = e.dead /\ r[1].folds = e.folds
         /\ r[1].refused = e.refused
         /\ r[2] = 0 => r[1].frame.tag = tag /\ r[1].frame.purpose = purpose
<1> DEFINE s == SetGs(e, th)
<1>1. /\ s \in EngineRecords(Ts, Gs, Hs) /\ s.iface /\ s.misuse = e.misuse
      /\ s.pend = e.pend /\ s.rec = e.rec /\ s.have = e.have
      /\ s.loaded = e.loaded /\ s.dead = e.dead /\ s.folds = e.folds
      /\ s.refused = e.refused /\ th \in s.armed
  BY Armed
<1> HIDE DEF s
<1>2. Enter_DLL(s, th, TRUE) = s
  BY <1>1 DEF Enter_DLL, EngineRecords
<1>3. r \in {<<s, 1>>, <<[s EXCEPT !.frame = [tag |-> tag, purpose |-> purpose]], 0>>}
  BY <1>2 DEF Accept, s
<1> QED BY <1>1, <1>3 DEF EngineRecords

LEMMA Begins ==
  ASSUME NEW Ts, NEW Gs, NEW Hs, NEW e \in EngineRecords(Ts, Gs, Hs), NEW th \in Hs,
         e.iface, NEW r \in EnrollBegin(e, th)
  PROVE  /\ r \in EngineRecords(Ts, Gs, Hs) /\ r.iface /\ r.misuse = e.misuse
         /\ r.loaded = e.loaded /\ r.dead = e.dead /\ ~r.have /\ r.rec = {}
         /\ r.folds = 0 /\ (~r.refused => r.pend = {})
<1> DEFINE s == SetGs(e, th)
           d == [s EXCEPT !.have = FALSE, !.rec = {}, !.folds = 0]
           b == [d EXCEPT !.refused = FALSE, !.pend = {}]
           c == [d EXCEPT !.refused = TRUE]
<1>1. /\ s \in EngineRecords(Ts, Gs, Hs) /\ s.iface /\ s.misuse = e.misuse
      /\ s.loaded = e.loaded /\ s.dead = e.dead /\ th \in s.armed
  BY Armed
<1> HIDE DEF s
<1>5. Enter_DLL(s, th, TRUE) = s
  BY <1>1 DEF Enter_DLL, EngineRecords
<1>2. r = b \/ r = c
  BY <1>5 DEF EnrollBegin, s
<1>3. /\ d \in EngineRecords(Ts, Gs, Hs) /\ d.iface /\ d.misuse = e.misuse /\ ~d.have
      /\ d.rec = {} /\ d.folds = 0 /\ d.loaded = e.loaded /\ d.dead = e.dead
  BY <1>1 DEF EngineRecords
<1> HIDE DEF d
<1>4. /\ b \in EngineRecords(Ts, Gs, Hs) /\ b.iface /\ b.misuse = e.misuse
      /\ ~b.have /\ b.pend = {}
      /\ b.rec = {} /\ b.folds = 0 /\ b.loaded = e.loaded /\ b.dead = e.dead
  BY <1>3 DEF EngineRecords
<1>6. /\ c \in EngineRecords(Ts, Gs, Hs) /\ c.iface /\ c.misuse = e.misuse
      /\ ~c.have /\ c.refused
      /\ c.rec = {} /\ c.folds = 0 /\ c.loaded = e.loaded /\ c.dead = e.dead
  BY <1>3 DEF EngineRecords
<1> HIDE DEF b, c
<1> QED BY <1>2, <1>4, <1>6

LEMMA Folds ==
  ASSUME NEW Ts, NEW Gs, NEW Hs, NEW e \in EngineRecords(Ts, Gs, Hs), NEW th \in Hs,
         e.iface, e.frame.purpose = 4,
         e.frame.tag \in Gs, NEW r \in EnrollUpdate(e, th)
  PROVE  /\ r[1] \in EngineRecords(Ts, Gs, Hs) /\ r[1].iface /\ r[1].misuse = e.misuse
         /\ r[1].pend \in {e.pend, e.pend \cup {e.frame.tag}}
         /\ r[1].folds \in {e.folds, e.folds + 1}
         /\ r[1].rec = e.rec /\ r[1].have = e.have
         /\ r[1].loaded = e.loaded /\ r[1].dead = e.dead /\ r[1].frame = e.frame
         /\ r[1].refused = e.refused /\ (r[2] = 2 => r[1].folds = e.folds)
<1> DEFINE s == SetGs(e, th)
           f == [s EXCEPT !.pend = @ \cup {e.frame.tag}, !.folds = @ + 1]
<1>1. /\ s \in EngineRecords(Ts, Gs, Hs) /\ s.iface /\ s.misuse = e.misuse
      /\ s.pend = e.pend /\ s.rec = e.rec /\ s.have = e.have
      /\ s.folds = e.folds /\ s.refused = e.refused
      /\ s.loaded = e.loaded /\ s.dead = e.dead /\ s.frame = e.frame /\ th \in s.armed
  BY Armed
<1> HIDE DEF s
<1>2. Enter_DLL(s, th, e.frame.purpose = 4) = s
  BY <1>1 DEF Enter_DLL, EngineRecords
<1>3. EnrollUpdate(e, th) = {<<s, 2>>} \cup ({f, s} \X {0, 1})
  BY <1>2 DEF EnrollUpdate, s
<1>4. s.folds + 1 \in Nat /\ s.pend \cup {e.frame.tag} \in SUBSET Gs
  BY <1>1 DEF EngineRecords
<1>5. /\ f \in EngineRecords(Ts, Gs, Hs) /\ f.iface /\ f.misuse = e.misuse
      /\ f.pend = e.pend \cup {e.frame.tag} /\ f.rec = e.rec /\ f.have = e.have
      /\ f.folds = e.folds + 1 /\ f.refused = e.refused /\ f.loaded = e.loaded /\ f.dead = e.dead /\ f.frame = e.frame
  BY <1>1, <1>4 DEF EngineRecords
<1> HIDE DEF f
<1> QED BY <1>1, <1>3, <1>5

LEMMA Commits ==
  ASSUME NEW Ts, NEW Gs, NEW Hs, NEW e \in EngineRecords(Ts, Gs, Hs), NEW th \in Hs,
         e.iface, NEW r \in EnrollCommit(e, th)
  PROVE  /\ r[1] \in EngineRecords(Ts, Gs, Hs) /\ r[1].iface /\ r[1].misuse = e.misuse
         /\ r[1].pend = e.pend /\ r[1].loaded = e.loaded /\ r[1].dead = e.dead
         /\ r[1].frame = e.frame /\ r[1].refused = e.refused
         /\ r[1].have => r[1].rec = e.pend /\ e.pend # {}
         /\ r[2] = 0 => r[1].have
<1> DEFINE s == SetGs(e, th)
           d == [s EXCEPT !.have = FALSE]
           w == [d EXCEPT !.have = TRUE, !.rec = d.pend]
<1>1. /\ s \in EngineRecords(Ts, Gs, Hs) /\ s.iface /\ s.misuse = e.misuse
      /\ s.pend = e.pend /\ s.loaded = e.loaded /\ s.dead = e.dead /\ s.frame = e.frame
      /\ s.refused = e.refused /\ th \in s.armed
  BY Armed
<1> HIDE DEF s
<1>2. Enter_DLL(s, th, TRUE) = s
  BY <1>1 DEF Enter_DLL, EngineRecords
<1>3. (r[1] = d \/ (r[1] = w /\ d.pend # {})) /\ (r[2] = 0 => r[1].have)
  <2>1. EnrollCommit(e, th) =
          LET stored == IF d.pend = {} THEN {} ELSE {w} IN
          {<<q, -1>> : q \in stored \cup {d}}
            \cup {<<q, IF q.have THEN 0 ELSE -1>> : q \in stored \cup {d}}
    BY <1>2 DEF EnrollCommit, s
  <2> HIDE DEF d, w
  <2> QED BY <2>1
<1>4. /\ d \in EngineRecords(Ts, Gs, Hs) /\ d.iface /\ d.misuse = e.misuse
      /\ d.pend = e.pend /\ d.refused = e.refused
      /\ ~d.have /\ d.loaded = e.loaded /\ d.dead = e.dead /\ d.frame = e.frame
  BY <1>1 DEF EngineRecords
<1>5. /\ w \in EngineRecords(Ts, Gs, Hs) /\ w.iface /\ w.misuse = e.misuse
      /\ w.pend = e.pend /\ w.rec = e.pend /\ w.loaded = e.loaded /\ w.dead = e.dead
      /\ w.frame = e.frame /\ w.refused = e.refused
  BY <1>4 DEF EngineRecords
<1> HIDE DEF d, w
<1> QED BY <1>3, <1>4, <1>5

LEMMA Verifies ==
  ASSUME NEW Ts, NEW Gs, NEW Hs, NEW e \in EngineRecords(Ts, Gs, Hs), NEW th \in Hs,
         e.iface, e.frame.purpose = 1,
         NEW t \in Ts \cup {Unusable}, NEW alike
  PROVE  LET v == VerifyTemplate(e, th, t, alike)   r == v[1] IN
         /\ r \in EngineRecords(Ts, Gs, Hs) /\ r.iface /\ r.misuse = e.misuse
         /\ r.pend = e.pend /\ r.refused = e.refused
         /\ r.loaded = e.loaded /\ r.dead = e.dead /\ r.frame = e.frame
         /\ v[2] = 1 <=> t # Unusable /\ t \in alike
         /\ t = Unusable => r.rec = e.rec /\ r.have = e.have
         /\ t # Unusable => r.rec = {t}
<1> DEFINE s == SetGs(e, th)
           l == [s EXCEPT !.have = TRUE, !.rec = {t}]
<1>1. /\ s \in EngineRecords(Ts, Gs, Hs) /\ s.iface /\ s.misuse = e.misuse
      /\ th \in s.armed /\ s.refused = e.refused
      /\ s.pend = e.pend /\ s.rec = e.rec /\ s.have = e.have
      /\ s.loaded = e.loaded /\ s.dead = e.dead /\ s.frame = e.frame
  BY Armed
<1>2. CASE t = Unusable
  BY <1>1, <1>2 DEF VerifyTemplate
<1>3. CASE t # Unusable
  <2> HIDE DEF s
  <2>1. /\ l \in EngineRecords(Ts, Gs, Hs) /\ l.iface /\ l.misuse = e.misuse
        /\ th \in l.armed /\ l.refused = e.refused
        /\ l.pend = e.pend /\ l.rec = {t} /\ l.loaded = e.loaded /\ l.dead = e.dead
        /\ l.frame = e.frame
    BY <1>1, <1>3 DEF EngineRecords
  <2> HIDE DEF l
  <2>2. Enter_DLL(l, th, e.frame.purpose = 1) = l
    BY <2>1 DEF Enter_DLL, EngineRecords
  <2>3. VerifyTemplate(e, th, t, alike) = <<l, IF t \in alike THEN 1 ELSE 0>>
    BY <1>3, <2>2 DEF VerifyTemplate, l, s
  <2> QED BY <1>3, <2>1, <2>3
<1> QED BY <1>2, <1>3

LEMMA Untouched ==
  ASSUME NEW Ts, NEW Gs, NEW Hs
  PROVE  /\ NewProcess \in EngineRecords(Ts, Gs, Hs)
         /\ ~NewProcess.misuse /\ ~NewProcess.loaded /\ NewProcess.pend = {}
BY ShimAssumption DEF NewProcess, NoFrame, EngineRecords

------------------------------------------------------------------------------
(* Arithmetic.                                                               *)

\* Stands in for induction, whose theorem takes an operator parameter.
LEMMA LeastNat ==
  ASSUME NEW T, T \subseteq Nat, T # {}
  PROVE  \E m \in T : \A k \in T : m <= k
<1> DEFINE R == OpToRel(<, Nat)
<1>1. IsWellFoundedOn(R, Nat)
  BY NatLessThanWellFounded
<1>2. R = {ss \in Nat \X Nat : ss[1] < ss[2]}
  BY DEF OpToRel
<1> HIDE DEF R
<1>3. PICK m \in T : \A k \in T : <<k, m>> \notin R
  BY <1>1, WFMin
<1>4. \A k \in T : ~(k < m)
  BY <1>2, <1>3
<1> QED BY <1>3, <1>4
==============================================================================
