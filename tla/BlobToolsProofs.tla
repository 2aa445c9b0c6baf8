---------------------------- MODULE BlobToolsProofs ----------------------------
(***************************************************************************)
(* Proofs about the two Python tools, for any object file and any DLL.     *)
(*                                                                         *)
(* The extraction counts as hits the sections that hold the symbol's       *)
(* address, all of them and no other: so the bytes cut from the only one   *)
(* are the symbol's, a sound object has one, and the header is published   *)
(* whole.  The preparation's image is at every moment what a PE loader     *)
(* would have built from the headers and the sections copied so far.       *)
(***************************************************************************)
EXTENDS BlobTools, TLAPS

------------------------------------------------------------------------------
(* extract-firmware.py.                                                      *)

Cutting == {"create", "write", "replace", "done"}

Found ==
  pc \in {"sections"} \cup Cutting =>
    /\ Len(elf.syms) = 1 /\ elf.syms[1].size > 0
    /\ \A h \in hits : h \in DOMAIN elf.secs /\ Holds(elf.secs[h], elf.syms[1].value)

\* No section that holds the symbol's address was passed over.
Looked ==
  pc = "sections" =>
    /\ elf.valid /\ i <= Len(elf.secs) + 1
    /\ \A j \in 1 .. i - 1 : Holds(elf.secs[j], elf.syms[1].value) => j \in hits

XInv ==
  /\ elf \in Elfs /\ Found /\ Looked
  /\ BytesAreTheSymbol /\ RefusesOnlyUnsound /\ PublishedWhole
  /\ pc \in {"symbol", "sections"} => temp = "none"
  /\ pc = "symbol" => hits = {} /\ i = 1
  /\ i \in Nat \ {0}

Sections == [addr : Nat, off : Nat, size : Nat, nobits : BOOLEAN]

\* The only entry of a sequence.
LEMMA FirstOfOne == \A S : \A q \in Seq(S) : Len(q) = 1 => q[1] \in S
<1> SUFFICES ASSUME NEW S, NEW q \in Seq(S), Len(q) = 1 PROVE q[1] \in S OBVIOUS
<1>1. 1 \in 1 .. Len(q) BY SMT
<1> QED BY <1>1, SMT

\* The bytes of a symbol that its section backs.
LEMMA SliceIsTheSymbol ==
  ASSUME elf \in Elfs, NEW s \in Sections, Len(elf.syms) = 1, elf.syms[1].size > 0,
         Holds(s, elf.syms[1].value), Backed(s)
  PROVE  LET f == Slice(FileOffset(s), FileOffset(s) + elf.syms[1].size) IN
         /\ Len(f) = elf.syms[1].size /\ f # <<>>
         /\ \A k \in DOMAIN f :
              LET a == elf.syms[1].value + k - 1 IN
              /\ Holds(s, a) /\ ~s.nobits
              /\ f[k] = s.off + (a - s.addr) /\ f[k] < elf.len
<1> DEFINE v == elf.syms[1].value   n == elf.syms[1].size   at == FileOffset(s)
           f == Slice(at, at + n)
<1>1. elf.syms[1] \in [value : Nat, size : Nat]
  <2>1. elf.syms \in Seq([value : Nat, size : Nat]) BY ElfAssumption
  <2> QED BY <2>1, FirstOfOne
<1>2. /\ v \in Nat /\ n \in Nat /\ n > 0 /\ elf.len \in Nat
      /\ s.addr \in Nat /\ s.off \in Nat /\ s.size \in Nat
  BY <1>1, ElfAssumption DEF Sections
<1>3. s.addr <= v /\ v < s.addr + s.size BY DEF Holds
<1>4. at = s.off + (v - s.addr) BY DEF FileOffset
<1>5. n <= s.size - (v - s.addr) /\ at <= elf.len /\ n <= elf.len - at /\ ~s.nobits
  BY DEF Backed
<1>6. at \in Nat /\ ~(at + n > elf.len) /\ (at + n) - at = n BY <1>2, <1>3, <1>4, <1>5, SMT
<1>7. f = [k \in 1 .. n |-> at + k - 1] BY <1>6, Zenon DEF Slice
<1> HIDE DEF v, n, at, f
<1>8. Len(f) = n /\ DOMAIN f = 1 .. n BY <1>2, <1>6, <1>7, SMT
<1>9. f # <<>> BY <1>2, <1>8, SMT
<1>10. ASSUME NEW k \in DOMAIN f
       PROVE  LET a == v + k - 1 IN
              /\ Holds(s, a) /\ ~s.nobits
              /\ f[k] = s.off + (a - s.addr) /\ f[k] < elf.len
  <2>1. k \in 1 .. n /\ f[k] = at + k - 1 BY <1>7, <1>8
  <2> QED BY <1>2, <1>3, <1>4, <1>5, <1>6, <2>1, SMT DEF Holds
<1> QED BY <1>8, <1>9, <1>10 DEF v, n, at, f

\* A sound object's one section is the only hit, and backs the symbol.
LEMMA SoundIsFound ==
  ASSUME elf \in Elfs, Found, Looked, pc = "sections", i \in Nat, i > Len(elf.secs), Sound
  PROVE  \E h \in hits : hits = {h} /\ Backed(elf.secs[h])
<1> DEFINE v == elf.syms[1].value   n == elf.syms[1].size
<1>1. /\ Len(elf.syms) = 1 /\ n > 0
      /\ \A h \in hits : h \in DOMAIN elf.secs /\ Holds(elf.secs[h], v)
  BY DEF Found
<1>2. elf.secs \in Seq(Sections) /\ elf.len \in Nat BY ElfAssumption DEF Sections
<1>3. v \in Nat /\ n \in Nat
  <2>1. elf.syms \in Seq([value : Nat, size : Nat]) BY ElfAssumption
  <2>2. elf.syms[1] \in [value : Nat, size : Nat] BY <1>1, <2>1, FirstOfOne
  <2> QED BY <2>2
<1> HIDE DEF v, n
<1>4. PICK j \in DOMAIN elf.secs :
        /\ ~elf.secs[j].nobits /\ Holds(elf.secs[j], v) /\ Holds(elf.secs[j], v + n - 1)
        /\ \A l \in DOMAIN elf.secs \ {j} : ~Holds(elf.secs[l], v)
  BY Zenon DEF Sound, v, n
<1> DEFINE s == elf.secs[j]
<1>5. s \in Sections BY <1>2
<1>6. elf.secs[j].nobits \/ s.size = 0 \/ InFile(s) BY Zenon DEF Sound
<1>7. hits = {j}
  <2>1. j \in 1 .. i - 1 BY <1>2, SMT
  <2>2. \A k \in 1 .. i - 1 : Holds(elf.secs[k], v) => k \in hits BY DEF Looked, v
  <2>3. j \in hits BY <1>4, <2>1, <2>2
  <2>4. \A h \in hits : h = j BY <1>1, <1>4
  <2> QED BY <2>3, <2>4
<1> HIDE DEF s
<1>8. /\ s.addr \in Nat /\ s.off \in Nat /\ s.size \in Nat BY <1>5 DEF Sections
<1>9. s.addr <= v /\ v < s.addr + s.size /\ v + n - 1 < s.addr + s.size
  BY <1>4 DEF Holds, s
<1>10. s.off <= elf.len /\ s.size <= elf.len - s.off
  <2>1. s.size # 0 BY <1>3, <1>8, <1>9, SMT
  <2>2. InFile(s) BY <1>4, <1>6, <2>1 DEF s
  <2> QED BY <2>2 DEF InFile
<1>11. /\ n <= s.size - (v - s.addr)
       /\ s.off + (v - s.addr) <= elf.len /\ n <= elf.len - (s.off + (v - s.addr))
  <2>1. n <= s.size - (v - s.addr) BY <1>3, <1>8, <1>9, SMT
  <2>2. PICK d \in Nat : d = v - s.addr BY <1>3, <1>8, <1>9, SMT
  <2>3. n <= s.size - d /\ n \in Nat BY <1>3, <2>1, <2>2
  <2>4. s.off + d <= elf.len /\ n <= elf.len - (s.off + d) BY <1>2, <1>8, <1>10, <2>3, SMT
  <2> QED BY <2>1, <2>2, <2>4
<1>12. Backed(elf.secs[j]) BY <1>4, <1>11, Zenon DEF Backed, FileOffset, s, v, n
<1> QED BY <1>7, <1>12

LEMMA CutXInv == XInv /\ Cut => XInv'
<1> SUFFICES ASSUME XInv, Cut PROVE XInv' OBVIOUS
<1> DEFINE found == {h \in hits : hits = {h} /\ Backed(elf.secs[h])}
<1>1. /\ elf \in Elfs /\ pc = "sections" /\ elf' = elf /\ hits' = hits
      /\ output' = output /\ temp' = temp /\ i' = i /\ i \in Nat \ {0}
  BY DEF XInv, Cut, Fail, Files
<1>2. /\ Len(elf.syms) = 1 /\ elf.syms[1].size > 0
      /\ \A h \in hits : h \in DOMAIN elf.secs /\ Holds(elf.secs[h], elf.syms[1].value)
  BY <1>1 DEF XInv, Found
<1>3. output = "old" /\ temp = "none" BY <1>1 DEF XInv, PublishedWhole
<1>4. CASE found = {} /\ Fail
  <2>1. pc' = "failed" BY <1>4 DEF Fail
  <2>2. ~Sound
    <3>1. i > Len(elf.secs) /\ i \in Nat BY <1>1 DEF Cut
    <3>2. Found /\ Looked BY DEF XInv
    <3>3. Sound => \E h \in hits : hits = {h} /\ Backed(elf.secs[h])
      BY <1>1, <3>1, <3>2, SoundIsFound
    <3> QED BY <1>4, <3>3
  <2>3. RefusesOnlyUnsound' BY <1>1, <2>2 DEF RefusesOnlyUnsound, Sound, InFile, Holds
  <2> QED
    BY <1>1, <1>3, <2>1, <2>3 DEF XInv, Found, Looked, BytesAreTheSymbol, PublishedWhole, Cutting
<1>5. ASSUME NEW h \in found,
             firmware' = Slice(FileOffset(elf.secs[h]), FileOffset(elf.secs[h]) + elf.syms[1].size),
             pc' = "create"
      PROVE  XInv'
  <2>1. elf.secs \in Seq(Sections) BY <1>1, ElfAssumption DEF Sections
  <2>2. h \in DOMAIN elf.secs /\ Holds(elf.secs[h], elf.syms[1].value) /\ Backed(elf.secs[h])
    BY <1>2
  <2>3. elf.secs[h] \in Sections BY <2>1, <2>2
  <2>4. /\ Len(firmware') = elf.syms[1].size /\ firmware' # <<>>
        /\ \A k \in DOMAIN firmware' :
             LET a == elf.syms[1].value + k - 1 IN
             /\ Holds(elf.secs[h], a) /\ ~elf.secs[h].nobits
             /\ firmware'[k] = elf.secs[h].off + (a - elf.secs[h].addr)
             /\ firmware'[k] < elf.len
    BY <1>1, <1>2, <1>5, <2>2, <2>3, SliceIsTheSymbol
  <2>5. TheSymbol(elf, firmware') BY <1>2, <2>2, <2>4, Zenon DEF TheSymbol
  <2>6. BytesAreTheSymbol' BY <1>1, <2>5 DEF BytesAreTheSymbol
  <2> QED BY <1>1, <1>2, <1>3, <1>5, <2>6
         DEF XInv, Found, Looked, RefusesOnlyUnsound, PublishedWhole, Cutting
<1> QED BY <1>4, <1>5 DEF Cut

LEMMA ScanXInv == XInv /\ (FindSymbol \/ ScanSection) => XInv'
<1> SUFFICES ASSUME XInv, FindSymbol \/ ScanSection PROVE XInv' OBVIOUS
<1>1. /\ UNCHANGED <<elf, firmware, output, temp>> /\ elf \in Elfs
      /\ pc \in {"symbol", "sections"} /\ pc' \in {"sections", "failed"}
      /\ output = "old" /\ temp = "none"
  BY DEF XInv, PublishedWhole, FindSymbol, ScanSection, Fail, Files
<1>2. BytesAreTheSymbol' /\ PublishedWhole' BY <1>1 DEF BytesAreTheSymbol, PublishedWhole
<1>3. CASE FindSymbol
  <2>1. hits' = {} /\ i' = i BY <1>3 DEF XInv, FindSymbol, Fail
  <2>2. pc' = "sections" => Len(elf.syms) = 1 /\ elf.syms[1].size > 0
    BY <1>3 DEF FindSymbol, Fail
  <2>3. Found' BY <1>1, <2>1, <2>2 DEF Found, Cutting
  <2>4. pc = "symbol" /\ i = 1 /\ Len(elf.secs) \in Nat
    <3>1. elf.secs \in Seq(Sections) BY <1>1, ElfAssumption DEF Sections
    <3> QED BY <1>3, <3>1 DEF XInv, FindSymbol
  <2>5. Looked'
    <3>1. pc' = "sections" => elf.valid BY <1>3, Zenon DEF FindSymbol, Fail
    <3>2. 1 <= Len(elf.secs) + 1 /\ \A j \in 1 .. 1 - 1 : FALSE BY <2>4, SMT
    <3> QED BY <1>1, <2>1, <2>4, <3>1, <3>2 DEF Looked
  <2>6. RefusesOnlyUnsound'
    <3>1. pc' = "failed" => ~(elf.valid /\ Len(elf.syms) = 1 /\ elf.syms[1].size > 0)
      BY <1>3, Zenon DEF FindSymbol, Fail
    <3>2. pc' = "failed" => ~Sound BY <3>1, Zenon DEF Sound
    <3> QED BY <1>1, <3>2 DEF RefusesOnlyUnsound, Sound, InFile, Holds
  <2> QED BY <1>1, <1>2, <2>1, <2>3, <2>4, <2>5, <2>6 DEF XInv
<1>4. CASE ScanSection
  <2>1. /\ pc = "sections" /\ i \in Nat \ {0} /\ i <= Len(elf.secs)
        /\ elf.secs \in Seq(Sections)
    BY <1>1, <1>4, ElfAssumption DEF XInv, ScanSection, Sections
  <2>2. i \in DOMAIN elf.secs BY <2>1
  <2>3. i' \in Nat \ {0} BY <1>4, <2>1 DEF ScanSection, Fail
  <2>4. /\ Len(elf.syms) = 1 /\ elf.syms[1].size > 0
        /\ \A h \in hits : h \in DOMAIN elf.secs /\ Holds(elf.secs[h], elf.syms[1].value)
    BY <2>1 DEF XInv, Found
  <2>5. \A h \in hits' : \/ h \in hits
                         \/ h = i /\ Holds(elf.secs[i], elf.syms[1].value)
    BY <1>4 DEF ScanSection, Fail
  <2>6. \A h \in hits' : h \in DOMAIN elf.secs /\ Holds(elf.secs[h], elf.syms[1].value)
    BY <2>2, <2>4, <2>5
  <2>7. Found' BY <1>1, <2>4, <2>6 DEF Found
  <2>8. Looked'
    <3>1. SUFFICES ASSUME pc' = "sections" PROVE Looked' BY DEF Looked
    <3>2. /\ elf.valid /\ \A j \in 1 .. i - 1 : Holds(elf.secs[j], elf.syms[1].value) => j \in hits
      BY <2>1 DEF XInv, Looked
    <3>3. /\ i' = i + 1 /\ hits \subseteq hits'
          /\ Holds(elf.secs[i], elf.syms[1].value) => i \in hits'
      BY <1>4, <3>1 DEF ScanSection, Fail
    <3>4. Len(elf.secs) \in Nat BY <2>1
    <3>5. i' <= Len(elf.secs) + 1 /\ \A j \in 1 .. i' - 1 : j \in 1 .. i - 1 \/ j = i
      BY <2>1, <3>3, <3>4, SMT
    <3> QED BY <1>1, <3>2, <3>3, <3>5 DEF Looked
  <2>9. RefusesOnlyUnsound'
    <3>1. pc' = "failed" => ~(elf.secs[i].nobits \/ elf.secs[i].size = 0 \/ InFile(elf.secs[i]))
      BY <1>4, <2>1, Zenon DEF ScanSection, Fail
    <3>2. pc' = "failed" => ~Sound BY <2>2, <3>1, Zenon DEF Sound
    <3> QED BY <1>1, <3>2 DEF RefusesOnlyUnsound, Sound, InFile, Holds
  <2> QED BY <1>1, <1>2, <1>4, <2>1, <2>3, <2>7, <2>8, <2>9 DEF XInv
<1> QED BY <1>3, <1>4

LEMMA WriteXInv ==
  XInv /\ (CreateTemp \/ WriteTemp \/ Replace \/ WriteFails \/ Killed) => XInv'
<1> SUFFICES ASSUME XInv, CreateTemp \/ WriteTemp \/ Replace \/ WriteFails \/ Killed PROVE XInv' OBVIOUS
<1>1. elf' = elf /\ i' = i /\ hits' = hits /\ firmware' = firmware
  BY DEF CreateTemp, WriteTemp, Replace, WriteFails, Killed, Data
<1>2. pc' \in Cutting => pc \in Cutting
  BY DEF CreateTemp, WriteTemp, Replace, WriteFails, Killed, Cutting
<1>3. pc' \notin {"symbol", "sections"}
  BY DEF CreateTemp, WriteTemp, Replace, WriteFails, Killed
<1>4. Found' BY <1>1, <1>2, <1>3 DEF XInv, Found
<1>5. BytesAreTheSymbol' BY <1>1, <1>2 DEF XInv, BytesAreTheSymbol, Cutting
<1>6. PublishedWhole'
  BY DEF XInv, PublishedWhole, CreateTemp, WriteTemp, Replace, WriteFails, Killed, Data, Files
<1>7. Looked' BY <1>3 DEF Looked
<1>8. RefusesOnlyUnsound'
  <2>1. pc' = "failed" => firmware # <<>>
    BY DEF XInv, BytesAreTheSymbol, TheSymbol, CreateTemp, WriteTemp, Replace, WriteFails, Killed
  <2> QED BY <1>1, <2>1 DEF RefusesOnlyUnsound
<1> QED BY <1>1, <1>3, <1>4, <1>5, <1>6, <1>7, <1>8 DEF XInv

\* The initial states of an extraction, and each of its steps.
LEMMA ExtractionSteps == (Init => XInv) /\ (XInv /\ (Next \/ UNCHANGED vars) => XInv')
<1>1. Init => XInv
  BY DEF Init, XInv, Found, Looked, BytesAreTheSymbol, RefusesOnlyUnsound, PublishedWhole, Cutting
<1>2. XInv /\ UNCHANGED vars => XInv'
  BY DEF vars, XInv, Found, Looked, BytesAreTheSymbol, PublishedWhole,
     RefusesOnlyUnsound, Sound, InFile, Holds
<1>3. XInv /\ Next => XInv' BY <1>2, CutXInv, ScanXInv, WriteXInv DEF Next, Ended
<1> QED BY <1>1, <1>2, <1>3

------------------------------------------------------------------------------
(* prepare-engine-image.py: slices and their assignment.                     *)

PeSections == [va : Nat, vsize : Nat, raw : Nat, ptr : Nat]

\* The places of a concatenation.
LEMMA Joined ==
  ASSUME NEW S, NEW p \in Seq(S), NEW q \in Seq(S)
  PROVE  /\ p \o q \in Seq(S) /\ Len(p \o q) = Len(p) + Len(q)
         /\ \A k \in 1 .. Len(p) : (p \o q)[k] = p[k]
         /\ \A k \in 1 .. Len(p) + Len(q) : k > Len(p) => (p \o q)[k] = q[k - Len(p)]
OBVIOUS

\* An assignment of as many bytes as there are places moves nothing.
LEMMA AssignInPlace ==
  ASSUME NEW S, NEW s \in Seq(S), NEW from \in Nat, NEW to \in Nat,
         from <= to, to <= Len(s), NEW b \in Seq(S), Len(b) = to - from
  PROVE  Prep!Assign(s, from, to, b) =
           [k \in 1 .. Len(s) |-> IF from < k /\ k <= to THEN b[k - from] ELSE s[k]]
<1> DEFINE n == Len(s)   A == SubSeq(s, 1, from)   C == SubSeq(s, to + 1, n)
<1>1. n \in Nat OBVIOUS
<1>2. Prep!Assign(s, from, to, b) = (A \o b) \o C
  <2>1. Prep!Upto(from, s) = from /\ Prep!Upto(to, s) = to
    BY <1>1, SMT DEF Prep!Upto
  <2> QED BY <2>1, Zenon DEF Prep!Assign
<1>3. A \in Seq(S) /\ Len(A) = from /\ \A k \in 1 .. from : A[k] = s[k] BY <1>1, SMT
<1>4. C \in Seq(S) /\ Len(C) = n - to /\ \A k \in 1 .. n - to : C[k] = s[to + k] BY <1>1, SMT
<1> HIDE DEF A, C
<1> DEFINE D == A \o b   R == D \o C
<1>5. D \in Seq(S) /\ Len(D) = Len(A) + Len(b)
      /\ (\A k \in 1 .. Len(A) : D[k] = A[k])
      /\ \A k \in 1 .. Len(A) + Len(b) : k > Len(A) => D[k] = b[k - Len(A)]
  BY <1>3, Joined
<1>6. from + (to - from) = to /\ to + (n - to) = n BY <1>1, SMT
<1> HIDE DEF D
<1>7. R \in Seq(S) /\ Len(R) = Len(D) + Len(C)
      /\ (\A k \in 1 .. Len(D) : R[k] = D[k])
      /\ \A k \in 1 .. Len(D) + Len(C) : k > Len(D) => R[k] = C[k - Len(D)]
  <2>1. D \in Seq(S) /\ C \in Seq(S) BY <1>4, <1>5
  <2> QED BY <2>1, Joined, Zenon
<1> HIDE DEF R
<1>8. Len(D) = to /\ Len(R) = n BY <1>3, <1>4, <1>5, <1>6, <1>7
<1>9. ASSUME NEW k \in 1 .. n
      PROVE  R[k] = IF from < k /\ k <= to THEN b[k - from] ELSE s[k]
  <2>1. CASE k <= from
    <3>1. k \in 1 .. from /\ k \in 1 .. to /\ ~(from < k) BY <1>1, <2>1, SMT
    <3> QED BY <1>3, <1>5, <1>7, <1>8, <3>1
  <2>2. CASE from < k /\ k <= to
    <3>1. k \in 1 .. to BY <1>1, <2>2, SMT
    <3> QED BY <1>3, <1>5, <1>6, <1>7, <1>8, <2>2, <3>1
  <2>3. CASE to < k
    <3>1. k \in 1 .. to + (n - to) /\ k - to \in 1 .. n - to /\ ~(k <= to) /\ to + (k - to) = k
      BY <1>1, <2>3, SMT
    <3> QED BY <1>4, <1>7, <1>8, <2>3, <3>1
  <2> QED BY <1>1, <2>1, <2>2, <2>3, SMT
<1>10. R = [k \in 1 .. n |-> R[k]] BY <1>7, <1>8
<1> QED BY <1>2, <1>9, <1>10 DEF R, D

------------------------------------------------------------------------------
(* The image, as it grows.                                                   *)

\* What a place of the image holds once k sections are copied.
Over(f, k, a) == {j \in 1 .. k : f.secs[j].va <= a /\ a < f.secs[j].va + f.secs[j].raw}
LastOf(S) == CHOOSE j \in S : \A x \in S : x <= j
Place(f, S, a) ==
  IF S # {} THEN f.secs[LastOf(S)].ptr + (a - f.secs[LastOf(S)].va) + 1
  ELSE IF a < f.hdr THEN a + 1 ELSE 0
Held(f, k, a) == Place(f, Over(f, k, a), a)
Built(f, k) == [a \in 1 .. f.image |-> Held(f, k, a - 1)]

Good(f, k) == \A j \in 1 .. k : Prep!SectionGood(f, f.secs[j])

LEMMA RawFacts ==
  ASSUME NEW f \in Raws
  PROVE  /\ f.len \in Nat /\ f.image \in Nat /\ f.hdr \in Nat
         /\ f.secs \in Seq(PeSections) /\ Len(f.secs) \in Nat
         /\ DOMAIN f.secs = 1 .. Len(f.secs)
         /\ \A j \in 1 .. Len(f.secs) :
              /\ f.secs[j].va \in Nat /\ f.secs[j].vsize \in Nat
              /\ f.secs[j].raw \in Nat /\ f.secs[j].ptr \in Nat
<1>1. f.secs \in Seq(PeSections) BY RawAssumption DEF PeSections
<1>2. \A j \in 1 .. Len(f.secs) : f.secs[j] \in PeSections BY <1>1
<1>3. \A x \in PeSections : x.va \in Nat /\ x.vsize \in Nat /\ x.raw \in Nat /\ x.ptr \in Nat
  BY DEF PeSections
<1>4. f.len \in Nat /\ f.image \in Nat /\ f.hdr \in Nat BY RawAssumption
<1>5. Len(f.secs) \in Nat /\ DOMAIN f.secs = 1 .. Len(f.secs) BY <1>1
<1> QED BY <1>1, <1>2, <1>3, <1>4, <1>5, Zenon

\* The section copied last decides its places and no other.
LEMMA CopyDecides ==
  ASSUME NEW f \in Raws, NEW k \in 1 .. Len(f.secs), NEW a \in Nat
  PROVE  LET s == f.secs[k] IN
         Held(f, k, a) = IF s.va <= a /\ a < s.va + s.raw THEN s.ptr + (a - s.va) + 1
                         ELSE Held(f, k - 1, a)
<1> DEFINE s == f.secs[k]   H == Over(f, k, a)   G == Over(f, k - 1, a)
           last == LastOf(H)
<1>1. k \in Nat /\ k \in 1 .. k BY RawFacts, SMT
<1>2. CASE s.va <= a /\ a < s.va + s.raw
  <2>1. k \in H BY <1>1, <1>2 DEF Over
  <2>2. \A x \in H : x <= k /\ x \in Int BY <1>1, SMT DEF Over
  <2> HIDE DEF H
  <2>3. \E j \in H : \A x \in H : x <= j BY <2>1, <2>2
  <2>4. last \in H /\ \A x \in H : x <= last BY <2>3, Zenon DEF LastOf
  <2> HIDE DEF last
  <2>5. last = k
    <3>1. last <= k /\ k <= last /\ last \in Int BY <2>1, <2>2, <2>4
    <3> QED BY <1>1, <3>1, SMT
  <2>6. Held(f, k, a) = f.secs[last].ptr + (a - f.secs[last].va) + 1
    BY <2>1, Zenon DEF Held, Place, last, H
  <2> QED BY <1>2, <2>5, <2>6
<1>3. CASE ~(s.va <= a /\ a < s.va + s.raw)
  <2>1. \A j \in 1 .. k : j \in 1 .. k - 1 \/ j = k BY <1>1, SMT
  <2>2. \A j \in 1 .. k - 1 : j \in 1 .. k BY <1>1, SMT
  <2>3. H = G BY <1>3, <2>1, <2>2 DEF Over
  <2>4. Held(f, k, a) = Held(f, k - 1, a) BY <2>3, Zenon DEF Held
  <2> QED BY <1>3, <2>4
<1> QED BY <1>2, <1>3

\* A slice that ends inside the file.
LEMMA WholeSlice ==
  ASSUME dll \in Raws, NEW from \in Nat, NEW n \in Nat, from + n <= dll.len
  PROVE  /\ Prep!FileBytes(from, from + n) = [k \in 1 .. n |-> from + k]
         /\ Prep!FileBytes(from, from + n) \in Seq(Nat)
         /\ Len(Prep!FileBytes(from, from + n)) = n
<1> DEFINE to == IF from + n > dll.len THEN dll.len ELSE from + n
           b == [k \in 1 .. n |-> from + k]
<1>1. to - from = n BY RawFacts, SMT
<1>2. Prep!FileBytes(from, from + n) = b BY <1>1, Zenon DEF Prep!FileBytes
<1>3. b \in Seq(Nat) /\ Len(b) = n BY SMT
<1> QED BY <1>2, <1>3

\* Copying the headers to an empty image.
LEMMA HeadersCopied ==
  ASSUME dll \in Raws, Prep!HeadersGood(dll)
  PROVE  Prep!Assign([k \in 1 .. dll.image |-> 0], 0, dll.hdr, Prep!FileBytes(0, dll.hdr))
           = Built(dll, 0)
<1> DEFINE n == dll.image   z == [k \in 1 .. n |-> 0]   h == dll.hdr
           b == Prep!FileBytes(0, h)
<1>1. /\ n \in Nat /\ h \in Nat /\ dll.len \in Nat /\ h <= n /\ h <= dll.len
  BY RawFacts DEF Prep!HeadersGood
<1>2. b = [k \in 1 .. h |-> 0 + k] /\ b \in Seq(Nat) /\ Len(b) = h
  <2>1. 0 + h = h /\ 0 + h <= dll.len BY <1>1, SMT
  <2>2. b = Prep!FileBytes(0, 0 + h) BY <2>1
  <2> HIDE DEF h, b
  <2> QED BY <1>1, <2>1, <2>2, WholeSlice
<1>3. z \in Seq(Nat) /\ Len(z) = n BY <1>1
<1> HIDE DEF b, z
<1>4. Prep!Assign(z, 0, h, b) =
        [k \in 1 .. n |-> IF 0 < k /\ k <= h THEN b[k - 0] ELSE z[k]]
  <2>1. Len(b) = h - 0 /\ 0 <= h BY <1>1, <1>2, SMT
  <2> HIDE DEF n, h
  <2>2. b \in Seq(Nat) /\ z \in Seq(Nat) /\ h <= Len(z) /\ h \in Nat /\ 0 \in Nat
    BY <1>1, <1>2, <1>3
  <2>3. Prep!Assign(z, 0, h, b) =
          [k \in 1 .. Len(z) |-> IF 0 < k /\ k <= h THEN b[k - 0] ELSE z[k]]
    BY <2>1, <2>2, AssignInPlace
  <2> QED BY <1>3, <2>3
<1>5. ASSUME NEW k \in 1 .. n
      PROVE  (IF 0 < k /\ k <= h THEN b[k - 0] ELSE z[k]) = Held(dll, 0, k - 1)
  <2>1. \A j \in 1 .. 0 : FALSE BY SMT
  <2>2. Over(dll, 0, k - 1) = {} BY <2>1 DEF Over
  <2>3. Held(dll, 0, k - 1) = IF k - 1 < h THEN k - 1 + 1 ELSE 0
    BY <2>2, Zenon DEF Held, Place
  <2>4. z[k] = 0 BY DEF z
  <2>5. CASE k <= h
    <3>1. 0 < k /\ k - 1 < h /\ k - 1 + 1 = k /\ k - 0 = k /\ k \in 1 .. h /\ 0 + k = k
      BY <1>1, <2>5, SMT
    <3>2. b[k] = 0 + k BY <1>2, <3>1
    <3> QED BY <2>3, <2>5, <3>1, <3>2
  <2>6. CASE ~(k <= h)
    <3>1. ~(k - 1 < h) BY <1>1, <2>6, SMT
    <3> QED BY <2>3, <2>4, <2>6, <3>1
  <2> QED BY <2>5, <2>6
<1> QED BY <1>4, <1>5, Zenon DEF Built, z, b

\* The copy of a slice, for places and values of any kind.
LEMMA CopyOver ==
  ASSUME NEW S, NEW im \in Seq(S), NEW v \in Nat, NEW r \in Nat, v + r <= Len(im),
         NEW b \in Seq(S), Len(b) = r
  PROVE  Prep!Assign(im, v, v + r, b) =
           [a \in 1 .. Len(im) |-> IF v < a /\ a <= v + r THEN b[a - v] ELSE im[a]]
<1>1. v + r \in Nat /\ v <= v + r /\ (v + r) - v = r BY SMT
<1>2. PICK to \in Nat : to = v + r BY <1>1
<1>3. v <= to /\ to <= Len(im) /\ Len(b) = to - v BY <1>1, <1>2
<1>4. Prep!Assign(im, v, to, b) =
        [a \in 1 .. Len(im) |-> IF v < a /\ a <= to THEN b[a - v] ELSE im[a]]
  BY <1>3, AssignInPlace
<1> QED BY <1>2, <1>4

\* Copying one section.
LEMMA SectionCopied ==
  ASSUME dll \in Raws, NEW k \in 1 .. Len(dll.secs),
         Prep!SectionGood(dll, dll.secs[k]), image = Built(dll, k - 1)
  PROVE  LET s == dll.secs[k] IN
         Prep!Assign(image, s.va, s.va + s.raw, Prep!FileBytes(s.ptr, s.ptr + s.raw))
           = Built(dll, k)
<1> DEFINE s == dll.secs[k]   n == dll.image   v == s.va   r == s.raw   p == s.ptr
           b == Prep!FileBytes(p, p + r)
<1>1. /\ n \in Nat /\ v \in Nat /\ r \in Nat /\ p \in Nat /\ dll.len \in Nat
      /\ v + r <= n /\ p + r <= dll.len
  <2>1. n \in Nat /\ dll.len \in Nat /\ v \in Nat /\ r \in Nat /\ p \in Nat /\ s.vsize \in Nat
    BY RawFacts
  <2>2. /\ v <= n /\ p <= dll.len /\ r <= dll.len - p
        /\ (IF s.vsize > r THEN s.vsize ELSE r) <= n - v
    BY DEF Prep!SectionGood, Prep!MappedSize
  <2> HIDE DEF s, n, v, r, p
  <2> QED BY <2>1, <2>2, SMT
<1>2. b = [x \in 1 .. r |-> p + x] /\ b \in Seq(Nat) /\ Len(b) = r
  <2> HIDE DEF r, p
  <2> QED BY <1>1, WholeSlice
<1>3. /\ image = [a \in 1 .. n |-> Held(dll, k - 1, a - 1)]
      /\ DOMAIN image = 1 .. n
  BY DEF Built
<1> DEFINE S == Nat \cup {image[a] : a \in 1 .. n}
<1>4. image \in Seq(S) /\ Len(image) = n
  <2>1. image \in [1 .. n -> S] BY <1>3
  <2> HIDE DEF S, n
  <2> QED BY <1>1, <1>3, <2>1
<1>5. b \in Seq(S)
  <2>1. Nat \subseteq S OBVIOUS
  <2>2. \A x \in 1 .. r : b[x] \in S
    <3> HIDE DEF S, b, r, p
    <3> QED BY <1>1, <1>2, <2>1
  <2> HIDE DEF S, b, r
  <2> QED BY <1>1, <1>2, <2>2
<1>6. Prep!Assign(image, v, v + r, b) =
        [a \in 1 .. n |-> IF v < a /\ a <= v + r THEN b[a - v] ELSE image[a]]
  <2> HIDE DEF S, b, n, v, r, p
  <2>1. v + r <= Len(image) BY <1>1, <1>4
  <2>2. Prep!Assign(image, v, v + r, b) =
          [a \in 1 .. Len(image) |-> IF v < a /\ a <= v + r THEN b[a - v] ELSE image[a]]
    <3>1. v \in Nat /\ r \in Nat /\ b \in Seq(S) /\ Len(b) = r /\ image \in Seq(S)
      BY <1>1, <1>2, <1>4, <1>5
    <3>2. PICK im \in Seq(S), w \in Nat, q \in Nat, c \in Seq(S) :
            im = image /\ w = v /\ q = r /\ c = b
      BY <3>1
    <3>3. w + q <= Len(im) /\ Len(c) = q BY <2>1, <3>1, <3>2
    <3>4. Prep!Assign(im, w, w + q, c) =
            [a \in 1 .. Len(im) |-> IF w < a /\ a <= w + q THEN c[a - w] ELSE im[a]]
      BY <3>3, CopyOver
    <3> QED BY <3>2, <3>4
  <2> QED BY <1>4, <2>2
<1>7. ASSUME NEW a \in 1 .. n
      PROVE  (IF v < a /\ a <= v + r THEN b[a - v] ELSE image[a]) = Held(dll, k, a - 1)
  <2>1. a - 1 \in Nat BY <1>1, SMT
  <2>2. Held(dll, k, a - 1) = IF v <= a - 1 /\ a - 1 < v + r THEN p + (a - 1 - v) + 1
                              ELSE Held(dll, k - 1, a - 1)
    BY <2>1, CopyDecides
  <2>3. image[a] = Held(dll, k - 1, a - 1) BY <1>3
  <2> HIDE DEF b, n, v, r, p
  <2>4. v < a /\ a <= v + r <=> v <= a - 1 /\ a - 1 < v + r BY <1>1, SMT
  <2>5. v < a /\ a <= v + r => b[a - v] = p + (a - 1 - v) + 1
    <3>1. SUFFICES ASSUME v < a /\ a <= v + r PROVE b[a - v] = p + (a - 1 - v) + 1
      OBVIOUS
    <3>2. a - v \in 1 .. r BY <1>1, <3>1, SMT
    <3>3. b[a - v] = p + (a - v) BY <1>2, <3>2
    <3> QED BY <1>1, <3>3, SMT
  <2> QED BY <2>2, <2>3, <2>4, <2>5
<1> HIDE DEF S, b
<1>8. Prep!Assign(image, v, v + r, b) = Built(dll, k) BY <1>6, <1>7, Zenon DEF Built
<1> QED BY <1>8 DEF b

------------------------------------------------------------------------------
(* The preparation's invariant.                                              *)

Whole == {"write", "done", "failed"}

\* A preparation of f at p whose next section is k, with image m and output c.
PrepState(f, p, k, m, c) ==
  /\ f \in Raws /\ k \in Nat \ {0}
  /\ p \in {"headers", "table", "copy", "invalid"} \cup Whole
  /\ p = "headers" => k = 1
  /\ p \in {"table", "copy"} \cup Whole => Prep!HeadersGood(f)
  /\ p = "table" => k <= Len(f.secs) + 1 /\ Good(f, k - 1)
  /\ p \in {"copy"} \cup Whole => Good(f, Len(f.secs))
  /\ p = "copy" => k <= Len(f.secs) + 1 /\ m = Built(f, k - 1)
  /\ p \in Whole => m = Built(f, Len(f.secs))
  /\ p = "done" => c = m
  /\ p = "invalid" => ~Prep!Loads(f)
  /\ p \notin Whole => c = "kept"

PInv == PrepState(dll, step, section, image, sidecar)

\* A bound on a sum, as the tools write it.
LEMMA FitsBelow ==
  ASSUME NEW n \in Nat, NEW m \in Nat, NEW top \in Nat, n + m <= top
  PROVE  n <= top /\ m <= top - n
BY SMT

\* What load_pe takes passes the checks of the headers and of every section.
LEMMA LoadableIsGood ==
  ASSUME dll \in Raws, Prep!Loads(dll)
  PROVE  Prep!HeadersGood(dll) /\ Good(dll, Len(dll.secs))
<1>1. dll.image \in Nat /\ dll.hdr \in Nat /\ dll.len \in Nat BY RawFacts
<1>2. Prep!HeadersGood(dll) BY <1>1, SMT DEF Prep!Loads, Prep!HeadersGood
<1>3. ASSUME NEW j \in 1 .. Len(dll.secs) PROVE Prep!SectionGood(dll, dll.secs[j])
  <2>1. PICK s : s = dll.secs[j] OBVIOUS
  <2>2. s.va \in Nat /\ s.vsize \in Nat /\ s.raw \in Nat /\ s.ptr \in Nat BY <2>1, RawFacts
  <2>3. s.va + s.vsize <= dll.image /\ s.va + s.raw <= dll.image /\ s.ptr + s.raw <= dll.len
    <3>1. j \in DOMAIN dll.secs BY RawFacts
    <3> QED BY <2>1, <3>1, Zenon DEF Prep!Loads
  <2>4. /\ s.va <= dll.image /\ s.vsize <= dll.image - s.va /\ s.raw <= dll.image - s.va
        /\ s.ptr <= dll.len /\ s.raw <= dll.len - s.ptr
    BY <1>1, <2>2, <2>3, FitsBelow, Zenon
  <2>5. Prep!MappedSize(s) <= dll.image - s.va BY <2>4, Zenon DEF Prep!MappedSize
  <2> QED BY <2>1, <2>4, <2>5, Zenon DEF Prep!SectionGood
<1> QED BY <1>2, <1>3 DEF Good

LEMMA TablePInv == PInv /\ (Prep!CheckHeaders \/ Prep!CheckSection) => PInv'
<1> SUFFICES ASSUME PInv, Prep!CheckHeaders \/ Prep!CheckSection PROVE PInv' OBVIOUS
<1>1. /\ dll \in Raws /\ dll' = dll /\ image' = image /\ sidecar' = sidecar /\ sidecar = "kept"
      /\ section \in Nat \ {0} /\ Len(dll.secs) \in Nat
  <2>1. dll \in Raws /\ section \in Nat \ {0} BY DEF PInv, PrepState
  <2>2. dll' = dll /\ image' = image /\ sidecar' = sidecar /\ step \in {"headers", "table"}
    BY DEF Prep!CheckHeaders, Prep!CheckSection, Prep!Invalid
  <2> QED BY <2>1, <2>2, RawFacts DEF PInv, PrepState, Whole
<1>2. CASE Prep!CheckHeaders
  <2>1. section = 1 /\ section' = section
    BY <1>2 DEF PInv, PrepState, Prep!CheckHeaders, Prep!Invalid
  <2>2. CASE Prep!HeadersGood(dll)
    <3>1. step' = "table" BY <1>2, <2>2 DEF Prep!CheckHeaders
    <3>2. Good(dll, 1 - 1)
      <4>1. \A j \in 1 .. 1 - 1 : FALSE BY SMT
      <4> QED BY <4>1 DEF Good
    <3>3. 1 <= Len(dll.secs) + 1 BY <1>1
    <3> QED BY <1>1, <2>1, <2>2, <3>1, <3>2, <3>3 DEF PInv, PrepState, Whole
  <2>3. CASE ~Prep!HeadersGood(dll)
    <3>1. step' = "invalid" BY <1>2, <2>3 DEF Prep!CheckHeaders, Prep!Invalid
    <3>2. ~Prep!Loads(dll) BY <1>1, <2>3, LoadableIsGood
    <3> QED BY <1>1, <2>1, <3>1, <3>2 DEF PInv, PrepState, Whole
  <2> QED BY <2>2, <2>3
<1>3. CASE Prep!CheckSection
  <2>1. step = "table" /\ section <= Len(dll.secs) BY <1>3 DEF Prep!CheckSection
  <2>2. Prep!HeadersGood(dll) /\ Good(dll, section - 1) BY <2>1 DEF PInv, PrepState
  <2>3. CASE Prep!SectionGood(dll, dll.secs[section])
    <3>1. step' = "table" /\ section' = section + 1 BY <1>3, <2>1, <2>3 DEF Prep!CheckSection
    <3>2. \A j \in 1 .. (section + 1) - 1 : j \in 1 .. section - 1 \/ j = section BY <1>1, SMT
    <3>3. Good(dll, (section + 1) - 1) BY <2>2, <2>3, <3>2 DEF Good
    <3>4. section + 1 <= Len(dll.secs) + 1 /\ section + 1 \in Nat \ {0} BY <1>1, <2>1, SMT
    <3> QED BY <1>1, <2>2, <3>1, <3>3, <3>4 DEF PInv, PrepState, Whole
  <2>4. CASE ~Prep!SectionGood(dll, dll.secs[section])
    <3>1. step' = "invalid" /\ section' = section
      BY <1>3, <2>1, <2>4 DEF Prep!CheckSection, Prep!Invalid
    <3>2. section \in 1 .. Len(dll.secs) BY <1>1, <2>1
    <3>3. ~Good(dll, Len(dll.secs)) BY <2>4, <3>2 DEF Good
    <3>4. ~Prep!Loads(dll) BY <1>1, <3>3, LoadableIsGood
    <3> QED BY <1>1, <3>1, <3>4 DEF PInv, PrepState, Whole
  <2> QED BY <2>3, <2>4
<1> QED BY <1>2, <1>3

LEMMA CopyPInv == PInv /\ (Prep!CopyHeaders \/ Prep!CopySection) => PInv'
<1> SUFFICES ASSUME PInv, Prep!CopyHeaders \/ Prep!CopySection PROVE PInv' OBVIOUS
<1>1. /\ dll \in Raws /\ dll' = dll /\ sidecar' = sidecar /\ sidecar = "kept"
      /\ step' = "copy" /\ section \in Nat \ {0} /\ Len(dll.secs) \in Nat
      /\ Prep!HeadersGood(dll)
  <2>1. dll \in Raws /\ section \in Nat \ {0} BY DEF PInv, PrepState
  <2>2. dll' = dll /\ sidecar' = sidecar /\ step \in {"table", "copy"} /\ step' = "copy"
    BY DEF Prep!CopyHeaders, Prep!CopySection
  <2> QED BY <2>1, <2>2, RawFacts DEF PInv, PrepState, Whole
<1>2. ASSUME Good(dll, Len(dll.secs)), section' \in Nat \ {0}, section' <= Len(dll.secs) + 1,
             image' = Built(dll, section' - 1)
      PROVE  PInv'
  BY <1>1, <1>2 DEF PInv, PrepState, Whole
<1>3. CASE Prep!CopyHeaders
  <2>1. step = "table" /\ section > Len(dll.secs) /\ section' = 1
    BY <1>3 DEF Prep!CopyHeaders
  <2>2. section - 1 = Len(dll.secs) BY <1>1, <2>1, SMT DEF PInv, PrepState
  <2>3. Good(dll, Len(dll.secs)) BY <2>1, <2>2 DEF PInv, PrepState
  <2>4. image' = Built(dll, 0) BY <1>1, <1>3, HeadersCopied DEF Prep!CopyHeaders
  <2>5. 1 - 1 = 0 /\ 1 <= Len(dll.secs) + 1 BY <1>1, SMT
  <2> QED BY <1>2, <2>1, <2>3, <2>4, <2>5
<1>4. CASE Prep!CopySection
  <2>1. step = "copy" /\ section <= Len(dll.secs) /\ section' = section + 1
    BY <1>4 DEF Prep!CopySection
  <2>2. Good(dll, Len(dll.secs)) /\ image = Built(dll, section - 1) BY <2>1 DEF PInv, PrepState
  <2>3. section \in 1 .. Len(dll.secs) BY <1>1, <2>1
  <2>4. Prep!SectionGood(dll, dll.secs[section]) BY <2>2, <2>3 DEF Good
  <2>5. image' = Built(dll, section)
    BY <1>1, <1>4, <2>2, <2>3, <2>4, SectionCopied DEF Prep!CopySection
  <2>6. (section + 1) - 1 = section /\ section + 1 <= Len(dll.secs) + 1 /\ section + 1 \in Nat \ {0}
    BY <1>1, <2>1, SMT
  <2> QED BY <1>2, <2>1, <2>2, <2>5, <2>6
<1> QED BY <1>3, <1>4

LEMMA OutputPInv == PInv /\ (Prep!OpenOutput \/ Prep!WriteOutput) => PInv'
<1> SUFFICES ASSUME PInv, Prep!OpenOutput \/ Prep!WriteOutput PROVE PInv' OBVIOUS
<1>1. /\ dll \in Raws /\ dll' = dll /\ image' = image /\ section' = section
      /\ step \in {"copy", "write"} /\ step' \in Whole
      /\ section \in Nat \ {0} /\ Len(dll.secs) \in Nat
      /\ Prep!HeadersGood(dll) /\ Good(dll, Len(dll.secs))
  <2>1. dll \in Raws /\ section \in Nat \ {0} BY DEF PInv, PrepState
  <2>2. /\ dll' = dll /\ image' = image /\ section' = section
        /\ step \in {"copy", "write"} /\ step' \in Whole
    BY DEF Prep!OpenOutput, Prep!WriteOutput, Whole
  <2> QED BY <2>1, <2>2, RawFacts DEF PInv, PrepState, Whole
<1>2. image = Built(dll, Len(dll.secs))
  <2>1. CASE step = "copy"
    <3>1. section > Len(dll.secs) BY <2>1 DEF Prep!OpenOutput, Prep!WriteOutput
    <3>2. section <= Len(dll.secs) + 1 /\ image = Built(dll, section - 1)
      BY <2>1 DEF PInv, PrepState
    <3>3. section - 1 = Len(dll.secs) BY <1>1, <3>1, <3>2, SMT
    <3> QED BY <3>2, <3>3
  <2>2. CASE step = "write" BY <2>2 DEF PInv, PrepState, Whole
  <2> QED BY <1>1, <2>1, <2>2
<1>3. step' = "done" => sidecar' = image' BY <1>1 DEF Prep!OpenOutput, Prep!WriteOutput
<1> QED BY <1>1, <1>2, <1>3 DEF PInv, PrepState, Whole

\* The initial states of a preparation, and each of its steps.
LEMMA PrepSteps == (Prep!Init => PInv) /\ (PInv /\ (Prep!Next \/ UNCHANGED prepVars) => PInv')
<1>1. Prep!Init => PInv BY DEF Prep!Init, PInv, PrepState, Whole
<1>2. PInv /\ UNCHANGED prepVars => PInv'
  BY DEF prepVars, PInv
<1>3. PInv /\ Prep!Next => PInv'
  <2>1. Prep!Ended => UNCHANGED prepVars BY DEF Prep!Ended, Prep!vars, prepVars
  <2> QED BY <1>2, <2>1, TablePInv, CopyPInv, OutputPInv DEF Prep!Next
<1> QED BY <1>1, <1>2, <1>3

\* The invariant says what the sidecar holds, and which DLLs are refused.
LEMMA PrepTells == PInv => SidecarIsTheLoadedImage /\ RefusesOnlyUnloadable
<1> SUFFICES ASSUME PInv PROVE SidecarIsTheLoadedImage /\ RefusesOnlyUnloadable OBVIOUS
<1>1. RefusesOnlyUnloadable
  BY DEF PInv, PrepState, Whole, RefusesOnlyUnloadable, Prep!RefusesOnlyUnloadable
<1>2. ASSUME NEW a PROVE Held(dll, Len(dll.secs), a) = Prep!Backing(a)
  <2>1. DOMAIN dll.secs = 1 .. Len(dll.secs) BY RawFacts DEF PInv, PrepState
  <2> DEFINE S == {j \in DOMAIN dll.secs : dll.secs[j].va <= a
                            /\ a < dll.secs[j].va + dll.secs[j].raw}
  <2>2. Prep!Backing(a) = Place(dll, S, a) BY Zenon DEF Place, LastOf, Prep!Backing
  <2>3. S = Over(dll, Len(dll.secs), a) BY <2>1, Zenon DEF Over
  <2> HIDE DEF S
  <2> QED BY <2>2, <2>3, Zenon DEF Held
<1>3. step = "done" => sidecar = [a \in 1 .. dll.image |-> Prep!Backing(a - 1)]
  <2> SUFFICES ASSUME step = "done" PROVE sidecar = [a \in 1 .. dll.image |-> Prep!Backing(a - 1)]
    OBVIOUS
  <2>1. sidecar = Built(dll, Len(dll.secs)) BY DEF PInv, PrepState, Whole
  <2> QED BY <1>2, <2>1, Zenon DEF Built
<1> QED BY <1>1, <1>3 DEF SidecarIsTheLoadedImage, Prep!SidecarIsTheLoadedImage

------------------------------------------------------------------------------
(* A run of either tool: the other one stays as if it were never there.      *)

ToolInv == (XInv /\ NoDll) \/ (PInv /\ NoElf)

(* The invariants of the two tools hold in every state of a run of either.   *)
THEOREM ToolInvariant == ToolSpec => []ToolInv
<1>1. ToolInit => ToolInv BY ExtractionSteps, PrepSteps DEF ToolInit, ToolInv
<1>2. ToolInv /\ [Extracting \/ Preparing]_<<vars, prepVars>> => ToolInv'
  <2> SUFFICES ASSUME ToolInv, [Extracting \/ Preparing]_<<vars, prepVars>> PROVE ToolInv'
    OBVIOUS
  <2>1. CASE XInv /\ NoDll
    <3>1. UNCHANGED prepVars /\ (Next \/ UNCHANGED vars)
      BY <2>1 DEF NoDll, Extracting, Preparing, vars, prepVars
    <3>2. XInv' BY <2>1, <3>1, ExtractionSteps
    <3>3. NoDll' BY <2>1, <3>1 DEF NoDll, prepVars
    <3> QED BY <3>2, <3>3 DEF ToolInv
  <2>2. CASE PInv /\ NoElf
    <3>1. UNCHANGED vars /\ (Prep!Next \/ UNCHANGED prepVars)
      BY <2>2 DEF NoElf, Extracting, Preparing, vars, prepVars
    <3>2. PInv' BY <2>2, <3>1, PrepSteps
    <3>3. NoElf' BY <2>2, <3>1 DEF NoElf, vars
    <3> QED BY <3>2, <3>3 DEF ToolInv
  <2> QED BY <2>1, <2>2 DEF ToolInv
<1> QED BY <1>1, <1>2, PTL DEF ToolSpec

(* What a finished preparation leaves is what a PE loader would build.       *)
THEOREM PreparesTheLoadedImage == ToolSpec => []SidecarIsTheLoadedImage
<1>1. ToolInv => SidecarIsTheLoadedImage
  BY PrepTells DEF ToolInv, NoDll, SidecarIsTheLoadedImage, Prep!SidecarIsTheLoadedImage
<1> QED BY <1>1, ToolInvariant, PTL

(* Only what load_pe would not take is refused, and the old sidecar stays.   *)
THEOREM RefusesOnlyTheUnloadable == ToolSpec => []RefusesOnlyUnloadable
<1>1. ToolInv => RefusesOnlyUnloadable
  BY PrepTells DEF ToolInv, NoDll, RefusesOnlyUnloadable, Prep!RefusesOnlyUnloadable
<1> QED BY <1>1, ToolInvariant, PTL

(* What is written is the symbol, byte for byte, for any object file.        *)
THEOREM ExtractsTheSymbol == ToolSpec => []BytesAreTheSymbol
<1>1. ToolInv => BytesAreTheSymbol BY DEF ToolInv, XInv, NoElf, BytesAreTheSymbol
<1> QED BY <1>1, ToolInvariant, PTL

(* Only an unsound object is refused, whatever the file holds.               *)
THEOREM RefusesOnlyTheUnsound == ToolSpec => []RefusesOnlyUnsound
<1>1. ToolInv => RefusesOnlyUnsound BY DEF ToolInv, XInv, NoElf, RefusesOnlyUnsound
<1> QED BY <1>1, ToolInvariant, PTL

(* The header is the old one or the whole new one.                           *)
THEOREM PublishesWhole == ToolSpec => []PublishedWhole
<1>1. ToolInv => PublishedWhole BY DEF ToolInv, XInv, NoElf, PublishedWhole
<1> QED BY <1>1, ToolInvariant, PTL
==============================================================================
