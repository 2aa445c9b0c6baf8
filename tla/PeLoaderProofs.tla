---------------------------- MODULE PeLoaderProofs ----------------------------
(***************************************************************************)
(* Proofs about the loader for every page size, preferred base and DLL.    *)
(* The range checks walk the section table, mmap builds the memory from    *)
(* it: `ReachesIff' says what such a walk finds, `MmapCells' and `OneMore' *)
(* what the memory becomes, and `MemoryTells' that both agree.             *)
(***************************************************************************)
EXTENDS PeLoader, MatchEngineProofs

------------------------------------------------------------------------------
(* Pages.                                                                    *)

\* A cell lies in its page.
LEMMA PageOf ==
  ASSUME NEW c \in Nat
  PROVE  /\ c \div Page \in Nat
         /\ Page * (c \div Page) <= c /\ c < Page * (c \div Page) + Page
<1>1. Page \in Nat \ {0} BY LoaderAssumption
<1>2. c \div Page \in Int /\ c \div Page >= 0 BY <1>1, SMT
<1>3. Page * (c \div Page) <= c BY <1>1, SMT
<1>4. c < Page * (c \div Page) + Page BY <1>1, SMT
<1> QED BY <1>2, <1>3, <1>4

\* Pages are in the order of their numbers.
LEMMA Times ==
  ASSUME NEW a \in Nat, NEW b \in Nat, a <= b
  PROVE  Page * a <= Page * b /\ Page * a \in Nat
<1>1. Page \in Nat BY LoaderAssumption
<1> QED BY <1>1, SMT

\* A page begins at or before a cell if its number is not above the cell's.
LEMMA PageBegins ==
  ASSUME NEW a \in Nat, NEW c \in Nat
  PROVE  Page * a <= c <=> a <= c \div Page
<1> DEFINE q == c \div Page
<1>1. q \in Nat /\ Page * q <= c /\ c < Page * q + Page BY PageOf
<1> HIDE DEF q
<1>2. Page \in Nat /\ Page * a \in Nat BY LoaderAssumption, Times
<1>3. a <= q => Page * a <= Page * q BY <1>1, Times
<1>4. ASSUME q < a PROVE c < Page * a
  <2>1. Page * (q + 1) <= Page * a BY <1>1, <1>4, Times
  <2>2. Page * (q + 1) = Page * q + Page BY <1>1, <1>2, SMT
  <2> QED BY <1>1, <1>2, <2>1, <2>2, SMT
<1>5. Page * q \in Nat BY <1>1, Times
<1>6. a <= q => Page * a <= c BY <1>1, <1>2, <1>3, <1>5, SMT
<1>7. ~(a <= q) => ~(Page * a <= c) BY <1>1, <1>2, <1>4, SMT
<1> QED BY <1>6, <1>7 DEF q

\* Rounding goes up to the next page.
LEMMA Rounding ==
  ASSUME NEW n \in Nat
  PROVE  /\ Rounded(n) \in Nat /\ n <= Rounded(n) /\ Rounded(n) < n + Page
         /\ \E r \in Nat : Rounded(n) = Page * r /\ (n > 0 => r > 0)
<1> DEFINE x == n + Page - 1   q == x \div Page
<1>1. Page \in Nat \ {0} /\ x \in Nat BY LoaderAssumption, SMT
<1>2. q \in Nat /\ Page * q <= x /\ x < Page * q + Page BY <1>1, PageOf
<1>3. Rounded(n) = q * Page BY DEF Rounded
<1> HIDE DEF q
<1>4. q * Page = Page * q /\ Page * q \in Nat BY <1>1, <1>2, SMT
<1>5. n <= Page * q /\ Page * q < n + Page BY <1>1, <1>2, <1>4, SMT
<1>6. n > 0 => q > 0
  <2>1. q = 0 => Page * q = 0 BY <1>1, SMT
  <2> QED BY <1>2, <1>5, <2>1, SMT
<1> QED BY <1>2, <1>3, <1>4, <1>5, <1>6

------------------------------------------------------------------------------
(* The ends of regions.                                                      *)

\* A bounded set of numbers has the maximum that Max chooses.
LEMMA Maximum ==
  ASSUME NEW S, S \subseteq Int, S # {}, NEW b \in Int, \A x \in S : x <= b
  PROVE  Max(S) \in S /\ \A y \in S : y <= Max(S)
<1> DEFINE T == {b - x : x \in S}
<1>1. T \subseteq Nat /\ T # {}
  <2>1. \A x \in S : b - x \in Nat BY SMT
  <2> QED BY <2>1, Zenon
<1> HIDE DEF T
<1>2. PICK m \in T : \A k \in T : m <= k BY <1>1, LeastNat
<1>3. PICK x \in S : m = b - x BY <1>2 DEF T
<1>4. \A y \in S : b - y \in T BY DEF T
<1>5. \A y \in S : x >= y BY <1>2, <1>3, <1>4, SMT
<1>6. \E z \in S : \A y \in S : z >= y BY <1>5
<1>7. Max(S) \in S /\ \A y \in S : Max(S) >= y BY <1>6, Zenon DEF Max
<1> QED BY <1>7, SMT

\* The furthest of a cursor and the limits it may jump to.
LEMMA FurthestIsMax ==
  ASSUME NEW c \in Nat, NEW L, L \subseteq Nat, NEW b \in Nat, \A x \in L : x <= b
  PROVE  /\ Furthest(c, L) \in {c} \cup L /\ Furthest(c, L) \in Nat
         /\ \A y \in {c} \cup L : y <= Furthest(c, L)
<1> DEFINE S == {c} \cup L   top == IF b < c THEN c ELSE b
<1>1. S \subseteq Int /\ S # {} /\ top \in Int /\ \A x \in S : x <= top BY SMT
<1> HIDE DEF S, top
<1>2. Max(S) \in S /\ \A y \in S : y <= Max(S) BY <1>1, Maximum
<1>3. Furthest(c, L) = Max(S) BY DEF Furthest, S
<1> QED BY <1>2, <1>3 DEF S

Section == [va : Nat, vsize : Nat, raw : Nat, ptr : Nat, exec : BOOLEAN, read : BOOLEAN]

\* A DLL whose tables passed the checks.
Sound(f) == f \in Files /\ HeaderInside(f) /\ SectionsInside(f)

\* The sizes of a section of a checked table.
LEMMA SectionFacts ==
  ASSUME NEW f, Sound(f), NEW s \in Sections(f)
  PROVE  /\ s \in Section /\ Span(s) \in Nat /\ Limit(s) \in Nat
         /\ s.va <= f.image /\ Span(s) <= f.image - s.va
         /\ Limit(s) <= f.image + Page /\ f.image \in Nat
         /\ Limit(s) = s.va + Rounded(Span(s)) /\ Rounded(Span(s)) \in Nat
<1>1. f.secs \in Seq(Section) /\ f.image \in Nat
  BY FileAssumption DEF Sound, Section
<1>2. s \in Section BY <1>1 DEF Sections
<1>3. s.va \in Nat /\ Span(s) \in Nat BY <1>2 DEF Section, Span
<1>4. s.va <= f.image /\ Span(s) <= f.image - s.va BY DEF Sound, SectionsInside
<1>5. Rounded(Span(s)) \in Nat /\ Rounded(Span(s)) < Span(s) + Page BY <1>3, Rounding
<1>6. Page \in Nat BY LoaderAssumption
<1> QED BY <1>1, <1>2, <1>3, <1>4, <1>5, <1>6, SMT DEF Limit

\* The sizes of checked headers.
LEMMA HeaderFacts ==
  ASSUME NEW f, Sound(f)
  PROVE  /\ f.hdr \in Nat \ {0} /\ f.image \in Nat \ {0}
         /\ Rounded(f.hdr) \in Nat /\ Rounded(f.hdr) > 0
<1>1. f.hdr \in Nat \ {0} /\ f.image \in Nat \ {0}
  BY FileAssumption DEF Sound, HeaderInside
<1> QED BY <1>1, Rounding, SMT

\* Where the region a cell is in ends, as far as the range check sees; all of
\* it is mapped, and it is empty where nothing is.
LEMMA Region ==
  ASSUME NEW f, Sound(f), NEW c \in Nat
  PROVE  /\ RegionEnd(f, c) \in Nat
         /\ RegionEnd(f, c) > c <=> IsMapped(f, c)
         /\ \A x \in c .. RegionEnd(f, c) - 1 : IsMapped(f, x)
<1> DEFINE L == {Limit(s) : s \in Covering(f, c)}   e == RegionEnd(f, c)
<1>1. Rounded(f.hdr) \in Nat BY HeaderFacts
<1>2. CASE c < Rounded(f.hdr)
  <2>1. e = Rounded(f.hdr) BY <1>2 DEF RegionEnd
  <2>2. \A x \in c .. Rounded(f.hdr) - 1 : x \in 0 .. Rounded(f.hdr) - 1 BY <1>1, SMT
  <2>3. c \in 0 .. Rounded(f.hdr) - 1 BY <1>1, <1>2, SMT
  <2> QED BY <1>1, <1>2, <2>1, <2>2, <2>3, Zenon DEF IsMapped
<1>3. CASE ~(c < Rounded(f.hdr))
  <2>1. e = Furthest(c, L) BY <1>3 DEF RegionEnd
  <2>2. \A s \in Covering(f, c) : s \in Sections(f) /\ s.va <= c /\ c < Limit(s)
    BY DEF Covering
  <2>3. f.image + Page \in Nat BY HeaderFacts, LoaderAssumption
  <2>4. \A s \in Covering(f, c) : Limit(s) \in Nat /\ Limit(s) <= f.image + Page /\ s.va \in Nat
    BY <2>2, SectionFacts DEF Section
  <2>5. L \subseteq Nat /\ \A x \in L : x <= f.image + Page BY <2>4
  <2>6. e \in {c} \cup L /\ e \in Nat /\ \A y \in {c} \cup L : y <= e
    <3> HIDE DEF L, e
    <3> QED BY <2>1, <2>3, <2>5, FurthestIsMax
  <2>7. c \notin 0 .. Rounded(f.hdr) - 1 BY <1>1, <1>3
  <2> HIDE DEF e
  <2>8. CASE Covering(f, c) = {}
    <3>1. e = c /\ ~IsMapped(f, c) BY <2>6, <2>7, <2>8 DEF IsMapped
    <3>2. \A x \in c .. e - 1 : FALSE BY <3>1, SMT
    <3> QED BY <2>6, <3>1, <3>2, SMT DEF e
  <2>9. CASE Covering(f, c) # {}
    <3>1. \A y \in L : y > c /\ y \in Nat BY <2>2, <2>4
    <3>2. PICK s \in Covering(f, c) : Limit(s) = e
      <4>1. PICK s0 \in Covering(f, c) : TRUE BY <2>9
      <4>2. Limit(s0) \in L OBVIOUS
      <4>3. e # c BY <2>6, <3>1, <4>2, SMT
      <4>4. e \in L BY <2>6, <4>3
      <4> QED BY <4>4
    <3>3. e > c BY <2>2, <2>4, <2>6, <3>2, SMT
    <3>4. ASSUME NEW x \in c .. e - 1 PROVE IsMapped(f, x)
      <4>1. s.va <= x /\ x < Limit(s) BY <2>2, <2>4, <2>6, <3>2, <3>4, SMT
      <4>2. s \in Covering(f, x) BY <2>2, <4>1 DEF Covering
      <4> QED BY <4>2 DEF IsMapped
    <3> QED BY <2>6, <2>9, <3>3, <3>4 DEF e, IsMapped
  <2> QED BY <2>8, <2>9
<1> QED BY <1>2, <1>3

------------------------------------------------------------------------------
(* The loops of the range checks.                                            *)

\* The cursor reaches the end exactly if no cell on its way is a dead end,
\* provided no region that it is moved over holds one.
LEMMA ReachesIff ==
  ASSUME NEW o \in Nat, NEW end \in Nat, o <= end, NEW next,
         \A c \in o .. end : next[c] \in Nat,
         \A c \in o .. end - 1 : \A x \in c .. next[c] - 1 : x < end => next[x] > x
  PROVE  Reaches(next, o, end) <=> \A x \in o .. end - 1 : next[x] > x
<1> DEFINE Along(g) == [c \in o .. end |->
                          c = end \/ (next[c] > c /\ g[Least(next[c], end)])]
           W == [c \in o .. end |-> \A x \in c .. end - 1 : next[x] > x]
           F == CHOOSE g : g = Along(g)
<1>1. \A c \in o .. end - 1 : next[c] > c =>
        Least(next[c], end) \in o .. end /\ Least(next[c], end) > c
  BY SMT DEF Least
<1>2. W = Along(W)
  <2>1. ASSUME NEW c \in o .. end
        PROVE  (\A x \in c .. end - 1 : next[x] > x)
                 = (c = end \/ (next[c] > c /\ W[Least(next[c], end)]))
    <3>1. CASE c = end
      <4>1. \A x \in c .. end - 1 : FALSE BY <3>1, SMT
      <4> QED BY <3>1, <4>1
    <3>2. CASE c # end /\ ~(next[c] > c)
      <4>1. c \in c .. end - 1 BY <3>2, SMT
      <4> QED BY <3>2, <4>1, Zenon
    <3>3. CASE c # end /\ next[c] > c
      <4> DEFINE m == Least(next[c], end)
      <4>1. c \in o .. end - 1 BY <3>3, SMT
      <4>2. m \in o .. end /\ m > c BY <1>1, <3>3, <4>1
      <4>3. m <= next[c] BY <4>1, SMT DEF Least
      <4>4. W[m] = \A x \in m .. end - 1 : next[x] > x BY <4>2, Zenon
      <4> HIDE DEF m, W
      <4>5. \A x \in m .. end - 1 : x \in c .. end - 1 BY <4>2, SMT
      <4>6. \A x \in c .. end - 1 : x \in m .. end - 1 \/ x \in c .. next[c] - 1
        BY <4>1, <4>2, <4>3, SMT
      <4>7. \A x \in c .. end - 1 : x < end BY SMT
      <4>8. W[m] => \A x \in c .. end - 1 : next[x] > x
        BY <4>1, <4>4, <4>6, <4>7, Zenon
      <4>9. (\A x \in c .. end - 1 : next[x] > x) => W[m]
        BY <4>4, <4>5, Zenon
      <4>10. W[m] \in BOOLEAN BY <4>4
      <4> QED BY <3>3, <4>8, <4>9, <4>10, Zenon DEF m
    <3> QED BY <3>1, <3>2, <3>3
  <2> DEFINE V(c) == \A x \in c .. end - 1 : next[x] > x
             A(c) == c = end \/ (next[c] > c /\ W[Least(next[c], end)])
  <2>2. \A c \in o .. end : V(c) = A(c) BY <2>1
  <2>3. W = [c \in o .. end |-> V(c)] OBVIOUS
  <2>4. Along(W) = [c \in o .. end |-> A(c)] OBVIOUS
  <2> HIDE DEF W, Along, V, A
  <2> QED BY <2>2, <2>3, <2>4, Zenon
<1>3. F = Along(F)
  <2> HIDE DEF W, Along
  <2> QED BY <1>2, Zenon DEF F
<1>4. Reaches(next, o, end) = F[o] BY Zenon DEF Reaches
<1> HIDE DEF F
<1>5. \A c \in o .. end :
        /\ F[c] = (c = end \/ (next[c] > c /\ F[Least(next[c], end)]))
        /\ W[c] = (c = end \/ (next[c] > c /\ W[Least(next[c], end)]))
  <2>1. \A g : g = Along(g) => \A c \in o .. end :
          g[c] = (c = end \/ (next[c] > c /\ g[Least(next[c], end)]))
    BY Zenon
  <2> HIDE DEF W, Along
  <2> QED BY <1>2, <1>3, <2>1, Zenon
<1>6. W[o] = \A x \in o .. end - 1 : next[x] > x
  <2>1. o \in o .. end BY SMT
  <2> QED BY <2>1, Zenon
<1> HIDE DEF W, Along
<1>7. F[o] = W[o]
  <2> DEFINE D == {c \in o .. end : F[c] # W[c]}
             T == {end - c : c \in D}
  <2>1. SUFFICES ASSUME D # {} PROVE FALSE
    <3>1. o \in o .. end BY SMT
    <3> QED BY <2>1, <3>1
  <2>2. T \subseteq Nat
    <3>1. \A c \in D : end - c \in Nat BY SMT
    <3> QED BY <3>1, Zenon
  <2>3. T # {} BY <2>1
  <2> HIDE DEF T
  <2>4. PICK m \in T : \A k \in T : m <= k BY <2>2, <2>3, LeastNat
  <2>5. PICK c \in D : m = end - c BY <2>4 DEF T
  <2>6. \A y \in D : end - y \in T BY DEF T
  <2>7. c \in o .. end /\ F[c] # W[c] OBVIOUS
  <2>8. \A y \in o .. end : y > c => F[y] = W[y]
    <3>1. \A y \in D : y <= c BY <2>4, <2>5, <2>6, SMT
    <3>2. \A y \in o .. end : y > c => y \notin D BY <2>7, <3>1, SMT
    <3> QED BY <3>2
  <2> HIDE DEF D
  <2>9. c # end BY <1>5, <2>7, Zenon
  <2>10. next[c] > c BY <1>5, <2>7, Zenon
  <2>11. c \in o .. end - 1 BY <2>7, <2>9, SMT
  <2>12. F[Least(next[c], end)] = W[Least(next[c], end)]
    BY <1>1, <2>8, <2>10, <2>11, Zenon
  <2> QED BY <1>5, <2>7, <2>12, Zenon
<1> QED BY <1>4, <1>6, <1>7, Zenon

LEMMA Prefix ==
  ASSUME NEW f, Sound(f), NEW o \in Nat, NEW end \in Nat,
         NEW next, next = [c \in o .. end |-> RegionEnd(f, c)]
  PROVE  /\ \A c \in o .. end : next[c] \in Nat
         /\ \A c \in o .. end - 1 :
              \A x \in c .. next[c] - 1 : x < end => next[x] > x
         /\ \A c \in o .. end - 1 : next[c] > c <=> IsMapped(f, c)
<1>1. \A c \in o .. end : next[c] = RegionEnd(f, c) /\ c \in Nat BY SMT
<1>2. \A c \in o .. end : next[c] \in Nat BY <1>1, Region
<1>3. \A c \in o .. end - 1 : c \in o .. end BY SMT
<1>4. \A c \in o .. end - 1 : next[c] > c <=> IsMapped(f, c) BY <1>1, <1>3, Region
<1>5. ASSUME NEW c \in o .. end - 1, NEW x \in c .. next[c] - 1, x < end
      PROVE  next[x] > x
  <2>1. x \in o .. end - 1 BY <1>5, SMT
  <2>2. IsMapped(f, x) BY <1>1, <1>3, Region
  <2> QED BY <1>4, <2>1, <2>2
<1> QED BY <1>2, <1>4, <1>5

\* What the range check says, in terms of the section table.
LEMMA RangeChecked ==
  ASSUME NEW f, Sound(f), NEW o \in Nat, NEW n \in Nat
  PROVE  image_range(f, o, n)
           <=> o + n <= f.image /\ \A c \in o .. o + n - 1 : IsMapped(f, c)
<1> DEFINE next == [c \in o .. o + n |-> RegionEnd(f, c)]
<1>1. f.image \in Nat BY HeaderFacts
<1>2. o + n \in Nat /\ o <= o + n BY SMT
<1>3. /\ \A c \in o .. o + n : next[c] \in Nat
      /\ \A c \in o .. o + n - 1 :
           \A x \in c .. next[c] - 1 : x < o + n => next[x] > x
      /\ \A c \in o .. o + n - 1 : next[c] > c <=> IsMapped(f, c)
  <2>1. next = [c \in o .. o + n |-> RegionEnd(f, c)] OBVIOUS
  <2> HIDE DEF next
  <2> QED BY <1>2, <2>1, Prefix
<1>4. image_range(f, o, n) <=>
        o <= f.image /\ n <= f.image - o /\ Reaches(next, o, o + n)
  BY DEF image_range
<1> HIDE DEF next
<1>5. Reaches(next, o, o + n) <=> \A x \in o .. o + n - 1 : next[x] > x
  BY <1>2, <1>3, ReachesIff
<1>6. o <= f.image /\ n <= f.image - o <=> o + n <= f.image BY <1>1, SMT
<1> QED BY <1>3, <1>4, <1>5, <1>6, Zenon

\* One cell, as most callers ask.
LEMMA CellChecked ==
  ASSUME NEW f, Sound(f), NEW o \in Nat, image_range(f, o, 1)
  PROVE  o < f.image /\ IsMapped(f, o)
<1>1. o + 1 <= f.image /\ \A c \in o .. o + 1 - 1 : IsMapped(f, c) BY RangeChecked
<1>2. f.image \in Nat BY HeaderFacts
<1>3. o \in o .. o + 1 - 1 BY SMT
<1> QED BY <1>1, <1>2, <1>3, SMT

\* A name is only looked for where something is mapped.
LEMMA NameChecked ==
  ASSUME NEW f, Sound(f), NEW o \in Nat
  PROVE  /\ readable_range_length(f, o) \in Nat
         /\ \A c \in o .. o + readable_range_length(f, o) - 1 : IsMapped(f, c)
<1> DEFINE header == IF o < Rounded(f.hdr) THEN {Rounded(f.hdr)} ELSE {}
           R == {x \in Covering(f, o) : x.read}
           L == {Limit(s) : s \in R} \cup header
           e == Furthest(o, L)
           len == readable_range_length(f, o)
<1>1. CASE ~image_range(f, o, 1)
  <2>1. len = 0 BY <1>1 DEF readable_range_length
  <2>2. \A c \in o .. o + 0 - 1 : FALSE BY SMT
  <2> QED BY <2>1, <2>2
<1>2. CASE image_range(f, o, 1)
  <2>1. len = e - o BY <1>2 DEF readable_range_length
  <2>2. /\ Rounded(f.hdr) \in Nat
        /\ f.image + Page + Rounded(f.hdr) \in Nat
        /\ Rounded(f.hdr) <= f.image + Page + Rounded(f.hdr)
    <3>1. Rounded(f.hdr) \in Nat /\ f.image \in Nat /\ Page \in Nat
      BY HeaderFacts, LoaderAssumption
    <3> QED BY <3>1, SMT
  <2>3. \A s \in R : /\ s \in Sections(f) /\ s.va <= o /\ o < Limit(s)
                     /\ Limit(s) \in Nat /\ s.va \in Nat
                     /\ Limit(s) <= f.image + Page + Rounded(f.hdr)
    <3>1. \A s \in R : s \in Sections(f) /\ s.va <= o /\ o < Limit(s)
      BY DEF Covering
    <3>2. \A s \in R : Limit(s) \in Nat /\ s.va \in Nat /\ Limit(s) <= f.image + Page
      BY <3>1, SectionFacts DEF Section
    <3>3. f.image \in Nat /\ Page \in Nat BY HeaderFacts, LoaderAssumption
    <3> QED BY <2>2, <3>1, <3>2, <3>3, SMT
  <2>4. L \subseteq Nat /\ \A x \in L : x <= f.image + Page + Rounded(f.hdr)
    BY <2>2, <2>3
  <2>5. e \in {o} \cup L /\ e \in Nat /\ \A y \in {o} \cup L : y <= e
    <3> HIDE DEF L
    <3> QED BY <2>2, <2>4, FurthestIsMax
  <2>6. \A c \in o .. e - 1 : IsMapped(f, c)
    <3>1. CASE e = o
      <4>1. \A c \in o .. e - 1 : FALSE BY <3>1, SMT
      <4> QED BY <4>1
    <3>2. CASE e \in header
      <4>1. e = Rounded(f.hdr) BY <3>2
      <4>2. \A c \in o .. e - 1 : c \in 0 .. Rounded(f.hdr) - 1 BY <2>2, <4>1, SMT
      <4> QED BY <4>2 DEF IsMapped
    <3>3. CASE \E s \in R : e = Limit(s)
      <4>1. PICK s \in R : e = Limit(s) BY <3>3
      <4>2. \A c \in o .. e - 1 : s.va <= c /\ c < Limit(s)
        <5> HIDE DEF e, R
        <5> QED BY <2>3, <4>1, SMT
      <4>3. \A c \in o .. e - 1 : s \in Covering(f, c) BY <2>3, <4>2 DEF Covering
      <4> QED BY <4>3 DEF IsMapped
    <3> QED BY <2>5, <3>1, <3>2, <3>3
  <2>7. e - o \in Nat /\ o + (e - o) - 1 = e - 1
    <3>1. o <= e BY <2>5
    <3> HIDE DEF e
    <3> QED BY <2>5, <3>1, SMT
  <2> QED BY <2>1, <2>6, <2>7
<1> QED BY <1>1, <1>2

------------------------------------------------------------------------------
(* The memory.                                                               *)

Pages(f) == 0 .. (Rounded(f.image) \div Page) - 1
Cells(f) == 0 .. Rounded(f.image) - 1

\* A page's first cell has its number.
LEMMA PageNumber ==
  ASSUME NEW r \in Nat
  PROVE  (Page * r) \div Page = r /\ Page * r \in Nat
<1>1. Page * r \in Nat BY Times
<1>2. (Page * r) \div Page \in Nat BY <1>1, PageOf
<1>3. Page * r <= Page * r <=> r <= (Page * r) \div Page BY <1>1, PageBegins
<1>4. r + 1 \in Nat BY SMT
<1>5. Page * (r + 1) <= Page * r <=> r + 1 <= (Page * r) \div Page
  BY <1>1, <1>4, PageBegins
<1>6. Page * (r + 1) > Page * r
  <2>1. Page \in Nat \ {0} BY LoaderAssumption
  <2> QED BY <2>1, SMT
<1>7. Page * (r + 1) \in Nat BY <1>4, Times
<1> DEFINE q == (Page * r) \div Page   x == Page * r   y == Page * (r + 1)
<1> HIDE DEF q, x, y
<1>8. r <= q /\ ~(r + 1 <= q)
  <2>1. x \in Nat /\ y \in Nat /\ y > x BY <1>1, <1>6, <1>7 DEF x, y
  <2>2. (x <= x <=> r <= q) /\ (y <= x <=> r + 1 <= q) BY <1>3, <1>5 DEF x, y, q
  <2> QED BY <2>1, <2>2, SMT
<1>9. q = r BY <1>2, <1>8, SMT DEF q
<1> QED BY <1>1, <1>9 DEF q

\* The pages of the reservation are those of its cells.
LEMMA PageInside ==
  ASSUME NEW f, f.image \in Nat, NEW c \in Int
  PROVE  c \div Page \in Pages(f) <=> c \in Cells(f)
<1>1. PICK r \in Nat : Rounded(f.image) = Page * r BY Rounding
<1>2. Rounded(f.image) \div Page = r /\ Rounded(f.image) \in Nat BY <1>1, PageNumber
<1>3. CASE c >= 0
  <2>1. c \in Nat BY <1>3
  <2>2. c \div Page \in Nat BY <2>1, PageOf
  <2>3. Page * r <= c <=> r <= c \div Page BY <2>1, PageBegins
  <2> QED BY <1>1, <1>2, <2>1, <2>2, <2>3, SMT DEF Pages, Cells
<1>4. CASE c < 0
  <2>1. c \div Page < 0
    <3>1. Page \in Nat \ {0} BY LoaderAssumption
    <3> QED BY <1>4, <3>1, SMT
  <2> QED BY <1>4, <2>1, SMT DEF Pages, Cells
<1> QED BY <1>3, <1>4, SMT

\* mmap changes exactly the cells of its range, which is whole pages.
LEMMA MmapCells ==
  ASSUME NEW a \in Nat, NEW r \in Nat \ {0}, NEW prot,
         Mmap(Page * a, Page * r, prot)
  PROVE  /\ DOMAIN mem' = DOMAIN mem
         /\ \A c \in Nat : c \div Page \in DOMAIN mem =>
              Protection(c)' = IF Page * a <= c /\ c < Page * a + Page * r
                               THEN prot ELSE Protection(c)
<1> DEFINE o == Page * a   n == Page * r   last == (o + n - 1) \div Page
           taken == o \div Page .. last
<1>1. mem' = [p \in DOMAIN mem |-> IF p \in taken THEN prot ELSE mem[p]]
  BY DEF Mmap
<1>2. o \in Nat /\ o \div Page = a BY PageNumber
<1>3. n \in Nat /\ n >= Page /\ Page \in Nat \ {0} /\ o + n = Page * (a + r)
  <2>1. Page * 1 <= Page * r BY Times
  <2>2. Page \in Nat \ {0} BY LoaderAssumption
  <2>3. n \in Nat BY Times
  <2>4. Page * (a + r) = Page * a + Page * r BY <2>2, SMT
  <2> QED BY <2>1, <2>2, <2>3, <2>4, SMT
<1> HIDE DEF o, n
<1>4. o + n - 1 \in Nat BY <1>2, <1>3, SMT
<1>5. last \in Nat BY <1>4, PageOf
<1>6. last = a + r - 1
  <2>1. ~(a + r <= last)
    <3>1. Page * (a + r) <= o + n - 1 <=> a + r <= last BY <1>4, PageBegins
    <3> QED BY <1>2, <1>3, <3>1, SMT
  <2>2. a + r - 1 <= last
    <3>1. a + r - 1 \in Nat BY SMT
    <3>2. Page * (a + r - 1) <= o + n - 1 <=> a + r - 1 <= last
      BY <1>4, <3>1, PageBegins
    <3>3. Page * (a + r - 1) = Page * (a + r) - Page BY <1>3, SMT
    <3> QED BY <1>2, <1>3, <3>2, <3>3, SMT
  <2> QED BY <1>5, <2>1, <2>2, SMT
<1> HIDE DEF last
<1>7. ASSUME NEW c \in Nat
      PROVE  c \div Page \in taken <=> o <= c /\ c < o + n
  <2>1. c \div Page \in Nat BY PageOf
  <2>2. o <= c <=> a <= c \div Page BY PageBegins DEF o
  <2>3. o + n <= c <=> a + r <= c \div Page BY <1>3, PageBegins
  <2> QED BY <1>2, <1>3, <1>6, <2>1, <2>2, <2>3, SMT
<1> HIDE DEF taken
<1>8. ASSUME NEW c \in Nat, c \div Page \in DOMAIN mem
      PROVE  Protection(c)' = IF o <= c /\ c < o + n THEN prot ELSE Protection(c)
  <2>1. Protection(c)' = mem'[c \div Page] BY <1>1, <1>8 DEF Protection
  <2>2. Protection(c) = mem[c \div Page] BY <1>8 DEF Protection
  <2>3. mem'[c \div Page] = IF c \div Page \in taken THEN prot ELSE mem[c \div Page]
    BY <1>1, <1>8
  <2> QED BY <1>7, <2>1, <2>2, <2>3
<1> QED BY <1>1, <1>8 DEF o, n

\* What mapping the header and the first k sections leaves: the section mapped
\* last decides.
MappedBy(f, k, c) == {j \in 1 .. k : f.secs[j] \in Covering(f, c)}
ProtectionOf(f, k, c) ==
  IF MappedBy(f, k, c) # {}
  THEN IF f.secs[Max(MappedBy(f, k, c))].exec THEN "rx" ELSE "rw"
  ELSE IF c < Rounded(f.hdr) THEN "r" ELSE "none"

\* The mapping of a section was refused unless it is in the image's pages.
Fits(f, s) == Span(s) = 0 \/ (s.va % Page = 0 /\ Limit(s) <= f.image)
Placed(f, k) == Rounded(f.hdr) <= f.image /\ \A j \in 1 .. k : Fits(f, f.secs[j])
LaidOut(f, k) ==
  /\ DOMAIN mem = Pages(f)
  /\ \A c \in Cells(f) : Protection(c) = ProtectionOf(f, k, c)

\* A checked table, entry by entry.
LEMMA TableFacts ==
  ASSUME NEW f, Sound(f)
  PROVE  /\ f.secs \in Seq(Section) /\ Len(f.secs) \in Nat
         /\ DOMAIN f.secs = 1 .. Len(f.secs)
         /\ \A k \in 1 .. Len(f.secs) : f.secs[k] \in Sections(f)
<1>1. f.secs \in Seq(Section) BY FileAssumption DEF Sound, Section
<1> QED BY <1>1 DEF Sections

\* One section more: it decides its own cells and no other.
LEMMA OneMore ==
  ASSUME NEW f, Sound(f), NEW k \in 1 .. Len(f.secs), NEW c \in Nat
  PROVE  LET s == f.secs[k] IN
         ProtectionOf(f, k, c) = IF s.va <= c /\ c < Limit(s)
                                 THEN IF s.exec THEN "rx" ELSE "rw"
                                 ELSE ProtectionOf(f, k - 1, c)
<1> DEFINE s == f.secs[k]   H == MappedBy(f, k, c)   G == MappedBy(f, k - 1, c)
<1>1. s \in Covering(f, c) <=> s.va <= c /\ c < Limit(s)
  BY TableFacts DEF Covering
<1>2. k \in Nat /\ k \in 1 .. k BY TableFacts, SMT
<1>3. \A j \in 1 .. k : j \in 1 .. k - 1 \/ j = k BY <1>2, SMT
<1>4. \A j \in 1 .. k - 1 : j \in 1 .. k BY <1>2, SMT
<1>5. CASE s \in Covering(f, c)
  <2>1. k \in H BY <1>2, <1>5 DEF MappedBy
  <2>2. H \subseteq Int /\ \A x \in H : x <= k BY <1>2, SMT DEF MappedBy
  <2> HIDE DEF H
  <2>3. Max(H) \in H /\ \A y \in H : y <= Max(H) BY <1>2, <2>1, <2>2, Maximum
  <2>4. k <= Max(H) /\ Max(H) <= k /\ Max(H) \in Int BY <2>1, <2>2, <2>3
  <2>5. Max(H) = k BY <1>2, <2>4, SMT
  <2>6. ProtectionOf(f, k, c) = IF s.exec THEN "rx" ELSE "rw"
    BY <2>1, <2>5, Zenon DEF ProtectionOf, H
  <2> QED BY <1>1, <1>5, <2>6
<1>6. CASE s \notin Covering(f, c)
  <2>1. H = G BY <1>3, <1>4, <1>6 DEF MappedBy
  <2>2. ProtectionOf(f, k, c) = ProtectionOf(f, k - 1, c)
    BY <2>1, Zenon DEF ProtectionOf
  <2> QED BY <1>1, <1>6, <2>2
<1> QED BY <1>5, <1>6

\* A section without memory has no cells.
LEMMA EmptySection ==
  ASSUME NEW f, Sound(f), NEW s \in Sections(f), Span(s) = 0
  PROVE  Limit(s) = s.va /\ s.va \in Nat
<1>1. PICK r \in Nat : Rounded(0) = Page * r BY Rounding
<1>2. Rounded(0) \in Nat /\ Rounded(0) < Page BY Rounding, LoaderAssumption, SMT
<1>3. r = 0
  <2>1. r > 0 => Page * 1 <= Page * r BY Times
  <2>2. Page * 1 = Page /\ Page \in Nat BY LoaderAssumption, SMT
  <2> QED BY <1>1, <1>2, <2>1, <2>2, SMT
<1>4. Page * 0 = 0 BY LoaderAssumption, SMT
<1>5. Rounded(0) = 0 BY <1>1, <1>3, <1>4
<1>6. s.va \in Nat BY SectionFacts DEF Section
<1> QED BY <1>5, <1>6 DEF Limit

\* Where the table says a cell is mapped, it is in the image's own pages.
LEMMA WithinImage ==
  ASSUME NEW f, Sound(f), Placed(f, Len(f.secs)), NEW c \in Int, IsMapped(f, c)
  PROVE  c \in Cells(f)
<1>1. /\ Rounded(f.hdr) \in Nat /\ f.image \in Nat /\ f.image <= Rounded(f.image)
      /\ Rounded(f.hdr) <= f.image /\ Rounded(f.image) \in Nat
  BY HeaderFacts, Rounding DEF Placed
<1>2. CASE c \in 0 .. Rounded(f.hdr) - 1
  BY <1>1, <1>2, SMT DEF Cells
<1>3. CASE Covering(f, c) # {}
  <2>1. PICK s \in Sections(f) : s.va <= c /\ c < Limit(s) BY <1>3 DEF Covering
  <2>2. PICK k \in 1 .. Len(f.secs) : s = f.secs[k] BY TableFacts DEF Sections
  <2>3. Fits(f, s) BY <2>2 DEF Placed
  <2>4. s.va \in Nat /\ Limit(s) \in Nat BY SectionFacts DEF Section
  <2>5. Span(s) # 0
    <3>1. ASSUME Span(s) = 0 PROVE FALSE
      <4>1. Limit(s) = s.va BY <3>1, EmptySection
      <4> QED BY <2>1, <2>4, <4>1, SMT
    <3> QED BY <3>1
  <2>6. Limit(s) <= f.image BY <2>3, <2>5 DEF Fits
  <2> QED BY <1>1, <2>1, <2>4, <2>6, SMT DEF Cells
<1> QED BY <1>2, <1>3 DEF IsMapped

\* When all is mapped, the protection of a cell says what the table says of it.
LEMMA MemoryTells ==
  ASSUME NEW f, Sound(f), Placed(f, Len(f.secs)), LaidOut(f, Len(f.secs)), NEW c \in Int
  PROVE  /\ Protection(c) \in Readable <=> IsMapped(f, c)
         /\ Protection(c) = "rw" <=> IsData(f, c)
         /\ Protection(c) = "rx" <=> IsCode(f, c)
<1> DEFINE H == MappedBy(f, Len(f.secs), c)
<1>1. H = {k \in DOMAIN f.secs : f.secs[k] \in Covering(f, c)}
  BY TableFacts DEF MappedBy
<1>2. H # {} <=> Covering(f, c) # {}
  BY <1>1, TableFacts DEF Covering, Sections
<1>3. f.image \in Nat /\ Rounded(f.hdr) \in Nat /\ Rounded(f.image) \in Nat
  BY HeaderFacts, Rounding
<1>4. CASE c \in Cells(f)
  <2>1. Protection(c) = ProtectionOf(f, Len(f.secs), c) BY <1>4 DEF LaidOut
  <2>2. c \in 0 .. Rounded(f.hdr) - 1 <=> c < Rounded(f.hdr)
    BY <1>3, <1>4, SMT DEF Cells
  <2>3. IsCode(f, c) <=> H # {} /\ f.secs[Max(H)].exec BY <1>1, <1>2, Zenon DEF IsCode
  <2>4. IsData(f, c) <=> H # {} /\ ~f.secs[Max(H)].exec BY <1>2, <2>3, Zenon DEF IsData
  <2>5. IsMapped(f, c) <=> c < Rounded(f.hdr) \/ H # {} BY <1>2, <2>2, Zenon DEF IsMapped
  <2> HIDE DEF H
  <2>6. Protection(c) = IF H # {} THEN IF f.secs[Max(H)].exec THEN "rx" ELSE "rw"
                        ELSE IF c < Rounded(f.hdr) THEN "r" ELSE "none"
    BY <2>1, Zenon DEF ProtectionOf, H
  <2> DEFINE x == f.secs[Max(H)].exec   h == c < Rounded(f.hdr)   e == H # {}
  <2> HIDE DEF x, h, e
  <2>7. Protection(c) = IF e THEN IF x THEN "rx" ELSE "rw" ELSE IF h THEN "r" ELSE "none"
    BY <2>6, Zenon DEF x, h, e
  <2>8. /\ Protection(c) \in Readable <=> h \/ e
        /\ Protection(c) = "rw" <=> e /\ ~x
        /\ Protection(c) = "rx" <=> e /\ x
    BY <2>7, SMT DEF Readable
  <2> QED BY <2>3, <2>4, <2>5, <2>8, Zenon DEF x, h, e
<1>5. CASE c \notin Cells(f)
  <2>1. ~IsMapped(f, c) BY <1>5, WithinImage
  <2>2. ~IsCode(f, c) /\ ~IsData(f, c) BY <2>1 DEF IsMapped, IsCode, IsData
  <2>3. Protection(c) = "absent" BY <1>3, <1>5, PageInside DEF LaidOut, Protection
  <2> QED BY <2>1, <2>2, <2>3 DEF Readable
<1> QED BY <1>4, <1>5

------------------------------------------------------------------------------
(* The inductive invariant.                                                  *)

Unreserved == pc \in {"check", "sidecar", "reserve"}
Going == pc \notin {"returned", "crashed"}

\* How a call may have ended: what it returned against how far it came.
Ended == ret \in -4 .. 0 /\ (mem = <<>> => ~armed) /\ (~armed => ret = -1)

\* Past the checks the table is sound.
Table == file \in Files /\ (pc \notin {"check", "returned"} => Sound(file))

\* The memory is what the steps so far made it.
Memory ==
  /\ Unreserved => mem = <<>>
  /\ Going /\ ~Unreserved => mem # <<>>
  /\ pc = "headers" => /\ DOMAIN mem = Pages(file)
                       /\ \A c \in Cells(file) : Protection(c) = "none"
  /\ pc = "sections" => /\ at <= Len(file.secs) + 1
                        /\ Placed(file, at - 1) /\ LaidOut(file, at - 1)
  /\ Mapped => Placed(file, Len(file.secs)) /\ LaidOut(file, Len(file.secs))

Progress ==
  /\ pc = "callbacks" => file.tls.at # 0
  /\ Going => ret = 0 /\ (armed <=> pc \in {"entry", "export", "attach"})
  /\ pc = "returned" => Ended

LInv == TypeOK /\ Table /\ Memory /\ Progress /\ CrashIsUnchecked

LEMMA LInvInit == Init => LInv
<1> SUFFICES ASSUME Init PROVE LInv OBVIOUS
<1>1. /\ file \in Files /\ pc = "check" /\ at = 1 /\ mem = <<>> /\ armed = FALSE
      /\ entered = {} /\ slots = {} /\ ret = 0
  BY DEF Init
<1>2. TypeOK
  <2>1. DOMAIN mem = {} BY <1>1
  <2>2. DOMAIN mem \subseteq Nat /\ \A p \in DOMAIN mem : mem[p] \in {"none"} \cup Readable
    BY <2>1, Zenon
  <2>3. ret \in -4 .. 0 /\ at \in Nat \ {0} BY <1>1, SMT
  <2> QED BY <1>1, <2>2, <2>3, Zenon DEF TypeOK, Steps
<1>3. Table BY <1>1 DEF Table
<1>4. Memory BY <1>1 DEF Memory, Unreserved, Mapped
<1>5. Progress BY <1>1 DEF Progress, Going
<1>6. CrashIsUnchecked BY <1>1 DEF CrashIsUnchecked
<1> QED BY <1>2, <1>3, <1>4, <1>5, <1>6 DEF LInv

\* A DLL's own facts are kept by every step, which leaves the file alone.
LEMMA CheckHeadersKeeps ==
  ASSUME LInv, CheckHeaders PROVE LInv'
<1> USE DEF CheckHeaders, Goto, Return, LInv
<1>1. /\ pc = "check" /\ mem = <<>> /\ ~armed /\ ret = 0
      /\ UNCHANGED <<file, mem, armed, entered, slots>>
  BY DEF Memory, Unreserved, Progress, Going
<1>2. CASE pc' = "sidecar"
  <2>1. Sound(file) /\ at' = 1 /\ ret' = ret BY <1>2 DEF Table, Sound
  <2>2. TypeOK' BY <1>1, <1>2, <2>1 DEF TypeOK, Steps
  <2>3. Table' BY <1>1, <2>1 DEF Table, Sound
  <2>4. Memory' BY <1>1, <1>2 DEF Memory, Unreserved, Mapped
  <2>5. Progress' BY <1>1, <1>2, <2>1 DEF Progress, Going
  <2> QED BY <1>2, <2>2, <2>3, <2>4, <2>5 DEF CrashIsUnchecked
<1>3. CASE pc' = "returned" /\ ret' = -1 /\ at' = at
  <2>1. TypeOK' BY <1>1, <1>3 DEF TypeOK, Steps
  <2>2. Table' /\ Memory' BY <1>1, <1>3 DEF Table, Memory, Unreserved, Going, Mapped
  <2>3. Progress' BY <1>1, <1>3 DEF Progress, Going, Ended
  <2> QED BY <1>3, <2>1, <2>2, <2>3 DEF CrashIsUnchecked
<1> QED BY <1>2, <1>3

LEMMA OpenSidecarKeeps ==
  ASSUME LInv, OpenSidecar PROVE LInv'
<1> USE DEF OpenSidecar, Goto, Return, LInv
<1>1. /\ pc = "sidecar" /\ mem = <<>> /\ ~armed /\ ret = 0 /\ Sound(file)
      /\ UNCHANGED <<file, mem, armed, entered, slots>>
  BY DEF Memory, Unreserved, Progress, Going, Table
<1>2. CASE pc' = "reserve" /\ at' = 1 /\ ret' = ret
  <2>1. TypeOK' BY <1>1, <1>2 DEF TypeOK, Steps
  <2>2. Table' BY <1>1 DEF Table, Sound
  <2>3. Memory' BY <1>1, <1>2 DEF Memory, Unreserved, Mapped
  <2>4. Progress' BY <1>1, <1>2 DEF Progress, Going
  <2> QED BY <1>2, <2>1, <2>2, <2>3, <2>4 DEF CrashIsUnchecked
<1>3. CASE pc' = "returned" /\ ret' = -1 /\ at' = at
  <2>1. TypeOK' BY <1>1, <1>3 DEF TypeOK, Steps
  <2>2. Table' /\ Memory' BY <1>1, <1>3 DEF Table, Memory, Unreserved, Going, Mapped
  <2>3. Progress' BY <1>1, <1>3 DEF Progress, Going, Ended
  <2> QED BY <1>3, <2>1, <2>2, <2>3 DEF CrashIsUnchecked
<1> QED BY <1>2, <1>3

\* A refusal before %gs is armed ends as -1, whatever was mapped till then.
LEMMA Refused ==
  ASSUME LInv, ~armed, UNCHANGED <<file, armed, entered, slots, at>>,
         pc' = "returned", ret' = -1,
         DOMAIN mem' \subseteq Nat, \A p \in DOMAIN mem' : mem'[p] \in {"none"} \cup Readable
  PROVE  LInv'
<1> USE DEF LInv
<1>1. TypeOK' BY DEF TypeOK, Steps
<1>2. Table' /\ Memory' BY DEF Table, Memory, Unreserved, Going, Mapped
<1>3. Progress' BY DEF Progress, Going, Ended
<1> QED BY <1>1, <1>2, <1>3 DEF CrashIsUnchecked

LEMMA ReserveKeeps ==
  ASSUME LInv, Reserve PROVE LInv'
<1>1. /\ pc = "reserve" /\ mem = <<>> /\ ~armed /\ ret = 0 /\ Sound(file) /\ TypeOK
      /\ UNCHANGED <<file, armed, entered, slots>>
  BY DEF LInv, Reserve, Memory, Unreserved, Progress, Going, Table
<1>2. CASE /\ mem' = [p \in Pages(file) |-> "none"]
           /\ pc' = "headers" /\ at' = 1 /\ ret' = ret
  <2>1. file.image \in Nat \ {0} /\ Rounded(file.image) \in Nat
    BY <1>1, HeaderFacts, Rounding
  <2>2. DOMAIN mem' = Pages(file) /\ \A p \in Pages(file) : mem'[p] = "none"
    BY <1>2
  <2>3. Pages(file) \subseteq Nat /\ Pages(file) # {}
    <3>1. 0 \in Cells(file) BY <2>1, Rounding, SMT DEF Cells
    <3>2. 0 \div Page \in Pages(file) BY <2>1, <3>1, PageInside
    <3>3. Rounded(file.image) \div Page \in Nat BY <2>1, PageOf
    <3> QED BY <3>2, <3>3, SMT DEF Pages
  <2>4. mem' # <<>>
    <3>1. DOMAIN <<>> = {} OBVIOUS
    <3> QED BY <2>2, <2>3, <3>1
  <2>5. \A c \in Cells(file) : Protection(c)' = "none"
    <3>1. \A c \in Cells(file) : c \in Int BY SMT DEF Cells
    <3>2. \A c \in Cells(file) : c \div Page \in Pages(file) BY <2>1, <3>1, PageInside
    <3> QED BY <2>2, <3>2 DEF Protection
  <2>6. TypeOK' BY <1>1, <1>2, <2>2, <2>3 DEF TypeOK, Steps
  <2>7. Table' BY <1>1, <1>2 DEF Table, Sound
  <2>8. Memory' BY <1>1, <1>2, <2>2, <2>4, <2>5 DEF Memory, Unreserved, Mapped
  <2>9. Progress' BY <1>1, <1>2 DEF Progress, Going
  <2> QED BY <1>2, <2>6, <2>7, <2>8, <2>9 DEF LInv, CrashIsUnchecked
<1>3. CASE pc' = "returned" /\ ret' = -1 /\ at' = at /\ mem' = mem
  BY <1>1, <1>3, Refused DEF TypeOK
<1> QED BY <1>2, <1>3 DEF Reserve, Goto, Return, Pages

\* What covers a cell at first: the header, or nothing.
LEMMA NoSections ==
  ASSUME NEW f, NEW c
  PROVE  ProtectionOf(f, 0, c) = IF c < Rounded(f.hdr) THEN "r" ELSE "none"
<1>1. \A j \in 1 .. 0 : FALSE BY SMT
<1>2. MappedBy(f, 0, c) = {} BY <1>1 DEF MappedBy
<1> QED BY <1>2 DEF ProtectionOf

LEMMA MapHeadersKeeps ==
  ASSUME LInv, MapHeaders PROVE LInv'
<1>1. /\ pc = "headers" /\ mem # <<>> /\ ~armed /\ ret = 0 /\ Sound(file) /\ TypeOK
      /\ file \in Files /\ DOMAIN mem = Pages(file)
      /\ \A c \in Cells(file) : Protection(c) = "none"
      /\ UNCHANGED <<file, armed, entered, slots>>
  BY DEF LInv, MapHeaders, Memory, Unreserved, Progress, Going, Table
<1>2. CASE /\ Rounded(file.hdr) <= file.image /\ Mmap(0, Rounded(file.hdr), "r")
           /\ pc' = "sections" /\ at' = 1 /\ ret' = ret
  <2>1. /\ file.hdr \in Nat \ {0} /\ file.image \in Nat \ {0}
        /\ Rounded(file.hdr) \in Nat /\ Rounded(file.image) \in Nat
    BY <1>1, HeaderFacts, Rounding
  <2>2. PICK r \in Nat \ {0} : Rounded(file.hdr) = Page * r
    BY <2>1, Rounding, SMT
  <2>3. Page * 0 = 0 BY LoaderAssumption, SMT
  <2>4. Mmap(Page * 0, Page * r, "r") BY <1>2, <2>2, <2>3
  <2>5. /\ DOMAIN mem' = DOMAIN mem
        /\ \A c \in Nat : c \div Page \in DOMAIN mem =>
             Protection(c)' = IF Page * 0 <= c /\ c < Page * 0 + Page * r
                              THEN "r" ELSE Protection(c)
    BY <2>4, MmapCells
  <2>6. ASSUME NEW c \in Cells(file) PROVE Protection(c)' = ProtectionOf(file, 0, c)
    <3>1. c \in Nat /\ c \in Int BY <2>1, SMT DEF Cells
    <3>2. c \div Page \in DOMAIN mem BY <1>1, <2>1, <3>1, PageInside
    <3>3. Protection(c)' = IF Page * 0 <= c /\ c < Page * 0 + Page * r
                           THEN "r" ELSE Protection(c)
      BY <2>5, <3>1, <3>2
    <3>4. Page * 0 <= c /\ c < Page * 0 + Page * r <=> c < Rounded(file.hdr)
      BY <2>1, <2>2, <2>3, <3>1, SMT
    <3>5. Protection(c) = "none" BY <1>1
    <3> QED BY <3>3, <3>4, <3>5, NoSections
  <2>7. \A p \in DOMAIN mem' : mem'[p] \in {"none"} \cup Readable
    BY <1>1, <1>2 DEF TypeOK, Mmap, Readable
  <2>8. TypeOK' BY <1>1, <1>2, <2>5, <2>7 DEF TypeOK, Steps
  <2>9. Table' BY <1>1, <1>2 DEF Table, Sound
  <2>10. mem' # <<>>
    <3>1. DOMAIN <<>> = {} OBVIOUS
    <3>2. 0 \in Cells(file) BY <2>1, Rounding, SMT DEF Cells
    <3>3. 0 \div Page \in Pages(file) BY <2>1, <3>2, PageInside
    <3> QED BY <1>1, <2>5, <3>1, <3>3
  <2>11. Placed(file, 0)
    <3>1. \A j \in 1 .. 0 : FALSE BY SMT
    <3> QED BY <1>2, <3>1 DEF Placed
  <2>12. Memory'
    <3>1. at' - 1 = 0 /\ file' = file BY <1>1, <1>2
    <3>2. at' <= Len(file.secs) + 1 BY <1>1, <1>2, TableFacts, SMT
    <3>3. LaidOut(file, at - 1)' BY <1>1, <2>5, <2>6, <3>1 DEF LaidOut
    <3> QED BY <1>2, <2>10, <2>11, <3>1, <3>2, <3>3 DEF Memory, Unreserved, Mapped
  <2>13. Progress' BY <1>1, <1>2 DEF Progress, Going
  <2> QED BY <1>2, <2>8, <2>9, <2>12, <2>13 DEF LInv, CrashIsUnchecked
<1>3. CASE pc' = "returned" /\ ret' = -1 /\ at' = at /\ mem' = mem
  BY <1>1, <1>3, Refused DEF TypeOK
<1> QED BY <1>2, <1>3 DEF MapHeaders, Goto, Return

LEMMA MapSectionKeeps ==
  ASSUME LInv, MapSection PROVE LInv'
<1> DEFINE s == file.secs[at]
<1>1. /\ pc = "sections" /\ mem # <<>> /\ ~armed /\ ret = 0 /\ Sound(file) /\ TypeOK
      /\ file \in Files /\ at \in Nat \ {0} /\ at <= Len(file.secs)
      /\ Placed(file, at - 1) /\ LaidOut(file, at - 1)
      /\ UNCHANGED <<file, armed, entered, slots>>
  BY DEF LInv, MapSection, Memory, Unreserved, Progress, Going, Table, TypeOK
<1>2. at \in 1 .. Len(file.secs) /\ s \in Sections(file)
  <2>1. at \in 1 .. Len(file.secs) BY <1>1, TableFacts, SMT
  <2> QED BY <1>1, <2>1, TableFacts
<1>3. /\ s \in Section /\ s.va \in Nat /\ Span(s) \in Nat /\ Limit(s) \in Nat
      /\ Limit(s) = s.va + Rounded(Span(s)) /\ Rounded(Span(s)) \in Nat
      /\ file.image \in Nat /\ Rounded(file.image) \in Nat
  <2>1. s \in Section BY <1>1, <1>2, SectionFacts
  <2> HIDE DEF s
  <2>2. s.va \in Nat BY <2>1 DEF Section
  <2>3. file.image \in Nat /\ Rounded(file.image) \in Nat
    BY <1>1, HeaderFacts, Rounding
  <2> QED BY <1>1, <1>2, <2>1, <2>2, <2>3, SectionFacts
<1>4. ASSUME /\ pc' = pc /\ ret' = ret /\ at' = at + 1
             /\ DOMAIN mem' = DOMAIN mem /\ Fits(file, s)
             /\ \A p \in DOMAIN mem' : mem'[p] \in {"none"} \cup Readable
             /\ \A c \in Cells(file) :
                  Protection(c)' = IF s.va <= c /\ c < Limit(s)
                                   THEN IF s.exec THEN "rx" ELSE "rw"
                                   ELSE Protection(c)
      PROVE  LInv'
  <2>1. TypeOK'
    <3>1. at' \in Nat \ {0} BY <1>1, <1>4, SMT
    <3> QED BY <1>1, <1>4, <3>1 DEF TypeOK
  <2>2. Table' BY <1>1, <1>4 DEF Table, Sound
  <2>3. mem' # <<>>
    <3>1. DOMAIN <<>> = {} OBVIOUS
    <3>2. 0 \in Cells(file)
      <4>1. file.image \in Nat \ {0} /\ file.image <= Rounded(file.image)
        BY <1>1, HeaderFacts, Rounding
      <4> HIDE DEF s
      <4> QED BY <1>3, <4>1, SMT DEF Cells
    <3>3. 0 \div Page \in Pages(file) BY <1>3, <3>2, PageInside
    <3> QED BY <1>1, <1>4, <3>1, <3>3 DEF LaidOut
  <2>4. at' - 1 = at /\ file' = file /\ at' <= Len(file.secs) + 1
    BY <1>1, <1>4, TableFacts, SMT
  <2>5. Placed(file, at)
    <3>1. \A j \in 1 .. at : j \in 1 .. at - 1 \/ j = at BY <1>1, SMT
    <3> QED BY <1>1, <1>4, <3>1 DEF Placed
  <2>6. \A c \in Cells(file) : Protection(c)' = ProtectionOf(file, at, c)
    <3>1. \A c \in Cells(file) : c \in Nat BY <1>3, SMT DEF Cells
    <3>2. \A c \in Cells(file) : Protection(c) = ProtectionOf(file, at - 1, c)
      BY <1>1 DEF LaidOut
    <3>3. \A c \in Cells(file) :
            ProtectionOf(file, at, c) = IF s.va <= c /\ c < Limit(s)
                                        THEN IF s.exec THEN "rx" ELSE "rw"
                                        ELSE ProtectionOf(file, at - 1, c)
      BY <1>1, <1>2, <3>1, OneMore
    <3> QED BY <1>4, <3>2, <3>3
  <2>7. LaidOut(file, at - 1)' BY <1>1, <1>4, <2>4, <2>6 DEF LaidOut
  <2>8. Memory' BY <1>1, <1>4, <2>3, <2>4, <2>5, <2>7 DEF Memory, Unreserved, Mapped
  <2>9. Progress' BY <1>1, <1>4 DEF Progress, Going
  <2> QED BY <1>1, <1>4, <2>1, <2>2, <2>8, <2>9 DEF LInv, CrashIsUnchecked
<1>5. CASE Span(s) = 0 /\ Again /\ mem' = mem
  <2>1. Limit(s) = s.va BY <1>1, <1>2, <1>5, EmptySection
  <2>2. \A c \in Cells(file) : ~(s.va <= c /\ c < Limit(s))
    BY <1>3, <2>1, SMT DEF Cells
  <2>3. \A c \in Cells(file) : Protection(c)' = Protection(c) BY <1>5 DEF Protection
  <2>4. Fits(file, s) BY <1>5 DEF Fits
  <2>5. \A p \in DOMAIN mem' : mem'[p] \in {"none"} \cup Readable
    BY <1>1, <1>5 DEF TypeOK
  <2> HIDE DEF s
  <2> QED BY <1>4, <1>5, <2>2, <2>3, <2>4, <2>5 DEF Again
<1>6. CASE /\ Span(s) > 0 /\ s.va % Page = 0 /\ Rounded(Span(s)) <= file.image - s.va
           /\ Mmap(s.va, Rounded(Span(s)), IF s.exec THEN "rx" ELSE "rw") /\ Again
  <2> DEFINE prot == IF s.exec THEN "rx" ELSE "rw"
  <2>1. PICK r \in Nat \ {0} : Rounded(Span(s)) = Page * r
    BY <1>3, <1>6, Rounding, SMT
  <2>2. PICK a \in Nat : s.va = Page * a
    <3> DEFINE x == s.va
    <3>1. x \in Nat /\ x % Page = 0 BY <1>3, <1>6
    <3> HIDE DEF x
    <3>2. Page \in Nat \ {0} BY LoaderAssumption
    <3>3. x \div Page \in Nat BY <3>1, PageOf
    <3>4. x = Page * (x \div Page) + (x % Page) BY <3>1, <3>2, SMT
    <3>5. Page * (x \div Page) \in Nat BY <3>3, Times
    <3>6. x = Page * (x \div Page) + 0 BY <3>1, <3>4, Zenon
    <3>7. x = Page * (x \div Page) BY <3>5, <3>6
    <3> QED BY <3>3, <3>7 DEF x
  <2>3. /\ DOMAIN mem' = DOMAIN mem
        /\ \A c \in Nat : c \div Page \in DOMAIN mem =>
             Protection(c)' = IF s.va <= c /\ c < s.va + Rounded(Span(s))
                              THEN prot ELSE Protection(c)
    <3>1. Mmap(Page * a, Page * r, prot) BY <1>6, <2>1, <2>2
    <3> HIDE DEF prot, s
    <3> QED BY <2>1, <2>2, <3>1, MmapCells
  <2>4. \A c \in Cells(file) : c \in Nat /\ c \div Page \in DOMAIN mem
    <3>1. \A c \in Cells(file) : c \in Nat BY <1>3, SMT DEF Cells
    <3> QED BY <1>1, <1>3, <3>1, PageInside DEF LaidOut
  <2>5. \A c \in Cells(file) :
          Protection(c)' = IF s.va <= c /\ c < Limit(s)
                           THEN IF s.exec THEN "rx" ELSE "rw"
                           ELSE Protection(c)
    BY <1>3, <2>3, <2>4
  <2>6. prot \in Readable BY DEF Readable
  <2>7. \A p \in DOMAIN mem' : mem'[p] \in {"none"} \cup Readable
    <3> HIDE DEF prot, s
    <3>1. \A p \in DOMAIN mem' : mem'[p] = prot \/ mem'[p] = mem[p]
      BY <1>6 DEF Mmap, prot
    <3> QED BY <1>1, <2>3, <2>6, <3>1 DEF TypeOK
  <2>8. Fits(file, s)
    <3> HIDE DEF s
    <3> QED BY <1>3, <1>6, SMT DEF Fits
  <2> HIDE DEF s, prot
  <2> QED BY <1>4, <1>6, <2>3, <2>5, <2>7, <2>8 DEF Again
<1>7. CASE pc' = "returned" /\ ret' = -1 /\ at' = at /\ mem' = mem
  BY <1>1, <1>7, Refused DEF TypeOK
<1> QED BY <1>5, <1>6, <1>7 DEF MapSection, Return

------------------------------------------------------------------------------
(* The steps that follow leave the file and the memory as they are.          *)

AllMapped ==
  /\ Sound(file) /\ mem # <<>> /\ ret = 0 /\ TypeOK
  /\ Placed(file, Len(file.secs)) /\ LaidOut(file, Len(file.secs))

MappedSteps == {"imports", "tls", "callbacks", "teb", "entry", "export", "attach"}

\* What the invariant says of the steps after the mapping.
LEMMA MappedFacts ==
  ASSUME LInv, Mapped
  PROVE  /\ AllMapped /\ file \in Files
         /\ armed <=> pc \in {"entry", "export", "attach"}
  BY DEF LInv, Mapped, AllMapped, Table, Memory, Progress, Unreserved, Going

\* A step that leaves file and memory alone keeps what they satisfy.
LEMMA MappedKeeps ==
  ASSUME AllMapped, file \in Files, UNCHANGED <<file, mem>>,
         pc' \in MappedSteps \cup {"returned", "crashed"},
         at' \in Nat \ {0}, armed' \in BOOLEAN, ret' \in -4 .. 0,
         entered' \subseteq {"callback", "DllMain", "Query", "Attach"} \X BOOLEAN,
         slots' \subseteq 0 .. file.image,
         Progress', pc' = "crashed" => Unchecked(file)
  PROVE  LInv'
<1>1. TypeOK' BY DEF TypeOK, AllMapped, MappedSteps, Steps
<1>2. Table' BY DEF Table, AllMapped, Sound
<1>3. Memory'
  <2>1. LaidOut(file, Len(file.secs))' BY DEF AllMapped, LaidOut, Protection
  <2>2. Placed(file', Len(file'.secs)) BY DEF AllMapped
  <2>3. pc' \notin {"check", "sidecar", "reserve", "headers", "sections"}
    BY DEF MappedSteps
  <2> QED BY <2>1, <2>2, <2>3 DEF Memory, Unreserved, AllMapped
<1>4. CrashIsUnchecked' BY DEF CrashIsUnchecked
<1> QED BY <1>1, <1>2, <1>3, <1>4 DEF LInv

LEMMA FindImportsKeeps ==
  ASSUME LInv, FindImports PROVE LInv'
<1>1. /\ pc = "sections" /\ ~armed /\ file \in Files /\ TypeOK
      /\ UNCHANGED <<file, mem, armed, entered, slots>>
  BY DEF LInv, FindImports, Progress, Going, Table
<1>2. AllMapped
  <2>1. /\ Sound(file) /\ mem # <<>> /\ ret = 0 /\ at > Len(file.secs)
        /\ at <= Len(file.secs) + 1
        /\ Placed(file, at - 1) /\ LaidOut(file, at - 1)
    BY DEF LInv, FindImports, Table, Memory, Progress, Unreserved, Going
  <2>2. at - 1 = Len(file.secs) BY <1>1, <2>1, TableFacts, SMT DEF TypeOK
  <2> QED BY <1>1, <2>1, <2>2 DEF AllMapped
<1>3. \/ pc' \in {"tls", "imports"} /\ at' = 1 /\ ret' = ret
      \/ pc' = "returned" /\ ret' = -1 /\ at' = at
  BY DEF FindImports, Goto, Return
<1>4. pc' \in MappedSteps \cup {"returned", "crashed"} /\ pc' # "crashed"
  BY <1>3 DEF MappedSteps
<1>5. at' \in Nat \ {0} /\ ret' \in -4 .. 0 BY <1>1, <1>2, <1>3 DEF TypeOK, AllMapped
<1>6. Progress' BY <1>1, <1>2, <1>3 DEF Progress, Going, Ended, AllMapped
<1> QED BY <1>1, <1>2, <1>4, <1>5, <1>6, MappedKeeps DEF TypeOK

Descriptor == [name : Nat, iat : Nat, ilt : Nat, fns : Seq(Nat \cup {Ordinal})]

\* The slots one turn of the import loop writes.
LEMMA WrittenSlots ==
  ASSUME LInv, pc = "imports", at \in 1 .. Len(file.imp.descs),
         NEW c \in Written(file.imp.descs[at])
  PROVE  LET d == file.imp.descs[at] IN
         /\ c \in 0 .. file.image /\ IsMapped(file, c)
         /\ c \in d.iat .. file.image /\ c < d.iat + Len(d.fns)
<1>1. AllMapped /\ file \in Files
  BY MappedFacts DEF Mapped
<1> DEFINE d == file.imp.descs[at]
<1>2. file.imp.descs \in Seq(Descriptor)
  BY <1>1, FileAssumption DEF Descriptor
<1>3. d \in Descriptor
  <2> DEFINE q == file.imp.descs
  <2>1. q \in Seq(Descriptor) /\ at \in 1 .. Len(q) BY <1>2
  <2> HIDE DEF q
  <2>2. q[at] \in Descriptor BY <2>1
  <2> QED BY <2>2 DEF q
<1>4. PICK j \in 0 .. Len(d.fns) - 1 : c = d.iat + j /\ \A i \in 0 .. j : Resolved(d, i)
  BY DEF Written
<1> HIDE DEF d
<1>5. d.iat \in Nat /\ Len(d.fns) \in Nat BY <1>3 DEF Descriptor
<1>6. j \in 0 .. j BY <1>4, <1>5, SMT
<1>7. c \in Nat /\ j < Len(d.fns) /\ j \in Nat BY <1>4, <1>5, SMT
<1>8. image_range(file, c, 1) BY <1>4, <1>6, <1>7 DEF Resolved, InImage
<1>9. c < file.image /\ IsMapped(file, c) BY <1>1, <1>7, <1>8, CellChecked DEF AllMapped
<1>10. file.image \in Nat BY <1>1, HeaderFacts DEF AllMapped
<1>11. c \in 0 .. file.image /\ c \in d.iat .. file.image /\ c < d.iat + Len(d.fns)
  BY <1>4, <1>5, <1>7, <1>9, <1>10, SMT
<1> QED BY <1>9, <1>11 DEF d

\* How one turn of the import loop ends.
LEMMA ImportTurn ==
  ASSUME ResolveImports
  PROVE  \/ pc' = "tls" /\ at' = 1 /\ ret' = ret
         \/ pc' = pc /\ at' = at + 1 /\ ret' = ret
         \/ pc' = "returned" /\ ret' = -1 /\ at' = at
         \/ pc' = "crashed" /\ at' = at /\ ret' = ret
BY DEF ResolveImports, Goto, Return, Again, Crash

LEMMA ResolveImportsKeeps ==
  ASSUME LInv, ResolveImports PROVE LInv'
<1>1. /\ pc = "imports" /\ AllMapped /\ file \in Files /\ TypeOK /\ ~armed
      /\ UNCHANGED <<file, mem, armed, entered>>
  BY MappedFacts DEF ResolveImports, Mapped, AllMapped
<1> DEFINE d == file.imp.descs[at]
           writes == Written(d)
<1>2. \/ UNCHANGED slots
      \/ at \in 1 .. Len(file.imp.descs) /\ slots' = slots \cup writes
  <2>1. at \in Nat \ {0} BY <1>1 DEF TypeOK
  <2>2. file.imp.descs \in Seq(Descriptor)
    BY <1>1, FileAssumption DEF Descriptor
  <2>3. \/ UNCHANGED slots
        \/ ~(at > Len(file.imp.descs)) /\ slots' = slots \cup writes
    BY DEF ResolveImports
  <2>4. ~(at > Len(file.imp.descs)) => at \in 1 .. Len(file.imp.descs)
    BY <2>1, <2>2, SMT
  <2> QED BY <2>3, <2>4
<1>3. ASSUME at \in 1 .. Len(file.imp.descs), NEW c \in writes
      PROVE  /\ c \in 0 .. file.image /\ IsMapped(file, c)
             /\ c \in d.iat .. file.image /\ c < d.iat + Len(d.fns)
  BY <1>1, <1>3, WrittenSlots
<1>4. slots' \subseteq 0 .. file.image BY <1>1, <1>2, <1>3 DEF TypeOK
<1>5. pc' = "crashed" => Unchecked(file)
  <2>1. SUFFICES ASSUME pc' = "crashed" PROVE Unchecked(file) OBVIOUS
  <2>2. /\ ~(at > Len(file.imp.descs))
        /\ \E c \in writes : Protection(c) # "rw"
    BY <1>1, <2>1 DEF ResolveImports, Return, Goto, Again
  <2>3. PICK c \in writes : Protection(c) # "rw" BY <2>2
  <2>4. file.imp.descs \in Seq(Descriptor)
    BY <1>1, FileAssumption DEF Descriptor
  <2>5. at \in 1 .. Len(file.imp.descs) /\ DOMAIN file.imp.descs = 1 .. Len(file.imp.descs)
    BY <1>1, <2>2, <2>4, SMT DEF TypeOK
  <2>6. /\ IsMapped(file, c) /\ c \in d.iat .. file.image /\ c < d.iat + Len(d.fns)
        /\ c \in 0 .. file.image
    BY <1>3, <2>5
  <2>7. ~IsData(file, c)
    <3>1. c \in Int BY <2>6
    <3> HIDE DEF writes
    <3> QED BY <1>1, <2>3, <3>1, MemoryTells DEF AllMapped
  <2> QED BY <2>5, <2>6, <2>7 DEF Unchecked
<1>6. \/ pc' = "tls" /\ at' = 1 /\ ret' = ret
      \/ pc' = pc /\ at' = at + 1 /\ ret' = ret
      \/ pc' = "returned" /\ ret' = -1 /\ at' = at
      \/ pc' = "crashed" /\ at' = at /\ ret' = ret
  BY ImportTurn
<1>7. pc' \in MappedSteps \cup {"returned", "crashed"}
  BY <1>1, <1>6 DEF MappedSteps
<1>8. at' \in Nat \ {0} /\ ret' \in -4 .. 0
  <2>1. at \in Nat \ {0} /\ ret = 0 BY <1>1 DEF TypeOK, AllMapped
  <2> QED BY <1>6, <2>1, SMT
<1>9. Progress' BY <1>1, <1>6 DEF Progress, Going, Ended, AllMapped
<1> QED BY <1>1, <1>4, <1>5, <1>7, <1>8, <1>9, MappedKeeps DEF TypeOK

LEMMA SetUpTlsKeeps ==
  ASSUME LInv, SetUpTls PROVE LInv'
<1> DEFINE t == file.tls
<1>1. /\ pc = "tls" /\ AllMapped /\ file \in Files /\ TypeOK /\ ~armed
      /\ UNCHANGED <<file, mem, armed, entered, slots>>
  BY MappedFacts DEF SetUpTls, Mapped, AllMapped
<1>2. \/ pc' = "teb" /\ at' = 1 /\ ret' = ret
      \/ pc' = "callbacks" /\ t.at # 0 /\ at' = 1 /\ ret' = ret
      \/ pc' = "returned" /\ ret' = -1 /\ at' = at
      \/ /\ pc' = "crashed" /\ at' = at /\ ret' = ret /\ t.at # 0
         /\ \/ ~Allows(t.start, t.end - t.start, Readable)
            \/ t.index # NoVA /\ Protection(t.index) # "rw"
  BY DEF SetUpTls, Goto, Return, Crash
<1>3. t.start \in Int /\ t.end \in Int /\ t.index \in Int
  BY <1>1, FileAssumption
<1>4. pc' = "crashed" => Unchecked(file)
  <2>1. SUFFICES ASSUME pc' = "crashed" PROVE Unchecked(file) OBVIOUS
  <2>2. CASE t.at # 0 /\ ~Allows(t.start, t.end - t.start, Readable)
    <3>1. PICK c \in t.start .. t.start + (t.end - t.start) - 1 :
                 Protection(c) \notin Readable
      BY <2>2 DEF Allows
    <3>2. c \in t.start .. t.end - 1 /\ c \in Int
      <4> DEFINE a == t.start   b == t.end
      <4>1. a \in Int /\ b \in Int /\ c \in a .. a + (b - a) - 1 BY <1>3, <3>1
      <4> HIDE DEF a, b
      <4>2. c \in a .. b - 1 /\ c \in Int BY <4>1, SMT
      <4> QED BY <4>2 DEF a, b
    <3>3. ~IsMapped(file, c) BY <1>1, <3>1, <3>2, MemoryTells DEF AllMapped
    <3> QED BY <2>2, <3>2, <3>3 DEF Unchecked
  <2>3. CASE t.at # 0 /\ t.index # NoVA /\ Protection(t.index) # "rw"
    <3>1. ~IsData(file, t.index) BY <1>1, <1>3, <2>3, MemoryTells DEF AllMapped
    <3> QED BY <2>3, <3>1 DEF Unchecked
  <2> QED BY <1>2, <2>1, <2>2, <2>3
<1>5. pc' \in MappedSteps \cup {"returned", "crashed"} BY <1>2 DEF MappedSteps
<1>6. at' \in Nat \ {0} /\ ret' \in -4 .. 0 BY <1>1, <1>2 DEF TypeOK, AllMapped
<1>7. Progress' BY <1>1, <1>2 DEF Progress, Going, Ended, AllMapped
<1> QED BY <1>1, <1>4, <1>5, <1>6, <1>7, MappedKeeps DEF TypeOK

LEMMA RunCallbackKeeps ==
  ASSUME LInv, RunCallback PROVE LInv'
<1> DEFINE t == file.tls
<1>1. /\ pc = "callbacks" /\ AllMapped /\ file \in Files /\ TypeOK /\ ~armed
      /\ file.tls.at # 0 /\ UNCHANGED <<file, mem, armed, slots>>
  BY MappedFacts DEF RunCallback, Mapped, AllMapped, LInv, Progress
<1>2. /\ \/ pc' = "teb" /\ at' = 1 /\ ret' = ret
         \/ pc' = pc /\ at' = at + 1 /\ ret' = ret
         \/ pc' = "returned" /\ ret' = -1 /\ at' = at
         \/ /\ pc' = "crashed" /\ at' = at /\ ret' = ret /\ ~(at > Len(t.funs))
            /\ Protection(t.funs[at]) # "rx"
      /\ entered' = entered \/ entered' = entered \cup {<<"callback", armed>>}
  BY DEF RunCallback, Jump, Goto, Again, Return, Crash
<1>3. pc' = "crashed" => Unchecked(file)
  <2>1. SUFFICES ASSUME pc' = "crashed" PROVE Unchecked(file) OBVIOUS
  <2>2. ~(at > Len(t.funs)) /\ Protection(t.funs[at]) # "rx" BY <1>1, <1>2, <2>1
  <2> DEFINE q == t.funs
  <2>3. q \in Seq(Int) BY <1>1, FileAssumption
  <2>4. at \in DOMAIN q /\ q[at] \in Int
    <3> HIDE DEF q
    <3>1. at \in 1 .. Len(q) BY <1>1, <2>2, <2>3, SMT DEF TypeOK, q
    <3> QED BY <2>3, <3>1
  <2>5. ~IsCode(file, q[at]) BY <1>1, <2>2, <2>4, MemoryTells DEF AllMapped
  <2> QED BY <1>1, <2>4, <2>5 DEF Unchecked
<1>4. pc' \in MappedSteps \cup {"returned", "crashed"} BY <1>1, <1>2 DEF MappedSteps
<1>5. at' \in Nat \ {0} /\ ret' \in -4 .. 0
  <2>1. at \in Nat \ {0} /\ ret = 0 BY <1>1 DEF TypeOK, AllMapped
  <2> QED BY <1>2, <2>1, SMT
<1>6. entered' \subseteq {"callback", "DllMain", "Query", "Attach"} \X BOOLEAN
  BY <1>1, <1>2 DEF TypeOK
<1>7. Progress' BY <1>1, <1>2 DEF Progress, Going, Ended, AllMapped
<1> QED BY <1>1, <1>3, <1>4, <1>5, <1>6, <1>7, MappedKeeps DEF TypeOK

LEMMA ArmTebKeeps ==
  ASSUME LInv, ArmTeb PROVE LInv'
<1>1. /\ pc = "teb" /\ AllMapped /\ file \in Files /\ TypeOK /\ ~armed
      /\ UNCHANGED <<file, mem, entered, slots>>
  BY MappedFacts DEF ArmTeb, Mapped, AllMapped
<1>2. \/ pc' = "entry" /\ armed' = TRUE /\ at' = 1 /\ ret' = ret
      \/ pc' = "returned" /\ armed' = armed /\ ret' = -1 /\ at' = at
  BY DEF ArmTeb, Goto, Return
<1>3. pc' \in MappedSteps \cup {"returned", "crashed"} /\ pc' # "crashed"
  BY <1>2 DEF MappedSteps
<1>4. at' \in Nat \ {0} /\ ret' \in -4 .. 0 BY <1>1, <1>2 DEF TypeOK, AllMapped
<1>5. armed' \in BOOLEAN BY <1>1, <1>2, Zenon DEF TypeOK
<1>6. Progress' BY <1>1, <1>2 DEF Progress, Going, Ended, AllMapped
<1> QED BY <1>1, <1>3, <1>4, <1>5, <1>6, MappedKeeps DEF TypeOK

\* The calls made with %gs armed: on, back with a result, or a fault at a cell
\* that is not code.
LEMMA ArmedStep ==
  ASSUME LInv, pc \in {"entry", "export", "attach"},
         UNCHANGED <<file, mem, armed, slots>>,
         \/ pc' \in {"export", "attach"} /\ at' = 1 /\ ret' = ret
         \/ pc' = "returned" /\ ret' \in -4 .. 0 /\ at' = at
         \/ pc' = "crashed" /\ at' = at /\ ret' = ret /\ Unchecked(file),
         NEW what \in {"DllMain", "Query", "Attach"},
         entered' = entered \/ entered' = entered \cup {<<what, armed>>}
  PROVE  LInv'
<1>1. AllMapped /\ file \in Files /\ TypeOK /\ armed
  BY MappedFacts DEF Mapped, AllMapped
<1>2. pc' \in MappedSteps \cup {"returned", "crashed"} BY DEF MappedSteps
<1>3. at' \in Nat \ {0} /\ ret' \in -4 .. 0 BY <1>1 DEF TypeOK, AllMapped
<1>4. entered' \subseteq {"callback", "DllMain", "Query", "Attach"} \X BOOLEAN
  <2>1. <<what, armed>> \in {"callback", "DllMain", "Query", "Attach"} \X BOOLEAN
    BY <1>1, Zenon DEF TypeOK
  <2> QED BY <1>1, <2>1, Zenon DEF TypeOK
<1>5. Progress' BY <1>1 DEF Progress, Going, Ended, AllMapped
<1>6. pc' = "crashed" => Unchecked(file) OBVIOUS
<1> QED BY <1>1, <1>2, <1>3, <1>4, <1>5, <1>6, MappedKeeps DEF TypeOK

LEMMA CallsKeep ==
  ASSUME LInv, CallDllMain \/ CallQuery \/ CallAttach PROVE LInv'
<1>1. pc \in {"entry", "export", "attach"} /\ UNCHANGED <<file, mem, armed, slots>>
  BY DEF CallDllMain, CallQuery, CallAttach
<1>2. AllMapped /\ file.entry \in Int /\ file.exp.fn \in Int
  BY <1>1, MappedFacts, FileAssumption DEF Mapped
<1>3. CASE CallDllMain
  <2>1. /\ \/ pc' = "export" /\ at' = 1 /\ ret' = ret
           \/ pc' = "returned" /\ ret' = -1 /\ at' = at
           \/ /\ pc' = "crashed" /\ at' = at /\ ret' = ret
              /\ Protection(file.entry) # "rx"
        /\ entered' = entered \/ entered' = entered \cup {<<"DllMain", armed>>}
    BY <1>3 DEF CallDllMain, Jump, Goto, Return, Crash
  <2>2. Protection(file.entry) # "rx" => Unchecked(file)
    BY <1>2, MemoryTells DEF AllMapped, Unchecked
  <2>3. -1 \in -4 .. 0 BY SMT
  <2> QED BY <1>1, <2>1, <2>2, <2>3, ArmedStep
<1>4. CASE CallQuery
  <2>1. /\ \/ pc' = "attach" /\ at' = 1 /\ ret' = ret
           \/ pc' = "returned" /\ ret' \in {-2, -3} /\ at' = at
           \/ /\ pc' = "crashed" /\ at' = at /\ ret' = ret
              /\ Protection(file.exp.fn) # "rx"
        /\ entered' = entered \/ entered' = entered \cup {<<"Query", armed>>}
    BY <1>4 DEF CallQuery, Jump, Goto, Return, Crash
  <2>2. Protection(file.exp.fn) # "rx" => Unchecked(file)
    BY <1>2, MemoryTells DEF AllMapped, Unchecked
  <2>3. {-2, -3} \subseteq -4 .. 0 BY SMT
  <2> QED BY <1>1, <2>1, <2>2, <2>3, ArmedStep
<1>5. CASE CallAttach
  <2>1. /\ pc' = "returned" /\ ret' \in {0, -4} /\ at' = at
        /\ entered' = entered \cup {<<"Attach", armed>>}
    BY <1>5 DEF CallAttach, Return
  <2>2. {0, -4} \subseteq -4 .. 0 BY SMT
  <2> QED BY <1>1, <2>1, <2>2, ArmedStep
<1> QED BY <1>3, <1>4, <1>5

LEMMA LInvStep == LInv /\ [Next]_vars => LInv'
<1> SUFFICES ASSUME LInv, [Next]_vars PROVE LInv' OBVIOUS
<1>1. CASE UNCHANGED vars
  BY <1>1 DEF LInv, vars, TypeOK, Table, Memory, Progress, CrashIsUnchecked,
              Unreserved, Going, Mapped, Ended, Protection, LaidOut
<1>2. CASE Next
  BY <1>2, CheckHeadersKeeps, OpenSidecarKeeps, ReserveKeeps, MapHeadersKeeps,
     MapSectionKeeps, FindImportsKeeps, ResolveImportsKeeps, SetUpTlsKeeps,
     RunCallbackKeeps, ArmTebKeeps, CallsKeep, Zenon DEF Next
<1> QED BY <1>1, <1>2

(* The inductive invariant holds in every reachable state.                   *)
THEOREM LoaderInvariant == Spec => []LInv
BY LInvInit, LInvStep, PTL DEF Spec

------------------------------------------------------------------------------
(* An open, as MatchEngine has it: one step.                                 *)

\* The record of a process that is being opened, with what the load sets.
OpenedAs(n, res, thr, ifc, ld) ==
  [NewProcess EXCEPT !.shims = n, !.reserved = res, !.armed = thr,
                     !.iface = ifc, !.loaded = ld]

\* The same record, when the load sets one field after the other.
Registered(n)    == [NewProcess EXCEPT !.shims = n]
Reserved(n)      == [Registered(n) EXCEPT !.reserved = TRUE]
ArmedFor(n, thr) == [Reserved(n) EXCEPT !.armed = thr]
Found(n, thr)    == [ArmedFor(n, thr) EXCEPT !.iface = TRUE]
Usable(n, thr)   == [Found(n, thr) EXCEPT !.loaded = TRUE]

LEMMA OpenedSteps ==
  ASSUME NEW n, NEW thr
  PROVE  /\ Registered(n) = OpenedAs(n, FALSE, {}, FALSE, FALSE)
         /\ Reserved(n) = OpenedAs(n, TRUE, {}, FALSE, FALSE)
         /\ ArmedFor(n, thr) = OpenedAs(n, TRUE, thr, FALSE, FALSE)
         /\ Found(n, thr) = OpenedAs(n, TRUE, thr, TRUE, FALSE)
         /\ Usable(n, thr) = OpenedAs(n, TRUE, thr, TRUE, TRUE)
<1> DEFINE P == NewProcess   D == DOMAIN NewProcess
           Set(res, arm, ifc, ld) ==
             [k \in D |-> IF k = "shims" THEN n ELSE IF k = "reserved" THEN res
                          ELSE IF k = "armed" THEN arm ELSE IF k = "iface" THEN ifc
                          ELSE IF k = "loaded" THEN ld ELSE P[k]]
<1>1. {"reserved", "armed", "iface", "loaded", "shims"} \subseteq D BY DEF NewProcess
<1>2. P = [k \in D |-> P[k]] BY DEF NewProcess
<1>3. P.loaded = FALSE /\ P.iface = FALSE /\ P.reserved = FALSE /\ P.armed = {}
  BY Zenon DEF NewProcess
<1> HIDE DEF D, P
<1>4. Registered(n) = Set(FALSE, {}, FALSE, FALSE)
  <2>1. Registered(n) = [k \in D |-> IF k = "shims" THEN n ELSE P[k]]
    BY <1>1, <1>2 DEF P, Registered
  <2> QED BY <1>3, <2>1
<1>5. Reserved(n) = Set(TRUE, {}, FALSE, FALSE) BY <1>1, <1>4 DEF Reserved
<1>6. ArmedFor(n, thr) = Set(TRUE, thr, FALSE, FALSE) BY <1>1, <1>5 DEF ArmedFor
<1>7. Found(n, thr) = Set(TRUE, thr, TRUE, FALSE) BY <1>1, <1>6 DEF Found
<1>8. Usable(n, thr) = Set(TRUE, thr, TRUE, TRUE) BY <1>1, <1>7 DEF Usable
<1>9. ASSUME NEW res, NEW arm, NEW ifc, NEW ld
      PROVE  Set(res, arm, ifc, ld) = OpenedAs(n, res, arm, ifc, ld)
  BY <1>1, <1>2 DEF P, OpenedAs
<1> HIDE DEF Set
<1> QED BY <1>4, <1>5, <1>6, <1>7, <1>8, <1>9

------------------------------------------------------------------------------
(* What the invariant gives.                                                 *)

(* Every field of the loader keeps its type, and no page of the image is     *)
(* ever writable and executable (load_pe maps a section for one or the other). *)
THEOREM LoaderTypeCorrect == Spec => []TypeOK
<1>1. LInv => TypeOK BY DEF LInv
<1> QED BY <1>1, LoaderInvariant, PTL

(* For every page size and section table: image_range, which walks the table,*)
(* accepts a range exactly if mmap left every cell of it readable.           *)
THEOREM RangeChecksAgree == Spec => []RangeIsMapped
<1>1. ASSUME LInv PROVE RangeIsMapped
  <2>1. SUFFICES ASSUME Mapped,
                        NEW o \in 0 .. file.image + Page, NEW n \in 1 .. file.image
                 PROVE  image_range(file, o, n)
                          <=> o + n <= file.image /\ Allows(o, n, Readable)
    BY DEF RangeIsMapped
  <2>2. AllMapped /\ Sound(file) BY <1>1, <2>1, MappedFacts DEF AllMapped
  <2>3. o \in Nat /\ n \in Nat
    <3>1. file.image \in Nat /\ Page \in Nat BY <2>2, HeaderFacts, LoaderAssumption
    <3> QED BY <3>1, SMT
  <2>4. \A c \in o .. o + n - 1 : Protection(c) \in Readable <=> IsMapped(file, c)
    <3>1. \A c \in o .. o + n - 1 : c \in Int OBVIOUS
    <3> QED BY <2>2, <3>1, MemoryTells DEF AllMapped
  <2>5. Allows(o, n, Readable) <=> \A c \in o .. o + n - 1 : IsMapped(file, c)
    BY <2>4, Zenon DEF Allows
  <2> QED BY <2>2, <2>3, <2>5, RangeChecked
<1> QED BY <1>1, LoaderInvariant, PTL

(* The room readable_range_length gives to the search for a name's end is    *)
(* readable to its last cell.                                                *)
THEOREM NamesStayMapped == Spec => []NameLimitIsMapped
<1>1. ASSUME LInv PROVE NameLimitIsMapped
  <2>1. SUFFICES ASSUME Mapped, NEW o \in 0 .. file.image
                 PROVE  Allows(o, readable_range_length(file, o), Readable)
    BY DEF NameLimitIsMapped
  <2>2. AllMapped /\ Sound(file) BY <1>1, <2>1, MappedFacts DEF AllMapped
  <2>3. o \in Nat BY <2>1, SMT
  <2>4. /\ readable_range_length(file, o) \in Nat
        /\ \A c \in o .. o + readable_range_length(file, o) - 1 : IsMapped(file, c)
    BY <2>2, <2>3, NameChecked
  <2>5. \A c \in o .. o + readable_range_length(file, o) - 1 : Protection(c) \in Readable
    <3>1. \A c \in o .. o + readable_range_length(file, o) - 1 : c \in Int OBVIOUS
    <3> QED BY <2>2, <2>4, <3>1, MemoryTells DEF AllMapped
  <2> QED BY <2>5 DEF Allows
<1> QED BY <1>1, LoaderInvariant, PTL

(* Whatever the DLL's tables say, the loader faults only over what load_pe   *)
(* and get_export do not check.                                              *)
THEOREM FaultsOnTrust == Spec => []CrashIsUnchecked
<1>1. LInv => CrashIsUnchecked BY DEF LInv
<1> QED BY <1>1, LoaderInvariant, PTL

(* The steps of one open end in an outcome of the atomic EngineOpen: what it *)
(* returns says how far the image, %gs and the engine's interface have come. *)
THEOREM OpensAsPromised == Spec => []OpenIsEngineOpen
<1>1. ASSUME LInv, pc = "returned"
      PROVE  <<OpenedAs(ShimCount, mem # <<>>, IF armed THEN {MainThread} ELSE {},
                      ret \in {0, -4}, ret = 0), ret>>
               \in EngineOpen(NewProcess, MainThread)
  <2>1. ret \in -4 .. 0 /\ (mem = <<>> => ~armed) /\ (~armed => ret = -1)
    BY <1>1 DEF LInv, Progress, Ended
  <2> DEFINE th == {MainThread}
             x == OpenedAs(ShimCount, mem # <<>>, IF armed THEN th ELSE {},
                         ret \in {0, -4}, ret = 0)
             e == Registered(ShimCount)
             r == Reserved(ShimCount)
             a == ArmedFor(ShimCount, th)
             i == Found(ShimCount, th)
             l == Usable(ShimCount, th)
             ends == {<<e, -1>>, <<r, -1>>, <<i, -4>>, <<l, 0>>} \cup {a} \X {-1, -2, -3}
  <2>2. EngineOpen(NewProcess, MainThread) = LoadOutcomes(e, MainThread)
    <3>1. ~NewProcess.loaded /\ NewProcess.shims = 0 BY DEF NewProcess
    <3>2. 0 + ShimCount = ShimCount /\ ~(0 + ShimCount > ShimTable)
      BY ShimAssumption, SMT
    <3> QED BY <3>1, <3>2 DEF EngineOpen, Registered
  <2>3. LoadOutcomes(e, MainThread) = ends
    <3>1. r = [e EXCEPT !.reserved = TRUE] /\ ~e.reserved
      BY Zenon DEF Registered, Reserved, NewProcess
    <3>2. SetGs(r, MainThread) = a
      BY DEF SetGs, Registered, Reserved, ArmedFor, NewProcess
    <3>3. i = [a EXCEPT !.iface = TRUE] BY DEF Found
    <3>4. [a EXCEPT !.iface = TRUE, !.loaded = TRUE] = l BY Zenon DEF Usable, Found
    <3> HIDE DEF e, r, a, i, l
    <3> QED BY <3>1, <3>2, <3>3, <3>4, Zenon DEF LoadOutcomes
  <2>4. /\ e = OpenedAs(ShimCount, FALSE, {}, FALSE, FALSE)
        /\ r = OpenedAs(ShimCount, TRUE, {}, FALSE, FALSE)
        /\ a = OpenedAs(ShimCount, TRUE, th, FALSE, FALSE)
        /\ i = OpenedAs(ShimCount, TRUE, th, TRUE, FALSE)
        /\ l = OpenedAs(ShimCount, TRUE, th, TRUE, TRUE)
    BY OpenedSteps, Zenon
  <2> HIDE DEF e, r, a, i, l
  <2>5. <<x, ret>> \in ends
    <3>1. CASE ~armed
      <4>1. ret = -1 BY <2>1, <3>1
      <4>2. (ret \in {0, -4}) = FALSE /\ (ret = 0) = FALSE BY <4>1
      <4>3. (mem # <<>>) = TRUE \/ (mem # <<>>) = FALSE OBVIOUS
      <4>4. x = e \/ x = r BY <2>4, <3>1, <4>2, <4>3, Zenon
      <4> QED BY <4>1, <4>4, Zenon
    <3>2. CASE armed
      <4>1. (mem # <<>>) = TRUE BY <2>1, <3>2
      <4>2. CASE ret = 0
        <5>1. (ret \in {0, -4}) = TRUE /\ (ret = 0) = TRUE BY <4>2
        <5>2. x = l BY <2>4, <3>2, <4>1, <5>1, Zenon
        <5> QED BY <4>2, <5>2, Zenon
      <4>3. CASE ret = -4
        <5>1. (ret \in {0, -4}) = TRUE /\ (ret = 0) = FALSE BY <4>3
        <5>2. x = i BY <2>4, <3>2, <4>1, <5>1, Zenon
        <5> QED BY <4>3, <5>2, Zenon
      <4>4. CASE ret \in {-1, -2, -3}
        <5>1. (ret \in {0, -4}) = FALSE /\ (ret = 0) = FALSE BY <4>4
        <5>2. x = a BY <2>4, <3>2, <4>1, <5>1, Zenon
        <5> QED BY <4>4, <5>2, Zenon
      <4>5. ret \in {-1, -2, -3} \/ ret = 0 \/ ret = -4 BY <2>1, SMT
      <4> QED BY <4>2, <4>3, <4>4, <4>5
    <3> QED BY <3>1, <3>2
  <2> QED BY <2>2, <2>3, <2>5
<1>2. LInv => OpenIsEngineOpen BY <1>1, Zenon DEF OpenIsEngineOpen, OpenedAs
<1> QED BY <1>2, LoaderInvariant, PTL

------------------------------------------------------------------------------
(* Where two sentences of the documentation hold, and what they are owed.    *)

OnlyCallbacksUnarmed ==
  \A x \in entered :
    ~x[2] => x[1] = "callback" /\ file.tls.at # 0 /\ file.tls.funs # <<>>

LEMMA EnteredStep ==
  LInv /\ OnlyCallbacksUnarmed /\ [Next]_vars => OnlyCallbacksUnarmed'
<1> SUFFICES ASSUME LInv, OnlyCallbacksUnarmed, [Next]_vars
             PROVE  OnlyCallbacksUnarmed'
  OBVIOUS
<1>1. CASE UNCHANGED <<file, entered>> BY <1>1 DEF OnlyCallbacksUnarmed
<1>2. CASE RunCallback
  <2>1. /\ pc = "callbacks" /\ file.tls.at # 0 /\ file \in Files /\ TypeOK
        /\ file' = file
    BY <1>2 DEF RunCallback, LInv, Progress, Table
  <2>2. \/ entered' = entered
        \/ /\ ~(at > Len(file.tls.funs))
           /\ entered' = entered \cup {<<"callback", armed>>}
    BY <1>2 DEF RunCallback, Jump
  <2>3. ~(at > Len(file.tls.funs)) => file.tls.funs # <<>>
    BY <2>1 DEF TypeOK
  <2> QED BY <2>1, <2>2, <2>3 DEF OnlyCallbacksUnarmed
<1>3. CASE CallDllMain \/ CallQuery \/ CallAttach
  <2>1. armed /\ file' = file
    BY <1>3, MappedFacts DEF Mapped, CallDllMain, CallQuery, CallAttach
  <2>2. \/ entered' = entered
        \/ \E what \in {"DllMain", "Query", "Attach"} :
             entered' = entered \cup {<<what, armed>>}
    BY <1>3 DEF CallDllMain, CallQuery, CallAttach, Jump
  <2>3. ASSUME NEW x \in entered', ~x[2] PROVE x \in entered
    <3>1. SUFFICES ASSUME NEW what \in {"DllMain", "Query", "Attach"},
                          entered' = entered \cup {<<what, armed>>}
                   PROVE  x \in entered
      BY <2>2, <2>3
    <3>2. x = <<what, armed>> => x[2] = armed OBVIOUS
    <3> QED BY <2>1, <2>3, <3>1, <3>2, Zenon
  <2> QED BY <2>1, <2>3, Zenon DEF OnlyCallbacksUnarmed
<1>4. CASE \/ CheckHeaders \/ OpenSidecar \/ Reserve \/ MapHeaders \/ MapSection
           \/ FindImports \/ ResolveImports \/ SetUpTls \/ ArmTeb
  <2>1. UNCHANGED <<file, entered>>
    BY <1>4 DEF CheckHeaders, OpenSidecar, Reserve, MapHeaders, MapSection,
                FindImports, ResolveImports, SetUpTls, ArmTeb
  <2> QED BY <1>1, <2>1
<1> QED BY <1>1, <1>2, <1>3, <1>4, Zenon DEF Next, vars

(* DllMain, Query and Attach are entered with %gs armed: only the callbacks  *)
(* load_pe runs for a TLS directory come before arm_teb.                     *)
THEOREM OnlyCallbacksComeEarly == Spec => []OnlyCallbacksUnarmed
<1>1. Init => OnlyCallbacksUnarmed BY DEF Init, OnlyCallbacksUnarmed
<1> QED BY <1>1, EnteredStep, LoaderInvariant, PTL DEF Spec

(* A DLL that names no TLS callback is armed on every entry into it.         *)
THEOREM ArmedWithoutCallbacks ==
  Spec => [](file.tls.at = 0 \/ file.tls.funs = <<>> => ArmedOnEveryEntry)
<1>1. OnlyCallbacksUnarmed
        => (file.tls.at = 0 \/ file.tls.funs = <<>> => ArmedOnEveryEntry)
  BY DEF OnlyCallbacksUnarmed, ArmedOnEveryEntry
<1> QED BY <1>1, OnlyCallbacksComeEarly, PTL

\* Every import slot of the DLL lies in a section that is not code.
ImportsInData(f) ==
  \A k \in DOMAIN f.imp.descs : \A c \in f.imp.descs[k].iat .. f.image :
    c < f.imp.descs[k].iat + Len(f.imp.descs[k].fns) => IsData(f, c)

\* Slots are first written when the image is complete; from then on no write
\* outside writable data is survived, and an innocent table makes none.
SlotInv ==
  /\ pc \in {"check", "sidecar", "reserve", "headers", "sections"} => slots = {}
  /\ pc # "crashed" \/ ImportsInData(file) => \A c \in slots : Protection(c) = "rw"

LEMMA SlotStep == LInv /\ SlotInv /\ [Next]_vars => SlotInv'
<1> SUFFICES ASSUME LInv, SlotInv, [Next]_vars PROVE SlotInv' OBVIOUS
<1>1. CASE pc' = pc /\ UNCHANGED <<file, mem, slots>>
  BY <1>1 DEF SlotInv, Protection, ImportsInData, IsData, IsCode, Covering
<1>2. CASE /\ pc \in {"check", "sidecar", "reserve", "headers", "sections"}
           /\ UNCHANGED slots
  BY <1>2 DEF SlotInv
<1>3. CASE pc # "crashed" /\ UNCHANGED <<file, mem, slots>>
           /\ pc' \notin {"check", "sidecar", "reserve", "headers", "sections"}
  BY <1>3 DEF SlotInv, Protection
<1>4. CASE ResolveImports
  <2> DEFINE d == file.imp.descs[at]
             writes == Written(d)
  <2>1. /\ pc = "imports" /\ AllMapped /\ file \in Files /\ TypeOK
        /\ UNCHANGED <<file, mem>>
    BY <1>4, MappedFacts DEF ResolveImports, Mapped, AllMapped
  <2>2. pc' \notin {"check", "sidecar", "reserve", "headers", "sections"}
    BY <1>4, <2>1, ImportTurn
  <2>3. /\ \A c \in slots : Protection(c) = "rw"
        /\ \A c : Protection(c)' = Protection(c)
    BY <2>1 DEF SlotInv, Protection
  <2>4. CASE UNCHANGED slots BY <2>2, <2>3, <2>4 DEF SlotInv
  <2>5. CASE ~(UNCHANGED slots)
    <3>1. /\ ~(at > Len(file.imp.descs)) /\ slots' = slots \cup writes
          /\ (\E c \in writes : Protection(c) # "rw") <=> pc' = "crashed"
      BY <1>4, <2>1, <2>5 DEF ResolveImports, Return, Goto, Again, Crash
    <3>2. file.imp.descs \in Seq(Descriptor)
      BY <2>1, FileAssumption DEF Descriptor
    <3>3. /\ at \in 1 .. Len(file.imp.descs)
          /\ DOMAIN file.imp.descs = 1 .. Len(file.imp.descs)
      BY <2>1, <3>1, <3>2, SMT DEF TypeOK
    <3>4. ASSUME ImportsInData(file), NEW c \in writes PROVE Protection(c) = "rw"
      <4>1. c \in Int /\ c \in d.iat .. file.image /\ c < d.iat + Len(d.fns)
        BY <2>1, <3>3, <3>4, WrittenSlots
      <4>2. IsData(file, c) BY <3>3, <3>4, <4>1 DEF ImportsInData
      <4> QED BY <2>1, <4>1, <4>2, MemoryTells DEF AllMapped
    <3> HIDE DEF writes
    <3>5. pc' # "crashed" \/ ImportsInData(file)
            => \A c \in slots' : Protection(c) = "rw"
      BY <2>3, <3>1, <3>4
    <3> QED BY <2>1, <2>2, <2>3, <3>5 DEF SlotInv
  <2> QED BY <2>4, <2>5
<1>5. CASE CheckHeaders \/ OpenSidecar \/ Reserve \/ MapHeaders
  <2>1. /\ pc \in {"check", "sidecar", "reserve", "headers"} /\ UNCHANGED slots
        /\ pc' # "crashed"
    BY <1>5 DEF CheckHeaders, OpenSidecar, Reserve, MapHeaders, Goto, Return
  <2> QED BY <1>2, <2>1
<1>6. CASE MapSection \/ FindImports
  <2>1. pc = "sections" /\ UNCHANGED slots BY <1>6 DEF MapSection, FindImports
  <2> QED BY <1>2, <2>1
<1>7. CASE SetUpTls \/ RunCallback \/ ArmTeb \/ CallDllMain \/ CallQuery \/ CallAttach
  <2>1. /\ pc \in {"tls", "callbacks", "teb", "entry", "export", "attach"}
        /\ UNCHANGED <<file, mem, slots>>
    BY <1>7 DEF SetUpTls, RunCallback, ArmTeb, CallDllMain, CallQuery, CallAttach
  <2>2. pc' \in {"tls", "callbacks", "teb", "entry", "export", "attach",
                 "returned", "crashed"}
    BY <1>7, <2>1 DEF SetUpTls, RunCallback, ArmTeb, CallDllMain, CallQuery, CallAttach,
                      Jump, Goto, Return, Again, Crash
  <2> QED BY <1>3, <2>1, <2>2
<1> QED BY <1>1, <1>4, <1>5, <1>6, <1>7, Zenon DEF Next, vars

LEMMA SlotsKept == Spec => []SlotInv
<1>1. Init => SlotInv BY DEF Init, SlotInv
<1> QED BY <1>1, SlotStep, LoaderInvariant, PTL DEF Spec

(* Of a DLL whose import slots lie in data sections load_pe writes, where    *)
(* the comment above its check says it must, and nothing else.               *)
THEOREM SlotsOfSoundImports == Spec => [](ImportsInData(file) => IatInWritableData)
<1>1. SlotInv => (ImportsInData(file) => IatInWritableData)
  BY DEF SlotInv, IatInWritableData
<1> QED BY <1>1, SlotsKept, PTL
==============================================================================
