-------------------------- MODULE FrameGeometryProofs --------------------------
(***************************************************************************)
(* Proofs about the preparation of a frame for every geometry, of the      *)
(* engine and of the frame.  A pixel is read at column `col` of row `row`  *)
(* of the frame, both inside it (Source), so its index is inside the       *)
(* buffer (Inside) and is read back as that column and row (Place).  The   *)
(* inductive invariant says which rows of `small` the loop has written.    *)
(***************************************************************************)
EXTENDS FrameGeometry, TLAPS

\* C's division, for a dividend that is not negative.
LEMMA Dividing ==
  ASSUME NEW a \in Nat, NEW b \in Nat \ {0}
  PROVE  /\ a \div b \in Nat /\ a % b \in 0 .. b - 1
         /\ b * (a \div b) <= a /\ a < b * (a \div b) + b
<1>1. a \div b \in Int /\ a \div b >= 0 /\ a % b \in 0 .. b - 1 BY SMT
<1>2. b * (a \div b) <= a BY SMT
<1>3. a < b * (a \div b) + b BY SMT
<1> QED BY <1>1, <1>2, <1>3

LEMMA Scaled ==
  ASSUME NEW a \in Nat, NEW b \in Nat, NEW c \in Nat, a <= b
  PROVE  a * c <= b * c
BY SMT

\* A product is not below a larger one of the same factor.
LEMMA Below ==
  ASSUME NEW a \in Nat, NEW b \in Nat, NEW c \in Nat, c * a < c * b
  PROVE  a < b
<1>1. ASSUME b <= a PROVE FALSE
  <2>1. b * c <= a * c BY <1>1, Scaled
  <2> QED BY <2>1, SMT
<1> QED BY <1>1, SMT

LEMMA Place ==
  ASSUME NEW w \in Nat \ {0}, NEW r \in Nat, NEW c \in 0 .. w - 1
  PROVE  (r * w + c) \div w = r /\ (r * w + c) % w = c
<1> DEFINE a == r * w + c
<1>1. a \in Int /\ a = w * r + c /\ w \in Int /\ w > 0 /\ r \in Int BY SMT
<1> HIDE DEF a
<1>2. r = a \div w BY <1>1, SMTT(30)
<1>3. c = a % w BY <1>1, SMTT(30)
<1> QED BY <1>2, <1>3 DEF a

LEMMA Inside ==
  ASSUME NEW w \in Nat \ {0}, NEW h \in Nat, NEW r \in 0 .. h - 1, NEW c \in 0 .. w - 1
  PROVE  r * w + c \in 0 .. w * h - 1
<1>1. r * w <= (h - 1) * w BY Scaled, SMT
<1>2. (h - 1) * w = w * h - w BY SMT
<1>3. r * w \in Nat /\ w * h \in Nat BY SMT
<1> QED BY <1>1, <1>2, <1>3, SMT

\* The place of the engine's column x in a frame of n pixels a side.
CropAt(n, side, x) == ((n - side) \div 2) + x
ScaleAt(n, side, x) == (x * n) \div side

LEMMA Cropping ==
  ASSUME NEW side \in Nat \ {0}, NEW n \in Nat \ {0}, NEW x \in 0 .. side - 1, side <= n
  PROVE  /\ CropAt(n, side, x) \in 0 .. n - 1
         /\ (n - side) \div 2 \in 0 .. n /\ Centred(n - side, (n - side) \div 2)
<1> DEFINE rest == n - side
<1>1. rest \in Nat /\ 2 \in Nat \ {0} BY SMT
<1> HIDE DEF rest
<1>2. rest \div 2 \in Nat /\ 2 * (rest \div 2) <= rest /\ rest < 2 * (rest \div 2) + 2
  BY <1>1, Dividing
<1> DEFINE half == rest \div 2
<1> HIDE DEF half
<1>3. half \in Nat /\ 2 * half <= rest /\ rest < 2 * half + 2 BY <1>2 DEF half
<1>4. half + x \in 0 .. n - 1 /\ half \in 0 .. n /\ half >= 0 /\ rest - 2 * half \in {0, 1}
  BY <1>3, SMT DEF rest
<1> QED BY <1>4 DEF half, rest, CropAt, Centred

LEMMA Scaling ==
  ASSUME NEW side \in Nat \ {0}, NEW n \in Nat \ {0}, NEW x \in 0 .. side - 1
  PROVE  /\ ScaleAt(n, side, x) \in 0 .. n - 1
         /\ Nearest(n, side, x, ScaleAt(n, side, x))
<1> DEFINE q == (x * n) \div side
<1>1. x * n \in Nat BY SMT
<1>2. q \in Nat /\ side * q <= x * n /\ x * n < side * q + side BY <1>1, Dividing
<1> HIDE DEF q
<1>3. (x + 1) * n <= side * n BY Scaled, SMT
<1>4. x * n < side * n BY <1>1, <1>3, SMT
<1>5. side * q < side * n BY <1>1, <1>2, <1>4, SMT
<1>6. q < n BY <1>2, <1>5, Below
<1>7. q * side <= x * n /\ x * n < (q + 1) * side BY <1>2, SMT
<1> QED BY <1>2, <1>6, <1>7, SMT DEF ScaleAt, Nearest, q

------------------------------------------------------------------------------
\* The column and the row a pixel is read at.
ColAt(f, x)   == IF Cropped(f) THEN CropAt(f.sw, ENG_W, x) ELSE ScaleAt(f.sw, ENG_W, x)
RowAt(f, row) == IF Cropped(f) THEN CropAt(f.sh, ENG_H, row) ELSE ScaleAt(f.sh, ENG_H, row)

LEMMA Source ==
  ASSUME NEW f \in Frames, NEW x \in 0 .. ENG_W - 1, NEW row \in 0 .. ENG_H - 1
  PROVE  /\ ColAt(f, x) \in 0 .. f.sw - 1 /\ RowAt(f, row) \in 0 .. f.sh - 1
         /\ SourceIndex(f, x, row) = RowAt(f, row) * f.sw + ColAt(f, x)
<1>1. /\ f.sw \in Nat \ {0} /\ f.sh \in Nat \ {0}
      /\ ENG_W \in Nat \ {0} /\ ENG_H \in Nat \ {0}
  BY GeometryAssumption, SMT DEF Frames, Sides
<1>2. CASE Cropped(f)
  <2>1. ENG_W <= f.sw /\ ENG_H <= f.sh BY <1>1, <1>2, SMT DEF Cropped
  <2>2. CropAt(f.sw, ENG_W, x) \in 0 .. f.sw - 1 BY <1>1, <2>1, Cropping
  <2>3. CropAt(f.sh, ENG_H, row) \in 0 .. f.sh - 1 BY <1>1, <2>1, Cropping
  <2>4. SourceIndex(f, x, row) = CropAt(f.sh, ENG_H, row) * f.sw + ((f.sw - ENG_W) \div 2) + x
    BY <1>2, Zenon DEF SourceIndex, CropAt
  <2>5. (f.sw - ENG_W) \div 2 \in Nat
    <3>1. (f.sw - ENG_W) \div 2 \in 0 .. f.sw BY <1>1, <2>1, Cropping
    <3> QED BY <3>1
  <2>6. SourceIndex(f, x, row) = CropAt(f.sh, ENG_H, row) * f.sw + CropAt(f.sw, ENG_W, x)
    <3> DEFINE p == CropAt(f.sh, ENG_H, row) * f.sw   half == (f.sw - ENG_W) \div 2
    <3>1. p \in Int BY <1>1, <2>3, SMT
    <3> HIDE DEF p, half
    <3>2. p + half + x = p + (half + x) BY <2>5, <3>1, SMT DEF half
    <3> QED BY <2>4, <3>2, Zenon DEF CropAt, p, half
  <2> QED BY <1>2, <2>2, <2>3, <2>6 DEF ColAt, RowAt
<1>3. CASE ~Cropped(f)
  <2>1. ScaleAt(f.sw, ENG_W, x) \in 0 .. f.sw - 1 BY <1>1, Scaling
  <2>2. ScaleAt(f.sh, ENG_H, row) \in 0 .. f.sh - 1 BY <1>1, Scaling
  <2>3. SourceIndex(f, x, row) = ScaleAt(f.sh, ENG_H, row) * f.sw + ScaleAt(f.sw, ENG_W, x)
    BY <1>3, Zenon DEF SourceIndex, ScaleAt
  <2> QED BY <1>3, <2>1, <2>2, <2>3 DEF ColAt, RowAt
<1> QED BY <1>2, <1>3

\* A read is inside the buffer and finds the pixel of that column and row.
LEMMA ReadAt ==
  ASSUME NEW f \in Frames, NEW x \in 0 .. ENG_W - 1, NEW row \in 0 .. ENG_H - 1
  PROVE  /\ SourceIndex(f, x, row) \in 0 .. f.sw * f.sh - 1
         /\ Pixel(f, SourceIndex(f, x, row)) = <<f.no, ColAt(f, x), RowAt(f, row)>>
<1>1. f.sw \in Nat \ {0} /\ f.sh \in Nat BY SMT DEF Frames, Sides
<1>2. SourceIndex(f, x, row) \in 0 .. f.sw * f.sh - 1
  BY <1>1, Source, Inside
<1>3. /\ SourceIndex(f, x, row) \div f.sw = RowAt(f, row)
      /\ SourceIndex(f, x, row) % f.sw = ColAt(f, x)
  <2> DEFINE r == RowAt(f, row)   c == ColAt(f, x)
  <2>1. r \in 0 .. f.sh - 1 /\ c \in 0 .. f.sw - 1 BY Source
  <2>2. SourceIndex(f, x, row) = r * f.sw + c BY Source
  <2> HIDE DEF r, c
  <2>3. r \in Nat BY <1>1, <2>1, SMT
  <2>4. (r * f.sw + c) \div f.sw = r /\ (r * f.sw + c) % f.sw = c
    BY <1>1, <2>1, <2>3, Place
  <2> QED BY <2>2, <2>4, Zenon DEF r, c
<1> QED BY <1>2, <1>3 DEF Pixel

LEMMA CellPlace ==
  ASSUME NEW c \in Cells
  PROVE  c % ENG_W \in 0 .. ENG_W - 1 /\ c \div ENG_W \in 0 .. ENG_H - 1
<1>1. ENG_W \in Nat \ {0} /\ ENG_H \in Nat \ {0} BY GeometryAssumption
<1>2. c \in Nat /\ c < ENG_W * ENG_H BY <1>1, SMT DEF Cells
<1> DEFINE q == c \div ENG_W
<1>3. /\ q \in Nat /\ c % ENG_W \in 0 .. ENG_W - 1 /\ ENG_W * q <= c
  BY <1>1, <1>2, Dividing
<1> HIDE DEF q
<1>4. ENG_W * q < ENG_W * ENG_H BY <1>1, <1>2, <1>3, SMT
<1>5. q < ENG_H BY <1>1, <1>3, <1>4, Below
<1> QED BY <1>1, <1>3, <1>5, SMT DEF q

------------------------------------------------------------------------------
(* The rows the loop has written hold this frame.                            *)
Copied ==
  \A c \in Cells : c \div ENG_W < y =>
    small[c] = <<frame.no, ColAt(frame, c % ENG_W), RowAt(frame, c \div ENG_W)>>

GInv ==
  /\ frame \in Frames /\ y \in 0 .. ENG_H
  /\ small = [c \in Cells |-> small[c]]
  /\ Copied

LEMMA InitGInv == Init => GInv
<1> SUFFICES ASSUME Init PROVE GInv OBVIOUS
<1>1. frame \in Frames /\ y = 0 /\ y \in 0 .. ENG_H
  BY GeometryAssumption, SMT DEF Init
<1>2. small = [c \in Cells |-> small[c]] BY Zenon DEF Init
<1>3. Copied
  <2> SUFFICES ASSUME NEW c \in Cells, c \div ENG_W < y PROVE FALSE BY DEF Copied
  <2>1. c \div ENG_W \in 0 .. ENG_H - 1 BY CellPlace
  <2> QED BY <1>1, <2>1, GeometryAssumption, SMT
<1> QED BY <1>1, <1>2, <1>3 DEF GInv

LEMMA CopyRowGInv == GInv /\ CopyRow => GInv'
<1> SUFFICES ASSUME GInv, CopyRow PROVE GInv' OBVIOUS
<1> DEFINE new == [c \in Cells |-> IF c \div ENG_W = y
                     THEN Pixel(frame, SourceIndex(frame, c % ENG_W, y)) ELSE small[c]]
<1>1. frame \in Frames /\ frame' = frame /\ y \in 0 .. ENG_H - 1 /\ y' = y + 1
  BY GeometryAssumption, SMT DEF GInv, CopyRow
<1>2. small' = new BY DEF CopyRow
<1>3. small' = [c \in Cells |-> small'[c]] BY <1>2, Zenon
<1>4. Copied'
  <2> SUFFICES ASSUME NEW c \in Cells, c \div ENG_W < y + 1
               PROVE  small'[c] = <<frame.no, ColAt(frame, c % ENG_W), RowAt(frame, c \div ENG_W)>>
    BY <1>1 DEF Copied, ColAt, RowAt, CropAt, ScaleAt, Cropped
  <2>1. c % ENG_W \in 0 .. ENG_W - 1 /\ c \div ENG_W \in 0 .. ENG_H - 1 BY CellPlace
  <2>2. CASE c \div ENG_W = y
    <3>1. small'[c] = Pixel(frame, SourceIndex(frame, c % ENG_W, y)) BY <1>2, <2>2
    <3> QED BY <1>1, <2>1, <2>2, <3>1, ReadAt
  <2>3. CASE c \div ENG_W # y
    <3>1. c \div ENG_W < y BY <1>1, <2>1, <2>3, GeometryAssumption, SMT
    <3> QED BY <1>2, <2>3, <3>1 DEF GInv, Copied
  <2> QED BY <2>2, <2>3
<1>5. y' \in 0 .. ENG_H BY <1>1, GeometryAssumption, SMT
<1> QED BY <1>1, <1>3, <1>4, <1>5 DEF GInv

LEMMA AcceptGInv == GInv /\ Accept => GInv'
<1> SUFFICES ASSUME GInv, Accept PROVE GInv' OBVIOUS
<1>1. frame \in Frames /\ y' = 0 /\ small' = small BY DEF GInv, Accept
<1>2. frame' \in Frames
  <2>1. frame.no \in {0, 1} /\ frame.scale \in BOOLEAN BY <1>1 DEF Frames
  <2>2. 1 - frame.no \in {0, 1} BY <2>1, SMT
  <2> QED BY <2>1, <2>2 DEF Accept, Frames
<1>3. y' \in 0 .. ENG_H BY <1>1, GeometryAssumption, SMT
<1>4. Copied'
  <2> SUFFICES ASSUME NEW c \in Cells, c \div ENG_W < y' PROVE FALSE BY DEF Copied
  <2>1. c \div ENG_W \in 0 .. ENG_H - 1 BY CellPlace
  <2> QED BY <1>1, <2>1, GeometryAssumption, SMT
<1> QED BY <1>1, <1>2, <1>3, <1>4 DEF GInv

(* The rows of `small` above the loop's hold this frame, in every state, for *)
(* every geometry of the engine and of the frame.                            *)
THEOREM GeometryInvariant == Spec => []GInv
<1>1. GInv /\ [Next]_vars => GInv'
  <2> SUFFICES ASSUME GInv, [Next]_vars PROVE GInv' OBVIOUS
  <2>1. CASE Next BY <2>1, CopyRowGInv, AcceptGInv DEF Next
  <2>2. CASE UNCHANGED vars
    BY <2>2 DEF vars, GInv, Copied, ColAt, RowAt, CropAt, ScaleAt, Cropped
  <2> QED BY <2>1, <2>2
<1> QED BY <1>1, InitGInv, PTL DEF Spec

(* prepare_frame and resize read no byte outside the frame's buffer.         *)
THEOREM ReadsStayInFrame == Spec => []ReadsInFrame
<1>1. GInv => ReadsInFrame
  BY ReadAt DEF GInv, ReadsInFrame
<1> QED BY <1>1, GeometryInvariant, PTL

(* The DLL is handed the whole of this frame: centred and undistorted if it  *)
(* is large enough, else its nearest pixels, and nothing of the frame before *)
(* it.                                                                       *)
THEOREM HandsOverWholeFrame == Spec => []WholeFrame
<1>1. GInv => WholeFrame
  <2> SUFFICES ASSUME GInv, y = ENG_H PROVE Picture(frame, small) BY DEF WholeFrame
  <2> DEFINE W == frame.sw - ENG_W   H == frame.sh - ENG_H
             Ox == IF Cropped(frame) THEN W \div 2 ELSE 0
             Oy == IF Cropped(frame) THEN H \div 2 ELSE 0
  <2>1. /\ frame \in Frames /\ MaxSide \in Nat /\ frame.sw \in 1 .. MaxSide
        /\ frame.sh \in 1 .. MaxSide /\ ENG_W \in Nat \ {0} /\ ENG_H \in Nat \ {0}
    BY GeometryAssumption DEF GInv, Frames, Sides
  <2>2. frame.sw \in Nat \ {0} /\ frame.sh \in Nat \ {0} BY <2>1, SMT
  <2>3. ASSUME Cropped(frame)
        PROVE  W \div 2 \in 0 .. MaxSide /\ H \div 2 \in 0 .. MaxSide
               /\ Centred(W, W \div 2) /\ Centred(H, H \div 2)
    <3>1. ENG_W <= frame.sw /\ ENG_H <= frame.sh BY <2>3, <2>1, SMT DEF Cropped
    <3>2. 0 \in 0 .. ENG_W - 1 /\ 0 \in 0 .. ENG_H - 1 BY <2>1, SMT
    <3>3. W \div 2 \in 0 .. frame.sw /\ Centred(W, W \div 2)
      BY <2>1, <2>2, <3>1, <3>2, Cropping
    <3>4. H \div 2 \in 0 .. frame.sh /\ Centred(H, H \div 2)
      BY <2>1, <2>2, <3>1, <3>2, Cropping
    <3> QED BY <2>1, <3>3, <3>4, SMT
  <2>4. Ox \in 0 .. MaxSide /\ Oy \in 0 .. MaxSide BY <2>1, <2>3, SMT
  <2>5. ASSUME NEW c \in Cells
        PROVE  LET col == c % ENG_W  row == c \div ENG_W  p == small[c] IN
               /\ p[1] = frame.no
               /\ IF frame.sw >= ENG_W /\ frame.sh >= ENG_H /\ ~frame.scale
                  THEN /\ Centred(W, Ox) /\ Centred(H, Oy)
                       /\ p = <<frame.no, Ox + col, Oy + row>>
                  ELSE /\ Nearest(frame.sw, ENG_W, col, p[2])
                       /\ Nearest(frame.sh, ENG_H, row, p[3])
    <3> DEFINE col == c % ENG_W   row == c \div ENG_W
    <3>1. col \in 0 .. ENG_W - 1 /\ row \in 0 .. ENG_H - 1 BY CellPlace
    <3>2. row < y BY <2>1, <3>1, SMT
    <3>3. small[c] = <<frame.no, ColAt(frame, col), RowAt(frame, row)>>
      BY <3>2 DEF GInv, Copied
    <3>4. CASE Cropped(frame)
      <4>1. Centred(W, Ox) /\ Centred(H, Oy) BY <2>3, <3>4, Zenon
      <4>2. small[c] = <<frame.no, Ox + col, Oy + row>>
        BY <3>3, <3>4, Zenon DEF ColAt, RowAt, CropAt
      <4>3. small[c][1] = frame.no BY <4>2
      <4> QED BY <3>4, <4>1, <4>2, <4>3, Zenon DEF Cropped
    <3>5. CASE ~Cropped(frame)
      <4>1. /\ Nearest(frame.sw, ENG_W, col, ScaleAt(frame.sw, ENG_W, col))
            /\ Nearest(frame.sh, ENG_H, row, ScaleAt(frame.sh, ENG_H, row))
        BY <2>1, <2>2, <3>1, Scaling
      <4>2. /\ small[c][1] = frame.no
            /\ small[c][2] = ScaleAt(frame.sw, ENG_W, col)
            /\ small[c][3] = ScaleAt(frame.sh, ENG_H, row)
        BY <3>3, <3>5 DEF ColAt, RowAt
      <4> QED BY <3>5, <4>1, <4>2, Zenon DEF Cropped
    <3> QED BY <3>4, <3>5
  <2> QED BY <2>4, <2>5 DEF Picture
<1> QED BY <1>1, GeometryInvariant, PTL
==============================================================================
