----------------------------- MODULE FrameGeometry -----------------------------
(***************************************************************************)
(* What ft_engine_accept makes of a frame before it hands it to the DLL:   *)
(* prepare_frame crops or scales it into the static buffer `small`, and    *)
(* build_bir wraps that.  A frame is its geometry, a pixel the place in    *)
(* the frame it was read from; `small` outlives the call, so that it may   *)
(* hold pixels of the frame before.                                        *)
(***************************************************************************)
EXTENDS Integers

CONSTANTS
  ENG_W, ENG_H,   \* the engine's geometry
  MaxSide         \* largest width or height a frame may have

ASSUME GeometryAssumption ==
  {ENG_W, ENG_H, MaxSide} \subseteq Nat \ {0}

Sides  == 1 .. MaxSide
Frames == [no : {0, 1}, sw : Sides, sh : Sides, scale : BOOLEAN]
Cells  == 0 .. ENG_W * ENG_H - 1
Nothing == <<-1, -1, -1>>      \* a byte no frame was copied to

VARIABLES
  frame,   \* the frame being prepared; `scale`: FT9201_SCALE is set
  y,       \* the row of `small` to be written next
  small,
  bir      \* the pixels of the last BIR handed to the DLL

vars == <<frame, y, small, bir>>

\* The pixel at index k of a frame's buffer of sw * sh bytes.
Pixel(f, k) ==
  IF k \in 0 .. f.sw * f.sh - 1 THEN <<f.no, k % f.sw, k \div f.sw>> ELSE Nothing

\* Mutant of Cropped: one side is enough.
CroppedEither(f) == (f.sw >= ENG_W \/ f.sh >= ENG_H) /\ ~f.scale

Cropped(f) == f.sw >= ENG_W /\ f.sh >= ENG_H /\ ~f.scale

\* Mutant of SourceIndex: the window starts at half the frame, not of the rest.
SourceIndexUncentred(f, x, row) ==
  IF Cropped(f)
  THEN ((f.sh \div 2) - ENG_H + row) * f.sw + (f.sw \div 2) - ENG_W + x
  ELSE ((row * f.sh) \div ENG_H) * f.sw + (x * f.sw) \div ENG_W

\* Where the pixel for column x of a row is read: the crop, or resize.
SourceIndex(f, x, row) ==
  IF Cropped(f)
  THEN (((f.sh - ENG_H) \div 2) + row) * f.sw + ((f.sw - ENG_W) \div 2) + x
  ELSE ((row * f.sh) \div ENG_H) * f.sw + (x * f.sw) \div ENG_W

------------------------------------------------------------------------------
Init ==
  /\ frame \in Frames /\ frame.no = 0 /\ y = 0
  /\ small = [c \in Cells |-> Nothing] /\ bir = small

CopyRow ==
  /\ y < ENG_H
  /\ small' = [c \in Cells |-> IF c \div ENG_W = y
                               THEN Pixel(frame, SourceIndex(frame, c % ENG_W, y))
                               ELSE small[c]]
  /\ y' = y + 1 /\ UNCHANGED <<frame, bir>>

\* build_bir copies w * h bytes; the DLL is called, and the next frame comes.
Accept ==
  /\ y = ENG_H
  /\ bir' = small /\ y' = 0 /\ UNCHANGED small
  /\ frame' \in [no : {1 - frame.no}, sw : Sides, sh : Sides, scale : {frame.scale}]

Next == CopyRow \/ Accept

Spec == Init /\ [][Next]_vars

------------------------------------------------------------------------------
(* Every pixel is read inside the frame's buffer, however its sides compare  *)
(* with the engine's.                                                        *)
ReadsInFrame ==
  \A x \in 0 .. ENG_W - 1 : \A row \in 0 .. ENG_H - 1 :
    SourceIndex(frame, x, row) \in 0 .. frame.sw * frame.sh - 1

(* What a prepared frame is: of a frame that is large enough the centred     *)
(* window, undistorted; of any other the nearest pixel at or before, so that *)
(* no column or row is moved past another.                                   *)
Centred(rest, from) == from >= 0 /\ rest - 2 * from \in {0, 1}
Nearest(n, side, at, from) ==
  from * side <= at * n /\ at * n < (from + 1) * side
Picture(f, image) ==
  \E ox, oy \in 0 .. MaxSide : \A c \in Cells :
    LET col == c % ENG_W  row == c \div ENG_W  p == image[c] IN
    /\ p[1] = f.no
    /\ IF f.sw >= ENG_W /\ f.sh >= ENG_H /\ ~f.scale
       THEN /\ Centred(f.sw - ENG_W, ox) /\ Centred(f.sh - ENG_H, oy)
            /\ p = <<f.no, ox + col, oy + row>>
       ELSE /\ Nearest(f.sw, ENG_W, col, p[2])
            /\ Nearest(f.sh, ENG_H, row, p[3])

(* When the DLL is handed a frame it is all of this frame, row for row, and  *)
(* no byte the frame before it left in the static buffer.                    *)
WholeFrame == y = ENG_H => Picture(frame, small)
==============================================================================
