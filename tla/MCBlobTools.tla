----------------------------- MODULE MCBlobTools -----------------------------
(***************************************************************************)
(* Small instances of the two Python tools of the blob pipeline.           *)
(*                                                                         *)
(* extract-firmware.py: files of three bytes with one or two sections of   *)
(* up to three bytes and a symbol of zero to three, that meet, overlap,    *)
(* touch and pass the end of the file or of each other.                    *)
(*                                                                         *)
(* prepare-engine-image.py: files of three bytes, images of two and three, *)
(* headers that fit, fill or exceed them, no to two sections that overlap  *)
(* headers and each other and end at, before and behind both ends.         *)
(***************************************************************************)
EXTENDS BlobTools

ElfSection(addrs, offs, sizes) ==
  [addr : addrs, off : offs, size : sizes, nobits : BOOLEAN]
Symbols == [value : 0 .. 2, size : 0 .. 3]

MCElfs ==
  LET first  == ElfSection({0, 1}, {0, 2}, 0 .. 3)
      second == ElfSection({1, 2}, {1, 4}, {0, 1, 2})
      secs   == {<<s>> : s \in first} \cup {<<s, t>> : s \in first, t \in second}
      plain  == <<[addr |-> 0, off |-> 0, size |-> 2, nobits |-> FALSE]>>
  IN  [valid : {TRUE}, len : {3}, syms : {<<y>> : y \in Symbols}, secs : secs]
        \cup [valid : BOOLEAN, len : {3}, secs : {plain},
              syms : {<<>>} \cup {<<y, z>> : y, z \in Symbols}]

PeSection(vas, sizes, raws, ptrs) == [va : vas, vsize : sizes, raw : raws, ptr : ptrs]

MCRaws ==
  LET first  == PeSection(0 .. 2, {0, 3}, {0, 2}, {0, 2})
      second == PeSection({0, 1}, {0, 2}, {1, 2}, {0, 1, 4})
  IN  [len : {3}, image : {2, 3}, hdr : {0, 1, 3, 4},
       secs : {<<>>} \cup {<<s>> : s \in first} \cup {<<s, t>> : s \in first, t \in second}]
==============================================================================
