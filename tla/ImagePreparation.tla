--------------------------- MODULE ImagePreparation ---------------------------
(***************************************************************************)
(* prepare-engine-image.py: prepare() checks a DLL's section table and     *)
(* copies headers and sections to the offsets they are loaded at, the      *)
(* sidecar that load_pe maps.  A byte of the image is its place in the     *)
(* file, from 1, or 0 for one that was never written.  Signatures, the    *)
(* machine type and the bounds of the header tables are taken as good.     *)
(***************************************************************************)
EXTENDS Integers, Sequences

CONSTANT Raws   \* [len, image, hdr, secs]: DLLs, secs of [va, vsize, raw, ptr]

VARIABLES
  file,
  pc,
  i,         \* section of the table to be read, then to be copied, next
  image,
  sidecar    \* the file main() writes: "kept", "cut", or the image

vars == <<file, pc, i, image, sidecar>>

Init ==
  /\ file \in Raws /\ pc = "headers" /\ i = 1 /\ image = <<>> /\ sidecar = "kept"

Invalid == pc' = "invalid" /\ UNCHANGED <<file, i, image, sidecar>>

HeadersGood(f) == f.image > 0 /\ f.hdr > 0 /\ f.hdr <= f.image /\ f.hdr <= f.len

CheckHeaders ==
  /\ pc = "headers"
  /\ IF HeadersGood(file)
     THEN pc' = "table" /\ UNCHANGED <<file, i, image, sidecar>>
     ELSE Invalid

MappedSize(s) == IF s.vsize > s.raw THEN s.vsize ELSE s.raw

\* Mutant of SectionGood: a section may not begin where the image ends.
SectionStrictlyInside(f, s) ==
  /\ s.va < f.image /\ MappedSize(s) <= f.image - s.va
  /\ s.ptr <= f.len /\ s.raw <= f.len - s.ptr

SectionGood(f, s) ==
  /\ s.va <= f.image /\ MappedSize(s) <= f.image - s.va
  /\ s.ptr <= f.len /\ s.raw <= f.len - s.ptr

CheckSection ==
  /\ pc = "table" /\ i <= Len(file.secs)
  /\ IF SectionGood(file, file.secs[i])
     THEN i' = i + 1 /\ UNCHANGED <<file, pc, image, sidecar>>
     ELSE Invalid

\* Python's raw[from:to] and image[from:to] = bytes: a slice ends with its
\* sequence, and assigning more or fewer bytes than it has moves the rest.
Upto(n, s) == IF n > Len(s) THEN Len(s) ELSE n
FileBytes(from, to) ==
  [k \in 1 .. (IF to > file.len THEN file.len ELSE to) - from |-> from + k]
Assign(s, from, to, bytes) ==
  SubSeq(s, 1, Upto(from, s)) \o bytes \o SubSeq(s, Upto(to, s) + 1, Len(s))

CopyHeaders ==
  /\ pc = "table" /\ i > Len(file.secs)
  /\ image' = Assign([k \in 1 .. file.image |-> 0], 0, file.hdr, FileBytes(0, file.hdr))
  /\ pc' = "copy" /\ i' = 1 /\ UNCHANGED <<file, sidecar>>

\* Mutant of CopySection: as much as is mapped, not as much as there is.
CopySectionMapped ==
  /\ pc = "copy" /\ i <= Len(file.secs)
  /\ LET s == file.secs[i] IN
     image' = Assign(image, s.va, s.va + s.vsize, FileBytes(s.ptr, s.ptr + s.vsize))
  /\ i' = i + 1 /\ UNCHANGED <<file, pc, sidecar>>

CopySection ==
  /\ pc = "copy" /\ i <= Len(file.secs)
  /\ LET s == file.secs[i] IN
     image' = Assign(image, s.va, s.va + s.raw, FileBytes(s.ptr, s.ptr + s.raw))
  /\ i' = i + 1 /\ UNCHANGED <<file, pc, sidecar>>

\* main() opens the sidecar only now, and truncates it.
OpenOutput ==
  /\ pc = "copy" /\ i > Len(file.secs)
  /\ pc' = "write" /\ sidecar' = "cut" /\ UNCHANGED <<file, i, image>>

WriteOutput ==
  /\ pc = "write" /\ UNCHANGED <<file, i, image>>
  /\ \/ pc' = "done" /\ sidecar' = image
     \/ pc' = "failed" /\ UNCHANGED sidecar

Ended == pc \in {"done", "invalid", "failed"} /\ UNCHANGED vars

Next ==
  \/ CheckHeaders \/ CheckSection \/ CopyHeaders \/ CopySection
  \/ OpenOutput \/ WriteOutput \/ Ended

Spec == Init /\ [][Next]_vars

------------------------------------------------------------------------------
(* What a PE loader would put at an address: the bytes of the last section   *)
(* that has any there, else the headers', else zero.                         *)
Backing(a) ==
  LET secs == {j \in DOMAIN file.secs :
                 file.secs[j].va <= a /\ a < file.secs[j].va + file.secs[j].raw}
      last == CHOOSE j \in secs : \A k \in secs : k <= j
  IN  IF secs # {} THEN file.secs[last].ptr + (a - file.secs[last].va) + 1
      ELSE IF a < file.hdr THEN a + 1 ELSE 0
SidecarIsTheLoadedImage ==
  pc = "done" => sidecar = [a \in 1 .. file.image |-> Backing(a - 1)]

(* A DLL that load_pe takes, its headers and each section inside the image   *)
(* and the file, has a sidecar; a refused DLL leaves the old one untouched.  *)
Loads(f) ==
  /\ 0 < f.hdr /\ f.hdr <= f.image /\ f.hdr <= f.len
  /\ \A j \in DOMAIN f.secs : LET s == f.secs[j] IN
       /\ s.va + s.vsize <= f.image /\ s.va + s.raw <= f.image /\ s.ptr + s.raw <= f.len
RefusesOnlyUnloadable == pc = "invalid" => ~Loads(file) /\ sidecar = "kept"
==============================================================================
