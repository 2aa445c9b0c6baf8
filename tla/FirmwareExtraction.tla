-------------------------- MODULE FirmwareExtraction --------------------------
(***************************************************************************)
(* extract-firmware.py: read_firmware finds the firmware's symbol in the   *)
(* section that holds its address and cuts it out of the file; then        *)
(* write_header publishes it under another name and renames it.  A byte is *)
(* its place in the file; the ELF header, which must be that of a          *)
(* little-endian ELF64 object, and nm's exit status are one flag.          *)
(***************************************************************************)
EXTENDS Integers, Sequences

CONSTANT Elfs   \* what the file and nm may say

ASSUME ElfAssumption ==
  \A e \in Elfs :
    /\ e.len \in Nat /\ e.valid \in BOOLEAN
    /\ e.syms \in Seq([value : Nat, size : Nat])
    /\ e.secs \in Seq([addr : Nat, off : Nat, size : Nat, nobits : BOOLEAN])

VARIABLES
  elf,
  i,         \* section to be looked at next
  hits,      \* indices of the sections that hold the symbol's address
  pc, firmware,
  output,    \* out.h: "old" or the firmware it was written from
  temp       \* the temporary beside it: "none", "cut" or "whole"

vars == <<elf, i, hits, pc, firmware, output, temp>>

Init ==
  /\ elf \in Elfs /\ i = 1 /\ hits = {} /\ pc = "symbol"
  /\ firmware = <<>> /\ output = "old" /\ temp = "none"

Files == <<output, temp>>
Fail == pc' = "failed" /\ UNCHANGED <<elf, i, hits, firmware, Files>>

\* Exactly one row of nm names the symbol, and no row has size zero.
FindSymbol ==
  /\ pc = "symbol"
  /\ IF elf.valid /\ Len(elf.syms) = 1 /\ elf.syms[1].size > 0
     THEN pc' = "sections" /\ UNCHANGED <<elf, i, hits, firmware, Files>>
     ELSE Fail

InFile(s) == s.off <= elf.len /\ s.size <= elf.len - s.off
Holds(s, a) == s.addr <= a /\ a < s.addr + s.size

\* Mutant of ScanSection: every section must be in the file.
ScanSectionStrict ==
  /\ pc = "sections" /\ i <= Len(elf.secs)
  /\ LET s == elf.secs[i] IN
     IF s.size # 0 /\ ~InFile(s)
     THEN Fail
     ELSE /\ hits' = IF Holds(s, elf.syms[1].value) THEN hits \cup {i} ELSE hits
          /\ i' = i + 1 /\ UNCHANGED <<elf, pc, firmware, Files>>

ScanSection ==
  /\ pc = "sections" /\ i <= Len(elf.secs)
  /\ LET s == elf.secs[i] IN
     IF ~s.nobits /\ s.size # 0 /\ ~InFile(s)
     THEN Fail
     ELSE /\ hits' = IF Holds(s, elf.syms[1].value) THEN hits \cup {i} ELSE hits
          /\ i' = i + 1 /\ UNCHANGED <<elf, pc, firmware, Files>>

\* data[from:to] of Python, which silently ends with the file.
Slice(from, to) ==
  [k \in 1 .. (IF to > elf.len THEN elf.len - from ELSE to - from) |-> from + k - 1]

\* Where the symbol lies in the file, by the section that holds its address.
FileOffset(s) == s.off + (elf.syms[1].value - s.addr)

\* Mutant of Backed: the symbol may be as long as its section wherever it begins.
BackedFromStart(s) == ~s.nobits /\ elf.syms[1].size <= s.size

Backed(s) ==
  /\ ~s.nobits /\ elf.syms[1].size <= s.size - (elf.syms[1].value - s.addr)
  /\ FileOffset(s) <= elf.len /\ elf.syms[1].size <= elf.len - FileOffset(s)

Cut ==
  /\ pc = "sections" /\ i > Len(elf.secs)
  /\ LET found == {h \in hits : hits = {h} /\ Backed(elf.secs[h])} IN
     \/ /\ found = {} /\ Fail
     \/ \E h \in found :
          LET at == FileOffset(elf.secs[h]) IN
          /\ firmware' = Slice(at, at + elf.syms[1].size) /\ pc' = "create"
          /\ UNCHANGED <<elf, i, hits, Files>>

------------------------------------------------------------------------------
Data == <<elf, i, hits, firmware>>

CreateTemp ==
  /\ pc = "create" /\ pc' = "write" /\ temp' = "cut" /\ UNCHANGED <<Data, output>>

WriteTemp ==
  /\ pc = "write" /\ pc' = "replace" /\ temp' = "whole" /\ UNCHANGED <<Data, output>>

Replace ==
  /\ pc = "replace" /\ pc' = "done" /\ output' = firmware /\ temp' = "none"
  /\ UNCHANGED Data

\* Mutant of WriteFails: the temporary stays.
WriteFailsLeaving ==
  /\ pc \in {"create", "write", "replace"}
  /\ pc' = "failed" /\ UNCHANGED <<Data, Files>>

\* A write, fsync or replace that raises: the temporary is unlinked.
WriteFails ==
  /\ pc \in {"create", "write", "replace"}
  /\ pc' = "failed" /\ temp' = "none" /\ UNCHANGED <<Data, output>>

Killed ==
  /\ pc \notin {"done", "failed", "killed"}
  /\ pc' = "killed" /\ UNCHANGED <<Data, Files>>

Ended == pc \in {"done", "failed", "killed"} /\ UNCHANGED vars

Next ==
  \/ FindSymbol \/ ScanSection \/ Cut \/ CreateTemp \/ WriteTemp \/ Replace
  \/ WriteFails \/ Killed \/ Ended

Spec == Init /\ [][Next]_vars

------------------------------------------------------------------------------
(* What the header is written from is, byte for byte, what the dynamic       *)
(* loader would put at the symbol's addresses, all of it in the file.        *)
TheSymbol(e, bytes) ==
  /\ Len(e.syms) = 1 /\ Len(bytes) = e.syms[1].size /\ bytes # <<>>
  /\ \A k \in DOMAIN bytes : \E j \in DOMAIN e.secs :
       LET s == e.secs[j]   a == e.syms[1].value + k - 1 IN
       /\ Holds(s, a) /\ ~s.nobits
       /\ bytes[k] = s.off + (a - s.addr) /\ bytes[k] < e.len
BytesAreTheSymbol ==
  pc \in {"create", "write", "replace", "done"} => TheSymbol(elf, firmware)

(* A sound object is never refused: one symbol, wholly in one file-backed    *)
(* section, no other over its first byte, every section's bytes in the file. *)
Sound ==
  /\ elf.valid /\ Len(elf.syms) = 1 /\ elf.syms[1].size > 0
  /\ \A j \in DOMAIN elf.secs : elf.secs[j].nobits \/ elf.secs[j].size = 0 \/ InFile(elf.secs[j])
  /\ \E j \in DOMAIN elf.secs :
       /\ ~elf.secs[j].nobits /\ Holds(elf.secs[j], elf.syms[1].value)
       /\ Holds(elf.secs[j], elf.syms[1].value + elf.syms[1].size - 1)
       /\ \A l \in DOMAIN elf.secs \ {j} : ~Holds(elf.secs[l], elf.syms[1].value)
RefusesOnlyUnsound == pc = "failed" /\ firmware = <<>> => ~Sound

(* out.h is at every moment the old one or the whole new one, and only a     *)
(* kill leaves the temporary behind.                                         *)
PublishedWhole ==
  /\ output = IF pc = "done" THEN firmware ELSE "old"
  /\ pc \in {"done", "failed"} => temp = "none"
==============================================================================
