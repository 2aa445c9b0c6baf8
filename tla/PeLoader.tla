------------------------------- MODULE PeLoader -------------------------------
(***************************************************************************)
(* The first ft_engine_open of a process, step by step: load_pe (with the  *)
(* sidecar prepare-engine-image.py lays out), get_export, Query, Attach.   *)
(* The DLL is a record of its header's and directories' numbers.  They are *)
(* counted in cells of eight bytes, the size of an import slot; a page is  *)
(* Page cells, so that the rounding to pages is real.  Signatures and the  *)
(* bounds of the header tables are taken as good, the names' characters    *)
(* and the three export arrays are one cell each.                          *)
(***************************************************************************)
EXTENDS MatchEngine, Sequences, FiniteSetsExt

CONSTANTS
  Page,       \* cells per page
  TlsBlock,   \* cells of g_tls_block
  Base,       \* preferred base; addresses count from it, so that NULL is -Base
  Files       \* DLLs to load

ASSUME LoaderAssumption == {Page, Base} \subseteq Nat \ {0} /\ TlsBlock \in Nat

Ordinal == -1                 \* an import by number, where others have a name

\* Header fields are unsigned, the pointers of the TLS directory any address.
ASSUME FileAssumption ==
  \A f \in Files :
    /\ {f.len, f.image, f.hdr, f.entry} \subseteq Nat
    /\ f.secs \in Seq([va : Nat, vsize : Nat, raw : Nat, ptr : Nat,
                       exec : BOOLEAN, read : BOOLEAN])
    /\ {f.imp.at, f.imp.size} \subseteq Nat
    /\ f.imp.descs \in Seq([name : Nat, iat : Nat, ilt : Nat,
                            fns : Seq(Nat \cup {Ordinal})])
    /\ f.tls.at \in Nat /\ f.tls.funs \in Seq(Int)
    /\ {f.tls.start, f.tls.end, f.tls.index, f.tls.cbs} \subseteq Int
    /\ {f.exp.at, f.exp.table, f.exp.fn} \subseteq Nat /\ f.exp.names \in Seq(Nat)
    /\ f.exp.found \in BOOLEAN

NoVA == -Base                 \* a NULL pointer in the TLS directory
MainThread == "main"

VARIABLES
  file,     \* the DLL: g_file
  pc,       \* the next step, or how it ended
  at,       \* counter of the loop the step is in
  mem,      \* protection of the pages at the preferred base, <<>> before mmap
  armed,    \* %gs points at the TEB
  entered,  \* DLL code that has been entered: <<what, armed then>>
  slots,    \* import slots the loop writes, or faults on
  ret       \* what ft_engine_open returned

vars == <<file, pc, at, mem, armed, entered, slots, ret>>

------------------------------------------------------------------------------
\* The range checks, which read the section table again and not the mapping.
Rounded(n) == ((n + Page - 1) \div Page) * Page
Least(a, b) == IF a < b THEN a ELSE b
Span(s) == IF s.vsize > s.raw THEN s.vsize ELSE s.raw
Limit(s) == s.va + Rounded(Span(s))
Sections(f) == {f.secs[k] : k \in DOMAIN f.secs}
Covering(f, c) == {s \in Sections(f) : s.va <= c /\ c < Limit(s)}
Furthest(c, limits) == Max({c} \cup limits)

\* Mutant of RegionEnd: the end of a section is not rounded to its page.
RegionEndExact(f, c) ==
  IF c < Rounded(f.hdr) THEN Rounded(f.hdr)
  ELSE Furthest(c, {s.va + Span(s) : s \in Covering(f, c)})

RegionEnd(f, c) ==
  IF c < Rounded(f.hdr) THEN Rounded(f.hdr)
  ELSE Furthest(c, {Limit(s) : s \in Covering(f, c)})

SectionEnd(f, c) == Furthest(c, {Limit(s) : s \in Covering(f, c)})

\* The cursor of both range loops: each region found moves it to its end.
Reaches(next, o, end) ==
  LET reach[c \in o .. end] ==
        c = end \/ (next[c] > c /\ reach[Least(next[c], end)])
  IN  reach[o]

image_range(f, o, n) ==
  /\ o <= f.image /\ n <= f.image - o
  /\ Reaches([c \in o .. o + n |-> RegionEnd(f, c)], o, o + n)

image_writable_range(f, o, n) ==
  /\ image_range(f, o, n)
  /\ Reaches([c \in o .. o + n |-> SectionEnd(f, c)], o, o + n)

\* Mutant of readable_range_length: the rest of the image counts as readable.
readable_to_end(f, o) == IF image_range(f, o, 1) THEN f.image - o ELSE 0

readable_range_length(f, o) ==
  IF ~image_range(f, o, 1) THEN 0
  ELSE Furthest(o, {Limit(s) : s \in {x \in Covering(f, o) : x.read}}
                     \cup IF o < Rounded(f.hdr) THEN {Rounded(f.hdr)} ELSE {}) - o

------------------------------------------------------------------------------
\* What the memory says: a page's protection, "none" in a gap.
Protection(c) ==
  IF c \div Page \in DOMAIN mem THEN mem[c \div Page] ELSE "absent"
Allows(o, n, prots) == \A c \in o .. o + n - 1 : Protection(c) \in prots
Readable == {"r", "rw", "rx"}

Goto(step) == pc' = step /\ at' = 1 /\ UNCHANGED ret
Again == at' = at + 1 /\ UNCHANGED <<pc, ret>>
Return(code) == pc' = "returned" /\ ret' = code /\ UNCHANGED at
Crash == pc' = "crashed" /\ UNCHANGED <<at, ret>>

\* Jump into the DLL: nothing runs unless the page is executable.
Jump(what, c, onward) ==
  IF Protection(c) = "rx"
  THEN onward /\ entered' = entered \cup {<<what, armed>>}
  ELSE Crash /\ UNCHANGED entered

------------------------------------------------------------------------------
Init ==
  /\ file \in Files
  /\ pc = "check" /\ at = 1 /\ mem = <<>> /\ armed = FALSE
  /\ entered = {} /\ slots = {} /\ ret = 0

SectionsInside(f) ==
  \A s \in Sections(f) : /\ s.va <= f.image /\ Span(s) <= f.image - s.va
                         /\ s.ptr <= f.len /\ s.raw <= f.len - s.ptr
HeaderInside(f) == f.image > 0 /\ f.hdr > 0 /\ f.hdr <= f.image /\ f.hdr <= f.len

\* prepare-engine-image.py writes a sidecar of SizeOfImage bytes, or none.
Prepared(f) == HeaderInside(f) /\ SectionsInside(f)

CheckHeaders ==
  /\ pc = "check"
  /\ \/ HeaderInside(file) /\ SectionsInside(file) /\ file.entry < file.image
        /\ Goto("sidecar")
     \/ Return(-1)
  /\ UNCHANGED <<file, mem, armed, entered, slots>>

OpenSidecar ==
  /\ pc = "sidecar"
  /\ (Prepared(file) /\ Goto("reserve")) \/ Return(-1)
  /\ UNCHANGED <<file, mem, armed, entered, slots>>

Reserve ==
  /\ pc = "reserve"
  /\ \/ /\ mem' = [p \in 0 .. (Rounded(file.image) \div Page) - 1 |-> "none"]
        /\ Goto("headers")
     \/ Return(-1) /\ UNCHANGED mem
  /\ UNCHANGED <<file, armed, entered, slots>>

\* mmap with MAP_FIXED takes whole pages, over what was mapped there before.
Mmap(o, n, prot) ==
  mem' = [p \in DOMAIN mem |->
            IF p \in o \div Page .. (o + n - 1) \div Page THEN prot ELSE mem[p]]

MapHeaders ==
  /\ pc = "headers"
  /\ \/ /\ Rounded(file.hdr) <= file.image
        /\ Mmap(0, Rounded(file.hdr), "r") /\ Goto("sections")
     \/ Return(-1) /\ UNCHANGED mem
  /\ UNCHANGED <<file, armed, entered, slots>>

\* Mutant of MapSection: code stays writable, for its relocations.
MapSectionWritable ==
  /\ pc = "sections" /\ at <= Len(file.secs)
  /\ LET s == file.secs[at] IN
     \/ Span(s) = 0 /\ Again /\ UNCHANGED mem
     \/ /\ Span(s) > 0 /\ s.va % Page = 0 /\ Rounded(Span(s)) <= file.image - s.va
        /\ Mmap(s.va, Rounded(Span(s)), IF s.exec THEN "rwx" ELSE "rw") /\ Again
     \/ Return(-1) /\ UNCHANGED mem
  /\ UNCHANGED <<file, armed, entered, slots>>

\* mmap refuses an address that is not a page's.
MapSection ==
  /\ pc = "sections" /\ at <= Len(file.secs)
  /\ LET s == file.secs[at] IN
     \/ Span(s) = 0 /\ Again /\ UNCHANGED mem
     \/ /\ Span(s) > 0 /\ s.va % Page = 0 /\ Rounded(Span(s)) <= file.image - s.va
        /\ Mmap(s.va, Rounded(Span(s)), IF s.exec THEN "rx" ELSE "rw") /\ Again
     \/ Return(-1) /\ UNCHANGED mem
  /\ UNCHANGED <<file, armed, entered, slots>>

\* The mapping is complete: on to the import directory, if there is one.
FindImports ==
  /\ pc = "sections" /\ at > Len(file.secs)
  /\ LET imp == file.imp IN
     IF imp.at = 0 THEN Goto("tls")
     ELSE IF imp.size > 0 /\ image_range(file, imp.at, imp.size)
          THEN Goto("imports") ELSE Return(-1)
  /\ UNCHANGED <<file, mem, armed, entered, slots>>

\* The slots of one DLL: the loop runs while both arrays stay in the image and
\* ends at the terminator, which follows the entries d.fns.
Thunks(d) == IF d.ilt = 0 THEN d.iat ELSE d.ilt
\* Mutant of InImage: the end of the address table is not looked at.
InImageLookup(d, j) == image_range(file, Thunks(d) + j, 1)
InImage(d, j) ==
  image_range(file, Thunks(d) + j, 1) /\ image_range(file, d.iat + j, 1)
NameFound(fn) ==
  image_range(file, fn, 1) /\ readable_range_length(file, fn) > 0
\* Entry j is resolved: an ordinal's slot is cleared, a name's filled in.
Resolved(d, j) ==
  InImage(d, j) /\ (d.fns[j + 1] = Ordinal \/ NameFound(d.fns[j + 1]))
\* The slots written before the loop ends, at the terminator or a bad entry.
Written(d) ==
  {d.iat + j : j \in {k \in 0 .. Len(d.fns) - 1 : \A i \in 0 .. k : Resolved(d, i)}}
Terminated(d) ==
  (\A j \in 0 .. Len(d.fns) - 1 : Resolved(d, j)) /\ InImage(d, Len(d.fns))
Accepted(d) ==
  /\ d.name # 0 /\ d.iat # 0
  /\ image_range(file, d.name, 1) /\ image_writable_range(file, d.iat, 1)
  /\ d.ilt # 0 => image_range(file, d.ilt, 1)

ResolveImports ==
  /\ pc = "imports"
  /\ IF at > file.imp.size THEN Return(-1) /\ UNCHANGED slots
     ELSE IF at > Len(file.imp.descs) THEN Goto("tls") /\ UNCHANGED slots
     ELSE LET d == file.imp.descs[at] IN
          IF ~Accepted(d) THEN Return(-1) /\ UNCHANGED slots
          ELSE /\ slots' = slots \cup Written(d)
               /\ IF \E c \in Written(d) : Protection(c) # "rw" THEN Crash
                  ELSE IF Terminated(d) THEN Again ELSE Return(-1)
  /\ UNCHANGED <<file, mem, armed, entered>>

OutsideImage(a) == a < 0 \/ a >= file.image

\* The template is copied and the index cleared before the callbacks.
SetUpTls ==
  /\ pc = "tls"
  /\ LET t == file.tls IN
     IF t.at = 0 THEN Goto("teb")
     ELSE IF \/ ~image_range(file, t.at, 1)
             \/ t.end < t.start \/ t.end - t.start > TlsBlock
             \/ t.start # NoVA /\ (OutsideImage(t.start) \/ t.end > file.image)
             \/ t.index # NoVA /\ (t.index < 0 \/ ~image_range(file, t.index, 1))
          THEN Return(-1)
     ELSE IF \/ ~Allows(t.start, t.end - t.start, Readable)
             \/ t.index # NoVA /\ Protection(t.index) # "rw"
          THEN Crash
     ELSE IF t.cbs = NoVA THEN Goto("teb")
     ELSE IF OutsideImage(t.cbs) THEN Return(-1) ELSE Goto("callbacks")
  /\ UNCHANGED <<file, mem, armed, entered, slots>>

RunCallback ==
  /\ pc = "callbacks"
  /\ LET t == file.tls IN
     IF ~image_range(file, t.cbs + at - 1, 1) THEN Return(-1) /\ UNCHANGED entered
     ELSE IF at > Len(t.funs) THEN Goto("teb") /\ UNCHANGED entered
     ELSE IF OutsideImage(t.funs[at]) THEN Return(-1) /\ UNCHANGED entered
     ELSE Jump("callback", t.funs[at], Again)
  /\ UNCHANGED <<file, mem, armed, slots>>

\* Mutant of ArmTeb: a failing arch_prctl is not noticed.
ArmTebUnchecked ==
  /\ pc = "teb"
  /\ armed' \in BOOLEAN /\ Goto("entry")
  /\ UNCHANGED <<file, mem, entered, slots>>

ArmTeb ==
  /\ pc = "teb"
  /\ \/ armed' = TRUE /\ Goto("entry")
     \/ UNCHANGED armed /\ Return(-1)
  /\ UNCHANGED <<file, mem, entered, slots>>

CallDllMain ==
  /\ pc = "entry"
  /\ IF image_range(file, file.entry, 1)
     THEN Jump("DllMain", file.entry, Goto("export") \/ Return(-1))
     ELSE Return(-1) /\ UNCHANGED entered
  /\ UNCHANGED <<file, mem, armed, slots>>

\* get_export walks the names up to the one it wants.
get_export(x) ==
  /\ x.at # 0 /\ image_range(file, x.at, 1) /\ image_range(file, x.table, 1)
  /\ \A k \in DOMAIN x.names : /\ image_range(file, x.names[k], 1)
                               /\ readable_range_length(file, x.names[k]) > 0
  /\ x.found /\ image_range(file, x.fn, 1)

CallQuery ==
  /\ pc = "export"
  /\ IF get_export(file.exp)
     THEN Jump("Query", file.exp.fn, Goto("attach") \/ Return(-3))
     ELSE Return(-2) /\ UNCHANGED entered
  /\ UNCHANGED <<file, mem, armed, slots>>

CallAttach ==
  /\ pc = "attach"
  /\ entered' = entered \cup {<<"Attach", armed>>}
  /\ Return(0) \/ Return(-4)
  /\ UNCHANGED <<file, mem, armed, slots>>

Next ==
  \/ CheckHeaders \/ OpenSidecar \/ Reserve \/ MapHeaders \/ MapSection
  \/ FindImports \/ ResolveImports \/ SetUpTls \/ RunCallback
  \/ ArmTeb \/ CallDllMain \/ CallQuery \/ CallAttach

Spec == Init /\ [][Next]_vars

------------------------------------------------------------------------------
Steps == {"check", "sidecar", "reserve", "headers", "sections", "imports", "tls",
          "callbacks", "teb", "entry", "export", "attach", "returned", "crashed"}

(* Type correctness of the loader; no page is ever writable and executable.  *)
TypeOK ==
  /\ pc \in Steps /\ at \in Nat \ {0} /\ armed \in BOOLEAN
  /\ DOMAIN mem \subseteq Nat
  /\ \A p \in DOMAIN mem : mem[p] \in {"none"} \cup Readable
  /\ entered \subseteq {"callback", "DllMain", "Query", "Attach"} \X BOOLEAN
  /\ slots \subseteq 0 .. file.image /\ ret \in -4 .. 0

Mapped == pc \in {"imports", "tls", "callbacks", "teb", "entry", "export", "attach"}

(* "SizeOfImage also contains alignment gaps that intentionally remain       *)
(* PROT_NONE": the range check, which works from the section table, says yes *)
(* exactly where mmap left readable pages, however sections are rounded,     *)
(* overlap or leave gaps.                                                    *)
RangeIsMapped ==
  Mapped => \A o \in 0 .. file.image + Page : \A n \in 1 .. file.image :
    image_range(file, o, n) <=> o + n <= file.image /\ Allows(o, n, Readable)

(* A name may be searched for its end as far as readable_range_length says   *)
(* without leaving the mapping.                                              *)
NameLimitIsMapped ==
  Mapped => \A o \in 0 .. file.image :
    Allows(o, readable_range_length(file, o), Readable)

\* Where the code of a DLL lies: the section mapped last decides.
IsCode(f, c) ==
  Covering(f, c) # {} /\
    f.secs[Max({k \in DOMAIN f.secs : f.secs[k] \in Covering(f, c)})].exec
IsData(f, c) == Covering(f, c) # {} /\ ~IsCode(f, c)
IsMapped(f, c) == c \in 0 .. Rounded(f.hdr) - 1 \/ Covering(f, c) # {}

\* What load_pe and get_export take on trust: the protection of the import
\* slots and of the TLS index, gaps in the TLS template and a template that
\* has a length but no address, and that every function pointer points at code.
Unchecked(f) ==
  \/ \E k \in DOMAIN f.imp.descs : \E c \in f.imp.descs[k].iat .. f.image :
        IsMapped(f, c) /\ ~IsData(f, c) /\ c < f.imp.descs[k].iat + Len(f.imp.descs[k].fns)
  \/ f.tls.at # 0 /\ \/ f.tls.index # NoVA /\ ~IsData(f, f.tls.index)
                     \/ \E c \in f.tls.start .. f.tls.end - 1 : ~IsMapped(f, c)
                     \/ \E k \in DOMAIN f.tls.funs : ~IsCode(f, f.tls.funs[k])
  \/ ~IsCode(f, f.entry) \/ ~IsCode(f, f.exp.fn)

(* A bad DLL is refused, not run into: the loader faults only over what it   *)
(* takes on trust, in whatever step and after whatever the steps before did. *)
CrashIsUnchecked == pc = "crashed" => Unchecked(file)

(* One open keeps the promise of MatchEngine's atomic EngineOpen: what is    *)
(* reserved, armed, set and returned is one of the outcomes listed there.    *)
OpenIsEngineOpen ==
  pc = "returned" =>
    <<[NewProcess EXCEPT !.shims = ShimCount, !.reserved = mem # <<>>,
                         !.armed = IF armed THEN {MainThread} ELSE {},
                         !.iface = ret \in {0, -4}, !.loaded = ret = 0], ret>>
      \in EngineOpen(NewProcess, MainThread)

(* "IAT must be in mapped writable data, never code or a mapping gap"        *)
(* (ft_engine.c, above the check of the import address table).               *)
IatInWritableData ==
  Mapped \/ pc = "crashed" => \A c \in slots : Protection(c) = "rw"

(* "you must re-arm it on every entry into the engine" (PORTING.md, of %gs). *)
ArmedOnEveryEntry == \A x \in entered : x[2]
==============================================================================
