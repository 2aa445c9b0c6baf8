----------------------------- MODULE BlobPipeline -----------------------------
(***************************************************************************)
(* fetch-blobs.sh, build.sh and install.sh, the files they leave to each   *)
(* other and the fprintd they install for.  One script runs at a time; it  *)
(* may be broken off before any step (killed, or a command fails and       *)
(* `set -e` ends it) and any script may be run next.  A file is absent,    *)
(* the content it should have, or what an interrupted copy left of it.     *)
(* fprintd is started over D-Bus at any time, also between two steps.      *)
(***************************************************************************)
EXTENDS Integers

CONSTANTS
  Dlls,      \* builds of the matcher DLL that may lie in blobs/
  Release    \* the one whose hash fetch-blobs.sh knows

ASSUME PipelineAssumption ==
  Release \in Dlls /\ Dlls \cap {"absent", "empty", "part"} = {}

Absent == "absent"
Empty  == "empty"
Part   == "part"

VARIABLES
  tree,     \* the checkout: blobs/, src/ft9201_fw.h, libfprint/
  inst,     \* the installed files
  unit,     \* what the unit systemd has loaded points to: "ours" or "distro"
  svc,      \* the running fprintd: its libfprint, the DLL and sidecar it read
  pc,       \* the next step of the script that runs
  outcome,  \* how the last script ended, "none" while one runs
  pair      \* "torn" once an install touches the DLL, until one completes, else "sound"

vars == <<tree, inst, unit, svc, pc, outcome, pair>>

Copies == Dlls \cup {Absent, Part}     \* of a DLL, or of the sidecar of one

Down == [lib |-> "none", dll |-> Absent, image |-> Absent]

Init ==
  /\ tree = [dll |-> Absent, image |-> Absent, header |-> Absent, checkout |-> "none",
             meson |-> Absent, lib |-> Absent]
  /\ inst = [lib |-> Absent, dll |-> Absent, image |-> Absent, dropin |-> Absent]
  /\ unit = "distro" /\ svc = Down
  /\ pc = "idle" /\ outcome = "none" /\ pair = "sound"

Idle == pc = "idle"
Goto(from, to) == pc = from /\ pc' = to
End(from, how) == pc = from /\ pc' = "idle" /\ outcome' = how

Host == <<inst, unit, svc, pair>>       \* what only install.sh and fprintd change

Start ==
  /\ Idle /\ pc' \in {"fetch", "build", "install", "uninstall"}
  /\ outcome' = "none" /\ UNCHANGED <<tree, Host>>

BreakOff ==
  /\ ~Idle /\ pc' = "idle" /\ outcome' = "failed"
  /\ UNCHANGED <<tree, Host>>

\* The user puts another build of the DLL into blobs/, or removes it.
PlaceDll ==
  /\ Idle /\ outcome' = "none" /\ UNCHANGED <<pc, Host>>
  /\ \E d \in Dlls \cup {Absent} : tree' = [tree EXCEPT !.dll = d]

------------------------------------------------------------------------------
(* fetch-blobs.sh                                                            *)

\* Mutant of CheckDll: any DLL that is there is taken.
CheckDllAny ==
  /\ \/ tree.dll # Absent /\ Goto("fetch", "fetch_header")
     \/ tree.dll = Absent /\ Goto("fetch", "publish")
  /\ UNCHANGED <<tree, Host, outcome>>

CheckDll ==
  /\ \/ tree.dll = Release /\ Goto("fetch", "fetch_header")
     \/ tree.dll = Absent /\ Goto("fetch", "publish")
  /\ UNCHANGED <<tree, Host, outcome>>

\* Mutant of PublishDll: moved out of $work, across file systems.
PublishInPlace ==
  /\ Goto("publish", "fetch_header")
  /\ \E left \in {Part, Release} : tree' = [tree EXCEPT !.dll = left]
  /\ UNCHANGED <<Host, outcome>>

\* Staged in blobs/ and renamed there: all or nothing.
PublishDll ==
  /\ Goto("publish", "fetch_header")
  /\ tree' = [tree EXCEPT !.dll = Release] /\ UNCHANGED <<Host, outcome>>

KeepHeader ==
  /\ tree.header \notin {Absent, Empty} /\ End("fetch_header", "fetched")
  /\ UNCHANGED <<tree, Host>>

\* Across file systems mv unlinks, creates and copies.
MoveHeader ==
  /\ tree.header \in {Absent, Empty} /\ Goto("fetch_header", "moving_header")
  /\ \E left \in {Absent, Empty, Part} : tree' = [tree EXCEPT !.header = left]
  /\ UNCHANGED <<Host, outcome>>

HeaderMoved ==
  /\ End("moving_header", "fetched")
  /\ tree' = [tree EXCEPT !.header = "whole"] /\ UNCHANGED Host

------------------------------------------------------------------------------
(* build.sh                                                                  *)

\* Killed, a clone leaves a directory that is refused or has no files yet.
Clone ==
  /\ tree.header # Absent /\ tree.checkout = "none" /\ Goto("build", "cloning")
  /\ \E left \in {"none", "other", "ref"} : tree' = [tree EXCEPT !.checkout = left]
  /\ UNCHANGED <<Host, outcome>>

Cloned ==
  /\ Goto("cloning", "register")
  /\ tree' = [tree EXCEPT !.checkout = "ref", !.meson = "upstream"]
  /\ UNCHANGED <<Host, outcome>>

CheckoutThere ==
  /\ tree.header # Absent /\ tree.checkout = "ref" /\ Goto("build", "register")
  /\ UNCHANGED <<tree, Host, outcome>>

\* "registered" and a file cut after the injected line contain 'ft9201'.
AlreadyPresent ==
  /\ tree.meson \in {"registered", Part} /\ Goto("register", "compile")
  /\ UNCHANGED <<tree, Host, outcome>>

\* open(f, "w") truncates what has been read, the write puts it back; a file
\* cut before the anchor has nothing to replace.
Inject ==
  /\ tree.meson \in {"upstream", Empty}
  /\ Goto("register", IF tree.meson = "upstream" THEN "injecting" ELSE "rewriting")
  /\ \E left \in {Empty} \cup IF tree.meson = "upstream" THEN {Part} ELSE {} :
       tree' = [tree EXCEPT !.meson = left]
  /\ UNCHANGED <<Host, outcome>>

Injected ==
  /\ \/ Goto("injecting", "injected") /\ tree' = [tree EXCEPT !.meson = "registered"]
     \/ Goto("rewriting", "injected") /\ UNCHANGED tree
  /\ UNCHANGED <<Host, outcome>>

\* meson knows no driver that is not registered, a cut header does not compile.
Compile ==
  /\ Goto("compile", "linking") \/ Goto("injected", "linking")
  /\ tree.meson = "registered" /\ tree.header = "whole"
  /\ \E left \in {Absent, Part} : tree' = [tree EXCEPT !.lib = left]
  /\ UNCHANGED <<Host, outcome>>

Linked ==
  /\ End("linking", "built")
  /\ tree' = [tree EXCEPT !.lib = "whole"] /\ UNCHANGED Host

------------------------------------------------------------------------------
(* install.sh                                                                *)

Checked ==
  /\ tree.lib # Absent /\ tree.dll # Absent /\ Goto("install", "lib")
  /\ UNCHANGED <<tree, Host, outcome>>

\* install(1) unlinks the file and copies in place.
Copying(file, from, to) ==
  /\ Goto(from, to)
  /\ \E left \in {Absent, Part} : inst' = [inst EXCEPT ![file] = left]
  /\ UNCHANGED <<tree, unit, svc, outcome>>
Copied(file, content, from, to) ==
  /\ Goto(from, to)
  /\ inst' = [inst EXCEPT ![file] = content]
  /\ UNCHANGED <<tree, unit, svc, outcome, pair>>

InstallLib ==
  \/ Copying("lib", "lib", "copying_lib") /\ UNCHANGED pair
  \/ Copied("lib", tree.lib, "copying_lib", "dll")
InstallDll ==
  \/ Copying("dll", "dll", "copying_dll") /\ pair' = "torn"
  \/ Copied("dll", tree.dll, "copying_dll", "prepare")

\* Mutant of Prepare: a sidecar that is there already is kept.
PrepareOnce ==
  /\ UNCHANGED <<Host, outcome>>
  /\ \/ tree.image = Absent /\ Goto("prepare", "preparing")
        /\ tree' = [tree EXCEPT !.image = Part]
     \/ tree.image # Absent /\ Goto("prepare", "image") /\ UNCHANGED tree
     \/ Goto("preparing", "image") /\ tree' = [tree EXCEPT !.image = tree.dll]

Prepare ==
  /\ UNCHANGED <<Host, outcome>>
  /\ \/ Goto("prepare", "preparing") /\ tree' = [tree EXCEPT !.image = Part]
     \/ Goto("preparing", "image") /\ tree' = [tree EXCEPT !.image = tree.dll]

InstallImage ==
  \/ Copying("image", "image", "copying_image") /\ UNCHANGED pair
  \/ Copied("image", tree.image, "copying_image", "dropin")

\* Truncated by the shell, then written.
InstallDropin ==
  \/ /\ Goto("dropin", "writing_dropin")
     /\ inst' = [inst EXCEPT !.dropin = Empty]
     /\ UNCHANGED <<tree, unit, svc, outcome, pair>>
  \/ Copied("dropin", "whole", "writing_dropin", "reload")

DaemonReload ==
  /\ Goto("reload", "restart") \/ Goto("reload_after_removal", "last_restart")
  /\ unit' = IF inst.dropin = "whole" THEN "ours" ELSE "distro"
  /\ UNCHANGED <<tree, inst, svc, outcome, pair>>

\* Mutant of Remove: the sidecar is forgotten.
RemoveKeepsSidecar ==
  /\ \/ /\ Goto("uninstall", "remove_dropin")
        /\ inst' = [inst EXCEPT !.lib = Absent]
     \/ /\ Goto("remove_dropin", "remove_dll")
        /\ inst' = [inst EXCEPT !.dropin = Absent]
     \/ /\ Goto("remove_dll", "remove_image")
        /\ inst' = [inst EXCEPT !.dll = Absent]
     \/ Goto("remove_image", "reload_after_removal") /\ UNCHANGED inst
  /\ UNCHANGED <<tree, unit, svc, outcome, pair>>

Remove ==
  /\ \/ /\ Goto("uninstall", "remove_dropin")
        /\ inst' = [inst EXCEPT !.lib = Absent]
     \/ /\ Goto("remove_dropin", "remove_dll")
        /\ inst' = [inst EXCEPT !.dropin = Absent]
     \/ /\ Goto("remove_dll", "remove_image")
        /\ inst' = [inst EXCEPT !.dll = Absent]
     \/ /\ Goto("remove_image", "reload_after_removal")
        /\ inst' = [inst EXCEPT !.image = Absent]
  /\ UNCHANGED <<tree, unit, svc, outcome, pair>>

------------------------------------------------------------------------------
(* fprintd                                                                   *)

\* LD_LIBRARY_PATH of the unit systemd has loaded; a missing library falls
\* back to the distribution's, a partial one is not loaded.
Loadable == unit = "distro" \/ inst.lib # Part
Started == [Down EXCEPT !.lib = IF unit = "ours" /\ inst.lib = "whole" THEN "ours" ELSE "distro"]

\* Mutant of Restart: a service that runs is left alone.
RestartIfDown ==
  /\ \/ End("restart", "installed") /\ Loadable /\ pair' = "sound"
        /\ svc' = IF svc = Down THEN Started ELSE svc
     \/ End("last_restart", "uninstalled") /\ Loadable /\ pair' = "sound"
        /\ svc' = IF svc = Down THEN Started ELSE svc
     \/ End("restart", "restart_failed") /\ svc' \in {svc, Down} /\ UNCHANGED pair
     \/ End("last_restart", "failed") /\ svc' \in {svc, Down} /\ UNCHANGED pair
  /\ UNCHANGED <<tree, inst, unit>>

Restart ==
  /\ \/ End("restart", "installed") /\ Loadable /\ svc' = Started /\ pair' = "sound"
     \/ End("last_restart", "uninstalled") /\ Loadable /\ svc' = Started /\ pair' = "sound"
     \/ End("restart", "restart_failed") /\ svc' \in {svc, Down} /\ UNCHANGED pair
     \/ End("last_restart", "failed") /\ svc' \in {svc, Down} /\ UNCHANGED pair
  /\ UNCHANGED <<tree, inst, unit>>

Scripts == <<tree, inst, unit, pc, outcome, pair>>

StartService ==
  /\ svc = Down /\ Loadable /\ svc' = Started /\ UNCHANGED Scripts

StopService ==
  /\ svc # Down /\ svc' = Down /\ UNCHANGED Scripts

\* ft_engine_open reads the DLL, then the sidecar, whose size is checked and
\* nothing else: a partial one is refused, that of another build may not be.
ReadDll ==
  /\ svc.lib = "ours" /\ svc.dll = Absent /\ inst.dll \in Dlls
  /\ svc' = [svc EXCEPT !.dll = inst.dll] /\ UNCHANGED Scripts

ReadSidecar ==
  /\ svc.dll # Absent /\ svc.image = Absent
  /\ \/ inst.image \in Dlls /\ svc' = [svc EXCEPT !.image = inst.image]
     \/ svc' = [svc EXCEPT !.dll = Absent]
  /\ UNCHANGED Scripts

Next ==
  \/ Start \/ BreakOff \/ PlaceDll
  \/ CheckDll \/ PublishDll \/ KeepHeader \/ MoveHeader \/ HeaderMoved
  \/ Clone \/ Cloned \/ CheckoutThere \/ AlreadyPresent \/ Inject \/ Injected
  \/ Compile \/ Linked
  \/ Checked \/ InstallLib \/ InstallDll \/ Prepare \/ InstallImage \/ InstallDropin
  \/ DaemonReload \/ Remove \/ Restart
  \/ StartService \/ StopService \/ ReadDll \/ ReadSidecar

Spec == Init /\ [][Next]_vars

------------------------------------------------------------------------------
(* Type correctness: what each file may hold at any moment.                  *)
Trees ==
  [dll : Dlls \cup {Absent}, image : Copies, header : {Absent, Empty, Part, "whole"},
   checkout : {"none", "other", "ref"}, lib : {Absent, Part, "whole"},
   meson : {Absent, Empty, Part, "upstream", "registered"}]
TypeOK ==
  /\ tree \in Trees
  /\ inst \in [lib : {Absent, Part, "whole"}, dll : Copies, image : Copies,
               dropin : {Absent, Empty, "whole"}]
  /\ unit \in {"ours", "distro"} /\ pair \in {"sound", "torn"}
  /\ svc \in [lib : {"none", "distro", "ours"}, dll : Dlls \cup {Absent},
              image : Dlls \cup {Absent}]
  /\ outcome \in {"none", "failed", "fetched", "built", "installed", "uninstalled",
                  "restart_failed"}

(* After a fetch that succeeds the DLL is the release, whatever lay there    *)
(* before and wherever an earlier fetch was broken off.                      *)
FetchedIsRelease == outcome = "fetched" => tree.dll = Release

(* The message of install.sh:57, "installation is in place": when only the   *)
(* restart fails, DLL, sidecar and drop-in are those of one DLL, and systemd *)
(* knows; after an install that succeeds fprintd runs them, or reads them    *)
(* when it opens the device, however many installs were broken off before.   *)
InPlace == inst.dll \in Dlls /\ inst.image = inst.dll /\ inst.dropin = "whole" /\ unit = "ours"
InstallSettles ==
  /\ outcome \in {"installed", "restart_failed"} => InPlace
  /\ outcome = "installed" =>
       /\ inst.lib = "whole" /\ svc.lib \in {"none", "ours"}
       /\ {svc.dll, svc.image} \subseteq {Absent, inst.dll}

(* fprintd runs one build's code with another's headers only while an        *)
(* install is under way or one was broken off and none has completed since.  *)
MixedOnlyWhileTorn ==
  pair = "sound" =>
    /\ svc.image # Absent => svc.image = svc.dll
    /\ inst.dll \in Dlls /\ inst.image \in Dlls => inst.dll = inst.image

(* After an uninstall that succeeds no library, DLL, sidecar or drop-in of   *)
(* ours is left, on disk, in systemd or in the running service.              *)
UninstalledIsGone ==
  outcome = "uninstalled" =>
    /\ \A f \in DOMAIN inst : inst[f] = Absent
    /\ unit = "distro" /\ svc.lib # "ours"

------------------------------------------------------------------------------
(* fetch-blobs.sh:3-4: generated files "are staged and only published after  *)
(* successful validation/extraction": what a fetch that succeeds leaves is   *)
(* the whole header.                                                         *)
FetchedIsWhole == outcome = "fetched" => tree.header = "whole"
==============================================================================
