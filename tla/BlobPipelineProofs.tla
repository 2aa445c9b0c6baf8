-------------------------- MODULE BlobPipelineProofs --------------------------
(***************************************************************************)
(* Proofs about the scripts for any set of builds of the DLL.  The         *)
(* inductive invariant says what an install, an uninstall or a fetch has   *)
(* established by the step it has come to (Steps): that is what a broken   *)
(* off run loses, since only its pc says so; and what fprintd may have     *)
(* read while no install is torn (Reading).                                *)
(***************************************************************************)
EXTENDS BlobPipeline, TLAPS

\* How far an install has come, from its last step back to its first ...
Reloaded   == {"restart"}
DropinIn   == Reloaded \cup {"reload"}
ImageIn    == DropinIn \cup {"dropin", "writing_dropin"}
Decoded    == ImageIn \cup {"image", "copying_image"}
DllIn      == Decoded \cup {"prepare", "preparing"}
DllTouched == DllIn \cup {"copying_dll"}
LibIn      == DllTouched \cup {"dll"}
Installing == LibIn \cup {"lib", "copying_lib"}

\* ... and an uninstall.
Unloaded   == {"last_restart"}
ImageGone  == Unloaded \cup {"reload_after_removal"}
DllGone    == ImageGone \cup {"remove_image"}
DropinGone == DllGone \cup {"remove_dll"}
LibGone    == DropinGone \cup {"remove_dropin"}

Steps ==
  /\ outcome # "none" => Idle
  /\ pc \in {"fetch_header", "moving_header"} => tree.dll = Release
  /\ pc \in Installing => tree.dll # Absent /\ tree.lib # Absent
  /\ pc \in LibIn => inst.lib = tree.lib
  /\ pc \in DllTouched => pair = "torn"
  /\ pc \in DllIn => inst.dll = tree.dll
  /\ pc \in Decoded => tree.image = tree.dll
  /\ pc \in ImageIn => inst.image = inst.dll
  /\ pc \in DropinIn => inst.dropin = "whole"
  /\ pc \in Reloaded => unit = "ours"
  /\ pc \in LibGone => inst.lib = Absent
  /\ pc \in DropinGone => inst.dropin = Absent
  /\ pc \in DllGone => inst.dll = Absent
  /\ pc \in ImageGone => inst.image = Absent
  /\ pc \in Unloaded => unit = "distro"

Reading ==
  /\ pair = "sound" /\ svc.dll # Absent /\ inst.image \in Dlls => svc.dll = inst.image
  /\ MixedOnlyWhileTorn

Gone ==
  outcome = "uninstalled" =>
    /\ inst.lib = Absent /\ inst.dll = Absent /\ inst.image = Absent /\ inst.dropin = Absent
    /\ unit = "distro" /\ svc.lib # "ours"

PInv == TypeOK /\ Steps /\ Reading /\ FetchedIsRelease /\ InstallSettles /\ Gone

USE DEF Absent, Empty, Part, Copies, Down, Idle, Goto, End, Host, Scripts, Copying, Copied,
        Loadable, Started, InPlace, Installing, LibIn, DllTouched, DllIn, Decoded, ImageIn,
        DropinIn, Reloaded, LibGone, DropinGone, DllGone, ImageGone, Unloaded,
        PInv, Steps, Reading, MixedOnlyWhileTorn, FetchedIsRelease, InstallSettles, Gone

\* fetch-blobs.sh.
LEMMA FetchPInv ==
  ASSUME PInv, CheckDll \/ PublishDll \/ KeepHeader \/ MoveHeader \/ HeaderMoved
  PROVE  PInv'
<1>1. CASE CheckDll
  <2>1. TypeOK' BY <1>1, PipelineAssumption DEF TypeOK, Trees, CheckDll
  <2>2. Steps' BY <1>1, PipelineAssumption DEF TypeOK, Trees, CheckDll
  <2>3. Reading' BY <1>1, PipelineAssumption DEF TypeOK, Trees, CheckDll
  <2>4. FetchedIsRelease' /\ InstallSettles' /\ Gone'
    BY <1>1, PipelineAssumption DEF TypeOK, Trees, CheckDll
  <2> QED BY <2>1, <2>2, <2>3, <2>4
<1>2. CASE PublishDll
  <2>1. TypeOK' BY <1>2, PipelineAssumption DEF TypeOK, Trees, PublishDll
  <2>2. Steps' BY <1>2, PipelineAssumption DEF TypeOK, Trees, PublishDll
  <2>3. Reading' BY <1>2, PipelineAssumption DEF TypeOK, Trees, PublishDll
  <2>4. FetchedIsRelease' /\ InstallSettles' /\ Gone'
    BY <1>2, PipelineAssumption DEF TypeOK, Trees, PublishDll
  <2> QED BY <2>1, <2>2, <2>3, <2>4
<1>3. CASE KeepHeader
  <2>1. TypeOK' BY <1>3, PipelineAssumption DEF TypeOK, Trees, KeepHeader
  <2>2. Steps' BY <1>3, PipelineAssumption DEF TypeOK, Trees, KeepHeader
  <2>3. Reading' BY <1>3, PipelineAssumption DEF TypeOK, Trees, KeepHeader
  <2>4. FetchedIsRelease' /\ InstallSettles' /\ Gone'
    BY <1>3, PipelineAssumption DEF TypeOK, Trees, KeepHeader
  <2> QED BY <2>1, <2>2, <2>3, <2>4
<1>4. CASE MoveHeader
  <2>1. TypeOK' BY <1>4, PipelineAssumption DEF TypeOK, Trees, MoveHeader
  <2>2. Steps' BY <1>4, PipelineAssumption DEF TypeOK, Trees, MoveHeader
  <2>3. Reading' BY <1>4, PipelineAssumption DEF TypeOK, Trees, MoveHeader
  <2>4. FetchedIsRelease' /\ InstallSettles' /\ Gone'
    BY <1>4, PipelineAssumption DEF TypeOK, Trees, MoveHeader
  <2> QED BY <2>1, <2>2, <2>3, <2>4
<1>5. CASE HeaderMoved
  <2>1. TypeOK' BY <1>5, PipelineAssumption DEF TypeOK, Trees, HeaderMoved
  <2>2. Steps' BY <1>5, PipelineAssumption DEF TypeOK, Trees, HeaderMoved
  <2>3. Reading' BY <1>5, PipelineAssumption DEF TypeOK, Trees, HeaderMoved
  <2>4. FetchedIsRelease' /\ InstallSettles' /\ Gone'
    BY <1>5, PipelineAssumption DEF TypeOK, Trees, HeaderMoved
  <2> QED BY <2>1, <2>2, <2>3, <2>4
<1> QED BY <1>1, <1>2, <1>3, <1>4, <1>5

\* build.sh.
LEMMA BuildPInv ==
  ASSUME PInv, Clone \/ Cloned \/ CheckoutThere \/ AlreadyPresent \/ Inject \/ Injected \/ Compile \/ Linked
  PROVE  PInv'
<1>1. CASE Clone
  <2>1. TypeOK' BY <1>1, PipelineAssumption DEF TypeOK, Trees, Clone
  <2>2. Steps' BY <1>1, PipelineAssumption DEF TypeOK, Trees, Clone
  <2>3. Reading' BY <1>1, PipelineAssumption DEF TypeOK, Trees, Clone
  <2>4. FetchedIsRelease' /\ InstallSettles' /\ Gone'
    BY <1>1, PipelineAssumption DEF TypeOK, Trees, Clone
  <2> QED BY <2>1, <2>2, <2>3, <2>4
<1>2. CASE Cloned
  <2>1. TypeOK'
    <3> DEFINE t == [tree EXCEPT !.checkout = "ref"]
    <3>1. t \in Trees BY DEF TypeOK, Trees
    <3>2. [t EXCEPT !.meson = "upstream"] \in Trees BY <3>1 DEF Trees
    <3>3. tree' = [t EXCEPT !.meson = "upstream"] BY <1>2 DEF TypeOK, Trees, Cloned
    <3> QED BY <1>2, <3>2, <3>3 DEF TypeOK, Cloned
  <2>2. Steps' BY <1>2, PipelineAssumption DEF TypeOK, Trees, Cloned
  <2>3. Reading' BY <1>2, PipelineAssumption DEF TypeOK, Trees, Cloned
  <2>4. FetchedIsRelease' /\ InstallSettles' /\ Gone'
    BY <1>2, PipelineAssumption DEF TypeOK, Trees, Cloned
  <2> QED BY <2>1, <2>2, <2>3, <2>4
<1>3. CASE CheckoutThere
  <2>1. TypeOK' BY <1>3, PipelineAssumption DEF TypeOK, Trees, CheckoutThere
  <2>2. Steps' BY <1>3, PipelineAssumption DEF TypeOK, Trees, CheckoutThere
  <2>3. Reading' BY <1>3, PipelineAssumption DEF TypeOK, Trees, CheckoutThere
  <2>4. FetchedIsRelease' /\ InstallSettles' /\ Gone'
    BY <1>3, PipelineAssumption DEF TypeOK, Trees, CheckoutThere
  <2> QED BY <2>1, <2>2, <2>3, <2>4
<1>4. CASE AlreadyPresent
  <2>1. TypeOK' BY <1>4, PipelineAssumption DEF TypeOK, Trees, AlreadyPresent
  <2>2. Steps' BY <1>4, PipelineAssumption DEF TypeOK, Trees, AlreadyPresent
  <2>3. Reading' BY <1>4, PipelineAssumption DEF TypeOK, Trees, AlreadyPresent
  <2>4. FetchedIsRelease' /\ InstallSettles' /\ Gone'
    BY <1>4, PipelineAssumption DEF TypeOK, Trees, AlreadyPresent
  <2> QED BY <2>1, <2>2, <2>3, <2>4
<1>5. CASE Inject
  <2>1. TypeOK' BY <1>5, PipelineAssumption DEF TypeOK, Trees, Inject
  <2>2. Steps' BY <1>5, PipelineAssumption DEF TypeOK, Trees, Inject
  <2>3. Reading' BY <1>5, PipelineAssumption DEF TypeOK, Trees, Inject
  <2>4. FetchedIsRelease' /\ InstallSettles' /\ Gone'
    BY <1>5, PipelineAssumption DEF TypeOK, Trees, Inject
  <2> QED BY <2>1, <2>2, <2>3, <2>4
<1>6. CASE Injected
  <2>1. TypeOK' BY <1>6, PipelineAssumption DEF TypeOK, Trees, Injected
  <2>2. Steps' BY <1>6, PipelineAssumption DEF TypeOK, Trees, Injected
  <2>3. Reading' BY <1>6, PipelineAssumption DEF TypeOK, Trees, Injected
  <2>4. FetchedIsRelease' /\ InstallSettles' /\ Gone'
    BY <1>6, PipelineAssumption DEF TypeOK, Trees, Injected
  <2> QED BY <2>1, <2>2, <2>3, <2>4
<1>7. CASE Compile
  <2>1. TypeOK' BY <1>7, PipelineAssumption DEF TypeOK, Trees, Compile
  <2>2. Steps' BY <1>7, PipelineAssumption DEF TypeOK, Trees, Compile
  <2>3. Reading' BY <1>7, PipelineAssumption DEF TypeOK, Trees, Compile
  <2>4. FetchedIsRelease' /\ InstallSettles' /\ Gone'
    BY <1>7, PipelineAssumption DEF TypeOK, Trees, Compile
  <2> QED BY <2>1, <2>2, <2>3, <2>4
<1>8. CASE Linked
  <2>1. TypeOK' BY <1>8, PipelineAssumption DEF TypeOK, Trees, Linked
  <2>2. Steps' BY <1>8, PipelineAssumption DEF TypeOK, Trees, Linked
  <2>3. Reading' BY <1>8, PipelineAssumption DEF TypeOK, Trees, Linked
  <2>4. FetchedIsRelease' /\ InstallSettles' /\ Gone'
    BY <1>8, PipelineAssumption DEF TypeOK, Trees, Linked
  <2> QED BY <2>1, <2>2, <2>3, <2>4
<1> QED BY <1>1, <1>2, <1>3, <1>4, <1>5, <1>6, <1>7, <1>8

\* install.sh.
LEMMA InstallPInv ==
  ASSUME PInv, Checked \/ InstallLib \/ InstallDll \/ Prepare \/ InstallImage \/ InstallDropin \/ DaemonReload
  PROVE  PInv'
<1>1. CASE Checked
  <2>1. TypeOK' BY <1>1, PipelineAssumption DEF TypeOK, Trees, Checked
  <2>2. Steps' BY <1>1, PipelineAssumption DEF TypeOK, Trees, Checked
  <2>3. Reading' BY <1>1, PipelineAssumption DEF TypeOK, Trees, Checked
  <2>4. FetchedIsRelease' /\ InstallSettles' /\ Gone'
    BY <1>1, PipelineAssumption DEF TypeOK, Trees, Checked
  <2> QED BY <2>1, <2>2, <2>3, <2>4
<1>2. CASE InstallLib
  <2>1. TypeOK' BY <1>2, PipelineAssumption DEF TypeOK, Trees, InstallLib
  <2>2. Steps' BY <1>2, PipelineAssumption DEF TypeOK, Trees, InstallLib
  <2>3. Reading' BY <1>2, PipelineAssumption DEF TypeOK, Trees, InstallLib
  <2>4. FetchedIsRelease' /\ InstallSettles' /\ Gone'
    BY <1>2, PipelineAssumption DEF TypeOK, Trees, InstallLib
  <2> QED BY <2>1, <2>2, <2>3, <2>4
<1>3. CASE InstallDll
  <2>1. TypeOK' BY <1>3, PipelineAssumption DEF TypeOK, Trees, InstallDll
  <2>2. Steps' BY <1>3, PipelineAssumption DEF TypeOK, Trees, InstallDll
  <2>3. Reading' BY <1>3, PipelineAssumption DEF TypeOK, Trees, InstallDll
  <2>4. FetchedIsRelease' /\ InstallSettles' /\ Gone'
    BY <1>3, PipelineAssumption DEF TypeOK, Trees, InstallDll
  <2> QED BY <2>1, <2>2, <2>3, <2>4
<1>4. CASE Prepare
  <2>1. TypeOK' BY <1>4, PipelineAssumption DEF TypeOK, Trees, Prepare
  <2>2. Steps' BY <1>4, PipelineAssumption DEF TypeOK, Trees, Prepare
  <2>3. Reading' BY <1>4, PipelineAssumption DEF TypeOK, Trees, Prepare
  <2>4. FetchedIsRelease' /\ InstallSettles' /\ Gone'
    BY <1>4, PipelineAssumption DEF TypeOK, Trees, Prepare
  <2> QED BY <2>1, <2>2, <2>3, <2>4
<1>5. CASE InstallImage
  <2>1. TypeOK' BY <1>5, PipelineAssumption DEF TypeOK, Trees, InstallImage
  <2>2. Steps' BY <1>5, PipelineAssumption DEF TypeOK, Trees, InstallImage
  <2>3. Reading' BY <1>5, PipelineAssumption DEF TypeOK, Trees, InstallImage
  <2>4. FetchedIsRelease' /\ InstallSettles' /\ Gone'
    BY <1>5, PipelineAssumption DEF TypeOK, Trees, InstallImage
  <2> QED BY <2>1, <2>2, <2>3, <2>4
<1>6. CASE InstallDropin
  <2>1. TypeOK' BY <1>6, PipelineAssumption DEF TypeOK, Trees, InstallDropin
  <2>2. Steps' BY <1>6, PipelineAssumption DEF TypeOK, Trees, InstallDropin
  <2>3. Reading' BY <1>6, PipelineAssumption DEF TypeOK, Trees, InstallDropin
  <2>4. FetchedIsRelease' /\ InstallSettles' /\ Gone'
    BY <1>6, PipelineAssumption DEF TypeOK, Trees, InstallDropin
  <2> QED BY <2>1, <2>2, <2>3, <2>4
<1>7. CASE DaemonReload
  <2>1. TypeOK' BY <1>7, PipelineAssumption DEF TypeOK, Trees, DaemonReload
  <2>2. Steps' BY <1>7, PipelineAssumption DEF TypeOK, Trees, DaemonReload
  <2>3. Reading' BY <1>7, PipelineAssumption DEF TypeOK, Trees, DaemonReload
  <2>4. FetchedIsRelease' /\ InstallSettles' /\ Gone'
    BY <1>7, PipelineAssumption DEF TypeOK, Trees, DaemonReload
  <2> QED BY <2>1, <2>2, <2>3, <2>4
<1> QED BY <1>1, <1>2, <1>3, <1>4, <1>5, <1>6, <1>7

\* Its last steps, and the uninstall.
LEMMA RestartingPInv ==
  ASSUME PInv, Remove \/ Restart
  PROVE  PInv'
<1>1. CASE Remove
  <2>1. TypeOK' BY <1>1, PipelineAssumption DEF TypeOK, Trees, Remove
  <2>2. Steps' BY <1>1, PipelineAssumption DEF TypeOK, Trees, Remove
  <2>3. Reading' BY <1>1, PipelineAssumption DEF TypeOK, Trees, Remove
  <2>4. FetchedIsRelease' /\ InstallSettles' /\ Gone'
    BY <1>1, PipelineAssumption DEF TypeOK, Trees, Remove
  <2> QED BY <2>1, <2>2, <2>3, <2>4
<1>2. CASE Restart
  <2>1. TypeOK' BY <1>2, PipelineAssumption DEF TypeOK, Trees, Restart
  <2>2. Steps' BY <1>2, PipelineAssumption DEF TypeOK, Trees, Restart
  <2>3. Reading' BY <1>2, PipelineAssumption DEF TypeOK, Trees, Restart
  <2>4. FetchedIsRelease' /\ InstallSettles' /\ Gone'
    BY <1>2, PipelineAssumption DEF TypeOK, Trees, Restart
  <2> QED BY <2>1, <2>2, <2>3, <2>4
<1> QED BY <1>1, <1>2

\* fprintd.
LEMMA ServicePInv ==
  ASSUME PInv, StartService \/ StopService \/ ReadDll \/ ReadSidecar
  PROVE  PInv'
<1>1. CASE StartService
  <2>1. TypeOK' BY <1>1, PipelineAssumption DEF TypeOK, Trees, StartService
  <2>2. Steps' BY <1>1, PipelineAssumption DEF TypeOK, Trees, StartService
  <2>3. Reading' BY <1>1, PipelineAssumption DEF TypeOK, Trees, StartService
  <2>4. FetchedIsRelease' /\ InstallSettles' /\ Gone'
    BY <1>1, PipelineAssumption DEF TypeOK, Trees, StartService
  <2> QED BY <2>1, <2>2, <2>3, <2>4
<1>2. CASE StopService
  <2>1. TypeOK' BY <1>2, PipelineAssumption DEF TypeOK, Trees, StopService
  <2>2. Steps' BY <1>2, PipelineAssumption DEF TypeOK, Trees, StopService
  <2>3. Reading' BY <1>2, PipelineAssumption DEF TypeOK, Trees, StopService
  <2>4. FetchedIsRelease' /\ InstallSettles' /\ Gone'
    BY <1>2, PipelineAssumption DEF TypeOK, Trees, StopService
  <2> QED BY <2>1, <2>2, <2>3, <2>4
<1>3. CASE ReadDll
  <2>1. TypeOK' BY <1>3, PipelineAssumption DEF TypeOK, Trees, ReadDll
  <2>2. Steps' BY <1>3, PipelineAssumption DEF TypeOK, Trees, ReadDll
  <2>3. Reading' BY <1>3, PipelineAssumption DEF TypeOK, Trees, ReadDll
  <2>4. FetchedIsRelease' /\ InstallSettles' /\ Gone'
    BY <1>3, PipelineAssumption DEF TypeOK, Trees, ReadDll
  <2> QED BY <2>1, <2>2, <2>3, <2>4
<1>4. CASE ReadSidecar
  <2>1. TypeOK' BY <1>4, PipelineAssumption DEF TypeOK, Trees, ReadSidecar
  <2>2. Steps' BY <1>4, PipelineAssumption DEF TypeOK, Trees, ReadSidecar
  <2>3. Reading' BY <1>4, PipelineAssumption DEF TypeOK, Trees, ReadSidecar
  <2>4. FetchedIsRelease' /\ InstallSettles' /\ Gone'
    BY <1>4, PipelineAssumption DEF TypeOK, Trees, ReadSidecar
  <2> QED BY <2>1, <2>2, <2>3, <2>4
<1> QED BY <1>1, <1>2, <1>3, <1>4

\* What the user does.
LEMMA BeginPInv ==
  ASSUME PInv, Start \/ BreakOff \/ PlaceDll
  PROVE  PInv'
<1>1. CASE Start
  <2>1. TypeOK' BY <1>1, PipelineAssumption DEF TypeOK, Trees, Start
  <2>2. Steps' BY <1>1, PipelineAssumption DEF TypeOK, Trees, Start
  <2>3. Reading' BY <1>1, PipelineAssumption DEF TypeOK, Trees, Start
  <2>4. FetchedIsRelease' /\ InstallSettles' /\ Gone'
    BY <1>1, PipelineAssumption DEF TypeOK, Trees, Start
  <2> QED BY <2>1, <2>2, <2>3, <2>4
<1>2. CASE BreakOff
  <2>1. TypeOK' BY <1>2, PipelineAssumption DEF TypeOK, Trees, BreakOff
  <2>2. Steps' BY <1>2, PipelineAssumption DEF TypeOK, Trees, BreakOff
  <2>3. Reading' BY <1>2, PipelineAssumption DEF TypeOK, Trees, BreakOff
  <2>4. FetchedIsRelease' /\ InstallSettles' /\ Gone'
    BY <1>2, PipelineAssumption DEF TypeOK, Trees, BreakOff
  <2> QED BY <2>1, <2>2, <2>3, <2>4
<1>3. CASE PlaceDll
  <2>1. TypeOK' BY <1>3, PipelineAssumption DEF TypeOK, Trees, PlaceDll
  <2>2. Steps' BY <1>3, PipelineAssumption DEF TypeOK, Trees, PlaceDll
  <2>3. Reading' BY <1>3, PipelineAssumption DEF TypeOK, Trees, PlaceDll
  <2>4. FetchedIsRelease' /\ InstallSettles' /\ Gone'
    BY <1>3, PipelineAssumption DEF TypeOK, Trees, PlaceDll
  <2> QED BY <2>1, <2>2, <2>3, <2>4
<1> QED BY <1>1, <1>2, <1>3

(* The inductive invariant holds in every reachable state.                   *)
THEOREM PipelineInvariant == Spec => []PInv
<1>1. Init => PInv
  <2> SUFFICES ASSUME Init PROVE PInv OBVIOUS
  <2>1. tree \in Trees BY DEF Init, Trees
  <2>2. inst \in [lib : {Absent, Part, "whole"}, dll : Copies, image : Copies,
                 dropin : {Absent, Empty, "whole"}]
    BY DEF Init
  <2>3. svc \in [lib : {"none", "distro", "ours"}, dll : Dlls \cup {Absent},
                image : Dlls \cup {Absent}]
    BY DEF Init
  <2>4. TypeOK BY <2>1, <2>2, <2>3 DEF Init, TypeOK
  <2>5. Steps BY DEF Init
  <2>6. Reading BY PipelineAssumption DEF Init
  <2>7. FetchedIsRelease /\ InstallSettles /\ Gone BY DEF Init
  <2> QED BY <2>4, <2>5, <2>6, <2>7
<1>2. PInv /\ [Next]_vars => PInv'
  <2> SUFFICES ASSUME PInv, [Next]_vars PROVE PInv' OBVIOUS
  <2>1. CASE Next
    BY <2>1, FetchPInv, BuildPInv, InstallPInv, RestartingPInv, ServicePInv, BeginPInv DEF Next
  <2>2. CASE UNCHANGED vars BY <2>2 DEF vars, TypeOK
  <2> QED BY <2>1, <2>2
<1> HIDE DEF PInv
<1> QED BY <1>1, <1>2, PTL DEF Spec

HIDE DEF PInv

(* Every file, and what fprintd has read, is one of the listed contents.     *)
THEOREM PipelineTyped == Spec => []TypeOK
<1>1. PInv => TypeOK BY DEF PInv
<1> QED BY <1>1, PipelineInvariant, PTL

(* An install that ends well, or fails only in its restart, has put one DLL, *)
(* its sidecar and the drop-in in place, whatever was broken off before.     *)
THEOREM InstallsSettle == Spec => []InstallSettles
<1>1. PInv => InstallSettles BY DEF PInv
<1> QED BY <1>1, PipelineInvariant, PTL

(* fprintd mixes two builds only while an install is torn.                   *)
THEOREM NoMixUnlessTorn == Spec => []MixedOnlyWhileTorn
<1>1. PInv => MixedOnlyWhileTorn BY DEF PInv
<1> QED BY <1>1, PipelineInvariant, PTL

(* A fetch that ends well leaves the release of the DLL.                     *)
THEOREM FetchesRelease == Spec => []FetchedIsRelease
<1>1. PInv => FetchedIsRelease BY DEF PInv
<1> QED BY <1>1, PipelineInvariant, PTL

(* After an uninstall no library, DLL, sidecar or drop-in of ours is left.   *)
THEOREM UninstallRemoves == Spec => []UninstalledIsGone
<1>1. PInv => UninstalledIsGone
  <2> SUFFICES ASSUME PInv, outcome = "uninstalled" PROVE UninstalledIsGone
    BY DEF UninstalledIsGone
  <2>1. DOMAIN inst = {"lib", "dll", "image", "dropin"} BY DEF PInv, TypeOK
  <2> QED BY <2>1 DEF PInv, UninstalledIsGone
<1> QED BY <1>1, PipelineInvariant, PTL
------------------------------------------------------------------------------
(* What the comment in fetch-blobs.sh promises of the header is not kept     *)
(* (see FetchedIsWhole); this is all that breaks it.                         *)
HeaderMovesWhole == [][pc = "moving_header" => HeaderMoved \/ UNCHANGED pc]_vars

HeaderSettled == pc # "moving_header" => tree.header \in {Absent, "whole"}

LEMMA HeaderKept ==
  ASSUME TypeOK, Next, pc # "moving_header",
         ~(CheckDll \/ PublishDll \/ KeepHeader \/ MoveHeader \/ HeaderMoved)
  PROVE  /\ tree'.header = tree.header
         /\ pc' # "moving_header"
         /\ outcome' # "fetched" \/ outcome = "fetched"
<1>1. CASE Start \/ BreakOff \/ PlaceDll
  BY <1>1 DEF Start, BreakOff, PlaceDll, TypeOK, Trees
<1>2. CASE Clone \/ Cloned \/ CheckoutThere \/ AlreadyPresent
  BY <1>2 DEF Clone, Cloned, CheckoutThere, AlreadyPresent, TypeOK, Trees
<1>3. CASE Inject \/ Injected \/ Compile \/ Linked
  BY <1>3 DEF Inject, Injected, Compile, Linked, TypeOK, Trees
<1>4. CASE Checked \/ InstallLib \/ InstallDll \/ Prepare \/ InstallImage \/ InstallDropin
  BY <1>4 DEF Checked, InstallLib, InstallDll, Prepare, InstallImage, InstallDropin,
     TypeOK, Trees
<1>5. CASE DaemonReload \/ Remove \/ Restart
  BY <1>5 DEF DaemonReload, Remove, Restart
<1>6. CASE StartService \/ StopService \/ ReadDll \/ ReadSidecar
  BY <1>6 DEF StartService, StopService, ReadDll, ReadSidecar
<1> QED BY <1>1, <1>2, <1>3, <1>4, <1>5, <1>6 DEF Next

(* A fetch that succeeds leaves the whole header, however often fetches,     *)
(* builds and installs are broken off elsewhere: only a run broken off while *)
(* mv copies the header leaves a partial one for later runs to keep.         *)
THEOREM HeaderWholeUnlessCut == Spec /\ HeaderMovesWhole => []FetchedIsWhole
<1> DEFINE M == [pc = "moving_header" => HeaderMoved \/ UNCHANGED pc]_vars
           H == HeaderSettled /\ FetchedIsWhole
<1>1. Init => H
  BY DEF Init, HeaderSettled, FetchedIsWhole
<1>2. ASSUME PInv, PInv', H, [Next]_vars, M PROVE H'
  <2>1. /\ outcome # "none" => pc = "idle"
        /\ outcome' # "none" => pc' = "idle"
    BY <1>2 DEF PInv, Steps
  <2>2. TypeOK BY <1>2 DEF PInv
  <2>3. CASE UNCHANGED vars
    BY <1>2, <2>3 DEF vars, HeaderSettled, FetchedIsWhole
  <2>4. CASE HeaderMoved
    BY <2>2, <2>4 DEF HeaderMoved, HeaderSettled, FetchedIsWhole, TypeOK, Trees
  <2>5. CASE pc = "moving_header" /\ UNCHANGED pc
    BY <2>1, <2>5 DEF HeaderSettled, FetchedIsWhole
  <2>6. CASE pc # "moving_header" /\ (CheckDll \/ PublishDll)
    BY <1>2, <2>1, <2>2, <2>6
    DEF CheckDll, PublishDll, HeaderSettled, FetchedIsWhole, TypeOK, Trees
  <2>7. CASE pc # "moving_header" /\ (KeepHeader \/ MoveHeader)
    BY <1>2, <2>1, <2>7 DEF KeepHeader, MoveHeader, HeaderSettled, FetchedIsWhole
  <2>8. CASE /\ Next /\ pc # "moving_header"
             /\ ~(CheckDll \/ PublishDll \/ KeepHeader \/ MoveHeader \/ HeaderMoved)
    BY <1>2, <2>2, <2>8, HeaderKept DEF HeaderSettled, FetchedIsWhole
  <2> QED BY <1>2, <2>3, <2>4, <2>5, <2>6, <2>7, <2>8
<1>3. PInv /\ PInv' /\ H /\ [Next]_vars /\ M => H'
  BY <1>2
<1>4. H => FetchedIsWhole
  OBVIOUS
<1> HIDE DEF H
<1> QED BY <1>1, <1>3, <1>4, PipelineInvariant, PTL DEF Spec, HeaderMovesWhole
==============================================================================
