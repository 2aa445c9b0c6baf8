------------------------------- MODULE BlobTools -------------------------------
(***************************************************************************)
(* The two Python tools that make the blobs the driver loads:              *)
(* extract-firmware.py, by extension, and prepare-engine-image.py, as the  *)
(* instance Prep.  fetch-blobs.sh runs the one, install.sh the other, and  *)
(* neither reads what the other writes: a behaviour is a run of one.       *)
(***************************************************************************)
EXTENDS FirmwareExtraction

CONSTANT Raws   \* DLLs to prepare

\* Header fields are unsigned numbers.
ASSUME RawAssumption ==
  \A f \in Raws :
    /\ {f.len, f.image, f.hdr} \subseteq Nat
    /\ f.secs \in Seq([va : Nat, vsize : Nat, raw : Nat, ptr : Nat])

VARIABLES dll, step, section, image, sidecar   \* those of ImagePreparation

prepVars == <<dll, step, section, image, sidecar>>

Prep == INSTANCE ImagePreparation WITH file <- dll, pc <- step, i <- section

NoDll == dll = "none" /\ step = "idle" /\ section = 1 /\ image = <<>> /\ sidecar = "kept"
NoElf == /\ elf = "none" /\ i = 1 /\ hits = {} /\ pc = "idle"
         /\ firmware = <<>> /\ output = "old" /\ temp = "none"

ToolInit == (Init /\ NoDll) \/ (Prep!Init /\ NoElf)

Extracting == pc # "idle" /\ Next /\ UNCHANGED prepVars
Preparing  == step # "idle" /\ Prep!Next /\ UNCHANGED vars

ToolSpec == ToolInit /\ [][Extracting \/ Preparing]_<<vars, prepVars>>

(* What a finished preparation leaves is the image a PE loader would build.  *)
SidecarIsTheLoadedImage == Prep!SidecarIsTheLoadedImage

(* A DLL that load_pe takes is prepared; a refused one leaves what was there.*)
RefusesOnlyUnloadable == Prep!RefusesOnlyUnloadable
==============================================================================
