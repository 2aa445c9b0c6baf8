# Verification of the FT9201 (2808:9338) fingerprint driver

TLA+ models, TLC configurations and TLAPS proofs for the libfprint driver in
`src/src/ft9201.c`, the native wrapper around the vendor's matcher DLL in
`src/src/ft_engine.c`, the scripts in `src/scripts/` that fetch, build and
install them, and the way fprintd uses the result.

## The system

fprintd loads libfprint, libfprint loads the driver. The driver talks to the
reader over USB with libfprint's sequential state machines (`FpiSsm`): a
state's entry code submits one asynchronous transfer or one delay, its callback
moves the machine on, fails it or completes it, and a completion handler reports
to libfprint, starts the next scan, or both. The driver calls the matcher DLL,
loaded into the same process by a small PE loader, synchronously from those
handlers; the DLL calls back into a storage adapter that holds one record.
Everything runs on the thread of one main loop at a time, but fprintd may
re-open the device on another thread. Three shell scripts and two Python tools
put the firmware header, the DLL, its decoded sidecar, the library and the
systemd drop-in where fprintd finds them; fprintd may be started at any moment.

| Component | Source | State it keeps | Operations | What makes it correct |
| --- | --- | --- | --- | --- |
| Handshake (init SSM) | `ft9201.c` 188-195, 276-300, 455-475 | state, transfer in flight, geometry | five transfers, `info_9338_cb` | the reply read is the reply to its command; it always ends |
| Scan cycle (scan SSM) | `ft9201.c` 766-849, 933-999 | state, transfer in flight, `image_buf`, `scan_ok` | fifteen states, four callbacks | fresh frame, one frame per touch, in step with the device, ends when cancelled |
| Driver (vfuncs, completion handlers) | `ft9201.c` 737-760, 1129-1444 | `is_verify`, `is_identify`, `enroll_done`, `engine_ok`, `tmpl_blob` | open, close, enroll, verify, identify, cancel | every action answered exactly once, by an answer that belongs to it |
| Matching engine API | `ft_engine.c` 541-626 | `g_loaded`, `g_iface`, `nshims`, `%gs`; in the DLL: the last sample, the open enrollment | open, close, accept, enroll begin/update/commit, verify | never entered unloaded or unarmed; commits its own template |
| Single-record storage adapter | `ft_engine.c` 480-539 | `g_rec_template`, its length, `g_have_record`, `g_rec_identity` | query, first, next, get current, add | the DLL is handed the caller's record, whole, and nothing else |
| PE loader | `ft_engine.c` 28-118, 275-446 | the image at its fixed base | `load_pe`, `get_export` | every range it touches is inside the image; its steps in order |
| Frame geometry | `ft_engine.c` 448-478 | `small`, `birbuf` | crop, scale, BIR | reads in the frame; all of this frame, centred |
| Blob pipeline | `src/scripts/*.sh` | files in the tree and in `/usr`, systemd's unit, fprintd | fetch, build, install, uninstall | a script that succeeds leaves what it says, however earlier ones ended |
| Engine image preparation | `prepare-engine-image.py` | the image, the sidecar | check, copy, write | the sidecar is the image a loader would build |
| Firmware extraction | `extract-firmware.py` | the firmware, `out.h`, a temporary | find, cut, publish | the bytes are the symbol; the header is old or whole |
| kernel32 shims | `ft_engine.c` 134-272 | TLS slots, heap | 88 stubs | the table is large enough |
| Legacy bring-up and scan | `ft9201.c` 197-273, 302-445, 477-734, 783-801, 851-931, 1001-1121 | firmware offset, retries, background | firmware download, polling | not entered on this device |
| `crypto_shims.c`, `compat/`, tests, udev rule | | none of the driver's | | |

Hard behaviours: cancellation racing with a delay or a landed transfer; data a
cancelled or crashed scan leaves in the device; a flag or a buffer that outlives
the action it belonged to; process-wide engine state that outlives the device;
a DLL that calls the store in any order in the middle of a call; results of the
DLL that are thrown away; polling loops with no bound of their own; scripts
broken off between two files that belong together. `PROJECT.json` lists each at
its line under `hazards`, with the properties that watch it.

## Modules

| Module | Models |
| --- | --- |
| `SensorSsm` | both state machines (live states), the USB transfers, the reader's bulk endpoint, the finger; what completion handlers may do to the machines |
| `MatchEngine` | operators for every `ft_engine_*` call on a record of the process-wide state |
| `EngineSession` | every legal order of those calls, on several threads, by any caller of `ft_engine.h`; abstract for `StorageAdapter` |
| `StorageAdapter` | the same calls from inside: entered, the storage vtable called by the DLL, returned from; implements `EngineSession` |
| `Ft9201` | the driver: extends `SensorSsm` and `MatchEngine`, one action per vfunc and per way out of `scan_ssm_complete` |
| `FpDeviceContract` | abstract: what a client of libfprint may see the device do; implemented by `Ft9201` |
| `PeLoader` | the first open step by step: `load_pe`, its range checks, the page protections, `get_export`, Query, Attach; extends `MatchEngine` |
| `FrameGeometry` | `prepare_frame`, `resize`, `build_bir` over a sequence of frames |
| `BlobPipeline` | the file operations of the three scripts, and the fprintd that reads their result |
| `ImagePreparation`, `FirmwareExtraction` | the two Python tools |
| `BlobTools` | a run of either: extends the one, instantiates the other |
| `SensorSsmProofs`, `Ft9201Proofs`, `StorageAdapterProofs` (with `EngineSession`), `PeLoaderProofs`, `FrameGeometryProofs`, `BlobPipelineProofs`, `BlobToolsProofs` | theorems about the modules they are named after |
| `MatchEngineProofs` | what each engine call preserves, for any threads and tags: lemmas of the modules above that use the engine |
| `MCSensorSsm`, `MCFt9201`, `MCPeLoader`, `MCStorageAdapter`, `MCFrameGeometry`, `MCBlobPipeline`, `MCBlobTools` | values for the constants of the TLC runs |

### SensorSsm

`ssm` is the enum value of `fpi_ssm_get_cur_state`, `"off"` when neither machine
runs. `flight` is the one asynchronous call the entry code has issued: a
`"timer"` (`fpi_ssm_next_state_delayed`), a `"live"` transfer, or a `"doomed"`
one, submitted with a cancellable that is already cancelled. Entering a state
and issuing its call is one step, as in the code (`Enter`). The entry code is
grouped by what it does (`ArmStates`, `StatusCmds`, ...) and each callback is an
action: `CtrlAck` (`ctrl_out_cb`), `FingerPolled` (`finger_9338_cb`),
`StatusRead` (`status_9338_cb`), `ImageRead` (`image_9338_cb`), `StillThere` and
`Lifted` (`lift_9338_cb`), `InfoRead` (`info_9338_cb`, together with the part of
`init_ssm_complete` that allocates the buffers: both run in one callback). An
error callback, and the two length checks that fail the machine, are `Failed`.

`image` says how old the contents of `image_buf` are: `"scan"` for the frame of
the running scan, `"op"` for an earlier scan of the same action, `"old"` for an
earlier action, `"zero"` after allocation. `sampled` records that the touch that
now rests on the sensor has been photographed by this action; it exists only for
`OneSamplePerTouch`. `area` and `bufLen` are the geometry product and the bytes
allocated.

The steps that end a machine leave `ssm'` open so that the completion handlers
of `Ft9201` decide what follows. `SensorSpec` lets handlers do anything they may
(stop, rescan), so what holds of it does not depend on which they choose;
`KeepsSensorSpec` checks that the driver stays within it.

Assumed about the reader, which is not in the repository: request 0x34 empties
the bulk endpoint (that is how the source names it); a command's reply queues
behind one that was never collected; whether a select is answered is left open;
request 0x43 answers the truth or a value of `OddReplies`.

### MatchEngine and EngineSession

The state is one record: C globals (`loaded`, `iface`, `shims`, `have`, `rec`),
what the kernel holds (`reserved`, `armed`: the threads whose `%gs` points at
the TEB), and what the DLL must hold for its calls to mean anything (`frame`,
`pend`, `folds`). Templates and frames are tags that say where they come from.
`misuse` latches a call through a NULL interface, on an unarmed thread, or
without the sample it needs; `Enter_DLL` is every such call. Each call returns
the set of outcomes the DLL may choose.

`ft_engine_enroll_begin` ignores the result of `Create`, which may fail in every
run. `refused` remembers that the last `Create` did: the enrollment then goes on
with the samples of the one before it, and the template it commits mixes both.
The repository cannot say whether the DLL's `Create` ever fails, nor promises
anything for that case, so this is a hazard and not a finding. What the
properties about templates (`EnrolledFromThisOp`, `CommitReturnsOwn`,
`LeftoverNeverSeen`) say is that nothing else lets another enrollment's samples
in: not a cancel, a rescan, a restart, a verify in between, nor an earlier
`Create` that failed. `folds` counts from the call of `Create`, failed or not.
Commit is assumed not to hand an empty template to `AddRecord` as a success.

`StorageAdapter` opens up the call that is one step in `EngineSession`. `Enter`
is what `ft_engine.c` does before the DLL runs, `Leave` what it does after; in
between the DLL calls the vtable's slots in any order and as often as it likes
(slots that hold `st_default` change nothing). `bytes` and `size` are
`g_rec_template` and `g_rec_tsize`, a cell of the array saying where its bytes
are from, so that a shorter template leaves the tail of a longer one behind it;
`have` and `ident` are `g_have_record` and `g_rec_identity`. `cursor` and `seen`
belong to the DLL: whether its last query found a record, and what
`GetCurrentRecord` last handed it. That only `CommitEnrollment` calls
`AddRecord` is assumed of the DLL. While a call runs the globals and the record
`eng` of `EngineSession` differ; `Synced` brings them together when it returns,
and `CallsAreAtomic` says that the whole is then one step of `EngineSession`.

### PeLoader

`LoadOutcomes` of `MatchEngine` says what an open may end in; `PeLoader` walks
there. A DLL is a record of the numbers the loader reads: sizes, sections,
import descriptors, the TLS directory, the export table, counted in cells of
eight bytes (an import slot), `Page` cells to a page. `pc` is the next step of
`load_pe`, `at` the counter of the loop it is in, `mem` the protection of each
page as `mmap` left it. The range checks (`image_range` and the two beside it)
do not look at `mem`: like the code they walk the section table again, which is
why `RangeIsMapped` is worth stating. What the code follows without a check
(pointers to DLL code, the protection of a slot it writes) makes the step
`Crash` if the page does not allow it. The pointers of the TLS directory are
virtual addresses, counted from the preferred base, so that NULL is `-Base`: the
code skips the range check of a NULL template start (line 388) but not the copy,
and a template with a length and no address is read from address 0. `Unchecked`
lists that with the rest of what is taken on trust. `Prepared` is the condition under which
`prepare-engine-image.py` writes a sidecar. Left out: signatures and the bounds
of the header tables (taken as good), the characters of names (a name is where
it starts, and ends in its first cell; an import by number has none), the bytes copied into the sidecar, and
wrap-around: every size is checked against `SizeOfImage`, at most 2 GB, before
anything is added to it.

### Ft9201 and FpDeviceContract

A handler is one action, from the callback that completes the machine to the
last call it makes: `fpi_device_*_complete`, `start_scan`, the engine calls.
`told` is the last answer libfprint was given, together with the evidence the
properties need (which template was loaded, which frame was compared, what the
DLL found alike). `request` is what libfprint was asked. `Complete` models
libfprint's rule that a completion for another action than the current one is
ignored. `whole` is what `Status` said of the
template that was committed: the contract lets an enrollment succeed before its
last stage only if the engine found the template complete. `report_identify_retry` is part of `ScanRejected`. The gallery loop of `scan_ssm_complete` is `GalleryWalk`, a recursive function
whose step `GalleryTurn` is the loop body: break out after a match, stop at a
malformed print, skip one the engine cannot load. `cur_print` is not
a variable of its own: libfprint hands the driver the print of the current
action when it starts, and that is `request`.

Not modelled because nothing reads them on this device: `accum_buf`, `tmpl_buf`,
`background_buf`, `has_background`, `sensor_variant`, `fw_offset`, `fw_retries`.
A second device on the same engine is out of scope (`ft_engine.h`, line 3:
"Single-device (global state)").

### FrameGeometry

A pixel is the place in the frame it was read from, so a picture says where each
of its pixels belongs. `small` is static in the code and outlives the call; it is
written row by row, as the loops do, over what the frame before left in it.
`SourceIndex` is the index expression of the crop and of `resize`; `Pixel` reads
there, or yields `Nothing` outside the buffer. `Picture` is the reference: the
centred window, or the nearest pixel at or before. The constant header fields of
the BIR are left out.

### BlobPipeline

Three scripts with one program counter, `pc`; `BreakOff` ends the running one
before any step (a kill, or a command that fails under `set -e`). A file is
absent, its proper content, or what an interrupted write leaves of it: `mv`
across file systems and `install(1)` unlink, create and copy, a shell
redirection truncates first, `mv` within one file system is atomic. `unit` is
what the unit systemd has *loaded* points to, `svc` the running fprintd with the
library it started with and the DLL and sidecar it has read. `PlaceDll` is the
user, who may put another build of the DLL into `blobs/`. `pair` is a history
variable for `MixedOnlyWhileTorn`: "torn" from an install's first touch of the
DLL until an install completes. Downloads, the udev rule and SELinux labels are
left out.

`build.sh` reads `meson.build` and opens it for writing before it writes
(lines 45-50). Broken off there it leaves an empty or cut file in which the next
run finds nothing to replace, or finds `'ft9201'` and takes it for registered;
it announces success, and only meson or the compiler can notice. The model has this behaviour
(`Inject`, `AlreadyPresent`); it is a limit of `build.sh` that no property
denies, and a new clone is the way out.

### FirmwareExtraction and ImagePreparation

A byte is its place in the file. `FirmwareExtraction` looks for the section that
holds the symbol's address, cuts the symbol out with Python's slices, which end
silently with the file, and publishes it by a temporary and a rename; a write may
raise, the tool may be killed. `ImagePreparation` checks a section table and
copies with Python's slice assignment, which moves what follows when the two
lengths differ. Signatures, machine types and table bounds are taken as good.
Neither reads what the other writes, so a behaviour of `BlobTools` is a run of one
of them.

## Runs

| Run | Instance | Shows |
| --- | --- | --- |
| `sensor` | two geometries (one left to the fallback), an odd poll reply, any pipe contents to begin with | `ReplyInStep`, `FreshFrame`, `BufferHoldsFrame`, `OneSamplePerTouch`, `CancelEnds` |
| `driver` | three enrollment stages; prints that are valid, unusable and malformed; galleries of none, two and three; truthful polls | `BusyIffRunning`, `NoEngineMisuse`, `VerifyAnswersRequest`, `IdentifyAnswersGallery`, `EnrolledFromThisOp`, `CancelIsAnswered`, `OpenIsAnswered`, `LiftNoticed`, `ImplementsContract`, `KeepsSensorSpec` |
| `storage_adapter` | two threads, templates of one and two cells, a record of two, two folds per enrollment | `NoMisuse`, `CommitReturnsOwn`, `RecordIsTheCallers`, `LeftoverNeverSeen`, `CallsAreAtomic` |
| `loader` | 14718 DLLs: every table of up to two sections from a set that overlaps, leaves gaps, is empty or unaligned; then each directory varied over an ordinary layout | `RangeIsMapped`, `NameLimitIsMapped`, `CrashIsUnchecked`, `OpenIsEngineOpen` |
| `frame_geometry` | an engine of 3 by 2, frames of every size up to 6 by 6, one after another | `ReadsInFrame`, `WholeFrame` |
| `blob_pipeline` | the release and one other build of the DLL | `FetchedIsRelease`, `InstallSettles`, `MixedOnlyWhileTorn`, `UninstalledIsGone` |
| `blob_tools` | files of three bytes with up to two sections that overlap, touch and pass every end | `BytesAreTheSymbol`, `RefusesOnlyUnsound`, `PublishedWhole`, `SidecarIsTheLoadedImage`, `RefusesOnlyUnloadable` |
| `never_aborts` | as `driver` | violated: the second failing open aborts fprintd |
| `stage_is_folded_frame` | as `driver` | violated: a failing update is counted as a stage |
| `iat_in_writable_data` | the DLLs with imports | violated: an import table in a code section passes the check |
| `armed_on_every_entry` | the DLLs with a TLS directory | violated: TLS callbacks run before `%gs` is armed |
| `blob_fetched_is_whole` | as `blob_pipeline` | violated: a fetch that succeeds may leave a partial header |

Each passing run of a module with a type invariant checks that as well.

Bounds. The machines are finite as they stand: only the geometries and replies
are chosen, two geometries being enough for a re-open to change the size in
either direction. `ShimTable` and `ShimCount` have the values of the code (128
and 88). Stages: 18 in the code, three in `driver`, which has a first, a middle
and a last stage. `MaxFolds` bounds the folds of one enrollment in
`EngineSession`: two, since a template is a set of tags and a third fold adds
none. `MaxSize` of two cells and templates of one and two are the fewest for
which a short template is copied over a long one; a length of `MaxSize + 1` is
the oversize one. Galleries put a valid, an unusable and a malformed print in
every order that the loop tells apart: nothing, a first and second candidate, an
unloadable one before a match, and a malformed one last, reached only when
nothing before it matched.

`loader`: pages of two cells are the smallest in which rounding does anything,
two sections the fewest that overlap or leave a gap between them, four pages
hold headers, code, data and a gap. `frame_geometry`: six is twice and three
times the engine's sides, so differences are odd, even and zero, and scaling
goes up and down. `blob_pipeline`: two builds are enough for a DLL and a sidecar
that do not belong together.

Deadlock is checked in every run but those of `PeLoader`, whose one call ends: a
finger can always be placed or lifted, fprintd can always restart, a script can
always be run again, and a tool that has ended stutters (`Ended`).

Fairness. `FairSensorSpec` and `FairSpec` assume weak fairness of what the main
loop does by itself: a due timer is dispatched, and a submitted transfer ends,
with data, with an error or by its timeout of 5 s (`CTRL_TIMEOUT`,
`BULK_TIMEOUT`). Nothing is assumed of the finger, of the client (who may never
cancel), or of the outcome of a transfer. That is one weak fairness condition on
the union of the host's steps: exactly one call is in flight at a time, so no
step of the host competes with another for it. `CancelEnds` therefore rests on
the code: after a delay ends, the next transfer is submitted with the cancelled
cancellable and can only fail.

`LiftNoticed` needs the reader to answer truthfully; with another reply the wait
for removal polls for ever, which is what `OddReplies` = {} excludes in `driver`.
Odd replies are in `sensor`, and the theorems hold for every set of them. That
the wait for a finger has no end without a finger or a cancel is intended.

## Findings

1. **A second failing open aborts fprintd** (`ft_engine.c:551`). `register_shims`
   runs before `load_pe` and its entries are never removed; 2 x 88 > 128 and
   `reg` calls `abort()`. `build.sh:12-13` says the DLL is needed only for enroll
   and verify, and `init_ssm_complete` completes the open with a warning. The
   first open of a process never aborts.
2. **A failing update is counted as a stage** (`ft_engine.c:599`). Only
   0x80098008 or a reject detail is a rejection; any other failure of `Update`
   is followed by `Status`, and the driver announces a completed stage
   (`ft_engine.h:24-25` promises that the frame was folded or rejected).

3. **An import table in code passes the check** (`ft_engine.c:92`).
   `image_writable_range` discards the characteristics it reads, so the promise
   of line 357 ("never code") is not kept: the loader faults on the first slot.
4. **TLS callbacks run without a TEB** (`ft_engine.c:399`), before `set_gs` in
   line 411; `PORTING.md:136-137` asks for `%gs` on every entry into the engine.
5. **A partial firmware header is taken for a whole one** (`fetch-blobs.sh:66`).
   The header is staged under `TMPDIR` and moved into `src/`, usually across file
   systems, where `mv` copies in place. A run killed during the copy leaves a
   partial file; every later run sees that it is not empty (line 52), keeps it
   and exits 0, although lines 3-4 promise that generated files "are staged and
   only published after successful validation/extraction". The DLL, staged in
   its destination, is published whole.

## Proofs

All theorems hold for every value of the constants that the named assumptions
allow: `InfoAssumption`, `DriverAssumption`, `FileAssumption` and their like say
only that the constants are of the kind the code has (bytes, numbers of stages,
prints that are not the malformed one, unsigned header fields).

### The machines (`SensorSsmProofs`)

| Theorem | Statement |
| --- | --- |
| `TypeCorrect` | `SensorSpec => []SensorTypeOK` |
| `InStep` | `SensorSpec => []ReplyInStep` |
| `Fresh` | `SensorSpec => []FreshFrame` |
| `BufferFits` | `SensorSpec => []BufferHoldsFrame` |
| `OneSample` | `0 \notin OddReplies` implies `SensorSpec => OneSamplePerTouch` |
| `CancelledMachineRunsDown` | `SensorSpec => [][CancelRunsDown]_sensorVars` |
| `OpenRunsDown` | `SensorSpec => [][HandshakeRunsDown]_sensorVars` |
| `WaitForLiftRunsDown` | `OddReplies = {}` implies `SensorSpec => [][LiftRunsDown]_sensorVars` |
| `CancelledEnds` | `SensorSpec /\ KeepsLanding => CancelEnds` |
| `RemovalNoticed` | `OddReplies = {}` implies `SensorSpec /\ KeepsLanding => LiftNoticed` |

All rest on one inductive invariant, `IInv`. `ReplyInStep` alone is not
inductive: that a read finds its own reply needs the endpoint to be empty when
the command goes out, hence `ssm \in ReplyCmds => pipe = "empty"`, and that in
turn needs that only an arm state precedes a command (`CtrlSuccessor`) and that
a timer runs only in the two delay states, since otherwise `Timer` could skip
the reset. `BufferHoldsFrame` needs that a scan runs only on an open device and
that the buffers match the geometry for as long as it is open. `AreaPositive`
is where the fallback geometry matters.

`OneSample` uses a second invariant: a scan that has not taken its picture yet
has not photographed this touch. It is inductive only when a poll cannot read 0
with a finger down; `NotYetStep` is its step.

The last five are about progress. What makes a machine end is a measure each
completion lowers: a cancelled machine has at most three `LandingsLeft` (the
transfer in flight, the delay it may lead to, the doomed transfer after that), a
handshake has `HandshakeLeft` states before it, the wait for removal one more
poll. A ranking argument needs no induction over data when the rank has a fixed
bound, so the liveness properties follow from the measures by temporal logic
alone. Only the fairness condition has to be put differently. `WF` is defined
with `ENABLED`, which the prover cannot reason about; `KeepsLanding` says
`[]<>(ssm = "off") \/ []<><<MainLoop>>_sensorVars`, which is `WF` with the
condition the code has for `ENABLED`: the main loop has a timer or the end of a
transfer to run exactly while a machine runs. That the two agree (`Timer` takes a
flight that is a timer, `Failed` any other) is not proved; the runs check the
same properties under `WF` itself.

### The engine and its store

`MatchEngineProofs` states once, for any sets of tags, templates and threads,
what each call does to an engine in order: `Armed`, `Opened`, `Accepts`,
`Begins`, `Folds`, `Commits`, `Verifies`; and in `OpenAborts` when an open ends
the process. The first part of `StorageAdapterProofs` proves
of every session:

| Theorem | Statement |
| --- | --- |
| `TypeCorrect` | `Spec => []TypeOK`, with it that `nshims` stays within the table |
| `InContractAlways` | `Spec => []NoMisuse` |
| `CommitsOwn` | `Spec => []CommitReturnsOwn` |
| `NoLeftover` | `Spec => []NoLeftoverRecord` |

`EInv` strengthens `NoMisuse` by "a loaded or usable engine has its interface",
which is what an open on the load-once path relies on. `OwnInv` adds that the
open enrollment holds only its own frames unless its `Create` failed.

Its second part, for every template length and every size of the record:

| Theorem | Statement |
| --- | --- |
| `StoreTypeCorrect` | `StoreSpec => []StoreTypeOK` |
| `HandsOutCallers` | `StoreSpec => []RecordIsTheCallers` |
| `LeftoverUnseen` | `StoreSpec => []LeftoverNeverSeen` |
| `Atomic` | `StoreSpec => CallsAreAtomic`: the store implements `EngineSession` |

`HInv` says what a call in progress may count on: between calls, and inside an
update, the globals agree with the engine's record; inside a begin there is no
record; inside a commit there is none or the pending template; inside a verify
the template under verification. `Simulates` is the refinement step: entering
and the vtable stutter, leaving is the atomic call. `Atomic` carries the
theorems of `EngineSession` over.

### The driver (`Ft9201Proofs`)

For every number of stages, every set of prints and every gallery:

| Theorem | Statement |
| --- | --- |
| `KeepsSensor` | `Spec => KeepsSensorSpec`: the driver implements `SensorSpec` |
| `SensorInvariant` | `Spec => []IInv`, hence the invariants of the machines hold of the driver |
| `Busy` | `Spec => []BusyIffRunning` |
| `StageLeft` | `Spec => []StageIsLeft` |
| `Implements` | `Spec => ImplementsContract` |
| `DriverTypeCorrect` | `Spec => []TypeOK` |
| `InContractInDriver` | `Spec => []NoEngineMisuse` |
| `VerifyIsRight` | `Spec => []VerifyAnswersRequest` |
| `IdentifyIsRight` | `Spec => []IdentifyAnswersGallery` |
| `EnrolledIsOwn` | `Spec => []EnrolledFromThisOp` |
| `CancelledActionRunsDown` | `Spec => [][ActionRunsDown]_vars` |
| `OpenRunsToAnswer` | `Spec => [][OpenAdvances]_vars` |
| `CancelledIsAnswered` | `Spec /\ HostKeepsRunning => CancelIsAnswered` |
| `OpenAnswered` | `Spec /\ HostKeepsRunning => OpenIsAnswered` |
| `DriverNoticesLift` | `OddReplies = {}` implies `Spec /\ HostKeepsRunning => LiftNoticed` |

`StepKeepsSensor` is the first simulation: each driver action is the machine's
step it contains. The driver's own invariant `DInv` adds to `BusyIffRunning` and
`StageIsLeft` that while a scan runs, `Owner` is the action libfprint has open.
It is needed because `scan_ssm_complete` chooses which completion to call from
`is_verify` and `is_identify`, flags an earlier action may have left, and not
from the action; libfprint ignores a completion of the wrong kind, and the
action would stay open with no machine running. `Implements` follows step by step.

The last five carry the machines' measures over to the answers libfprint waits
for: `HostRunsMachine` and `AnsweredWithMachine` say that what the host does by
itself is a step of the running machine, and that the action ends with it.
`HostKeepsRunning` is `KeepsLanding` for `HostNext`.

`AInv` is what the driver knows of the engine: its record is in order, `engine_ok`
means there is an interface, and during a verify the loaded template is the
print asked about, whatever `tmpl_blob` held before. Together with `FreshFrame`
from `IInv` it gives the two theorems about verdicts. `FoldInv` adds what an
enrollment may commit.

Identify needs the gallery loop for galleries of every length. The library's
induction theorems take an operator as parameter, which the provers cannot
instantiate, so the two inductions are by least counterexample: `LeastNat` picks
the smallest number that fails, `WalkDefined` shows with it that the recursive
function exists, and `Walked` that `WalkHolds`, the loop's invariant, holds
after every turn.

### The loader (`PeLoaderProofs`)

For every page size, preferred base and DLL, that is, for section tables of any
length, in any order, overlapping, unaligned or empty:

| Theorem | Statement |
| --- | --- |
| `LoaderTypeCorrect` | `Spec => []TypeOK`, with it that no page is writable and executable |
| `RangeChecksAgree` | `Spec => []RangeIsMapped` |
| `NamesStayMapped` | `Spec => []NameLimitIsMapped` |
| `FaultsOnTrust` | `Spec => []CrashIsUnchecked` |
| `OpensAsPromised` | `Spec => []OpenIsEngineOpen` |

The argument has two halves that meet. One is the range check, a cursor that
jumps from region to region of the section table. `Region` says of one jump that
every cell it passes is mapped and that it stands still only where nothing is;
`ReachesIff` says of the whole walk that it arrives exactly if no cell before
the end makes it stand still. That is an induction over a recursive function,
done by least counterexample as in the gallery loop. Together, `RangeChecked`:
a range is accepted exactly if each of its cells is mapped *by the table*.

The other half is the memory. `MmapCells` says that an `mmap` changes the cells
of its range, rounded to whole pages, and no other; `OneMore` that one more
section decides its own cells and leaves the rest as they were; so after each
pass of the loop the protection of every cell is that of the last section that
covers it, or the headers', or none (`LaidOut`). `MemoryTells` joins the halves:
a cell is readable exactly if the table maps it, and writable or executable as
the last section over it says.

The invariant `LInv` has a part for each: `Table` (past the checks, the table is
sound), `Memory` (how much of it has been laid out at each step), `Progress`
(`%gs` and the result at each step) and `CrashIsUnchecked`. The last is needed
in the invariant because nothing else remembers why the loader faulted.
`CrashIsUnchecked` alone is not inductive: that a step which passed
its check does not fault is `RangeChecked` and `MemoryTells` of the step before.
Preparing this proof showed that the model had taken a NULL TLS template for an
empty one; the code does not (see PeLoader above).

### The Python tools (`BlobToolsProofs`)

For every object file and every DLL, whatever their tables say:

| Theorem | Statement |
| --- | --- |
| `ExtractsTheSymbol` | `ToolSpec => []BytesAreTheSymbol` |
| `RefusesOnlyTheUnsound` | `ToolSpec => []RefusesOnlyUnsound` |
| `PublishesWhole` | `ToolSpec => []PublishedWhole` |
| `PreparesTheLoadedImage` | `ToolSpec => []SidecarIsTheLoadedImage` |
| `RefusesOnlyTheUnloadable` | `ToolSpec => []RefusesOnlyUnloadable` |

`XInv` says that the hits are sections that hold the symbol (`Found`) and that
none was passed over (`Looked`). The first makes the bytes cut from the only hit
the symbol's (`SliceIsTheSymbol`), the second makes the section of a sound
object the only hit (`SoundIsFound`). `PInv` says that after `k` sections the
image is `Built(dll, k)`, what a loader would have built from the headers and the
first `k`: `AssignInPlace` shows that a slice assignment of as many bytes as there
are places moves nothing, `WholeSlice` that a slice of a checked section has that
many, and `CopyDecides` that the section copied last decides its places only.
The checks of the table, which `Good` remembers, are needed: a slice shorter than
its place would move everything behind it.

### The rest of the components

| Theorem | Statement |
| --- | --- |
| `FrameGeometryProofs!ReadsStayInFrame` | `Spec => []ReadsInFrame`, for every geometry of frame and engine |
| `FrameGeometryProofs!HandsOverWholeFrame` | `Spec => []WholeFrame` |
| `BlobPipelineProofs!PipelineTyped` | `Spec => []TypeOK` |
| `BlobPipelineProofs!FetchesRelease` | `Spec => []FetchedIsRelease` |
| `BlobPipelineProofs!InstallsSettle` | `Spec => []InstallSettles` |
| `BlobPipelineProofs!NoMixUnlessTorn` | `Spec => []MixedOnlyWhileTorn` |
| `BlobPipelineProofs!UninstallRemoves` | `Spec => []UninstalledIsGone` |

`GInv`: the rows below `y` hold this frame's pixels, and the index arithmetic of
crop and scaling is bounded first, in lemmas about division. `PInv` says for each
step of a script which files are in place when it is reached, and that an
fprintd which has read a sidecar read it after its DLL; the properties speak of
outcomes only, and an outcome follows from the last step.

### Where the findings end

Five properties stated by the repository are violated. For each there is a
theorem about what the violation needs, and hence where the statement is kept:

| Finding | Theorem | Statement |
| --- | --- | --- |
| 1 | `AbortsOnlyOnReload` | `Spec => [][AbortIsReload]_vars`: only an open in a process where no load has succeeded and an earlier one has registered its shims meets `abort()` |
| 2 | `StagesPartAtFailedUpdate` | `Spec => [][GapIsFailedUpdate]_vars`: stages get ahead of folded frames only in the step that announces a stage whose `Update` folded nothing |
| 2 | `FoldedIsAnnounced` | `Spec => []FoldsAreAnnounced`: and folded frames never get ahead of stages |
| 3 | `SlotsOfSoundImports` | `Spec => [](ImportsInData(file) => IatInWritableData)` |
| 4 | `OnlyCallbacksComeEarly` | `Spec => []OnlyCallbacksUnarmed`: `DllMain`, `Query` and `Attach` are entered armed |
| 4 | `ArmedWithoutCallbacks` | `ArmedOnEveryEntry` holds of every DLL without a TLS callback |
| 5 | `HeaderWholeUnlessCut` | `Spec /\ HeaderMovesWhole => []FetchedIsWhole`: only a run broken off during that one `mv` does it, whatever else is broken off before or after |

`HeaderMovesWhole` is a condition on single steps (no kill during one copy) that
the repository cannot guarantee; without it the run `blob_fetched_is_whole` shows
what happens.
`AbortsOnlyOnReload` needs that no call but an open touches `dead`, for every
length of gallery: `WalkHolds` carries that through the loop. The two theorems on stages
assume nothing of the DLL: each goes through every step of the driver, with what
`ScanFolded` says of one sample (a rejected one is not folded, any other at most
once), and needs that `enroll_done` and `folds` are both zero when an enrollment
begins. `SlotInv` is the loader's: the slots
are written after the image is complete, so their protection cannot change.

### Model-checked only

Every property of the passing runs is stated by a theorem. Two things are left to
TLC. One is that `WF` of `MainLoop` and of `HostNext` gives what `KeepsLanding`
and `HostKeepsRunning` say, since that is about `ENABLED`: `CancelEnds`,
`CancelIsAnswered`, `OpenIsAnswered` and `LiftNoticed` are proved from the latter
and checked from the former. The other is the five properties a run finds
violated: they hold only under the conditions of the section above.

## Not modelled

- **Legacy bring-up and scan states** of `ft9201.c`. `id_table` has one PID, and
  for it `info_9338_cb` and `lift_9338_cb` complete the machines before these
  states; a model would start where the program cannot be.
- **kernel32 shims**: their callers are in the vendor's binary, so there is no
  order of calls to check. Their number is in `MatchEngine`.
- **`crypto_shims.c`**: `build.sh` does not build it.
- **`compat/`**: diagnostics run by hand beside the driver.
- **Tests and the udev rule**: read as documentation; static configuration.
- **A second device on the same engine** (`ft_engine.h:3`).
- **The USB interface claim**: a failed open does not release it (`ft9201.c:1350`); libfprint
  decides what becomes of the USB handle then, and its code is not here.
