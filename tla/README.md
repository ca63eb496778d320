# ActivationScope: specification and proofs

ActivationScope captures the activations of PyTorch modules while a model
runs. A Python object, `ActivationScope`, installs forward hooks through a C++
extension; the hooks run in whichever thread runs the model, give up the GIL,
decide whether to capture, fold the activation into a running value if a
reduction is registered, and store it in memory or in a file of its own. This
directory holds TLA+ models of that code, TLC configurations that check them on
small instances, and TLAPS proofs that hold for every instance.

Modules are checked with `tlc -config X.cfg MC<Module>.tla` and the proofs with
`tlapm <Module>.tla` for `HookPath_proofs`, `HookPath_log`, `HookPath_order`,
`HookPath_align`, `SessionLifecycle_proofs`, `DiskPath_proofs`,
`Registration_proofs` and `Tensors_proofs`. Every safety property of the runs
that pass is a theorem; only liveness is checked on instances alone.

## 1. Inventory

| Component | Source | State | Operations | What is hard, and what makes it correct |
|---|---|---|---|---|
| Capture policy | `csrc/capture_policy.cpp`, the knobs in `tracker.py:65-92`, `make_config` in `session.cpp:189-202` | one atomic counter per key, policy, stride, cap | construct, `should_capture`, `reset` | several threads tick one counter; the verdict is on the count after the increment. EVERY / one in N / at most K |
| Hook callback, in memory | `csrc/callback.cpp`, `accumulator.hpp`, `reduction.cpp`, `hook_register.cpp:47-77` | one vector of tensors and one mutex per key | policy, load running value, reduce, store | runs without the GIL; load and store are separate critical sections; a reduction may raise. No race, no loss, no excess, right order |
| Hook callback, DISK | `callback.cpp:106-140`, `utils.cpp` | one atomic index per layer, directories, `.dat` files | take an index, open, write, close | no lock at all; files are opened with truncation; failures are ignored, a directory may have been used before. One file per activation, never overwritten |
| Session calls | `csrc/session.cpp` | `accum_data`, `layer_configs` under `SessionState::mutex` | create, register, readback, readback_disk, clear, detach, init_accumulator, destroy | they hold the GIL and the session's mutex, hooks hold neither |
| Session registry and handles | `session.cpp:22-165`, `hook_register.cpp:10-90` | id counter, registry of `SessionState`s, handles and their references | create, install, store handle, remove handles, destroy | `register_forward_hook()` and `handle.remove()` call Python, so the GIL may pass in the middle. No hook outlives its state; every hook can be removed |
| `ActivationScope` | `activationscope/tracker.py` | session id, reductions, temporary files | `track` (re-entrant), `attach`, `clear`, `remove`, `activations`, `register_reduction` | an attach that raises half-way; nested `track()` blocks share one handle list |
| Layer selection, reduction files | `activationscope/utils.py:28-134`, `tracker.py:148-194, 261-303` | registered patterns, the global default, `.pt` files | register, export, resolve at attach | precedence; partial failure; a file that vanished; keys that must share an accumulator |
| Raw tensor files | `activationscope/utils.py:137-202`, `callback.cpp:127-138` | bytes | write, load | two numberings of the dtypes with default values; truncated files. A file that loads is whole and loads as what was written |
| Tensor aliasing | `callback.cpp:27-67, 81-112`, `session.cpp:179`, `tracker.py:139-144, 196-238, 333-350` | which of the program's, the accumulators' and the caller's tensors share memory | detach, clone, `to`, in-place reductions, seeds, readback | a readback that changes under its reader; a reduction that writes into an activation the model still uses |
| Pure Python tracker | `activationscope/_naive.py` | lists per layer, handles | `track`, `_attach`, the hook, `_detach`, `activations` | no `finally`; hooks look their layer up in a dict that a nested block replaces. Parity with the C++ path |
| Bindings, stubs, enumerations | `csrc/bindings.cpp`, `_C.pyi`, `policies.py`, `datastructures.hpp` | none | none | declarations |
| Benchmarks, build scripts, tests, documents | `benchmark/`, `setup.py`, `utils/`, `scripts/`, `tests/`, `docs/` | none of the library's | | read as statements of intent |

**Interaction.** Python calls the C++ session functions with the GIL held.
`register_hooks` installs a thunk per key on a module and hands it shared
pointers to the key's configuration and accumulator and a raw pointer to the
`SessionState`. PyTorch calls the thunk with the GIL; the thunk releases it
around `hook_callback`. So the threads of a program meet in four places: the
GIL (session calls, entry and exit of hooks), the mutex of a layer (hooks
only), the mutex of a session (session calls only) and the atomics (counter,
batch index). Most of the hard behaviour comes from these being different
locks.

`PROJECT.json` lists the hazards that follow, each at its line, with the
property that watches it or the reason why none does yet.

## 2. Modules

| Module | Models | Lines of code it stands for |
|---|---|---|
| `CapturePolicy` | pure operators: knobs, derived policy, tick, verdict | `capture_policy.cpp`, `make_config`, the constructor's forwarding |
| `HookPath` | the in-memory hot path of hooks against session calls | `callback.cpp`, `hook_register.cpp` thunk, `session_clear`, `session_readback`, `session_init_accumulator` |
| `ActivationLog` | what a scope promises of activations in memory: an atomic log per key; `HookPath` implements it | the same, without locks, threads and phases |
| `HookPath_proofs` | theorems about `HookPath` | |
| `HookPath_log` | `HookPath` implements `ActivationLog`; extends `HookPath_proofs` | |
| `HookPath_order` | how many captures a vector holds, which and in which order; extends `HookPath_log` | |
| `HookPath_align` | the rows of two layers come from the same passes; extends `HookPath_order` | |
| `SessionLifecycle` | scopes, sessions, hooks and handles, forward passes by other threads | `session.cpp` create/register/detach/destroy, `hook_register.cpp`, `tracker.py` track/attach/remove |
| `SessionLifecycle_proofs` | theorems about `SessionLifecycle` | |
| `DiskPath` | DISK sessions: streaming, readback, clear, removal | the DISK branch of `callback.cpp`, `utils.cpp`, `session_readback_disk`, `activations`, `load_raw_tensor`, `release` |
| `DiskPath_proofs` | theorems about `DiskPath` | |
| `Registration` | reductions, their files, layer selection, per-key state, seeds | `register_reduction`, `export_reduction`, `select_layers`, `attach`, `session_register_hooks`, `session_init_accumulator` |
| `Registration_proofs` | theorems about `Registration` | |
| `DatFormat` | pure operators: bytes of a file, the dtype tables of both sides, what a reader makes of a prefix | `callback.cpp:126-138`, `load_raw_tensor`, `_ATEN_SCALAR_TO_TORCH`, `_torch_to_numpy_dtype` |
| `Tensors` | memory shared by the program, a scope, the pure Python tracker and readbacks; extends `DatFormat` | `apply_storage_policy`, `hook_callback`, `session_init_accumulator`, `capture_parameters`, the built-in reductions, `_naive.py` |
| `Tensors_proofs` | theorems about `Tensors` and `DatFormat` | |
| `MCHookPath`, `MCTensors`, `MCSessionLifecycle`, `MCDiskPath`, `MCRegistration` | instances for TLC | |

Definitions named "Seeded fault" in a comment belong to no behaviour: each is a
variant of the definition below it with a plausible bug in it, and the property
that catches it is listed under "mutants" in `PROJECT.json`. They show that a
property does depend on the code.

### HookPath

*State.* `data[k]`, `mtx[k]`, `count[k]` are `accum->data`, `accum->mtx` and
`counter.batch_count` of a key; `pc`, `fwd`, `pos`, `acc`, `result` are where a
thread is in `hook_callback` and its locals; `api`, `todo` are the session call
in progress and the keys its loop has left. A tensor is the sequence of the
activations folded into it, so a reduction is `Append` and "what was lost" can
be read off the data. The ghosts `admitted`, `raised` and `seeded` remember what
the policy let through, where the reduction raised, and which keys the program
stored a seed for since they were last cleared: what a fold has to be made of.

*Actions.* One per stretch between two points where another thread matters:
`StartForward` (entry with the GIL, release), `ShouldCapture` (the atomic
increment and the verdict), `LockLoad`/`Load`, `Reduce`/`ReduceRaises` (no
lock), `LockStore`/`Store`, `LeaveHook` (GIL back, next hook), `ForwardRaises`.
Session calls hold the GIL from `BeginCall` until they return and visit keys
one at a time; `Visited` allows any order, as an `unordered_map` does.

*Data race.* Session calls do not take a layer's mutex. When one writes a
vector that a hook has locked, the code has undefined behaviour; the model lets
the write take effect or be lost, which is the least that can happen.
`CallsRaceFree` says that such a meeting never occurs, and run `hook_race`
shows that it does.

*`Overlap`.* FALSE means the program calls `clear`, `readback` and
`init_accumulator` only while no forward pass runs, which is how every example
and test uses the library. The guarantees below need it; the findings say what
breaks without it.

*Programs.* `Crew`, `MaxForwards` and `Calls` are functions of the scope, so that
one run has scopes that two threads use and scopes that one thread uses for
longer, each with the calls that matter to it.

### ActivationLog

*State.* `log` (per key the tensors), `count` (the fires the policy has seen) and
`onWay` (the activations let through and not in the log yet). `Fire`,
`Deliver`, `Drop`, `Clear` and `SeedKey` are atomic; `Deliver` picks any
activation that is on its way, so passes of several threads may overtake each
other. `HookPath` maps to it with `data`, `count` and the fires of threads
between `lock_load` and `store`. A clear takes effect when it begins
(`VisibleLog`, `VisibleCount`), since nothing can look before it has ended.

### SessionLifecycle

*State.* `counter`, `registry`, `handles` are `g_session_counter`,
`global_registry` and `m_hook_handles`; `hooked` is what sits in the modules'
`_forward_hooks`; `refs[n]` counts the references C++ owns on the n-th handle;
`sid`, `depth`, `track` and `todo` are a scope's session id and its progress
through `attach` and `track`; `pending[r]` is the snapshot of hooks PyTorch
took for a module call and `inHook[r]` the hook that is running. `leftOn`
remembers whether the program itself asked for hooks that stay on.

*Actions.* An action is a stretch of code between two points where the GIL can
pass: `Install` and `StoreHandle` are two because `register_forward_hook()` is
Python, each `RemoveHandle` is one because `handle.remove()` is. `DestroyReturns`
is everything `release()` and the `erase` do after the loop, with no Python
call inside. `refs` ends at 1, not 0, for a removed hook: `store_hook_handle`
takes a second reference that nothing drops (`SessionLifecycle_leak.cfg`). Each scope has
a thread of its own. The module states no liveness and so no fairness: no step of
a call waits for another thread, so that its loops end by their shape.

### DiskPath

*State.* `files` maps a path (directory and index) to the activation in it and
whether all of it is there; `dirs`, `bases` are the directories; `nextIdx[h]`
is `disk_batch_idx`; `slot[t]` the index a thread took. A readback in progress
is `reading` (directories to list), `queue` (files to load) and `out` (what it
has). `scope` also has the dtype and shape of what is captured. Ghosts: `taken`
(who got which index), `failed`, `kept`, `clears`, `calm`.

*Start.* `session_create` does not look at what `mkdir` returned. So `Init`
admits sessions whose directory does not exist, and sessions whose directory was
there before with the `.dat` files, whole or cut short, that an earlier run left
in it (`OldFiles`, of tensors of the same form; their content is `Old`). Hooks
truncate such files from index 0 on, and a readback returns those they have not
reached.

*Loading.* What `load_raw_tensor` makes of a file depends on the dtype, and
`DatFormat` says how. `Loads`: the file is whole and of a dtype whose whole files
are accepted; `MayLoad` adds a truncated file of a dtype the reader takes for one
of smaller items, of which some prefix is accepted; `Content` is the activation if
the dtype is read as itself and `Garbled` otherwise. A whole complex64 file is never
loaded, as twice the elements do not fit the shape, while half of one is.

*Actions.* `TakeIndex`, `Open`/`OpenFails`, `Close`/`WriteFails` are the DISK
branch of `hook_callback`, which holds no lock; `ForwardRaises` is a reduction
that raises before an index is taken, or a module that raises between two
hooks. `ListDir`/`LoadFile` are
`session_readback_disk` and the loop over its result in `activations`, each
file in a `try` of its own; `Clear` resets the counters only; `Destroy`
deletes the session's directory tree.

### Registration

*State.* `global`, `perLayer`, `temp` are `_global_reduction_path`,
`_reductions`, `_temp_files`; `disk` and `fnOf` the `.pt` files; `config`,
`accum`, `store` are `layer_configs`, `accum_data` and what each accumulator
object holds; `hooks` are the installed hooks with the accumulator each of them
captured in its closure, which is what `SharedAccumulator` compares with
`accum`. *Actions* are one pattern of `register_reduction` (`Export`, or
`CompileRaises`, `SaveRaises`), one key of `session_register_hooks`
(`RegisterKey`, or `LoadRaises` when the file is gone), and whole calls
elsewhere. Matching a pattern is a parameter (`NameMatches`, `TypeMatches`):
`select_layers` matches names and types, the resolution of reductions names
only.

### DatFormat

Codes and sizes are ATen's (`ScalarType`, external); the two tables are those of
`utils.py`, with the values they fall back to. `Loads(form, n)` is
`load_raw_tensor` on the first `n` bytes of a file that was meant to hold a
tensor of that form: header and shape whole, a whole number of items, the right
number of them, and a dtype `from_numpy` knows. `ReadsUInt16` says whether this
PyTorch has `uint16`, which bfloat16 files are read as. From `Loads` follows what
becomes of a dtype: `Readable` (its whole files are loaded), `Exact` (as what was
written), `Misreads` (some truncated file is accepted), `Garbles` (something is
accepted that is not the tensor that was written).

### Tensors

*State.* `mem` is a sequence of blocks; a tensor is the number of its block,
which holds the batches folded into it and lies on a device. `accum`, `files`,
`hooks`, `conf` are the scope's accumulators, its `.dat` files, the hooks of both
trackers on each layer and the reduction each layer was attached with; `acts`
is `_activations` of the pure Python tracker; `pos`, `out`, `due` are a forward
pass in progress: the layer, the tensor it made, the hooks still to call. Ghosts:
`own` (the program's tensors and what it last wrote to each), `got` (what was
handed out and what it held then), `folded`, `mixed`, `apart`.

*Memory.* `detach()` is the same block; `clone()`, a move to another device,
`amax` and `cat` make a new one; `out=acc` writes to the block of `acc`. From this
and the order of reduce, detach, clone and placement in `hook_callback` follows
which blocks are shared. `FormOf` gives the dtype and shape of what is stored,
which the files of `DatFormat` take.

*Actions.* `RunLayer` makes a tensor and snapshots the layer's hooks;
`HookCallback` and `NaiveHook` are one hook each; `EnterTrack` and `ExitTrack` are
`with scope.track(model), naive.track(model)`, the way the parity tests use the two,
`Attach` is the scope's alone. When the body of a block raises, the scope detaches
in its `finally` and the pure Python tracker does not detach at all; a hook of
a layer that a nested block left out raises `KeyError` in the middle of a pass.
`Overwrite` is the program writing to a tensor it made, between any two layers.

*Names.* The scope's keys carry `.output`, the pure Python tracker's do not.
`ScopeActivations` and `NaiveActivations` are what the two `activations` properties
return, each under its own names; `Tensors_keys.cfg` compares those. `Parity` is
about what the two hold for a layer, the names apart. One thread runs all of it;
`HookPath` has the interleavings.

## 3. Runs

| Run | Instance | Shows |
|---|---|---|
| `hooks` | 2 layers. 5 scopes run by 2 threads, 3 passes (every capture policy, each with knobs of the other policies set too), and 7 scopes run by 1 thread, 4 passes (STORE_ALL and FINAL_ONLY, with and without a reduction, sampling and cap, seeds); 2 calls between passes, exceptions | `HooksRaceFree`, `MaxKBound`, `NothingLost`, `StoredOnce`, `SampleExact`, `FoldExact`, `InOrder`, `FinalIsLatest`, `Aligned`, `HooksOnlyAdd`, `ImplementsLog`, `TypeOK` |
| `hook_live` | 2 threads, 2 layers, a call at any moment, exceptions | `ForwardsReturn`: no deadlock of GIL and mutexes |
| `session` | 2 scopes, 1 runner, 2 layers, 2 attaches or tracks in any nesting up to 2, 2 module calls, attaches that raise | `StateAlive`, `NoOrphanHooks`, `ExitDetaches`, `Isolation`, `TypeOK` |
| `disk` | 2 sessions with directories of their own on one layer, 2 threads, 2 passes, 2 calls, session directories that could not be made or hold a file of an earlier run, tensors of `float32` and of `complex64`, failing opens and writes, exceptions | `NeverOverwritten`, `StreamedExactly`, `ReadbackSound`, `ReadbackComplete`, `MaxKPerClear`, `RemovedIsGone`, `WholeFilesStay`, `TypeOK` |
| `registration` | a model of 2 layers and one without submodules, 2 reductions, 2 files, 2 attaches, 1 seed under a hook's own key, every failure | `ResolvedAtAttach`, `SharedAccumulator`, `Covered`, `TempFilesTracked`, `SeedSeen`, `TypeOK` |
| `tensors` | 2 layers, 24 scopes: REFERENCE and SNAPSHOT, model on host or GPU, CPU, GPU, AUTO and DISK storage, programs that nest and raise, capture, reduce, attach late, seed; 5 dtypes in files cut short by 1, 8 or 30 bytes; 2 passes, 4 calls, 1 write of the program | `ProgramTensorsIntact`, `HandedStable`, `Parity`, `FoldClean`, `DiskFaithful`, `TypeOK` |
| `hook_lostupdate` | 2 threads, a reduction | violation of `FoldExact` |
| `hook_race` | 2 threads, a call during a pass | violation of `CallsRaceFree` |
| `session_dangling` | `remove()` during a pass | violation of `StateAlive` |
| `session_track` | an attach that raises inside `track()` | violation of `TrackDetaches` |
| `disk_clear` | a DISK session, `clear()` | violation of `ClearForgets` |
| `registration_seed` | a seed under the bare layer name | violation of `SeedSeen` |

**What the properties say.** A layer that keeps everything holds exactly the
admitted activations not still on their way, once each and in order; a
reduction holds one tensor, which folds the seed, if one was stored, and every
admitted activation on which it did not raise, in order; FINAL_ONLY keeps the
newest; MAX_K and SAMPLE_N are
exact under threads, exceptions and clears; the rows of two layers with equal
counts belong to the same passes. Sessions do not disturb each other, every
hook can be taken off and is taken off by the exit of a `track()`. On the disk
each activation has a file of its own, and a readback returns no torn tensor and,
when no pass overlaps it, no fewer than all: of dtypes that the reader takes for
what they are. Of the others it returns nothing, or something garbled. And all that happens in memory
can be told as a log whose steps are atomic (`ImplementsLog`).

`ProgramTensorsIntact`: the library writes to a tensor of the program's only as
the running value of an in-place reduction, which happens in two ways: the
program seeded the accumulator with a tensor on the activations' device, or it
attached a reduction to a layer whose newest REFERENCE capture is the model's
own activation. `HandedStable`: what was read back keeps its value, except where
REFERENCE shares it with the program and the program writes, and except the
running value of `max` and `min`, which later batches are written into, with
SNAPSHOT too (`Tensors_snapshot.cfg`). `FoldClean`: whatever the program does to its
activations, a reduction in memory folds the batches it was given. `Parity`: over
nested blocks, both trackers hold the same values for each layer, whatever each
calls it. `DiskFaithful`: a file of a dtype that PyTorch and NumPy share is loaded
if and only if it is whole, as what was written; complex tensors are read as
`float32` and bfloat16 as `uint16`, and then fail or come back wrong.

**Findings.** Six runs are expected to fail; `PROJECT.json` quotes the line of
the documents each contradicts.

1. *Lost update.* `hook_callback` loads the running value, unlocks, reduces,
   and locks again to store. Two threads on one model lose an activation.
2. *Race of session calls with hooks.* Readback, clear and init use the
   session's mutex, hooks use the layer's.
3. *Dangling `SessionState`.* `remove()` while a hook runs, or is due in
   PyTorch's snapshot, frees the state the thunk points to.
4. *`track()` leaves hooks on* when `attach()` raises half-way: the attach is
   before the `try`.
5. *`clear()` does not clear a DISK session*: files of earlier blocks come back.
6. *A seed under the bare layer name*, as documented and as the tests write it,
   goes to an accumulator no hook uses.

**What else the repository says and the code does not do.** Each claim is a property
beside those that hold, and a configuration of its own refutes it, on the smallest
instance on which it fails. `PROJECT.json` lists as runs the six findings above;
these are run by hand, and each sets one line of a document against one place in
the code.

| Claim | Property, configuration | What the code does |
|---|---|---|
| "`STREAMING` and `FINAL_ONLY` [...] Without a reduction, they behave identically to `STORE_ALL`" (`DESIGN.md:351`) | `UnreducedKeepAll`, `HookPath_finalonly.cfg` | FINAL_ONLY empties the accumulator before each append, with no reduction too (`callback.cpp:157`): `FinalIsLatest` |
| "No leaks: every handle is released before the vector is destroyed" (`DESIGN.md:463`) | `HandlesReleased`, `SessionLifecycle_leak.cfg` | `store_hook_handle` takes a second reference on a handle (`hook_register.cpp:25`), of which detach and removal drop one (`session.cpp:44, 162`) |
| "the tracker's `activations` property returns an empty dict while hooks are active" (`storagepolicy.md:18`) | `EmptyWhileActive`, `DiskPath_active.cfg` | `activations` loads whatever is on the disk, hooks or not (`tracker.py:124-137`): `ReadbackComplete` |
| "call `tracker.activations` to load all tensors from disk back into Python" (`storagepolicy.md:19`) | `ReadbackReturnsAll`, `DiskPath_complex.cfg` | the whole file of a complex tensor is read as `float32`, fails to reshape (`utils.py:169-172`) and is passed over in silence (`tracker.py:131-134`) |
| "each layer gets a subdirectory under a session-specific temp dir" (`storagepolicy.md:21`) | `StreamedExactly`, `DiskPath_names.cfg` | the layers `a.b` and `a_b` share one (`utils.cpp:14`), each counting from 0, and overwrite each other's files |
| "assert set(s.activations.keys()) == set(n.activations.keys())" (`test_parity.py:55`; 66-84 index one by the keys of the other) | `KeysAgree`, `Tensors_keys.cfg` | the scope's keys end in `.output` (`session.cpp:217`), the pure Python tracker's do not (`_naive.py:76`) |
| a reduction "persists and updates a running accumulator across all batches" (`reductionpolicy.md:49`, `customreductions.md:10`), "independently of where tensors live" (`reductionpolicy.md:76`) | `DiskFolds`, `Tensors_diskfold.cfg` | in a DISK session the accumulator stays empty (`callback.cpp:114-140`): each file is the reduction of one batch |
| "SNAPSHOT = 1  # detach() + clone() — completely independent copy" (`policies.py:56`) | `SnapshotIndependent`, `Tensors_snapshot.cfg` | the clone is made after the reduction (`callback.cpp:96-104`), and `max` has by then written into the tensor an earlier readback handed out (`tracker.py:217`) |
| "Both `accumulator` and `new_tensor` are views into C++-owned storage" (`customreductions.md:12`) | `RunningValueOwned`, `Tensors_owned.cfg` | a reduction attached after a REFERENCE capture is given the model's own activation as its running value (`callback.cpp:86-90`) |

One more, without a property: the docstring at `utils.py:112` says the C++ side deletes the
`.pt` file, which only the scope's `remove` does (`TempFilesTracked`).

**Bounds.** `MaxForwards`, `MaxCalls`, `MaxAttaches`, `MaxVisits`, `MaxDepth`,
`MaxFiles`, `MaxSeeds` bound how much a program does; nothing in the code
depends on them. Three passes let a counter with a cap of 2 or a stride of 2 pass its
boundary on each of two layers, before and after a clear; two threads are all a
pairwise conflict needs, and three passes between two threads let one thread
run ahead of the other; two calls give a clear followed by a readback or a
second clear. Two scopes are enough for `Isolation`, two layers for an attach
that fails after it has done something, and depth 2 for nested blocks. Two disk
passes on two threads race for adjacent indices, with a readback between any
two steps; that run alone uses symmetry, of its two threads, which is sound as it
states no liveness. One file left behind, at index 0 of one session's directory,
whole or not, is the first that a hook truncates and, before that, one a readback
may return; a second session has none. `complex64` of shape `<<2>>` is the smallest
tensor of which the reader drops the whole file and accepts a half. Two things are
left out by choice of the instance and not by the model: two sessions with one
`session_dir`, and keys attached twice that share a counter (hazards of their
own, see the plan); layer names that sanitize to one directory have a
configuration of their own, `DiskPath_names.cfg`.

The configurations that are to fail have one thread and one scope wherever the claim is
not about threads, two passes or three, and only the calls that the claim names.

In `tensors`, two passes are a first and a second batch of a running value, and
four calls are what it takes to capture, register, attach again and read back;
one write of the program is enough as any block may be chosen, at any moment
between two layers; two nested blocks on one and on both layers are what makes
a hook look up a layer that is gone. A shape of two dimensions of different sizes
tells rows from elements; the cuts are one that leaves a fraction of an item, one
that leaves whole items and one that leaves part of a shape.

**Deadlock.** No configuration turns TLC's deadlock check off. `Finished`
is a stutter enabled only where the program is back in Python, outside every
call, so a thread that is stuck in a hook or a call is reported.

**Fairness.** `HookPath` assumes weak fairness of each thread's steps inside a
hook and of a session call in progress: the operating system runs threads that
are able to run, an uncontended `std::mutex` admits its waiter, and the GIL is
handed over. Acquiring a mutex under weak fairness is enough because a layer's
mutex is held for one step and each thread makes finitely many. Nothing is
assumed about the program: it need not start anything. That session calls return is
not stated: with the GIL in hand they wait for nobody. The other modules state no
liveness and assume no fairness.

## 4. Proofs

`HookPath_proofs` proves, for any finite or infinite set of threads and keys,
any forward pass, any set of scopes and any bounds:

| Theorem | States | Needs |
|---|---|---|
| `TypeCorrect` | `Spec => []TypeOK` | `HookPathAssumption` |
| `HooksNeverRace` | `Spec => []HooksRaceFree` | the same, calls at any moment included |
| `MaxKHolds` | `Spec => []MaxKBound` | `~ Overlap` |
| `NothingIsLost` | `Spec => []NothingLost` | `~ Overlap` |

*Mutual exclusion.* `HooksRaceFree` follows from `LockInv`: a thread at `load`
or `store` is the holder recorded in its key's mutex. It is inductive because
`LockLoad` and `LockStore` need the mutex free and only `Load` and `Store`, by
the holder, give it back.

*The memory bound.* `MaxKBound` is about what the vector holds, but what makes
it true is the counter, and between the two lie the hooks on their way.
`BoundInv` joins them: the captures in a vector and those carried by threads
are among `admitted` (`HeldInv`, `CarriedInv`), and there are no more of those
than the smaller of the counter and the cap (`CountInv`). A clear breaks that relation in
the middle: it empties vectors in one loop and resets counters in another.
`EmptiedInv` says that in the second loop the vectors are empty, and `CallInv`
that no hook is on its way during a call; the latter is what `~ Overlap` is for.

*No loss.* `NothingLost` needs that a fire is admitted once (`FreshInv`: no
thread is about to admit a fire that was admitted, and two threads never run
one pass) and that what a thread holds at `store` is its own fire
(`ResultInv`). `LossInv` is their conjunction with `NothingLost`.

`HookPath_log` proves `LogImplemented`: `Spec => ImplementsLog`, under `~ Overlap`
and `SerialFolds`. Both are needed: run `hook_lostupdate` is what happens to a
reduction with two threads, and with a call during a pass a clear would have to
take effect in its middle. `SerialFolds` says that a scope with a reduction is
run by one thread. The argument is forward simulation with three invariants on
top of those of `HookPath_proofs`: `CrewInv` (who may be in a pass), `FoldInv` (the
running value that a thread carries is still the layer's, so a store delivers
one fold and loses none) and `EmptyInv` (a clear has emptied, and in its
second loop reset, the keys it has passed). Each action maps to one action of the log or to a stutter:
`ShouldCapture` is a `Fire`, `Store` a `Deliver`, `ReduceRaises` a `Drop`,
`BeginClear` a `Clear`, `InitAccumulator` a `SeedKey`.

`HookPath_order` says what the vectors hold, capture for capture:

| Theorem | States | Needs |
|---|---|---|
| `NothingStoredTwice` | `Spec => []StoredOnce` | `~ Overlap` |
| `SamplesExact` | `Spec => []SampleExact` | `~ Overlap` |
| `CapturesInOrder` | `Spec => []InOrder` | `~ Overlap`, `FiniteCrews` |
| `FinalKeepsLatest` | `Spec => []FinalIsLatest` | `~ Overlap`, `FiniteCrews` |
| `FoldsExact` | `Spec => []FoldExact` | `~ Overlap`, `SerialFolds` |
| `HooksNeverRemove` | `Spec => HooksOnlyAdd` | `~ Overlap`, `SerialFolds` |

*One base.* All six rest on `Base`, the invariants of the other proofs and
`NewestInv` (with one thread, the pass that runs is the last one begun), and on
what a step does to the captures on their way: a capture gains one (`WayGains`),
a store or a reduction that raises loses one (`WayLoses`), every other step
loses none (`WaySame`). With that each theorem has an invariant about one key.

*Counts.* A vector without duplicates is as long as the set of its captures, so
`StoredOnce` is carried by itself: a store adds a capture that was on its way and
therefore not in the vector. `SampleInv` relates the number of admitted fires to
the quotient of the counter and the stride. During a clear it holds only of keys
that both loops have passed, or neither (`Settled`); at the boundary the argument is
that `n \div N` grows by one exactly when `n + 1` is a multiple of `N`.

*Order.* `OrderInv`: the entries of a layer that keeps everything are single captures
and increase. With one thread, a capture that is stored is later than all that
were, because nothing else is on its way. `FinalInv` says the same of the one capture
FINAL_ONLY leaves. `FoldedInv` says of a reduced layer that what was admitted and did
not raise, and the seed that was stored, is what is folded and what is on its way,
disjointly, that the fold is increasing, and that there is a fold if there is anything
to fold. `FoldsExact` is that at rest: a hook or an `init_accumulator` that loses the
seed would falsify it as much as one that loses an activation.

*`FiniteCrews`* says that finitely many threads run a scope's model, which is
so in every program: "no more than one" is stated by cardinality.

`HookPath_align` proves `RowsLineUp`: `Spec => []Aligned`, under `~ Overlap`,
`FiniteCrews` and `OneHookPerKey` (a pass fires a key once; a key that was attached
twice is a hazard of its own). It compares two hooks of one pass. `AlignInv` says of
the later one: it is level with the earlier one in counter and passes
(`Abreast`), or the pass that is running has put it one fire behind (`Behind`), and
then its admitted passes lack at most the one that runs. An exception between the two
leaves the later key behind for ever, as it can only be behind or level; so
equal counters mean that no exception fell there, and two increasing sequences over
the same set of passes are equal (by the least index at which they differ).

`SessionLifecycle_proofs` proves, for any finite set of scopes, any layers, any
sequence of tracks, attaches, failures and forward passes:

| Theorem | States | Needs |
|---|---|---|
| `TypesHold` | `Spec => []TypeOK` | `LifecycleAssumption` |
| `NoHookOrphaned` | `Spec => []NoOrphanHooks` | the same |
| `BlocksDetach` | `Spec => []ExitDetaches` | the same |
| `SessionsIsolated` | `Spec => Isolation` | the same |
| `NoDanglingState` | `Spec => []StateAlive` | `~ Overlap` |

*Sessions and handles.* `LifeInv` joins `SessionInv` (an id is handed out once,
and is in the registry from the constructor until `remove()` forgets it) with
`HookInv`: a handle is numbered once and listed once (`HandlesInv`), what is on a
module is in the hands of its session (`HeldInv`), and C++ owns one reference on a
new handle and two on a stored one (`RefsInv`, `NewInv`). Detach and destroy walk
the list without taking anything off it until they end, so that all of this holds
only from the place the loop has reached: `Held` is about entries at or after
`at[s]`, and the proof about a `RemoveHandle` is that numbers are unique and so the
entry passed is the only one to name its hook. That the list is complete and
without repetition when the loop starts is why nothing is left on when it
returns.

*The running pass.* `ForwardInv` says that the hooks that run or are due belong to
sessions in the registry, and that none are while a call changes hooks; it is
`~ Overlap` that keeps such a call from beginning before a pass has ended, and run `session_dangling` is
what happens with it. `TrackInv`, for `BlocksDetach`: a scope
that has hooks on, and was not asked to leave any, is in a block, in an attach or in
the loop that takes them off.

*Finite scopes.* The id counter is compared with the number of scopes born, so
`LifecycleAssumption` asks that there be finitely many.

`DiskPath_proofs` proves, for any number of threads, sessions, layers, passes and
calls, whatever the file system refuses:

| Theorem | States | Needs |
|---|---|---|
| `NoFileOpenedTwice` | `Spec => []NeverOverwritten` | `OwnDirectories` |
| `WholeFilesSurvive` | `Spec => WholeFilesStay` | `OwnDirectories` |
| `StreamingExact` | `Spec => []StreamedExactly` | `OwnDirectories` |
| `RemovedStaysGone` | `Spec => []RemovedIsGone` | `DiskPathAssumption` |
| `DiskPathTypes` | `Spec => []TypeOK` | `DiskPathAssumption` |
| `ReadbacksSound` | `Spec => []ReadbackSound` | `OwnDirectories` |
| `ReadbacksComplete` | `Spec => []ReadbackComplete` | `OwnDirectories` |
| `QuotaHeld` | `Spec => []MaxKPerClear` | `OwnDirectories` |

*Who owns which file.* No lock is held between taking an index and closing the
file, so ownership is by number. `IndexInv`: a thread past `fetch_add` has an index
below the counter, it is the one `taken` records for it, and no other thread
on that layer has it. `FilesInv`: files that hooks have opened (`Streamed`) exist only
below the counter, and the file of a thread that has not opened it yet is none of
them; what an earlier run left is elsewhere or about to be truncated. Both survive `clear()`, which
resets the policy's counter but not this one, and the removal of another session,
whose directory is a different one. (A removal waits for the passes to end: `Quiet`.)
`AllAccounted` adds what became of each index that was taken.

*Readbacks.* A listing is a sequence because the directory is finite, so types and
finiteness are one invariant (`DiskTyped`). `ReadInv` adds that every file, closed
or not, holds the fire that took its index, or is one of `OldFiles` (`Recorded`), that
what was loaded is `Genuine`: what `taken` says, an old file's tensor, or garbled
bytes of a dtype that `Garbles` (`OutMatches`: the hooks may go on meanwhile, but an
index is never taken again), and the order (`ReadOrder`): the queue and the result ascend within a
directory, the result stays below the queue, and a directory still to be
listed is in neither. `CompleteInv` is for a readback that no pass overlaps: while
no hook runs the disk stands still (`CalmInv`), a file that was streamed is in a
directory that exists (`HomeInv`) and did not fail (`FailedInv`), and so it is
still to be listed, to be loaded, or loaded, if its dtype is read as itself
(`AllComing`); if not, none of it is returned as a tensor (`NoneFailed`). For the
dtypes PyTorch and NumPy share `SupportedExact` of `Tensors_proofs` shows that the
first case applies and that nothing is garbled; `complex64` is the second case,
and `DiskPath_complex.cfg` shows it against what the documents promise.

*The quota.* `QuotaInv`: indices taken and promised (threads admitted that have not
taken theirs yet) are no more than K for each clear and what the counter
admitted since. A clear may fall between the two, which is why `MaxKPerClear` allows
K files more.

*`OwnDirectories`.* Each session has a directory of its own and each layer of a
session a sanitized name of its own. The code checks neither: two scopes may be
given one `session_dir`, and layers `a.b` and `a_b` sanitize to one name. Either
way two counters number one directory and files are overwritten; only
`RemovedIsGone` and the types do not depend on it.

`Registration_proofs` proves, for any model, patterns, reductions and files, whichever
calls fail:

| Theorem | States | Needs |
|---|---|---|
| `RegistrationTypes` | `Spec => []TypeOK` | `RegistrationAssumption` |
| `FilesAreTracked` | `Spec => []TempFilesTracked` | the same |
| `AccumulatorIsShared` | `Spec => []SharedAccumulator` | the same |
| `ReductionsResolved` | `Spec => []ResolvedAtAttach` | the same |
| `AttachCovers` | `Spec => []Covered` | the same |
| `SeedsAreSeen` | `Spec => []SeedSeen` | `"bare" \notin SeedKinds` |

*Types* are inductive with three facts (`Base`): only a reduction is exported, a
per-layer registration never has the global default's file (`PathsInv`), and a
removed scope is idle without hooks. That the keys an attach sets up are the keys
of the model is a lemma about `FlattenSeq` and the folds that select layers.

*Precedence.* `session_register_hooks` keeps a key's old reduction when it is given
no path. `ResolveInv` is why that does no harm: a key that runs a reduction has a
file to resolve to for ever after, as nothing unregisters, so a key that comes
without a path never had one. The scan of `_reductions` finds the first
registration that matches (`HitsIn`, `FirstHit`), and the model's fold is shown to be it.

*Coverage and seeds.* `CoverInv`: the keys asked for are those hooked and those the
attach in progress has left. `OwnInv`: no two keys share an accumulator; with
`SharedAccumulator` a seed stays where it was put (`SeedInv`). Under a bare layer name
the seed goes to an accumulator that is no hook's, which run `registration_seed`
shows, and which the hypothesis leaves out.

`Tensors_proofs` proves, for any model, set of scopes, program and bounds, from
`TensorsAssumption` and `DatFormatAssumption` alone:

| Theorem | States |
|---|---|
| `LoadsExactlyWholeFiles` | for each supported dtype, shape and length: loaded if and only if whole, and as it was |
| `SupportedExact` | for each supported dtype and shape: whole files come back as they were, parts of them not at all |
| `OnlyRunningValuesWritten` | `Spec => ProgramTensorsIntact` |
| `FilesFaithful` | `Spec => []DiskFaithful` |
| `TensorTypes` | `Spec => []TypeOK` |
| `HandedOutStable` | `Spec => []HandedStable` |
| `FoldsAreClean` | `Spec => []FoldClean` |
| `TrackersAgree` | `Spec => []Parity` |

*Memory.* A tensor operation is a step from one memory and tensor to another;
`Copies` says that it leaves every block alone, and holds of `clone` and `to`.
`Reduced(l, r)` says what a hook of layer `l` may have done when it has `r` in
hand: it changed the last entry of the accumulator at most, and only with an
in-place reduction, `r` is new, or that entry, or the activation itself, and it
holds the running value and the new batch; it holds of `Result` and is kept by
whatever copies. The inductive invariant is `TensorInv`: the types (`MemInv`) and
`AliasInv` (an accumulator holds a tensor of the program's only as a seed, or as a
REFERENCE capture from before a reduction). Every action but two
only adds blocks (`MemGrows`): `HookCallback` is covered by `Reduced`, `Overwrite`
writes to the program's own. `TypedInv` adds the devices, the lists of the pure
Python tracker and the counters.

*What was handed out.* `HandedStable` looks at one tensor, but what could break it is a
fold in place into a tensor that somebody else holds. `HandInv` rules that out: no
tensor is in two accumulators (`Disjoint`), what was handed out for a layer is in
no other's (`GivenInv`), and the activation whose hooks are being called is held by
its own layer at most, raw, and was given to nobody (`OutInv`). A tensor of the
program's holds what the program wrote last, or is the running value of an in-place
reduction and nothing else (`SpoilInv`); there is one registered reduction, so a
layer never changes from one to another (`KindInv`). With these, `ValueInv`, which
is `HandedStable` with the prefix kept in every case, is inductive.

*Folds.* `folded` counts a layer's batches when its module runs, the hooks deliver them
one by one. `FoldInv` says so in the middle of a pass: what is owed is the number of
the scope's hooks still to call, the last entries of `folded` are this pass's
(`TrailAt`), raw captures are one for each of the others (`RawAt`: what a reduction
attached later finds), and a running value is their sequence (`SumAt`). An exception
cuts `folded` to what was delivered.

*Parity.* `ParInv`: while the trackers are driven alike, the hooks of a layer
alternate, scope first and pure Python last (`PairInv`), no list shares a tensor
with the result of a reduction (`UnlikeInv`), and the raw captures of a layer are the
twins of its list, the last of them waiting while the pass is between the two hooks
(`TwinInv`). Twins hold equal values now, and are one tensor or both the library's,
so that what the program writes next changes both or neither; where both
trackers store the activation itself is what `SharesAlike` says (`InHandSame`,
`CopiedSame`).

*Products.* `Numel` is a fold of the library. That it yields a number
(`NumelIsNat`) is proved without an induction principle: the functions the fold may
be computed by are shown to exist by a least counterexample.

**How the proofs are made.** Every leaf is checked by SMT, Zenon or LS4 (`PTL`
steps); no step is assumed. Beside the hypotheses in the tables, the named
assumptions on the constants are all the proofs use, and TLC evaluates them on
every run; the instances of section 3 satisfy the hypotheses, but for `hook_live`,
which states no safety, and the four runs that show what happens without one
(`hook_lostupdate`, `hook_race`, `session_dangling`, `registration_seed`), as does
`DiskPath_names.cfg`. One scope
of `hooks` goes further than `SerialFolds`: two threads run it with a reduction,
capped at one activation, so that no second fold can be lost; that it keeps
`FoldExact`, `HooksOnlyAdd` and `ImplementsLog` is model-checked only. The induction theorems of the library
take an operator as a parameter, which the provers cannot instantiate. Where a
fact about a sequence needs induction, the proofs use a least counterexample
(`WFMin` on the natural numbers): the folds that select layers and compute
products, flattened sequences, listings, sequences that increase. `SelectSeq`
and `SortSeq` are recursive in a way the prover does not unfold, so that the
models select with `FoldLeft` and describe a sorted listing (`Sorted`) by what it is.

*Only model-checked.* Liveness (`ForwardsReturn` of `HookPath`): it mentions
`ENABLED`, which is out of TLAPS's reach. What the failing configurations show are
counterexamples, which need no proof.

## 5. Not modelled

CUDA streams and pinned memory (the asynchronous copy of `callback.cpp:41`);
views of part of a tensor, modules whose output shares memory with their input,
and writes of the caller's into tensors it was handed; DISK readbacks in
`Tensors` (they load new tensors; `DiskPath` has them); files that an earlier run left
with tensors of another form; arithmetic of the built-in
reductions, beyond which batches are in a value; two threads that share one
scope; benchmarks, build scripts and the numerics of the tests.
`infer_capture_policy` has no caller. Each is a component or a hazard in
`PROJECT.json` with its reason.

## 6. Plan

Written in the order of importance; all but the last two are done.

1. `CapturePolicy`, `HookPath` and its first proofs: the hot path is where
   threads meet.
2. `SessionLifecycle`: what the raw pointers and the handles rely on.
3. `DiskPath`: lock-free streaming against readback.
4. `Registration`: which reduction a layer runs and which accumulator it uses.
5. `ActivationLog`, what a scope promises, and `HookPath` shown to implement it,
   model-checked and proved.
6. `DatFormat` and `Tensors`: the file format, which tensors share memory, and
   the pure Python tracker beside a scope.
7. Proofs about `Tensors`: who writes to whose memory, what files hold, what a
   reader and a reduction see, and that the trackers agree.
8. Proofs about `SessionLifecycle`, `DiskPath` and `Registration`.
9. Proofs about what the vectors of `HookPath` hold, and in which order.
10. `SessionLifecycle` with two threads on one scope, and `HookPath` with a key
   attached twice; `DiskPath` with a shared `session_dir`.
11. Weaker hypotheses: `InOrder` and `FinalIsLatest` for the passes of each thread
   of several, `Aligned` for a key that was attached twice.
