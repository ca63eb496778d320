------------------------------ MODULE DiskPath ------------------------------
(***************************************************************************)
(* Sessions with StoragePolicy.DISK: the hooks that stream every admitted  *)
(* activation to a file of its own (the DISK branch of hook_callback,      *)
(* csrc/callback.cpp), and the calls that read the files back, clear the   *)
(* session and delete its directory (csrc/session.cpp, and activations in  *)
(* activationscope/tracker.py).                                            *)
(*                                                                         *)
(* A hook has no lock here: between should_capture, the fetch_add on the   *)
(* layer's batch index, the opening and the closing of the file, any other *)
(* thread may run.  The accumulator of a DISK session stays empty, so a    *)
(* reduction starts anew at every fire and writes one tensor per fire, as  *)
(* a hook without one does: the model does not tell them apart.            *)
(***************************************************************************)
EXTENDS Sequences, FiniteSets, CapturePolicy

CONSTANTS
  Threads,       \* the threads that run forward passes
  Sessions,      \* the DISK sessions
  Hooks,         \* the hook points: a layer hooked by a session
  SessionOf,     \* the session of each hook
  BaseOf,        \* session_dir of each session
  NameOf,        \* the sanitized layer name of each hook
  Fires,         \* the hooks one forward pass fires, in order
  Scopes,        \* capture knobs the sessions may have been built with, and
                 \* the dtype and shape of the tensors the hooks capture
  ReadsUInt16,   \* see DatFormat
  OldFiles,      \* the .dat files an earlier program may have left behind
  Old, Garbled,  \* what was captured before these sessions; what comes of
                 \* bytes taken for a tensor they are not
  MayFail,       \* may a mkdir, an open or a write fail, a reduction or a
                 \* module raise?
  MaxForwards, MaxCalls   \* bounds: forward passes, readback/clear/remove calls

\* What sanitize_layer_name and the caller's session_dir decide: the directory
\* a hook writes to.
DirOf(h) == <<BaseOf[SessionOf[h]], NameOf[h]>>
HooksOf(s) == {h \in Hooks : SessionOf[h] = s}
Dirs  == {DirOf(h) : h \in Hooks}
Bases == {BaseOf[s] : s \in Sessions}
Paths == Dirs \X Nat
Fire  == Nat \X Nat

Dat == INSTANCE DatFormat

ASSUME DiskPathAssumption ==
  /\ SessionOf \in [Hooks -> Sessions]
  /\ DOMAIN BaseOf = Sessions /\ DOMAIN NameOf = Hooks
  /\ Fires \in Seq(Hooks) /\ Fires # <<>>
  /\ Scopes \subseteq [capture : Policies, sampleEvery : Int, maxBatches : Int,
                      form : [dtype : Dat!Dtypes, shape : Seq(Nat)]]
  /\ ReadsUInt16 \in BOOLEAN
  /\ OldFiles \subseteq Paths /\ IsFiniteSet(OldFiles)
  /\ Old \notin Fire /\ Garbled \notin Fire /\ Old # Garbled
  /\ MayFail \in BOOLEAN
  /\ MaxForwards \in Nat /\ MaxCalls \in Nat

VARIABLES
  scope,      \* the knobs and the form of the tensors
  live,       \* the sessions not yet removed
  bases,      \* the session directories that exist
  dirs,       \* the layer directories that exist
  files,      \* the .dat files: the fire each holds, and whether all of it
  count,      \* counter.batch_count of each hook's layer
  nextIdx,    \* disk_batch_idx of each hook's layer
  pc,         \* where each thread is in its hook, "idle" outside a forward
  fwd, pos,   \* the forward it runs, the position of its current fire
  slot,       \* the batch index it took
  forwards, calls,   \* forward passes and calls begun
  reading,    \* the directories the readback in progress has still to list
  queue,      \* the files it has still to load, in order
  out,        \* what it has loaded: a sequence of <<file, fire>>
  reader,     \* its session, or the one of the last readback
  taken,      \* ghost: the fires of each hook that took an index, in order
  failed,     \* ghost: the files whose opening or writing failed
  kept,       \* ghost: the fires of each hook admitted since its last clear
  clears,     \* ghost: how often each session was cleared
  calm        \* ghost: has no hook run since the readback began?

threadVars == <<pc, fwd, pos, slot>>
diskVars   == <<bases, dirs, files>>
readVars   == <<reading, queue, out, reader, calm>>
ghosts     == <<taken, failed, kept, clears>>
vars == <<scope, live, diskVars, count, nextIdx, threadVars, forwards, calls, readVars, ghosts>>

cfg == MakeConfig(Knobs(scope.capture, scope.sampleEvery, scope.maxBatches))

\* session_create has made each session's directory, or failed to: it does not
\* look at what mkdir returned.  So the directory may also be one that an
\* earlier run of the program used, and left files of its tensors in, whole or
\* cut short by a crash.
Init ==
  /\ scope \in Scopes
  /\ bases \in SUBSET Bases /\ (MayFail \/ bases = Bases)
  /\ \E left \in SUBSET {f \in OldFiles : f[1][1] \in bases} :
       /\ files \in [left -> [fire : {Old}, whole : BOOLEAN]]
       /\ dirs = {f[1] : f \in left}
  /\ live = Sessions
  /\ count = [h \in Hooks |-> 0] /\ nextIdx = [h \in Hooks |-> 0]
  /\ pc = [t \in Threads |-> "idle"]
  /\ fwd = [t \in Threads |-> 0] /\ pos = [t \in Threads |-> 1]
  /\ slot = [t \in Threads |-> 0]
  /\ forwards = 0 /\ calls = 0
  /\ reading = {} /\ queue = <<>> /\ out = <<>> /\ calm = FALSE
  /\ reader \in Sessions
  /\ taken = [h \in Hooks |-> <<>>] /\ failed = {}
  /\ kept = [h \in Hooks |-> {}] /\ clears = [s \in Sessions |-> 0]

-----------------------------------------------------------------------------
HookOf(t) == Fires[pos[t]]
FireOf(t) == <<fwd[t], pos[t]>>
File(h, i) == <<DirOf(h), i>>
FileOf(t) == File(HookOf(t), slot[t])

Quiet == \A t \in Threads : pc[t] = "idle"

\* The hooks of a removed session are off the module.
NextFire(t, from) ==
  LET on == {i \in from .. Len(Fires) : SessionOf[Fires[i]] \in live}
      first == CHOOSE i \in on : \A j \in on : i <= j
  IN  IF on = {}
      THEN pc' = [pc EXCEPT ![t] = "idle"] /\ UNCHANGED pos
      ELSE pc' = [pc EXCEPT ![t] = "policy"] /\ pos' = [pos EXCEPT ![t] = first]

(***************************************************************************)
(* Forward passes and hooks.                                               *)
(***************************************************************************)
StartForward(t) ==
  /\ pc[t] = "idle" /\ forwards < MaxForwards /\ live # {}
  /\ forwards' = forwards + 1
  /\ fwd' = [fwd EXCEPT ![t] = forwards + 1]
  /\ NextFire(t, 1)
  /\ calm' = FALSE
  /\ UNCHANGED <<scope, live, diskVars, count, nextIdx, slot, calls, reading, queue, out,
                 reader, ghosts>>

ShouldCapture(t) ==
  LET h == HookOf(t) IN
  /\ pc[t] = "policy"
  /\ count' = [count EXCEPT ![h] = Tick(cfg, count[h])]
  /\ IF Admits(cfg, count[h])
     THEN /\ pc' = [pc EXCEPT ![t] = "index"]
          /\ kept' = [kept EXCEPT ![h] = @ \cup {FireOf(t)}]
     ELSE pc' = [pc EXCEPT ![t] = "leave"] /\ UNCHANGED kept
  /\ UNCHANGED <<scope, live, diskVars, nextIdx, fwd, pos, slot, forwards, calls, readVars,
                 taken, failed, clears>>

\* Seeded fault: the new value of the index, not the old one, names the file.
TakeIndexAfter(t) ==
  LET h == HookOf(t) IN
  /\ pc[t] = "index"
  /\ dirs' = IF BaseOf[SessionOf[h]] \in bases THEN dirs \cup {DirOf(h)} ELSE dirs
  /\ slot' = [slot EXCEPT ![t] = nextIdx[h] + 1]
  /\ nextIdx' = [nextIdx EXCEPT ![h] = @ + 1]
  /\ taken' = [taken EXCEPT ![h] = Append(@, FireOf(t))]
  /\ pc' = [pc EXCEPT ![t] = "open"]
  /\ UNCHANGED <<scope, live, bases, files, count, fwd, pos, forwards, calls, readVars,
                 failed, kept, clears>>

\* ensure_dir, whose verdict is ignored, then one fetch_add on disk_batch_idx.
TakeIndex(t) ==
  LET h == HookOf(t) IN
  /\ pc[t] = "index"
  /\ dirs' = IF BaseOf[SessionOf[h]] \in bases THEN dirs \cup {DirOf(h)} ELSE dirs
  /\ slot' = [slot EXCEPT ![t] = nextIdx[h]]
  /\ nextIdx' = [nextIdx EXCEPT ![h] = @ + 1]
  /\ taken' = [taken EXCEPT ![h] = Append(@, FireOf(t))]
  /\ pc' = [pc EXCEPT ![t] = "open"]
  /\ UNCHANGED <<scope, live, bases, files, count, fwd, pos, forwards, calls, readVars,
                 failed, kept, clears>>

\* ofstream(..., trunc) makes or empties the file.
Open(t) ==
  LET file == FileOf(t) IN
  /\ pc[t] = "open" /\ DirOf(HookOf(t)) \in dirs
  /\ files' = [f \in DOMAIN files \cup {file} |->
                 IF f = file THEN [fire |-> FireOf(t), whole |-> FALSE] ELSE files[f]]
  /\ pc' = [pc EXCEPT ![t] = "write"]
  /\ UNCHANGED <<scope, live, bases, dirs, count, nextIdx, fwd, pos, slot, forwards, calls,
                 readVars, ghosts>>

\* is_open() is false: the activation is dropped without a word.
OpenFails(t) ==
  /\ pc[t] = "open" /\ (MayFail \/ DirOf(HookOf(t)) \notin dirs)
  /\ failed' = failed \cup {FileOf(t)}
  /\ pc' = [pc EXCEPT ![t] = "leave"]
  /\ UNCHANGED <<scope, live, diskVars, count, nextIdx, fwd, pos, slot, forwards, calls,
                 readVars, taken, kept, clears>>

\* The buffered header and data reach the file by the time the stream closes.
Close(t) ==
  LET file == FileOf(t) IN
  /\ pc[t] = "write"
  /\ files' = [files EXCEPT ![file] = [fire |-> FireOf(t), whole |-> TRUE]]
  /\ pc' = [pc EXCEPT ![t] = "leave"]
  /\ UNCHANGED <<scope, live, bases, dirs, count, nextIdx, fwd, pos, slot, forwards, calls,
                 readVars, ghosts>>

\* A write fails, on a full disk say: nobody looks, and a truncated file stays.
WriteFails(t) ==
  /\ MayFail /\ pc[t] = "write"
  /\ failed' = failed \cup {FileOf(t)}
  /\ pc' = [pc EXCEPT ![t] = "leave"]
  /\ UNCHANGED <<scope, live, diskVars, count, nextIdx, fwd, pos, slot, forwards, calls,
                 readVars, taken, kept, clears>>

\* The reduction raises, after the counter ticked and before an index is taken,
\* or a module between two hooks does: the later hooks do not fire.
ForwardRaises(t) ==
  /\ MayFail /\ pc[t] \in {"index", "leave"}
  /\ pc' = [pc EXCEPT ![t] = "idle"]
  /\ UNCHANGED <<scope, live, diskVars, count, nextIdx, fwd, pos, slot, forwards, calls,
                 readVars, ghosts>>

LeaveHook(t) ==
  /\ pc[t] = "leave"
  /\ NextFire(t, pos[t] + 1)
  /\ UNCHANGED <<scope, live, diskVars, count, nextIdx, fwd, slot, forwards, calls, readVars,
                 ghosts>>

(***************************************************************************)
(* Calls.  clear() and remove() are made between forward passes, a         *)
(* readback at any time.                                                   *)
(***************************************************************************)
NoReadback == reading = {} /\ queue = <<>>
MayCall(s) == s \in live /\ NoReadback /\ calls < MaxCalls

\* activations: session_readback_disk lists the session's directories.
BeginReadback(s) ==
  /\ MayCall(s)
  /\ calls' = calls + 1
  /\ reader' = s
  /\ reading' = {d \in dirs : d[1] = BaseOf[s]}
  /\ queue' = <<>> /\ out' = <<>>
  /\ calm' = Quiet
  /\ UNCHANGED <<scope, live, diskVars, count, nextIdx, threadVars, forwards, ghosts>>

Indices(d) == {f[2] : f \in {g \in DOMAIN files : g[1] = d}}

\* std::sort: the numbers of a set in ascending order.
Increasing(q) == \A m, n \in DOMAIN q : m < n => q[m] < q[n]
Sorted(S) == CHOOSE q \in [1 .. Cardinality(S) -> S] : Increasing(q)

\* One directory: its files, sorted by name, which is the order of the index.
ListDir(d) ==
  LET sorted == Sorted(Indices(d)) IN
  /\ d \in reading
  /\ reading' = reading \ {d}
  /\ queue' = queue \o [n \in DOMAIN sorted |-> <<d, sorted[n]>>]
  /\ UNCHANGED <<scope, live, diskVars, count, nextIdx, threadVars, forwards, calls, out,
                 reader, calm, ghosts>>

\* load_raw_tensor reads a whole file if the dtype it takes the data for fits
\* its length, and what comes out is the tensor only if it is the right dtype.
\* It raises on a missing file, and on a truncated one too, unless the bytes
\* that are there happen to fit.
Loads(file) ==
  file \in DOMAIN files /\ files[file].whole /\ Dat!Readable(scope.form)
MayLoad(file) ==
  Loads(file) \/ (file \in DOMAIN files /\ ~ files[file].whole /\ Dat!Misreads(scope.form))
Content(file) ==
  IF Loads(file) /\ Dat!Exact(scope.form) THEN files[file].fire ELSE Garbled

\* Seeded fault: the lengths are not checked, and a torn tensor comes out.
LoadFileUnchecked ==
  LET file == Head(queue) IN
  /\ reading = {} /\ queue # <<>>
  /\ queue' = Tail(queue)
  /\ out' = Append(out, <<file, Content(file)>>)
  /\ UNCHANGED <<scope, live, diskVars, count, nextIdx, threadVars, forwards, calls, reading,
                 reader, calm, ghosts>>

\* Seeded fault: a file that raises leaves a hole in the list.
LoadFileOrNone ==
  LET file == Head(queue) IN
  /\ reading = {} /\ queue # <<>>
  /\ queue' = Tail(queue)
  /\ out' = Append(out, <<file, IF Loads(file) THEN Content(file) ELSE <<>> >>)
  /\ UNCHANGED <<scope, live, diskVars, count, nextIdx, threadVars, forwards, calls, reading,
                 reader, calm, ghosts>>

\* Seeded fault: the try of activations surrounds the loop over a layer's files.
LoadFileOrLeaveLayer ==
  LET file == Head(queue)
      OtherLayer(f) == f[1] # file[1] IN
  /\ reading = {} /\ queue # <<>>
  /\ IF Loads(file)
     THEN queue' = Tail(queue) /\ out' = Append(out, <<file, Content(file)>>)
     ELSE queue' = SelectSeq(queue, OtherLayer) /\ out' = out
  /\ UNCHANGED <<scope, live, diskVars, count, nextIdx, threadVars, forwards, calls, reading,
                 reader, calm, ghosts>>

\* The next file, in a try of its own: one that raises is skipped.
LoadFile ==
  LET file == Head(queue) IN
  /\ reading = {} /\ queue # <<>>
  /\ queue' = Tail(queue)
  /\ \/ MayLoad(file) /\ out' = Append(out, <<file, Content(file)>>)
     \/ ~ Loads(file) /\ out' = out
  /\ UNCHANGED <<scope, live, diskVars, count, nextIdx, threadVars, forwards, calls, reading,
                 reader, calm, ghosts>>

\* Seeded fault: clear() starts disk_batch_idx over as well.
ClearWithIndex(s) ==
  /\ MayCall(s) /\ Quiet
  /\ calls' = calls + 1
  /\ count' = [h \in Hooks |-> IF SessionOf[h] = s THEN 0 ELSE count[h]]
  /\ nextIdx' = [h \in Hooks |-> IF SessionOf[h] = s THEN 0 ELSE nextIdx[h]]
  /\ kept' = [h \in Hooks |-> IF SessionOf[h] = s THEN {} ELSE kept[h]]
  /\ clears' = [clears EXCEPT ![s] = @ + 1]
  /\ UNCHANGED <<scope, live, diskVars, threadVars, forwards, readVars, taken, failed>>

\* session_clear: the accumulators are empty anyway and the counters start
\* over; the files and disk_batch_idx stay.
Clear(s) ==
  /\ MayCall(s) /\ Quiet
  /\ calls' = calls + 1
  /\ count' = [h \in Hooks |-> IF SessionOf[h] = s THEN 0 ELSE count[h]]
  /\ kept' = [h \in Hooks |-> IF SessionOf[h] = s THEN {} ELSE kept[h]]
  /\ clears' = [clears EXCEPT ![s] = @ + 1]
  /\ UNCHANGED <<scope, live, diskVars, nextIdx, threadVars, forwards, readVars, taken, failed>>

\* Seeded fault: release() does not go down into the layer directories.
DestroyShallow(s) ==
  /\ MayCall(s) /\ Quiet
  /\ calls' = calls + 1
  /\ live' = live \ {s}
  /\ UNCHANGED <<scope, diskVars, count, nextIdx, threadVars, forwards, readVars, ghosts>>

\* Seeded fault: release() deletes the directories of every session.
DestroyAll(s) ==
  /\ MayCall(s) /\ Quiet
  /\ calls' = calls + 1
  /\ live' = live \ {s}
  /\ files' = <<>> /\ dirs' = {} /\ bases' = {}
  /\ UNCHANGED <<scope, count, nextIdx, threadVars, forwards, readVars, ghosts>>

\* session_destroy: release() deletes the files of every directory below
\* session_dir, the directories and session_dir itself.
Destroy(s) ==
  /\ MayCall(s) /\ Quiet
  /\ calls' = calls + 1
  /\ live' = live \ {s}
  /\ files' = [f \in {g \in DOMAIN files : g[1][1] # BaseOf[s]} |-> files[f]]
  /\ dirs' = {d \in dirs : d[1] # BaseOf[s]}
  /\ bases' = bases \ {BaseOf[s]}
  /\ UNCHANGED <<scope, count, nextIdx, threadVars, forwards, readVars, ghosts>>

-----------------------------------------------------------------------------
HookStep(t) ==
  \/ ShouldCapture(t) \/ TakeIndex(t) \/ Open(t) \/ OpenFails(t) \/ Close(t)
  \/ WriteFails(t) \/ LeaveHook(t) \/ ForwardRaises(t)

\* The program is back in Python, outside every call.
Finished == Quiet /\ NoReadback /\ UNCHANGED vars

Next ==
  \/ \E t \in Threads : StartForward(t) \/ HookStep(t)
  \/ \E s \in Sessions : BeginReadback(s) \/ Clear(s) \/ Destroy(s)
  \/ \E d \in Dirs : ListDir(d)
  \/ LoadFile
  \/ Finished

Spec == Init /\ [][Next]_vars

-----------------------------------------------------------------------------
Entry == [fire : Fire \cup {Old}, whole : BOOLEAN]

\* Every variable has its type.
TypeOK ==
  /\ scope \in Scopes /\ live \subseteq Sessions
  /\ bases \subseteq Bases /\ dirs \subseteq Dirs
  /\ DOMAIN files \subseteq Paths /\ \A f \in DOMAIN files : files[f] \in Entry
  /\ count \in [Hooks -> Nat] /\ nextIdx \in [Hooks -> Nat]
  /\ pc \in [Threads -> {"idle", "policy", "index", "open", "write", "leave"}]
  /\ fwd \in [Threads -> Nat] /\ pos \in [Threads -> 1 .. Len(Fires)]
  /\ slot \in [Threads -> Nat] /\ forwards \in Nat /\ calls \in Nat
  /\ reading \subseteq Dirs /\ queue \in Seq(Paths)
  /\ out \in Seq(Paths \X (Fire \cup {Old, Garbled}))
  /\ reader \in Sessions /\ calm \in BOOLEAN
  /\ taken \in [Hooks -> Seq(Fire)] /\ failed \subseteq Paths
  /\ kept \in [Hooks -> SUBSET Fire] /\ clears \in [Sessions -> Nat]

Writing(h, i) == \E t \in Threads : pc[t] \in {"open", "write"} /\ HookOf(t) = h /\ slot[t] = i

\* The files the hooks of these sessions have opened.
Streamed == {f \in DOMAIN files : files[f].fire # Old}

\* No activation is overwritten: the file a hook is about to open with trunc is
\* none that a hook of these sessions opened before, and no other hook writes
\* to it, whatever was cleared.
NeverOverwritten ==
  \A t \in Threads :
    /\ pc[t] = "open" => FileOf(t) \notin Streamed
    /\ \A u \in Threads \ {t} :
         pc[t] \in {"open", "write"} /\ pc[u] \in {"open", "write"} => FileOf(t) # FileOf(u)

\* Streaming loses nothing silently but what the file system refused: of a
\* live session, the i-th activation to take an index is whole in file i, or
\* is still being written, or failed.
StreamedExactly ==
  \A h \in Hooks : SessionOf[h] \in live =>
    /\ nextIdx[h] = Len(taken[h])
    /\ \A i \in 1 .. Len(taken[h]) :
         LET file == File(h, i - 1) IN
         \/ Writing(h, i - 1) \/ file \in failed
         \/ file \in DOMAIN files /\ files[file] = [fire |-> taken[h][i], whole |-> TRUE]

\* A readback, even one that races the hooks, returns each layer's tensors in
\* the order their hooks took an index, and nothing else: no torn tensor unless
\* the dtype is one that load_raw_tensor garbles, and no tensor of an earlier
\* program but from the files it left.
Loaded(h) == {n \in DOMAIN out : out[n][1][1] = DirOf(h)}
ReadbackSound ==
  \A h \in HooksOf(reader) :
    /\ \A n \in Loaded(h) :
         LET i == out[n][1][2] IN
         \/ i < Len(taken[h]) /\ out[n][2] = taken[h][i + 1]
         \/ out[n][2] = Old /\ File(h, i) \in OldFiles
         \/ out[n][2] = Garbled /\ Dat!Garbles(scope.form)
    /\ \A m, n \in Loaded(h) : m < n => out[m][1][2] < out[n][1][2]

\* One that no forward pass overlaps returns everything that was streamed, if
\* the dtype is one load_raw_tensor reads as itself, and nothing of it if not.
Returned(h) == {n \in Loaded(h) : out[n][2] \in Fire}
Calm == calm /\ NoReadback /\ reader \in live
Whole(h) == {i \in 0 .. Len(taken[h]) - 1 : File(h, i) \notin failed}
ReadbackComplete ==
  Calm => \A h \in HooksOf(reader) :
    {out[n][1][2] : n \in Returned(h)} = IF Dat!Exact(scope.form) THEN Whole(h) ELSE {}

\* "after the tracking context exits (or hooks are detached), call
\* `tracker.activations` to load all tensors from disk back into Python"
\* (docs/usage/storagepolicy.md:19): whatever the dtype.
ReadbackReturnsAll ==
  Calm => \A h \in HooksOf(reader) : {out[n][1][2] : n \in Returned(h)} = Whole(h)

\* "the tracker's `activations` property returns an empty dict while hooks are
\* active" (docs/usage/storagepolicy.md:18), as those of a live session are here.
EmptyWhileActive == NoReadback /\ reader \in live => out = <<>>

\* MAX_K bounds what a session adds to the disk between two clears.
MaxKPerClear ==
  cfg.policy = "MAX_K" => \A h \in Hooks :
    Cardinality({f \in Streamed : f[1] = DirOf(h)})
      <= cfg.maxBatches * (1 + clears[SessionOf[h]])

\* Nothing of a removed session stays on the disk.
RemovedIsGone ==
  \A s \in Sessions \ live :
    /\ BaseOf[s] \notin bases
    /\ \A d \in dirs \cup {f[1] : f \in DOMAIN files} : d[1] # BaseOf[s]

\* A file a hook of a session that lives on has written is never deleted or
\* changed.
WholeFilesStay ==
  [][ \A f \in Streamed :
        files[f].whole /\ (\E s \in live' : f[1][1] = BaseOf[s]) =>
          f \in DOMAIN files' /\ files'[f] = files[f] ]_vars

\* clear() forgets the activations of the session: every file a readback would
\* load was captured since.
ClearForgets ==
  \A h \in Hooks : SessionOf[h] \in live =>
    \A f \in DOMAIN files : f[1] = DirOf(h) => files[f].fire \in kept[h]
=============================================================================
