------------------------------ MODULE Tensors ------------------------------
(***************************************************************************)
(* Which tensors share memory.  A scope (activationscope/tracker.py,       *)
(* csrc/callback.cpp, csrc/session.cpp) and the pure Python tracker        *)
(* (activationscope/_naive.py) watch one model; the program overwrites its *)
(* tensors, seeds accumulators, registers a built-in reduction between two *)
(* attaches, reads back, and keeps what it read.                           *)
(*                                                                         *)
(* mem is the memory: a tensor is the number of a block, a block holds the *)
(* sequence of the batches folded into it and lies on a device.  detach()  *)
(* is the same block; clone(), to() another device, amax, minimum and cat  *)
(* are new ones; an operation with out=acc writes into acc.  One thread,   *)
(* STORE_ALL, EVERY, no pinned memory; HookPath has the rest.  Reductions  *)
(* are of one kind at a time; which layer gets which is Registration's.    *)
(***************************************************************************)
EXTENDS Integers, FiniteSets, SequencesExt, DatFormat

CONSTANTS
  Layers,     \* the layers of the model
  Model,      \* their order in a forward pass
  Scopes,     \* the configurations a run may have
  Targets,    \* the sets of layers that may be given to track() and attach()
  Missing,    \* how many bytes of a file a failing write may leave out
  MaxForwards, MaxCalls, MaxWrites, MaxTorn, MaxDepth   \* bounds

Modes    == {"REFERENCE", "SNAPSHOT"}
Storages == {"AUTO", "CPU", "GPU", "DISK"}
Kinds    == {"none", "max", "mean"}
Devices  == {"cpu", "cuda"}
Uses     == {"register", "attach", "track", "raise", "seed", "write", "readback", "params"}
NoLayer  == "none"

\* cuda: the model runs on a GPU; large: its activations reach
\* auto_cpu_threshold_bytes; form: the dtype and the shape of an activation;
\* uses: what the program around the model does.
Scope == [mode : Modes, storage : Storages, cuda : BOOLEAN, large : BOOLEAN,
          form : [dtype : Dtypes, shape : Seq(Nat)], uses : SUBSET Uses]

ASSUME TensorsAssumption ==
  /\ NoLayer \notin Layers
  /\ Model \in Seq(Layers) /\ Range(Model) = Layers /\ Model # <<>>
  /\ Scopes \subseteq Scope
  /\ \A s \in Scopes : Len(s.form.shape) = 2
  /\ Targets \subseteq SUBSET Layers
  /\ Missing \subseteq Nat \ {0}
  /\ {MaxForwards, MaxCalls, MaxWrites, MaxTorn, MaxDepth} \subseteq Nat

VARIABLES
  scope, mem,
  pos, out, due,   \* a forward pass: the layer it is at, the tensor that layer
                   \* made, the hooks it has still to call
  hooks,        \* per layer the installed hooks, "scope" or "naive", in order
  depth,        \* with-blocks entered
  reg, conf,    \* the registered reduction; per layer the one it was attached with
  accum,        \* per layer the tensors of the accumulator
  files,        \* per layer the .dat files: form, bytes and batches of each
  acts,         \* _activations of the pure Python tracker
  forwards, calls, torn,
  own,          \* ghost: the program's tensors and what it last wrote to each
  wrote,        \* ghost: those it overwrote
  seeds,        \* ghost: the tensors given to init_accumulator
  params,       \* the program's parameter
  got,          \* ghost: what was handed out, and what it held then
  folded,       \* ghost: per layer the batches a reduction should have folded
  mixed,        \* ghost: layers that got a reduction with raw captures stored
  apart         \* ghost: the two trackers were not driven alike

progVars  == <<scope, reg, torn, params>>
passVars  == <<pos, out, due>>
ghosts    == <<own, wrote, seeds, got, folded, mixed, apart>>
hookVars  == <<hooks, depth, conf>>
storeVars == <<accum, files, acts>>
counters  == <<forwards, calls>>
vars == <<progVars, mem, passVars, hookVars, storeVars, counters, ghosts>>

Device == IF scope.cuda THEN "cuda" ELSE "cpu"
Seed == 0
Scribble == -1
Baseline == -2

Block(batches, dev) == [batches |-> batches, dev |-> dev]
\* The program comes by one more tensor.
OwnAlso(t, batches) ==
  [b \in DOMAIN own \cup {t} |-> IF b = t THEN batches ELSE own[b]]

\* How many of a layer's hooks are a tracker's.
Times(who, hs) == Cardinality({i \in DOMAIN hs : hs[i] = who})

AtRest == due = <<>> /\ pos = Len(Model)
Current == Model[pos]

Init ==
  /\ scope \in Scopes
  /\ mem = << Block(<<Baseline>>, Device) >>
  /\ params = 1
  /\ pos = Len(Model) /\ out = params /\ due = <<>>
  /\ hooks = [l \in Layers |-> <<>>]
  /\ depth = 0 /\ reg = "none"
  /\ conf = [l \in Layers |-> "none"]
  /\ accum = [l \in Layers |-> <<>>] /\ files = accum
  /\ acts = <<>>
  /\ forwards = 0 /\ calls = 0 /\ torn = 0
  /\ own = [b \in {params} |-> <<Baseline>>] /\ wrote = {} /\ seeds = {} /\ got = {}
  /\ folded = [l \in Layers |-> <<>>] /\ mixed = {} /\ apart = FALSE

-----------------------------------------------------------------------------
(***************************************************************************)
(* Tensor operations, on a record of the memory and the tensor in hand.    *)
(***************************************************************************)
New(m, batches, dev) == [mem |-> Append(m, Block(batches, dev)), at |-> Len(m) + 1]
CopyTo(r, dev)   == New(r.mem, r.mem[r.at].batches, dev)
ToDevice(r, dev) == IF r.mem[r.at].dev = dev THEN r ELSE CopyTo(r, dev)
Clone(r)         == CopyTo(r, r.mem[r.at].dev)

\* Seeded fault: the first call returns the activation itself.
FirstItself(r) == r

\* acc is None: amax over the batch, or the cat of mean and count.
FirstResult(r) == Clone(r)

\* max_reduction, and min_reduction alike: out=acc.
Maximum(acc, r) ==
  [mem |-> [r.mem EXCEPT ![acc].batches = @ \o r.mem[r.at].batches], at |-> acc]

\* mean_reduction: the new mean and count are another cat.
Mean(acc, r) == New(r.mem, r.mem[acc].batches \o r.mem[r.at].batches, r.mem[r.at].dev)

\* The running value, on the device of the activation, and the reduction.
Result(l) ==
  LET acc == ToDevice([mem |-> mem, at |-> Last(accum[l])], mem[out].dev)
      new == [mem |-> IF accum[l] = <<>> THEN mem ELSE acc.mem, at |-> out] IN
  IF conf[l] = "none" THEN new
  ELSE IF accum[l] = <<>> THEN FirstResult(new)
  ELSE IF conf[l] = "max" THEN Maximum(acc.at, new)
  ELSE Mean(acc.at, new)

\* Seeded fault: SNAPSHOT is taken for REFERENCE.
DetachedNoClone(r) == r

Detached(r) == IF scope.mode = "SNAPSHOT" THEN Clone(r) ELSE r

\* apply_storage_policy: a tensor on the GPU stays, or is copied to the host.
MovesToCpu ==
  \/ scope.storage \in {"CPU", "DISK"}
  \/ scope.storage = "AUTO" /\ ~ scope.large

\* Seeded fault: AUTO leaves every tensor where it is.
PlacedNoAuto(r) == IF scope.storage \in {"CPU", "DISK"} THEN ToDevice(r, "cpu") ELSE r

Placed(r) == IF MovesToCpu THEN ToDevice(r, "cpu") ELSE r

\* The form of what is stored: a reduction drops the first dimension, the
\* mean is a float32 and has a row for the count.
FormOf(kind) ==
  LET s == scope.form.shape IN
  CASE kind = "none" -> scope.form
    [] kind = "max"  -> [scope.form EXCEPT !.shape = Tail(s)]
    [] kind = "mean" -> [dtype |-> "float32", shape |-> <<s[2] + 1>>]

-----------------------------------------------------------------------------
(***************************************************************************)
(* A forward pass: each layer makes a tensor, then its hooks are called.   *)
(***************************************************************************)
RunLayer ==
  /\ due = <<>>
  /\ pos = Len(Model) => forwards < MaxForwards
  /\ LET at == IF pos = Len(Model) THEN 1 ELSE pos + 1
         n  == IF at = 1 THEN forwards + 1 ELSE forwards
         l  == Model[at]
         made == New(mem, <<n>>, Device) IN
     /\ pos' = at /\ out' = made.at /\ due' = hooks[l] /\ forwards' = n
     /\ mem' = made.mem
     /\ own' = OwnAlso(made.at, <<n>>)
     /\ folded' = [folded EXCEPT ![l] = @ \o [i \in 1 .. Times("scope", hooks[l]) |-> n]]
  /\ UNCHANGED <<progVars, hookVars, storeVars, calls, wrote, seeds, got, mixed, apart>>

\* The DISK branch: the tensor goes to a file, all of it or the first bytes,
\* and not to the accumulator.
ToFile(l, r) ==
  \E gone \in {0} \cup IF torn < MaxTorn THEN Missing ELSE {} :
    LET form == FormOf(conf[l])
        cpu  == ToDevice(r, "cpu")
        file == [form |-> form, bytes |-> FileBytes(form) - gone,
                 batches |-> cpu.mem[cpu.at].batches] IN
    /\ FileBytes(form) >= gone
    /\ torn' = IF gone = 0 THEN torn ELSE torn + 1
    /\ files' = [files EXCEPT ![l] = Append(@, file)]
    /\ mem' = cpu.mem
    /\ UNCHANGED accum

\* The in-memory branch: a reduction replaces the last entry.
ToMemory(l, r) ==
  /\ accum' = [accum EXCEPT ![l] =
       IF conf[l] = "none" \/ @ = <<>> THEN Append(@, r.at)
       ELSE ReplaceAt(@, Len(@), r.at)]
  /\ mem' = r.mem
  /\ UNCHANGED <<torn, files>>

\* hook_callback.
HookCallback ==
  /\ due # <<>> /\ Head(due) = "scope"
  /\ LET stored == Placed(Detached(Result(Current))) IN
     IF scope.storage = "DISK" THEN ToFile(Current, stored) ELSE ToMemory(Current, stored)
  /\ due' = Tail(due)
  /\ UNCHANGED <<scope, reg, params, pos, out, hookVars, acts, counters, ghosts>>

\* hook_fn of the pure Python tracker.  The layer is looked up at each call:
\* one that a later _attach left out raises KeyError, and the forward pass
\* ends there.
NaiveHook ==
  LET copy == ToDevice([mem |-> mem, at |-> out], "cpu")
      t    == Detached(copy) IN
  /\ due # <<>> /\ Head(due) = "naive"
  /\ IF Current \in DOMAIN acts
     THEN /\ acts' = [acts EXCEPT ![Current] = Append(@, t.at)]
          /\ mem' = t.mem
          /\ due' = Tail(due)
          /\ UNCHANGED <<pos, folded, apart>>
     ELSE /\ due' = <<>> /\ pos' = Len(Model) /\ apart' = TRUE
          /\ folded' = [folded EXCEPT ![Current] =
               SubSeq(@, 1, Len(@) - Times("scope", due))]
          /\ UNCHANGED <<acts, mem>>
  /\ UNCHANGED <<progVars, out, hookVars, accum, files, counters, own, wrote, seeds, got, mixed>>

\* A module raises: the rest of the pass does not happen.
ForwardRaises ==
  /\ due = <<>> /\ pos < Len(Model) /\ "raise" \in scope.uses
  /\ pos' = Len(Model)
  /\ UNCHANGED <<progVars, mem, out, due, hookVars, storeVars, counters, ghosts>>

-----------------------------------------------------------------------------
(***************************************************************************)
(* What the program does between two layers or two passes.                 *)
(***************************************************************************)
Call(use) ==
  AtRest /\ use \in scope.uses /\ calls < MaxCalls /\ calls' = calls + 1

\* register_reduction of a built-in reduction, as the global default.
RegisterReduction(kind) ==
  /\ Call("register") /\ reg = "none"
  /\ reg' = kind
  /\ UNCHANGED <<scope, torn, params, mem, passVars, hookVars, storeVars, forwards, ghosts>>

\* Layers of targets whose accumulator holds captures a reduction did not make.
Raw(targets, store) ==
  {l \in targets : /\ conf[l] = "none" /\ reg # "none"
                   /\ \E i \in DOMAIN store[l] : store[l][i] \notin seeds}

\* session_register_hooks on each target, with accumulators as in store.
RegisterHooks(targets, store) ==
  /\ accum' = store
  /\ conf' = [l \in Layers |-> IF l \in targets /\ reg # "none" THEN reg ELSE conf[l]]
  /\ mixed' = {l \in mixed : store[l] # <<>>} \cup Raw(targets, store)

With(targets, new) == [l \in Layers |-> IF l \in targets THEN hooks[l] \o new ELSE hooks[l]]

\* attach() of the scope alone: what it holds stays.
Attach(targets) ==
  /\ Call("attach")
  /\ RegisterHooks(targets, accum)
  /\ hooks' = With(targets, <<"scope">>)
  /\ apart' = TRUE
  /\ UNCHANGED <<progVars, mem, passVars, depth, files, acts, forwards,
                 own, wrote, seeds, got, folded>>

\* Seeded fault: the scope's track() keeps what the last block captured.
ClearedNot == accum

\* clear(): the accumulators are empty.
Cleared == [l \in Layers |-> <<>>]

\* Seeded fault: _attach keeps the lists it has.
FreshListsKept(targets) == acts @@ [l \in targets |-> <<>>]

\* _attach: a new dict, with a list for each target.
FreshLists(targets) == [l \in targets |-> <<>>]

\* with scope.track(model), naive.track(model), on one set of layers.
EnterTrack(targets) ==
  /\ Call("track") /\ depth < MaxDepth
  /\ depth' = depth + 1
  /\ RegisterHooks(targets, Cleared)
  /\ acts' = FreshLists(targets)
  /\ hooks' = With(targets, <<"scope", "naive">>)
  /\ folded' = [l \in Layers |-> <<>>]
  /\ UNCHANGED <<progVars, mem, passVars, files, forwards, own, wrote, seeds, got, apart>>

\* The hooks a with-block leaves on: session_detach_hooks and _detach take off
\* all of their tracker's, those of outer blocks too.  When the body raises,
\* the scope detaches in a finally, and _detach is not called.
HooksLeft(raised) ==
  [l \in Layers |-> [i \in 1 .. IF raised THEN Times("naive", hooks[l]) ELSE 0 |-> "naive"]]

ExitTrack ==
  \E raised \in {FALSE} \cup {"raise" \in scope.uses} :
    /\ AtRest /\ depth > 0
    /\ depth' = depth - 1
    /\ hooks' = HooksLeft(raised)
    /\ apart' = (apart \/ raised)
    /\ UNCHANGED <<progVars, mem, passVars, conf, storeVars, counters,
                   own, wrote, seeds, got, folded, mixed>>

\* session_init_accumulator stores the program's own tensor.
InitAccumulator(l) ==
  LET seed == New(mem, <<Seed>>, "cpu") IN
  /\ Call("seed") /\ seeds = {}
  /\ mem' = seed.mem
  /\ accum' = [accum EXCEPT ![l] = <<seed.at>>]
  /\ own' = OwnAlso(seed.at, <<Seed>>) /\ seeds' = {seed.at}
  /\ folded' = [folded EXCEPT ![l] = <<Seed>>]
  /\ mixed' = mixed \ {l} /\ apart' = TRUE
  /\ UNCHANGED <<progVars, passVars, hookVars, files, acts, forwards, wrote, got>>

\* The program writes to a tensor of its own: relu_, an optimizer step.
Overwrite(b) ==
  /\ due = <<>> /\ "write" \in scope.uses
  /\ b \notin wrote /\ Cardinality(wrote) < MaxWrites
  /\ wrote' = wrote \cup {b}
  /\ mem' = [mem EXCEPT ![b].batches = Append(@, Scribble)]
  /\ own' = [own EXCEPT ![b] = Append(@, Scribble)]
  /\ UNCHANGED <<progVars, passVars, hookVars, storeVars, counters,
                 seeds, got, folded, mixed, apart>>

\* The two trackers do not name a layer alike: session_register_hooks adds the
\* direction, and the dict of activations has the keys that hold a tensor.
\* _attach takes the layer's own name, tensors or not.
OutputKey(l)     == <<l, "output">>
ScopeActivations ==
  LET held == {l \in Layers : accum[l] # <<>>}
  IN  [k \in {OutputKey(l) : l \in held} |-> accum[k[1]]]
NaiveActivations == acts

Handed(l, b) == [layer |-> l, at |-> b, batches |-> mem[b].batches]

\* activations of a session in memory: the tensors of the accumulators.
Readback ==
  /\ Call("readback") /\ scope.storage # "DISK"
  /\ got' = got \cup UNION {{Handed(l, b) : b \in Range(accum[l])} : l \in Layers}
  /\ UNCHANGED <<progVars, mem, passVars, hookVars, storeVars, forwards,
                 own, wrote, seeds, folded, mixed, apart>>

\* capture_parameters: detached clones on the host.
CaptureParameters ==
  LET copy == Clone(ToDevice([mem |-> mem, at |-> params], "cpu")) IN
  /\ Call("params")
  /\ mem' = copy.mem
  /\ got' = got \cup {[Handed(NoLayer, params) EXCEPT !.at = copy.at]}
  /\ UNCHANGED <<progVars, passVars, hookVars, storeVars, forwards,
                 own, wrote, seeds, folded, mixed, apart>>

\* The bounds are reached, or the program does nothing more.
Finished == AtRest /\ UNCHANGED vars

Next ==
  \/ RunLayer \/ HookCallback \/ NaiveHook \/ ForwardRaises
  \/ \E kind \in Kinds \ {"none"} : RegisterReduction(kind)
  \/ \E targets \in Targets : Attach(targets) \/ EnterTrack(targets)
  \/ ExitTrack
  \/ \E l \in Layers : InitAccumulator(l)
  \/ \E b \in DOMAIN own : Overwrite(b)
  \/ Readback \/ CaptureParameters
  \/ Finished

Spec == Init /\ [][Next]_vars

-----------------------------------------------------------------------------
(***************************************************************************)
(* Properties.                                                             *)
(***************************************************************************)
Tensor == DOMAIN mem

\* Every variable has its type: in particular accumulators, lists and
\* readbacks hold tensors that exist, each where a placement puts it.
TypeOK ==
  /\ scope \in Scopes /\ reg \in Kinds /\ conf \in [Layers -> Kinds]
  /\ \A b \in Tensor : mem[b].dev \in {"cpu", Device}
  /\ pos \in DOMAIN Model
  /\ out \in Tensor /\ due \in Seq({"scope", "naive"})
  /\ hooks \in [Layers -> Seq({"scope", "naive"})]
  /\ accum \in [Layers -> Seq(Tensor)]
  /\ DOMAIN acts \subseteq Layers
  /\ \A l \in DOMAIN acts : \A b \in Range(acts[l]) : mem[b].dev = "cpu"
  /\ MovesToCpu => \A l \in Layers : \A b \in Range(accum[l]) : mem[b].dev = "cpu"
  /\ DOMAIN own \subseteq Tensor /\ seeds \cup wrote \subseteq DOMAIN own
  /\ \A g \in got : g.at \in Tensor
  /\ forwards <= MaxForwards /\ calls <= MaxCalls /\ torn <= MaxTorn /\ depth <= MaxDepth

\* The library writes to a tensor of the program's (an activation the model
\* goes on to use, a parameter, a seed) only as the running value of an
\* in-place reduction: a seed on the activations' device, or a REFERENCE
\* capture that was there when the reduction was attached (tracker.py:217).
ProgramTensorsIntact ==
  [][\A b \in DOMAIN own :
       mem'[b] # mem[b] =>
         \/ own'[b] # own[b]
         \/ /\ conf[Current] = "max" /\ accum[Current] # <<>> /\ Last(accum[Current]) = b
            /\ b \in seeds \/ (Current \in mixed /\ scope.mode = "REFERENCE")]_vars

\* What was handed out keeps its value, through later passes, clears and the
\* program's own writes (the clone of SNAPSHOT, callback.cpp:103, and of
\* capture_parameters), but for two: a write of the program to a tensor that
\* REFERENCE shares with it, and batches that an in-place reduction adds.
HandedStable ==
  \A g \in got :
    LET now == mem[g.at].batches IN
    \/ now = g.batches
    \/ /\ g.layer # NoLayer
       /\ \/ /\ scope.mode = "REFERENCE" \/ g.at \in seeds
             /\ g.at \in DOMAIN own /\ now = own[g.at]
          \/ conf[g.layer] = "max" /\ IsPrefix(g.batches, now)

Batches(s) == [i \in DOMAIN s |-> mem[s[i]].batches]

\* Do a scope's captures share memory with the program where the lists of the
\* pure Python tracker do?
SharesAlike == scope.mode = "SNAPSHOT" \/ ~ scope.cuda \/ MovesToCpu

\* Entered and left together, nested or not, the two trackers have captured
\* the same layers, as often and with the same values, each under the name it
\* gives the layer: what tests/test_parity.py compares, the names apart.
Parity ==
  AtRest /\ ~ apart /\ scope.storage # "DISK" /\ SharesAlike =>
    \A l \in Layers :
      conf[l] = "none" =>
        IF l \in DOMAIN acts THEN Batches(accum[l]) = Batches(acts[l]) ELSE accum[l] = <<>>

\* A reduction's one entry is the fold of every batch since the clear or the
\* seed and of nothing else, whatever the program does to its activations in
\* between: the running value is the library's own (callback.cpp:96).
FoldClean ==
  AtRest /\ scope.storage # "DISK" /\ seeds \cap wrote = {} =>
    \A l \in Layers \ mixed :
      conf[l] # "none" =>
        Batches(accum[l]) = IF folded[l] = <<>> THEN <<>> ELSE << folded[l] >>

\* A file of a dtype that both sides know is loaded if and only if all of it
\* was written, and as the tensor that was written (callback.cpp:115,
\* utils.py:144).
DiskFaithful ==
  \A l \in Layers : \A f \in Range(files[l]) :
    f.form.dtype \in Supported =>
      /\ Loads(f.form, f.bytes) <=> f.bytes = FileBytes(f.form)
      /\ Loaded(f.form) = f.form

(***************************************************************************)
(* What the repository says and the code does not do.                      *)
(***************************************************************************)
\* "assert set(s.activations.keys()) == set(n.activations.keys())"
\* (tests/test_parity.py:55), after a pass in one block of each tracker.
KeysAgree ==
  AtRest /\ ~ apart /\ scope.storage # "DISK" /\ (\A l \in DOMAIN acts : acts[l] # <<>>) =>
    DOMAIN ScopeActivations = DOMAIN NaiveActivations

\* "The reduction must be stateful - it persists and updates a running
\* accumulator across all batches" (docs/usage/reductionpolicy.md:49),
\* "independently of where tensors live" (line 76): the newest file of a
\* reduced layer holds the fold of every batch since clear().
DiskFolds ==
  AtRest /\ scope.storage = "DISK" =>
    \A l \in Layers :
      conf[l] # "none" /\ folded[l] # <<>> => Last(files[l]).batches = folded[l]

\* "SNAPSHOT = 1  # detach() + clone() - completely independent copy"
\* (activationscope/policies.py:56): what was handed out no longer changes.
SnapshotIndependent ==
  scope.mode = "SNAPSHOT" => \A g \in got : mem[g.at].batches = g.batches

\* "Both accumulator and new_tensor are views into C++-owned storage"
\* (docs/usage/customreductions.md:12): the running value that a reduction is
\* given, and may write into, is no tensor of the program's.
RunningValueOwned ==
  \A l \in Layers :
    conf[l] # "none" /\ accum[l] # <<>> => Last(accum[l]) \notin DOMAIN own
=============================================================================
