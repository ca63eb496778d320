------------------------------ MODULE HookPath ------------------------------
(***************************************************************************)
(* The hot path of ActivationScope: hook_callback (csrc/callback.cpp) run  *)
(* by the threads that execute model(x), against the session calls that    *)
(* Python makes on the same accumulators (csrc/session.cpp), for sessions  *)
(* that keep activations in memory.                                        *)
(*                                                                         *)
(* A hook runs without the GIL from should_capture to the store, and takes *)
(* the layer's mutex twice: to load the running value and to store the new *)
(* one.  A session call holds the GIL and SessionState::mutex throughout   *)
(* and never takes the layer's mutex.  So session calls exclude each other *)
(* and exclude the entry and the exit of hooks, and nothing else.          *)
(*                                                                         *)
(* A tensor is the sequence of the fires folded into it: <<c>> for an      *)
(* activation captured as it is, acc \o <<c>> for the result of a          *)
(* reduction, <<Seed>> for the tensor session_init_accumulator stored.  A  *)
(* fire c = <<n, i>> is the i-th hook call of the n-th forward pass.       *)
(***************************************************************************)
EXTENDS Sequences, FiniteSets, Functions, CapturePolicy

CONSTANTS
  Threads,          \* the threads that may run forward passes
  NoOne,            \* the holder of a free mutex
  Keys,             \* the hook keys of the session ("fc1.output", ...)
  Fires,            \* the keys one forward pass fires, in order (a hook that is
                    \* given no tensor returns at once and is left out)
  Scopes,           \* the scopes the program may construct: the arguments of
                    \* ActivationScope and the keys it registers a reduction for
  Calls,            \* the session calls the program makes, for each scope
  Overlap,          \* may it make them while a forward pass is running?
  MayRaise,         \* may a module or a reduction raise?
  Crew,             \* the threads that run the model, for each scope
  MaxForwards,      \* bound: the forward passes they run, for each scope
  MaxCalls          \* bound: the session calls

SessionCalls == {"clear", "readback", "init"}

Scope == [capture : Policies, sampleEvery : Int, maxBatches : Int,
          reductionPolicy : {"STORE_ALL", "STREAMING", "FINAL_ONLY"},
          reduced : SUBSET Keys]

ASSUME HookPathAssumption ==
  /\ NoOne \notin Threads
  /\ Fires \in Seq(Keys) /\ Fires # <<>>
  /\ Scopes \subseteq Scope
  /\ Calls \in [Scopes -> SUBSET SessionCalls]
  /\ Overlap \in BOOLEAN /\ MayRaise \in BOOLEAN
  /\ Crew \in [Scopes -> SUBSET Threads]
  /\ MaxForwards \in [Scopes -> Nat] /\ MaxCalls \in Nat

Fire   == Nat \X Nat
Seed   == <<0, 0>>
Tensor == Seq(Fire)

VARIABLES
  scope,    \* the session's ActivationScope
  data,     \* accum->data of each key: the vector of stored tensors
  mtx,      \* accum->mtx: the thread that holds it, or NoOne
  count,    \* counter.batch_count of each key
  pc,       \* where each thread is in its hook, "idle" outside a forward
  fwd, pos, \* the forward a thread runs, the position of its current fire
  acc,      \* hook_callback's acc: the tensor it loaded (<<>> if undefined)
  result,   \* hook_callback's result
  api,      \* the session call in progress, "idle" if none
  todo,     \* the keys its current loop has not visited
  forwards, calls,  \* forward passes and session calls begun
  admitted, \* ghost: the fires of each key that should_capture let through
            \* since the program last emptied its accumulator
  raised,   \* ghost: those of them whose reduction raised
  seeded    \* ghost: the keys the program stored a seed for since it last
            \* cleared the scope

threadVars == <<pc, fwd, pos, acc, result>>
apiVars == <<api, todo, calls>>
ghosts == <<admitted, raised, seeded>>
vars == <<scope, data, mtx, count, threadVars, apiVars, forwards, ghosts>>

\* The CaptureCounter every hook of the session is configured with.
cfg == MakeConfig(Knobs(scope.capture, scope.sampleEvery, scope.maxBatches))

Init ==
  /\ scope \in Scopes
  /\ data = [k \in Keys |-> <<>>]
  /\ mtx = [k \in Keys |-> NoOne]
  /\ count = [k \in Keys |-> 0]
  /\ pc = [t \in Threads |-> "idle"]
  /\ fwd = [t \in Threads |-> 0]
  /\ pos = [t \in Threads |-> 1]
  /\ acc = [t \in Threads |-> <<>>]
  /\ result = [t \in Threads |-> <<>>]
  /\ api = "idle" /\ todo = {} /\ calls = 0
  /\ forwards = 0
  /\ admitted = [k \in Keys |-> {}]
  /\ raised = [k \in Keys |-> {}]
  /\ seeded = {}

-----------------------------------------------------------------------------
\* The key a thread's current hook belongs to, and its current fire.
KeyOf(t)  == Fires[pos[t]]
FireOf(t) == <<fwd[t], pos[t]>>

\* The GIL: a session call in progress holds it.
GilFree == api = "idle"

Quiet == \A t \in Threads : pc[t] = "idle"

(***************************************************************************)
(* Forward passes and hooks.                                               *)
(***************************************************************************)

\* model(x): the first hook's thunk is entered with the GIL and releases it.
StartForward(t) ==
  /\ t \in Crew[scope] /\ pc[t] = "idle"
  /\ GilFree /\ forwards < MaxForwards[scope]
  /\ forwards' = forwards + 1
  /\ fwd' = [fwd EXCEPT ![t] = forwards + 1]
  /\ pos' = [pos EXCEPT ![t] = 1]
  /\ pc' = [pc EXCEPT ![t] = "policy"]
  /\ UNCHANGED <<scope, data, mtx, count, acc, result, apiVars, ghosts>>

\* should_capture: one atomic fetch_add decides, outside any mutex.
ShouldCapture(t) ==
  LET k == KeyOf(t) IN
  /\ pc[t] = "policy"
  /\ count' = [count EXCEPT ![k] = Tick(cfg, count[k])]
  /\ IF Admits(cfg, count[k])
     THEN /\ pc' = [pc EXCEPT ![t] = "lock_load"]
          /\ admitted' = [admitted EXCEPT ![k] = @ \cup {FireOf(t)}]
     ELSE pc' = [pc EXCEPT ![t] = "leave"] /\ UNCHANGED admitted
  /\ UNCHANGED <<scope, data, mtx, fwd, pos, acc, result, apiVars, forwards,
                 raised, seeded>>

LockLoad(t) ==
  /\ pc[t] = "lock_load" /\ mtx[KeyOf(t)] = NoOne
  /\ mtx' = [mtx EXCEPT ![KeyOf(t)] = t]
  /\ pc' = [pc EXCEPT ![t] = "load"]
  /\ UNCHANGED <<scope, data, count, fwd, pos, acc, result, apiVars, forwards, ghosts>>

\* Seeded faults: the running value is lost; the lock outlives its scope.
LoadNothing(t) ==
  /\ pc[t] = "load"
  /\ acc' = [acc EXCEPT ![t] = <<>>]
  /\ mtx' = [mtx EXCEPT ![KeyOf(t)] = NoOne]
  /\ pc' = [pc EXCEPT ![t] = "reduce"]
  /\ UNCHANGED <<scope, data, count, fwd, pos, result, apiVars, forwards, ghosts>>

LoadKeepsLock(t) ==
  LET k == KeyOf(t) IN
  /\ pc[t] = "load"
  /\ acc' = [acc EXCEPT ![t] = IF data[k] = <<>> THEN <<>> ELSE data[k][Len(data[k])]]
  /\ pc' = [pc EXCEPT ![t] = "reduce"]
  /\ UNCHANGED <<scope, data, mtx, count, fwd, pos, result, apiVars, forwards, ghosts>>

\* acc = accum->data.last(), undefined when the vector is empty; unlock.
Load(t) ==
  LET k == KeyOf(t) IN
  /\ pc[t] = "load"
  /\ acc' = [acc EXCEPT ![t] = IF data[k] = <<>> THEN <<>>
                               ELSE data[k][Len(data[k])]]
  /\ mtx' = [mtx EXCEPT ![k] = NoOne]
  /\ pc' = [pc EXCEPT ![t] = "reduce"]
  /\ UNCHANGED <<scope, data, count, fwd, pos, result, apiVars, forwards, ghosts>>

\* reduction->run(acc, tensor), or the tensor itself; no lock is held.
Reduce(t) ==
  /\ pc[t] = "reduce"
  /\ result' = [result EXCEPT ![t] = IF KeyOf(t) \in scope.reduced
                                     THEN Append(acc[t], FireOf(t))
                                     ELSE <<FireOf(t)>>]
  /\ pc' = [pc EXCEPT ![t] = "lock_store"]
  /\ UNCHANGED <<scope, data, mtx, count, fwd, pos, acc, apiVars, forwards, ghosts>>

\* TorchScript raises: the exception leaves hook_callback after the counter
\* ticked and unwinds the forward pass, whose later hooks do not fire.
ReduceRaises(t) ==
  LET k == KeyOf(t) IN
  /\ MayRaise /\ pc[t] = "reduce" /\ k \in scope.reduced
  /\ raised' = [raised EXCEPT ![k] = @ \cup {FireOf(t)}]
  /\ pos' = [pos EXCEPT ![t] = Len(Fires)]
  /\ pc' = [pc EXCEPT ![t] = "leave"]
  /\ UNCHANGED <<scope, data, mtx, count, fwd, acc, result, apiVars, forwards,
                 admitted, seeded>>

\* Seeded fault: the store takes no lock.
LockStoreNot(t) ==
  /\ pc[t] = "lock_store"
  /\ pc' = [pc EXCEPT ![t] = "store"]
  /\ UNCHANGED <<scope, data, mtx, count, fwd, pos, acc, result, apiVars, forwards, ghosts>>

LockStore(t) ==
  /\ pc[t] = "lock_store" /\ mtx[KeyOf(t)] = NoOne
  /\ mtx' = [mtx EXCEPT ![KeyOf(t)] = t]
  /\ pc' = [pc EXCEPT ![t] = "store"]
  /\ UNCHANGED <<scope, data, count, fwd, pos, acc, result, apiVars, forwards, ghosts>>

\* Seeded faults: STREAMING overwrites as FINAL_ONLY does; FINAL_ONLY keeps the
\* first; a case falls through to a second append; a store goes to the front.
StoredStreamingOnce(k, r) ==
  IF k \in scope.reduced \/ scope.reductionPolicy # "STORE_ALL" THEN <<r>>
  ELSE Append(data[k], r)
StoredFirst(k, r) ==
  IF k \in scope.reduced THEN <<r>>
  ELSE IF scope.reductionPolicy = "FINAL_ONLY" /\ data[k] # <<>> THEN data[k]
  ELSE Append(data[k], r)
StoredTwice(k, r) ==
  IF k \in scope.reduced \/ scope.reductionPolicy = "FINAL_ONLY" THEN <<r>>
  ELSE Append(Append(data[k], r), r)
StoredInFront(k, r) ==
  IF k \in scope.reduced \/ scope.reductionPolicy = "FINAL_ONLY" THEN <<r>>
  ELSE <<r>> \o data[k]

\* The vector after a store of r: a reduction owns the last entry, otherwise
\* the ReductionPolicy appends or keeps the newest only.
Stored(k, r) ==
  LET old == data[k] IN
  IF k \in scope.reduced
  THEN IF old = <<>> THEN <<r>> ELSE [old EXCEPT ![Len(old)] = r]
  ELSE IF scope.reductionPolicy = "FINAL_ONLY" THEN <<r>> ELSE Append(old, r)

Store(t) ==
  LET k == KeyOf(t) IN
  /\ pc[t] = "store"
  /\ data' = [data EXCEPT ![k] = Stored(k, result[t])]
  /\ mtx' = [mtx EXCEPT ![k] = NoOne]
  /\ pc' = [pc EXCEPT ![t] = "leave"]
  /\ UNCHANGED <<scope, count, fwd, pos, acc, result, apiVars, forwards, ghosts>>

\* Seeded fault: one hook too many is run.
LeaveHookLate(t) ==
  /\ pc[t] = "leave" /\ GilFree
  /\ IF pos[t] <= Len(Fires)
     THEN /\ pos' = [pos EXCEPT ![t] = pos[t] + 1]
          /\ pc' = [pc EXCEPT ![t] = "policy"]
     ELSE pc' = [pc EXCEPT ![t] = "idle"] /\ UNCHANGED pos
  /\ UNCHANGED <<scope, data, mtx, count, fwd, acc, result, apiVars, forwards, ghosts>>

\* The thunk returns with the GIL re-acquired; the forward pass goes on to
\* its next hook or ends.
LeaveHook(t) ==
  /\ pc[t] = "leave" /\ GilFree
  /\ IF pos[t] < Len(Fires)
     THEN /\ pos' = [pos EXCEPT ![t] = pos[t] + 1]
          /\ pc' = [pc EXCEPT ![t] = "policy"]
     ELSE pc' = [pc EXCEPT ![t] = "idle"] /\ UNCHANGED pos
  /\ UNCHANGED <<scope, data, mtx, count, fwd, acc, result, apiVars, forwards, ghosts>>

\* A module between two hooks raises: the later hooks do not fire.
ForwardRaises(t) ==
  /\ MayRaise /\ pc[t] = "leave" /\ GilFree /\ pos[t] < Len(Fires)
  /\ pc' = [pc EXCEPT ![t] = "idle"]
  /\ UNCHANGED <<scope, data, mtx, count, fwd, pos, acc, result, apiVars, forwards, ghosts>>

-----------------------------------------------------------------------------
(***************************************************************************)
(* Session calls.  None takes the mutex of a layer, so an access to its    *)
(* vector that meets a hook inside its critical section is a data race:    *)
(* its outcome is the access's own effect or none.                         *)
(***************************************************************************)
Raced(k) == mtx[k] # NoOne

BeginCall(op, ks) ==
  /\ GilFree /\ calls < MaxCalls /\ (Overlap \/ Quiet)
  /\ api' = op /\ todo' = ks /\ calls' = calls + 1
  /\ UNCHANGED <<scope, data, mtx, count, threadVars, forwards, ghosts>>

BeginClear    == "clear" \in Calls[scope] /\ BeginCall("clear", Keys)
BeginReadback == "readback" \in Calls[scope] /\ BeginCall("readback", Keys)
BeginInitAccumulator(k) == "init" \in Calls[scope] /\ BeginCall("init", {k})

\* One round of a call's loop: its next phase once every key is visited.
Visited(k, next, nextKeys) ==
  /\ k \in todo
  /\ api' = IF todo = {k} THEN next ELSE api
  /\ todo' = IF todo = {k} THEN nextKeys ELSE todo \ {k}
  /\ UNCHANGED <<scope, calls, mtx, threadVars, forwards>>

\* The ghosts of the captures start over with an emptied accumulator.
Forget(k) ==
  /\ admitted' = [admitted EXCEPT ![k] = {}]
  /\ raised' = [raised EXCEPT ![k] = {}]

\* session_clear, first loop: accum->data.clear().
ClearAccum(k) ==
  /\ api = "clear" /\ Visited(k, "reset", Keys)
  /\ \E after \in {<<>>} \cup IF Raced(k) THEN {data[k]} ELSE {} :
       data' = [data EXCEPT ![k] = after]
  /\ Forget(k) /\ seeded' = seeded \ {k}
  /\ UNCHANGED count

\* Seeded fault: clear() leaves the counters alone.
ResetCounterNot(k) ==
  /\ api = "reset" /\ Visited(k, "idle", {})
  /\ UNCHANGED <<data, count, ghosts>>

\* session_clear, second loop: cfg->counter.reset().
ResetCounter(k) ==
  /\ api = "reset" /\ Visited(k, "idle", {})
  /\ count' = [count EXCEPT ![k] = 0]
  /\ UNCHANGED <<data, ghosts>>

\* session_readback: a copy of the vector, which nothing later depends on.
ReadbackAccum(k) ==
  /\ api = "readback" /\ Visited(k, "idle", {})
  /\ UNCHANGED <<data, count, ghosts>>

\* Seeded fault: the vector is cleared after the append, and the seed is lost.
InitAccumulatorEmpty(k) ==
  /\ api = "init" /\ Visited(k, "idle", {})
  /\ data' = [data EXCEPT ![k] = <<>>]
  /\ Forget(k) /\ seeded' = seeded \cup {k}
  /\ UNCHANGED count

\* Seeded fault: the seed is appended to what is there.
InitAccumulatorAfter(k) ==
  /\ api = "init" /\ Visited(k, "idle", {})
  /\ data' = [data EXCEPT ![k] = Append(@, <<Seed>>)]
  /\ seeded' = seeded \cup {k}
  /\ UNCHANGED <<count, admitted, raised>>

\* session_init_accumulator: clear, then append the seed; the counter stays.
InitAccumulator(k) ==
  /\ api = "init" /\ Visited(k, "idle", {})
  /\ \E after \in {<< <<Seed>> >>} \cup IF Raced(k) THEN {data[k]} ELSE {} :
       data' = [data EXCEPT ![k] = after]
  /\ Forget(k) /\ seeded' = seeded \cup {k}
  /\ UNCHANGED count

-----------------------------------------------------------------------------
HookStep(t) ==
  \/ ShouldCapture(t) \/ LockLoad(t) \/ Load(t) \/ Reduce(t) \/ ReduceRaises(t)
  \/ LockStore(t) \/ Store(t) \/ LeaveHook(t) \/ ForwardRaises(t)

CallStep ==
  \E k \in Keys : \/ ClearAccum(k) \/ ResetCounter(k)
                  \/ ReadbackAccum(k) \/ InitAccumulator(k)

BeginSomeCall ==
  BeginClear \/ BeginReadback \/ \E k \in Keys : BeginInitAccumulator(k)

\* The program has run all its forward passes and is back in Python.
Finished ==
  Quiet /\ GilFree /\ forwards = MaxForwards[scope] /\ UNCHANGED vars

Next ==
  \/ \E t \in Threads : StartForward(t) \/ HookStep(t)
  \/ BeginSomeCall
  \/ CallStep
  \/ Finished

\* Every thread that is inside a hook is scheduled and std::mutex lets one
\* waiter in; a session call returns.  Nothing obliges the program to begin
\* a forward pass or a call.
Fairness ==
  /\ \A t \in Threads : WF_vars(HookStep(t))
  /\ WF_vars(CallStep)

Spec == Init /\ [][Next]_vars /\ Fairness

-----------------------------------------------------------------------------
PCs == {"idle", "policy", "lock_load", "load", "reduce", "lock_store",
        "store", "leave"}
Phases == {"idle", "clear", "reset", "readback", "init"}

\* Every variable has its type.
TypeOK ==
  /\ scope \in Scope
  /\ data \in [Keys -> Seq(Tensor)]
  /\ mtx \in [Keys -> Threads \cup {NoOne}]
  /\ count \in [Keys -> Nat]
  /\ pc \in [Threads -> PCs]
  /\ fwd \in [Threads -> Nat]
  /\ pos \in [Threads -> 1..Len(Fires)]
  /\ acc \in [Threads -> Tensor]
  /\ result \in [Threads -> Tensor]
  /\ api \in Phases /\ todo \subseteq Keys /\ calls \in Nat
  /\ forwards \in Nat
  /\ admitted \in [Keys -> SUBSET Fire]
  /\ raised \in [Keys -> SUBSET Fire]
  /\ seeded \subseteq Keys

-----------------------------------------------------------------------------
(***************************************************************************)
(* Safety.                                                                 *)
(***************************************************************************)

\* The fires whose activations a vector holds, folded or not.
Captures(vec) == (UNION {Range(vec[i]) : i \in DOMAIN vec}) \ {Seed}
Held(k) == Captures(data[k])

\* The fires on k that were admitted and are still on their way to the store.
InHook == {"lock_load", "load", "reduce", "lock_store", "store"}
OnTheWay(k) == {FireOf(t) : t \in {u \in Threads : pc[u] \in InHook /\ KeyOf(u) = k}}

AtRest == Quiet /\ GilFree

\* The layers that keep every capture of theirs.
KeepsAll(k) == k \notin scope.reduced /\ scope.reductionPolicy # "FINAL_ONLY"

\* Two threads never touch the vector of one layer at the same time: every
\* access of a hook lies between lock and unlock of accum->mtx.
HooksRaceFree ==
  \A t, u \in Threads :
    t # u /\ pc[t] = "store" /\ pc[u] \in {"load", "store"} => KeyOf(t) # KeyOf(u)

\* No session call is about to touch a vector that a hook is touching: a
\* write on either side while both accesses are open is a data race.
CallsRaceFree ==
  \A t \in Threads :
    /\ pc[t] = "store" /\ api \in {"clear", "readback", "init"} => KeyOf(t) \notin todo
    /\ pc[t] = "load" /\ api \in {"clear", "init"} => KeyOf(t) \notin todo

\* MAX_K is a memory bound: at no moment does an accumulator hold, or have
\* folded into it, more than max_batches activations, however many threads
\* run the model and however the scope is cleared in between.
MaxKBound ==
  cfg.policy = "MAX_K" => \A k \in Keys : Cardinality(Held(k)) <= cfg.maxBatches

\* Keeping everything loses nothing: the activations admitted since the
\* program last emptied the accumulator are exactly those in the vector and
\* those on their way to it, and none is both.
NothingLost ==
  \A k \in Keys : KeepsAll(k) =>
    /\ Held(k) \cap OnTheWay(k) = {}
    /\ admitted[k] = Held(k) \cup OnTheWay(k)

\* Nor does it store one activation twice.
Seeds(k) == {i \in DOMAIN data[k] : data[k][i] = <<Seed>>}
StoredOnce ==
  \A k \in Keys : KeepsAll(k) =>
    Len(data[k]) = Cardinality(Held(k)) + Cardinality(Seeds(k))

\* One thread runs the model, so fires happen one after another.
Serial == Cardinality(Crew[scope]) <= 1

\* The order in which one thread's fires happen.
Before(c, d) == c[1] < d[1] \/ (c[1] = d[1] /\ c[2] < d[2])

\* What a reduction of k has to fold: every admitted activation, save those it
\* raised on, and the seed if the program stored one since the last clear.
ToFold(k) == (admitted[k] \ raised[k]) \cup (IF k \in seeded THEN {Seed} ELSE {})

\* A reduction folds exactly that, each once and in order, the seed first: at
\* rest the accumulator is one tensor, the fold of it all, or is empty if there
\* is nothing to fold.
FoldExact ==
  AtRest => \A k \in scope.reduced :
    /\ Len(data[k]) = IF ToFold(k) = {} THEN 0 ELSE 1
    /\ \A i \in DOMAIN data[k] :
         LET fold == data[k][i] IN
         /\ Range(fold) = ToFold(k)
         /\ \A j \in 1 .. Len(fold) - 1 : Before(fold[j], fold[j + 1])

\* The captures of a layer that keeps them all, in their stored order, are in
\* the order of the forward passes.
InOrder ==
  Serial => \A k \in Keys : KeepsAll(k) =>
    \A i \in 1 .. Len(data[k]) - 1 : Before(data[k][i][1], data[k][i + 1][1])

\* FINAL_ONLY without a reduction keeps the activation of the last admitted
\* fire and no other, as policies.py:34 says.
FinalIsLatest ==
  Serial /\ scope.reductionPolicy = "FINAL_ONLY" /\ AtRest =>
    \A k \in Keys \ scope.reduced :
      IF admitted[k] = {} THEN Held(k) = {}
      ELSE \E c \in admitted[k] : /\ data[k] = << <<c>> >>
                              /\ \A d \in admitted[k] : ~ Before(c, d)

\* "Without a reduction, [STREAMING and FINAL_ONLY] behave identically to
\* `STORE_ALL`" (docs/DESIGN.md:351): a key with no reduction keeps every
\* activation admitted.  hook_callback does not: FINAL_ONLY keeps the newest.
UnreducedKeepAll ==
  \A k \in Keys \ scope.reduced : admitted[k] = Held(k) \cup OnTheWay(k)

\* SAMPLE_N captures one fire in sample_every, whichever threads they come
\* from and whatever was cleared: at rest a vector that was not re-seeded is
\* as long as the counter says.
SampleExact ==
  cfg.policy = "SAMPLE_N" /\ AtRest =>
    \A k \in Keys : KeepsAll(k) /\ Seeds(k) = {} =>
      Len(data[k]) = count[k] \div cfg.sampleEvery

\* Layers that saw the same number of fires since they were cleared have the
\* same rows: row i of one and row i of the other come from one forward pass.
Aligned ==
  Serial /\ AtRest => \A k, l \in {m \in Keys : KeepsAll(m) /\ Seeds(m) = {}} :
    count[k] = count[l] /\ Len(data[k]) = Len(data[l]) =>
      \A i \in DOMAIN data[k] : data[k][i][1][1] = data[l][i][1][1]

(***************************************************************************)
(* Action properties.                                                      *)
(***************************************************************************)

\* A hook never takes away what an earlier one stored: only a session call
\* removes a capture from a layer that keeps all or reduces.
HooksOnlyAdd ==
  [][ \A k \in Keys : (KeepsAll(k) \/ k \in scope.reduced) /\ api = "idle" =>
        Held(k) \subseteq Held(k)' ]_vars

(***************************************************************************)
(* Refinement.  What Python may rely on is the log of ActivationLog: a     *)
(* clear takes effect when it begins, a store when it is done.             *)
(***************************************************************************)
VisibleLog   == [k \in Keys |-> IF api = "clear" THEN <<>> ELSE data[k]]
VisibleCount == [k \in Keys |-> IF api \in {"clear", "reset"} THEN 0 ELSE count[k]]
VisibleWay   == [k \in Keys |-> OnTheWay(k)]
Passes       == UNION {1 .. MaxForwards[s] : s \in Scopes}
Activations  == Passes \X (1 .. Len(Fires))

Log == INSTANCE ActivationLog
         WITH log <- VisibleLog, count <- VisibleCount, onWay <- VisibleWay

\* Locks, phases and interleavings cannot be seen from outside: every step of
\* hook_callback and of the session calls fires, delivers, drops, clears or
\* seeds as a whole, or does nothing a reader could notice.
ImplementsLog == Log!Spec

(***************************************************************************)
(* Liveness.                                                               *)
(***************************************************************************)

\* A forward pass is never stuck in a hook: neither another thread, which may
\* hold the layer's mutex, nor a session call, which holds the GIL, keeps it
\* there.
ForwardsReturn == \A t \in Threads : pc[t] # "idle" ~> pc[t] = "idle"
=============================================================================
