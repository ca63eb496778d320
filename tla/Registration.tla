---------------------------- MODULE Registration ----------------------------
(***************************************************************************)
(* What a scope hooks and with which reduction: register_reduction() and   *)
(* the temporary files it writes, attach() with its choice of layers and   *)
(* of a reduction for each, and the per-key state session_register_hooks   *)
(* sets up and session_init_accumulator seeds (activationscope/tracker.py, *)
(* activationscope/utils.py, csrc/session.cpp, csrc/hook_register.cpp).    *)
(*                                                                         *)
(* One thread uses the scope.  A key is <<layer, "output">> or             *)
(* <<layer, "input">>, the ".output" and ".input" suffixes; <<layer,       *)
(* "bare">> is the layer's name as it stands.                              *)
(***************************************************************************)
EXTENDS Integers, Sequences, FiniteSets, SequencesExt

CONSTANTS
  Models,        \* the models: their layers in named_modules order, and
                 \* whether they have no submodule at all
  Names,         \* the layer names
  Root,          \* the empty name, under which a model is hooked itself
  Patterns,      \* glob patterns
  NameMatches,   \* the names each pattern matches
  TypeMatches,   \* the layers each pattern selects by the name of their type
  Fns,           \* the reductions the program may register
  PatternLists,  \* the layers= arguments of register_reduction
  Filters,       \* the include and exclude arguments of attach, as sets
  Captures,      \* its capture argument: "output", "input" or "both"
  SeedKinds,     \* which keys the program seeds: "bare", "output", "input"
  MayFail,       \* may compiling, saving or finding a reduction's file fail?
  MaxFiles, MaxAttaches, MaxSeeds   \* bounds

Kinds  == {"output", "input", "bare"}
Keys   == Names \X Kinds

ASSUME RegistrationAssumption ==
  /\ Root \in Names
  /\ \A m \in Models : m.layers \in Seq(Names \ {Root}) /\ m.leaf \in BOOLEAN
  /\ NameMatches \in [Patterns -> SUBSET Names]
  /\ TypeMatches \in [Patterns -> SUBSET Names]
  /\ PatternLists \subseteq Seq(Patterns)
  /\ \A f \in Filters : f.include \subseteq Patterns /\ f.exclude \subseteq Patterns
  /\ Captures \subseteq {"output", "input", "both"}
  /\ SeedKinds \subseteq Kinds /\ MayFail \in BOOLEAN
  /\ "identity" \notin Fns /\ "absent" \notin Fns
  /\ MaxFiles \in Nat /\ MaxAttaches \in Nat /\ MaxSeeds \in Nat

VARIABLES
  model,      \* the model
  alive,      \* has the scope a session?
  global,     \* _global_reduction_path, 0 for None
  perLayer,   \* _reductions: a sequence of <<path, pattern>>
  temp,       \* _temp_files
  disk,       \* the .pt files that exist
  fnOf,       \* the reduction in each .pt file ever made
  op,         \* the call in progress, "idle" if none
  fn,         \* the reduction being registered
  targets,    \* the patterns it has still to be exported for
  todo,       \* the keys the attach in progress has still to register
  config,     \* layer_configs: the reduction of each key, "absent" without one
  accum,      \* accum_data: the accumulator of each key, 0 without one
  store,      \* what each accumulator ever made holds
  hooks,      \* the hooks on the model: their keys and accumulators
  attaches, seeds,   \* attach() and session_init_accumulator calls made
  want,       \* ghost: the keys asked for by the attaches that returned and
              \* were not detached
  asked,      \* ghost: the reduction of each key by the rule of precedence
  seeded,     \* ghost: the keys seeded since the last clear, before any hook of
              \* their layer fired
  leaked      \* ghost: the files a failed save left behind

pathVars == <<global, perLayer, temp, disk, fnOf>>
keyVars  == <<config, accum, store, hooks>>
ghosts   == <<want, asked, seeded, leaked>>
callVars == <<op, fn, targets, todo>>
vars == <<model, alive, pathVars, callVars, keyVars, attaches, seeds, ghosts>>

Init ==
  /\ model \in Models /\ alive = TRUE
  /\ global = 0 /\ perLayer = <<>> /\ temp = {} /\ disk = {} /\ fnOf = <<>>
  /\ op = "idle" /\ todo = <<>> /\ targets = <<>> /\ fn = "identity"
  /\ config = [k \in Keys |-> "absent"] /\ accum = [k \in Keys |-> 0]
  /\ store = <<>> /\ hooks = <<>> /\ attaches = 0 /\ seeds = 0
  /\ want = {} /\ asked = [k \in Keys |-> "absent"] /\ seeded = {} /\ leaked = {}

Idle == op = "idle" /\ alive

-----------------------------------------------------------------------------
(***************************************************************************)
(* register_reduction(): one file per pattern, or one for the global       *)
(* default, whose "pattern" is None.                                       *)
(***************************************************************************)
BeginRegister(f, patterns) ==
  /\ Idle /\ Len(fnOf) + Len(patterns) <= MaxFiles
  /\ op' = "register" /\ fn' = f /\ targets' = patterns
  /\ UNCHANGED <<model, alive, pathVars, todo, keyVars, attaches, seeds, ghosts>>

RegisterGlobal(f)     == BeginRegister(f, <<"None">>)
RegisterLayers(f, ps) == BeginRegister(f, ps)

\* Seeded fault: only the file of the global default is noted for deletion.
ExportGlobalNoted ==
  LET path == Len(fnOf) + 1 IN
  /\ op = "register" /\ targets # <<>>
  /\ fnOf' = Append(fnOf, fn) /\ disk' = disk \cup {path}
  /\ IF Head(targets) = "None"
     THEN global' = path /\ temp' = temp \cup {path} /\ UNCHANGED perLayer
     ELSE perLayer' = Append(perLayer, <<path, Head(targets)>>) /\ UNCHANGED <<global, temp>>
  /\ targets' = Tail(targets)
  /\ UNCHANGED <<model, alive, op, fn, todo, keyVars, attaches, seeds, ghosts>>

\* export_reduction: compile, mkstemp, save; then the scope notes the path.
Export ==
  LET path == Len(fnOf) + 1 IN
  /\ op = "register" /\ targets # <<>>
  /\ fnOf' = Append(fnOf, fn) /\ disk' = disk \cup {path}
  /\ temp' = temp \cup {path}
  /\ IF Head(targets) = "None"
     THEN global' = path /\ UNCHANGED perLayer
     ELSE perLayer' = Append(perLayer, <<path, Head(targets)>>) /\ UNCHANGED global
  /\ targets' = Tail(targets)
  /\ UNCHANGED <<model, alive, op, fn, todo, keyVars, attaches, seeds, ghosts>>

\* torch.jit.script raises: nothing was written for this pattern.
CompileRaises ==
  /\ MayFail /\ op = "register" /\ targets # <<>>
  /\ op' = "idle" /\ targets' = <<>>
  /\ UNCHANGED <<model, alive, pathVars, fn, todo, keyVars, attaches, seeds, ghosts>>

\* save() raises after mkstemp: the file stays, unknown to the scope.
SaveRaises ==
  LET path == Len(fnOf) + 1 IN
  /\ MayFail /\ op = "register" /\ targets # <<>>
  /\ fnOf' = Append(fnOf, fn) /\ disk' = disk \cup {path} /\ leaked' = leaked \cup {path}
  /\ op' = "idle" /\ targets' = <<>>
  /\ UNCHANGED <<model, alive, global, perLayer, temp, fn, todo, keyVars, attaches, seeds,
                 want, asked, seeded>>

RegisterReturns ==
  /\ op = "register" /\ targets = <<>>
  /\ op' = "idle"
  /\ UNCHANGED <<model, alive, pathVars, fn, targets, todo, keyVars, attaches, seeds, ghosts>>

\* Something else deletes a file of the temporary directory.
FileVanishes(path) ==
  /\ MayFail /\ Idle /\ path \in disk
  /\ disk' = disk \ {path}
  /\ UNCHANGED <<model, alive, global, perLayer, temp, fnOf, callVars, keyVars, attaches,
                 seeds, ghosts>>

-----------------------------------------------------------------------------
(***************************************************************************)
(* attach()                                                                *)
(***************************************************************************)
Chosen(l, patterns) == \E p \in patterns : l \in NameMatches[p] \cup TypeMatches[p]

\* select_layers: no include pattern selects all; a model without submodules
\* is hooked itself when nothing else is, whatever the patterns.
SelectLayers(filter) ==
  LET wanted == {l \in Names : /\ filter.include = {} \/ Chosen(l, filter.include)
                               /\ ~ Chosen(l, filter.exclude)}
      Keep(found, l) == IF l \in wanted THEN Append(found, l) ELSE found
      selected == FoldLeft(Keep, <<>>, model.layers)
  IN  IF selected = <<>> /\ model.leaf THEN <<Root>> ELSE selected

\* Seeded fault: the scan stops at the first registration that does not match.
ResolvePathNoScan(l) ==
  IF perLayer # <<>> /\ l \in NameMatches[perLayer[1][2]] THEN perLayer[1][1] ELSE global

\* attach()'s scan of _reductions: it stops once the path differs from the
\* global default.  Only names are matched, not types.
ResolvePath(l) ==
  LET Scan(path, entry) == IF path # global THEN path
                           ELSE IF l \in NameMatches[entry[2]] THEN entry[1]
                           ELSE path
  IN  FoldLeft(Scan, global, perLayer)

\* Seeded fault: an else-if leaves out the input hook of "both".
KeysOfFirst(l, capture) ==
  IF capture = "input" THEN << <<l, "input">> >> ELSE << <<l, "output">> >>

\* The keys session_register_hooks sets up for a layer, in its order.
KeysOf(l, capture) ==
  (IF capture \in {"output", "both"} THEN << <<l, "output">> >> ELSE <<>>)
  \o (IF capture \in {"input", "both"} THEN << <<l, "input">> >> ELSE <<>>)

BeginAttach(filter, capture) ==
  LET layers == SelectLayers(filter) IN
  /\ Idle /\ attaches < MaxAttaches
  /\ attaches' = attaches + 1
  /\ op' = "attach"
  /\ todo' = FlattenSeq([i \in DOMAIN layers |-> KeysOf(layers[i], capture)])
  /\ want' = want \cup {<<l, d>> : l \in Range(layers),
                                   d \in {"output", "input"} \cap
                                         (IF capture = "both" THEN Kinds ELSE {capture})}
  /\ UNCHANGED <<model, alive, pathVars, fn, targets, keyVars, seeds, asked, seeded, leaked>>

\* The rule of precedence: the earliest per-layer registration that matches,
\* else the global default, else none.
Precedence(l) ==
  LET hits == {i \in DOMAIN perLayer : l \in NameMatches[perLayer[i][2]]} IN
  IF hits # {} THEN fnOf[perLayer[CHOOSE i \in hits : \A j \in hits : i <= j][1]]
  ELSE IF global # 0 THEN fnOf[global]
  ELSE "identity"

\* Seeded fault: make_accum makes a new accumulator every time.
RegisterKeyAnew ==
  LET k == Head(todo)
      path == ResolvePath(k[1])
      id == Len(store) + 1 IN
  /\ op = "attach" /\ todo # <<>> /\ (path = 0 \/ path \in disk)
  /\ config' = [config EXCEPT ![k] = IF path # 0 THEN fnOf[path]
                                     ELSE IF @ = "absent" THEN "identity" ELSE @]
  /\ accum' = [accum EXCEPT ![k] = id] /\ store' = Append(store, "empty")
  /\ hooks' = Append(hooks, [key |-> k, accum |-> id])
  /\ asked' = [asked EXCEPT ![k] = Precedence(k[1])]
  /\ todo' = Tail(todo)
  /\ UNCHANGED <<model, alive, pathVars, op, fn, targets, attaches, seeds, want, seeded, leaked>>

\* session_register_hooks for one key: make_config loads the reduction if a
\* path came with it, make_accum reuses the key's accumulator or makes one,
\* and the hook is installed with both.
RegisterKey ==
  LET k == Head(todo)
      path == ResolvePath(k[1])
      id == IF accum[k] # 0 THEN accum[k] ELSE Len(store) + 1 IN
  /\ op = "attach" /\ todo # <<>> /\ (path = 0 \/ path \in disk)
  /\ config' = [config EXCEPT ![k] = IF path # 0 THEN fnOf[path]
                                     ELSE IF @ = "absent" THEN "identity" ELSE @]
  /\ accum' = [accum EXCEPT ![k] = id]
  /\ store' = IF id > Len(store) THEN Append(store, "empty") ELSE store
  /\ hooks' = Append(hooks, [key |-> k, accum |-> id])
  /\ asked' = [asked EXCEPT ![k] = Precedence(k[1])]
  /\ todo' = Tail(todo)
  /\ UNCHANGED <<model, alive, pathVars, op, fn, targets, attaches, seeds, want, seeded, leaked>>

\* torch::jit::load raises on a file that is gone: the key has a config by
\* now, and attach() leaves the hooks of the earlier keys on.
LoadRaises ==
  LET k == Head(todo)
      path == ResolvePath(k[1]) IN
  /\ op = "attach" /\ todo # <<>> /\ path # 0 /\ path \notin disk
  /\ config' = [config EXCEPT ![k] = IF @ = "absent" THEN "identity" ELSE @]
  /\ asked' = [asked EXCEPT ![k] = IF @ = "absent" THEN "identity" ELSE @]
  /\ want' = {hooks[i].key : i \in DOMAIN hooks}
  /\ op' = "idle" /\ todo' = <<>>
  /\ UNCHANGED <<model, alive, pathVars, fn, targets, accum, store, hooks, attaches, seeds, seeded,
                 leaked>>

AttachReturns ==
  /\ op = "attach" /\ todo = <<>>
  /\ op' = "idle"
  /\ UNCHANGED <<model, alive, pathVars, fn, targets, todo, keyVars, attaches, seeds, ghosts>>

-----------------------------------------------------------------------------
(***************************************************************************)
(* The other calls, and a forward pass.                                    *)
(***************************************************************************)

\* A forward pass fires every hook: its reduction folds the activation into
\* the accumulator it was installed with, or the activation is stored as it is.
Forward ==
  LET Fired(id) == {hooks[i].key : i \in {j \in DOMAIN hooks : hooks[j].accum = id}}
      After(id) == IF \E k \in Fired(id) : config[k] = "identity" THEN "captures"
                   ELSE IF store[id] = "seed" THEN "fold of seed"
                   ELSE IF store[id] = "empty" THEN "fold"
                   ELSE store[id] IN
  /\ Idle /\ hooks # <<>>
  /\ store' = [id \in DOMAIN store |-> IF Fired(id) = {} THEN store[id] ELSE After(id)]
  /\ UNCHANGED <<model, alive, pathVars, callVars, config, accum, hooks, attaches, seeds,
                 ghosts>>

\* Seeded fault: the entry accum_data[] makes for a new key is left null.
InitAccumulatorNull(k) ==
  LET id == IF accum[k] # 0 THEN accum[k] ELSE Len(store) + 1 IN
  /\ Idle /\ k[2] \in SeedKinds /\ seeds < MaxSeeds /\ k[1] \in Range(model.layers)
  /\ seeds' = seeds + 1
  /\ accum' = [accum EXCEPT ![k] = id]
  /\ store' = IF id > Len(store) THEN store ELSE [store EXCEPT ![id] = "seed"]
  /\ UNCHANGED <<model, alive, pathVars, callVars, config, hooks, attaches, want, asked,
                 seeded, leaked>>

\* session_init_accumulator: the seed replaces what the key's accumulator holds.
InitAccumulator(k) ==
  LET id == IF accum[k] # 0 THEN accum[k] ELSE Len(store) + 1 IN
  /\ Idle /\ k[2] \in SeedKinds /\ seeds < MaxSeeds /\ k[1] \in Range(model.layers)
  /\ seeds' = seeds + 1
  /\ accum' = [accum EXCEPT ![k] = id]
  /\ store' = IF id > Len(store) THEN Append(store, "seed") ELSE [store EXCEPT ![id] = "seed"]
  /\ seeded' = IF \A i \in DOMAIN hooks : hooks[i].key[1] = k[1] => store[hooks[i].accum] = "empty"
               THEN seeded \cup {k} ELSE seeded
  /\ UNCHANGED <<model, alive, pathVars, callVars, config, hooks, attaches, want, asked,
                 leaked>>

\* clear()
Clear ==
  /\ Idle /\ store' = [i \in DOMAIN store |-> "empty"] /\ seeded' = {}
  /\ UNCHANGED <<model, alive, pathVars, callVars, config, accum, hooks, attaches, seeds,
                 want, asked, leaked>>

\* The exit of track().
Detach ==
  /\ Idle /\ hooks' = <<>> /\ want' = {}
  /\ UNCHANGED <<model, alive, pathVars, callVars, config, accum, store, attaches, seeds,
                 asked, seeded, leaked>>

\* remove(): session_destroy, then the temporary files are unlinked.
Destroy ==
  /\ Idle
  /\ alive' = FALSE
  /\ hooks' = <<>> /\ want' = {} /\ store' = [i \in DOMAIN store |-> "empty"]
  /\ disk' = disk \ temp /\ temp' = {}
  /\ UNCHANGED <<model, global, perLayer, fnOf, callVars, config, accum, attaches, seeds,
                 asked, seeded, leaked>>

\* A removed scope raises whatever is asked of it, and the program may stop.
Finished == op = "idle" /\ UNCHANGED vars

Next ==
  \/ \E f \in Fns : RegisterGlobal(f) \/ \E ps \in PatternLists : RegisterLayers(f, ps)
  \/ Export \/ CompileRaises \/ SaveRaises \/ RegisterReturns
  \/ \E path \in disk : FileVanishes(path)
  \/ \E f \in Filters, c \in Captures : BeginAttach(f, c)
  \/ RegisterKey \/ LoadRaises \/ AttachReturns
  \/ Forward
  \/ \E k \in Keys : InitAccumulator(k)
  \/ Clear \/ Detach \/ Destroy \/ Finished

Spec == Init /\ [][Next]_vars

-----------------------------------------------------------------------------
Contents == {"empty", "seed", "captures", "fold", "fold of seed"}

\* Every variable has its type.
TypeOK ==
  /\ model \in Models /\ alive \in BOOLEAN
  /\ global \in 0 .. Len(fnOf) /\ perLayer \in Seq((1 .. Len(fnOf)) \X Patterns)
  /\ temp \subseteq 1 .. Len(fnOf) /\ disk \subseteq 1 .. Len(fnOf) /\ fnOf \in Seq(Fns)
  /\ op \in {"idle", "register", "attach"} /\ todo \in Seq(Keys) /\ targets \in Seq(Patterns \cup {"None"})
  /\ fn \in Fns \cup {"identity"}
  /\ config \in [Keys -> Fns \cup {"identity", "absent"}]
  /\ accum \in [Keys -> 0 .. Len(store)] /\ store \in Seq(Contents)
  /\ hooks \in Seq([key : Keys, accum : 1 .. Len(store)])
  /\ attaches \in Nat /\ seeds \in Nat
  /\ want \subseteq Keys /\ seeded \subseteq Keys /\ leaked \subseteq 1 .. Len(fnOf)
  /\ asked \in [Keys -> Fns \cup {"identity", "absent"}]

\* Every key runs the reduction that the rule of precedence gave it when it was
\* last registered, although a config keeps its reduction when no path comes
\* and later registrations change what the rule would say now.
ResolvedAtAttach == \A k \in Keys : config[k] = asked[k]

\* All hooks of a key, however often it was attached, share one accumulator,
\* the one clear(), readback and the seed work on.
SharedAccumulator ==
  \A i \in DOMAIN hooks : accum[hooks[i].key] = hooks[i].accum

\* After an attach has returned or raised, exactly the keys asked for, or set
\* up before it raised, are hooked.
Covered == op = "idle" => {hooks[i].key : i \in DOMAIN hooks} = want

\* Every .pt file on the disk is one the scope will delete, or was left by a
\* save that failed; a removed scope leaves no other.
TempFilesTracked == disk \subseteq temp \cup leaked

\* A seed written for a layer is what the reductions of its hooks start from.
SeedSeen ==
  \A i \in DOMAIN hooks :
    LET k == hooks[i].key IN
    k \in seeded \/ <<k[1], "bare">> \in seeded => store[hooks[i].accum] # "fold"
=============================================================================
