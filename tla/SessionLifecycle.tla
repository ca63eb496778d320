-------------------------- MODULE SessionLifecycle --------------------------
(***************************************************************************)
(* The life of ActivationScope objects and of the C++ sessions behind      *)
(* them: the global registry, the hooks a session installs on modules, the *)
(* handles it keeps to take them off, and forward passes that run them     *)
(* (activationscope/tracker.py, csrc/session.cpp, csrc/hook_register.cpp). *)
(*                                                                         *)
(* Every scope is used by a Python thread of its own; other threads run    *)
(* the model.  An action is a stretch of code between two points where the *)
(* GIL can pass to another thread: the C++ calls keep it except where they *)
(* call Python, in register_forward_hook() and in handle.remove(), and a   *)
(* hook gives it up for the whole of hook_callback.                        *)
(***************************************************************************)
EXTENDS Integers, Sequences, FiniteSets, Functions

CONSTANTS
  Scopes,        \* the ActivationScope objects
  Keys,          \* the hook points of the model ("fc1.output", ...)
  Selections,    \* the sequences of keys an attach may register
  Runners,       \* the threads that run model(x)
  Overlap,       \* may a scope attach or be removed while a forward runs?
  MayRaise,      \* may register_hooks raise (an unloadable reduction)?
  MaxAttaches, MaxVisits, MaxDepth  \* bounds: attaches, module calls, nested tracks

ASSUME LifecycleAssumption ==
  /\ IsFiniteSet(Scopes)
  /\ Selections \subseteq Seq(Keys)
  /\ Overlap \in BOOLEAN /\ MayRaise \in BOOLEAN
  /\ MaxAttaches \in Nat /\ MaxVisits \in Nat /\ MaxDepth \in Nat

\* A session id; 0 stands for Python's None.
None == 0

\* A hook on a module: its number, its session, the key it captures.
Hook   == [n : Nat \ {0}, sid : Nat \ {0}, key : Keys]
NoHook == [n |-> 0, sid |-> 0, key |-> "none"]

VARIABLES
  counter,    \* g_session_counter
  registry,   \* the ids in global_registry: the sessions whose state exists
  handles,    \* m_hook_handles of each session
  captured,   \* what each session's accumulators hold: a number of tensors
  hooked,     \* the hooks in the modules' hook dictionaries
  refs,       \* the references C++ owns on the RemovableHandle of each hook
              \* ever installed, in order of installation
  sid,        \* _session_id of each scope
  pc,         \* what each scope's thread is doing
  track,      \* is its attach the one of a track()?
  todo,       \* the keys its attach has still to register
  new,        \* the hook it has installed and not stored yet
  at,         \* its position in the loop over the handles
  depth,      \* the track() blocks it is inside
  pending,    \* the hooks each runner's module call will still run
  inHook,     \* the hook it is in, NoHook if none
  visits,     \* module calls made
  attaches,   \* attach() and track() calls made
  leftOn      \* ghost: what may have left hooks on since the last detach: an
              \* attach(), or an attach that raised

sessionVars == <<counter, registry, handles, captured>>
hookVars    == <<hooked, refs>>
attachVars  == <<track, todo, new>>
scopeVars   == <<sid, pc, attachVars, at, depth, attaches, leftOn>>
runnerVars  == <<pending, inHook, visits>>
vars == <<sessionVars, hookVars, scopeVars, runnerVars>>

Ids == 1 .. Cardinality(Scopes)

Init ==
  /\ counter = 0 /\ registry = {}
  /\ handles = [i \in Ids |-> <<>>] /\ captured = [i \in Ids |-> 0]
  /\ hooked = {} /\ refs = <<>> /\ attaches = 0
  /\ sid = [s \in Scopes |-> None] /\ pc = [s \in Scopes |-> "unborn"]
  /\ track = [s \in Scopes |-> FALSE] /\ todo = [s \in Scopes |-> <<>>]
  /\ new = [s \in Scopes |-> NoHook] /\ at = [s \in Scopes |-> 1]
  /\ depth = [s \in Scopes |-> 0] /\ leftOn = [s \in Scopes |-> {}]
  /\ pending = [r \in Runners |-> {}] /\ inHook = [r \in Runners |-> NoHook]
  /\ visits = 0

-----------------------------------------------------------------------------
OutOfModel(r) == pending[r] = {} /\ inHook[r] = NoHook
NoForward == \A r \in Runners : OutOfModel(r)

\* A careful program attaches and removes scopes between forward passes; it
\* leaves track() blocks whenever it likes.
Careful == Overlap \/ NoForward
Changing == {"attach", "install", "store", "destroy"}
MayVisit == Overlap \/ \A s \in Scopes : pc[s] \notin Changing

(***************************************************************************)
(* Construction.                                                           *)
(***************************************************************************)

\* ActivationScope(...): session_create takes the next id and registers it.
Construct(s) ==
  /\ pc[s] = "unborn"
  /\ counter' = counter + 1
  /\ registry' = registry \cup {counter'}
  /\ sid' = [sid EXCEPT ![s] = counter']
  /\ pc' = [pc EXCEPT ![s] = "idle"]
  /\ UNCHANGED <<handles, captured, hookVars, attachVars, at, depth, attaches, leftOn,
                 runnerVars>>

(***************************************************************************)
(* attach() and the entry of track().                                      *)
(***************************************************************************)
Begin(s) == pc[s] = "idle" /\ sid[s] # None

\* attach(): the layers are selected once, here; a removed scope raises.
BeginAttach(s) ==
  /\ Begin(s) /\ Careful /\ attaches < MaxAttaches
  /\ attaches' = attaches + 1
  /\ \E keys \in Selections : todo' = [todo EXCEPT ![s] = keys]
  /\ track' = [track EXCEPT ![s] = FALSE]
  /\ leftOn' = [leftOn EXCEPT ![s] = @ \cup {"attach"}]
  /\ pc' = [pc EXCEPT ![s] = "attach"]
  /\ UNCHANGED <<sessionVars, hookVars, sid, new, at, depth, runnerVars>>

\* track(): clear(), then the same.
BeginTrack(s) ==
  /\ Begin(s) /\ Careful /\ depth[s] < MaxDepth /\ attaches < MaxAttaches
  /\ attaches' = attaches + 1
  /\ captured' = [captured EXCEPT ![sid[s]] = 0]
  /\ \E keys \in Selections : todo' = [todo EXCEPT ![s] = keys]
  /\ track' = [track EXCEPT ![s] = TRUE]
  /\ pc' = [pc EXCEPT ![s] = "attach"]
  /\ UNCHANGED <<counter, registry, handles, hookVars, sid, new, at, depth, leftOn,
                 runnerVars>>

\* session_register_hooks for the next key: look the session up (the scope
\* still has it), configure the key, and call into Python to install the hook.
Resolve(s) ==
  /\ pc[s] = "attach" /\ todo[s] # <<>>
  /\ pc' = [pc EXCEPT ![s] = "install"]
  /\ UNCHANGED <<sessionVars, hookVars, sid, attachVars, at, depth, attaches, leftOn, runnerVars>>

\* It raises instead: the exception leaves attach() and track() alike, with
\* the hooks of the earlier keys in place.
RegisterRaises(s) ==
  /\ MayRaise /\ pc[s] = "attach" /\ todo[s] # <<>>
  /\ todo' = [todo EXCEPT ![s] = <<>>]
  /\ leftOn' = [leftOn EXCEPT ![s] = @ \cup {"raise"}]
  /\ pc' = [pc EXCEPT ![s] = "idle"]
  /\ UNCHANGED <<sessionVars, hookVars, sid, track, new, at, depth, attaches, runnerVars>>

\* module.register_forward_hook(thunk) returns a new reference to a handle.
Install(s) ==
  LET h == [n |-> Len(refs) + 1, sid |-> sid[s], key |-> Head(todo[s])] IN
  /\ pc[s] = "install"
  /\ hooked' = hooked \cup {h}
  /\ refs' = Append(refs, 1)
  /\ new' = [new EXCEPT ![s] = h]
  /\ pc' = [pc EXCEPT ![s] = "store"]
  /\ UNCHANGED <<sessionVars, sid, track, todo, at, depth, attaches, leftOn, runnerVars>>

\* Seeded fault: the session keeps one handle per layer key.
StoreHandlePerKey(s) ==
  /\ pc[s] = "store"
  /\ handles' = [handles EXCEPT ![sid[s]] =
                   Append(SelectSeq(@, LAMBDA h : h.key # new[s].key), new[s])]
  /\ refs' = [refs EXCEPT ![new[s].n] = @ + 1]
  /\ new' = [new EXCEPT ![s] = NoHook]
  /\ todo' = [todo EXCEPT ![s] = Tail(@)]
  /\ pc' = [pc EXCEPT ![s] = "attach"]
  /\ UNCHANGED <<counter, registry, captured, hooked, sid, track, at, depth, attaches, leftOn,
                 runnerVars>>

\* Seeded fault: the caller takes a reference of its own as well.
StoreHandleTwice(s) ==
  /\ pc[s] = "store"
  /\ handles' = [handles EXCEPT ![sid[s]] = Append(@, new[s])]
  /\ refs' = [refs EXCEPT ![new[s].n] = @ + 2]
  /\ new' = [new EXCEPT ![s] = NoHook]
  /\ todo' = [todo EXCEPT ![s] = Tail(@)]
  /\ pc' = [pc EXCEPT ![s] = "attach"]
  /\ UNCHANGED <<counter, registry, captured, hooked, sid, track, at, depth, attaches, leftOn,
                 runnerVars>>

\* store_hook_handle takes a second reference and keeps the handle.
StoreHandle(s) ==
  /\ pc[s] = "store"
  /\ handles' = [handles EXCEPT ![sid[s]] = Append(@, new[s])]
  /\ refs' = [refs EXCEPT ![new[s].n] = @ + 1]
  /\ new' = [new EXCEPT ![s] = NoHook]
  /\ todo' = [todo EXCEPT ![s] = Tail(@)]
  /\ pc' = [pc EXCEPT ![s] = "attach"]
  /\ UNCHANGED <<counter, registry, captured, hooked, sid, track, at, depth, attaches, leftOn,
                 runnerVars>>

\* attach() returns; track() goes on to its body.
AttachReturns(s) ==
  /\ pc[s] = "attach" /\ todo[s] = <<>>
  /\ depth' = IF track[s] THEN [depth EXCEPT ![s] = @ + 1] ELSE depth
  /\ pc' = [pc EXCEPT ![s] = "idle"]
  /\ UNCHANGED <<sessionVars, hookVars, sid, attachVars, at, attaches, leftOn, runnerVars>>

(***************************************************************************)
(* The exit of track(), and remove().                                      *)
(***************************************************************************)

\* Seeded fault: track() has no finally, and its body may raise.
ExitTrackNoFinally(s) ==
  /\ pc[s] = "idle" /\ depth[s] > 0
  /\ depth' = [depth EXCEPT ![s] = @ - 1]
  /\ UNCHANGED <<pc, at, sessionVars, hookVars, sid, attachVars, attaches, leftOn, runnerVars>>

\* The body ends or raises: session_detach_hooks, unless it removed the scope.
ExitTrack(s) ==
  /\ pc[s] = "idle" /\ depth[s] > 0
  /\ depth' = [depth EXCEPT ![s] = @ - 1]
  /\ IF sid[s] # None
     THEN pc' = [pc EXCEPT ![s] = "detach"] /\ at' = [at EXCEPT ![s] = 1]
     ELSE UNCHANGED <<pc, at>>
  /\ UNCHANGED <<sessionVars, hookVars, sid, attachVars, attaches, leftOn, runnerVars>>

\* remove() or __del__: session_destroy of a scope that has a session.
BeginRemove(s) ==
  /\ Begin(s) /\ Careful
  /\ pc' = [pc EXCEPT ![s] = "destroy"]
  /\ at' = [at EXCEPT ![s] = 1]
  /\ UNCHANGED <<sessionVars, hookVars, sid, attachVars, depth, attaches, leftOn, runnerVars>>

\* The loop both share: handle.remove(), then one Py_XDECREF.
RemoveHandle(s) ==
  /\ pc[s] \in {"detach", "destroy"} /\ at[s] <= Len(handles[sid[s]])
  /\ LET h == handles[sid[s]][at[s]] IN
     /\ hooked' = hooked \ {h}
     /\ refs' = [refs EXCEPT ![h.n] = @ - 1]
  /\ at' = [at EXCEPT ![s] = @ + 1]
  /\ UNCHANGED <<sessionVars, sid, pc, attachVars, depth, attaches, leftOn, runnerVars>>

\* Seeded fault: the loop stops one handle short.
LoopDoneEarly(s, op) == pc[s] = op /\ at[s] >= Len(handles[sid[s]])

LoopDone(s, op) == pc[s] = op /\ at[s] > Len(handles[sid[s]])

\* Seeded fault: the handles are kept in one list for all sessions.
DetachReturnsForAll(s) ==
  /\ LoopDone(s, "detach")
  /\ handles' = [i \in Ids |-> <<>>]
  /\ leftOn' = [leftOn EXCEPT ![s] = {}]
  /\ pc' = [pc EXCEPT ![s] = "idle"]
  /\ UNCHANGED <<counter, registry, captured, hookVars, sid, attachVars, at, depth,
                 attaches, runnerVars>>


DetachReturns(s) ==
  /\ LoopDone(s, "detach")
  /\ handles' = [handles EXCEPT ![sid[s]] = <<>>]
  /\ leftOn' = [leftOn EXCEPT ![s] = {}]
  /\ pc' = [pc EXCEPT ![s] = "idle"]
  /\ UNCHANGED <<counter, registry, captured, hookVars, sid, attachVars, at, depth,
                 attaches, runnerVars>>

\* release() goes on without calling Python: clear the accumulators and the
\* handles; session_destroy erases the registry's entry, which frees the state.
DestroyReturns(s) ==
  /\ LoopDone(s, "destroy")
  /\ handles' = [handles EXCEPT ![sid[s]] = <<>>]
  /\ captured' = [captured EXCEPT ![sid[s]] = 0]
  /\ registry' = registry \ {sid[s]}
  /\ pc' = [pc EXCEPT ![s] = "forget"]
  /\ UNCHANGED <<counter, hookVars, sid, attachVars, at, depth, attaches, leftOn, runnerVars>>

\* Back in remove(): _session_id = None.
Forget(s) ==
  /\ pc[s] = "forget"
  /\ sid' = [sid EXCEPT ![s] = None]
  /\ leftOn' = [leftOn EXCEPT ![s] = {}]
  /\ pc' = [pc EXCEPT ![s] = "idle"]
  /\ UNCHANGED <<sessionVars, hookVars, attachVars, at, depth, attaches, runnerVars>>

(***************************************************************************)
(* Forward passes.                                                         *)
(***************************************************************************)

\* PyTorch calls a module: it takes a snapshot of the module's hooks.
Visit(r, k) ==
  LET snapshot == {h \in hooked : h.key = k} IN
  /\ OutOfModel(r) /\ MayVisit /\ visits < MaxVisits /\ snapshot # {}
  /\ pending' = [pending EXCEPT ![r] = snapshot]
  /\ visits' = visits + 1
  /\ UNCHANGED <<sessionVars, hookVars, scopeVars, inHook>>

\* The next hook of the snapshot, in registration order, enters its thunk,
\* which gives up the GIL and dereferences the session's state.
EnterHook(r) ==
  /\ inHook[r] = NoHook
  /\ \E h \in pending[r] :
       /\ \A g \in pending[r] : h.n <= g.n
       /\ inHook' = [inHook EXCEPT ![r] = h]
       /\ pending' = [pending EXCEPT ![r] = @ \ {h}]
  /\ UNCHANGED <<sessionVars, hookVars, scopeVars, visits>>

\* hook_callback has stored its tensor in the accumulator it shares.
LeaveHook(r) ==
  /\ inHook[r] # NoHook
  /\ captured' = [captured EXCEPT ![inHook[r].sid] = @ + 1]
  /\ inHook' = [inHook EXCEPT ![r] = NoHook]
  /\ UNCHANGED <<counter, registry, handles, hookVars, scopeVars, pending, visits>>

-----------------------------------------------------------------------------
\* The steps of a call in progress, which its thread goes on taking.
ScopeStep(s) ==
  \/ Resolve(s) \/ RegisterRaises(s) \/ Install(s) \/ StoreHandle(s) \/ AttachReturns(s)
  \/ RemoveHandle(s) \/ DetachReturns(s) \/ DestroyReturns(s) \/ Forget(s)

RunnerStep(r) == EnterHook(r) \/ LeaveHook(r)

\* The program may stop, or go on without this library, outside every call.
Finished ==
  NoForward /\ (\A s \in Scopes : pc[s] \in {"unborn", "idle"}) /\ UNCHANGED vars

Next ==
  \/ \E s \in Scopes : \/ Construct(s) \/ BeginAttach(s) \/ BeginTrack(s)
                       \/ ExitTrack(s) \/ BeginRemove(s) \/ ScopeStep(s)
  \/ \E r \in Runners : (\E k \in Keys : Visit(r, k)) \/ RunnerStep(r)
  \/ Finished

Spec == Init /\ [][Next]_vars

-----------------------------------------------------------------------------
PCs == {"unborn", "idle", "attach", "install", "store", "detach", "destroy", "forget"}

\* Every variable has its type; C++ never owns more than two references on a
\* handle.
TypeOK ==
  /\ counter \in 0 .. Cardinality(Scopes) /\ registry \subseteq Ids
  /\ handles \in [Ids -> Seq(Hook)] /\ captured \in [Ids -> Nat]
  /\ hooked \subseteq Hook /\ refs \in Seq(0 .. 2)
  /\ sid \in [Scopes -> Ids \cup {None}] /\ pc \in [Scopes -> PCs]
  /\ track \in [Scopes -> BOOLEAN] /\ todo \in [Scopes -> Seq(Keys)]
  /\ new \in [Scopes -> Hook \cup {NoHook}] /\ at \in [Scopes -> Nat \ {0}]
  /\ depth \in [Scopes -> Nat] /\ attaches \in Nat
  /\ leftOn \in [Scopes -> SUBSET {"attach", "raise"}]
  /\ pending \in [Runners -> SUBSET Hook] /\ inHook \in [Runners -> Hook \cup {NoHook}]
  /\ visits \in Nat

HooksOf(i) == {h \in hooked : h.sid = i}

\* No hook outlives the SessionState its thunk points to: the session of every
\* hook that is installed, due in a module call's snapshot, or running is
\* still in the registry.
StateAlive ==
  /\ \A h \in hooked : h.sid \in registry
  /\ \A r \in Runners : /\ \A h \in pending[r] : h.sid \in registry
                        /\ inHook[r] # NoHook => inHook[r].sid \in registry

\* Every installed hook can be taken off again: its session holds the handle,
\* once, and owns a reference on it, or is about to, whatever raised in between.
NoOrphanHooks ==
  \A h \in hooked :
    /\ refs[h.n] > 0
    /\ \/ \E s \in Scopes : new[s] = h
       \/ Cardinality({j \in DOMAIN handles[h.sid] : handles[h.sid][j] = h}) = 1

\* Out of every track() block a scope has no hook on, unless attach() or an
\* attach that raised left one.
ExitDetaches ==
  \A s \in Scopes : pc[s] = "idle" /\ depth[s] = 0 /\ HooksOf(sid[s]) # {} => leftOn[s] # {}

\* The promise of track(): out of its blocks no hook is on that attach() did
\* not put there.
TrackDetaches ==
  \A s \in Scopes :
    pc[s] = "idle" /\ depth[s] = 0 /\ HooksOf(sid[s]) # {} => "attach" \in leftOn[s]

\* "No leaks: every handle is released before the vector is destroyed."
\* (docs/DESIGN.md:463): C++ owns no reference on a handle that is in no
\* session's vector and not on its way there.
HandlesReleased ==
  \A n \in DOMAIN refs : refs[n] > 0 =>
    \/ \E s \in Scopes : new[s].n = n
    \/ \E i \in Ids : \E j \in DOMAIN handles[i] : handles[i][j].n = n

\* Sessions are isolated: while a scope's own thread stands still, nobody
\* else's step takes its session away, adds or removes a hook or a handle of
\* it, or clears what it captured.
Isolation ==
  [][ \A s \in Scopes :
        sid[s] # None /\ UNCHANGED <<pc[s], at[s], depth[s]>> =>
          /\ sid[s] \in registry => sid[s] \in registry'
          /\ UNCHANGED <<handles[sid[s]], HooksOf(sid[s])>>
          /\ captured'[sid[s]] >= captured[sid[s]] ]_vars
=============================================================================
