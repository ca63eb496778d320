---------------------- MODULE SessionLifecycle_proofs -----------------------
(***************************************************************************)
(* Theorems about SessionLifecycle, for any number of scopes, layers,      *)
(* forward passes and nested blocks.                                       *)
(***************************************************************************)
EXTENDS SessionLifecycle, FiniteSetTheorems, TLAPS

-----------------------------------------------------------------------------
(***************************************************************************)
(* The sessions.  Ids are handed out once, and a scope between its birth   *)
(* and the end of remove() has one of its own, which is in the registry.   *)
(***************************************************************************)
Born == {s \in Scopes : pc[s] # "unborn"}

InLoop(s) == pc[s] \in {"detach", "destroy"}

SessionInv ==
  /\ counter = Cardinality(Born)
  /\ \A s \in Scopes : sid[s] <= counter /\ (pc[s] = "unborn" => sid[s] = None)
  /\ \A s \in Scopes : \A u \in Scopes \ {s} : sid[s] # None => sid[s] # sid[u]
  /\ \A s \in Scopes : sid[s] # None /\ pc[s] # "forget" => sid[s] \in registry
  /\ \A s \in Scopes : pc[s] \notin {"unborn", "idle"} => sid[s] # None
  /\ \A s \in Scopes : pc[s] \in {"install", "store"} => todo[s] # <<>>

(***************************************************************************)
(* The hooks.  Every handle has a number of its own; what is on a module   *)
(* is in the hands of its session, beyond the place its loop has reached.  *)
(***************************************************************************)
Held(s, h) ==
  \/ new[s] = h
  \/ \E j \in DOMAIN handles[h.sid] :
       handles[h.sid][j] = h /\ (InLoop(s) => j >= at[s])

NewInv ==
  \A s \in Scopes :
    /\ pc[s] = "store" <=> new[s] # NoHook
    /\ pc[s] = "store" => /\ new[s].sid = sid[s] /\ new[s].n \in 1 .. Len(refs)
                          /\ refs[new[s].n] = 1

HandlesInv ==
  \A i \in Ids : \A j \in DOMAIN handles[i] :
    /\ handles[i][j].sid = i /\ handles[i][j].n \in 1 .. Len(refs)
    /\ \A k \in Ids : \A l \in DOMAIN handles[k] :
         handles[i][j].n = handles[k][l].n => i = k /\ j = l
    /\ \A s \in Scopes : new[s].n # handles[i][j].n

RefsInv ==
  \A s \in Scopes : sid[s] # None =>
    \A j \in DOMAIN handles[sid[s]] :
      (InLoop(s) => j >= at[s]) => refs[handles[sid[s]][j].n] = 2

HeldInv ==
  /\ \A s, u \in Scopes : new[s] # NoHook /\ new[s].n = new[u].n => s = u
  /\ \A i \in Ids : handles[i] # <<>> => \E s \in Scopes : sid[s] = i /\ pc[s] # "forget"
  /\ \A h \in hooked : \E s \in Scopes : sid[s] = h.sid /\ Held(s, h)

HookInv == NewInv /\ HandlesInv /\ RefsInv /\ HeldInv

LifeInv == TypeOK /\ SessionInv /\ HookInv

LEMMA IdsTyped == Cardinality(Scopes) \in Nat /\ \A i \in Ids : i \in Nat /\ i # 0
BY LifecycleAssumption, FS_CardinalityType DEF Ids

LEMMA LifeInit == Init => LifeInv
<1> SUFFICES ASSUME Init PROVE LifeInv
  OBVIOUS
<1> USE DEF Init, None
<1>1. TypeOK
  BY IdsTyped DEF TypeOK, PCs, Hook
<1>2. SessionInv
  <2>1. Born = {}
    BY DEF Born
  <2>q. QED BY <2>1, FS_EmptySet DEF SessionInv
<1>3. NewInv /\ HandlesInv /\ RefsInv /\ HeldInv
  BY DEF NewInv, HandlesInv, RefsInv, HeldInv
<1>q. QED BY <1>1, <1>2, <1>3 DEF LifeInv, HookInv

-----------------------------------------------------------------------------
(***************************************************************************)
(* The sessions, step by step.                                             *)
(***************************************************************************)

\* Only Construct and Forget change who has which session.
LEMMA SessionStays ==
  ASSUME TypeOK, SessionInv, NEW s \in Scopes, UNCHANGED <<counter, sid>>,
         \A i \in registry : i \in registry' \/ (i = sid[s] /\ pc'[s] = "forget"),
         \A u \in Scopes \ {s} : pc'[u] = pc[u] /\ todo'[u] = todo[u],
         pc[s] # "unborn", pc'[s] # "unborn", sid[s] # None, pc[s] # "forget",
         pc'[s] \in {"install", "store"} => todo'[s] # <<>>
  PROVE  SessionInv'
<1>1. Born' = Born
  BY DEF Born
<1>q. QED BY <1>1 DEF SessionInv

LEMMA ConstructSession ==
  ASSUME TypeOK, SessionInv, NEW s \in Scopes, Construct(s)
  PROVE  SessionInv' /\ counter' \in Ids
<1>1. /\ pc[s] = "unborn" /\ pc' = [pc EXCEPT ![s] = "idle"]
      /\ counter' = counter + 1 /\ registry' = registry \cup {counter'}
      /\ sid' = [sid EXCEPT ![s] = counter'] /\ todo' = todo
  BY DEF Construct, attachVars
<1>2. Born' = Born \cup {s} /\ s \notin Born /\ Born \subseteq Scopes
  BY <1>1 DEF Born, TypeOK
<1>3. IsFiniteSet(Born) /\ Cardinality(Born') = Cardinality(Born) + 1
  BY <1>2, LifecycleAssumption, FS_Subset, FS_AddElement
<1>4. Cardinality(Born') <= Cardinality(Scopes) /\ Cardinality(Born) \in Nat
  BY <1>2, <1>3, LifecycleAssumption, FS_Subset, FS_CardinalityType
<1>5. counter' \in Ids /\ counter \in Nat
  BY <1>1, <1>3, <1>4, IdsTyped DEF SessionInv, Ids
<1>6. counter' = Cardinality(Born)'
  BY <1>1, <1>3 DEF SessionInv
<1>7. \A u \in Scopes \ {s} : sid'[u] = sid[u] /\ pc'[u] = pc[u] /\ sid[u] <= counter
  BY <1>1 DEF SessionInv, TypeOK
<1>8. sid'[s] = counter + 1 /\ pc'[s] = "idle"
  BY <1>1 DEF TypeOK
<1>9. \A u \in Scopes : sid[u] \in Nat /\ sid[u] <= counter
  <2>1. sid \in [Scopes -> Ids \cup {0}]
    BY DEF TypeOK, None
  <2>2. ASSUME NEW u \in Scopes PROVE sid[u] \in Nat
    <3>1. sid[u] \in Ids \/ sid[u] = 0
      BY <2>1
    <3>q. QED BY <3>1, IdsTyped
  <2>q. QED BY <2>2 DEF SessionInv
<1>q. QED BY <1>1, <1>5, <1>6, <1>7, <1>8, <1>9 DEF SessionInv, None

LEMMA ForgetSession ==
  ASSUME TypeOK, SessionInv, NEW s \in Scopes, Forget(s)
  PROVE  SessionInv'
<1>1. /\ pc[s] = "forget" /\ pc' = [pc EXCEPT ![s] = "idle"]
      /\ sid' = [sid EXCEPT ![s] = None] /\ UNCHANGED <<counter, registry, todo>>
  BY DEF Forget, attachVars, sessionVars
<1>2. Born' = Born
  BY <1>1 DEF Born, TypeOK
<1>3. counter \in Nat
  BY IdsTyped DEF TypeOK
<1>4. sid'[s] = 0 /\ pc'[s] = "idle" /\ \A u \in Scopes \ {s} : sid'[u] = sid[u] /\ pc'[u] = pc[u]
  BY <1>1 DEF TypeOK, None
<1>q. QED BY <1>1, <1>2, <1>3, <1>4 DEF SessionInv, None

LEMMA SessionStep ==
  ASSUME TypeOK, SessionInv, [Next]_vars
  PROVE  SessionInv'
<1> USE DEF sessionVars, hookVars, attachVars, scopeVars, runnerVars
<1>1. ASSUME UNCHANGED <<counter, registry, sid, pc, todo>> PROVE SessionInv'
  BY <1>1 DEF SessionInv, Born
<1>2. ASSUME NEW s \in Scopes, BeginAttach(s) \/ BeginTrack(s) PROVE SessionInv'
  BY <1>2, SessionStays DEF BeginAttach, BeginTrack, Begin, TypeOK
<1>3. ASSUME NEW s \in Scopes, Resolve(s) \/ RegisterRaises(s) \/ Install(s) PROVE SessionInv'
  BY <1>3, SessionStays, ZenonT(30) DEF Resolve, RegisterRaises, Install, TypeOK, SessionInv
<1>4. ASSUME NEW s \in Scopes, StoreHandle(s) \/ AttachReturns(s) PROVE SessionInv'
  BY <1>4, SessionStays, ZenonT(30) DEF StoreHandle, AttachReturns, TypeOK, SessionInv
<1>5. ASSUME NEW s \in Scopes, ExitTrack(s) PROVE SessionInv'
  <2>1. CASE sid[s] # None
    BY <1>5, <2>1, SessionStays DEF ExitTrack, TypeOK
  <2>2. CASE sid[s] = None
    BY <1>1, <1>5, <2>2 DEF ExitTrack
  <2>q. QED BY <2>1, <2>2
<1>6. ASSUME NEW s \in Scopes, BeginRemove(s) PROVE SessionInv'
  BY <1>6, SessionStays DEF BeginRemove, Begin, TypeOK
<1>7. ASSUME NEW s \in Scopes, RemoveHandle(s) PROVE SessionInv'
  BY <1>1, <1>7 DEF RemoveHandle
<1>8. ASSUME NEW s \in Scopes, DetachReturns(s) \/ DestroyReturns(s) PROVE SessionInv'
  BY <1>8, SessionStays, ZenonT(30) DEF DetachReturns, DestroyReturns, LoopDone, TypeOK, SessionInv
<1>9. ASSUME NEW r \in Runners, (\E k \in Keys : Visit(r, k)) \/ RunnerStep(r) PROVE SessionInv'
  BY <1>1, <1>9 DEF Visit, RunnerStep, EnterHook, LeaveHook
<1>10. CASE UNCHANGED vars
  BY <1>1, <1>10 DEF vars
<1>q. QED
  BY <1>2, <1>3, <1>4, <1>5, <1>6, <1>7, <1>8, <1>9, <1>10, ConstructSession, ForgetSession
  DEF Next, ScopeStep, Finished

-----------------------------------------------------------------------------
(***************************************************************************)
(* Types.                                                                  *)
(***************************************************************************)
LEMMA InstallTyped ==
  ASSUME TypeOK, SessionInv, NEW s \in Scopes, Install(s)
  PROVE  TypeOK' /\ new'[s] \in Hook /\ new'[s].sid = sid[s] /\ new'[s].n = Len(refs) + 1
<1> DEFINE h == [n |-> Len(refs) + 1, sid |-> sid[s], key |-> Head(todo[s])]
<1>1. /\ pc[s] = "install" /\ pc' = [pc EXCEPT ![s] = "store"]
      /\ hooked' = hooked \cup {h} /\ refs' = Append(refs, 1)
      /\ new' = [new EXCEPT ![s] = h]
      /\ UNCHANGED <<sessionVars, sid, track, todo, at, depth, attaches, leftOn, runnerVars>>
  BY DEF Install
<1>2. sid[s] \in Ids /\ todo[s] # <<>> /\ todo[s] \in Seq(Keys) /\ Len(refs) \in Nat
  <2>1. sid[s] # None /\ todo[s] # <<>>
    BY <1>1 DEF SessionInv
  <2>q. QED BY <2>1 DEF TypeOK
<1>3. h \in Hook
  BY <1>2, IdsTyped DEF Hook
<1>4. refs' \in Seq(0 .. 2)
  BY <1>1 DEF TypeOK
<1>5. new' \in [Scopes -> Hook \cup {NoHook}] /\ hooked' \subseteq Hook /\ new'[s] = h
  BY <1>1, <1>3 DEF TypeOK
<1>6. pc' \in [Scopes -> PCs]
  BY <1>1 DEF TypeOK, PCs
<1>7. TypeOK'
  BY <1>1, <1>4, <1>5, <1>6 DEF TypeOK, sessionVars, runnerVars
<1>q. QED BY <1>3, <1>5, <1>7

LEMMA StoreHandleTyped ==
  ASSUME TypeOK, SessionInv, HookInv, NEW s \in Scopes, StoreHandle(s)
  PROVE  TypeOK' /\ sid[s] \in Ids /\ new[s] \in Hook
<1>1. /\ pc[s] = "store" /\ handles' = [handles EXCEPT ![sid[s]] = Append(@, new[s])]
      /\ refs' = [refs EXCEPT ![new[s].n] = @ + 1] /\ new' = [new EXCEPT ![s] = NoHook]
      /\ todo' = [todo EXCEPT ![s] = Tail(@)] /\ pc' = [pc EXCEPT ![s] = "attach"]
      /\ UNCHANGED <<counter, registry, captured, hooked, sid, track, at, depth, attaches,
                     leftOn, runnerVars>>
  BY DEF StoreHandle
<1>2. new[s] \in Hook /\ new[s].n \in 1 .. Len(refs) /\ refs[new[s].n] = 1
  BY <1>1 DEF HookInv, NewInv, TypeOK
<1>3. sid[s] \in Ids /\ todo[s] # <<>> /\ todo[s] \in Seq(Keys)
  <2>1. sid[s] # None /\ todo[s] # <<>>
    BY <1>1 DEF SessionInv
  <2>q. QED BY <2>1 DEF TypeOK
<1>4. handles' \in [Ids -> Seq(Hook)]
  BY <1>1, <1>2, <1>3 DEF TypeOK
<1>5. refs' \in Seq(0 .. 2)
  <2>1. refs \in Seq(0 .. 2) /\ refs' = [refs EXCEPT ![new[s].n] = 2]
    BY <1>1, <1>2 DEF TypeOK
  <2>q. QED BY <2>1, <1>2
<1>6. todo' \in [Scopes -> Seq(Keys)] /\ pc' \in [Scopes -> PCs]
      /\ new' \in [Scopes -> Hook \cup {NoHook}]
  BY <1>1, <1>3 DEF TypeOK, PCs
<1>q. QED BY <1>1, <1>2, <1>3, <1>4, <1>5, <1>6 DEF TypeOK, runnerVars

LEMMA RemoveHandleTyped ==
  ASSUME TypeOK, SessionInv, HookInv, NEW s \in Scopes, RemoveHandle(s)
  PROVE  /\ TypeOK' /\ sid[s] \in Ids /\ at[s] \in DOMAIN handles[sid[s]]
         /\ handles[sid[s]][at[s]] \in Hook
<1> DEFINE h == handles[sid[s]][at[s]]
<1>1. /\ InLoop(s) /\ at[s] <= Len(handles[sid[s]])
      /\ hooked' = hooked \ {h} /\ refs' = [refs EXCEPT ![h.n] = @ - 1]
      /\ at' = [at EXCEPT ![s] = @ + 1]
      /\ UNCHANGED <<sessionVars, sid, pc, attachVars, depth, attaches, leftOn, runnerVars>>
  BY DEF RemoveHandle, InLoop
<1>2. sid[s] # None /\ sid[s] \in Ids
  BY <1>1 DEF SessionInv, TypeOK, InLoop
<1>3. handles[sid[s]] \in Seq(Hook) /\ at[s] \in Nat \ {0}
  BY <1>2 DEF TypeOK
<1>4. at[s] \in DOMAIN handles[sid[s]] /\ h \in Hook
  BY <1>1, <1>3
<1>5. refs[h.n] = 2 /\ h.n \in 1 .. Len(refs)
  BY <1>2, <1>3, <1>4, SMTT(20) DEF HookInv, RefsInv, HandlesInv
<1>6. refs' \in Seq(0 .. 2)
  <2>1. refs \in Seq(0 .. 2) /\ refs' = [refs EXCEPT ![h.n] = 1]
    BY <1>1, <1>5 DEF TypeOK
  <2>q. QED BY <2>1, <1>5
<1>7. hooked' \subseteq Hook /\ at' \in [Scopes -> Nat \ {0}]
  BY <1>1, <1>3 DEF TypeOK
<1>q. QED
  BY <1>1, <1>2, <1>4, <1>6, <1>7 DEF TypeOK, sessionVars, attachVars, runnerVars

LEMMA TypeStep ==
  ASSUME LifeInv, [Next]_vars
  PROVE  TypeOK'
<1> USE DEF sessionVars, hookVars, attachVars, scopeVars, runnerVars, LifeInv
<1>1. ASSUME NEW s \in Scopes, Construct(s) PROVE TypeOK'
  <2>1. counter' \in Ids
    BY <1>1, ConstructSession
  <2>2. counter' \in 0 .. Cardinality(Scopes)
    BY <2>1, IdsTyped DEF Ids
  <2>q. QED BY <1>1, <2>1, <2>2 DEF Construct, TypeOK, PCs
<1>2. ASSUME NEW s \in Scopes, BeginAttach(s) PROVE TypeOK'
  <2>1. PICK keys \in Selections : todo' = [todo EXCEPT ![s] = keys]
    BY <1>2 DEF BeginAttach
  <2>2. todo' \in [Scopes -> Seq(Keys)]
    BY <2>1, LifecycleAssumption DEF TypeOK
  <2>q. QED BY <1>2, <2>2 DEF BeginAttach, TypeOK, PCs
<1>3. ASSUME NEW s \in Scopes, BeginTrack(s) PROVE TypeOK'
  <2>1. PICK keys \in Selections : todo' = [todo EXCEPT ![s] = keys]
    BY <1>3 DEF BeginTrack
  <2>2. todo' \in [Scopes -> Seq(Keys)]
    BY <2>1, LifecycleAssumption DEF TypeOK
  <2>3. captured' \in [Ids -> Nat] /\ track' \in [Scopes -> BOOLEAN] /\ pc' \in [Scopes -> PCs]
    BY <1>3 DEF BeginTrack, TypeOK, PCs
  <2>q. QED BY <1>3, <2>2, <2>3, SMTT(20) DEF BeginTrack, TypeOK
<1>4. ASSUME NEW s \in Scopes, Resolve(s) \/ RegisterRaises(s) PROVE TypeOK'
  <2>1. CASE Resolve(s) BY <2>1 DEF Resolve, TypeOK, PCs
  <2>2. CASE RegisterRaises(s)
    <3>1. leftOn' \in [Scopes -> SUBSET {"attach", "raise"}]
      BY <2>2 DEF RegisterRaises, TypeOK
    <3>2. todo' \in [Scopes -> Seq(Keys)] /\ pc' \in [Scopes -> PCs]
      BY <2>2 DEF RegisterRaises, TypeOK, PCs
    <3>q. QED BY <2>2, <3>1, <3>2 DEF RegisterRaises, TypeOK
  <2>q. QED BY <1>4, <2>1, <2>2
<1>5. ASSUME NEW s \in Scopes, AttachReturns(s) PROVE TypeOK'
  <2>1. depth' \in [Scopes -> Nat]
    BY <1>5 DEF AttachReturns, TypeOK
  <2>2. pc' \in [Scopes -> PCs]
    BY <1>5 DEF AttachReturns, TypeOK, PCs
  <2>q. QED BY <1>5, <2>1, <2>2 DEF AttachReturns, TypeOK
<1>6. ASSUME NEW s \in Scopes, ExitTrack(s) PROVE TypeOK'
  <2>1. depth' \in [Scopes -> Nat]
    BY <1>6 DEF ExitTrack, TypeOK
  <2>2. pc' \in [Scopes -> PCs] /\ at' \in [Scopes -> Nat \ {0}]
    <3>1. CASE sid[s] = None BY <1>6, <3>1 DEF ExitTrack, TypeOK
    <3>2. CASE sid[s] # None
      <4>1. pc' = [pc EXCEPT ![s] = "detach"] /\ at' = [at EXCEPT ![s] = 1]
        BY <1>6, <3>2 DEF ExitTrack
      <4>q. QED BY <4>1 DEF TypeOK, PCs
    <3>q. QED BY <3>1, <3>2
  <2>q. QED BY <1>6, <2>1, <2>2 DEF ExitTrack, TypeOK
<1>7. ASSUME NEW s \in Scopes, BeginRemove(s) PROVE TypeOK'
  BY <1>7 DEF BeginRemove, TypeOK, PCs
<1>8. ASSUME NEW s \in Scopes, DetachReturns(s) \/ DestroyReturns(s) PROVE TypeOK'
  <2>1. handles' = [handles EXCEPT ![sid[s]] = <<>>] /\ <<>> \in Seq(Hook)
    BY <1>8 DEF DetachReturns, DestroyReturns
  <2>2. handles' \in [Ids -> Seq(Hook)]
    BY <2>1 DEF TypeOK
  <2>3. CASE DetachReturns(s)
    <3>1. pc' \in [Scopes -> PCs] /\ leftOn' \in [Scopes -> SUBSET {"attach", "raise"}]
      BY <2>3 DEF DetachReturns, TypeOK, PCs
    <3>q. QED BY <2>2, <2>3, <3>1 DEF DetachReturns, TypeOK
  <2>4. CASE DestroyReturns(s)
    <3>1. pc' \in [Scopes -> PCs] /\ captured' \in [Ids -> Nat] /\ registry' \subseteq Ids
      BY <2>4 DEF DestroyReturns, TypeOK, PCs
    <3>q. QED BY <2>2, <2>4, <3>1 DEF DestroyReturns, TypeOK
  <2>q. QED BY <1>8, <2>3, <2>4
<1>9. ASSUME NEW s \in Scopes, Forget(s) PROVE TypeOK'
  BY <1>9 DEF Forget, TypeOK, PCs
<1>10. ASSUME NEW r \in Runners, NEW k \in Keys, Visit(r, k) PROVE TypeOK'
  BY <1>10 DEF Visit, TypeOK
<1>11. ASSUME NEW r \in Runners, EnterHook(r) PROVE TypeOK'
  BY <1>11 DEF EnterHook, TypeOK
<1>12. ASSUME NEW r \in Runners, LeaveHook(r) PROVE TypeOK'
  <2>1. captured' \in [Ids -> Nat]
    <3>1. captured' = [captured EXCEPT ![inHook[r].sid] = @ + 1]
      BY <1>12 DEF LeaveHook
    <3>2. captured \in [Ids -> Nat]
      BY DEF TypeOK
    <3>3. \A i \in Ids : captured[i] \in Nat /\ captured[i] + 1 \in Nat
      BY <3>2
    <3>q. QED BY <3>1, <3>2, <3>3, Zenon
  <2>q. QED BY <1>12, <2>1 DEF LeaveHook, TypeOK
<1>13. CASE UNCHANGED vars BY <1>13 DEF vars, TypeOK
<1>q. QED
  BY <1>1, <1>2, <1>3, <1>4, <1>5, <1>6, <1>7, <1>8, <1>9, <1>10, <1>11, <1>12, <1>13,
     InstallTyped, StoreHandleTyped, RemoveHandleTyped
  DEF Next, ScopeStep, RunnerStep, Finished

-----------------------------------------------------------------------------
(***************************************************************************)
(* The hooks and handles.                                                  *)
(***************************************************************************)

\* A step that installs, stores, removes and drops nothing.
LEMMA HookStays ==
  ASSUME TypeOK, HookInv, UNCHANGED <<handles, refs, hooked, sid, new>>,
         \A s \in Scopes :
           /\ pc'[s] = "store" <=> pc[s] = "store"
           /\ pc'[s] = "forget" => pc[s] = "forget"
           /\ InLoop(s) => InLoop(s)' /\ at'[s] = at[s]
           /\ InLoop(s)' /\ ~ InLoop(s) => at'[s] = 1
  PROVE  HookInv'
<1>1. NewInv' /\ HandlesInv'
  BY DEF HookInv, NewInv, HandlesInv
<1>2. RefsInv'
  BY DEF HookInv, RefsInv
<1>3. ASSUME NEW h \in hooked, NEW s \in Scopes, Held(s, h), h.sid \in Ids
      PROVE  Held(s, h)'
  <2>1. \A j \in DOMAIN handles[h.sid] : j \in Nat /\ j >= 1
    BY <1>3 DEF TypeOK
  <2>2. \A j \in DOMAIN handles[h.sid] : (InLoop(s) => j >= at[s]) => (InLoop(s)' => j >= at'[s])
    BY <2>1
  <2>3. new'[s] = new[s] /\ handles' = handles
    OBVIOUS
  <2>q. QED BY <1>3, <2>2, <2>3 DEF Held
<1>4. \A s \in Scopes : sid[s] = None \/ sid[s] \in Ids
  BY DEF TypeOK
<1>5. \A h \in hooked : h.sid # None
  BY DEF TypeOK, Hook, None
<1>6. HeldInv'
  BY <1>3, <1>4, <1>5 DEF HookInv, HeldInv
<1>q. QED BY <1>1, <1>2, <1>6 DEF HookInv

\* The id of a new session has no handles yet.
LEMMA ConstructHooks ==
  ASSUME LifeInv, NEW s \in Scopes, Construct(s)
  PROVE  HookInv'
<1> USE DEF LifeInv, HookInv
<1>1. /\ pc[s] = "unborn" /\ pc' = [pc EXCEPT ![s] = "idle"] /\ counter' = counter + 1
      /\ sid' = [sid EXCEPT ![s] = counter'] /\ UNCHANGED <<handles, refs, hooked, new, at>>
  BY DEF Construct, attachVars, hookVars
<1>2. counter' \in Ids /\ counter \in Nat /\ sid[s] = None
  BY <1>1, ConstructSession, IdsTyped DEF SessionInv, TypeOK
<1>3. /\ sid'[s] = counter' /\ pc'[s] = "idle"
      /\ \A u \in Scopes \ {s} : sid'[u] = sid[u] /\ pc'[u] = pc[u]
  BY <1>1 DEF TypeOK
<1>4. handles[counter'] = <<>>
  BY <1>1, <1>2 DEF HeldInv, SessionInv
<1>5. NewInv'
  BY <1>1, <1>3 DEF NewInv
<1>6. HandlesInv'
  BY <1>1 DEF HandlesInv
<1>7. RefsInv'
  BY <1>1, <1>3, <1>4, SMTT(20) DEF RefsInv, InLoop
<1>8. \A h \in hooked : h.sid # None
  BY DEF TypeOK, Hook, None
<1>9. ASSUME NEW h \in hooked
      PROVE  \E u \in Scopes : sid'[u] = h.sid /\ Held(u, h)'
  <2>1. PICK u \in Scopes : sid[u] = h.sid /\ Held(u, h)
    BY DEF HeldInv
  <2>2. u # s
    BY <1>2, <1>8, <2>1
  <2>3. Held(u, h)'
    BY <1>1, <1>3, <2>1, <2>2 DEF Held, InLoop
  <2>q. QED BY <1>3, <2>1, <2>2, <2>3
<1>10. ASSUME NEW i \in Ids, handles[i] # <<>>
       PROVE  \E u \in Scopes : sid'[u] = i /\ pc'[u] # "forget"
  <2>1. PICK u \in Scopes : sid[u] = i /\ pc[u] # "forget"
    BY <1>10 DEF HeldInv
  <2>2. i # None
    BY IdsTyped DEF None
  <2>q. QED BY <1>2, <1>3, <2>1, <2>2
<1>11. HeldInv'
  BY <1>1, <1>9, <1>10 DEF HeldInv
<1>q. QED BY <1>5, <1>6, <1>7, <1>11

\* The new hook has a new number.
LEMMA InstallHooks ==
  ASSUME LifeInv, NEW s \in Scopes, Install(s)
  PROVE  HookInv'
<1> USE DEF LifeInv, HookInv
<1> DEFINE h == new'[s]
<1>1. /\ pc[s] = "install" /\ pc' = [pc EXCEPT ![s] = "store"]
      /\ new' = [new EXCEPT ![s] = h] /\ refs' = Append(refs, 1) /\ hooked' = hooked \cup {h}
      /\ UNCHANGED <<handles, sid, at>>
  BY DEF Install, sessionVars, TypeOK
<1>2. h \in Hook /\ h.sid = sid[s] /\ h.n = Len(refs) + 1 /\ h # NoHook
  BY InstallTyped DEF NoHook, Hook
<1>3. refs \in Seq(0 .. 2) /\ Len(refs) \in Nat /\ Len(refs') = Len(refs) + 1
      /\ refs'[Len(refs) + 1] = 1 /\ \A i \in 1 .. Len(refs) : refs'[i] = refs[i]
  BY <1>1 DEF TypeOK
<1>4. \A u \in Scopes \ {s} : new'[u] = new[u] /\ pc'[u] = pc[u]
  BY <1>1 DEF TypeOK
<1>5. pc'[s] = "store" /\ new[s] = NoHook
  BY <1>1 DEF TypeOK, NewInv
<1>6. \A u \in Scopes : new[u].n \in 0 .. Len(refs)
  BY <1>3 DEF NewInv, NoHook
<1>7. NewInv'
  <2>1. ASSUME NEW u \in Scopes \ {s}
        PROVE  /\ pc'[u] = "store" <=> new'[u] # NoHook
               /\ pc'[u] = "store" => /\ new'[u].sid = sid'[u] /\ new'[u].n \in 1 .. Len(refs')
                                      /\ refs'[new'[u].n] = 1
    BY <1>1, <1>3, <1>4 DEF NewInv
  <2>2. pc'[s] = "store" /\ h # NoHook /\ h.sid = sid'[s] /\ h.n \in 1 .. Len(refs')
        /\ refs'[h.n] = 1
    BY <1>1, <1>2, <1>3, <1>5
  <2>q. QED BY <2>1, <2>2 DEF NewInv
<1>8. HandlesInv'
  <2>1. \A i \in Ids : \A j \in DOMAIN handles[i] :
          /\ handles[i][j].n \in 1 .. Len(refs') /\ h.n # handles[i][j].n
    BY <1>2, <1>3 DEF HandlesInv
  <2>q. QED BY <1>1, <1>4, <2>1 DEF HandlesInv
<1>9. RefsInv'
  <2>1. ASSUME NEW u \in Scopes, sid[u] # None, NEW j \in DOMAIN handles[sid[u]]
        PROVE  refs'[handles[sid[u]][j].n] = refs[handles[sid[u]][j].n]
    <3>1. sid[u] \in Ids
      BY <2>1 DEF TypeOK
    <3>q. QED BY <1>3, <2>1, <3>1 DEF HandlesInv
  <2>2. \A u \in Scopes : InLoop(u) => InLoop(u)'
    BY <1>1, <1>4 DEF InLoop
  <2>3. ASSUME NEW u \in Scopes, sid[u] # None, NEW j \in DOMAIN handles[sid[u]],
               InLoop(u)' => j >= at[u]
        PROVE  refs'[handles[sid[u]][j].n] = 2
    BY <2>1, <2>2, <2>3 DEF RefsInv
  <2>q. QED BY <1>1, <2>3 DEF RefsInv
<1>10. ASSUME NEW g \in hooked'
       PROVE  \E u \in Scopes : sid'[u] = g.sid /\ Held(u, g)'
  <2>1. CASE g = h
    BY <1>1, <1>2, <2>1 DEF Held
  <2>2. CASE g \in hooked
    <3>1. PICK u \in Scopes : sid[u] = g.sid /\ Held(u, g)
      BY <2>2 DEF HeldInv
    <3>2. g # NoHook
      BY <2>2 DEF TypeOK, Hook, NoHook
    <3>3. Held(u, g)'
      BY <1>1, <1>4, <1>5, <3>1, <3>2 DEF Held, InLoop
    <3>q. QED BY <1>1, <3>1, <3>3
  <2>q. QED BY <1>1, <2>1, <2>2
<1>11. \A u, v \in Scopes : new'[u] # NoHook /\ new'[u].n = new'[v].n => u = v
  BY <1>2, <1>3, <1>4, <1>6 DEF HeldInv
<1>12. HeldInv'
  BY <1>1, <1>4, <1>5, <1>10, <1>11 DEF HeldInv
<1>q. QED BY <1>7, <1>8, <1>9, <1>12

\* The new handle goes to the end of its session's list.
LEMMA StoreHandleHooks ==
  ASSUME LifeInv, NEW s \in Scopes, StoreHandle(s)
  PROVE  HookInv'
<1> USE DEF LifeInv, HookInv
<1> DEFINE h == new[s]
           i == sid[s]
           last == Len(handles[i]) + 1
<1>1. /\ pc[s] = "store" /\ pc' = [pc EXCEPT ![s] = "attach"]
      /\ handles' = [handles EXCEPT ![i] = Append(@, h)]
      /\ refs' = [refs EXCEPT ![h.n] = @ + 1] /\ new' = [new EXCEPT ![s] = NoHook]
      /\ UNCHANGED <<hooked, sid, at>>
  BY DEF StoreHandle
<1>2. i \in Ids /\ h \in Hook /\ h.sid = i /\ h.n \in 1 .. Len(refs) /\ refs[h.n] = 1
      /\ h # NoHook /\ handles[i] \in Seq(Hook) /\ last \in Nat
  BY <1>1, StoreHandleTyped DEF NewInv, TypeOK
<1>3. \A u \in Scopes \ {s} : new'[u] = new[u] /\ pc'[u] = pc[u]
  BY <1>1 DEF TypeOK
<1>4. pc'[s] = "attach" /\ new'[s] = NoHook /\ NoHook.n = 0
  BY <1>1 DEF TypeOK, NoHook
<1>5. /\ DOMAIN handles'[i] = 1 .. last /\ handles'[i][last] = h
      /\ \A j \in DOMAIN handles[i] : j \in 1 .. last /\ j # last /\ handles'[i][j] = handles[i][j]
      /\ \A j \in 1 .. last : j # last => j \in DOMAIN handles[i]
      /\ \A k \in Ids : k # i => handles'[k] = handles[k]
  BY <1>1, <1>2, SMTT(20) DEF TypeOK
<1>6. /\ Len(refs') = Len(refs) /\ refs'[h.n] = 2
      /\ \A n \in 1 .. Len(refs) : n # h.n => refs'[n] = refs[n]
  BY <1>1, <1>2 DEF TypeOK
<1>7. \A u \in Scopes \ {s} : new[u] # NoHook => new[u].n # h.n
  BY <1>2 DEF HeldInv
<1>8. NewInv'
  <2>1. ASSUME NEW u \in Scopes \ {s}
        PROVE  /\ pc'[u] = "store" <=> new'[u] # NoHook
               /\ pc'[u] = "store" => /\ new'[u].sid = sid'[u] /\ new'[u].n \in 1 .. Len(refs')
                                      /\ refs'[new'[u].n] = 1
    BY <1>1, <1>3, <1>6, <1>7 DEF NewInv
  <2>q. QED BY <1>4, <2>1 DEF NewInv
<1>9. \A k \in Ids : \A j \in DOMAIN handles'[k] :
        (k = i /\ j = last /\ handles'[k][j] = h)
        \/ (j \in DOMAIN handles[k] /\ handles'[k][j] = handles[k][j] /\ (k = i => j # last))
  BY <1>5
<1>10. \A k \in Ids : \A j \in DOMAIN handles[k] : handles[k][j].n # h.n
  BY DEF HandlesInv
<1>11. HandlesInv'
  <2>1. ASSUME NEW k \in Ids, NEW j \in DOMAIN handles'[k]
        PROVE  /\ handles'[k][j].sid = k /\ handles'[k][j].n \in 1 .. Len(refs')
               /\ \A u \in Scopes : new'[u].n # handles'[k][j].n
    <3>1. \A u \in Scopes \ {s} : new[u].n # h.n
      BY <1>2, <1>4, <1>7
    <3>q. QED BY <1>2, <1>3, <1>4, <1>6, <1>9, <3>1, SMTT(20) DEF HandlesInv
  <2>2. ASSUME NEW k \in Ids, NEW j \in DOMAIN handles'[k], NEW m \in Ids,
               NEW l \in DOMAIN handles'[m], handles'[k][j].n = handles'[m][l].n
        PROVE  k = m /\ j = l
    BY <1>9, <1>10, <2>2 DEF HandlesInv
  <2>q. QED BY <2>1, <2>2 DEF HandlesInv
<1>12. \A u \in Scopes : InLoop(u)' <=> InLoop(u)
  BY <1>1, <1>3, <1>4 DEF InLoop
<1>13. RefsInv'
  <2>1. ASSUME NEW u \in Scopes, sid[u] # None, NEW j \in DOMAIN handles'[sid[u]],
               InLoop(u) => j >= at[u]
        PROVE  refs'[handles'[sid[u]][j].n] = 2
    <3>1. sid[u] \in Ids
      BY <2>1 DEF TypeOK
    <3>2. CASE handles'[sid[u]][j] = h BY <1>6, <3>2
    <3>3. CASE j \in DOMAIN handles[sid[u]] /\ handles'[sid[u]][j] = handles[sid[u]][j]
      <4>1. refs[handles[sid[u]][j].n] = 2
        BY <2>1, <3>3 DEF RefsInv
      <4>2. handles[sid[u]][j].n \in 1 .. Len(refs) /\ handles[sid[u]][j].n # h.n
        BY <1>10, <3>1, <3>3 DEF HandlesInv
      <4>q. QED BY <1>6, <3>3, <4>1, <4>2
    <3>q. QED BY <1>9, <3>1, <3>2, <3>3
  <2>2. ASSUME NEW u \in Scopes, sid'[u] # None, NEW j \in DOMAIN handles'[sid'[u]],
               InLoop(u)' => j >= at'[u]
        PROVE  refs'[handles'[sid'[u]][j].n] = 2
    <3>1. sid'[u] = sid[u] /\ at'[u] = at[u]
      BY <1>1
    <3>q. QED BY <1>12, <2>1, <2>2, <3>1
  <2>q. QED BY <2>2 DEF RefsInv
<1>14. ASSUME NEW g \in hooked
       PROVE  \E u \in Scopes : sid'[u] = g.sid /\ Held(u, g)'
  <2>1. PICK u \in Scopes : sid[u] = g.sid /\ Held(u, g)
    BY DEF HeldInv
  <2>2. CASE g = h
    <3>1. ~ InLoop(s)
      BY <1>1 DEF InLoop
    <3>2. g.sid = i /\ last \in DOMAIN handles'[i] /\ handles'[i][last] = g /\ ~ InLoop(s)'
      BY <1>2, <1>5, <1>12, <2>2, <3>1
    <3>3. Held(s, g)'
      BY <3>2 DEF Held
    <3>4. sid'[s] = g.sid
      BY <1>1, <3>2
    <3>q. QED BY <3>3, <3>4, Zenon
  <2>3. CASE g # h
    <3>1. g.sid \in Ids
      BY <2>1 DEF TypeOK, Hook, None
    <3>2. CASE new[u] = g
      <4>1. u # s
        BY <2>3, <3>2
      <4>2. Held(u, g)'
        BY <1>3, <3>2, <4>1 DEF Held
      <4>3. sid'[u] = g.sid
        BY <1>1, <2>1
      <4>q. QED BY <4>2, <4>3, Zenon
    <3>3. CASE new[u] # g
      <4>1. PICK j \in DOMAIN handles[g.sid] : handles[g.sid][j] = g /\ (InLoop(u) => j >= at[u])
        BY <2>1, <3>3 DEF Held
      <4>2. j \in DOMAIN handles'[g.sid] /\ handles'[g.sid][j] = g
        BY <1>5, <3>1, <4>1
      <4>3. InLoop(u)' => j >= at'[u]
        BY <1>1, <1>12, <4>1
      <4>4. Held(u, g)'
        BY <4>2, <4>3 DEF Held
      <4>q. QED BY <1>1, <2>1, <4>4
    <3>q. QED BY <3>2, <3>3
  <2>q. QED BY <2>2, <2>3
<1>15. \A k \in Ids : handles'[k] # <<>> => \E u \in Scopes : sid'[u] = k /\ pc'[u] # "forget"
  BY <1>1, <1>3, <1>4, <1>5 DEF HeldInv
<1>16. \A u, v \in Scopes : new'[u] # NoHook /\ new'[u].n = new'[v].n => u = v
  <2>1. \A u \in Scopes : new'[u] # NoHook => u # s /\ new'[u] = new[u] /\ new[u].n # 0
    BY <1>3, <1>4 DEF NewInv
  <2>q. QED BY <1>3, <1>4, <2>1 DEF HeldInv
<1>17. HeldInv'
  BY <1>1, <1>14, <1>15, <1>16 DEF HeldInv
<1>q. QED BY <1>8, <1>11, <1>13, <1>17

\* The loop takes off the hook at its place, and no other.
LEMMA RemoveHandleHooks ==
  ASSUME LifeInv, NEW s \in Scopes, RemoveHandle(s)
  PROVE  HookInv'
<1> USE DEF LifeInv, HookInv
<1> DEFINE i == sid[s]
           h == handles[i][at[s]]
<1>1. /\ InLoop(s) /\ hooked' = hooked \ {h} /\ refs' = [refs EXCEPT ![h.n] = @ - 1]
      /\ at' = [at EXCEPT ![s] = @ + 1] /\ UNCHANGED <<handles, sid, pc, new>>
  BY DEF RemoveHandle, InLoop, sessionVars, attachVars
<1>2. i \in Ids /\ at[s] \in DOMAIN handles[i] /\ h \in Hook /\ at[s] \in Nat
  BY RemoveHandleTyped DEF TypeOK
<1>3. h.n \in 1 .. Len(refs) /\ h.sid = i /\ \A u \in Scopes : new[u].n # h.n
  BY <1>2 DEF HandlesInv
<1>4. Len(refs') = Len(refs) /\ \A n \in 1 .. Len(refs) : n # h.n => refs'[n] = refs[n]
  BY <1>1, <1>3 DEF TypeOK
<1>5. at'[s] = at[s] + 1 /\ \A u \in Scopes \ {s} : at'[u] = at[u]
  BY <1>1 DEF TypeOK
<1>6. \A u \in Scopes : InLoop(u)' <=> InLoop(u)
  BY <1>1 DEF InLoop
<1>7. NewInv' /\ HandlesInv'
  BY <1>1, <1>3, <1>4, SMTT(20) DEF NewInv, HandlesInv
<1>8. ASSUME NEW u \in Scopes, sid[u] # None, NEW j \in DOMAIN handles[sid[u]],
             InLoop(u) => j >= at'[u]
      PROVE  refs'[handles[sid[u]][j].n] = 2
  <2>1. sid[u] \in Ids /\ j \in Nat
    BY <1>8 DEF TypeOK
  <2>2. sid[u] # i \/ j # at[s]
    BY <1>1, <1>2, <1>5, <1>8 DEF SessionInv
  <2>3. handles[sid[u]][j].n # h.n /\ handles[sid[u]][j].n \in 1 .. Len(refs)
    BY <1>2, <2>1, <2>2 DEF HandlesInv
  <2>4. InLoop(u) => j >= at[u]
    <3>1. CASE u = s BY <1>2, <1>5, <1>8, <2>1, <3>1
    <3>2. CASE u # s BY <1>5, <1>8, <3>2
    <3>q. QED BY <3>1, <3>2
  <2>5. refs[handles[sid[u]][j].n] = 2
    BY <1>8, <2>4 DEF RefsInv
  <2>q. QED BY <1>4, <2>3, <2>5
<1>9. RefsInv'
  <2>1. ASSUME NEW u \in Scopes, sid'[u] # None, NEW j \in DOMAIN handles'[sid'[u]],
               InLoop(u)' => j >= at'[u]
        PROVE  refs'[handles'[sid'[u]][j].n] = 2
    <3>1. sid'[u] = sid[u] /\ handles' = handles
      BY <1>1
    <3>q. QED BY <1>6, <1>8, <2>1, <3>1
  <2>q. QED BY <2>1 DEF RefsInv
<1>10. ASSUME NEW g \in hooked'
       PROVE  \E u \in Scopes : sid'[u] = g.sid /\ Held(u, g)'
  <2>1. g \in hooked /\ g # h
    BY <1>1
  <2>2. PICK u \in Scopes : sid[u] = g.sid /\ Held(u, g)
    BY <2>1 DEF HeldInv
  <2>3. CASE new[u] = g
    <3>1. Held(u, g)' /\ sid'[u] = g.sid
      BY <1>1, <2>2, <2>3 DEF Held
    <3>q. QED BY <3>1, Zenon
  <2>4. CASE new[u] # g
    <3>1. PICK j \in DOMAIN handles[g.sid] : handles[g.sid][j] = g /\ (InLoop(u) => j >= at[u])
      BY <2>2, <2>4 DEF Held
    <3>2. g.sid \in Ids /\ j \in Nat
      <4>1. g.sid \in Ids
        BY <2>1, <2>2 DEF TypeOK, Hook, None
      <4>q. QED BY <3>1, <4>1 DEF TypeOK
    <3>3. u = s => j # at[s]
      BY <2>1, <2>2, <3>1
    <3>4. InLoop(u)' => j >= at'[u]
      <4>1. CASE u = s BY <1>2, <1>5, <1>6, <3>1, <3>2, <3>3, <4>1
      <4>2. CASE u # s BY <1>5, <1>6, <3>1, <4>2
      <4>q. QED BY <4>1, <4>2
    <3>5. Held(u, g)' /\ sid'[u] = g.sid
      BY <1>1, <2>2, <3>1, <3>4 DEF Held
    <3>q. QED BY <3>5, Zenon
  <2>q. QED BY <2>3, <2>4
<1>11. HeldInv'
  BY <1>1, <1>10 DEF HeldInv
<1>q. QED BY <1>7, <1>9, <1>11

\* When the loop is over, none of the session's hooks is on.
LEMMA LoopOverHooks ==
  ASSUME LifeInv, NEW s \in Scopes, NEW op \in {"detach", "destroy"}, LoopDone(s, op)
  PROVE  sid[s] \in Ids /\ HooksOf(sid[s]) = {}
<1> USE DEF LifeInv, HookInv
<1>1. InLoop(s) /\ at[s] > Len(handles[sid[s]])
  BY DEF LoopDone, InLoop
<1>2. sid[s] # None
  BY <1>1 DEF SessionInv, InLoop
<1>3. sid[s] \in Ids
  BY <1>2 DEF TypeOK
<1>4. ASSUME NEW h \in hooked, h.sid = sid[s] PROVE FALSE
  <2>1. PICK u \in Scopes : sid[u] = h.sid /\ Held(u, h)
    BY DEF HeldInv
  <2>2. u = s
    BY <1>2, <1>4, <2>1 DEF SessionInv
  <2>3. new[s] # h
    <3>1. new[s] = NoHook
      BY <1>1 DEF NewInv, InLoop
    <3>2. NoHook \notin Hook
      BY DEF NoHook, Hook
    <3>q. QED BY <3>1, <3>2 DEF TypeOK
  <2>4. PICK j \in DOMAIN handles[sid[s]] : j >= at[s]
    BY <1>1, <1>4, <2>1, <2>2, <2>3 DEF Held
  <2>5. handles[sid[s]] \in Seq(Hook) /\ at[s] \in Nat
    BY <1>3 DEF TypeOK
  <2>q. QED BY <1>1, <2>4, <2>5
<1>q. QED BY <1>3, <1>4 DEF HooksOf

LEMMA LoopReturnsHooks ==
  ASSUME LifeInv, NEW s \in Scopes, DetachReturns(s) \/ DestroyReturns(s)
  PROVE  HookInv'
<1> USE DEF LifeInv, HookInv
<1> DEFINE i == sid[s]
<1>1. /\ InLoop(s) /\ handles' = [handles EXCEPT ![i] = <<>>]
      /\ UNCHANGED <<refs, hooked, sid, new, at>>
      /\ pc' = [pc EXCEPT ![s] = "idle"] \/ pc' = [pc EXCEPT ![s] = "forget"]
  BY DEF DetachReturns, DestroyReturns, LoopDone, InLoop, hookVars, attachVars
<1>2. i \in Ids /\ HooksOf(i) = {}
  BY LoopOverHooks DEF DetachReturns, DestroyReturns
<1>3. handles'[i] = <<>> /\ \A k \in Ids : k # i => handles'[k] = handles[k]
  BY <1>1, <1>2 DEF TypeOK
<1>4. /\ pc'[s] \in {"idle", "forget"} /\ \A u \in Scopes \ {s} : pc'[u] = pc[u]
  BY <1>1 DEF TypeOK
<1>5. pc[s] # "store" /\ pc[s] # "forget"
  BY <1>1 DEF InLoop
<1>6. NewInv'
  BY <1>1, <1>4, <1>5 DEF NewInv
<1>7. \A k \in Ids : \A j \in DOMAIN handles'[k] :
        k # i /\ j \in DOMAIN handles[k] /\ handles'[k][j] = handles[k][j]
  BY <1>3
<1>8. HandlesInv'
  BY <1>1, <1>7 DEF HandlesInv
<1>9. RefsInv'
  <2>1. ASSUME NEW u \in Scopes, sid'[u] # None, NEW j \in DOMAIN handles'[sid'[u]],
               InLoop(u)' => j >= at'[u]
        PROVE  refs'[handles'[sid'[u]][j].n] = 2
    <3>1. sid'[u] = sid[u] /\ sid[u] \in Ids /\ at'[u] = at[u]
      BY <1>1, <2>1 DEF TypeOK
    <3>2. sid[u] # i /\ j \in DOMAIN handles[sid[u]] /\ handles'[sid[u]][j] = handles[sid[u]][j]
      BY <1>7, <2>1, <3>1
    <3>3. InLoop(u)' <=> InLoop(u)
      BY <1>4, <3>2 DEF InLoop
    <3>q. QED BY <1>1, <2>1, <3>1, <3>2, <3>3 DEF RefsInv
  <2>q. QED BY <2>1 DEF RefsInv
<1>10. ASSUME NEW g \in hooked
       PROVE  \E u \in Scopes : sid'[u] = g.sid /\ Held(u, g)'
  <2>1. PICK u \in Scopes : sid[u] = g.sid /\ Held(u, g)
    BY DEF HeldInv
  <2>2. g.sid # i
    BY <1>2 DEF HooksOf
  <2>3. u # s /\ g.sid \in Ids
    BY <2>1, <2>2 DEF TypeOK, Hook, None
  <2>4. Held(u, g)' /\ sid'[u] = g.sid
    BY <1>1, <1>3, <1>4, <2>1, <2>2, <2>3 DEF Held, InLoop
  <2>q. QED BY <2>4, Zenon
<1>11. \A k \in Ids : handles'[k] # <<>> => \E u \in Scopes : sid'[u] = k /\ pc'[u] # "forget"
  BY <1>1, <1>3, <1>4 DEF HeldInv
<1>12. HeldInv'
  BY <1>1, <1>10, <1>11 DEF HeldInv
<1>q. QED BY <1>6, <1>8, <1>9, <1>12

LEMMA ForgetHooks ==
  ASSUME LifeInv, NEW s \in Scopes, Forget(s)
  PROVE  HookInv'
<1> USE DEF LifeInv, HookInv
<1>1. /\ pc[s] = "forget" /\ pc' = [pc EXCEPT ![s] = "idle"] /\ sid' = [sid EXCEPT ![s] = None]
      /\ UNCHANGED <<handles, refs, hooked, new, at>>
  BY DEF Forget, sessionVars, hookVars, attachVars
<1>2. /\ sid'[s] = None /\ pc'[s] = "idle"
      /\ \A u \in Scopes \ {s} : sid'[u] = sid[u] /\ pc'[u] = pc[u]
  BY <1>1 DEF TypeOK
<1>3. sid[s] \in Ids /\ handles[sid[s]] = <<>>
  <2>1. sid[s] # None
    BY <1>1 DEF SessionInv
  <2>2. sid[s] \in Ids
    BY <2>1 DEF TypeOK
  <2>q. QED BY <1>1, <2>1, <2>2 DEF HeldInv, SessionInv
<1>4. NewInv' /\ HandlesInv'
  BY <1>1, <1>2 DEF NewInv, HandlesInv
<1>5. RefsInv'
  BY <1>1, <1>2 DEF RefsInv, InLoop
<1>6. ASSUME NEW g \in hooked
      PROVE  \E u \in Scopes : sid'[u] = g.sid /\ Held(u, g)'
  <2>1. PICK u \in Scopes : sid[u] = g.sid /\ Held(u, g)
    BY DEF HeldInv
  <2>2. u # s
    <3>1. new[s] = NoHook /\ NoHook \notin Hook /\ g \in Hook
      BY <1>1 DEF NewInv, TypeOK, NoHook, Hook
    <3>q. QED BY <1>3, <2>1, <3>1 DEF Held
  <2>3. Held(u, g)' /\ sid'[u] = g.sid
    BY <1>1, <1>2, <2>1, <2>2 DEF Held, InLoop
  <2>q. QED BY <2>3, Zenon
<1>7. \A k \in Ids : handles[k] # <<>> => \E u \in Scopes : sid'[u] = k /\ pc'[u] # "forget"
  BY <1>1, <1>2, <1>3 DEF HeldInv
<1>8. HeldInv'
  BY <1>1, <1>6, <1>7 DEF HeldInv
<1>q. QED BY <1>4, <1>5, <1>8

LEMMA HookStep ==
  ASSUME LifeInv, [Next]_vars
  PROVE  HookInv'
<1> USE DEF LifeInv, sessionVars, hookVars, attachVars, scopeVars, runnerVars
<1>1. ASSUME UNCHANGED <<handles, refs, hooked, sid, new, pc, at>> PROVE HookInv'
  BY <1>1, HookStays DEF InLoop
<1>2. ASSUME NEW s \in Scopes,
             BeginAttach(s) \/ BeginTrack(s) \/ Resolve(s) \/ RegisterRaises(s) \/ AttachReturns(s)
      PROVE  HookInv'
  <2>1. /\ UNCHANGED <<handles, refs, hooked, sid, new, at>>
        /\ pc[s] \in {"idle", "attach"}
        /\ \E p \in {"idle", "attach", "install"} : pc' = [pc EXCEPT ![s] = p]
    BY <1>2 DEF BeginAttach, BeginTrack, Begin, Resolve, RegisterRaises, AttachReturns
  <2>2. /\ pc'[s] \in {"idle", "attach", "install"}
        /\ \A u \in Scopes \ {s} : pc'[u] = pc[u]
    BY <2>1 DEF TypeOK
  <2>q. QED BY <2>1, <2>2, HookStays DEF InLoop
<1>3. ASSUME NEW s \in Scopes, ExitTrack(s) \/ BeginRemove(s) PROVE HookInv'
  <2>1. CASE UNCHANGED <<pc, at>>
    BY <1>1, <1>3, <2>1 DEF ExitTrack, BeginRemove
  <2>2. CASE ~ UNCHANGED <<pc, at>>
    <3>1. /\ UNCHANGED <<handles, refs, hooked, sid, new>> /\ pc[s] = "idle"
          /\ at' = [at EXCEPT ![s] = 1]
          /\ \E p \in {"detach", "destroy"} : pc' = [pc EXCEPT ![s] = p]
      BY <1>3, <2>2 DEF ExitTrack, BeginRemove, Begin
    <3>2. /\ pc'[s] \in {"detach", "destroy"} /\ at'[s] = 1
          /\ \A u \in Scopes \ {s} : pc'[u] = pc[u] /\ at'[u] = at[u]
      BY <3>1 DEF TypeOK
    <3>q. QED BY <3>1, <3>2, HookStays DEF InLoop
  <2>q. QED BY <2>1, <2>2
<1>4. ASSUME NEW r \in Runners, (\E k \in Keys : Visit(r, k)) \/ RunnerStep(r) PROVE HookInv'
  BY <1>1, <1>4 DEF Visit, RunnerStep, EnterHook, LeaveHook
<1>5. CASE UNCHANGED vars
  BY <1>1, <1>5 DEF vars
<1>q. QED
  BY <1>2, <1>3, <1>4, <1>5, ConstructHooks, InstallHooks, StoreHandleHooks, RemoveHandleHooks,
     LoopReturnsHooks, ForgetHooks
  DEF Next, ScopeStep, Finished

LEMMA LifeStep == LifeInv /\ [Next]_vars => LifeInv'
BY TypeStep, SessionStep, HookStep DEF LifeInv

-----------------------------------------------------------------------------
(***************************************************************************)
(* Forward passes of a careful program, which does not attach or remove    *)
(* while one runs.                                                         *)
(***************************************************************************)
ForwardInv ==
  /\ (\E s \in Scopes : pc[s] \in Changing) => NoForward
  /\ \A r \in Runners : /\ \A h \in pending[r] : h.sid \in registry
                        /\ inHook[r] # NoHook => inHook[r].sid \in registry

\* The session of a hook that is on is in the registry, careful or not.
LEMMA HookedAlive ==
  ASSUME LifeInv, NEW h \in hooked
  PROVE  h.sid \in registry
<1> USE DEF LifeInv, HookInv
<1>1. PICK s \in Scopes : sid[s] = h.sid /\ Held(s, h)
  BY DEF HeldInv
<1>2. sid[s] # None
  BY <1>1 DEF TypeOK, Hook, None
<1>3. sid[s] \in Ids
  BY <1>2 DEF TypeOK
<1>4. pc[s] # "forget"
  <2>1. ASSUME pc[s] = "forget" PROVE FALSE
    <3>1. handles[sid[s]] = <<>>
      BY <1>2, <1>3, <2>1 DEF HeldInv, SessionInv
    <3>2. new[s] # h
      BY <2>1 DEF NewInv, TypeOK, NoHook, Hook
    <3>q. QED BY <1>1, <3>1, <3>2 DEF Held
  <2>q. QED BY <2>1
<1>q. QED BY <1>1, <1>2, <1>4 DEF SessionInv

LEMMA ForwardStep ==
  ASSUME LifeInv, ForwardInv, ~ Overlap, [Next]_vars
  PROVE  ForwardInv'
<1> USE DEF LifeInv, sessionVars, hookVars, attachVars, scopeVars, runnerVars
<1>1. ASSUME UNCHANGED runnerVars, registry \subseteq registry',
             (\E s \in Scopes : pc'[s] \in Changing) =>
               NoForward \/ \E s \in Scopes : pc[s] \in Changing
      PROVE  ForwardInv'
  <2>1. pending' = pending /\ inHook' = inHook /\ NoForward' = NoForward
    BY <1>1 DEF NoForward, OutOfModel
  <2>2. (\E s \in Scopes : pc'[s] \in Changing) => NoForward'
    BY <1>1, <2>1 DEF ForwardInv
  <2>3. \A r \in Runners : /\ \A h \in pending'[r] : h.sid \in registry'
                           /\ inHook'[r] # NoHook => inHook'[r].sid \in registry'
    BY <1>1, <2>1 DEF ForwardInv
  <2>q. QED BY <2>2, <2>3 DEF ForwardInv
<1>2. ASSUME NEW s \in Scopes, BeginAttach(s) \/ BeginTrack(s) \/ BeginRemove(s)
      PROVE  ForwardInv'
  BY <1>1, <1>2 DEF BeginAttach, BeginTrack, BeginRemove, Careful
<1>3. ASSUME NEW s \in Scopes, Construct(s) PROVE ForwardInv'
  BY <1>1, <1>3 DEF Construct, Changing, TypeOK
<1>4. ASSUME NEW s \in Scopes, ScopeStep(s), ~ DestroyReturns(s) PROVE ForwardInv'
  <2>1. UNCHANGED <<runnerVars, registry>>
    BY <1>4 DEF ScopeStep, Resolve, RegisterRaises, Install, StoreHandle, AttachReturns,
                RemoveHandle, DetachReturns, Forget
  <2>2. \A u \in Scopes : pc'[u] \in Changing => \E v \in Scopes : pc[v] \in Changing
    <3>1. /\ pc'[s] \in Changing => pc[s] \in Changing
          /\ \A u \in Scopes \ {s} : pc'[u] = pc[u]
      BY <1>4 DEF ScopeStep, Resolve, RegisterRaises, Install, StoreHandle, AttachReturns,
                  RemoveHandle, DetachReturns, LoopDone, Forget, Changing, TypeOK
    <3>q. QED BY <3>1
  <2>q. QED BY <1>1, <2>1, <2>2
<1>5. ASSUME NEW s \in Scopes, DestroyReturns(s) PROVE ForwardInv'
  <2>1. NoForward
    BY <1>5 DEF DestroyReturns, LoopDone, ForwardInv, Changing
  <2>q. QED BY <1>5, <2>1 DEF DestroyReturns, ForwardInv, NoForward, OutOfModel
<1>6. ASSUME NEW s \in Scopes, ExitTrack(s) PROVE ForwardInv'
  <2>1. \A u \in Scopes : pc'[u] \in Changing => pc[u] \in Changing
    BY <1>6 DEF ExitTrack, Changing, TypeOK
  <2>q. QED BY <1>1, <1>6, <2>1 DEF ExitTrack
<1>7. ASSUME NEW r \in Runners, NEW k \in Keys, Visit(r, k) PROVE ForwardInv'
  <2>1. \A s \in Scopes : pc[s] \notin Changing
    BY <1>7 DEF Visit, MayVisit
  <2>2. /\ UNCHANGED <<registry, pc, inHook>>
        /\ \A q \in Runners : \A h \in pending'[q] : h \in pending[q] \/ h \in hooked
    BY <1>7 DEF Visit, TypeOK
  <2>3. \A q \in Runners : /\ \A h \in pending'[q] : h.sid \in registry'
                           /\ inHook'[q] # NoHook => inHook'[q].sid \in registry'
    BY <2>2, HookedAlive DEF ForwardInv
  <2>q. QED BY <2>1, <2>2, <2>3 DEF ForwardInv
<1>8. ASSUME NEW r \in Runners, RunnerStep(r) PROVE ForwardInv'
  <2>1. ~ OutOfModel(r) /\ UNCHANGED <<registry, pc>>
    BY <1>8 DEF RunnerStep, EnterHook, LeaveHook, OutOfModel
  <2>2. /\ \A q \in Runners : pending'[q] \subseteq pending[q]
        /\ \A q \in Runners : inHook'[q] \in pending[q] \cup {inHook[q], NoHook}
    BY <1>8, ZenonT(30) DEF RunnerStep, EnterHook, LeaveHook, TypeOK
  <2>3. ~ \E s \in Scopes : pc[s] \in Changing
    BY <2>1 DEF ForwardInv, NoForward
  <2>4. \A q \in Runners : /\ \A h \in pending'[q] : h.sid \in registry'
                           /\ inHook'[q] # NoHook => inHook'[q].sid \in registry'
    BY <2>1, <2>2 DEF ForwardInv
  <2>q. QED BY <2>1, <2>3, <2>4 DEF ForwardInv
<1>9. CASE UNCHANGED vars
  BY <1>1, <1>9 DEF vars
<1>q. QED
  BY <1>2, <1>3, <1>4, <1>5, <1>6, <1>7, <1>8, <1>9 DEF Next, Finished

-----------------------------------------------------------------------------
(***************************************************************************)
(* Blocks of track().                                                      *)
(***************************************************************************)
Attaching(s) == pc[s] \in {"attach", "install", "store"}

TrackInv ==
  \A s \in Scopes :
    /\ Attaching(s) /\ ~ track[s] => leftOn[s] # {}
    /\ leftOn[s] = {} /\ HooksOf(sid[s]) # {} =>
         depth[s] > 0 \/ Attaching(s) \/ InLoop(s)

LEMMA TrackStep ==
  ASSUME LifeInv, TrackInv, [Next]_vars
  PROVE  TrackInv'
<1> USE DEF LifeInv, sessionVars, hookVars, attachVars, scopeVars, runnerVars
<1>1. ASSUME NEW s \in Scopes,
             \A u \in Scopes \ {s} :
               /\ UNCHANGED <<pc[u], track[u], leftOn[u], depth[u], sid[u]>>
               /\ HooksOf(sid[u])' = HooksOf(sid[u]),
             Attaching(s)' /\ ~ track'[s] => leftOn'[s] # {},
             leftOn'[s] = {} /\ HooksOf(sid[s])' # {} =>
               depth'[s] > 0 \/ Attaching(s)' \/ InLoop(s)'
      PROVE  TrackInv'
  BY <1>1 DEF TrackInv, Attaching, InLoop
<1>2. ASSUME UNCHANGED <<pc, track, leftOn, depth, sid, hooked>> PROVE TrackInv'
  BY <1>2 DEF TrackInv, Attaching, InLoop, HooksOf
<1>3. ASSUME NEW s \in Scopes, Construct(s) PROVE TrackInv'
  <2>1. HooksOf(counter') = {}
    <3>1. \A u \in Scopes : sid[u] <= counter /\ counter \in Nat /\ counter' = counter + 1
      BY <1>3, IdsTyped DEF Construct, SessionInv, TypeOK
    <3>2. \A h \in hooked : \E u \in Scopes : sid[u] = h.sid
      BY DEF HookInv, HeldInv
    <3>q. QED BY <3>1, <3>2 DEF HooksOf
  <2>2. sid'[s] = counter' /\ pc'[s] = "idle" /\ hooked' = hooked
        /\ \A u \in Scopes \ {s} : UNCHANGED <<pc[u], track[u], leftOn[u], depth[u], sid[u]>>
    BY <1>3 DEF Construct, TypeOK
  <2>3. HooksOf(sid[s])' = {} /\ \A u \in Scopes \ {s} : HooksOf(sid[u])' = HooksOf(sid[u])
    BY <2>1, <2>2 DEF HooksOf
  <2>q. QED BY <1>1, <2>2, <2>3 DEF Attaching
<1>4. ASSUME NEW s \in Scopes, UNCHANGED <<sid, hooked>>,
             \A u \in Scopes \ {s} : UNCHANGED <<pc[u], track[u], leftOn[u], depth[u]>>,
             Attaching(s)' /\ ~ track'[s] => leftOn'[s] # {},
             leftOn'[s] = {} /\ HooksOf(sid[s]) # {} =>
               depth'[s] > 0 \/ Attaching(s)' \/ InLoop(s)'
      PROVE  TrackInv'
  BY <1>1, <1>4 DEF HooksOf
<1>5. ASSUME NEW s \in Scopes, BeginAttach(s) \/ BeginTrack(s) PROVE TrackInv'
  <2>1. /\ UNCHANGED <<sid, hooked>> /\ Attaching(s)'
        /\ \A u \in Scopes \ {s} : UNCHANGED <<pc[u], track[u], leftOn[u], depth[u]>>
        /\ ~ track'[s] => leftOn'[s] # {}
    <3>1. CASE BeginAttach(s)
      BY <3>1 DEF BeginAttach, Attaching, TypeOK
    <3>2. CASE BeginTrack(s)
      BY <3>2 DEF BeginTrack, Attaching, TypeOK
    <3>q. QED BY <1>5, <3>1, <3>2
  <2>q. QED BY <1>4, <2>1
<1>6. ASSUME NEW s \in Scopes, Resolve(s) \/ RegisterRaises(s) PROVE TrackInv'
  <2>1. CASE Resolve(s)
    <3>1. /\ UNCHANGED <<sid, hooked, track, leftOn, depth>> /\ Attaching(s) /\ Attaching(s)'
          /\ \A u \in Scopes \ {s} : pc'[u] = pc[u]
      BY <2>1 DEF Resolve, Attaching, TypeOK
    <3>q. QED BY <1>4, <3>1 DEF TrackInv
  <2>2. CASE RegisterRaises(s)
    <3>1. /\ UNCHANGED <<sid, hooked, track, depth>> /\ leftOn'[s] # {}
          /\ \A u \in Scopes \ {s} : UNCHANGED <<pc[u], leftOn[u]>>
      BY <2>2 DEF RegisterRaises, TypeOK
    <3>q. QED BY <1>4, <3>1
  <2>q. QED BY <1>6, <2>1, <2>2
<1>7. ASSUME NEW s \in Scopes, Install(s) PROVE TrackInv'
  <2>1. /\ UNCHANGED <<sid, track, leftOn, depth>> /\ Attaching(s) /\ Attaching(s)'
        /\ \A u \in Scopes \ {s} : pc'[u] = pc[u]
        /\ hooked' = hooked \cup {new'[s]} /\ sid[s] # None
    BY <1>7 DEF Install, Attaching, TypeOK, SessionInv
  <2>2. new'[s].sid = sid[s]
    BY <1>7, InstallTyped
  <2>3. \A u \in Scopes \ {s} : HooksOf(sid[u])' = HooksOf(sid[u])
    BY <2>1, <2>2 DEF HooksOf, SessionInv
  <2>q. QED BY <1>1, <2>1, <2>3 DEF TrackInv
<1>8. ASSUME NEW s \in Scopes, StoreHandle(s) PROVE TrackInv'
  <2>1. /\ UNCHANGED <<sid, hooked, track, leftOn, depth>> /\ Attaching(s) /\ Attaching(s)'
        /\ \A u \in Scopes \ {s} : pc'[u] = pc[u]
    BY <1>8 DEF StoreHandle, Attaching, TypeOK
  <2>q. QED BY <1>4, <2>1 DEF TrackInv
<1>9. ASSUME NEW s \in Scopes, AttachReturns(s) PROVE TrackInv'
  <2>1. /\ UNCHANGED <<sid, hooked, track, leftOn>> /\ Attaching(s) /\ ~ Attaching(s)'
        /\ \A u \in Scopes \ {s} : UNCHANGED <<pc[u], depth[u]>>
        /\ track[s] => depth'[s] > 0
    <3>1. track[s] => depth' = [depth EXCEPT ![s] = @ + 1]
      BY <1>9 DEF AttachReturns
    <3>2. track[s] => depth'[s] > 0
      BY <3>1 DEF TypeOK
    <3>q. QED BY <1>9, <3>2 DEF AttachReturns, Attaching, TypeOK
  <2>q. QED BY <1>4, <2>1 DEF TrackInv
<1>10. ASSUME NEW s \in Scopes, ExitTrack(s) PROVE TrackInv'
  <2>1. CASE sid[s] # None
    <3>1. /\ UNCHANGED <<sid, hooked, track, leftOn>> /\ InLoop(s)' /\ ~ Attaching(s)'
          /\ \A u \in Scopes \ {s} : UNCHANGED <<pc[u], depth[u]>>
      BY <1>10, <2>1 DEF ExitTrack, InLoop, Attaching, TypeOK
    <3>q. QED BY <1>4, <3>1
  <2>2. CASE sid[s] = None
    <3>1. /\ UNCHANGED <<sid, hooked, track, leftOn, pc>> /\ ~ Attaching(s)
          /\ \A u \in Scopes \ {s} : UNCHANGED depth[u]
      BY <1>10, <2>2 DEF ExitTrack, Attaching, TypeOK
    <3>2. HooksOf(sid[s]) = {}
      BY <2>2 DEF HooksOf, TypeOK, Hook, None
    <3>q. QED BY <1>4, <3>1, <3>2 DEF Attaching
  <2>q. QED BY <2>1, <2>2
<1>11. ASSUME NEW s \in Scopes, BeginRemove(s) PROVE TrackInv'
  <2>1. /\ UNCHANGED <<sid, hooked, track, leftOn, depth>> /\ InLoop(s)' /\ ~ Attaching(s)'
        /\ \A u \in Scopes \ {s} : pc'[u] = pc[u]
    BY <1>11 DEF BeginRemove, InLoop, Attaching, TypeOK
  <2>q. QED BY <1>4, <2>1
<1>12. ASSUME NEW s \in Scopes, RemoveHandle(s) PROVE TrackInv'
  <2>1. /\ UNCHANGED <<sid, track, leftOn, depth, pc>> /\ InLoop(s) /\ hooked' \subseteq hooked
    BY <1>12 DEF RemoveHandle, InLoop
  <2>2. \A u \in Scopes : HooksOf(sid[u])' \subseteq HooksOf(sid[u])
    BY <2>1 DEF HooksOf
  <2>q. QED BY <2>1, <2>2 DEF TrackInv, Attaching, InLoop
<1>13. ASSUME NEW s \in Scopes, DetachReturns(s) PROVE TrackInv'
  <2>1. HooksOf(sid[s]) = {}
    BY <1>13, LoopOverHooks DEF DetachReturns
  <2>2. /\ UNCHANGED <<sid, hooked, track, depth>> /\ ~ Attaching(s)'
        /\ \A u \in Scopes \ {s} : UNCHANGED <<pc[u], leftOn[u]>>
    BY <1>13 DEF DetachReturns, Attaching, TypeOK
  <2>q. QED BY <1>4, <2>1, <2>2
<1>14. ASSUME NEW s \in Scopes, DestroyReturns(s) PROVE TrackInv'
  <2>1. HooksOf(sid[s]) = {}
    BY <1>14, LoopOverHooks DEF DestroyReturns
  <2>2. /\ UNCHANGED <<sid, hooked, track, depth, leftOn>> /\ ~ Attaching(s)'
        /\ \A u \in Scopes \ {s} : pc'[u] = pc[u]
    BY <1>14 DEF DestroyReturns, Attaching, TypeOK
  <2>q. QED BY <1>4, <2>1, <2>2
<1>15. ASSUME NEW s \in Scopes, Forget(s) PROVE TrackInv'
  <2>1. /\ sid'[s] = None /\ UNCHANGED <<hooked, track, depth>> /\ ~ Attaching(s)'
        /\ \A u \in Scopes \ {s} : UNCHANGED <<pc[u], leftOn[u], sid[u]>>
    BY <1>15 DEF Forget, Attaching, TypeOK
  <2>2. HooksOf(sid[s])' = {} /\ \A u \in Scopes \ {s} : HooksOf(sid[u])' = HooksOf(sid[u])
    BY <2>1 DEF HooksOf, TypeOK, Hook, None
  <2>q. QED BY <1>1, <2>1, <2>2
<1>16. ASSUME NEW r \in Runners, (\E k \in Keys : Visit(r, k)) \/ RunnerStep(r) PROVE TrackInv'
  BY <1>2, <1>16 DEF Visit, RunnerStep, EnterHook, LeaveHook
<1>17. CASE UNCHANGED vars
  BY <1>2, <1>17 DEF vars
<1>q. QED
  BY <1>3, <1>5, <1>6, <1>7, <1>8, <1>9, <1>10, <1>11, <1>12, <1>13, <1>14, <1>15, <1>16, <1>17
  DEF Next, ScopeStep, Finished

-----------------------------------------------------------------------------
(***************************************************************************)
(* Isolation.                                                              *)
(***************************************************************************)

\* What nobody else may do to a session.
Untouched(s) ==
  /\ sid[s] \in registry => sid[s] \in registry'
  /\ UNCHANGED <<handles[sid[s]], HooksOf(sid[s])>>
  /\ captured'[sid[s]] >= captured[sid[s]]

Still(s) == UNCHANGED <<pc[s], at[s], depth[s]>>

\* The calls of a scope move its own thread, and touch its own session only.
LEMMA ScopeActsAlone ==
  ASSUME LifeInv, NEW s \in Scopes, sid[s] # None, Still(s), NEW u \in Scopes,
         \/ Construct(u) \/ BeginAttach(u) \/ BeginTrack(u) \/ ExitTrack(u) \/ BeginRemove(u)
         \/ ScopeStep(u)
  PROVE  Untouched(s)
<1> USE DEF LifeInv, sessionVars, hookVars, attachVars
<1>1. sid[s] \in Ids /\ captured[sid[s]] \in Nat
  BY DEF TypeOK
<1>2. ASSUME UNCHANGED <<handles, hooked, captured>>, registry \subseteq registry',
             sid'[s] = sid[s]
      PROVE  Untouched(s)
  BY <1>1, <1>2 DEF Untouched, HooksOf
<1>3. CASE BeginAttach(u) \/ ExitTrack(u) \/ BeginRemove(u)
  BY <1>2, <1>3 DEF BeginAttach, ExitTrack, BeginRemove
<1>4. CASE Construct(u) \/ Resolve(u) \/ RegisterRaises(u) \/ AttachReturns(u) \/ Forget(u)
  <2>1. sid'[s] = sid[s]
    BY <1>4 DEF Construct, Resolve, RegisterRaises, AttachReturns, Forget, Still, TypeOK
  <2>q. QED
    BY <1>2, <1>4, <2>1 DEF Construct, Resolve, RegisterRaises, AttachReturns, Forget
<1>5. u # s => sid[u] # sid[s]
  BY DEF SessionInv
<1>6. CASE BeginTrack(u)
  <2>1. u # s
    BY <1>6 DEF BeginTrack, Begin, Still, TypeOK
  <2>q. QED BY <1>1, <1>5, <1>6, <2>1 DEF BeginTrack, Untouched, HooksOf, TypeOK
<1>7. CASE Install(u)
  <2>1. u # s
    BY <1>7 DEF Install, Still, TypeOK
  <2>2. hooked' = hooked \cup {new'[u]} /\ UNCHANGED <<registry, handles, captured, sid>>
    BY <1>7 DEF Install, TypeOK
  <2>3. new'[u].sid = sid[u]
    BY <1>7, InstallTyped
  <2>q. QED BY <1>1, <1>5, <2>1, <2>2, <2>3 DEF Untouched, HooksOf
<1>8. CASE StoreHandle(u)
  <2>1. u # s
    BY <1>8 DEF StoreHandle, Still, TypeOK
  <2>q. QED BY <1>1, <1>5, <1>8, <2>1 DEF StoreHandle, Untouched, HooksOf, TypeOK
<1>9. CASE RemoveHandle(u)
  <2>1. u # s
    <3>1. at'[u] = at[u] + 1 /\ at[u] \in Nat
      BY <1>9 DEF RemoveHandle, TypeOK
    <3>q. QED BY <3>1 DEF Still
  <2>2. handles[sid[u]][at[u]].sid = sid[u]
    BY <1>9, RemoveHandleTyped DEF HookInv, HandlesInv
  <2>3. hooked' = hooked \ {handles[sid[u]][at[u]]}
        /\ UNCHANGED <<registry, handles, captured, sid>>
    BY <1>9 DEF RemoveHandle
  <2>q. QED BY <1>1, <1>5, <2>1, <2>2, <2>3 DEF Untouched, HooksOf
<1>10. CASE DetachReturns(u) \/ DestroyReturns(u)
  <2>1. u # s
    BY <1>10 DEF DetachReturns, DestroyReturns, LoopDone, Still, TypeOK
  <2>2. /\ UNCHANGED <<hooked, sid>> /\ registry \ {sid[u]} \subseteq registry'
        /\ handles' = [handles EXCEPT ![sid[u]] = <<>>]
        /\ captured' = captured \/ captured' = [captured EXCEPT ![sid[u]] = 0]
    BY <1>10 DEF DetachReturns, DestroyReturns
  <2>q. QED BY <1>1, <1>5, <2>1, <2>2 DEF Untouched, HooksOf, TypeOK
<1>q. QED
  BY <1>3, <1>4, <1>6, <1>7, <1>8, <1>9, <1>10 DEF ScopeStep

LEMMA IsolationStep ==
  ASSUME LifeInv, [Next]_vars, NEW s \in Scopes, sid[s] # None, Still(s)
  PROVE  Untouched(s)
<1> USE DEF LifeInv, sessionVars, hookVars, scopeVars, runnerVars
<1>1. sid[s] \in Ids /\ captured[sid[s]] \in Nat /\ captured \in [Ids -> Nat]
  BY DEF TypeOK
<1>2. ASSUME NEW r \in Runners, (\E k \in Keys : Visit(r, k)) \/ EnterHook(r)
      PROVE  Untouched(s)
  BY <1>1, <1>2 DEF Visit, EnterHook, Untouched, HooksOf
<1>3. ASSUME NEW r \in Runners, LeaveHook(r) PROVE Untouched(s)
  <2>1. captured' = [captured EXCEPT ![inHook[r].sid] = @ + 1]
        /\ UNCHANGED <<registry, handles, hooked, sid>>
    BY <1>3 DEF LeaveHook
  <2>2. captured'[sid[s]] \in {captured[sid[s]], captured[sid[s]] + 1}
    BY <1>1, <2>1
  <2>q. QED BY <1>1, <2>1, <2>2 DEF Untouched, HooksOf
<1>4. CASE UNCHANGED vars
  BY <1>1, <1>4 DEF vars, Untouched, HooksOf
<1>q. QED BY <1>2, <1>3, <1>4, ScopeActsAlone DEF Next, RunnerStep, Finished

-----------------------------------------------------------------------------
(***************************************************************************)
(* The theorems.                                                           *)
(***************************************************************************)

\* Types, and C++ never owns more than two references on a handle
\* (hook_register.cpp).
THEOREM TypesHold == Spec => []TypeOK
<1>1. Init => LifeInv
  BY LifeInit
<1>2. LifeInv /\ [Next]_vars => LifeInv'
  BY LifeStep
<1>3. LifeInv => TypeOK
  BY DEF LifeInv
<1>q. QED BY <1>1, <1>2, <1>3, PTL DEF Spec

\* Whatever raises in an attach, every hook that is on has a live handle with
\* its session, once, or is about to (session_register_hooks, store_hook_handle).
THEOREM NoHookOrphaned == Spec => []NoOrphanHooks
<1>1. Init => LifeInv
  BY LifeInit
<1>2. LifeInv /\ [Next]_vars => LifeInv'
  BY LifeStep
<1>3. LifeInv => NoOrphanHooks
  <2> USE DEF LifeInv, HookInv
  <2> SUFFICES ASSUME LifeInv, NEW h \in hooked
               PROVE  /\ refs[h.n] > 0
                      /\ \/ \E s \in Scopes : new[s] = h
                         \/ Cardinality({j \in DOMAIN handles[h.sid] : handles[h.sid][j] = h}) = 1
    BY DEF NoOrphanHooks
  <2>1. PICK s \in Scopes : sid[s] = h.sid /\ Held(s, h)
    BY DEF HeldInv
  <2>2. h # NoHook /\ sid[s] # None
    BY <2>1 DEF TypeOK, Hook, NoHook, None
  <2>3. CASE new[s] = h
    BY <2>2, <2>3 DEF NewInv
  <2>4. CASE new[s] # h
    <3>1. PICK j \in DOMAIN handles[h.sid] : handles[h.sid][j] = h /\ (InLoop(s) => j >= at[s])
      BY <2>1, <2>4 DEF Held
    <3>2. refs[h.n] = 2
      BY <2>1, <2>2, <3>1 DEF RefsInv
    <3>3. h.sid \in Ids
      BY <2>1, <2>2 DEF TypeOK
    <3>4. {l \in DOMAIN handles[h.sid] : handles[h.sid][l] = h} = {j}
      BY <3>1, <3>3 DEF HandlesInv
    <3>q. QED BY <3>2, <3>4, FS_Singleton
  <2>q. QED BY <2>3, <2>4
<1>q. QED BY <1>1, <1>2, <1>3, PTL DEF Spec

\* No hook outlives the SessionState its thunk points to, in a program that
\* attaches and removes between forward passes (session_destroy).
THEOREM NoDanglingState ==
  ASSUME ~ Overlap
  PROVE  Spec => []StateAlive
<1>1. Init => LifeInv /\ ForwardInv
  BY LifeInit DEF Init, ForwardInv, Changing, NoForward, OutOfModel
<1>2. LifeInv /\ ForwardInv /\ [Next]_vars => LifeInv' /\ ForwardInv'
  BY LifeStep, ForwardStep
<1>3. LifeInv /\ ForwardInv => StateAlive
  BY HookedAlive DEF ForwardInv, StateAlive
<1>q. QED BY <1>1, <1>2, <1>3, PTL DEF Spec

\* The exit of a track() block takes off all hooks its scope has, unless an
\* attach() or a failed attach left some (track, session_detach_hooks).
THEOREM BlocksDetach == Spec => []ExitDetaches
<1>1. Init => LifeInv /\ TrackInv
  BY LifeInit DEF Init, TrackInv, Attaching, HooksOf
<1>2. LifeInv /\ TrackInv /\ [Next]_vars => LifeInv' /\ TrackInv'
  BY LifeStep, TrackStep
<1>3. TrackInv => ExitDetaches
  BY DEF TrackInv, ExitDetaches, Attaching, InLoop
<1>q. QED BY <1>1, <1>2, <1>3, PTL DEF Spec

\* Sessions are isolated: a scope whose thread stands still keeps its session,
\* its hooks, its handles and what it captured, overlapping or not.
THEOREM SessionsIsolated == Spec => Isolation
<1>1. Init => LifeInv
  BY LifeInit
<1>2. LifeInv /\ [Next]_vars =>
        LifeInv' /\ [\A s \in Scopes : sid[s] # None /\ Still(s) => Untouched(s)]_vars
  BY LifeStep, IsolationStep
<1>3. [\A s \in Scopes : sid[s] # None /\ Still(s) => Untouched(s)]_vars =>
      [\A s \in Scopes :
        sid[s] # None /\ UNCHANGED <<pc[s], at[s], depth[s]>> =>
          /\ sid[s] \in registry => sid[s] \in registry'
          /\ UNCHANGED <<handles[sid[s]], HooksOf(sid[s])>>
          /\ captured'[sid[s]] >= captured[sid[s]]]_vars
  BY DEF Still, Untouched
<1>q. QED BY <1>1, <1>2, <1>3, PTL DEF Spec, Isolation
=============================================================================
