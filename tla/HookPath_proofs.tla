--------------------------- MODULE HookPath_proofs ---------------------------
(***************************************************************************)
(* Theorems about HookPath, for every set of threads and keys, every order *)
(* of fires and every policy.                                              *)
(***************************************************************************)
EXTENDS HookPath, FiniteSetTheorems, TLAPS

\* What make_config yields is a policy and two integers, and the cap of MAX_K
\* is positive (csrc/session.cpp, make_config).
LEMMA CfgType ==
  ASSUME TypeOK
  PROVE
  /\ cfg.policy \in Policies /\ cfg.sampleEvery \in Int /\ cfg.maxBatches \in Int
  /\ cfg.policy = "MAX_K" => cfg.maxBatches > 0
BY DEF TypeOK, Scope, cfg, MakeConfig, Knobs, Policies

\* A session's scope, hence the config of its hooks, never changes.
SameScope == scope' = scope /\ cfg' = cfg /\ \A k : KeepsAll(k)' = KeepsAll(k)

LEMMA HookScope ==
  ASSUME NEW t \in Threads, HookStep(t) \/ StartForward(t)
  PROVE  SameScope
<1>1. scope' = scope
  BY DEF StartForward, HookStep, ShouldCapture, LockLoad, Load, Reduce, ReduceRaises,
         LockStore, Store, LeaveHook, ForwardRaises
<1> QED
  BY <1>1 DEF SameScope, cfg, KeepsAll

LEMMA CallScope ==
  ASSUME NEW k \in Keys,
         ClearAccum(k) \/ ResetCounter(k) \/ ReadbackAccum(k) \/ InitAccumulator(k)
  PROVE  SameScope
<1>1. scope' = scope
  BY DEF ClearAccum, ResetCounter, ReadbackAccum, InitAccumulator, Visited
<1> QED
  BY <1>1 DEF SameScope, cfg, KeepsAll

LEMMA BeginScope ==
  ASSUME BeginSomeCall \/ UNCHANGED vars
  PROVE  SameScope
<1>1. scope' = scope
  BY DEF BeginSomeCall, BeginClear, BeginReadback, BeginInitAccumulator, BeginCall, vars
<1> QED
  BY <1>1 DEF SameScope, cfg, KeepsAll

\* The key of a thread's fire is a key of the session, and the fire is a pair.
LEMMA FireType ==
  ASSUME TypeOK, NEW t \in Threads
  PROVE  KeyOf(t) \in Keys /\ FireOf(t) \in Fire
BY HookPathAssumption DEF TypeOK, KeyOf, FireOf, Fire

-----------------------------------------------------------------------------
(***************************************************************************)
(* Type correctness.                                                       *)
(***************************************************************************)
LEMMA InitType == Init => TypeOK
BY HookPathAssumption DEF Init, TypeOK, Tensor, Fire, PCs, Phases

LEMMA StoredType ==
  ASSUME TypeOK, NEW k \in Keys, NEW r \in Tensor
  PROVE  Stored(k, r) \in Seq(Tensor)
<1>1. data[k] \in Seq(Tensor)
  BY DEF TypeOK
<1>2. CASE k \in scope.reduced
  BY <1>1, <1>2 DEF Stored
<1>3. CASE k \notin scope.reduced
  BY <1>1, <1>3 DEF Stored
<1> QED
  BY <1>2, <1>3

LEMMA HookStepType ==
  ASSUME TypeOK, NEW t \in Threads, HookStep(t)
  PROVE  TypeOK'
<1> USE FireType DEF TypeOK
<1>1. CASE ShouldCapture(t)
  <2>1. Tick(cfg, count[KeyOf(t)]) \in Nat
    BY DEF Tick
  <2>2. count' \in [Keys -> Nat] /\ pc' \in [Threads -> PCs]
    BY <1>1, <2>1 DEF ShouldCapture, PCs
  <2>3. admitted' \in [Keys -> SUBSET Fire]
    <3>1. KeyOf(t) \in Keys /\ FireOf(t) \in Fire /\ admitted \in [Keys -> SUBSET Fire]
      BY FireType DEF TypeOK
    <3>2. CASE Admits(cfg, count[KeyOf(t)])
      <4>1. admitted' = [admitted EXCEPT ![KeyOf(t)] = @ \cup {FireOf(t)}]
        BY <1>1, <3>2 DEF ShouldCapture
      <4> QED
        BY <3>1, <4>1
    <3>3. CASE ~ Admits(cfg, count[KeyOf(t)])
      BY <1>1, <3>1, <3>3 DEF ShouldCapture
    <3> QED
      BY <3>2, <3>3
  <2> QED
    BY <1>1, <2>2, <2>3 DEF ShouldCapture, apiVars
<1>2. CASE LockLoad(t)
  BY <1>2 DEF LockLoad, apiVars, ghosts, PCs
<1>3. CASE Load(t)
  <2>1. acc' \in [Threads -> Tensor]
    <3>1. data[KeyOf(t)] \in Seq(Tensor) /\ <<>> \in Tensor
      BY DEF Tensor
    <3> QED
      BY <1>3, <3>1 DEF Load
  <2> QED
    BY <1>3, <2>1 DEF Load, apiVars, ghosts, PCs
<1>4. CASE Reduce(t)
  <2>1. Append(acc[t], FireOf(t)) \in Tensor /\ <<FireOf(t)>> \in Tensor
    BY DEF Tensor
  <2> QED
    BY <1>4, <2>1 DEF Reduce, apiVars, ghosts, PCs
<1>5. CASE ReduceRaises(t)
  <2>1. Len(Fires) \in 1 .. Len(Fires)
    BY HookPathAssumption
  <2>2. raised' \in [Keys -> SUBSET Fire]
    BY <1>5 DEF ReduceRaises
  <2> QED
    BY <1>5, <2>1, <2>2 DEF ReduceRaises, apiVars, PCs
<1>6. CASE LockStore(t)
  BY <1>6 DEF LockStore, apiVars, ghosts, PCs
<1>7. CASE Store(t)
  <2>1. Stored(KeyOf(t), result[t]) \in Seq(Tensor)
    BY StoredType
  <2> QED
    BY <1>7, <2>1 DEF Store, apiVars, ghosts, PCs
<1>8. CASE LeaveHook(t)
  <2>1. Len(Fires) \in Nat /\ pos[t] \in 1 .. Len(Fires)
    BY HookPathAssumption
  <2>2. CASE pos[t] < Len(Fires)
    <3>1. pos[t] + 1 \in 1 .. Len(Fires)
      BY <2>1, <2>2
    <3> QED
      BY <1>8, <2>2, <3>1 DEF LeaveHook, apiVars, ghosts, PCs
  <2>3. CASE ~ (pos[t] < Len(Fires))
    BY <1>8, <2>3 DEF LeaveHook, apiVars, ghosts, PCs
  <2> QED
    BY <2>2, <2>3
<1>9. CASE ForwardRaises(t)
  BY <1>9 DEF ForwardRaises, apiVars, ghosts, PCs
<1> QED
  BY <1>1, <1>2, <1>3, <1>4, <1>5, <1>6, <1>7, <1>8, <1>9 DEF HookStep

LEMMA VisitedType ==
  ASSUME TypeOK, NEW k \in Keys, NEW next \in Phases, NEW ks \in SUBSET Keys,
         Visited(k, next, ks)
  PROVE  api' \in Phases /\ todo' \subseteq Keys
BY DEF TypeOK, Visited

LEMMA CallStepType ==
  ASSUME TypeOK, NEW k \in Keys,
         ClearAccum(k) \/ ResetCounter(k) \/ ReadbackAccum(k) \/ InitAccumulator(k)
  PROVE  TypeOK'
<1> DEFINE Typed == /\ data' \in [Keys -> Seq(Tensor)] /\ count' \in [Keys -> Nat]
                    /\ admitted' \in [Keys -> SUBSET Fire]
                    /\ raised' \in [Keys -> SUBSET Fire] /\ seeded' \subseteq Keys
                    /\ api' \in Phases /\ todo' \subseteq Keys
<1>0. /\ <<>> \in Seq(Tensor) /\ << <<Seed>> >> \in Seq(Tensor)
      /\ "reset" \in Phases /\ "idle" \in Phases
  BY DEF Seed, Tensor, Fire, Phases
<1>5. Forget(k) => /\ admitted' \in [Keys -> SUBSET Fire]
                   /\ raised' \in [Keys -> SUBSET Fire]
  BY DEF TypeOK, Forget
<1>6. data[k] \in Seq(Tensor)
  BY DEF TypeOK
<1>1. CASE ClearAccum(k)
  <2>1. Visited(k, "reset", Keys)
    BY <1>1 DEF ClearAccum
  <2>2. PICK after \in Seq(Tensor) : data' = [data EXCEPT ![k] = after]
    BY <1>0, <1>1, <1>6 DEF ClearAccum
  <2>3. Forget(k) /\ UNCHANGED count /\ seeded' \subseteq Keys
    BY <1>1 DEF ClearAccum, TypeOK
  <2>4. data' \in [Keys -> Seq(Tensor)] /\ count' \in [Keys -> Nat]
    BY <2>2, <2>3 DEF TypeOK
  <2>5. Typed
    BY <1>0, <1>5, <2>1, <2>3, <2>4, VisitedType
  <2> QED
    BY <2>1, <2>5 DEF TypeOK, Visited, threadVars
<1>2. CASE ResetCounter(k)
  <2>1. Visited(k, "idle", {})
    BY <1>2 DEF ResetCounter
  <2>2. Typed
    BY <1>0, <1>2, <2>1, VisitedType DEF TypeOK, ResetCounter, ghosts
  <2> QED
    BY <2>1, <2>2 DEF TypeOK, Visited, threadVars
<1>3. CASE ReadbackAccum(k)
  <2>1. Visited(k, "idle", {})
    BY <1>3 DEF ReadbackAccum
  <2>2. Typed
    BY <1>0, <1>3, <2>1, VisitedType DEF TypeOK, ReadbackAccum, ghosts
  <2> QED
    BY <2>1, <2>2 DEF TypeOK, Visited, threadVars
<1>4. CASE InitAccumulator(k)
  <2>1. Visited(k, "idle", {})
    BY <1>4 DEF InitAccumulator
  <2>2. PICK after \in Seq(Tensor) : data' = [data EXCEPT ![k] = after]
    BY <1>0, <1>4, <1>6 DEF InitAccumulator
  <2>3. Forget(k) /\ UNCHANGED count /\ seeded' \subseteq Keys
    BY <1>4 DEF InitAccumulator, TypeOK
  <2>4. data' \in [Keys -> Seq(Tensor)] /\ count' \in [Keys -> Nat]
    BY <2>2, <2>3 DEF TypeOK
  <2>5. Typed
    BY <1>0, <1>5, <2>1, <2>3, <2>4, VisitedType
  <2> QED
    BY <2>1, <2>5 DEF TypeOK, Visited, threadVars
<1> QED
  BY <1>1, <1>2, <1>3, <1>4

LEMMA BeginType ==
  ASSUME TypeOK, BeginSomeCall
  PROVE  TypeOK'
BY DEF TypeOK, BeginSomeCall, BeginClear, BeginReadback, BeginInitAccumulator,
       BeginCall, threadVars, ghosts, Phases

LEMMA StartType ==
  ASSUME TypeOK, NEW t \in Threads, StartForward(t)
  PROVE  TypeOK'
BY HookPathAssumption, SMTT(20) DEF TypeOK, StartForward, apiVars, ghosts, PCs

LEMMA NextType == TypeOK /\ [Next]_vars => TypeOK'
<1> SUFFICES ASSUME TypeOK, [Next]_vars PROVE TypeOK'
  OBVIOUS
<1>1. CASE Next
  BY <1>1, HookStepType, CallStepType, BeginType, StartType
     DEF Next, CallStep, Finished, vars, threadVars, apiVars, ghosts, TypeOK
<1>2. CASE UNCHANGED vars
  BY <1>2 DEF vars, threadVars, apiVars, ghosts, TypeOK
<1> QED
  BY <1>1, <1>2

\* Every reachable state is well typed.
THEOREM TypeCorrect == Spec => []TypeOK
<1>1. Init => TypeOK
  BY InitType
<1>2. TypeOK /\ [Next]_vars => TypeOK'
  BY NextType
<1> QED
  BY <1>1, <1>2, PTL DEF Spec

-----------------------------------------------------------------------------
(***************************************************************************)
(* Mutual exclusion of the hooks on one layer's vector.                    *)
(***************************************************************************)

\* A mutex is held by the thread between its lock and its unlock, if any.
LockInv ==
  /\ \A t \in Threads : pc[t] \in {"load", "store"} => mtx[KeyOf(t)] = t
  /\ \A k \in Keys : \A t \in Threads :
       mtx[k] = t => pc[t] \in {"load", "store"} /\ KeyOf(t) = k

LEMMA LockInvStep == TypeOK /\ LockInv /\ [Next]_vars => LockInv'
<1> SUFFICES ASSUME TypeOK, LockInv, [Next]_vars PROVE LockInv'
  OBVIOUS
<1> USE DEF LockInv, KeyOf
<1>1. ASSUME NEW t \in Threads, StartForward(t) PROVE LockInv'
  BY <1>1 DEF StartForward, TypeOK
<1>2. ASSUME NEW t \in Threads, HookStep(t) PROVE LockInv'
  <2> DEFINE Section == {"load", "store"}
             Own == /\ pc'[t] \in Section => mtx'[KeyOf(t)'] = t
                    /\ \A k \in Keys : mtx'[k] = t => pc'[t] \in Section /\ KeyOf(t)' = k
  <2>0. KeyOf(t) \in Keys /\ t # NoOne
    BY FireType, HookPathAssumption
  <2>1. CASE ShouldCapture(t) \/ Reduce(t) \/ ReduceRaises(t) \/ LeaveHook(t) \/ ForwardRaises(t)
    <3>1. /\ UNCHANGED mtx /\ pc[t] \notin Section /\ pc'[t] \notin Section
          /\ \A u \in Threads \ {t} : pc'[u] = pc[u] /\ pos'[u] = pos[u]
      BY <2>1 DEF ShouldCapture, Reduce, ReduceRaises, LeaveHook, ForwardRaises, TypeOK
    <3> QED
      BY <3>1
  <2>2. CASE LockLoad(t) \/ LockStore(t)
    <3>1. /\ mtx[KeyOf(t)] = NoOne /\ mtx' = [mtx EXCEPT ![KeyOf(t)] = t]
          /\ pc[t] \notin Section /\ pc'[t] \in Section /\ UNCHANGED pos
          /\ \A u \in Threads \ {t} : pc'[u] = pc[u]
      BY <2>2 DEF LockLoad, LockStore, TypeOK
    <3>2. \A k \in Keys : mtx'[k] = IF k = KeyOf(t) THEN t ELSE mtx[k]
      BY <3>1 DEF TypeOK
    <3>3. \A u \in Threads : u # NoOne
      BY HookPathAssumption
    <3>4. Own
      BY <2>0, <3>1, <3>2
    <3> QED
      BY <2>0, <3>1, <3>2, <3>3, <3>4, FireType
  <2>3. CASE Load(t) \/ Store(t)
    <3>1. /\ mtx' = [mtx EXCEPT ![KeyOf(t)] = NoOne] /\ mtx[KeyOf(t)] = t
          /\ pc[t] \in Section /\ pc'[t] \notin Section /\ UNCHANGED pos
          /\ \A u \in Threads \ {t} : pc'[u] = pc[u]
      BY <2>3 DEF Load, Store, TypeOK
    <3>2. \A k \in Keys : mtx'[k] = IF k = KeyOf(t) THEN NoOne ELSE mtx[k]
      BY <3>1 DEF TypeOK
    <3>3. Own
      BY <2>0, <3>1, <3>2
    <3>4. \A u \in Threads : u # NoOne
      BY HookPathAssumption
    <3> QED
      BY <2>0, <3>1, <3>2, <3>3, <3>4, FireType
  <2> QED
    BY <1>2, <2>1, <2>2, <2>3 DEF HookStep
<1>3. CASE BeginSomeCall \/ CallStep
  <2>1. UNCHANGED <<mtx, pc, pos>>
    BY <1>3 DEF BeginSomeCall, BeginClear, BeginReadback, BeginInitAccumulator, BeginCall,
                CallStep, ClearAccum, ResetCounter, ReadbackAccum, InitAccumulator,
                Visited, threadVars
  <2> QED
    BY <2>1
<1>4. CASE UNCHANGED vars
  BY <1>4 DEF vars, threadVars
<1> QED
  BY <1>1, <1>2, <1>3, <1>4 DEF Next, Finished

\* Hooks of different threads never access one layer's vector together.
THEOREM HooksNeverRace == Spec => []HooksRaceFree
<1>1. Init => LockInv
  BY HookPathAssumption DEF Init, LockInv
<1>2. LockInv => HooksRaceFree
  BY DEF LockInv, HooksRaceFree
<1> QED
  BY <1>1, <1>2, TypeCorrect, LockInvStep, PTL DEF Spec

-----------------------------------------------------------------------------
(***************************************************************************)
(* The memory bound of MAX_K, for programs that make no session call while *)
(* a forward pass is running.                                              *)
(***************************************************************************)

\* A session call finds every thread outside the model, and keeps it there.
CallInv == api # "idle" => Quiet

\* session_clear empties every accumulator before it resets any counter.
EmptiedInv ==
  /\ api = "clear" => \A k \in Keys \ todo : admitted[k] = {}
  /\ api = "reset" => \A k \in todo : admitted[k] = {}

\* What an accumulator holds, or a hook carries towards it, was admitted.
HeldInv == \A k \in Keys : Held(k) \subseteq admitted[k]
CarriedInv ==
  \A t \in Threads :
    /\ pc[t] \in InHook => FireOf(t) \in admitted[KeyOf(t)]
    /\ pc[t] = "reduce" => Range(acc[t]) \ {Seed} \subseteq admitted[KeyOf(t)]
    /\ pc[t] \in {"lock_store", "store"} =>
         Range(result[t]) \ {Seed} \subseteq admitted[KeyOf(t)]

\* Under MAX_K no more fires are admitted than counted, nor than allowed.
CountInv ==
  \A k \in Keys :
    /\ IsFiniteSet(admitted[k])
    /\ cfg.policy = "MAX_K" => /\ Cardinality(admitted[k]) <= count[k]
                               /\ Cardinality(admitted[k]) <= cfg.maxBatches

BoundInv == CallInv /\ EmptiedInv /\ HeldInv /\ CarriedInv /\ CountInv

LEMMA BoundInit == Init => BoundInv
<1> SUFFICES ASSUME Init PROVE BoundInv
  OBVIOUS
<1>1. CallInv /\ EmptiedInv /\ CarriedInv
  BY DEF Init, CallInv, EmptiedInv, CarriedInv, InHook
<1>2. HeldInv
  BY DEF Init, HeldInv, Held, Captures
<1>3. CountInv
  BY FS_EmptySet, InitType, CfgType DEF Init, CountInv
<1> QED
  BY <1>1, <1>2, <1>3 DEF BoundInv

LEMMA CapturesMember ==
  ASSUME NEW vec, NEW c
  PROVE  c \in Captures(vec) <=> c # Seed /\ \E i \in DOMAIN vec : c \in Range(vec[i])
<1> DEFINE R == {Range(vec[i]) : i \in DOMAIN vec}
<1>1. c \in UNION R <=> \E S \in R : c \in S
  OBVIOUS
<1>2. (\E S \in R : c \in S) <=> \E i \in DOMAIN vec : c \in Range(vec[i])
  OBVIOUS
<1>3. Captures(vec) = (UNION R) \ {Seed}
  BY DEF Captures
<1> HIDE DEF R
<1> QED
  BY <1>1, <1>2, <1>3

\* A store puts nothing into a vector but what it stores.
LEMMA StoredCaptures ==
  ASSUME TypeOK, NEW k \in Keys, NEW r \in Tensor
  PROVE  Captures(Stored(k, r)) \subseteq Captures(data[k]) \cup (Range(r) \ {Seed})
<1>1. data[k] \in Seq(Tensor)
  BY DEF TypeOK
<1>2. \A i \in DOMAIN Stored(k, r) :
        Stored(k, r)[i] = r \/ \E j \in DOMAIN data[k] : Stored(k, r)[i] = data[k][j]
  <2>1. CASE k \in scope.reduced
    BY <1>1, <2>1 DEF Stored
  <2>2. CASE k \notin scope.reduced
    BY <1>1, <2>2 DEF Stored
  <2> QED
    BY <2>1, <2>2
<1>3. SUFFICES ASSUME NEW c \in Captures(Stored(k, r)), c \notin Range(r)
               PROVE  c \in Captures(data[k])
  BY CapturesMember
<1>4. PICK i \in DOMAIN Stored(k, r) : c \in Range(Stored(k, r)[i])
  BY CapturesMember
<1> QED
  BY <1>2, <1>3, <1>4, CapturesMember

\* The last entry of a vector holds nothing the vector does not hold.
LEMMA LastCaptures ==
  ASSUME TypeOK, NEW k \in Keys, data[k] # <<>>
  PROVE  Range(data[k][Len(data[k])]) \ {Seed} \subseteq Held(k)
<1>1. Len(data[k]) \in DOMAIN data[k]
  BY DEF TypeOK
<1> QED
  BY <1>1, CapturesMember DEF Held

\* The fires folded by one more step of a reduction.
LEMMA RangeAppend ==
  ASSUME NEW s \in Tensor, NEW c \in Fire
  PROVE  Range(Append(s, c)) = Range(s) \cup {c} /\ Range(<<c>>) = {c}
BY DEF Tensor, Range

\* The hook steps that neither admit nor store leave the bound's parts alone.
LEMMA BoundFrame ==
  ASSUME TypeOK, BoundInv, UNCHANGED <<data, count, admitted, api, todo>>, CarriedInv',
         api = "idle", SameScope
  PROVE  BoundInv'
BY DEF BoundInv, CallInv, EmptiedInv, HeldInv, CountInv, Held, SameScope

LEMMA BoundHook ==
  ASSUME TypeOK, BoundInv, NEW t \in Threads, HookStep(t)
  PROVE  BoundInv'
<1> DEFINE k == KeyOf(t)
<1>0. /\ k \in Keys /\ FireOf(t) \in Fire
      /\ api = "idle"
      /\ SameScope
  BY FireType, HookScope DEF BoundInv, CallInv, Quiet, HookStep, ShouldCapture, LockLoad, Load, Reduce,
     ReduceRaises, LockStore, Store, LeaveHook, ForwardRaises
<1> USE DEF CarriedInv, InHook, KeyOf, FireOf
<1>1. CASE ShouldCapture(t)
  <2>1. CASE Admits(cfg, count[k])
    <3>1. /\ admitted' = [admitted EXCEPT ![k] = @ \cup {FireOf(t)}]
          /\ count' = [count EXCEPT ![k] = Tick(cfg, count[k])]
          /\ pc' = [pc EXCEPT ![t] = "lock_load"]
          /\ UNCHANGED <<data, fwd, pos, acc, result, api, todo>>
      BY <1>1, <2>1 DEF ShouldCapture, apiVars
    <3>2. \A l \in Keys : admitted[l] \subseteq admitted'[l]
      BY <3>1 DEF TypeOK
    <3>3. FireOf(t) \in admitted'[k]
      BY <1>0, <3>1 DEF TypeOK
    <3>4. CarriedInv'
      <4> SUFFICES ASSUME NEW u \in Threads
                   PROVE /\ pc'[u] \in InHook => FireOf(u)' \in admitted'[KeyOf(u)']
                         /\ pc'[u] = "reduce" =>
                              Range(acc'[u]) \ {Seed} \subseteq admitted'[KeyOf(u)']
                         /\ pc'[u] \in {"lock_store", "store"} =>
                              Range(result'[u]) \ {Seed} \subseteq admitted'[KeyOf(u)']
        OBVIOUS
      <4>1. KeyOf(u) \in Keys /\ KeyOf(u)' = KeyOf(u) /\ FireOf(u)' = FireOf(u)
        BY <3>1, FireType
      <4>2. CASE u = t
        BY <3>1, <3>3, <4>1, <4>2 DEF TypeOK
      <4>3. CASE u # t
        BY <3>1, <3>2, <4>1, <4>3 DEF TypeOK, BoundInv
      <4> QED
        BY <4>2, <4>3
    <3>5. HeldInv'
      BY <3>1, <3>2 DEF BoundInv, HeldInv, Held
    <3>6. CountInv'
      <4> SUFFICES ASSUME NEW l \in Keys
                   PROVE /\ IsFiniteSet(admitted'[l])
                         /\ cfg.policy = "MAX_K" =>
                              /\ Cardinality(admitted'[l]) <= count'[l]
                              /\ Cardinality(admitted'[l]) <= cfg.maxBatches
        BY <1>0 DEF CountInv, SameScope
      <4>1. CASE l # k
        BY <3>1, <4>1 DEF TypeOK, BoundInv, CountInv
      <4>2. CASE l = k
        <5>1. admitted'[k] = admitted[k] \cup {FireOf(t)}
          BY <1>0, <3>1 DEF TypeOK
        <5>2. /\ IsFiniteSet(admitted[k])
              /\ IsFiniteSet(admitted'[k])
              /\ Cardinality(admitted[k]) \in Nat
              /\ Cardinality(admitted'[k]) \in Nat
              /\ Cardinality(admitted'[k]) <= Cardinality(admitted[k]) + 1
          <6>1. IsFiniteSet(admitted[k])
            BY <1>0 DEF BoundInv, CountInv
          <6>2. /\ IsFiniteSet(admitted[k] \cup {FireOf(t)})
                /\ Cardinality(admitted[k]) \in Nat
                /\ Cardinality(admitted[k] \cup {FireOf(t)}) \in
                     {Cardinality(admitted[k]), Cardinality(admitted[k]) + 1}
            BY <6>1, FS_AddElement, FS_CardinalityType
          <6> QED
            BY <5>1, <6>1, <6>2
        <5>3. cfg.policy = "MAX_K" => count'[k] = count[k] + 1 /\ count[k] + 1 <= cfg.maxBatches
          BY <1>0, <2>1, <3>1 DEF Tick, Admits, TypeOK
        <5> QED
          BY <1>0, <4>2, <5>2, <5>3, CfgType, SMTT(20) DEF BoundInv, CountInv, TypeOK
      <4> QED
        BY <4>1, <4>2
    <3> QED
      BY <1>0, <3>1, <3>4, <3>5, <3>6 DEF BoundInv, CallInv, EmptiedInv
  <2>2. CASE ~ Admits(cfg, count[k])
    <3>1. /\ UNCHANGED <<data, admitted, fwd, pos, acc, result, api, todo>>
          /\ count' = [count EXCEPT ![k] = Tick(cfg, count[k])]
          /\ pc' = [pc EXCEPT ![t] = "leave"]
      BY <1>1, <2>2 DEF ShouldCapture, apiVars
    <3>2. CarriedInv'
      BY <3>1 DEF TypeOK, BoundInv
    <3>3. \A l \in Keys : count[l] \in Nat /\ count'[l] \in Nat /\ count[l] <= count'[l]
      BY <1>0, <3>1 DEF TypeOK, Tick
    <3>4. CountInv'
      BY <1>0, <3>1, <3>3, FS_CardinalityType DEF BoundInv, CountInv, SameScope
    <3> QED
      BY <1>0, <3>1, <3>2, <3>4 DEF BoundInv, CallInv, EmptiedInv, HeldInv, Held
  <2> QED
    BY <2>1, <2>2
<1>2. CASE LockLoad(t)
  BY <1>0, <1>2, BoundFrame DEF LockLoad, apiVars, ghosts, TypeOK, BoundInv
<1>3. CASE Load(t)
  <2>1. Range(acc'[t]) \ {Seed} \subseteq admitted[k]
    <3>1. CASE data[k] = <<>>
      BY <1>0, <1>3, <3>1 DEF Load, TypeOK, Range
    <3>2. CASE data[k] # <<>>
      <4>1. acc'[t] = data[k][Len(data[k])]
        BY <1>3, <3>2 DEF Load, TypeOK
      <4> QED
        BY <1>0, <3>2, <4>1, LastCaptures DEF BoundInv, HeldInv
    <3> QED
      BY <3>1, <3>2
  <2>2. CarriedInv'
    BY <1>3, <2>1 DEF Load, ghosts, TypeOK, BoundInv
  <2> QED
    BY <1>0, <1>3, <2>2, BoundFrame DEF Load, apiVars, ghosts
<1>4. CASE Reduce(t)
  <2>1. Range(result'[t]) \ {Seed} \subseteq admitted[k]
    <3>1. acc[t] \in Tensor /\ FireOf(t) \in Fire
      BY <1>0 DEF TypeOK
    <3>2. result'[t] = IF k \in scope.reduced THEN Append(acc[t], FireOf(t)) ELSE <<FireOf(t)>>
      BY <1>4 DEF Reduce, TypeOK
    <3>3. /\ Range(acc[t]) \ {Seed} \subseteq admitted[k]
          /\ FireOf(t) \in admitted[k]
      BY <1>4 DEF Reduce, BoundInv
    <3>4. Range(result'[t]) \subseteq Range(acc[t]) \cup {FireOf(t)}
      BY <3>1, <3>2, RangeAppend
    <3> QED
      BY <3>3, <3>4
  <2>2. CarriedInv'
    BY <1>4, <2>1 DEF Reduce, ghosts, TypeOK, BoundInv
  <2> QED
    BY <1>0, <1>4, <2>2, BoundFrame DEF Reduce, apiVars, ghosts
<1>5. CASE ReduceRaises(t)
  <2>1. CarriedInv'
    BY <1>5 DEF ReduceRaises, TypeOK, BoundInv
  <2> QED
    BY <1>0, <1>5, <2>1, BoundFrame DEF ReduceRaises, apiVars
<1>6. CASE LockStore(t)
  BY <1>0, <1>6, BoundFrame DEF LockStore, apiVars, ghosts, TypeOK, BoundInv
<1>7. CASE Store(t)
  <2>1. /\ data' = [data EXCEPT ![k] = Stored(k, result[t])]
        /\ pc' = [pc EXCEPT ![t] = "leave"]
        /\ UNCHANGED <<count, admitted, fwd, pos, acc, result, api, todo>>
    BY <1>7 DEF Store, apiVars, ghosts
  <2>2. CarriedInv'
    BY <2>1 DEF TypeOK, BoundInv
  <2>3. Captures(data'[k]) \subseteq admitted[k]
    <3>1. result[t] \in Tensor /\ Range(result[t]) \ {Seed} \subseteq admitted[k]
      BY <1>7 DEF Store, TypeOK, BoundInv
    <3>2. data'[k] = Stored(k, result[t])
      BY <1>0, <2>1 DEF TypeOK
    <3> QED
      BY <1>0, <3>1, <3>2, StoredCaptures DEF BoundInv, HeldInv, Held
  <2>4. HeldInv'
    BY <1>0, <2>1, <2>3 DEF BoundInv, HeldInv, Held, TypeOK
  <2> QED
    BY <1>0, <2>1, <2>2, <2>4 DEF BoundInv, CallInv, EmptiedInv, CountInv, SameScope
<1>8. CASE LeaveHook(t)
  <2>1. /\ \A u \in Threads \ {t} : pc'[u] = pc[u] /\ pos'[u] = pos[u]
        /\ pc'[t] \in {"policy", "idle"}
    BY <1>8 DEF LeaveHook, TypeOK
  <2>2. CarriedInv'
    BY <1>8, <2>1 DEF LeaveHook, ghosts, BoundInv
  <2> QED
    BY <1>0, <1>8, <2>2, BoundFrame DEF LeaveHook, apiVars, ghosts
<1>9. CASE ForwardRaises(t)
  BY <1>0, <1>9, BoundFrame DEF ForwardRaises, apiVars, ghosts, TypeOK, BoundInv
<1> QED
  BY <1>1, <1>2, <1>3, <1>4, <1>5, <1>6, <1>7, <1>8, <1>9 DEF HookStep

\* The steps of a session call: every thread is outside the model, so no
\* vector is being touched and no fire is on its way.
LEMMA BoundCall ==
  ASSUME TypeOK, LockInv, BoundInv, NEW k \in Keys,
         ClearAccum(k) \/ ResetCounter(k) \/ ReadbackAccum(k) \/ InitAccumulator(k)
  PROVE  BoundInv'
<1>1. /\ Quiet /\ CallInv' /\ CarriedInv'
      /\ ~ Raced(k) /\ SameScope
  <2>1. Quiet /\ UNCHANGED pc
    BY DEF BoundInv, CallInv, ClearAccum, ResetCounter, ReadbackAccum, InitAccumulator,
           Visited, threadVars
  <2>2. ~ Raced(k)
    <3>1. mtx[k] \in Threads \cup {NoOne} /\ \A t \in Threads : pc[t] = "idle"
      BY <2>1 DEF Quiet, TypeOK
    <3> QED
      BY <3>1 DEF LockInv, Raced
  <2> QED
    BY <2>1, <2>2, CallScope DEF Quiet, CallInv, CarriedInv, InHook
<1>2. CASE ClearAccum(k) \/ InitAccumulator(k)
  <2>1. /\ admitted' = [admitted EXCEPT ![k] = {}]
        /\ UNCHANGED count
        /\ \/ data' = [data EXCEPT ![k] = <<>>]
           \/ data' = [data EXCEPT ![k] = << <<Seed>> >>]
    BY <1>1, <1>2 DEF ClearAccum, InitAccumulator, Forget
  <2>2. HeldInv'
    <3>1. Captures(data'[k]) = {}
      BY <2>1, CapturesMember DEF TypeOK, Range
    <3>2. \A l \in Keys \ {k} : data'[l] = data[l] /\ admitted'[l] = admitted[l]
      BY <2>1 DEF TypeOK
    <3> QED
      BY <3>1, <3>2 DEF BoundInv, HeldInv, Held
  <2>3. CountInv'
    <3>1. IsFiniteSet({}) /\ Cardinality({}) = 0
      BY FS_EmptySet
    <3>2. admitted'[k] = {} /\ \A l \in Keys \ {k} : admitted'[l] = admitted[l]
      BY <2>1 DEF TypeOK
    <3>3. count[k] >= 0
      BY DEF TypeOK
    <3> QED
      BY <1>1, <2>1, <3>1, <3>2, <3>3, CfgType DEF BoundInv, CountInv, SameScope
  <2>4. EmptiedInv'
    BY <1>2, <2>1 DEF BoundInv, EmptiedInv, ClearAccum, InitAccumulator, Visited, TypeOK
  <2> QED
    BY <1>1, <2>2, <2>3, <2>4 DEF BoundInv
<1>3. CASE ResetCounter(k)
  <2>1. /\ UNCHANGED <<data, admitted>> /\ count' = [count EXCEPT ![k] = 0]
        /\ admitted[k] = {}
    BY <1>3 DEF ResetCounter, ghosts, BoundInv, EmptiedInv, Visited
  <2>2. CountInv'
    <3>1. IsFiniteSet({}) /\ Cardinality({}) = 0
      BY FS_EmptySet
    <3>2. count'[k] = 0 /\ \A l \in Keys \ {k} : count'[l] = count[l]
      BY <2>1 DEF TypeOK
    <3> QED
      BY <1>1, <2>1, <3>1, <3>2, CfgType DEF BoundInv, CountInv, SameScope
  <2>3. EmptiedInv'
    BY <1>3, <2>1 DEF BoundInv, EmptiedInv, ResetCounter, Visited
  <2> QED
    BY <1>1, <2>1, <2>2, <2>3 DEF BoundInv, HeldInv, Held
<1>4. CASE ReadbackAccum(k)
  <2>1. UNCHANGED <<data, admitted, count>> /\ api' \in {"readback", "idle"}
    BY <1>4 DEF ReadbackAccum, ghosts, Visited
  <2> QED
    BY <1>1, <2>1 DEF BoundInv, HeldInv, Held, CountInv, EmptiedInv, SameScope
<1> QED
  BY <1>2, <1>3, <1>4

LEMMA BoundStep ==
  ASSUME ~ Overlap
  PROVE  TypeOK /\ LockInv /\ BoundInv /\ [Next]_vars => BoundInv'
<1> SUFFICES ASSUME TypeOK, LockInv, BoundInv, [Next]_vars PROVE BoundInv'
  OBVIOUS
<1>1. CASE BeginSomeCall
  <2>1. Quiet /\ UNCHANGED <<data, mtx, count, threadVars, ghosts>>
    BY <1>1 DEF BeginSomeCall, BeginClear, BeginReadback, BeginInitAccumulator, BeginCall
  <2>2. api' \in {"readback", "init"} \/ (api' = "clear" /\ todo' = Keys)
    BY <1>1 DEF BeginSomeCall, BeginClear, BeginReadback, BeginInitAccumulator, BeginCall
  <2>3. CallInv' /\ CarriedInv'
    BY <2>1 DEF Quiet, CallInv, CarriedInv, InHook, threadVars
  <2>4. EmptiedInv'
    BY <2>2 DEF EmptiedInv
  <2> QED
    BY <1>1, <2>1, <2>3, <2>4, BeginScope DEF BoundInv, HeldInv, Held, CountInv, ghosts, SameScope
<1>2. ASSUME NEW t \in Threads, StartForward(t) PROVE BoundInv'
  <2>1. CarriedInv'
    BY <1>2 DEF StartForward, ghosts, BoundInv, CarriedInv, InHook, KeyOf, FireOf, TypeOK
  <2> QED
    BY <1>2, <2>1, BoundFrame, HookScope DEF StartForward, GilFree, apiVars, ghosts
<1>3. CASE UNCHANGED vars
  BY <1>3, BeginScope DEF vars, threadVars, apiVars, ghosts, BoundInv, CallInv, Quiet, EmptiedInv,
     HeldInv, Held, CarriedInv, InHook, KeyOf, FireOf, CountInv, SameScope
<1> QED
  BY <1>1, <1>2, <1>3, BoundHook, BoundCall DEF Next, CallStep, Finished

\* An accumulator under MAX_K never holds more than max_batches activations,
\* whatever the number of threads, layers, forwards and calls, when the calls
\* are made between forward passes.
THEOREM MaxKHolds ==
  ASSUME ~ Overlap
  PROVE  Spec => []MaxKBound
<1>1. Init => LockInv
  BY HookPathAssumption DEF Init, LockInv
<1>2. TypeOK /\ BoundInv => MaxKBound
  <2> SUFFICES ASSUME TypeOK, BoundInv, cfg.policy = "MAX_K", NEW k \in Keys
               PROVE  Cardinality(Held(k)) <= cfg.maxBatches
    BY DEF MaxKBound
  <2>1. /\ IsFiniteSet(admitted[k]) /\ Held(k) \subseteq admitted[k]
        /\ Cardinality(admitted[k]) <= cfg.maxBatches
    BY DEF BoundInv, HeldInv, CountInv
  <2>2. /\ Cardinality(Held(k)) <= Cardinality(admitted[k])
        /\ Cardinality(Held(k)) \in Nat /\ Cardinality(admitted[k]) \in Nat
    BY <2>1, FS_Subset, FS_CardinalityType
  <2> QED
    BY <2>1, <2>2, CfgType
<1> QED
  BY <1>1, <1>2, BoundInit, BoundStep, LockInvStep, TypeCorrect, PTL DEF Spec

-----------------------------------------------------------------------------
(***************************************************************************)
(* No admitted activation is lost by a layer that keeps all of them.       *)
(***************************************************************************)

\* Running forward passes are distinct, and their current fire is new until
\* should_capture has admitted it.
Running(t) == pc[t] # "idle"
FreshInv ==
  /\ \A t \in Threads : fwd[t] <= forwards /\ (Running(t) => fwd[t] > 0)
  /\ \A t, u \in Threads : Running(t) /\ Running(u) /\ t # u => fwd[t] # fwd[u]
  /\ \A k \in Keys : \A c \in admitted[k] :
       /\ c[1] <= forwards
       /\ \A t \in Threads : Running(t) /\ c[1] = fwd[t] =>
            c[2] < pos[t] \/ (c[2] = pos[t] /\ pc[t] # "policy")

\* What a hook is about to store on a layer without reduction is its own fire.
ResultInv ==
  \A t \in Threads :
    pc[t] \in {"lock_store", "store"} /\ KeyOf(t) \notin scope.reduced => result[t] = <<FireOf(t)>>

LossInv == FreshInv /\ ResultInv /\ NothingLost

LEMMA OnTheWayMember ==
  ASSUME NEW k, NEW c
  PROVE  c \in OnTheWay(k) <=>
           \E t \in Threads : pc[t] \in InHook /\ KeyOf(t) = k /\ c = FireOf(t)
BY DEF OnTheWay

LEMMA LossInit == Init => LossInv
<1> SUFFICES ASSUME Init PROVE LossInv
  OBVIOUS
<1>1. FreshInv /\ ResultInv
  BY DEF Init, FreshInv, ResultInv, Running
<1>2. NothingLost
  BY CapturesMember, OnTheWayMember DEF Init, NothingLost, Held, InHook
<1> QED
  BY <1>1, <1>2 DEF LossInv

LEMMA FreshHook ==
  ASSUME TypeOK, FreshInv, NEW t \in Threads, HookStep(t)
  PROVE  FreshInv'
<1> USE DEF FreshInv, Running
<1>1. KeyOf(t) \in Keys /\ FireOf(t) \in Fire
  BY FireType
<1>2. /\ Running(t) /\ UNCHANGED <<fwd, forwards>>
      /\ \A u \in Threads \ {t} : pc'[u] = pc[u] /\ pos'[u] = pos[u]
  BY DEF HookStep, ShouldCapture, LockLoad, Load, Reduce, ReduceRaises, LockStore, Store,
         LeaveHook, ForwardRaises, TypeOK
<1>3. CASE ShouldCapture(t)
  <2>1. /\ pc'[t] \in {"lock_load", "leave"} /\ UNCHANGED pos
        /\ \A k \in Keys : admitted'[k] \subseteq admitted[k] \cup {FireOf(t)}
    BY <1>1, <1>3 DEF ShouldCapture, TypeOK
  <2>2. FireOf(t)[1] = fwd[t] /\ FireOf(t)[2] = pos[t]
    BY DEF FireOf
  <2>3. pc[t] = "policy" /\ fwd[t] <= forwards
    BY <1>3 DEF ShouldCapture
  <2>4. ASSUME NEW k \in Keys, NEW c \in admitted'[k]
        PROVE  /\ c[1] <= forwards
               /\ \A u \in Threads : Running(u)' /\ c[1] = fwd[u] =>
                    c[2] < pos[u] \/ (c[2] = pos[u] /\ pc'[u] # "policy")
    <3>1. CASE c \in admitted[k]
      BY <1>2, <2>1, <2>3, <3>1
    <3>2. CASE c = FireOf(t)
      BY <1>2, <2>1, <2>2, <2>3, <3>2
    <3> QED
      BY <2>1, <2>4, <3>1, <3>2
  <2>5. \A u \in Threads : Running(u)' => Running(u)
    BY <1>2, <2>1
  <2> QED
    BY <1>2, <2>1, <2>4, <2>5
<1>4. CASE ~ ShouldCapture(t)
  <2>1. /\ UNCHANGED admitted
        /\ \/ pc'[t] # "policy" /\ pos'[t] = pos[t]
           \/ pc'[t] # "policy" /\ pos'[t] = Len(Fires)
           \/ pos'[t] = pos[t] + 1
        /\ pc[t] # "policy"
    BY <1>4 DEF HookStep, LockLoad, Load, Reduce, ReduceRaises, LockStore, Store,
         LeaveHook, ForwardRaises, TypeOK, ghosts
  <2>2. pos[t] \in Nat /\ pos'[t] \in Nat /\ pos[t] <= pos'[t]
    BY <2>1, HookPathAssumption DEF TypeOK
  <2>3. pos[t] < pos'[t] \/ pc'[t] # "policy"
    BY <2>1, <2>2
  <2>4. \A k \in Keys : \A c \in admitted[k] : c[1] \in Nat /\ c[2] \in Nat
    BY DEF TypeOK, Fire
  <2>5. ASSUME NEW k \in Keys, NEW c \in admitted[k], NEW u \in Threads, Running(u)',
               c[1] = fwd[u]
        PROVE  c[2] < pos'[u] \/ (c[2] = pos'[u] /\ pc'[u] # "policy")
    <3>1. CASE u = t
      <4>1. c[2] <= pos[t]
        BY <1>2, <2>2, <2>4, <2>5, <3>1
      <4> QED
        BY <2>2, <2>3, <2>4, <2>5, <3>1, <4>1
    <3>2. CASE u # t
      BY <1>2, <2>5, <3>2
    <3> QED
      BY <3>1, <3>2
  <2>6. \A u \in Threads : Running(u)' => Running(u)
    BY <1>2
  <2> QED
    BY <1>2, <2>1, <2>5, <2>6
<1> QED
  BY <1>3, <1>4

LEMMA ResultHook ==
  ASSUME TypeOK, ResultInv, NEW t \in Threads, HookStep(t)
  PROVE  ResultInv'
<1> USE DEF ResultInv, KeyOf, FireOf
<1>1. CASE Reduce(t)
  BY <1>1 DEF Reduce, TypeOK
<1>2. CASE LockStore(t)
  BY <1>2 DEF LockStore, TypeOK
<1>3. CASE ~ Reduce(t) /\ ~ LockStore(t)
  <2>1. /\ UNCHANGED <<scope, fwd, result>> /\ pc'[t] \notin {"lock_store", "store"}
        /\ \A u \in Threads \ {t} : pc'[u] = pc[u] /\ pos'[u] = pos[u]
    BY <1>3 DEF HookStep, ShouldCapture, LockLoad, Load, ReduceRaises, Store,
         LeaveHook, ForwardRaises, TypeOK
  <2> QED
    BY <2>1
<1> QED
  BY <1>1, <1>2, <1>3

LEMMA LossHook ==
  ASSUME TypeOK, BoundInv, LossInv, NEW t \in Threads, HookStep(t)
  PROVE  LossInv'
<1> DEFINE k == KeyOf(t)
<1>0. k \in Keys /\ FireOf(t) \in Fire /\ FireOf(t) # Seed
  <2>1. Running(t)
    BY DEF Running, HookStep, ShouldCapture, LockLoad, Load, Reduce, ReduceRaises, LockStore,
           Store, LeaveHook, ForwardRaises
  <2>2. fwd[t] # 0
    BY <2>1 DEF LossInv, FreshInv
  <2> QED
    BY <2>2, FireType DEF FireOf, Seed
<1>1. FreshInv' /\ ResultInv'
  BY FreshHook, ResultHook DEF LossInv
<1>2. NothingLost'
  <2> SUFFICES ASSUME NEW l \in Keys, KeepsAll(l)
               PROVE  /\ Held(l)' \cap OnTheWay(l)' = {}
                      /\ admitted'[l] = Held(l)' \cup OnTheWay(l)'
    BY HookScope DEF NothingLost, SameScope
  <2>0. /\ Held(l) \cap OnTheWay(l) = {}
        /\ admitted[l] = Held(l) \cup OnTheWay(l)
    BY DEF LossInv, NothingLost
  <2> HIDE DEF k
  <2>1. ASSUME UNCHANGED <<data[l], admitted[l]>>, OnTheWay(l)' = OnTheWay(l)
        PROVE  /\ Held(l)' \cap OnTheWay(l)' = {}
               /\ admitted'[l] = Held(l)' \cup OnTheWay(l)'
    BY <2>0, <2>1 DEF Held
  <2>2. CASE ShouldCapture(t) /\ Admits(cfg, count[k]) /\ l = k
    <3>1. admitted'[l] = admitted[l] \cup {FireOf(t)} /\ Held(l)' = Held(l)
      BY <1>0, <2>2 DEF ShouldCapture, TypeOK, Held, k
    <3>2. OnTheWay(l)' = OnTheWay(l) \cup {FireOf(t)}
      <4>1. /\ pc[t] = "policy" /\ pc' = [pc EXCEPT ![t] = "lock_load"]
            /\ UNCHANGED <<fwd, pos>>
        BY <2>2 DEF ShouldCapture, k
      <4> QED
        BY <2>2, <4>1 DEF OnTheWay, InHook, KeyOf, FireOf, TypeOK, k
    <3>3. FireOf(t) \notin admitted[l]
      <4>1. FireOf(t)[1] = fwd[t] /\ FireOf(t)[2] = pos[t] /\ pc[t] = "policy" /\ pos[t] \in Int
        BY <2>2 DEF ShouldCapture, FireOf, TypeOK
      <4> QED
        BY <4>1 DEF LossInv, FreshInv, Running
    <3> QED
      BY <2>0, <3>1, <3>2, <3>3
  <2>3. CASE Store(t) /\ l = k
    <3>1. admitted'[l] = admitted[l] /\ data'[l] = Append(data[l], <<FireOf(t)>>)
      <4>1. result[t] = <<FireOf(t)>>
        BY <2>3 DEF Store, LossInv, ResultInv, KeepsAll, k
      <4> QED
        BY <1>0, <2>3, <4>1 DEF Store, Stored, KeepsAll, TypeOK, ghosts, k
    <3>2. Held(l)' = Held(l) \cup {FireOf(t)}
      <4>1. data[l] \in Seq(Tensor) /\ Range(<<FireOf(t)>>) = {FireOf(t)}
        BY <1>0 DEF TypeOK, Range
      <4>2. \A c : c \in Captures(Append(data[l], <<FireOf(t)>>)) <=>
                    c # Seed /\ (c = FireOf(t) \/ \E i \in DOMAIN data[l] : c \in Range(data[l][i]))
        <5> DEFINE v == Append(data[l], <<FireOf(t)>>)
        <5>1. /\ DOMAIN v = DOMAIN data[l] \cup {Len(data[l]) + 1}
              /\ v[Len(data[l]) + 1] = <<FireOf(t)>>
              /\ \A i \in DOMAIN data[l] : v[i] = data[l][i]
          BY <4>1
        <5> HIDE DEF v
        <5>2. \A c : c \in Captures(v) <=> c # Seed /\ \E i \in DOMAIN v : c \in Range(v[i])
          BY CapturesMember
        <5>3. \A c : c \in Captures(v) <=>
                    c # Seed /\ (c = FireOf(t) \/ \E i \in DOMAIN data[l] : c \in Range(data[l][i]))
          BY <4>1, <5>1, <5>2
        <5> QED
          BY <5>3 DEF v
      <4>3. \A c : c \in Captures(data[l]) <=>
                    c # Seed /\ \E i \in DOMAIN data[l] : c \in Range(data[l][i])
        BY CapturesMember
      <4> QED
        BY <1>0, <3>1, <4>2, <4>3 DEF Held
    <3>3. FireOf(t) \in OnTheWay(l) /\ OnTheWay(l)' = OnTheWay(l) \ {FireOf(t)}
      <4>1. /\ pc[t] = "store" /\ pc' = [pc EXCEPT ![t] = "leave"] /\ UNCHANGED <<fwd, pos>>
        BY <2>3 DEF Store
      <4>2. \A u \in Threads \ {t} : pc[u] \in InHook => FireOf(u) # FireOf(t)
        BY <4>1 DEF LossInv, FreshInv, Running, FireOf, InHook, TypeOK
      <4>3. \A u \in Threads : KeyOf(u)' = KeyOf(u) /\ FireOf(u)' = FireOf(u)
        BY <4>1 DEF KeyOf, FireOf
      <4>4. \A c : c \in OnTheWay(l)' <=>
                    \E u \in Threads : pc'[u] \in InHook /\ KeyOf(u)' = l /\ c = FireOf(u)'
        BY DEF OnTheWay
      <4>5. \A c : c \in OnTheWay(l)' <=>
                    \E u \in Threads \ {t} : pc[u] \in InHook /\ KeyOf(u) = l /\ c = FireOf(u)
        BY <4>1, <4>3, <4>4 DEF InHook, TypeOK
      <4>6. \A c : c \in OnTheWay(l) <=>
                    \E u \in Threads : pc[u] \in InHook /\ KeyOf(u) = l /\ c = FireOf(u)
        BY OnTheWayMember
      <4>7. pc[t] \in InHook /\ KeyOf(t) = l
        BY <2>3, <4>1 DEF InHook, k
      <4> QED
        BY <4>2, <4>5, <4>6, <4>7
    <3> QED
      BY <2>0, <3>1, <3>2, <3>3
  <2>4. CASE ~ (Store(t) /\ l = k) /\ ~ (ShouldCapture(t) /\ Admits(cfg, count[k]) /\ l = k)
    <3>1. UNCHANGED <<data[l], admitted[l]>>
      BY <1>0, <2>4 DEF HookStep, ShouldCapture, LockLoad, Load, Reduce, ReduceRaises,
         LockStore, Store, LeaveHook, ForwardRaises, TypeOK, ghosts, k
    <3>2. /\ UNCHANGED fwd
          /\ \A u \in Threads \ {t} : pc'[u] = pc[u] /\ pos'[u] = pos[u]
      BY DEF HookStep, ShouldCapture, LockLoad, Load, Reduce, ReduceRaises, LockStore, Store,
             LeaveHook, ForwardRaises, TypeOK
    <3>3. \/ pos'[t] = pos[t] /\ (pc[t] \in InHook <=> pc'[t] \in InHook)
          \/ pos'[t] = pos[t] /\ k # l
          \/ pc[t] \notin InHook /\ pc'[t] \notin InHook
          \/ k # l /\ pc'[t] \notin InHook
      BY <2>4 DEF HookStep, ShouldCapture, LockLoad, Load, Reduce, ReduceRaises, LockStore,
             Store, LeaveHook, ForwardRaises, TypeOK, InHook, KeepsAll, k
    <3>4. OnTheWay(l)' = OnTheWay(l)
      <4>1. \A u \in Threads : (pc'[u] \in InHook /\ KeyOf(u)' = l) <=> (pc[u] \in InHook /\ KeyOf(u) = l)
        BY <3>2, <3>3 DEF KeyOf, k
      <4>2. \A u \in Threads : pc[u] \in InHook /\ KeyOf(u) = l => FireOf(u)' = FireOf(u)
        BY <3>2, <3>3 DEF FireOf, KeyOf, k
      <4> QED
        BY <4>1, <4>2 DEF OnTheWay, InHook
    <3> QED
      BY <2>1, <3>1, <3>4
  <2> QED
    BY <2>2, <2>3, <2>4
<1> QED
  BY <1>1, <1>2 DEF LossInv

LEMMA LossCall ==
  ASSUME TypeOK, LockInv, BoundInv, LossInv, NEW k \in Keys,
         ClearAccum(k) \/ ResetCounter(k) \/ ReadbackAccum(k) \/ InitAccumulator(k)
  PROVE  LossInv'
<1>1. /\ Quiet /\ UNCHANGED <<pc, fwd, pos, result, forwards>>
      /\ ~ Raced(k) /\ SameScope
  <2>1. Quiet /\ UNCHANGED <<threadVars, forwards>>
    BY DEF BoundInv, CallInv, ClearAccum, ResetCounter, ReadbackAccum, InitAccumulator, Visited
  <2>2. mtx[k] \in Threads \cup {NoOne} /\ \A t \in Threads : pc[t] = "idle"
    BY <2>1 DEF Quiet, TypeOK
  <2> QED
    BY <2>1, <2>2, CallScope DEF LockInv, Raced, threadVars
<1>2. \A l : OnTheWay(l) = {} /\ OnTheWay(l)' = {}
  BY <1>1 DEF OnTheWay, Quiet, InHook
<1>3. \/ UNCHANGED <<data, admitted>>
      \/ /\ admitted' = [admitted EXCEPT ![k] = {}]
         /\ \/ data' = [data EXCEPT ![k] = <<>>]
            \/ data' = [data EXCEPT ![k] = << <<Seed>> >>]
  BY <1>1 DEF ClearAccum, InitAccumulator, ResetCounter, ReadbackAccum, Forget, ghosts
<1>4. FreshInv' /\ ResultInv'
  <2>1. \A l \in Keys : admitted'[l] \subseteq admitted[l]
    BY <1>3 DEF TypeOK
  <2> QED
    BY <1>1, <2>1 DEF LossInv, FreshInv, ResultInv, Running, Quiet
<1>5. NothingLost'
  <2>1. CASE UNCHANGED <<data, admitted>>
    BY <1>1, <1>2, <2>1 DEF LossInv, NothingLost, SameScope, Held
  <2>2. CASE ~ UNCHANGED <<data, admitted>>
    <3>1. Captures(data'[k]) = {} /\ admitted'[k] = {}
      BY <1>3, <2>2, CapturesMember DEF TypeOK, Range
    <3>2. \A l \in Keys \ {k} : data'[l] = data[l] /\ admitted'[l] = admitted[l]
      BY <1>3 DEF TypeOK
    <3> QED
      BY <1>1, <1>2, <3>1, <3>2 DEF LossInv, NothingLost, SameScope, Held
  <2> QED
    BY <2>1, <2>2
<1> QED
  BY <1>4, <1>5 DEF LossInv

LEMMA LossStep ==
  TypeOK /\ LockInv /\ BoundInv /\ LossInv /\ [Next]_vars => LossInv'
<1> SUFFICES ASSUME TypeOK, LockInv, BoundInv, LossInv, [Next]_vars PROVE LossInv'
  OBVIOUS
<1>1. ASSUME NEW t \in Threads, StartForward(t) PROVE LossInv'
  <2>1. /\ pc[t] = "idle" /\ pc' = [pc EXCEPT ![t] = "policy"]
        /\ fwd' = [fwd EXCEPT ![t] = forwards + 1] /\ forwards' = forwards + 1
        /\ pos' = [pos EXCEPT ![t] = 1]
        /\ UNCHANGED <<scope, data, admitted, result>> /\ SameScope
    BY <1>1, HookScope DEF StartForward, ghosts
  <2>2. FreshInv'
    <3>1. \A k \in Keys : \A c \in admitted[k] : c[1] \in Nat /\ c[2] \in Nat
      BY DEF TypeOK, Fire
    <3> QED
      BY <2>1, <3>1 DEF LossInv, FreshInv, Running, TypeOK
  <2>3. ResultInv'
    BY <2>1 DEF LossInv, ResultInv, KeyOf, FireOf, TypeOK
  <2>4. \A l : OnTheWay(l)' = OnTheWay(l)
    <3>1. /\ pc[t] \notin InHook /\ pc'[t] \notin InHook
          /\ \A u \in Threads \ {t} : pc'[u] = pc[u] /\ KeyOf(u)' = KeyOf(u) /\ FireOf(u)' = FireOf(u)
      BY <2>1 DEF TypeOK, InHook, KeyOf, FireOf
    <3> QED
      BY <3>1 DEF OnTheWay, InHook
  <2> QED
    BY <2>1, <2>2, <2>3, <2>4 DEF LossInv, NothingLost, Held, SameScope
<1>2. CASE BeginSomeCall \/ UNCHANGED vars
  <2>1. UNCHANGED <<scope, data, admitted, forwards, pc, fwd, pos, result>> /\ SameScope
    BY <1>2, BeginScope DEF BeginSomeCall, BeginClear, BeginReadback, BeginInitAccumulator, BeginCall,
                vars, threadVars, ghosts
  <2> QED
    BY <2>1 DEF LossInv, FreshInv, Running, ResultInv, NothingLost, SameScope, Held, OnTheWay,
                KeyOf, FireOf, InHook
<1> QED
  BY <1>1, <1>2, LossHook, LossCall DEF Next, CallStep, Finished

\* A layer that keeps everything holds exactly the activations admitted since
\* the program last emptied it, but for those still on their way, whatever
\* the number of threads: concurrent forward passes lose no capture.
THEOREM NothingIsLost ==
  ASSUME ~ Overlap
  PROVE  Spec => []NothingLost
<1>1. Init => LockInv
  BY HookPathAssumption DEF Init, LockInv
<1>2. LossInv => NothingLost
  BY DEF LossInv
<1> QED
  BY <1>1, <1>2, BoundInit, BoundStep, LossInit, LossStep, LockInvStep, TypeCorrect, PTL DEF Spec
=============================================================================
