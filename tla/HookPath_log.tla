---------------------------- MODULE HookPath_log ----------------------------
(***************************************************************************)
(* HookPath implements ActivationLog: for programs that make their session *)
(* calls between forward passes and run a model with a reduction in one    *)
(* thread, locks, phases and interleavings cannot be seen from outside.    *)
(***************************************************************************)
EXTENDS HookPath_proofs, SequenceTheorems

\* No reduction, or one thread: two threads lose updates of a running value.
SerialFolds == \A s \in Scopes : s.reduced = {} \/ \A t, u \in Crew[s] : t = u

\* Only the scope's crew runs the model, and no more passes than it may.
CrewInv ==
  /\ scope \in Scopes /\ forwards <= MaxForwards[scope]
  /\ \A t \in Threads : Running(t) => t \in Crew[scope]

\* A reduced layer holds one value, and the thread that is about to replace it
\* has it in hand, alone or with its own fire folded in.
Value(k) == IF data[k] = <<>> THEN <<>> ELSE data[k][1]
FoldInv ==
  /\ \A k \in scope.reduced : Len(data[k]) <= 1
  /\ \A t \in Threads : KeyOf(t) \in scope.reduced =>
       /\ pc[t] = "reduce" => acc[t] = Value(KeyOf(t))
       /\ pc[t] \in {"lock_store", "store"} =>
            result[t] = Append(Value(KeyOf(t)), FireOf(t))

LEMMA CrewStep == TypeOK /\ CrewInv /\ [Next]_vars => CrewInv'
<1> SUFFICES ASSUME TypeOK, CrewInv, [Next]_vars PROVE CrewInv'
  OBVIOUS
<1> USE DEF CrewInv, Running
<1>1. ASSUME NEW t \in Threads, StartForward(t) PROVE CrewInv'
  <2>1. MaxForwards[scope] \in Nat
    BY HookPathAssumption
  <2> QED
    BY <1>1, <2>1 DEF StartForward, TypeOK
<1>2. ASSUME NEW t \in Threads, HookStep(t) PROVE CrewInv'
  <2>1. /\ Running(t) /\ UNCHANGED <<scope, forwards>>
        /\ \A u \in Threads \ {t} : pc'[u] = pc[u]
    BY <1>2 DEF HookStep, ShouldCapture, LockLoad, Load, Reduce, ReduceRaises, LockStore,
                Store, LeaveHook, ForwardRaises, TypeOK
  <2> QED
    BY <2>1
<1>3. CASE BeginSomeCall \/ CallStep \/ UNCHANGED vars
  <2>1. UNCHANGED <<scope, pc, forwards>>
    BY <1>3 DEF BeginSomeCall, BeginClear, BeginReadback, BeginInitAccumulator, BeginCall,
                CallStep, ClearAccum, ResetCounter, ReadbackAccum, InitAccumulator,
                Visited, vars, threadVars
  <2> QED
    BY <2>1
<1> QED
  BY <1>1, <1>2, <1>3 DEF Next, Finished

\* Where there is a reduction, one thread at most is inside the model.
LEMMA OneRunner ==
  ASSUME SerialFolds, CrewInv, NEW k \in scope.reduced,
         NEW t \in Threads, NEW u \in Threads, Running(t), Running(u)
  PROVE  t = u
BY DEF SerialFolds, CrewInv

LEMMA OneElement ==
  ASSUME NEW S, NEW s \in Seq(S), s # <<>>, Len(s) <= 1
  PROVE  Len(s) = 1
<1>1. Len(s) \in Nat
  OBVIOUS
<1>2. Len(s) # 0
  BY EmptySeq
<1> QED
  BY <1>1, <1>2

\* What a store leaves in a reduced layer is the stored value alone.
LEMMA StoredFold ==
  ASSUME TypeOK, NEW k \in Keys, k \in scope.reduced, Len(data[k]) <= 1, NEW r \in Tensor
  PROVE  Stored(k, r) = <<r>>
<1>1. data[k] \in Seq(Tensor)
  BY DEF TypeOK
<1>2. CASE data[k] = <<>>
  BY <1>2 DEF Stored
<1>3. CASE data[k] # <<>>
  <2>1. Len(data[k]) = 1
    BY <1>1, <1>3, OneElement
  <2>2. Stored(k, r) = [data[k] EXCEPT ![1] = r]
    BY <1>3, <2>1 DEF Stored
  <2>3. /\ [data[k] EXCEPT ![1] = r] \in Seq(Tensor)
        /\ Len([data[k] EXCEPT ![1] = r]) = 1 /\ [data[k] EXCEPT ![1] = r][1] = r
    BY <1>1, <2>1
  <2> QED
    BY <2>2, <2>3
<1> QED
  BY <1>2, <1>3

LEMMA FoldHook ==
  ASSUME SerialFolds, TypeOK, CrewInv, FoldInv, NEW t \in Threads, HookStep(t)
  PROVE  FoldInv'
<1> DEFINE k == KeyOf(t)
<1>0. k \in Keys /\ FireOf(t) \in Fire /\ Running(t) /\ scope' = scope
  BY FireType, HookScope DEF Running, SameScope, HookStep, ShouldCapture, LockLoad, Load,
     Reduce, ReduceRaises, LockStore, Store, LeaveHook, ForwardRaises
<1>1. \A u \in Threads \ {t} : pc'[u] = pc[u] /\ pos'[u] = pos[u] /\ acc'[u] = acc[u] /\ result'[u] = result[u]
  BY DEF HookStep, ShouldCapture, LockLoad, Load, Reduce, ReduceRaises, LockStore,
         Store, LeaveHook, ForwardRaises, TypeOK
<1>2. UNCHANGED fwd
  BY DEF HookStep, ShouldCapture, LockLoad, Load, Reduce, ReduceRaises, LockStore,
         Store, LeaveHook, ForwardRaises
<1>3. scope.reduced \subseteq Keys
  BY DEF TypeOK, Scope
<1> HIDE DEF k
<1>4. \A l \in scope.reduced : Len(data'[l]) <= 1
  <2>1. CASE Store(t)
    <3>1. ASSUME k \in scope.reduced PROVE Len(data'[k]) <= 1
      <4>1. data'[k] = <<result[t]>>
        BY <1>0, <2>1, <3>1, StoredFold DEF Store, FoldInv, TypeOK, k
      <4> QED
        BY <4>1
    <3> QED
      BY <1>0, <1>3, <2>1, <3>1 DEF Store, FoldInv, TypeOK, k
  <2>2. CASE ~ Store(t)
    BY <2>2 DEF HookStep, ShouldCapture, LockLoad, Load, Reduce, ReduceRaises, LockStore,
                LeaveHook, ForwardRaises, FoldInv
  <2> QED
    BY <2>1, <2>2
<1>5. ASSUME NEW u \in Threads, KeyOf(u)' \in scope.reduced, pc'[u] \in {"reduce", "lock_store", "store"}
      PROVE  /\ pc'[u] = "reduce" => acc'[u] = Value(KeyOf(u))'
             /\ pc'[u] \in {"lock_store", "store"} =>
                  result'[u] = Append(Value(KeyOf(u))', FireOf(u)')
  <2>1. u = t
    BY <1>0, <1>1, <1>5, OneRunner DEF Running
  <2>2. CASE Load(t)
    <3>1. /\ data[k] \in Seq(Tensor) /\ Len(data[k]) <= 1 /\ KeyOf(t)' = k /\ UNCHANGED data
      BY <1>0, <1>5, <2>1, <2>2 DEF Load, KeyOf, FoldInv, TypeOK, k
    <3>2. data[k] # <<>> => Len(data[k]) = 1
      BY <3>1, OneElement
    <3>3. acc'[t] = IF data[k] = <<>> THEN <<>> ELSE data[k][Len(data[k])]
      BY <2>2 DEF Load, TypeOK, k
    <3> QED
      BY <2>1, <2>2, <3>1, <3>2, <3>3 DEF Load, Value, TypeOK
  <2>3. CASE Reduce(t)
    <3>1. KeyOf(t)' = k /\ FireOf(t)' = FireOf(t) /\ UNCHANGED data /\ pc'[t] = "lock_store"
      BY <2>3 DEF Reduce, KeyOf, FireOf, TypeOK, k
    <3>2. result'[t] = Append(Value(k), FireOf(t))
      BY <1>5, <2>1, <2>3, <3>1 DEF Reduce, FoldInv, TypeOK, k
    <3> QED
      BY <2>1, <3>1, <3>2 DEF Value
  <2>4. CASE LockStore(t)
    <3>1. /\ KeyOf(t)' = k /\ FireOf(t)' = FireOf(t) /\ UNCHANGED <<data, result>>
          /\ pc'[t] = "store" /\ pc[t] = "lock_store"
      BY <2>4 DEF LockStore, KeyOf, FireOf, TypeOK, k
    <3> QED
      BY <1>5, <2>1, <3>1 DEF FoldInv, Value, k
  <2>5. CASE ~ Load(t) /\ ~ Reduce(t) /\ ~ LockStore(t)
    BY <1>5, <2>1, <2>5 DEF HookStep, ShouldCapture, LockLoad, ReduceRaises, Store,
                LeaveHook, ForwardRaises, TypeOK
  <2> QED
    BY <2>2, <2>3, <2>4, <2>5
<1> QED
  BY <1>0, <1>4, <1>5 DEF FoldInv

\* Between forward passes a call meets no hook.
LEMMA CallUnraced ==
  ASSUME TypeOK, LockInv, BoundInv, NEW k \in Keys,
         ClearAccum(k) \/ ResetCounter(k) \/ ReadbackAccum(k) \/ InitAccumulator(k)
  PROVE  Quiet /\ UNCHANGED <<scope, threadVars>> /\ ~ Raced(k)
<1>1. Quiet /\ UNCHANGED <<scope, threadVars>>
  BY DEF BoundInv, CallInv, ClearAccum, ResetCounter, ReadbackAccum, InitAccumulator, Visited
<1>2. mtx[k] \in Threads \cup {NoOne} /\ \A t \in Threads : pc[t] = "idle"
  BY <1>1 DEF Quiet, TypeOK
<1> QED
  BY <1>1, <1>2 DEF LockInv, Raced

LEMMA FoldCall ==
  ASSUME TypeOK, LockInv, BoundInv, FoldInv, NEW k \in Keys,
         ClearAccum(k) \/ ResetCounter(k) \/ ReadbackAccum(k) \/ InitAccumulator(k)
  PROVE  FoldInv'
<1>1. Quiet /\ UNCHANGED <<scope, pc, fwd, pos, acc, result>> /\ ~ Raced(k)
  BY CallUnraced DEF threadVars
<1>2. data' = data \/ data' = [data EXCEPT ![k] = <<>>]
                   \/ data' = [data EXCEPT ![k] = << <<Seed>> >>]
  BY <1>1 DEF ClearAccum, InitAccumulator, ResetCounter, ReadbackAccum
<1>3. \A l \in scope.reduced : Len(data'[l]) <= 1
  <2>1. Len(<<>>) <= 1 /\ Len(<< <<Seed>> >>) <= 1
    OBVIOUS
  <2>2. \A l \in scope.reduced : data'[l] \in {data[l], <<>>, << <<Seed>> >>}
    BY <1>2 DEF TypeOK, Scope
  <2> QED
    BY <2>1, <2>2 DEF FoldInv
<1>4. \A t \in Threads : pc'[t] = "idle"
  BY <1>1 DEF Quiet
<1> QED
  BY <1>1, <1>3, <1>4 DEF FoldInv

LEMMA FoldStep ==
  ASSUME SerialFolds
  PROVE  TypeOK /\ LockInv /\ BoundInv /\ CrewInv /\ FoldInv /\ [Next]_vars => FoldInv'
<1> SUFFICES ASSUME TypeOK, LockInv, BoundInv, CrewInv, FoldInv, [Next]_vars PROVE FoldInv'
  OBVIOUS
<1>1. ASSUME NEW t \in Threads, StartForward(t) PROVE FoldInv'
  <2>1. /\ UNCHANGED <<scope, data, acc, result>> /\ pc'[t] = "policy"
        /\ \A u \in Threads \ {t} : pc'[u] = pc[u] /\ pos'[u] = pos[u] /\ fwd'[u] = fwd[u]
    BY <1>1 DEF StartForward, TypeOK
  <2> QED
    BY <2>1, SMTT(20) DEF FoldInv, Value, KeyOf, FireOf
<1>2. CASE BeginSomeCall \/ UNCHANGED vars
  <2>1. UNCHANGED <<scope, data, pc, fwd, pos, acc, result>>
    BY <1>2 DEF BeginSomeCall, BeginClear, BeginReadback, BeginInitAccumulator, BeginCall,
                vars, threadVars
  <2> QED
    BY <2>1 DEF FoldInv, Value, KeyOf, FireOf
<1> QED
  BY <1>1, <1>2, FoldHook, FoldCall DEF Next, CallStep, Finished

-----------------------------------------------------------------------------
(***************************************************************************)
(* Every step maps to a step of ActivationLog or to a stutter.             *)
(***************************************************************************)

\* The policy of the abstract log is the session's.
LEMMA SamePolicy ==
  /\ Log!Config = cfg
  /\ \A n : Log!Tick(cfg, n) = Tick(cfg, n)
  /\ \A n : Log!Admits(cfg, n) = Admits(cfg, n)
BY DEF Log!Config, Log!MakeConfig, Log!Knobs, Log!Tick, Log!Admits,
       cfg, MakeConfig, Knobs, Tick, Admits

\* What a thread carries towards key k, and what all others carry.
Carried(t, k) == IF pc[t] \in InHook /\ KeyOf(t) = k THEN {FireOf(t)} ELSE {}
Others(t, k) == {FireOf(u) : u \in {v \in Threads \ {t} : pc[v] \in InHook /\ KeyOf(v) = k}}

\* A hook's step changes what its own thread carries and nothing else.
LEMMA WayHook ==
  ASSUME TypeOK, LossInv, NEW t \in Threads, HookStep(t), NEW k \in Keys
  PROVE  /\ OnTheWay(k) = Others(t, k) \cup Carried(t, k)
         /\ OnTheWay(k)' = Others(t, k) \cup Carried(t, k)'
         /\ FireOf(t) \notin Others(t, k)
<1>1. UNCHANGED fwd /\ \A u \in Threads \ {t} : pc'[u] = pc[u] /\ pos'[u] = pos[u]
  BY DEF HookStep, ShouldCapture, LockLoad, Load, Reduce, ReduceRaises, LockStore,
         Store, LeaveHook, ForwardRaises, TypeOK
<1>2. \A u \in Threads \ {t} : KeyOf(u)' = KeyOf(u) /\ FireOf(u)' = FireOf(u)
  BY <1>1 DEF KeyOf, FireOf
<1>3. OnTheWay(k) = Others(t, k) \cup Carried(t, k)
  BY DEF OnTheWay, Others, Carried
<1>4. OnTheWay(k)' = Others(t, k)' \cup Carried(t, k)'
  BY DEF OnTheWay, Others, Carried
<1>5. Others(t, k)' = Others(t, k)
  BY <1>1, <1>2 DEF Others
<1>6. FireOf(t) \notin Others(t, k)
  <2>1. Running(t)
    BY DEF Running, HookStep, ShouldCapture, LockLoad, Load, Reduce, ReduceRaises, LockStore,
           Store, LeaveHook, ForwardRaises
  <2>2. \A u \in Threads \ {t} : pc[u] \in InHook => FireOf(u) # FireOf(t)
    BY <2>1 DEF LossInv, FreshInv, Running, FireOf, InHook
  <2> QED
    BY <2>2 DEF Others
<1> QED
  BY <1>3, <1>4, <1>5, <1>6

\* A fire is an activation of the abstract log, and its hook finds no call in
\* progress: the log and the counts are in full view.
LEMMA FireVisible ==
  ASSUME TypeOK, BoundInv, LossInv, CrewInv, NEW t \in Threads, HookStep(t)
  PROVE  /\ KeyOf(t) \in Keys /\ FireOf(t) \in Activations
         /\ VisibleLog = data /\ VisibleCount = count
         /\ VisibleLog' = data' /\ VisibleCount' = count'
<1>1. Running(t) /\ UNCHANGED api
  BY DEF Running, HookStep, ShouldCapture, LockLoad, Load, Reduce, ReduceRaises, LockStore,
         Store, LeaveHook, ForwardRaises, apiVars
<1>2. api = "idle"
  BY <1>1 DEF BoundInv, CallInv, Quiet, Running
<1>3. /\ data = [k \in Keys |-> data[k]] /\ count = [k \in Keys |-> count[k]]
      /\ data' = [k \in Keys |-> data'[k]] /\ count' = [k \in Keys |-> count'[k]]
  BY HookStepType DEF TypeOK
<1>4. FireOf(t) \in Activations
  <2>1. fwd[t] \in 1 .. MaxForwards[scope] /\ scope \in Scopes
    BY <1>1, HookPathAssumption DEF LossInv, FreshInv, CrewInv, TypeOK
  <2>2. fwd[t] \in Passes
    BY <2>1 DEF Passes
  <2> QED
    BY <2>2 DEF FireOf, Activations, TypeOK
<1> QED
  BY <1>1, <1>2, <1>3, <1>4, FireType DEF VisibleLog, VisibleCount

\* should_capture is Fire: the activation is new to its key.
LEMMA CaptureMaps ==
  ASSUME TypeOK, BoundInv, LossInv, CrewInv, NEW t \in Threads, ShouldCapture(t)
  PROVE  Log!Fire(KeyOf(t), FireOf(t))
<1> DEFINE k == KeyOf(t)
           c == FireOf(t)
<1>1. /\ k \in Keys /\ c \in Activations
      /\ VisibleLog = data /\ VisibleCount = count
      /\ VisibleLog' = data' /\ VisibleCount' = count'
  BY FireVisible DEF HookStep
<1>2. Log!Fresh(k, c)
  <2>1. c \notin admitted[k] /\ c # Seed
    <3>1. c[1] = fwd[t] /\ c[2] = pos[t] /\ pc[t] = "policy" /\ pos[t] \in Int
      BY DEF ShouldCapture, FireOf, TypeOK
    <3> QED
      BY <1>1, <3>1 DEF LossInv, FreshInv, Running, Seed
  <2>2. c \notin OnTheWay(k)
    <3>1. OnTheWay(k) \subseteq admitted[k]
      BY OnTheWayMember DEF BoundInv, CarriedInv
    <3> QED
      BY <2>1, <3>1
  <2>3. \A i \in DOMAIN data[k] : c \notin Range(data[k][i])
    BY <1>1, <2>1, CapturesMember DEF BoundInv, HeldInv, Held
  <2> QED
    BY <1>1, <2>2, <2>3 DEF Log!Fresh, Log!Range, Range, VisibleWay
<1>3. /\ VisibleCount' = [VisibleCount EXCEPT ![k] = Log!Tick(Log!Config, VisibleCount[k])]
      /\ UNCHANGED <<scope, VisibleLog>>
  BY <1>1, SamePolicy DEF ShouldCapture
<1>4. VisibleWay' = IF Log!Admits(Log!Config, VisibleCount[k])
                    THEN [VisibleWay EXCEPT ![k] = @ \cup {c}] ELSE VisibleWay
  <2>1. Log!Admits(Log!Config, VisibleCount[k]) = Admits(cfg, count[k])
    BY <1>1, SamePolicy
  <2>2. pc[t] = "policy" /\ UNCHANGED <<fwd, pos>>
    BY DEF ShouldCapture
  <2>3. KeyOf(t)' = k /\ FireOf(t)' = c
    BY <2>2 DEF KeyOf, FireOf
  <2>4. ASSUME NEW l \in Keys
        PROVE  OnTheWay(l)' = IF l = k /\ Admits(cfg, count[k])
                              THEN OnTheWay(l) \cup {c} ELSE OnTheWay(l)
    <3>1. /\ OnTheWay(l) = Others(t, l) \cup Carried(t, l)
          /\ OnTheWay(l)' = Others(t, l) \cup Carried(t, l)'
      BY WayHook DEF HookStep
    <3>2. Carried(t, l) = {}
      BY <2>2 DEF Carried, InHook
    <3>3. Carried(t, l)' = IF l = k /\ Admits(cfg, count[k]) THEN {c} ELSE {}
      BY <2>3 DEF Carried, InHook, ShouldCapture, TypeOK
    <3> QED
      BY <3>1, <3>2, <3>3
  <2> QED
    BY <1>1, <2>1, <2>4 DEF VisibleWay
<1> QED
  BY <1>2, <1>3, <1>4 DEF Log!Fire

\* Where what a thread carries is gone, it is gone from its key alone.
LEMMA WayLess ==
  ASSUME TypeOK, LossInv, NEW t \in Threads, HookStep(t),
         pc[t] \in InHook, pc'[t] \notin InHook
  PROVE  /\ FireOf(t) \in VisibleWay[KeyOf(t)]
         /\ VisibleWay' = [VisibleWay EXCEPT ![KeyOf(t)] = @ \ {FireOf(t)}]
<1> DEFINE k == KeyOf(t)
           c == FireOf(t)
<1>1. k \in Keys
  BY FireType
<1>2. ASSUME NEW l \in Keys
      PROVE  OnTheWay(l)' = IF l = k THEN OnTheWay(l) \ {c} ELSE OnTheWay(l)
  <2>1. Carried(t, l)' = {} /\ Carried(t, l) = IF l = k THEN {c} ELSE {}
    BY DEF Carried, InHook
  <2> QED
    BY <2>1, WayHook, ZenonT(30)
<1>3. c \in OnTheWay(k)
  BY OnTheWayMember
<1> QED
  BY <1>1, <1>2, <1>3 DEF VisibleWay

\* The second critical section is Deliver: the vector gets what the log gets.
LEMMA StoreMaps ==
  ASSUME TypeOK, BoundInv, LossInv, CrewInv, FoldInv, NEW t \in Threads, Store(t)
  PROVE  Log!Deliver(KeyOf(t), FireOf(t))
<1> DEFINE k == KeyOf(t)
           c == FireOf(t)
<1>1. /\ k \in Keys /\ VisibleLog = data /\ VisibleCount = count
      /\ VisibleLog' = data' /\ VisibleCount' = count'
  BY FireVisible DEF HookStep
<1>2. pc[t] \in InHook /\ pc'[t] \notin InHook
  BY DEF Store, InHook, TypeOK
<1>3. c \in VisibleWay[k] /\ VisibleWay' = [VisibleWay EXCEPT ![k] = @ \ {c}]
  BY <1>2, WayLess DEF HookStep
<1>4. Stored(k, result[t]) = Log!With(k, c)
  <2>1. CASE k \in scope.reduced
    <3>1. result[t] = Append(Value(k), c) /\ Len(data[k]) <= 1 /\ result[t] \in Tensor
      BY <2>1 DEF Store, FoldInv, TypeOK
    <3>2. Stored(k, result[t]) = <<Append(Value(k), c)>>
      BY <1>1, <2>1, <3>1, StoredFold
    <3> QED
      BY <1>1, <2>1, <3>2 DEF Log!With, Value
  <2>2. CASE k \notin scope.reduced
    <3>1. result[t] = <<c>>
      BY <2>2 DEF Store, LossInv, ResultInv
    <3> QED
      BY <1>1, <2>2, <3>1 DEF Log!With, Stored
  <2> QED
    BY <2>1, <2>2
<1>5. /\ VisibleLog' = [VisibleLog EXCEPT ![k] = Log!With(k, c)]
      /\ UNCHANGED <<scope, VisibleCount>>
  BY <1>1, <1>4 DEF Store
<1> QED
  BY <1>3, <1>5 DEF Log!Deliver

\* A reduction that raises is Drop.
LEMMA RaiseMaps ==
  ASSUME TypeOK, BoundInv, LossInv, CrewInv, NEW t \in Threads, ReduceRaises(t)
  PROVE  Log!Drop(KeyOf(t), FireOf(t))
<1>1. /\ VisibleLog = data /\ VisibleCount = count
      /\ VisibleLog' = data' /\ VisibleCount' = count'
  BY FireVisible DEF HookStep
<1>2. pc[t] \in InHook /\ pc'[t] \notin InHook
  BY DEF ReduceRaises, InHook, TypeOK
<1>3. /\ FireOf(t) \in VisibleWay[KeyOf(t)]
      /\ VisibleWay' = [VisibleWay EXCEPT ![KeyOf(t)] = @ \ {FireOf(t)}]
  BY <1>2, WayLess DEF HookStep
<1> QED
  BY <1>1, <1>3 DEF Log!Drop, ReduceRaises

\* The other steps of a hook do not show.
LEMMA HookHides ==
  ASSUME TypeOK, BoundInv, LossInv, CrewInv, NEW t \in Threads, HookStep(t),
         ~ ShouldCapture(t), ~ Store(t), ~ ReduceRaises(t)
  PROVE  UNCHANGED Log!vars
<1>1. /\ VisibleLog = data /\ VisibleCount = count
      /\ VisibleLog' = data' /\ VisibleCount' = count'
  BY FireVisible
<1>2. /\ UNCHANGED <<scope, data, count, fwd>>
      /\ \/ pc[t] \in InHook /\ pc'[t] \in InHook /\ pos'[t] = pos[t]
         \/ pc[t] \notin InHook /\ pc'[t] \notin InHook
  BY DEF HookStep, LockLoad, Load, Reduce, LockStore, LeaveHook, ForwardRaises, InHook, TypeOK
<1>3. \A k \in Keys : Carried(t, k)' = Carried(t, k)
  BY <1>2 DEF Carried, KeyOf, FireOf, InHook
<1>4. \A k \in Keys : OnTheWay(k)' = OnTheWay(k)
  BY <1>3, WayHook
<1>5. VisibleWay' = VisibleWay
  BY <1>4 DEF VisibleWay
<1> QED
  BY <1>1, <1>2, <1>5 DEF Log!vars

\* A clear shows when it begins, a seed when it is stored.
LEMMA BeginMaps ==
  ASSUME ~ Overlap, TypeOK, BeginSomeCall
  PROVE  Log!Clear \/ UNCHANGED Log!vars
<1>1. /\ Quiet /\ api = "idle" /\ UNCHANGED <<scope, data, count, threadVars>>
      /\ api' \in {"clear", "readback", "init"}
  BY DEF BeginSomeCall, BeginClear, BeginReadback, BeginInitAccumulator, BeginCall, GilFree
<1>2. \A k \in Keys : OnTheWay(k) = {} /\ OnTheWay(k)' = {}
  BY <1>1 DEF OnTheWay, Quiet, InHook, threadVars
<1>3. UNCHANGED VisibleWay /\ \A k \in Keys : VisibleWay[k] = {}
  BY <1>2 DEF VisibleWay
<1>4. CASE api' = "clear"
  BY <1>1, <1>3, <1>4 DEF Log!Clear, VisibleLog, VisibleCount
<1>5. CASE api' # "clear"
  BY <1>1, <1>3, <1>5 DEF Log!vars, VisibleLog, VisibleCount
<1> QED
  BY <1>4, <1>5

\* What the first loop of a clear leaves behind is empty: the vectors it has
\* visited, all of them when it ends.
EmptyInv ==
  /\ api = "clear" => \A k \in Keys \ todo : data[k] = <<>>
  /\ api = "reset" => \A k \in Keys \ todo : count[k] = 0
  /\ api = "reset" => \A k \in Keys : data[k] = <<>>

LEMMA EmptyStep == TypeOK /\ LockInv /\ BoundInv /\ EmptyInv /\ [Next]_vars => EmptyInv'
<1> SUFFICES ASSUME TypeOK, LockInv, BoundInv, EmptyInv, [Next]_vars PROVE EmptyInv'
  OBVIOUS
<1> USE DEF EmptyInv
<1>1. ASSUME NEW t \in Threads, StartForward(t) \/ HookStep(t) PROVE EmptyInv'
  <2>1. UNCHANGED api
    BY <1>1 DEF StartForward, HookStep, ShouldCapture, LockLoad, Load, Reduce, ReduceRaises,
                LockStore, Store, LeaveHook, ForwardRaises, apiVars
  <2>2. api = "idle"
    BY <1>1 DEF BoundInv, CallInv, Quiet, GilFree, StartForward, HookStep, ShouldCapture,
                LockLoad, Load, Reduce, ReduceRaises, LockStore, Store, LeaveHook, ForwardRaises
  <2> QED
    BY <2>1, <2>2
<1>2. CASE BeginSomeCall
  <2>1. api' \in {"readback", "init"} \/ (api' = "clear" /\ todo' = Keys)
    BY <1>2 DEF BeginSomeCall, BeginClear, BeginReadback, BeginInitAccumulator, BeginCall
  <2> QED
    BY <2>1
<1>3. ASSUME NEW k \in Keys, ClearAccum(k) PROVE EmptyInv'
  <2>1. data' = [data EXCEPT ![k] = <<>>]
    BY <1>3, CallUnraced DEF ClearAccum
  <2>2. \A l \in Keys \ (todo \ {k}) : data'[l] = <<>>
    BY <1>3, <2>1 DEF ClearAccum, TypeOK
  <2>3. \/ api' = "clear" /\ todo' = todo \ {k}
        \/ api' = "reset" /\ todo' = Keys /\ todo = {k}
    BY <1>3 DEF ClearAccum, Visited
  <2> QED
    BY <2>2, <2>3
<1>4. ASSUME NEW k \in Keys, ResetCounter(k) PROVE EmptyInv'
  BY <1>4 DEF ResetCounter, Visited, TypeOK
<1>5. ASSUME NEW k \in Keys, ReadbackAccum(k) \/ InitAccumulator(k) PROVE EmptyInv'
  BY <1>5 DEF ReadbackAccum, InitAccumulator, Visited
<1>6. CASE UNCHANGED vars
  BY <1>6 DEF vars, apiVars
<1> QED
  BY <1>1, <1>2, <1>3, <1>4, <1>5, <1>6 DEF Next, CallStep, Finished

LEMMA CallMaps ==
  ASSUME TypeOK, LockInv, BoundInv, EmptyInv, EmptyInv', NEW k \in Keys,
         ClearAccum(k) \/ ResetCounter(k) \/ ReadbackAccum(k) \/ InitAccumulator(k)
  PROVE  Log!SeedKey(k) \/ UNCHANGED Log!vars
<1>1. Quiet /\ UNCHANGED <<scope, threadVars>> /\ ~ Raced(k)
  BY CallUnraced
<1>2. \A l \in Keys : OnTheWay(l) = {} /\ OnTheWay(l)' = {}
  BY <1>1 DEF OnTheWay, Quiet, InHook, threadVars
<1>3. UNCHANGED VisibleWay /\ \A l \in Keys : VisibleWay[l] = {}
  BY <1>2 DEF VisibleWay
<1>4. CASE ClearAccum(k)
  <2>1. api = "clear" /\ api' \in {"clear", "reset"}
    BY <1>4 DEF ClearAccum, Visited
  <2>2. VisibleLog = [l \in Keys |-> <<>>] /\ VisibleLog' = [l \in Keys |-> <<>>]
    BY <2>1 DEF EmptyInv, VisibleLog
  <2>3. VisibleCount' = VisibleCount
    BY <2>1 DEF VisibleCount
  <2> QED
    BY <1>1, <1>3, <2>2, <2>3 DEF Log!vars
<1>5. CASE ResetCounter(k)
  <2>1. api = "reset" /\ api' \in {"reset", "idle"} /\ UNCHANGED data
    BY <1>5 DEF ResetCounter, Visited
  <2>2. VisibleLog' = VisibleLog
    BY <2>1 DEF VisibleLog
  <2>3. api' = "idle" => \A l \in Keys : count'[l] = 0
    <3>1. api' = "idle" => todo = {k}
      BY <1>5 DEF ResetCounter, Visited
    <3> QED
      BY <1>5, <3>1 DEF ResetCounter, EmptyInv, TypeOK
  <2>4. VisibleCount' = VisibleCount
    BY <2>1, <2>3 DEF VisibleCount
  <2> QED
    BY <1>1, <1>3, <2>2, <2>4 DEF Log!vars
<1>6. CASE ReadbackAccum(k)
  <2>1. api = "readback" /\ api' \in {"readback", "idle"} /\ UNCHANGED <<data, count>>
    BY <1>6 DEF ReadbackAccum, Visited
  <2> QED
    BY <1>1, <1>3, <2>1 DEF Log!vars, VisibleLog, VisibleCount
<1>7. CASE InitAccumulator(k)
  <2>1. /\ api = "init" /\ api' \in {"init", "idle"} /\ UNCHANGED count
        /\ data' = [data EXCEPT ![k] = << <<Seed>> >>]
    BY <1>1, <1>7 DEF InitAccumulator, Visited
  <2>2. /\ VisibleLog' = [VisibleLog EXCEPT ![k] = << <<Seed>> >>]
        /\ VisibleCount' = VisibleCount
    BY <2>1 DEF VisibleLog, VisibleCount, TypeOK
  <2> QED
    BY <1>1, <1>3, <2>2 DEF Log!SeedKey
<1> QED
  BY <1>4, <1>5, <1>6, <1>7

LEMMA StartHides ==
  ASSUME TypeOK, NEW t \in Threads, StartForward(t)
  PROVE  UNCHANGED Log!vars
<1>1. /\ UNCHANGED <<scope, data, count, api>> /\ pc[t] \notin InHook /\ pc'[t] \notin InHook
      /\ \A u \in Threads \ {t} : pc'[u] = pc[u] /\ pos'[u] = pos[u] /\ fwd'[u] = fwd[u]
  BY DEF StartForward, apiVars, InHook, TypeOK
<1>2. \A k \in Keys : OnTheWay(k)' = OnTheWay(k)
  BY <1>1 DEF OnTheWay, KeyOf, FireOf, InHook
<1> QED
  BY <1>1, <1>2 DEF Log!vars, VisibleLog, VisibleCount, VisibleWay

LEMMA LogStep ==
  ASSUME ~ Overlap
  PROVE  /\ TypeOK /\ LockInv /\ BoundInv /\ LossInv /\ CrewInv /\ FoldInv
         /\ EmptyInv /\ EmptyInv' /\ [Next]_vars
         => [Log!Next]_(Log!vars)
<1> SUFFICES ASSUME TypeOK, LockInv, BoundInv, LossInv, CrewInv, FoldInv,
                    EmptyInv, EmptyInv', [Next]_vars
             PROVE  Log!Next \/ UNCHANGED Log!vars
  OBVIOUS
<1>1. ASSUME NEW t \in Threads, HookStep(t) PROVE Log!Next \/ UNCHANGED Log!vars
  <2>1. KeyOf(t) \in Keys /\ FireOf(t) \in Activations
    BY <1>1, FireVisible
  <2>2. CASE ShouldCapture(t) \/ Store(t) \/ ReduceRaises(t)
    <3>1. \/ Log!Fire(KeyOf(t), FireOf(t)) \/ Log!Deliver(KeyOf(t), FireOf(t))
          \/ Log!Drop(KeyOf(t), FireOf(t))
      BY <2>2, CaptureMaps, StoreMaps, RaiseMaps
    <3> QED
      BY <2>1, <3>1 DEF Log!Next
  <2> QED
    BY <1>1, <2>2, HookHides
<1>2. ASSUME NEW k \in Keys,
             ClearAccum(k) \/ ResetCounter(k) \/ ReadbackAccum(k) \/ InitAccumulator(k)
      PROVE  Log!Next \/ UNCHANGED Log!vars
  BY <1>2, CallMaps DEF Log!Next
<1>3. CASE UNCHANGED vars
  BY <1>3 DEF vars, threadVars, apiVars, Log!vars, VisibleLog, VisibleCount, VisibleWay,
              OnTheWay, KeyOf, FireOf
<1> QED
  BY <1>1, <1>2, <1>3, StartHides, BeginMaps DEF Next, CallStep, Finished, Log!Next

\* The hooks and the session calls implement the log of captures that a
\* program may rely on, whatever the threads, layers and policies, provided
\* that calls are made between forward passes and that a model with a
\* reduction is run by one thread.
THEOREM LogImplemented ==
  ASSUME ~ Overlap, SerialFolds
  PROVE  Spec => ImplementsLog
<1>1. Init => LockInv /\ CrewInv /\ FoldInv /\ EmptyInv
  <2> SUFFICES ASSUME Init PROVE LockInv /\ CrewInv /\ FoldInv /\ EmptyInv
    OBVIOUS
  <2>1. LockInv
    BY HookPathAssumption DEF Init, LockInv
  <2>2. CrewInv
    BY HookPathAssumption DEF Init, CrewInv, Running
  <2>3. FoldInv
    <3>1. \A k \in scope.reduced : Len(data[k]) <= 1
      BY HookPathAssumption DEF Init, Scope
    <3> QED
      BY <3>1 DEF Init, FoldInv
  <2>4. EmptyInv
    BY DEF Init, EmptyInv
  <2> QED
    BY <2>1, <2>2, <2>3, <2>4
<1>2. Init => Log!Init
  <2> SUFFICES ASSUME Init PROVE Log!Init
    OBVIOUS
  <2>1. \A k \in Keys : OnTheWay(k) = {}
    BY DEF Init, OnTheWay, InHook
  <2> QED
    BY <2>1 DEF Init, Log!Init, VisibleLog, VisibleCount, VisibleWay
<1> QED
  BY <1>1, <1>2, BoundInit, BoundStep, LossInit, LossStep, LockInvStep, CrewStep, FoldStep,
     EmptyStep, LogStep, TypeCorrect, PTL DEF Spec, ImplementsLog, Log!Spec
=============================================================================
