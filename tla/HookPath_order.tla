---------------------------- MODULE HookPath_order ----------------------------
(***************************************************************************)
(* What the vectors of HookPath hold, capture for capture: how many, in    *)
(* which order, and which forward passes they come from.                   *)
(***************************************************************************)
EXTENDS HookPath_log

\* One thread runs the model.
Single == \A t, u \in Crew[scope] : t = u

\* Then the forward pass that is running is the last one begun.
NewestInv == Single => \A t \in Threads : Running(t) => fwd[t] = forwards

\* The invariants of the other proofs, on which those of this module rest.
Base == TypeOK /\ LockInv /\ BoundInv /\ LossInv /\ CrewInv /\ NewestInv

LEMMA NewestStep == TypeOK /\ CrewInv /\ NewestInv /\ [Next]_vars => NewestInv'
<1> SUFFICES ASSUME TypeOK, CrewInv, NewestInv, [Next]_vars PROVE NewestInv'
  OBVIOUS
<1> USE DEF NewestInv, Single, Running
<1>1. ASSUME NEW t \in Threads, StartForward(t) PROVE NewestInv'
  <2>1. /\ UNCHANGED scope /\ t \in Crew[scope] /\ fwd'[t] = forwards'
        /\ \A u \in Threads \ {t} : pc'[u] = pc[u]
    BY <1>1 DEF StartForward, TypeOK
  <2> QED
    BY <2>1 DEF CrewInv
<1>2. ASSUME NEW t \in Threads, HookStep(t) PROVE NewestInv'
  <2>1. /\ Running(t) /\ UNCHANGED <<scope, fwd, forwards>>
        /\ \A u \in Threads \ {t} : pc'[u] = pc[u]
    BY <1>2 DEF HookStep, ShouldCapture, LockLoad, Load, Reduce, ReduceRaises, LockStore,
                Store, LeaveHook, ForwardRaises, TypeOK
  <2> QED
    BY <2>1
<1>3. CASE BeginSomeCall \/ CallStep \/ UNCHANGED vars
  <2>1. UNCHANGED <<scope, pc, fwd, forwards>>
    BY <1>3 DEF BeginSomeCall, BeginClear, BeginReadback, BeginInitAccumulator, BeginCall,
                CallStep, ClearAccum, ResetCounter, ReadbackAccum, InitAccumulator,
                Visited, vars, threadVars
  <2> QED
    BY <2>1
<1> QED
  BY <1>1, <1>2, <1>3 DEF Next, Finished

LEMMA BaseInit == Init => Base
<1> SUFFICES ASSUME Init PROVE Base
  OBVIOUS
<1>1. LockInv
  BY HookPathAssumption DEF Init, LockInv
<1>2. CrewInv
  BY HookPathAssumption DEF Init, CrewInv, Running
<1>3. NewestInv
  BY DEF Init, NewestInv, Running
<1> QED
  BY <1>1, <1>2, <1>3, InitType, BoundInit, LossInit DEF Base

LEMMA BaseStep ==
  ASSUME ~ Overlap
  PROVE  Base /\ [Next]_vars => Base'
BY NextType, LockInvStep, BoundStep, LossStep, CrewStep, NewestStep DEF Base

-----------------------------------------------------------------------------
(***************************************************************************)
(* What the steps do to what the vectors hold.                             *)
(***************************************************************************)

\* The captures under way change on one key, or on none.
WaySame == \A l \in Keys : OnTheWay(l)' = OnTheWay(l)
WayGains(k, c) ==
  \A l \in Keys : OnTheWay(l)' = IF l = k THEN OnTheWay(l) \cup {c} ELSE OnTheWay(l)
WayLoses(k, c) ==
  /\ c \in OnTheWay(k)
  /\ \A l \in Keys : OnTheWay(l)' = IF l = k THEN OnTheWay(l) \ {c} ELSE OnTheWay(l)

\* A fire that no vector, hook or count of its key has seen.
Unseen(k, c) ==
  k \in Keys /\ c \in Fire /\ c # Seed /\ c \notin admitted[k] /\ c \notin OnTheWay(k)

\* The forward passes are counted from one: no fire is the seed's.
LEMMA NotSeed ==
  ASSUME Base, NEW t \in Threads, Running(t)
  PROVE  FireOf(t) \in Fire /\ FireOf(t) # Seed
<1>1. fwd[t] > 0 /\ FireOf(t)[1] = fwd[t]
  BY DEF Base, LossInv, FreshInv, FireOf
<1> QED
  BY <1>1, FireType DEF Base, Seed

LEMMA WayAdmitted ==
  ASSUME BoundInv, NEW k \in Keys
  PROVE  OnTheWay(k) \subseteq admitted[k]
BY OnTheWayMember DEF BoundInv, CarriedInv

\* should_capture: a fire is counted, and under way if it is admitted.
LEMMA CaptureEffect ==
  ASSUME Base, NEW t \in Threads, ShouldCapture(t)
  PROVE  LET k == KeyOf(t)
             c == FireOf(t) IN
         /\ Unseen(k, c) /\ UNCHANGED <<scope, data, raised, seeded, forwards, api, todo>>
         /\ count' = [count EXCEPT ![k] = Tick(cfg, count[k])]
         /\ Admits(cfg, count[k]) => /\ admitted' = [admitted EXCEPT ![k] = @ \cup {c}]
                                     /\ WayGains(k, c)
         /\ ~ Admits(cfg, count[k]) => UNCHANGED admitted /\ WaySame
<1> DEFINE k == KeyOf(t)
           c == FireOf(t)
<1> USE DEF Base
<1>1. k \in Keys /\ c \in Fire
  BY FireType
<1>2. c \notin admitted[k] /\ c # Seed
  <2>1. c[1] = fwd[t] /\ c[2] = pos[t] /\ pc[t] = "policy" /\ pos[t] \in Int
    BY DEF ShouldCapture, FireOf, TypeOK
  <2> QED
    BY <1>1, <2>1 DEF LossInv, FreshInv, Running, Seed
<1>3. Unseen(k, c)
  BY <1>1, <1>2, WayAdmitted DEF Unseen
<1>4. pc[t] = "policy" /\ UNCHANGED <<fwd, pos>>
  BY DEF ShouldCapture
<1>5. KeyOf(t)' = k /\ FireOf(t)' = c
  BY <1>4 DEF KeyOf, FireOf
<1>6. \A l \in Keys : OnTheWay(l)' = IF l = k /\ Admits(cfg, count[k])
                                     THEN OnTheWay(l) \cup {c} ELSE OnTheWay(l)
  <2> TAKE l \in Keys
  <2>1. /\ OnTheWay(l) = Others(t, l) \cup Carried(t, l)
        /\ OnTheWay(l)' = Others(t, l) \cup Carried(t, l)'
    BY WayHook DEF HookStep
  <2>2. Carried(t, l) = {}
    BY <1>4 DEF Carried, InHook
  <2>3. Carried(t, l)' = IF l = k /\ Admits(cfg, count[k]) THEN {c} ELSE {}
    BY <1>5 DEF Carried, InHook, ShouldCapture, TypeOK
  <2> QED
    BY <2>1, <2>2, <2>3
<1> QED
  BY <1>3, <1>6 DEF ShouldCapture, WaySame, WayGains, apiVars

LEMMA LeavesWay ==
  ASSUME Base, NEW t \in Threads, HookStep(t), pc[t] \in InHook, pc'[t] \notin InHook
  PROVE  WayLoses(KeyOf(t), FireOf(t))
<1>1. ASSUME NEW l \in Keys
      PROVE  OnTheWay(l)' = IF l = KeyOf(t) THEN OnTheWay(l) \ {FireOf(t)} ELSE OnTheWay(l)
  <2>1. Carried(t, l)' = {} /\ Carried(t, l) = IF l = KeyOf(t) THEN {FireOf(t)} ELSE {}
    BY DEF Carried, InHook
  <2> QED
    BY <2>1, WayHook DEF Base
<1> QED
  BY <1>1, OnTheWayMember DEF WayLoses

\* The second critical section: a fire under way is stored.
LEMMA StoreEffect ==
  ASSUME Base, NEW t \in Threads, Store(t)
  PROVE  LET k == KeyOf(t)
             c == FireOf(t) IN
         /\ k \in Keys /\ c \in Fire /\ c \in admitted[k]
         /\ UNCHANGED <<scope, count, ghosts, forwards, api, todo>>
         /\ data' = [data EXCEPT ![k] = Stored(k, result[t])]
         /\ k \notin scope.reduced => result[t] = <<c>>
         /\ WayLoses(k, c)
<1>1. pc[t] = "store" /\ pc[t] \in InHook /\ pc'[t] \notin InHook /\ HookStep(t)
  BY DEF Store, InHook, Base, TypeOK, HookStep
<1>2. KeyOf(t) \in Keys /\ FireOf(t) \in Fire /\ FireOf(t) \in admitted[KeyOf(t)]
  BY <1>1, FireType DEF Base, BoundInv, CarriedInv
<1> QED
  BY <1>1, <1>2, LeavesWay DEF Store, apiVars, Base, LossInv, ResultInv

\* A reduction that raises: its fire is under way no more.
LEMMA RaiseEffect ==
  ASSUME Base, NEW t \in Threads, ReduceRaises(t)
  PROVE  LET k == KeyOf(t)
             c == FireOf(t) IN
         /\ k \in Keys /\ k \in scope.reduced /\ c \in admitted[k]
         /\ UNCHANGED <<scope, data, count, admitted, seeded, forwards, api, todo>>
         /\ raised' = [raised EXCEPT ![k] = @ \cup {c}]
         /\ WayLoses(k, c)
<1>1. pc[t] \in InHook /\ pc'[t] \notin InHook /\ HookStep(t)
  BY DEF ReduceRaises, InHook, Base, TypeOK, HookStep
<1>2. KeyOf(t) \in Keys /\ FireOf(t) \in admitted[KeyOf(t)]
  BY <1>1, FireType DEF Base, BoundInv, CarriedInv
<1> QED
  BY <1>1, <1>2, LeavesWay DEF ReduceRaises, apiVars

\* The other steps of a hook and a pass, and the beginning of a call.
Unmoved == UNCHANGED <<scope, data, count, admitted, raised, seeded>> /\ WaySame

LEMMA HookUnmoved ==
  ASSUME Base, NEW t \in Threads, HookStep(t) \/ StartForward(t),
         ~ ShouldCapture(t), ~ Store(t), ~ ReduceRaises(t)
  PROVE  Unmoved /\ UNCHANGED <<api, todo>>
<1> USE DEF Base
<1>1. CASE HookStep(t)
  <2>1. /\ UNCHANGED <<scope, data, count, admitted, raised, seeded, api, todo, fwd>>
        /\ \/ pc[t] \in InHook /\ pc'[t] \in InHook /\ pos'[t] = pos[t]
           \/ pc[t] \notin InHook /\ pc'[t] \notin InHook
    BY <1>1 DEF HookStep, LockLoad, Load, Reduce, LockStore, LeaveHook, ForwardRaises,
                InHook, TypeOK, ghosts, apiVars
  <2>2. \A k \in Keys : Carried(t, k)' = Carried(t, k)
    BY <2>1 DEF Carried, KeyOf, FireOf, InHook
  <2> QED
    BY <1>1, <2>1, <2>2, WayHook DEF Unmoved, WaySame
<1>2. CASE StartForward(t)
  <2>1. /\ pc[t] \notin InHook /\ pc'[t] \notin InHook
        /\ \A u \in Threads \ {t} : pc'[u] = pc[u] /\ pos'[u] = pos[u] /\ fwd'[u] = fwd[u]
    BY <1>2 DEF StartForward, InHook, TypeOK
  <2>2. WaySame
    BY <2>1 DEF WaySame, OnTheWay, KeyOf, FireOf, InHook
  <2> QED
    BY <1>2, <2>2 DEF StartForward, Unmoved, ghosts, apiVars
<1> QED
  BY <1>1, <1>2

LEMMA BeginUnmoved ==
  ASSUME BeginSomeCall \/ UNCHANGED vars
  PROVE  Unmoved /\ UNCHANGED <<threadVars, forwards>>
<1>1. UNCHANGED <<scope, data, count, admitted, raised, seeded, threadVars, forwards>>
  BY DEF BeginSomeCall, BeginClear, BeginReadback, BeginInitAccumulator, BeginCall, vars, ghosts
<1> QED
  BY <1>1 DEF Unmoved, WaySame, OnTheWay, KeyOf, FireOf, InHook, threadVars

\* A call's round: nothing is under way, and one vector is emptied or seeded,
\* or one counter set back, or nothing happens.
LEMMA CallEffect ==
  ASSUME Base, NEW k \in Keys,
         ClearAccum(k) \/ ResetCounter(k) \/ ReadbackAccum(k) \/ InitAccumulator(k)
  PROVE  /\ Quiet /\ UNCHANGED <<scope, threadVars, forwards>>
         /\ \A l \in Keys : OnTheWay(l) = {} /\ OnTheWay(l)' = {}
         /\ \/ /\ ClearAccum(k) \/ InitAccumulator(k)
               /\ data' = [data EXCEPT ![k] = IF ClearAccum(k) THEN <<>> ELSE << <<Seed>> >>]
               /\ Forget(k) /\ UNCHANGED count
               /\ seeded' = IF ClearAccum(k) THEN seeded \ {k} ELSE seeded \cup {k}
            \/ /\ ResetCounter(k) /\ count' = [count EXCEPT ![k] = 0] /\ UNCHANGED <<data, ghosts>>
            \/ ReadbackAccum(k) /\ UNCHANGED <<data, count, ghosts>>
<1>1. Quiet /\ UNCHANGED <<scope, threadVars>> /\ ~ Raced(k)
  BY CallUnraced DEF Base
<1>2. UNCHANGED forwards
  BY DEF ClearAccum, ResetCounter, ReadbackAccum, InitAccumulator, Visited
<1>3. \A l \in Keys : OnTheWay(l) = {} /\ OnTheWay(l)' = {}
  BY <1>1 DEF OnTheWay, Quiet, InHook, threadVars
<1>4. CASE ClearAccum(k)
  BY <1>1, <1>2, <1>3, <1>4 DEF ClearAccum
<1>5. CASE InitAccumulator(k)
  <2>1. ~ ClearAccum(k)
    BY <1>5 DEF ClearAccum, InitAccumulator
  <2> QED
    BY <1>1, <1>2, <1>3, <1>5, <2>1 DEF InitAccumulator
<1>6. CASE ResetCounter(k)
  BY <1>1, <1>2, <1>3, <1>6 DEF ResetCounter
<1>7. CASE ReadbackAccum(k)
  BY <1>1, <1>2, <1>3, <1>7 DEF ReadbackAccum
<1> QED
  BY <1>4, <1>5, <1>6, <1>7

-----------------------------------------------------------------------------
(***************************************************************************)
(* A layer that keeps everything stores each capture once.                 *)
(***************************************************************************)

\* The captures of a vector, its seeds and its length before and after the
\* store of one fire.
LEMMA AppendHolds ==
  ASSUME TypeOK, NEW k \in Keys, NEW c \in Fire, c # Seed,
         data'[k] = Append(data[k], <<c>>)
  PROVE  /\ Held(k)' = Held(k) \cup {c} /\ Seeds(k)' = Seeds(k)
         /\ Len(data'[k]) = Len(data[k]) + 1
<1> DEFINE v == data[k]
           w == Append(v, <<c>>)
<1>1. v \in Seq(Tensor) /\ Range(<<c>>) = {c}
  BY DEF TypeOK, Range
<1>2. /\ DOMAIN w = DOMAIN v \cup {Len(v) + 1} /\ w[Len(v) + 1] = <<c>>
      /\ \A i \in DOMAIN v : w[i] = v[i]
      /\ Len(w) = Len(v) + 1
  BY <1>1
<1>3. <<c>> # <<Seed>>
  <2>1. <<c>>[1] = c /\ <<Seed>>[1] = Seed
    OBVIOUS
  <2> QED
    BY <2>1
<1> HIDE DEF v, w
<1>4. {i \in DOMAIN w : w[i] = <<Seed>>} = {i \in DOMAIN v : v[i] = <<Seed>>}
  BY <1>2, <1>3
<1>5. \A d : /\ d \in Captures(w) <=> d # Seed /\ \E i \in DOMAIN w : d \in Range(w[i])
             /\ d \in Captures(v) <=> d # Seed /\ \E i \in DOMAIN v : d \in Range(v[i])
  BY CapturesMember
<1>6. \A d : d \in Captures(w) <=> d \in Captures(v) \/ d = c
  BY <1>1, <1>2, <1>5
<1>7. Captures(w) = Captures(v) \cup {c}
  BY <1>6
<1>8. data'[k] = w
  BY DEF w, v
<1> QED
  BY <1>2, <1>4, <1>7, <1>8 DEF Held, Seeds, v

\* A layer that keeps everything appends what it is given.
LEMMA KeepsAppends ==
  ASSUME Base, NEW t \in Threads, Store(t), KeepsAll(KeyOf(t))
  PROVE  data'[KeyOf(t)] = Append(data[KeyOf(t)], <<FireOf(t)>>)
BY StoreEffect DEF Base, TypeOK, Stored, KeepsAll

LEMMA EmptyHolds ==
  ASSUME NEW k \in Keys, data'[k] = <<>> \/ data'[k] = << <<Seed>> >>
  PROVE  /\ Held(k)' = {}
         /\ data'[k] = <<>> => Len(data'[k]) = 0 /\ Seeds(k)' = {}
         /\ data'[k] = << <<Seed>> >> => Len(data'[k]) = 1 /\ Seeds(k)' = {1}
<1>1. Captures(data'[k]) = {}
  BY CapturesMember DEF Range
<1> QED
  BY <1>1 DEF Held, Seeds

LEMMA HeldFinite ==
  ASSUME Base, NEW k \in Keys
  PROVE  /\ IsFiniteSet(Held(k)) /\ Cardinality(Held(k)) \in Nat
         /\ IsFiniteSet(Seeds(k)) /\ Cardinality(Seeds(k)) \in Nat
<1>1. IsFiniteSet(admitted[k]) /\ Held(k) \subseteq admitted[k]
  BY DEF Base, BoundInv, CountInv, HeldInv
<1>2. Seeds(k) \subseteq 1 .. Len(data[k]) /\ Len(data[k]) \in Nat
  BY DEF Base, TypeOK, Seeds
<1>3. IsFiniteSet(1 .. Len(data[k]))
  BY <1>2, FS_Interval
<1> QED
  BY <1>1, <1>2, <1>3, FS_Subset, FS_CardinalityType

\* What a key holds is as it was where its vector is.
LEMMA SameHolds ==
  ASSUME NEW k \in Keys, data'[k] = data[k]
  PROVE  Held(k)' = Held(k) /\ Seeds(k)' = Seeds(k)
BY DEF Held, Seeds

\* Each store lengthens the vector by one and adds one capture to it.
LEMMA OnceStore ==
  ASSUME Base, StoredOnce, NEW t \in Threads, Store(t)
  PROVE  StoredOnce'
<1> DEFINE k == KeyOf(t)
           c == FireOf(t)
<1>1. SUFFICES ASSUME NEW l \in Keys, KeepsAll(l)
               PROVE  Len(data'[l]) = Cardinality(Held(l)') + Cardinality(Seeds(l)')
  BY StoreEffect DEF StoredOnce, KeepsAll
<1>2. /\ k \in Keys /\ c \in Fire /\ data' = [data EXCEPT ![k] = Stored(k, result[t])]
      /\ c \in OnTheWay(k) /\ c \in admitted[k]
  BY StoreEffect DEF WayLoses
<1>3. CASE l # k
  BY <1>1, <1>2, <1>3, SameHolds DEF Base, TypeOK, StoredOnce
<1>4. CASE l = k
  <2>1. data'[l] = Append(data[l], <<c>>)
    BY <1>1, <1>4, KeepsAppends
  <2>2. c # Seed /\ c \notin Held(l)
    <3>1. Held(l) \cap OnTheWay(l) = {}
      BY <1>1, <1>2, <1>4 DEF Base, LossInv, NothingLost
    <3>2. c # Seed
      BY NotSeed DEF Store, Running
    <3> QED
      BY <1>2, <1>4, <3>1, <3>2
  <2>3. /\ Held(l)' = Held(l) \cup {c} /\ Seeds(l)' = Seeds(l)
        /\ Len(data'[l]) = Len(data[l]) + 1
    BY <1>2, <2>1, <2>2, AppendHolds DEF Base
  <2>4. Cardinality(Held(l) \cup {c}) = Cardinality(Held(l)) + 1
    BY <1>2, <2>2, HeldFinite, FS_AddElement
  <2> QED
    BY <1>1, <1>2, <1>4, <2>3, <2>4, HeldFinite DEF StoredOnce
<1> QED
  BY <1>3, <1>4

LEMMA OnceStep ==
  ASSUME ~ Overlap
  PROVE  Base /\ StoredOnce /\ [Next]_vars => StoredOnce'
<1> SUFFICES ASSUME Base, StoredOnce, [Next]_vars PROVE StoredOnce'
  OBVIOUS
<1>1. ASSUME UNCHANGED <<scope, data>> PROVE StoredOnce'
  BY <1>1 DEF StoredOnce, KeepsAll, Held, Seeds
<1>2. ASSUME NEW t \in Threads, StartForward(t) \/ HookStep(t), ~ Store(t) PROVE StoredOnce'
  BY <1>1, <1>2, HookUnmoved, CaptureEffect, RaiseEffect DEF Unmoved
<1>3. ASSUME NEW k \in Keys,
             ClearAccum(k) \/ ResetCounter(k) \/ ReadbackAccum(k) \/ InitAccumulator(k)
      PROVE  StoredOnce'
  <2>1. CASE UNCHANGED data
    BY <1>1, <1>3, <2>1, CallEffect
  <2>2. CASE /\ data' = [data EXCEPT ![k] = IF ClearAccum(k) THEN <<>> ELSE << <<Seed>> >>]
             /\ UNCHANGED scope
    <3> SUFFICES ASSUME NEW l \in Keys, KeepsAll(l)
                 PROVE  Len(data'[l]) = Cardinality(Held(l)') + Cardinality(Seeds(l)')
      BY <2>2 DEF StoredOnce, KeepsAll
    <3>1. CASE l # k
      BY <2>2, <3>1, SameHolds DEF Base, TypeOK, StoredOnce
    <3>2. CASE l = k
      <4>1. data'[l] = <<>> \/ data'[l] = << <<Seed>> >>
        BY <2>2, <3>2 DEF Base, TypeOK
      <4>2. Cardinality({}) = 0 /\ Cardinality({1}) = 1
        BY FS_EmptySet, FS_Singleton
      <4> QED
        <5>1. CASE data'[l] = <<>>
          <6>1. Held(l)' = {} /\ Seeds(l)' = {} /\ Len(data'[l]) = 0
            BY <5>1, EmptyHolds
          <6> QED
            BY <4>2, <6>1
        <5>2. CASE data'[l] = << <<Seed>> >>
          <6>1. Held(l)' = {} /\ Seeds(l)' = {1} /\ Len(data'[l]) = 1
            BY <5>2, EmptyHolds
          <6> QED
            BY <4>2, <6>1
        <5> QED
          BY <4>1, <5>1, <5>2
    <3> QED
      BY <3>1, <3>2
  <2> QED
    BY <1>3, <2>1, <2>2, CallEffect
<1>4. CASE BeginSomeCall \/ UNCHANGED vars
  BY <1>1, <1>4, BeginUnmoved DEF Unmoved
<1> QED
  BY <1>2, <1>3, <1>4, OnceStore DEF Next, CallStep, Finished, HookStep

LEMMA OnceInit == Init => StoredOnce
<1> SUFFICES ASSUME Init, NEW k \in Keys
             PROVE  Len(data[k]) = Cardinality(Held(k)) + Cardinality(Seeds(k))
  BY DEF StoredOnce
<1>1. data[k] = <<>>
  BY DEF Init
<1>2. Held(k) = {} /\ Seeds(k) = {}
  BY <1>1, CapturesMember DEF Held, Seeds
<1> QED
  BY <1>1, <1>2, FS_EmptySet

\* A layer that keeps everything stores no activation twice and nothing that
\* is neither an activation nor a seed: its vector is as long as the number
\* of different captures in it, seeds apart, however threads interleave.
THEOREM NothingStoredTwice ==
  ASSUME ~ Overlap
  PROVE  Spec => []StoredOnce
BY BaseInit, BaseStep, OnceInit, OnceStep, PTL DEF Spec

-----------------------------------------------------------------------------
(***************************************************************************)
(* SAMPLE_N captures one fire in sample_every.                             *)
(***************************************************************************)

\* The keys whose vector and counter agree: a clear has come past both of
\* them, or past neither.
Settled(k) == (api = "clear" => k \in todo) /\ (api = "reset" => k \notin todo)

\* The admitted fires of a settled key are counted by its counter.
SampledAt(k) ==
  KeepsAll(k) /\ Seeds(k) = {} /\ Settled(k) =>
    Cardinality(admitted[k]) = count[k] \div cfg.sampleEvery
SampleInv == cfg.policy = "SAMPLE_N" => \A k \in Keys : SampledAt(k)

\* Counting one more fire completes a sample or does not.
LEMMA OneInN ==
  ASSUME NEW n \in Nat, NEW m \in Nat, m > 1
  PROVE  (n + 1) \div m = IF (n + 1) % m = 0 THEN n \div m + 1 ELSE n \div m
<1> DEFINE q == n \div m
           r == n % m
           qq == (n + 1) \div m
           rr == (n + 1) % m
<1>1. q \in Int /\ r \in 0 .. m - 1 /\ n = m * q + r
  OBVIOUS
<1>2. qq \in Int /\ rr \in 0 .. m - 1 /\ n + 1 = m * qq + rr
  OBVIOUS
<1> HIDE DEF q, r, qq, rr
<1>3. m * (qq - q) = r + 1 - rr
  BY <1>1, <1>2
<1>4. r + 1 - rr \in (2 - m) .. m
  BY <1>1, <1>2
<1>5. qq - q < 2
  <2> SUFFICES ASSUME qq - q >= 2 PROVE FALSE
    BY <1>1, <1>2
  <2>1. m * (qq - q) >= m * 2
    BY <1>1, <1>2
  <2> QED
    BY <1>1, <1>2, <1>3, <1>4, <2>1
<1>6. qq - q > -1
  <2> SUFFICES ASSUME qq - q <= -1 PROVE FALSE
    BY <1>1, <1>2
  <2>1. m * (qq - q) <= m * (-1)
    BY <1>1, <1>2
  <2> QED
    BY <1>1, <1>2, <1>3, <1>4, <2>1
<1>7. CASE qq = q
  <2>1. rr = r + 1
    BY <1>1, <1>2, <1>3, <1>7
  <2> QED
    BY <1>1, <1>7, <2>1 DEF q, qq, rr
<1>8. CASE qq = q + 1
  <2>1. rr = 0
    <3>1. m * (qq - q) = m
      BY <1>1, <1>8
    <3> QED
      BY <1>1, <1>2, <1>3, <3>1
  <2> QED
    BY <1>8, <2>1 DEF q, qq, rr
<1> QED
  BY <1>1, <1>2, <1>5, <1>6, <1>7, <1>8

\* The sampling rate make_config accepts is above one.
LEMMA CfgSample ==
  ASSUME TypeOK, cfg.policy = "SAMPLE_N"
  PROVE  cfg.sampleEvery \in Nat /\ cfg.sampleEvery > 1
BY DEF TypeOK, Scope, cfg, MakeConfig, Knobs, Policies

LEMMA SampleCapture ==
  ASSUME Base, SampleInv, NEW t \in Threads, ShouldCapture(t)
  PROVE  SampleInv'
<1> DEFINE k == KeyOf(t)
           c == FireOf(t)
<1>1. SameScope
  BY HookScope DEF HookStep
<1> SUFFICES ASSUME cfg.policy = "SAMPLE_N", NEW l \in Keys, KeepsAll(l), Seeds(l) = {}, Settled(l)
             PROVE  Cardinality(admitted'[l]) = count'[l] \div cfg.sampleEvery
  BY <1>1, CaptureEffect DEF SampleInv, SampledAt, SameScope, Settled, Seeds
<1>2. Cardinality(admitted[l]) = count[l] \div cfg.sampleEvery
  BY DEF SampleInv, SampledAt
<1>3. CASE l # k
  BY <1>2, <1>3, CaptureEffect DEF Base, TypeOK
<1>4. CASE l = k
  <2>1. count'[k] = count[k] + 1 /\ count[k] \in Nat
    BY <1>4, CaptureEffect DEF Base, TypeOK, Tick
  <2>2. cfg.sampleEvery \in Nat /\ cfg.sampleEvery > 1
    BY CfgSample DEF Base
  <2>3. Admits(cfg, count[k]) <=> (count[k] + 1) % cfg.sampleEvery = 0
    BY DEF Admits
  <2>4. count'[k] \div cfg.sampleEvery = IF Admits(cfg, count[k])
                                         THEN count[k] \div cfg.sampleEvery + 1
                                         ELSE count[k] \div cfg.sampleEvery
    BY <2>1, <2>2, <2>3, OneInN
  <2>5. CASE Admits(cfg, count[k])
    <3>1. admitted'[k] = admitted[k] \cup {c} /\ c \notin admitted[k]
      BY <1>4, <2>5, CaptureEffect DEF Base, TypeOK, Unseen
    <3>2. IsFiniteSet(admitted[k])
      BY <1>4 DEF Base, BoundInv, CountInv
    <3>3. Cardinality(admitted'[k]) = Cardinality(admitted[k]) + 1
      BY <3>1, <3>2, FS_AddElement, ZenonT(30)
    <3> QED
      BY <1>2, <1>4, <2>4, <2>5, <3>3
  <2>6. CASE ~ Admits(cfg, count[k])
    BY <1>2, <1>4, <2>4, <2>6, CaptureEffect
  <2> QED
    BY <2>5, <2>6
<1> QED
  BY <1>3, <1>4

LEMMA SampleStore ==
  ASSUME Base, SampleInv, NEW t \in Threads, Store(t)
  PROVE  SampleInv'
<1>1. SameScope
  BY HookScope DEF HookStep
<1>2. UNCHANGED <<count, admitted, api, todo>>
  BY StoreEffect DEF ghosts
<1>3. \A l \in Keys : KeepsAll(l) => Seeds(l)' = Seeds(l)
  <2> TAKE l \in Keys
  <2>1. CASE l = KeyOf(t) /\ KeepsAll(l)
    <3>1. FireOf(t) # Seed
      BY NotSeed DEF Store, Running
    <3> QED
      BY <2>1, <3>1, KeepsAppends, AppendHolds, StoreEffect DEF Base
  <2>2. CASE l # KeyOf(t)
    BY <2>2, StoreEffect, SameHolds DEF Base, TypeOK
  <2> QED
    BY <2>1, <2>2
<1> QED
  BY <1>1, <1>2, <1>3 DEF SampleInv, SampledAt, SameScope, Settled

LEMMA SampleCall ==
  ASSUME Base, SampleInv, NEW k \in Keys,
         ClearAccum(k) \/ ResetCounter(k) \/ ReadbackAccum(k) \/ InitAccumulator(k)
  PROVE  SampleInv'
<1>1. SameScope
  BY CallScope
<1> SUFFICES ASSUME cfg.policy = "SAMPLE_N", NEW l \in Keys, KeepsAll(l), Seeds(l)' = {}, Settled(l)'
             PROVE  Cardinality(admitted'[l]) = count'[l] \div cfg.sampleEvery
  BY <1>1 DEF SampleInv, SampledAt, SameScope
<1>2. SampledAt(l)
  BY DEF SampleInv
<1>3. CASE ClearAccum(k)
  <2>1. api = "clear" /\ Visited(k, "reset", Keys) /\ Forget(k) /\ UNCHANGED count
    BY <1>3 DEF ClearAccum
  <2>2. api' = "clear" /\ todo' = todo \ {k} /\ l \in todo /\ l # k
    BY <2>1 DEF Visited, Settled
  <2>3. Settled(l) /\ data'[l] = data[l] /\ admitted'[l] = admitted[l]
    <3>1. \E v : data' = [data EXCEPT ![k] = v]
      BY <1>3 DEF ClearAccum
    <3> QED
      BY <2>1, <2>2, <3>1 DEF Settled, Forget, Base, TypeOK
  <2> QED
    BY <1>2, <2>1, <2>3, SameHolds DEF SampledAt
<1>4. CASE ResetCounter(k)
  <2>1. api = "reset" /\ Visited(k, "idle", {}) /\ UNCHANGED <<data, ghosts>>
        /\ count' = [count EXCEPT ![k] = 0] /\ k \in todo
    BY <1>4 DEF ResetCounter, Visited
  <2>2. CASE l = k
    <3>1. admitted'[l] = {} /\ count'[l] = 0
      BY <2>1, <2>2 DEF Base, BoundInv, EmptiedInv, TypeOK, ghosts
    <3>2. 0 \div cfg.sampleEvery = 0
      BY CfgSample DEF Base
    <3> QED
      BY <3>1, <3>2, FS_EmptySet
  <2>3. CASE l # k
    <3>1. Settled(l)
      BY <2>1, <2>3 DEF Visited, Settled
    <3>2. count'[l] = count[l] /\ admitted'[l] = admitted[l] /\ data'[l] = data[l]
      BY <2>1, <2>3 DEF Base, TypeOK, ghosts
    <3> QED
      BY <1>2, <3>1, <3>2, SameHolds DEF SampledAt
  <2> QED
    BY <2>2, <2>3
<1>5. CASE ReadbackAccum(k)
  <2>1. Settled(l) /\ UNCHANGED <<data, count, admitted>>
    BY <1>5 DEF ReadbackAccum, Visited, Settled, ghosts
  <2> QED
    BY <1>2, <2>1, SameHolds DEF SampledAt
<1>6. CASE InitAccumulator(k)
  <2>1. /\ data' = [data EXCEPT ![k] = << <<Seed>> >>] /\ Forget(k) /\ UNCHANGED count
        /\ api = "init"
    <3>1. ~ ClearAccum(k) /\ ~ ResetCounter(k) /\ ~ ReadbackAccum(k) /\ api = "init"
      BY <1>6 DEF ClearAccum, ResetCounter, ReadbackAccum, InitAccumulator
    <3> QED
      BY <3>1, CallEffect
  <2>2. l # k
    BY <2>1, EmptyHolds DEF Base, TypeOK
  <2>3. Settled(l) /\ data'[l] = data[l] /\ admitted'[l] = admitted[l]
    BY <2>1, <2>2 DEF Settled, Forget, Base, TypeOK
  <2> QED
    BY <1>2, <2>1, <2>3, SameHolds DEF SampledAt
<1> QED
  BY <1>3, <1>4, <1>5, <1>6

LEMMA SampleStep ==
  ASSUME ~ Overlap
  PROVE  Base /\ SampleInv /\ [Next]_vars => SampleInv'
<1> SUFFICES ASSUME Base, SampleInv, [Next]_vars PROVE SampleInv'
  OBVIOUS
<1>1. ASSUME UNCHANGED <<data, count, admitted>>, SameScope,
             \A k \in Keys : Settled(k)' => Settled(k)
      PROVE  SampleInv'
  BY <1>1 DEF SampleInv, SampledAt, SameScope, Seeds
<1>2. ASSUME NEW t \in Threads, StartForward(t) \/ HookStep(t),
             ~ Store(t), ~ ShouldCapture(t)
      PROVE  SampleInv'
  BY <1>1, <1>2, HookScope, HookUnmoved, RaiseEffect DEF Unmoved, Settled
<1>3. CASE BeginSomeCall
  <2>1. GilFree /\ (api' = "clear" => todo' = Keys) /\ api' # "reset"
    BY <1>3 DEF BeginSomeCall, BeginClear, BeginReadback, BeginInitAccumulator, BeginCall
  <2> QED
    BY <1>1, <1>3, <2>1, BeginScope, BeginUnmoved DEF Unmoved, Settled, GilFree
<1>4. CASE UNCHANGED vars
  BY <1>1, <1>4, BeginScope, BeginUnmoved DEF Unmoved, Settled, vars, apiVars
<1> QED
  BY <1>2, <1>3, <1>4, SampleCapture, SampleStore, SampleCall DEF Next, CallStep, Finished, HookStep

\* Under SAMPLE_N a vector that was not re-seeded is as long as its counter
\* says, whichever threads the fires came from and however a clear fell.
THEOREM SamplesExact ==
  ASSUME ~ Overlap
  PROVE  Spec => []SampleExact
<1>1. Init => SampleInv
  <2> SUFFICES ASSUME Init, cfg.policy = "SAMPLE_N", NEW k \in Keys PROVE SampledAt(k)
    BY DEF SampleInv
  <2>1. admitted[k] = {} /\ count[k] = 0
    BY DEF Init
  <2>2. 0 \div cfg.sampleEvery = 0
    BY InitType, CfgSample
  <2> QED
    BY <2>1, <2>2, FS_EmptySet DEF SampledAt
<1>2. Base /\ StoredOnce /\ SampleInv => SampleExact
  <2> SUFFICES ASSUME Base, StoredOnce, SampleInv, cfg.policy = "SAMPLE_N", AtRest,
                      NEW k \in Keys, KeepsAll(k), Seeds(k) = {}
               PROVE  Len(data[k]) = count[k] \div cfg.sampleEvery
    BY DEF SampleExact
  <2>1. Settled(k) /\ OnTheWay(k) = {}
    BY DEF AtRest, GilFree, Quiet, Settled, OnTheWay, InHook
  <2>2. Held(k) = admitted[k]
    BY <2>1 DEF Base, LossInv, NothingLost
  <2>3. Len(data[k]) = Cardinality(admitted[k]) + Cardinality({})
    BY <2>2 DEF StoredOnce
  <2> QED
    BY <2>1, <2>2, <2>3, HeldFinite, FS_EmptySet DEF SampleInv, SampledAt
<1> QED
  BY <1>1, <1>2, BaseInit, BaseStep, OnceInit, OnceStep, SampleStep, PTL DEF Spec

-----------------------------------------------------------------------------
(***************************************************************************)
(* One thread stores its captures in the order of its fires.               *)
(***************************************************************************)

\* A crew may have any number of threads, but a program has finitely many.
FiniteCrews == \A s \in Scopes : IsFiniteSet(Crew[s])

LEMMA SerialIsSingle ==
  ASSUME FiniteCrews, CrewInv, Serial
  PROVE  Single
<1> SUFFICES ASSUME NEW t \in Crew[scope], NEW u \in Crew[scope], t # u PROVE FALSE
  BY DEF Single
<1>1. IsFiniteSet(Crew[scope]) /\ {t, u} \subseteq Crew[scope]
  BY DEF FiniteCrews, CrewInv
<1>2. Cardinality({t} \cup {u}) = 2
  <2>1. IsFiniteSet({t}) /\ Cardinality({t}) = 1 /\ u \notin {t}
    BY FS_Singleton
  <2> QED
    BY <2>1, FS_AddElement
<1>3. {t, u} = {t} \cup {u}
  OBVIOUS
<1>4. Cardinality({t, u}) <= Cardinality(Crew[scope]) /\ Cardinality(Crew[scope]) \in Nat
  BY <1>1, FS_Subset, FS_CardinalityType
<1> QED
  BY <1>2, <1>3, <1>4 DEF Serial

\* The fire a single thread is at comes after every other its key admitted.
LEMMA LatestFire ==
  ASSUME Base, Single, NEW t \in Threads, Running(t)
  PROVE  /\ Before(Seed, FireOf(t))
         /\ \A d \in admitted[KeyOf(t)] : d # FireOf(t) => Before(d, FireOf(t))
<1> DEFINE c == FireOf(t)
<1>1. c[1] = fwd[t] /\ c[2] = pos[t] /\ fwd[t] = forwards /\ fwd[t] > 0 /\ forwards \in Nat
  BY DEF FireOf, Base, NewestInv, LossInv, FreshInv, TypeOK
<1>2. Before(Seed, c)
  BY <1>1 DEF Before, Seed
<1>3. ASSUME NEW d \in admitted[KeyOf(t)], d # c PROVE Before(d, c)
  <2>1. d \in Fire /\ KeyOf(t) \in Keys
    BY FireType DEF Base, TypeOK
  <2>2. d[1] \in Nat /\ d[2] \in Nat /\ d = <<d[1], d[2]>> /\ pos[t] \in Nat
    BY <2>1 DEF Fire, Base, TypeOK
  <2>3. d[1] <= forwards /\ (d[1] = fwd[t] => d[2] <= pos[t])
    BY <2>1, <2>2 DEF Base, LossInv, FreshInv
  <2>4. ~ (d[1] = fwd[t] /\ d[2] = pos[t])
    BY <1>3, <2>2 DEF FireOf
  <2> QED
    BY <1>1, <2>2, <2>3, <2>4 DEF Before
<1> QED
  BY <1>2, <1>3

\* A layer that keeps everything holds captures one by one, in order.
EntriesAt(k) ==
  KeepsAll(k) => \A i \in DOMAIN data[k] : \E c \in admitted[k] \cup {Seed} : data[k][i] = <<c>>
SortedAt(k) ==
  Single /\ KeepsAll(k) =>
    \A i, j \in DOMAIN data[k] : i < j => Before(data[k][i][1], data[k][j][1])
OrderAt(k) == EntriesAt(k) /\ SortedAt(k)
OrderInv == \A k \in Keys : OrderAt(k)

LEMMA OrderFrame ==
  ASSUME NEW k \in Keys, OrderAt(k), UNCHANGED scope, data'[k] = data[k],
         admitted[k] \subseteq admitted'[k]
  PROVE  OrderAt(k)'
BY DEF OrderAt, EntriesAt, SortedAt, KeepsAll, Single

LEMMA OrderStore ==
  ASSUME Base, OrderInv, NEW t \in Threads, Store(t)
  PROVE  OrderInv'
<1> DEFINE c == FireOf(t)
<1>1. SUFFICES ASSUME NEW k \in Keys PROVE OrderAt(k)'
  BY DEF OrderInv
<1>2. UNCHANGED <<scope, admitted>> /\ c \in Fire /\ c \in admitted[KeyOf(t)]
  BY StoreEffect DEF ghosts
<1>3. CASE k # KeyOf(t)
  <2>1. data'[k] = data[k]
    BY <1>3, StoreEffect DEF Base, TypeOK
  <2> QED
    BY <1>2, <2>1, OrderFrame DEF OrderInv
<1>4. CASE k = KeyOf(t) /\ ~ KeepsAll(k)
  BY <1>2, <1>4 DEF OrderAt, EntriesAt, SortedAt, KeepsAll
<1>5. CASE k = KeyOf(t) /\ KeepsAll(k)
  <2> DEFINE v == data[k]
  <2>1. data'[k] = Append(v, <<c>>) /\ v \in Seq(Tensor)
    BY <1>5, KeepsAppends DEF Base, TypeOK
  <2>2. /\ DOMAIN data'[k] = DOMAIN v \cup {Len(v) + 1} /\ data'[k][Len(v) + 1] = <<c>>
        /\ DOMAIN v = 1 .. Len(v) /\ Len(v) \in Nat
        /\ \A i \in DOMAIN v : data'[k][i] = v[i]
    BY <2>1
  <2>3. EntriesAt(k)'
    BY <1>2, <1>5, <2>2 DEF OrderInv, OrderAt, EntriesAt, KeepsAll
  <2>4. ASSUME Single, NEW i \in DOMAIN v PROVE Before(v[i][1], c)
    <3>1. PICK d \in admitted[k] \cup {Seed} : v[i] = <<d>>
      BY <1>5 DEF OrderInv, OrderAt, EntriesAt
    <3>2. v[i][1] = d
      BY <3>1
    <3>3. Running(t)
      BY DEF Running, Store
    <3>4. CASE d = Seed
      BY <2>4, <3>2, <3>3, <3>4, LatestFire
    <3>5. CASE d # Seed
      <4>1. d \in Held(k)
        <5>1. d \in Range(v[i])
          BY <3>1 DEF Range
        <5> QED
          BY <3>5, <5>1, CapturesMember DEF Held
      <4>2. d # c
        BY <1>5, <4>1, StoreEffect DEF WayLoses, Base, LossInv, NothingLost
      <4> QED
        BY <1>5, <2>4, <3>1, <3>2, <3>3, <3>5, <4>2, LatestFire
    <3> QED
      BY <3>4, <3>5
  <2>5. SortedAt(k)'
    <3> SUFFICES ASSUME Single, NEW i \in DOMAIN data'[k], NEW j \in DOMAIN data'[k], i < j
                 PROVE  Before(data'[k][i][1], data'[k][j][1])
      BY <1>2 DEF SortedAt, Single
    <3> HIDE DEF v
    <3>1. CASE j \in DOMAIN v
      <4>1. i \in DOMAIN v
        BY <2>2, <3>1
      <4>2. Before(v[i][1], v[j][1])
        BY <1>5, <3>1, <4>1 DEF OrderInv, OrderAt, SortedAt, v
      <4> QED
        BY <2>2, <3>1, <4>1, <4>2
    <3>2. CASE j = Len(v) + 1
      <4>1. i \in DOMAIN v
        BY <2>2, <3>2
      <4>2. data'[k][j][1] = c /\ data'[k][i][1] = v[i][1]
        BY <2>2, <3>2, <4>1
      <4> QED
        BY <2>4, <4>1, <4>2
    <3> QED
      BY <2>2, <3>1, <3>2
  <2> QED
    BY <2>3, <2>5 DEF OrderAt
<1> QED
  BY <1>3, <1>4, <1>5

\* An emptied or seeded vector is in order.
LEMMA OrderFirst ==
  ASSUME NEW k \in Keys, data'[k] = <<>> \/ data'[k] = << <<Seed>> >>
  PROVE  OrderAt(k)'
<1>1. \A i \in DOMAIN data'[k] : i = 1 /\ data'[k][i] = <<Seed>>
  OBVIOUS
<1> QED
  BY <1>1 DEF OrderAt, EntriesAt, SortedAt

LEMMA OrderStep ==
  ASSUME ~ Overlap
  PROVE  Base /\ OrderInv /\ [Next]_vars => OrderInv'
<1> SUFFICES ASSUME Base, OrderInv, [Next]_vars PROVE OrderInv'
  OBVIOUS
<1>1. ASSUME UNCHANGED <<scope, data>>, \A k \in Keys : admitted[k] \subseteq admitted'[k]
      PROVE  OrderInv'
  BY <1>1, OrderFrame DEF OrderInv
<1>2. ASSUME NEW t \in Threads, StartForward(t) \/ HookStep(t), ~ Store(t) PROVE OrderInv'
  <2>1. CASE ShouldCapture(t)
    <3>1. UNCHANGED <<scope, data>>
      BY <2>1, CaptureEffect
    <3>2. \A k \in Keys : admitted[k] \subseteq admitted'[k]
      BY <2>1, ZenonT(30) DEF ShouldCapture, Base, TypeOK
    <3> QED
      BY <1>1, <3>1, <3>2
  <2>2. CASE ~ ShouldCapture(t)
    BY <1>1, <1>2, <2>2, HookUnmoved, RaiseEffect DEF Unmoved
  <2> QED
    BY <2>1, <2>2
<1>3. ASSUME NEW k \in Keys,
             ClearAccum(k) \/ ResetCounter(k) \/ ReadbackAccum(k) \/ InitAccumulator(k)
      PROVE  OrderInv'
  <2>1. CASE UNCHANGED <<data, ghosts>>
    BY <1>1, <1>3, <2>1, CallEffect DEF ghosts
  <2>2. CASE /\ data' = [data EXCEPT ![k] = IF ClearAccum(k) THEN <<>> ELSE << <<Seed>> >>]
             /\ Forget(k) /\ UNCHANGED scope
    <3> SUFFICES ASSUME NEW l \in Keys PROVE OrderAt(l)'
      BY DEF OrderInv
    <3>1. CASE l # k
      <4>1. data'[l] = data[l] /\ admitted'[l] = admitted[l]
        BY <2>2, <3>1 DEF Base, TypeOK, Forget
      <4> QED
        BY <2>2, <4>1, OrderFrame DEF OrderInv
    <3>2. CASE l = k
      <4>1. data'[l] = <<>> \/ data'[l] = << <<Seed>> >>
        BY <2>2, <3>2 DEF Base, TypeOK
      <4> QED
        BY <4>1, OrderFirst
    <3> QED
      BY <3>1, <3>2
  <2> QED
    BY <1>3, <2>1, <2>2, CallEffect
<1>4. CASE BeginSomeCall \/ UNCHANGED vars
  BY <1>1, <1>4, BeginUnmoved DEF Unmoved
<1> QED
  BY <1>2, <1>3, <1>4, OrderStore DEF Next, CallStep, Finished, HookStep

LEMMA OrderInit == Init => OrderInv
BY DEF Init, OrderInv, OrderAt, EntriesAt, SortedAt

\* Run by one thread, a layer that keeps everything holds its captures in the
\* order in which the forward passes made them.
THEOREM CapturesInOrder ==
  ASSUME ~ Overlap, FiniteCrews
  PROVE  Spec => []InOrder
<1>1. Base /\ OrderInv => InOrder
  <2> SUFFICES ASSUME Base, OrderInv, Serial, NEW k \in Keys, KeepsAll(k),
                      NEW i \in 1 .. Len(data[k]) - 1
               PROVE  Before(data[k][i][1], data[k][i + 1][1])
    BY DEF InOrder
  <2>1. i \in DOMAIN data[k] /\ i + 1 \in DOMAIN data[k] /\ i < i + 1
    BY DEF Base, TypeOK
  <2>2. Single
    BY SerialIsSingle DEF Base
  <2> QED
    BY <2>1, <2>2 DEF OrderInv, OrderAt, SortedAt
<1> QED
  BY <1>1, BaseInit, BaseStep, OrderInit, OrderStep, PTL DEF Spec

-----------------------------------------------------------------------------
(***************************************************************************)
(* FINAL_ONLY keeps the newest.                                            *)
(***************************************************************************)

\* What a layer without reduction has been through with, the newest in hand.
Done(k) == admitted[k] \ OnTheWay(k)
FinalAt(k) ==
  Single /\ scope.reductionPolicy = "FINAL_ONLY" /\ k \notin scope.reduced /\ Done(k) # {} =>
    \E c \in Done(k) : data[k] = << <<c>> >> /\ \A d \in Done(k) : ~ Before(c, d)
FinalInv == \A k \in Keys : FinalAt(k)

LEMMA FinalFrame ==
  ASSUME NEW k \in Keys, FinalAt(k), UNCHANGED scope, data'[k] = data[k], Done(k)' = Done(k)
  PROVE  FinalAt(k)'
BY DEF FinalAt, Single

LEMMA FinalStore ==
  ASSUME Base, FinalInv, NEW t \in Threads, Store(t)
  PROVE  FinalInv'
<1> DEFINE c == FireOf(t)
<1>1. SUFFICES ASSUME NEW k \in Keys PROVE FinalAt(k)'
  BY DEF FinalInv
<1>2. UNCHANGED <<scope, admitted>> /\ c \in Fire /\ c \in admitted[KeyOf(t)]
  BY StoreEffect DEF ghosts
<1>3. CASE k # KeyOf(t)
  <2>1. data'[k] = data[k] /\ OnTheWay(k)' = OnTheWay(k)
    BY <1>3, StoreEffect DEF Base, TypeOK, WayLoses
  <2> QED
    BY <1>2, <2>1, FinalFrame DEF FinalInv, Done
<1>4. CASE k = KeyOf(t)
  <2> SUFFICES ASSUME Single, scope.reductionPolicy = "FINAL_ONLY", k \notin scope.reduced
               PROVE  \E e \in Done(k)' : data'[k] = << <<e>> >> /\ \A d \in Done(k)' : ~ Before(e, d)
    BY <1>2 DEF FinalAt, Single
  <2>1. data'[k] = << <<c>> >>
    <3>1. Stored(k, <<c>>) = << <<c>> >>
      BY DEF Stored
    <3>2. result[t] = <<c>> /\ k \in Keys /\ data \in [Keys -> Seq(Tensor)]
      BY <1>4, StoreEffect DEF Base, TypeOK
    <3>3. data' = [data EXCEPT ![k] = Stored(k, result[t])]
      BY <1>4, StoreEffect
    <3>4. data'[k] = Stored(k, result[t])
      BY <3>2, <3>3
    <3> QED
      BY <3>1, <3>2, <3>4
  <2>2. c \in Done(k)'
    BY <1>2, <1>4, StoreEffect DEF Done, WayLoses
  <2>3. ASSUME NEW d \in Done(k)' PROVE ~ Before(c, d)
    <3>1. d \in admitted[k] /\ d \in Fire
      BY <1>2 DEF Done, Base, TypeOK
    <3>2. Running(t)
      BY DEF Running, Store
    <3>3. d[1] \in Nat /\ d[2] \in Nat /\ c[1] \in Nat /\ c[2] \in Nat
      BY <1>2, <3>1 DEF Fire
    <3>4. d = c \/ Before(d, c)
      BY <1>4, <3>1, <3>2, LatestFire
    <3> QED
      BY <3>3, <3>4 DEF Before
  <2> QED
    BY <2>1, <2>2, <2>3
<1> QED
  BY <1>3, <1>4

LEMMA FinalStep ==
  ASSUME ~ Overlap
  PROVE  Base /\ FinalInv /\ [Next]_vars => FinalInv'
<1> SUFFICES ASSUME Base, FinalInv, [Next]_vars PROVE FinalInv'
  OBVIOUS
<1>1. ASSUME Unmoved PROVE FinalInv'
  <2>1. \A k \in Keys : data'[k] = data[k] /\ Done(k)' = Done(k)
    BY <1>1 DEF Unmoved, WaySame, Done
  <2> QED
    BY <1>1, <2>1, FinalFrame DEF FinalInv, Unmoved
<1>2. ASSUME NEW t \in Threads, ShouldCapture(t) PROVE FinalInv'
  <2>1. \A k \in Keys : Done(k)' = Done(k)
    <3> TAKE k \in Keys
    <3>1. CASE k = KeyOf(t) /\ Admits(cfg, count[k])
      <4>1. admitted'[k] = admitted[k] \cup {FireOf(t)} /\ OnTheWay(k)' = OnTheWay(k) \cup {FireOf(t)}
        BY <1>2, <3>1, CaptureEffect DEF WayGains, Base, TypeOK
      <4>2. FireOf(t) \notin admitted[k]
        BY <1>2, <3>1, CaptureEffect DEF Unseen
      <4> QED
        BY <4>1, <4>2 DEF Done
    <3>2. CASE ~ (k = KeyOf(t) /\ Admits(cfg, count[k]))
      BY <1>2, <3>2, CaptureEffect DEF WayGains, WaySame, Base, TypeOK, Done
    <3> QED
      BY <3>1, <3>2
  <2> QED
    BY <1>2, <2>1, FinalFrame, CaptureEffect DEF FinalInv
<1>3. ASSUME NEW t \in Threads, ReduceRaises(t) PROVE FinalInv'
  <2> SUFFICES ASSUME NEW k \in Keys PROVE FinalAt(k)'
    BY DEF FinalInv
  <2>1. CASE k = KeyOf(t)
    BY <1>3, <2>1, RaiseEffect DEF FinalAt
  <2>2. CASE k # KeyOf(t)
    BY <1>3, <2>2, RaiseEffect, FinalFrame DEF WayLoses, Done, FinalInv
  <2> QED
    BY <2>1, <2>2
<1>4. ASSUME NEW t \in Threads, StartForward(t) \/ HookStep(t), ~ Store(t) PROVE FinalInv'
  BY <1>1, <1>2, <1>3, <1>4, HookUnmoved
<1>5. ASSUME NEW k \in Keys,
             ClearAccum(k) \/ ResetCounter(k) \/ ReadbackAccum(k) \/ InitAccumulator(k)
      PROVE  FinalInv'
  <2> SUFFICES ASSUME NEW l \in Keys PROVE FinalAt(l)'
    BY DEF FinalInv
  <2>1. UNCHANGED scope /\ OnTheWay(l)' = OnTheWay(l)
    BY <1>5, CallEffect
  <2>2. CASE data'[l] = data[l] /\ admitted'[l] = admitted[l]
    BY <2>1, <2>2, FinalFrame DEF FinalInv, Done
  <2>3. CASE l = k /\ Forget(k)
    BY <2>3 DEF FinalAt, Done, Forget, Base, TypeOK
  <2>4. CASE l # k /\ Forget(k)
    BY <1>5, <2>2, <2>4, CallEffect, ZenonT(30) DEF Forget, Base, TypeOK
  <2>5. CASE UNCHANGED <<data, ghosts>>
    BY <2>2, <2>5 DEF ghosts
  <2> QED
    BY <1>5, <2>3, <2>4, <2>5, CallEffect
<1>6. CASE BeginSomeCall \/ UNCHANGED vars
  BY <1>1, <1>6, BeginUnmoved
<1> QED
  BY <1>4, <1>5, <1>6, FinalStore DEF Next, CallStep, Finished, HookStep

\* Run by one thread, FINAL_ONLY leaves the activation of the last admitted
\* fire since the program emptied the accumulator, and nothing else.
THEOREM FinalKeepsLatest ==
  ASSUME ~ Overlap, FiniteCrews
  PROVE  Spec => []FinalIsLatest
<1>1. Init => FinalInv
  BY DEF Init, FinalInv, FinalAt, Done
<1>2. Base /\ FinalInv => FinalIsLatest
  <2> SUFFICES ASSUME Base, FinalInv, Serial, scope.reductionPolicy = "FINAL_ONLY", AtRest,
                      NEW k \in Keys \ scope.reduced
               PROVE  IF admitted[k] = {} THEN Held(k) = {}
                      ELSE \E c \in admitted[k] : /\ data[k] = << <<c>> >>
                                                  /\ \A d \in admitted[k] : ~ Before(c, d)
    BY DEF FinalIsLatest
  <2>1. OnTheWay(k) = {}
    BY DEF AtRest, Quiet, OnTheWay, InHook
  <2>2. Done(k) = admitted[k]
    BY <2>1 DEF Done
  <2>3. Single
    BY SerialIsSingle DEF Base
  <2>4. Held(k) \subseteq admitted[k]
    BY DEF Base, BoundInv, HeldInv
  <2> QED
    BY <2>2, <2>3, <2>4 DEF FinalInv, FinalAt
<1> QED
  BY <1>1, <1>2, BaseInit, BaseStep, FinalStep, PTL DEF Spec

-----------------------------------------------------------------------------
(***************************************************************************)
(* A reduction folds every admitted activation once and in order.          *)
(***************************************************************************)

\* The captures folded into a reduced layer's one value.
Folded(k) == Range(Value(k)) \ {Seed}
FoldedAt(k) ==
  k \in scope.reduced =>
    /\ raised[k] \subseteq admitted[k]
    /\ Folded(k) \cap OnTheWay(k) = {}
    /\ admitted[k] \ raised[k] = Folded(k) \cup OnTheWay(k)
    /\ Seed \in Range(Value(k)) <=> k \in seeded
    /\ data[k] # <<>> => Value(k) # <<>>
    /\ \A j \in 1 .. Len(Value(k)) - 1 : Before(Value(k)[j], Value(k)[j + 1])
FoldedInv == \A k \in Keys : FoldedAt(k)

LEMMA ReducedSingle ==
  ASSUME SerialFolds, CrewInv, scope.reduced # {}
  PROVE  Single
BY DEF SerialFolds, CrewInv, Single

LEMMA ValueType ==
  ASSUME TypeOK, NEW k \in Keys
  PROVE  Value(k) \in Tensor
<1>1. data[k] \in Seq(Tensor) /\ <<>> \in Tensor
  BY DEF TypeOK, Tensor
<1> QED
  BY <1>1 DEF Value

\* A store replaces the value by the value with one fire folded in.
LEMMA ValueStored ==
  ASSUME Base, FoldInv, NEW t \in Threads, Store(t), KeyOf(t) \in scope.reduced
  PROVE  data'[KeyOf(t)] = <<Append(Value(KeyOf(t)), FireOf(t))>>
<1> DEFINE k == KeyOf(t)
<1>1. k \in Keys /\ Len(data[k]) <= 1 /\ result[t] \in Tensor
  BY FireType DEF FoldInv, Base, TypeOK
<1>2. result[t] = Append(Value(k), FireOf(t))
  BY DEF FoldInv, Store
<1>3. Stored(k, result[t]) = <<result[t]>>
  BY <1>1, StoredFold DEF Base
<1>4. data' = [data EXCEPT ![k] = Stored(k, result[t])]
  BY DEF Store
<1> QED
  BY <1>1, <1>2, <1>3, <1>4 DEF Base, TypeOK

LEMMA FoldedFrame ==
  ASSUME NEW k \in Keys, FoldedAt(k), UNCHANGED scope, data'[k] = data[k],
         admitted'[k] = admitted[k], raised'[k] = raised[k], OnTheWay(k)' = OnTheWay(k),
         k \in seeded' <=> k \in seeded
  PROVE  FoldedAt(k)'
<1>1. Value(k)' = Value(k)
  BY DEF Value
<1>2. Folded(k)' = Folded(k)
  BY <1>1 DEF Folded
<1> QED
  BY <1>1, <1>2 DEF FoldedAt

LEMMA FoldedStore ==
  ASSUME SerialFolds, Base, FoldInv, FoldedInv, NEW t \in Threads, Store(t)
  PROVE  FoldedInv'
<1> DEFINE c == FireOf(t)
<1>1. SUFFICES ASSUME NEW k \in Keys PROVE FoldedAt(k)'
  BY DEF FoldedInv
<1>2. UNCHANGED <<scope, admitted, raised, seeded>> /\ c \in Fire /\ c \in admitted[KeyOf(t)]
  BY StoreEffect DEF ghosts
<1>3. CASE k # KeyOf(t)
  <2>1. data'[k] = data[k] /\ OnTheWay(k)' = OnTheWay(k)
    BY <1>3, StoreEffect DEF Base, TypeOK, WayLoses
  <2> QED
    BY <1>2, <2>1, FoldedFrame DEF FoldedInv
<1>4. CASE k = KeyOf(t)
  <2> SUFFICES ASSUME k \in scope.reduced PROVE FoldedAt(k)'
    BY <1>2 DEF FoldedAt
  <2> DEFINE v == Value(k)
  <2>1. data'[k] = <<Append(v, c)>> /\ v \in Seq(Fire)
    BY <1>4, ValueStored, ValueType DEF Base, Tensor
  <2>2. Value(k)' = Append(v, c)
    BY <2>1 DEF Value
  <2>3. c \in OnTheWay(k) /\ OnTheWay(k)' = OnTheWay(k) \ {c} /\ c # Seed
    <3>1. c # Seed
      BY NotSeed DEF Store, Running
    <3> QED
      BY <1>4, <3>1, StoreEffect DEF WayLoses
  <2>11. Range(Append(v, c)) = Range(v) \cup {c}
    BY <1>2, <2>1, RangeAppend DEF Tensor
  <2>4. Folded(k)' = Folded(k) \cup {c}
    BY <2>2, <2>3, <2>11 DEF Folded
  <2>5. /\ raised[k] \subseteq admitted[k]
        /\ Folded(k) \cap OnTheWay(k) = {}
        /\ admitted[k] \ raised[k] = Folded(k) \cup OnTheWay(k)
        /\ Seed \in Range(v) <=> k \in seeded
        /\ \A j \in 1 .. Len(v) - 1 : Before(v[j], v[j + 1])
    BY DEF FoldedInv, FoldedAt
  <2>6. v # <<>> => Before(v[Len(v)], c)
    <3> SUFFICES ASSUME v # <<>> PROVE Before(v[Len(v)], c)
      OBVIOUS
    <3> DEFINE e == v[Len(v)]
    <3>1. Running(t) /\ Single
      BY ReducedSingle DEF Running, Store, Base
    <3>2. e \in Range(v)
      BY <2>1 DEF Range
    <3>3. CASE e = Seed
      BY <3>1, <3>3, LatestFire
    <3>4. CASE e # Seed
      <4>1. e \in Folded(k)
        BY <3>2, <3>4 DEF Folded
      <4>2. e \in admitted[k] /\ e # c
        BY <2>3, <2>5, <4>1
      <4> QED
        BY <1>4, <3>1, <4>2, LatestFire
    <3> QED
      BY <3>3, <3>4
  <2>7. \A j \in 1 .. Len(Append(v, c)) - 1 : Before(Append(v, c)[j], Append(v, c)[j + 1])
    <3> HIDE DEF v
    <3> TAKE j \in 1 .. Len(Append(v, c)) - 1
    <3>1. /\ Len(Append(v, c)) = Len(v) + 1 /\ Len(v) \in Nat /\ Append(v, c)[Len(v) + 1] = c
          /\ \A i \in 1 .. Len(v) : Append(v, c)[i] = v[i]
      BY <1>2, <2>1
    <3>2. CASE j = Len(v)
      <4>1. v # <<>>
        BY <3>1, <3>2
      <4> QED
        BY <2>6, <3>1, <3>2, <4>1
    <3>3. CASE j # Len(v)
      <4>1. j \in 1 .. Len(v) - 1 /\ j \in 1 .. Len(v) /\ j + 1 \in 1 .. Len(v)
        BY <3>1, <3>3
      <4>2. Before(v[j], v[j + 1])
        BY <2>5, <4>1
      <4> QED
        BY <3>1, <4>1, <4>2
    <3> QED
      BY <3>2, <3>3
  <2>12. /\ Seed \in Range(Value(k)') <=> k \in seeded'
         /\ Value(k)' # <<>>
    BY <1>2, <2>1, <2>2, <2>3, <2>5, <2>11
  <2> HIDE DEF v
  <2>8. admitted'[k] \ raised'[k] = Folded(k)' \cup OnTheWay(k)' /\ Folded(k)' \cap OnTheWay(k)' = {}
    BY <1>2, <2>3, <2>4, <2>5
  <2>9. \A j \in 1 .. Len(Value(k)') - 1 : Before(Value(k)'[j], Value(k)'[j + 1])
    BY <2>2, <2>7
  <2>10. raised'[k] \subseteq admitted'[k]
    BY <1>2, <2>5
  <2> QED
    BY <2>8, <2>9, <2>10, <2>12 DEF FoldedAt
<1> QED
  BY <1>3, <1>4

LEMMA FoldedCapture ==
  ASSUME Base, FoldedInv, NEW t \in Threads, ShouldCapture(t)
  PROVE  FoldedInv'
<1> DEFINE c == FireOf(t)
<1>1. SUFFICES ASSUME NEW k \in Keys PROVE FoldedAt(k)'
  BY DEF FoldedInv
<1>2. UNCHANGED <<scope, data, raised, seeded>>
  BY CaptureEffect
<1>3. CASE k = KeyOf(t) /\ Admits(cfg, count[KeyOf(t)])
  <2>1. /\ admitted'[k] = admitted[k] \cup {c} /\ OnTheWay(k)' = OnTheWay(k) \cup {c}
        /\ c \notin admitted[k]
    BY <1>3, CaptureEffect DEF WayGains, Base, TypeOK, Unseen
  <2>2. Value(k)' = Value(k)
    BY <1>2 DEF Value
  <2>3. Folded(k)' = Folded(k)
    BY <2>2 DEF Folded
  <2> SUFFICES ASSUME k \in scope.reduced PROVE FoldedAt(k)'
    BY <1>2 DEF FoldedAt
  <2>4. /\ raised[k] \subseteq admitted[k]
        /\ Folded(k) \cap OnTheWay(k) = {}
        /\ admitted[k] \ raised[k] = Folded(k) \cup OnTheWay(k)
        /\ Seed \in Range(Value(k)) <=> k \in seeded
        /\ data[k] # <<>> => Value(k) # <<>>
        /\ \A j \in 1 .. Len(Value(k)) - 1 : Before(Value(k)[j], Value(k)[j + 1])
    BY DEF FoldedInv, FoldedAt
  <2>5. /\ raised'[k] \subseteq admitted'[k]
        /\ Folded(k)' \cap OnTheWay(k)' = {}
        /\ admitted'[k] \ raised'[k] = Folded(k)' \cup OnTheWay(k)'
    BY <1>2, <2>1, <2>3, <2>4
  <2> QED
    BY <1>2, <2>2, <2>4, <2>5 DEF FoldedAt
<1>4. CASE ~ (k = KeyOf(t) /\ Admits(cfg, count[KeyOf(t)]))
  <2>1. admitted'[k] = admitted[k] /\ OnTheWay(k)' = OnTheWay(k)
    BY <1>4, CaptureEffect DEF WayGains, WaySame, Base, TypeOK
  <2> QED
    BY <1>2, <2>1, FoldedFrame DEF FoldedInv
<1> QED
  BY <1>3, <1>4

LEMMA FoldedRaise ==
  ASSUME Base, FoldedInv, NEW t \in Threads, ReduceRaises(t)
  PROVE  FoldedInv'
<1> DEFINE c == FireOf(t)
<1>1. SUFFICES ASSUME NEW k \in Keys PROVE FoldedAt(k)'
  BY DEF FoldedInv
<1>2. UNCHANGED <<scope, data, admitted, seeded>>
  BY RaiseEffect
<1>3. CASE k = KeyOf(t)
  <2>1. /\ raised'[k] = raised[k] \cup {c} /\ OnTheWay(k)' = OnTheWay(k) \ {c}
        /\ c \in admitted[k] /\ c \in OnTheWay(k)
    BY <1>3, RaiseEffect DEF WayLoses, Base, TypeOK
  <2>2. Value(k)' = Value(k)
    BY <1>2 DEF Value
  <2>3. Folded(k)' = Folded(k)
    BY <2>2 DEF Folded
  <2> SUFFICES ASSUME k \in scope.reduced PROVE FoldedAt(k)'
    BY <1>2 DEF FoldedAt
  <2>4. /\ raised[k] \subseteq admitted[k]
        /\ Folded(k) \cap OnTheWay(k) = {}
        /\ admitted[k] \ raised[k] = Folded(k) \cup OnTheWay(k)
        /\ Seed \in Range(Value(k)) <=> k \in seeded
        /\ data[k] # <<>> => Value(k) # <<>>
        /\ \A j \in 1 .. Len(Value(k)) - 1 : Before(Value(k)[j], Value(k)[j + 1])
    BY DEF FoldedInv, FoldedAt
  <2>5. /\ raised'[k] \subseteq admitted'[k]
        /\ Folded(k)' \cap OnTheWay(k)' = {}
        /\ admitted'[k] \ raised'[k] = Folded(k)' \cup OnTheWay(k)'
    BY <1>2, <2>1, <2>3, <2>4
  <2> QED
    BY <1>2, <2>2, <2>4, <2>5 DEF FoldedAt
<1>4. CASE k # KeyOf(t)
  <2>1. raised'[k] = raised[k] /\ OnTheWay(k)' = OnTheWay(k)
    BY <1>4, RaiseEffect DEF WayLoses, Base, TypeOK
  <2> QED
    BY <1>2, <2>1, FoldedFrame DEF FoldedInv
<1> QED
  BY <1>3, <1>4

LEMMA FoldedCall ==
  ASSUME Base, FoldedInv, NEW k \in Keys,
         ClearAccum(k) \/ ResetCounter(k) \/ ReadbackAccum(k) \/ InitAccumulator(k)
  PROVE  FoldedInv'
<1> SUFFICES ASSUME NEW l \in Keys PROVE FoldedAt(l)'
  BY DEF FoldedInv
<1>1. UNCHANGED scope /\ OnTheWay(l) = {} /\ OnTheWay(l)' = {}
  BY CallEffect
<1>2. CASE /\ data'[l] = data[l] /\ admitted'[l] = admitted[l] /\ raised'[l] = raised[l]
           /\ l \in seeded' <=> l \in seeded
  BY <1>1, <1>2, FoldedFrame DEF FoldedInv
<1>3. CASE l = k /\ Forget(k)
           /\ data' = [data EXCEPT ![k] = IF ClearAccum(k) THEN <<>> ELSE << <<Seed>> >>]
           /\ seeded' = IF ClearAccum(k) THEN seeded \ {k} ELSE seeded \cup {k}
  <2>1. /\ admitted'[l] = {} /\ raised'[l] = {}
        /\ IF ClearAccum(k) THEN data'[l] = <<>> /\ l \notin seeded'
                            ELSE data'[l] = << <<Seed>> >> /\ l \in seeded'
    BY <1>3 DEF Forget, Base, TypeOK
  <2>2. Value(l)' = IF ClearAccum(k) THEN <<>> ELSE <<Seed>>
    BY <2>1 DEF Value
  <2>3. Range(Value(l)') = IF ClearAccum(k) THEN {} ELSE {Seed}
    BY <2>2 DEF Range
  <2>4. \A j \in 1 .. Len(Value(l)') - 1 : FALSE
    BY <2>2
  <2>5. Folded(l)' = {}
    BY <2>3 DEF Folded
  <2>6. /\ Seed \in Range(Value(l)') <=> l \in seeded'
        /\ data'[l] # <<>> => Value(l)' # <<>>
    BY <2>1, <2>2, <2>3
  <2> QED
    BY <1>1, <2>1, <2>4, <2>5, <2>6 DEF FoldedAt
<1>4. CASE l # k /\ Forget(k)
           /\ data' = [data EXCEPT ![k] = IF ClearAccum(k) THEN <<>> ELSE << <<Seed>> >>]
           /\ seeded' = IF ClearAccum(k) THEN seeded \ {k} ELSE seeded \cup {k}
  BY <1>2, <1>4 DEF Forget, Base, TypeOK
<1>5. CASE UNCHANGED <<data, ghosts>>
  BY <1>2, <1>5 DEF ghosts
<1> QED
  BY <1>3, <1>4, <1>5, CallEffect

LEMMA FoldedStep ==
  ASSUME ~ Overlap, SerialFolds
  PROVE  Base /\ FoldInv /\ FoldedInv /\ [Next]_vars => FoldedInv'
<1> SUFFICES ASSUME Base, FoldInv, FoldedInv, [Next]_vars PROVE FoldedInv'
  OBVIOUS
<1>1. ASSUME Unmoved PROVE FoldedInv'
  BY <1>1, FoldedFrame DEF FoldedInv, Unmoved, WaySame
<1>2. ASSUME NEW t \in Threads, StartForward(t) \/ HookStep(t) PROVE FoldedInv'
  BY <1>1, <1>2, HookUnmoved, FoldedStore, FoldedCapture, FoldedRaise
<1>3. CASE BeginSomeCall \/ UNCHANGED vars
  BY <1>1, <1>3, BeginUnmoved
<1> QED
  BY <1>2, <1>3, FoldedCall DEF Next, CallStep, Finished

LEMMA FoldInit == Init => FoldInv /\ FoldedInv
<1> SUFFICES ASSUME Init PROVE FoldInv /\ FoldedInv
  OBVIOUS
<1>1. FoldInv
  <2>1. \A k \in scope.reduced : Len(data[k]) <= 1
    BY HookPathAssumption DEF Init, Scope
  <2> QED
    BY <2>1 DEF Init, FoldInv
<1>2. ASSUME NEW k \in Keys PROVE FoldedAt(k)
  <2>1. /\ admitted[k] = {} /\ raised[k] = {} /\ Value(k) = <<>> /\ OnTheWay(k) = {}
        /\ data[k] = <<>> /\ k \notin seeded
    BY DEF Init, Value, OnTheWay, InHook
  <2>2. /\ Range(Value(k)) = {} /\ Folded(k) = {}
        /\ \A j \in 1 .. Len(Value(k)) - 1 : FALSE
    BY <2>1 DEF Folded, Range
  <2> QED
    BY <2>1, <2>2 DEF FoldedAt
<1> QED
  BY <1>1, <1>2 DEF FoldedInv

\* Where models with a reduction are run by one thread, at rest a reduced
\* layer holds one tensor, the fold of its seed, if the program stored one, and
\* then of every admitted activation once and in order, save those its
\* reduction raised on; it holds none if there is nothing to fold.
THEOREM FoldsExact ==
  ASSUME ~ Overlap, SerialFolds
  PROVE  Spec => []FoldExact
<1>1. Base /\ FoldInv /\ FoldedInv => FoldExact
  <2> SUFFICES ASSUME Base, FoldInv, FoldedInv, AtRest, NEW k \in scope.reduced
               PROVE  /\ Len(data[k]) = IF ToFold(k) = {} THEN 0 ELSE 1
                      /\ \A i \in DOMAIN data[k] :
                           /\ Range(data[k][i]) = ToFold(k)
                           /\ \A j \in 1 .. Len(data[k][i]) - 1 :
                                Before(data[k][i][j], data[k][i][j + 1])
    BY DEF FoldExact
  <2>1. k \in Keys /\ data[k] \in Seq(Tensor) /\ Len(data[k]) <= 1 /\ OnTheWay(k) = {}
    BY DEF Base, TypeOK, Scope, FoldInv, AtRest, Quiet, OnTheWay, InHook
  <2>2. /\ admitted[k] \ raised[k] = Range(Value(k)) \ {Seed}
        /\ Seed \in Range(Value(k)) <=> k \in seeded
        /\ data[k] # <<>> => Value(k) # <<>>
        /\ \A j \in 1 .. Len(Value(k)) - 1 : Before(Value(k)[j], Value(k)[j + 1])
    BY <2>1 DEF FoldedInv, FoldedAt, Folded
  <2>3. Range(Value(k)) = ToFold(k)
    BY <2>2 DEF ToFold
  <2>4. CASE data[k] = <<>>
    <3>1. Range(Value(k)) = {}
      BY <2>4 DEF Value, Range
    <3> QED
      BY <2>3, <2>4, <3>1
  <2>5. CASE data[k] # <<>>
    <3>1. Len(data[k]) = 1 /\ DOMAIN data[k] = {1} /\ data[k][1] = Value(k)
      BY <2>1, <2>5, OneElement DEF Value
    <3>2. Range(Value(k)) # {}
      <4>1. Value(k) \in Seq(Fire) /\ Value(k) # <<>>
        BY <2>1, <2>2, <2>5, ValueType DEF Base, Tensor
      <4>2. Len(Value(k)) \in Nat /\ Len(Value(k)) # 0
        BY <4>1, EmptySeq
      <4>3. 1 \in DOMAIN Value(k)
        BY <4>1, <4>2
      <4> QED
        BY <4>3 DEF Range
    <3> QED
      BY <2>2, <2>3, <3>1, <3>2
  <2> QED
    BY <2>4, <2>5
<1> QED
  BY <1>1, BaseInit, BaseStep, FoldInit, FoldStep, FoldedStep, PTL DEF Spec, Base

\* What one tensor holds is what is folded into it.
LEMMA HeldFolded ==
  ASSUME TypeOK, NEW k \in Keys, Len(data[k]) <= 1
  PROVE  Held(k) = Folded(k)
<1>1. data[k] \in Seq(Tensor)
  BY DEF TypeOK
<1>2. \A c : c \in Captures(data[k]) <=> c # Seed /\ \E i \in DOMAIN data[k] : c \in Range(data[k][i])
  BY CapturesMember
<1>3. CASE data[k] = <<>>
  BY <1>2, <1>3 DEF Held, Folded, Value, Range
<1>4. CASE data[k] # <<>>
  <2>1. DOMAIN data[k] = {1} /\ Value(k) = data[k][1]
    BY <1>1, <1>4, OneElement DEF Value
  <2> QED
    BY <1>2, <2>1 DEF Held, Folded
<1> QED
  BY <1>3, <1>4

LEMMA StoreAdds ==
  ASSUME Base, FoldInv, NEW t \in Threads, Store(t),
         NEW k \in Keys, KeepsAll(k) \/ k \in scope.reduced
  PROVE  Held(k) \subseteq Held(k)'
<1>1. CASE k # KeyOf(t)
  BY <1>1, StoreEffect, SameHolds DEF Base, TypeOK
<1>2. FireOf(t) \in Fire /\ FireOf(t) # Seed
  BY NotSeed DEF Store, Running
<1>3. CASE k = KeyOf(t) /\ KeepsAll(k)
  <2>1. data'[k] = Append(data[k], <<FireOf(t)>>)
    BY <1>3, KeepsAppends
  <2> QED
    BY <1>2, <2>1, AppendHolds DEF Base
<1>4. CASE k = KeyOf(t) /\ k \in scope.reduced
  <2>1. data'[k] = <<Append(Value(k), FireOf(t))>> /\ Value(k) \in Tensor
    BY <1>4, ValueStored, ValueType DEF Base
  <2>2. Range(Append(Value(k), FireOf(t))) = Range(Value(k)) \cup {FireOf(t)}
    BY <1>2, <2>1, RangeAppend
  <2>3. Held(k) = Folded(k)
    BY <1>4, HeldFolded DEF Base, FoldInv
  <2>4. ASSUME NEW c \in Held(k) PROVE c \in Held(k)'
    <3>1. c # Seed /\ c \in Range(data'[k][1]) /\ 1 \in DOMAIN data'[k]
      BY <2>1, <2>2, <2>3, <2>4 DEF Folded
    <3>2. c \in Captures(data'[k])
      BY <3>1, CapturesMember
    <3> QED
      BY <3>2 DEF Held
  <2> QED
    BY <2>4
<1> QED
  BY <1>1, <1>3, <1>4

\* No step of a hook takes a stored capture away from a layer that keeps all
\* or that reduces: only a session call does.
THEOREM HooksNeverRemove ==
  ASSUME ~ Overlap, SerialFolds
  PROVE  Spec => HooksOnlyAdd
<1> DEFINE Adds == \A k \in Keys : (KeepsAll(k) \/ k \in scope.reduced) /\ api = "idle" =>
                                     Held(k) \subseteq Held(k)'
<1>1. Base /\ FoldInv /\ [Next]_vars => Adds
  <2> SUFFICES ASSUME Base, FoldInv, [Next]_vars, NEW k \in Keys,
                      KeepsAll(k) \/ k \in scope.reduced, api = "idle"
               PROVE  Held(k) \subseteq Held(k)'
    OBVIOUS
  <2>1. ASSUME data' = data PROVE Held(k) \subseteq Held(k)'
    BY <2>1, SameHolds
  <2>2. ASSUME NEW t \in Threads, StartForward(t) \/ HookStep(t)
        PROVE  Held(k) \subseteq Held(k)'
    BY <2>1, <2>2, StoreAdds, HookUnmoved, CaptureEffect, RaiseEffect DEF Unmoved
  <2>3. ~ CallStep
    BY DEF CallStep, ClearAccum, ResetCounter, ReadbackAccum, InitAccumulator
  <2> QED
    BY <2>1, <2>2, <2>3, BeginUnmoved DEF Next, Finished, Unmoved
<1> HIDE DEF Adds
<1>2. Base /\ FoldInv /\ [Next]_vars => [Adds]_vars
  BY <1>1
<1>3. Spec => [][Adds]_vars
  BY <1>2, BaseInit, BaseStep, FoldInit, FoldStep, PTL DEF Spec, Base
<1> QED
  BY <1>3 DEF HooksOnlyAdd, Adds
=============================================================================
