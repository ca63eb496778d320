---------------------------- MODULE HookPath_align ----------------------------
(***************************************************************************)
(* The rows of two layers that have seen as many fires come from the same  *)
(* forward passes.  The argument compares two hooks of one pass, the one   *)
(* that fires first and the one that fires later: a pass that an exception *)
(* cuts short between them leaves the later one a fire behind for ever, so *)
(* equal counts mean that no pass was cut short there.                     *)
(***************************************************************************)
EXTENDS HookPath_order, WellFoundedInduction

\* A forward pass fires a key once: the program attached one hook to it.
OneHookPerKey == \A p, q \in DOMAIN Fires : Fires[p] = Fires[q] => p = q

\* An admitted fire is at the place of its key in the order of the hooks.
PlaceInv == \A k \in Keys : \A c \in admitted[k] : c[2] \in DOMAIN Fires /\ Fires[c[2]] = k

\* How many fires a key has seen; under EVERY nothing counts them and all of
\* them are admitted.
Seen(k) == IF cfg.policy = "EVERY" THEN Cardinality(admitted[k]) ELSE count[k]
PassesOf(k) == {c[1] : c \in admitted[k]}

\* A forward pass has counted its p-th hook, and some pass has counted the
\* p-th and not yet the q-th.
Fired(t, p) == pos[t] > p \/ (pos[t] = p /\ pc[t] # "policy")
Between(p, q) == \E t \in Threads : Running(t) /\ Fired(t, p) /\ ~ Fired(t, q)

\* The key of the later hook is level with that of the earlier one, or the
\* pass that is running has put it one fire behind.
Abreast(k, l) == Seen(l) <= Seen(k) /\ (Seen(l) = Seen(k) => PassesOf(l) = PassesOf(k))
Behind(k, l) ==
  /\ Seen(l) < Seen(k)
  /\ Seen(l) + 1 = Seen(k) =>
       /\ PassesOf(l) = PassesOf(k) \ {forwards}
       /\ forwards \in PassesOf(k) <=> Admits(cfg, count[l])

Pristine(k) == KeepsAll(k) /\ Seeds(k) = {}
AlignAt(p, q) ==
  Pristine(Fires[p]) /\ Pristine(Fires[q]) =>
    IF Between(p, q) THEN Behind(Fires[p], Fires[q]) ELSE Abreast(Fires[p], Fires[q])
AlignInv ==
  Single /\ api \notin {"clear", "reset"} =>
    \A p, q \in DOMAIN Fires : p < q => AlignAt(p, q)

LEMMA FiresIn == \A p \in DOMAIN Fires : p \in Nat /\ p >= 1 /\ p <= Len(Fires) /\ Fires[p] \in Keys
BY HookPathAssumption

LEMMA PlaceStep ==
  ASSUME ~ Overlap
  PROVE  Base /\ PlaceInv /\ [Next]_vars => PlaceInv'
<1> SUFFICES ASSUME Base, PlaceInv, [Next]_vars PROVE PlaceInv'
  OBVIOUS
<1>1. ASSUME \A k \in Keys : admitted'[k] \subseteq admitted[k] PROVE PlaceInv'
  BY <1>1 DEF PlaceInv
<1>2. ASSUME NEW t \in Threads, ShouldCapture(t) PROVE PlaceInv'
  <2>1. FireOf(t)[2] = pos[t] /\ pos[t] \in DOMAIN Fires
    BY HookPathAssumption DEF FireOf, Base, TypeOK
  <2>2. \A k \in Keys : \A c \in admitted'[k] : c \in admitted[k] \/ (k = KeyOf(t) /\ c = FireOf(t))
    BY <1>2 DEF ShouldCapture, Base, TypeOK
  <2> QED
    BY <2>1, <2>2 DEF PlaceInv, KeyOf
<1>3. ASSUME NEW t \in Threads, StartForward(t) \/ HookStep(t), ~ ShouldCapture(t) PROVE PlaceInv'
  BY <1>1, <1>3, HookUnmoved, StoreEffect, RaiseEffect DEF Unmoved, ghosts
<1>4. ASSUME NEW k \in Keys,
             ClearAccum(k) \/ ResetCounter(k) \/ ReadbackAccum(k) \/ InitAccumulator(k)
      PROVE  PlaceInv'
  <2>1. UNCHANGED ghosts \/ Forget(k)
    BY <1>4, CallEffect
  <2>2. \A l \in Keys : admitted'[l] \subseteq admitted[l]
    BY <2>1 DEF ghosts, Forget, Base, TypeOK
  <2> QED
    BY <1>1, <2>2
<1>5. CASE BeginSomeCall \/ UNCHANGED vars
  BY <1>1, <1>5, BeginUnmoved DEF Unmoved
<1> QED
  BY <1>2, <1>3, <1>4, <1>5 DEF Next, CallStep, Finished, HookStep

-----------------------------------------------------------------------------
(***************************************************************************)
(* Two hooks of one pass.                                                  *)
(***************************************************************************)
LEMMA SeenType ==
  ASSUME Base, NEW k \in Keys
  PROVE  Seen(k) \in Nat
BY FS_CardinalityType DEF Base, BoundInv, CountInv, TypeOK, Seen

LEMMA BehindIsAbreast ==
  ASSUME Base, NEW k \in Keys, NEW l \in Keys, Behind(k, l)
  PROVE  Abreast(k, l)
BY SeenType DEF Behind, Abreast

\* Keys that have seen as many fires are given the same verdict.
LEMMA SameVerdict ==
  ASSUME Base, NEW k \in Keys, NEW l \in Keys, Seen(k) = Seen(l)
  PROVE  Admits(cfg, count[k]) <=> Admits(cfg, count[l])
<1>1. CASE cfg.policy = "EVERY"
  BY <1>1 DEF Admits
<1>2. CASE cfg.policy # "EVERY"
  BY <1>2 DEF Seen
<1> QED
  BY <1>1, <1>2

\* What a key has seen, and from which passes, is as it was where its counter
\* and its admitted fires are.
LEMMA SeenSame ==
  ASSUME SameScope, NEW k \in Keys, count'[k] = count[k], admitted'[k] = admitted[k]
  PROVE  Seen(k)' = Seen(k) /\ PassesOf(k)' = PassesOf(k)
BY DEF Seen, PassesOf, SameScope

\* should_capture shows its key one more fire.
LEMMA SeenGains ==
  ASSUME Base, NEW t \in Threads, ShouldCapture(t), NEW k \in Keys, k = KeyOf(t)
  PROVE  /\ Seen(k)' = Seen(k) + 1
         /\ PassesOf(k)' = PassesOf(k) \cup IF Admits(cfg, count[k]) THEN {fwd[t]} ELSE {}
<1>1. SameScope /\ count'[k] = Tick(cfg, count[k])
  BY HookScope, CaptureEffect DEF HookStep, Base, TypeOK
<1>2. CASE Admits(cfg, count[k])
  <2>1. admitted'[k] = admitted[k] \cup {FireOf(t)} /\ FireOf(t) \notin admitted[k]
    BY <1>2, CaptureEffect DEF Base, TypeOK, Unseen
  <2>2. Cardinality(admitted'[k]) = Cardinality(admitted[k]) + 1
    BY <2>1, FS_AddElement DEF Base, BoundInv, CountInv
  <2>3. PassesOf(k)' = PassesOf(k) \cup {fwd[t]}
    <3>1. FireOf(t)[1] = fwd[t]
      BY DEF FireOf
    <3> QED
      BY <2>1, <3>1 DEF PassesOf
  <2> QED
    BY <1>1, <1>2, <2>2, <2>3 DEF Seen, Tick, SameScope
<1>3. CASE ~ Admits(cfg, count[k])
  <2>1. admitted'[k] = admitted[k] /\ cfg.policy # "EVERY"
    BY <1>3, CaptureEffect DEF Admits
  <2> QED
    BY <1>1, <1>3, <2>1 DEF Seen, Tick, SameScope, PassesOf
<1> QED
  BY <1>2, <1>3

\* A pass that is about to fire a key has given it nothing yet.
LEMMA PassIsNew ==
  ASSUME OneHookPerKey, Base, PlaceInv, Single, NEW t \in Threads, ShouldCapture(t),
         NEW k \in Keys, k = KeyOf(t)
  PROVE  fwd[t] = forwards /\ forwards \notin PassesOf(k)
<1>1. Running(t) /\ fwd[t] = forwards
  BY DEF Running, ShouldCapture, Base, NewestInv
<1>2. ASSUME NEW c \in admitted[k], c[1] = forwards PROVE FALSE
  <2>1. c \in Fire /\ c # FireOf(t)
    BY CaptureEffect DEF Unseen, Base, TypeOK
  <2>2. c[2] = pos[t]
    <3>1. c[2] \in DOMAIN Fires /\ Fires[c[2]] = Fires[pos[t]] /\ pos[t] \in DOMAIN Fires
      BY HookPathAssumption DEF PlaceInv, KeyOf, Base, TypeOK
    <3> QED
      BY <3>1 DEF OneHookPerKey
  <2>3. c = <<c[1], c[2]>>
    BY <2>1 DEF Fire
  <2> QED
    BY <1>1, <1>2, <2>1, <2>2, <2>3 DEF FireOf
<1> QED
  BY <1>1, <1>2 DEF PassesOf

\* Only the one thread that is running can be between two hooks.
LEMMA RunnerBetween ==
  ASSUME Base, Single, NEW t \in Threads, Running(t), NEW p, NEW q
  PROVE  Between(p, q) <=> Fired(t, p) /\ ~ Fired(t, q)
BY DEF Base, Single, CrewInv, Between

LEMMA QuietBetween ==
  ASSUME Quiet, NEW p, NEW q
  PROVE  ~ Between(p, q)
BY DEF Quiet, Between, Running

\* Steps that show neither key a fire, and put no pass between the two.
LEMMA AlignFrame ==
  ASSUME Base, SameScope, NEW p \in DOMAIN Fires, NEW q \in DOMAIN Fires, AlignAt(p, q),
         Pristine(Fires[p])' => Pristine(Fires[p]), Pristine(Fires[q])' => Pristine(Fires[q]),
         count'[Fires[p]] = count[Fires[p]], admitted'[Fires[p]] = admitted[Fires[p]],
         count'[Fires[q]] = count[Fires[q]], admitted'[Fires[q]] = admitted[Fires[q]],
         Between(p, q)' => Between(p, q) /\ UNCHANGED forwards
  PROVE  AlignAt(p, q)'
<1>1. Fires[p] \in Keys /\ Fires[q] \in Keys
  BY FiresIn
<1>2. /\ Seen(Fires[p])' = Seen(Fires[p]) /\ PassesOf(Fires[p])' = PassesOf(Fires[p])
      /\ Seen(Fires[q])' = Seen(Fires[q]) /\ PassesOf(Fires[q])' = PassesOf(Fires[q])
  BY <1>1, SeenSame
<1> SUFFICES ASSUME Pristine(Fires[p])', Pristine(Fires[q])'
             PROVE  IF Between(p, q)' THEN Behind(Fires[p], Fires[q])'
                                      ELSE Abreast(Fires[p], Fires[q])'
  BY DEF AlignAt
<1>3. CASE Between(p, q)'
  <2>1. Behind(Fires[p], Fires[q]) /\ UNCHANGED forwards
    BY <1>3 DEF AlignAt
  <2>2. Admits(cfg, count[Fires[q]])' <=> Admits(cfg, count[Fires[q]])
    BY DEF SameScope
  <2> QED
    BY <1>2, <1>3, <2>1, <2>2 DEF Behind
<1>4. CASE ~ Between(p, q)'
  <2>1. Abreast(Fires[p], Fires[q])
    BY <1>1, BehindIsAbreast DEF AlignAt
  <2> QED
    BY <1>2, <1>4, <2>1 DEF Abreast
<1> QED
  BY <1>3, <1>4

\* should_capture at the first of the two puts the other one behind, at the
\* second brings it level again.
LEMMA AlignCapture ==
  ASSUME OneHookPerKey, Base, PlaceInv, AlignInv, NEW t \in Threads, ShouldCapture(t)
  PROVE  AlignInv'
<1>1. SameScope /\ UNCHANGED <<scope, data, api, forwards, pos>> /\ Running(t) /\ pc[t] = "policy"
  BY HookScope, CaptureEffect DEF HookStep, ShouldCapture, Running
<1> SUFFICES ASSUME Single, api \notin {"clear", "reset"},
                    NEW p \in DOMAIN Fires, NEW q \in DOMAIN Fires, p < q
             PROVE  AlignAt(p, q)'
  BY <1>1 DEF AlignInv, Single
<1> DEFINE k == Fires[p]
           l == Fires[q]
<1>2. /\ k \in Keys /\ l \in Keys /\ p \in Nat /\ q \in Nat /\ k # l
      /\ pos[t] \in DOMAIN Fires /\ pos[t] \in Nat
  BY FiresIn, HookPathAssumption DEF OneHookPerKey, Base, TypeOK
<1>3. AlignAt(p, q) /\ (Between(p, q) <=> pos[t] > p /\ ~ (pos[t] > q))
  <2>1. Between(p, q) <=> Fired(t, p) /\ ~ Fired(t, q)
    BY <1>1, RunnerBetween
  <2> QED
    BY <1>1, <2>1 DEF AlignInv, Fired
<1>4. Between(p, q)' <=> pos[t] >= p /\ ~ (pos[t] >= q)
  <2>1. /\ Running(t)' /\ pc'[t] # "policy"
        /\ \A u \in Threads \ {t} : pc'[u] = pc[u]
    BY DEF ShouldCapture, Running, Base, TypeOK
  <2>2. \A u \in Threads : Running(u)' => u = t
    BY <1>1, <2>1 DEF Running, Single, Base, CrewInv
  <2>3. Between(p, q)' <=> Fired(t, p)' /\ ~ Fired(t, q)'
    BY <2>1, <2>2 DEF Between
  <2> QED
    BY <1>1, <1>2, <2>1, <2>3 DEF Fired, Base, TypeOK
<1>5. \A m \in Keys : (Pristine(m)' <=> Pristine(m))
                   /\ (m # KeyOf(t) => count'[m] = count[m] /\ admitted'[m] = admitted[m])
  <2>1. \A m \in Keys : Pristine(m)' <=> Pristine(m)
    BY <1>1 DEF Pristine, KeepsAll, Seeds
  <2>2. \A m \in Keys : m # KeyOf(t) => count'[m] = count[m] /\ admitted'[m] = admitted[m]
    BY DEF ShouldCapture, Base, TypeOK
  <2> QED
    BY <2>1, <2>2
<1>6. CASE pos[t] # p /\ pos[t] # q
  <2>1. k # KeyOf(t) /\ l # KeyOf(t)
    BY <1>2, <1>6 DEF OneHookPerKey, KeyOf
  <2>2. Between(p, q)' => Between(p, q)
    BY <1>2, <1>3, <1>4, <1>6
  <2> QED
    BY <1>1, <1>2, <1>3, <1>5, <2>1, <2>2, AlignFrame
<1>7. CASE pos[t] = p
  <2>1. k = KeyOf(t) /\ l # KeyOf(t)
    BY <1>2, <1>7 DEF KeyOf
  <2> SUFFICES ASSUME Pristine(k), Pristine(l)
               PROVE  Behind(k, l)'
    BY <1>2, <1>4, <1>5, <1>7 DEF AlignAt
  <2>2. Abreast(k, l)
    BY <1>2, <1>3, <1>7 DEF AlignAt
  <2>3. /\ Seen(l)' = Seen(l) /\ PassesOf(l)' = PassesOf(l) /\ count'[l] = count[l]
    BY <1>1, <1>2, <1>5, <2>1, SeenSame
  <2>4. /\ Seen(k)' = Seen(k) + 1 /\ forwards \notin PassesOf(k)
        /\ PassesOf(k)' = PassesOf(k) \cup IF Admits(cfg, count[k]) THEN {forwards} ELSE {}
    BY <1>2, <2>1, SeenGains, PassIsNew
  <2>5. Seen(k) \in Nat /\ Seen(l) \in Nat
    BY <1>2, SeenType
  <2>6. Admits(cfg, count[l])' <=> Admits(cfg, count[l])
    BY <1>1, <2>3 DEF SameScope
  <2>7. Seen(l)' < Seen(k)'
    BY <2>2, <2>3, <2>4, <2>5 DEF Abreast
  <2>8. ASSUME Seen(l)' + 1 = Seen(k)'
        PROVE  /\ PassesOf(l)' = PassesOf(k)' \ {forwards}
               /\ forwards \in PassesOf(k)' <=> Admits(cfg, count[l])
    <3>1. Seen(l) = Seen(k)
      BY <2>3, <2>4, <2>5, <2>8
    <3>2. PassesOf(l) = PassesOf(k)
      BY <2>2, <3>1 DEF Abreast
    <3>3. Admits(cfg, count[k]) <=> Admits(cfg, count[l])
      BY <1>2, <3>1, SameVerdict
    <3> QED
      BY <2>3, <2>4, <3>2, <3>3
  <2> QED
    BY <1>1, <2>6, <2>7, <2>8 DEF Behind
<1>8. CASE pos[t] = q
  <2>1. l = KeyOf(t) /\ k # KeyOf(t)
    BY <1>2, <1>8 DEF KeyOf
  <2> SUFFICES ASSUME Pristine(k), Pristine(l)
               PROVE  Abreast(k, l)'
    BY <1>2, <1>4, <1>5, <1>8 DEF AlignAt
  <2>2. Behind(k, l)
    BY <1>2, <1>3, <1>8 DEF AlignAt
  <2>3. Seen(k)' = Seen(k) /\ PassesOf(k)' = PassesOf(k)
    BY <1>1, <1>2, <1>5, <2>1, SeenSame
  <2>4. /\ Seen(l)' = Seen(l) + 1
        /\ PassesOf(l)' = PassesOf(l) \cup IF Admits(cfg, count[l]) THEN {forwards} ELSE {}
    BY <1>2, <2>1, SeenGains, PassIsNew
  <2>5. Seen(k) \in Nat /\ Seen(l) \in Nat
    BY <1>2, SeenType
  <2>6. Seen(l)' <= Seen(k)'
    BY <2>2, <2>3, <2>4, <2>5 DEF Behind
  <2>7. ASSUME Seen(l)' = Seen(k)' PROVE PassesOf(l)' = PassesOf(k)'
    <3>1. Seen(l) + 1 = Seen(k)
      BY <2>3, <2>4, <2>7
    <3>2. /\ PassesOf(l) = PassesOf(k) \ {forwards}
          /\ forwards \in PassesOf(k) <=> Admits(cfg, count[l])
      BY <2>2, <3>1 DEF Behind
    <3> QED
      BY <2>3, <2>4, <3>2
  <2> QED
    BY <2>6, <2>7 DEF Abreast
<1> QED
  BY <1>6, <1>7, <1>8

\* A store seeds nothing.
LEMMA StorePristine ==
  ASSUME Base, NEW t \in Threads, Store(t), NEW k \in Keys, Pristine(k)'
  PROVE  Pristine(k)
<1>1. UNCHANGED scope /\ KeepsAll(k)
  BY StoreEffect DEF Pristine, KeepsAll
<1>2. CASE k # KeyOf(t)
  BY <1>1, <1>2, StoreEffect, SameHolds DEF Pristine, Base, TypeOK
<1>3. CASE k = KeyOf(t)
  <2>1. data'[k] = Append(data[k], <<FireOf(t)>>)
    BY <1>1, <1>3, KeepsAppends
  <2>2. FireOf(t) \in Fire /\ FireOf(t) # Seed
    BY NotSeed DEF Store, Running
  <2>3. Seeds(k)' = Seeds(k)
    BY <2>1, <2>2, AppendHolds DEF Base
  <2> QED
    BY <1>1, <2>3 DEF Pristine
<1> QED
  BY <1>2, <1>3

\* No other step of a hook shows a key a fire, or puts a pass between two.
LEMMA AlignHook ==
  ASSUME Base, AlignInv, NEW t \in Threads, HookStep(t), ~ ShouldCapture(t)
  PROVE  AlignInv'
<1>1. SameScope /\ UNCHANGED <<scope, api, count, admitted, forwards>>
  BY HookScope DEF HookStep, LockLoad, Load, Reduce, ReduceRaises, LockStore, Store,
                   LeaveHook, ForwardRaises, apiVars, ghosts
<1> SUFFICES ASSUME Single, api \notin {"clear", "reset"},
                    NEW p \in DOMAIN Fires, NEW q \in DOMAIN Fires, p < q
             PROVE  AlignAt(p, q)'
  BY <1>1 DEF AlignInv, Single
<1>2. ASSUME NEW k \in Keys, Pristine(k)' PROVE Pristine(k)
  <2>1. CASE Store(t)
    BY <1>2, <2>1, StorePristine
  <2>2. CASE ~ Store(t)
    <3>1. UNCHANGED <<scope, data>>
      BY <2>2 DEF HookStep, LockLoad, Load, Reduce, ReduceRaises, LockStore, LeaveHook, ForwardRaises
    <3> QED
      BY <1>2, <3>1 DEF Pristine, KeepsAll, Seeds
  <2> QED
    BY <2>1, <2>2
<1>3. ASSUME Between(p, q)' PROVE Between(p, q)
  <2>1. PICK u \in Threads : Running(u)' /\ Fired(u, p)' /\ ~ Fired(u, q)'
    BY <1>3 DEF Between
  <2>2. CASE u # t
    <3>1. pc'[u] = pc[u] /\ pos'[u] = pos[u]
      BY <2>2 DEF HookStep, LockLoad, Load, Reduce, ReduceRaises, LockStore, Store,
                  LeaveHook, ForwardRaises, Base, TypeOK
    <3> QED
      BY <2>1, <3>1 DEF Between, Running, Fired
  <2>3. CASE u = t
    <3>1. p \in Nat /\ q \in Nat /\ q <= Len(Fires) /\ pos[t] \in Nat /\ Len(Fires) \in Nat
      BY FiresIn, HookPathAssumption, SMTT(20) DEF Base, TypeOK
    <3>2. Running(t) /\ pc[t] # "policy"
      BY DEF HookStep, LockLoad, Load, Reduce, ReduceRaises, LockStore, Store,
             LeaveHook, ForwardRaises, Running
    <3>3. CASE LeaveHook(t) \/ ForwardRaises(t)
      <4>1. pc'[t] = "policy" /\ pos'[t] = pos[t] + 1
        BY <2>1, <2>3, <3>3 DEF LeaveHook, ForwardRaises, Running, Base, TypeOK
      <4> QED
        BY <2>1, <2>3, <3>1, <3>2, <4>1 DEF Between, Fired
    <3>4. CASE ReduceRaises(t)
      <4>1. pc'[t] = "leave" /\ pos'[t] = Len(Fires)
        BY <3>4 DEF ReduceRaises, Base, TypeOK
      <4> QED
        BY <2>1, <2>3, <3>1, <4>1 DEF Fired
    <3>5. CASE ~ LeaveHook(t) /\ ~ ForwardRaises(t) /\ ~ ReduceRaises(t)
      <4>1. pos'[t] = pos[t] /\ pc'[t] # "policy"
        BY <3>5 DEF HookStep, LockLoad, Load, Reduce, LockStore, Store, Base, TypeOK
      <4> QED
        BY <2>1, <2>3, <3>2, <4>1 DEF Between, Fired
    <3> QED
      BY <3>3, <3>4, <3>5
  <2> QED
    BY <2>2, <2>3
<1>4. AlignAt(p, q) /\ Fires[p] \in Keys /\ Fires[q] \in Keys
  BY FiresIn DEF AlignInv
<1> QED
  BY <1>1, <1>2, <1>3, <1>4, AlignFrame

LEMMA AlignStart ==
  ASSUME Base, AlignInv, NEW t \in Threads, StartForward(t)
  PROVE  AlignInv'
<1>1. SameScope /\ UNCHANGED <<scope, data, api, count, admitted>>
  BY HookScope DEF StartForward, apiVars, ghosts
<1> SUFFICES ASSUME Single, api \notin {"clear", "reset"},
                    NEW p \in DOMAIN Fires, NEW q \in DOMAIN Fires, p < q
             PROVE  AlignAt(p, q)'
  BY <1>1 DEF AlignInv, Single
<1>2. ~ Between(p, q)'
  <2>1. /\ t \in Crew[scope] /\ pos'[t] = 1 /\ pc'[t] = "policy"
        /\ \A u \in Threads \ {t} : pc'[u] = pc[u]
    BY DEF StartForward, Base, TypeOK
  <2>2. \A u \in Threads : Running(u)' => u = t
    BY <2>1 DEF Running, Single, Base, CrewInv
  <2>3. ~ Fired(t, p)'
    BY <2>1, FiresIn DEF Fired
  <2> QED
    BY <2>2, <2>3 DEF Between
<1>3. \A k \in Keys : Pristine(k)' => Pristine(k)
  BY <1>1 DEF Pristine, KeepsAll, Seeds
<1>4. AlignAt(p, q) /\ Fires[p] \in Keys /\ Fires[q] \in Keys
  BY FiresIn DEF AlignInv
<1> QED
  BY <1>1, <1>2, <1>3, <1>4, AlignFrame

\* A clear that is over has left every key without a fire; a seeded key is no
\* longer compared.
LEMMA AlignCall ==
  ASSUME Base, EmptyInv, AlignInv, NEW k \in Keys,
         ClearAccum(k) \/ ResetCounter(k) \/ ReadbackAccum(k) \/ InitAccumulator(k)
  PROVE  AlignInv'
<1>1. SameScope /\ Quiet /\ Quiet' /\ UNCHANGED <<scope, forwards>>
  BY CallScope, CallEffect DEF Quiet, threadVars
<1> SUFFICES ASSUME Single, api' \notin {"clear", "reset"},
                    NEW p \in DOMAIN Fires, NEW q \in DOMAIN Fires, p < q
             PROVE  AlignAt(p, q)'
  BY <1>1 DEF AlignInv, Single
<1>2. ~ Between(p, q)' /\ Fires[p] \in Keys /\ Fires[q] \in Keys
  BY <1>1, FiresIn DEF Quiet, Between, Running
<1>3. CASE ClearAccum(k)
  BY <1>3 DEF ClearAccum, Visited
<1>4. CASE ResetCounter(k)
  <2>1. ASSUME NEW m \in Keys, Pristine(m)' PROVE Seen(m)' = 0 /\ PassesOf(m)' = {}
    <3>1. api = "reset" /\ todo = {k} /\ UNCHANGED <<data, ghosts>> /\ count' = [count EXCEPT ![k] = 0]
      BY <1>4 DEF ResetCounter, Visited
    <3>2. count'[m] = 0
      BY <3>1 DEF EmptyInv, Base, TypeOK
    <3>3. data[m] = <<>> /\ OnTheWay(m) = {} /\ KeepsAll(m)
      BY <1>1, <1>4, <2>1, <3>1, CallEffect DEF EmptyInv, Pristine, KeepsAll
    <3>4. Held(m) = {}
      BY <3>3, CapturesMember DEF Held
    <3>5. admitted[m] = {}
      BY <3>3, <3>4 DEF Base, LossInv, NothingLost
    <3>6. admitted'[m] = {}
      BY <3>1, <3>5 DEF ghosts
    <3> QED
      BY <3>2, <3>6, FS_EmptySet DEF Seen, PassesOf
  <2> QED
    BY <1>2, <2>1 DEF AlignAt, Abreast
<1>5. CASE ReadbackAccum(k)
  <2>1. UNCHANGED <<scope, data, count, admitted>> /\ api = "readback"
    BY <1>1, <1>5 DEF ReadbackAccum, ghosts
  <2>2. \A m \in Keys : Pristine(m)' => Pristine(m)
    BY <2>1 DEF Pristine, KeepsAll, Seeds
  <2>3. AlignAt(p, q)
    BY <2>1 DEF AlignInv
  <2> QED
    BY <1>1, <1>2, <2>1, <2>2, <2>3, AlignFrame
<1>6. CASE InitAccumulator(k)
  <2>1. /\ data' = [data EXCEPT ![k] = << <<Seed>> >>] /\ Forget(k) /\ UNCHANGED count
        /\ api = "init"
    <3>1. ~ ClearAccum(k) /\ ~ ResetCounter(k) /\ ~ ReadbackAccum(k) /\ api = "init"
      BY <1>6 DEF ClearAccum, ResetCounter, ReadbackAccum, InitAccumulator
    <3> QED
      BY <3>1, CallEffect
  <2>2. data'[k] = << <<Seed>> >> /\ AlignAt(p, q)
    BY <2>1 DEF Base, TypeOK, AlignInv
  <2>3. ~ Pristine(k)'
    BY <2>2, EmptyHolds DEF Pristine
  <2>4. CASE Fires[p] # k /\ Fires[q] # k
    <3>1. \A m \in Keys \ {k} : /\ data'[m] = data[m] /\ admitted'[m] = admitted[m]
                                /\ count'[m] = count[m] /\ (Pristine(m)' => Pristine(m))
      BY <1>1, <2>1, SameHolds DEF Forget, Base, TypeOK, Pristine, KeepsAll
    <3> QED
      BY <1>1, <1>2, <2>2, <2>4, <3>1, AlignFrame
  <2> QED
    BY <2>3, <2>4 DEF AlignAt
<1> QED
  BY <1>3, <1>4, <1>5, <1>6

LEMMA AlignBegin ==
  ASSUME Base, AlignInv, BeginSomeCall \/ UNCHANGED vars
  PROVE  AlignInv'
<1>1. SameScope /\ UNCHANGED <<scope, data, count, admitted, threadVars, forwards>>
  BY BeginScope, BeginUnmoved DEF Unmoved
<1>2. api' \notin {"clear", "reset"} => api \notin {"clear", "reset"}
  BY DEF BeginSomeCall, BeginClear, BeginReadback, BeginInitAccumulator, BeginCall, GilFree,
         vars, apiVars
<1> SUFFICES ASSUME Single, api \notin {"clear", "reset"},
                    NEW p \in DOMAIN Fires, NEW q \in DOMAIN Fires, p < q
             PROVE  AlignAt(p, q)'
  BY <1>1, <1>2 DEF AlignInv, Single
<1>3. \A k \in Keys : Pristine(k)' => Pristine(k)
  BY <1>1 DEF Pristine, KeepsAll, Seeds
<1>4. Between(p, q)' => Between(p, q)
  BY <1>1 DEF Between, Running, Fired, threadVars
<1>5. AlignAt(p, q) /\ Fires[p] \in Keys /\ Fires[q] \in Keys
  BY FiresIn DEF AlignInv
<1> QED
  BY <1>1, <1>3, <1>4, <1>5, AlignFrame

LEMMA AlignStep ==
  ASSUME ~ Overlap, OneHookPerKey
  PROVE  Base /\ EmptyInv /\ PlaceInv /\ AlignInv /\ [Next]_vars => AlignInv'
BY AlignCapture, AlignHook, AlignStart, AlignCall, AlignBegin
   DEF Next, CallStep, Finished, HookStep

LEMMA AlignInit == Init => EmptyInv /\ PlaceInv /\ AlignInv
<1> SUFFICES ASSUME Init PROVE EmptyInv /\ PlaceInv /\ AlignInv
  OBVIOUS
<1>1. EmptyInv /\ PlaceInv
  BY DEF Init, EmptyInv, PlaceInv
<1>2. \A k \in Keys : Seen(k) = 0 /\ PassesOf(k) = {}
  BY FS_EmptySet DEF Init, Seen, PassesOf
<1>3. \A p, q : ~ Between(p, q)
  BY DEF Init, Between, Running
<1>4. \A k, l \in Keys : Abreast(k, l)
  BY <1>2 DEF Abreast
<1> QED
  BY <1>1, <1>3, <1>4, FiresIn DEF AlignInv, AlignAt

-----------------------------------------------------------------------------
(***************************************************************************)
(* Rows.                                                                   *)
(***************************************************************************)
LEMMA LeastIndex ==
  ASSUME NEW S \in SUBSET Nat, S # {}
  PROVE  \E i \in S : \A j \in S : i <= j
<1> DEFINE less == {p \in Nat \X Nat : p[1] < p[2]}
<1>1. IsWellFoundedOn(less, Nat)
  BY NatLessThanWellFounded, Zenon DEF OpToRel
<1> HIDE DEF less
<1>2. PICK i \in S : \A j \in S : <<j, i>> \notin less
  BY <1>1, WFMin, Zenon
<1>3. ASSUME NEW j \in S PROVE i <= j
  <2>1. <<j, i>> \in less <=> j < i
    BY DEF less
  <2> QED
    BY <1>2, <2>1
<1> QED
  BY <1>3

\* Two increasing sequences of the same numbers are the same sequence.
Increasing(f, n) == \A i, j \in 1 .. n : i < j => f[i] < f[j]
Covers(f, g, n) == \A i \in 1 .. n : \E j \in 1 .. n : g[i] = f[j]

LEMMA NeverLess ==
  ASSUME NEW n \in Nat, NEW f \in [1 .. n -> Int], NEW g \in [1 .. n -> Int],
         Increasing(f, n), Increasing(g, n), Covers(g, f, n),
         NEW m \in 1 .. n, \A j \in 1 .. n : j < m => f[j] = g[j]
  PROVE  ~ (f[m] < g[m])
<1> SUFFICES ASSUME f[m] < g[m] PROVE FALSE
  OBVIOUS
<1>1. PICK j \in 1 .. n : f[m] = g[j]
  BY DEF Covers
<1>2. f[m] \in Int /\ g[m] \in Int /\ f[j] \in Int /\ g[j] \in Int /\ j \in Int /\ m \in Int
  OBVIOUS
<1>3. CASE j < m
  <2>1. f[j] < f[m] /\ f[j] = g[j]
    BY <1>3 DEF Increasing
  <2> QED
    BY <1>1, <1>2, <2>1
<1>4. CASE m < j
  <2>1. g[m] < g[j]
    BY <1>4 DEF Increasing
  <2> QED
    BY <1>1, <1>2, <2>1
<1> QED
  BY <1>1, <1>2, <1>3, <1>4

LEMMA IncreasingUnique ==
  ASSUME NEW n \in Nat, NEW f \in [1 .. n -> Int], NEW g \in [1 .. n -> Int],
         Increasing(f, n), Increasing(g, n), Covers(g, f, n), Covers(f, g, n)
  PROVE  \A i \in 1 .. n : f[i] = g[i]
<1> DEFINE S == {i \in 1 .. n : f[i] # g[i]}
<1> SUFFICES ASSUME S # {} PROVE FALSE
  OBVIOUS
<1>1. S \subseteq Nat
  OBVIOUS
<1>2. PICK m \in S : \A j \in S : m <= j
  <2> HIDE DEF S
  <2> QED
    BY <1>1, LeastIndex
<1>3. m \in 1 .. n /\ f[m] # g[m] /\ \A j \in 1 .. n : j < m => f[j] = g[j] /\ g[j] = f[j]
  BY <1>2
<1> HIDE DEF S
<1>4. ~ (f[m] < g[m]) /\ ~ (g[m] < f[m])
  BY <1>3, NeverLess
<1>5. f[m] \in Int /\ g[m] \in Int
  BY <1>3
<1> QED
  BY <1>3, <1>4, <1>5

\* The passes of the rows of a layer that keeps everything.
RowPass(k) == [i \in 1 .. Len(data[k]) |-> data[k][i][1][1]]

\* At rest they are the passes admitted, in increasing order.
LEMMA RowsOf ==
  ASSUME OneHookPerKey, Base, StoredOnce, OrderInv, PlaceInv, Single, AtRest,
         NEW k \in Keys, Pristine(k)
  PROVE  /\ Cardinality(admitted[k]) = Len(data[k])
         /\ RowPass(k) \in [1 .. Len(data[k]) -> Int]
         /\ Increasing(RowPass(k), Len(data[k]))
         /\ \A n : n \in PassesOf(k) <=> \E i \in 1 .. Len(data[k]) : RowPass(k)[i] = n
<1>1. KeepsAll(k) /\ Seeds(k) = {} /\ OnTheWay(k) = {} /\ data[k] \in Seq(Tensor)
  BY DEF Pristine, AtRest, Quiet, OnTheWay, InHook, Base, TypeOK
<1>2. Held(k) = admitted[k]
  BY <1>1 DEF Base, LossInv, NothingLost
<1>3. Cardinality(admitted[k]) = Len(data[k])
  <2>1. Len(data[k]) = Cardinality(admitted[k]) + Cardinality({})
    BY <1>1, <1>2 DEF StoredOnce
  <2> QED
    BY <1>1, <1>2, <2>1, HeldFinite, FS_EmptySet
<1>4. ASSUME NEW i \in 1 .. Len(data[k])
      PROVE  \E c \in admitted[k] : data[k][i] = <<c>> /\ RowPass(k)[i] = c[1]
  <2>1. i \in DOMAIN data[k]
    BY <1>1
  <2>2. PICK c \in admitted[k] \cup {Seed} : data[k][i] = <<c>>
    BY <1>1, <2>1 DEF OrderInv, OrderAt, EntriesAt
  <2>3. c # Seed
    BY <1>1, <2>1, <2>2 DEF Seeds
  <2> QED
    BY <2>2, <2>3, SMTT(20) DEF RowPass
<1>5. \A c \in admitted[k] : c \in Fire /\ c[1] \in Nat /\ c[2] \in DOMAIN Fires /\ Fires[c[2]] = k
  BY DEF PlaceInv, Base, TypeOK, Fire
<1>6. RowPass(k) \in [1 .. Len(data[k]) -> Int]
  <2>1. \A i \in 1 .. Len(data[k]) : data[k][i][1][1] \in Int
    BY <1>4, <1>5
  <2> QED
    BY <2>1 DEF RowPass
<1>7. ASSUME NEW i \in 1 .. Len(data[k]), NEW j \in 1 .. Len(data[k]), i < j
      PROVE  RowPass(k)[i] < RowPass(k)[j]
  <2>1. PICK c \in admitted[k] : data[k][i] = <<c>> /\ RowPass(k)[i] = c[1]
    BY <1>4
  <2>2. PICK d \in admitted[k] : data[k][j] = <<d>> /\ RowPass(k)[j] = d[1]
    BY <1>4
  <2>3. Before(data[k][i][1], data[k][j][1])
    BY <1>1, <1>7 DEF OrderInv, OrderAt, SortedAt
  <2>4. Before(c, d)
    BY <2>1, <2>2, <2>3
  <2>5. c[2] = d[2]
    BY <1>5 DEF OneHookPerKey
  <2> QED
    BY <1>5, <2>1, <2>2, <2>4, <2>5, FiresIn DEF Before
<1>8. ASSUME NEW c \in admitted[k] PROVE \E i \in 1 .. Len(data[k]) : RowPass(k)[i] = c[1]
  <2>1. PICK i \in DOMAIN data[k] : c \in Range(data[k][i])
    BY <1>2, CapturesMember DEF Held
  <2>2. i \in 1 .. Len(data[k])
    BY <1>1
  <2>3. PICK d \in admitted[k] : data[k][i] = <<d>> /\ RowPass(k)[i] = d[1]
    BY <1>4, <2>2
  <2>4. c = d
    BY <2>1, <2>3 DEF Range
  <2> QED
    BY <2>2, <2>3, <2>4
<1>9. \A n : n \in PassesOf(k) <=> \E i \in 1 .. Len(data[k]) : RowPass(k)[i] = n
  <2>1. ASSUME NEW n, n \in PassesOf(k) PROVE \E i \in 1 .. Len(data[k]) : RowPass(k)[i] = n
    <3>1. PICK c \in admitted[k] : n = c[1]
      BY <2>1, Zenon DEF PassesOf
    <3> QED
      BY <1>8, <3>1, Zenon
  <2>2. ASSUME NEW i \in 1 .. Len(data[k]) PROVE RowPass(k)[i] \in PassesOf(k)
    <3>1. PICK c \in admitted[k] : RowPass(k)[i] = c[1]
      BY <1>4, Zenon
    <3> QED
      BY <3>1, Zenon DEF PassesOf
  <2> QED
    BY <2>1, <2>2, Zenon
<1> QED
  BY <1>3, <1>6, <1>7, <1>9 DEF Increasing

LEMMA RowsAligned ==
  ASSUME OneHookPerKey, Base, StoredOnce, OrderInv, PlaceInv, AlignInv, Single, AtRest,
         NEW p \in DOMAIN Fires, NEW q \in DOMAIN Fires, p < q,
         Pristine(Fires[p]), Pristine(Fires[q]),
         count[Fires[p]] = count[Fires[q]], Len(data[Fires[p]]) = Len(data[Fires[q]])
  PROVE  \A i \in 1 .. Len(data[Fires[p]]) : data[Fires[p]][i][1][1] = data[Fires[q]][i][1][1]
<1> DEFINE k == Fires[p]
           l == Fires[q]
<1>1. k \in Keys /\ l \in Keys
  BY FiresIn
<1> HIDE DEF k, l
<1>2. Seen(k) = Seen(l)
  BY <1>1, RowsOf DEF Seen, k, l
<1>3. PassesOf(k) = PassesOf(l)
  <2>1. ~ Between(p, q) /\ api = "idle"
    BY QuietBetween DEF AtRest, GilFree
  <2> QED
    BY <1>2, <2>1 DEF AlignInv, AlignAt, Abreast, k, l
<1>4. /\ RowPass(k) \in [1 .. Len(data[k]) -> Int]
      /\ RowPass(l) \in [1 .. Len(data[k]) -> Int]
      /\ Increasing(RowPass(k), Len(data[k])) /\ Increasing(RowPass(l), Len(data[k]))
      /\ \A n : n \in PassesOf(k) <=> \E i \in 1 .. Len(data[k]) : RowPass(k)[i] = n
      /\ \A n : n \in PassesOf(k) <=> \E i \in 1 .. Len(data[k]) : RowPass(l)[i] = n
      /\ Len(data[k]) \in Nat
  BY <1>1, <1>3, RowsOf DEF k, l, Base, TypeOK
<1>5. \A i \in 1 .. Len(data[k]) : RowPass(k)[i] = RowPass(l)[i]
  <2> DEFINE n == Len(data[k])
             f == RowPass(k)
             g == RowPass(l)
  <2>1. /\ n \in Nat /\ f \in [1 .. n -> Int] /\ g \in [1 .. n -> Int]
        /\ Increasing(f, n) /\ Increasing(g, n)
    BY <1>4
  <2>2. Covers(f, g, n) /\ Covers(g, f, n)
    BY <1>4 DEF Covers
  <2> HIDE DEF n, f, g
  <2>3. \A i \in 1 .. n : f[i] = g[i]
    BY <2>1, <2>2, IncreasingUnique
  <2> QED
    BY <2>3 DEF n, f, g
<1> QED
  BY <1>5 DEF RowPass, k, l

\* Layers that have seen as many fires since they were cleared, and hold as
\* many, have the same rows: row i of one and row i of the other come from
\* one forward pass, whatever passes an exception cut short.
THEOREM RowsLineUp ==
  ASSUME ~ Overlap, FiniteCrews, OneHookPerKey
  PROVE  Spec => []Aligned
<1>1. Base /\ StoredOnce /\ OrderInv /\ PlaceInv /\ AlignInv => Aligned
  <2> SUFFICES ASSUME Base, StoredOnce, OrderInv, PlaceInv, AlignInv, Serial, AtRest,
                      NEW k \in Keys, NEW l \in Keys, Pristine(k), Pristine(l),
                      count[k] = count[l], Len(data[k]) = Len(data[l]),
                      NEW i \in DOMAIN data[k]
               PROVE  data[k][i][1][1] = data[l][i][1][1]
    BY DEF Aligned, Pristine
  <2>1. Single
    BY SerialIsSingle DEF Base
  <2>2. ASSUME NEW m \in Keys, Pristine(m), Len(data[m]) # 0
        PROVE  \E p \in DOMAIN Fires : Fires[p] = m
    <3>1. Cardinality(admitted[m]) = Len(data[m])
      BY <2>1, <2>2, RowsOf
    <3>2. admitted[m] # {}
      BY <2>2, <3>1, FS_EmptySet
    <3> QED
      BY <3>2 DEF PlaceInv
  <2>3. i \in 1 .. Len(data[k]) /\ Len(data[k]) # 0 /\ Len(data[l]) # 0
    BY DEF Base, TypeOK
  <2>4. PICK p \in DOMAIN Fires : Fires[p] = k
    BY <2>2, <2>3
  <2>5. PICK q \in DOMAIN Fires : Fires[q] = l
    BY <2>2, <2>3
  <2>6. p = q \/ p < q \/ q < p
    BY FiresIn
  <2> QED
    BY <2>1, <2>3, <2>4, <2>5, <2>6, RowsAligned
<1> QED
  BY <1>1, BaseInit, BaseStep, OnceInit, OnceStep, OrderInit, OrderStep, AlignInit, EmptyStep,
     PlaceStep, AlignStep, PTL DEF Spec, Base
=============================================================================
