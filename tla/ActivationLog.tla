--------------------------- MODULE ActivationLog ---------------------------
(***************************************************************************)
(* What a scope that keeps activations in memory promises, without locks,  *)
(* threads or phases: per layer a log of captures, a count of fires and    *)
(* the activations that were let through and are not in the log yet.       *)
(* Firing, delivering, clearing and seeding are atomic.  HookPath          *)
(* implements it.                                                          *)
(***************************************************************************)
EXTENDS Sequences, Functions, CapturePolicy

CONSTANTS Keys, Scopes, Activations, Seed

VARIABLES
  scope,  \* the ActivationScope: its policies and the keys with a reduction
  log,    \* per key the stored tensors, each the sequence of what is folded in
  count,  \* per key the fires since the last clear, as the policy counts them
  onWay   \* per key the activations admitted and not stored

vars == <<scope, log, count, onWay>>

Config == MakeConfig(Knobs(scope.capture, scope.sampleEvery, scope.maxBatches))

Init ==
  /\ scope \in Scopes
  /\ log = [k \in Keys |-> <<>>]
  /\ count = [k \in Keys |-> 0]
  /\ onWay = [k \in Keys |-> {}]

\* An activation is new to a key that neither holds nor awaits it.
Fresh(k, c) ==
  c \notin onWay[k] /\ \A i \in DOMAIN log[k] : c \notin Range(log[k][i])

\* A layer produces an activation, and the policy admits it or not.
Fire(k, c) ==
  /\ Fresh(k, c)
  /\ count' = [count EXCEPT ![k] = Tick(Config, count[k])]
  /\ onWay' = IF Admits(Config, count[k])
              THEN [onWay EXCEPT ![k] = @ \cup {c}] ELSE onWay
  /\ UNCHANGED <<scope, log>>

\* The log with one more activation: folded into the running value, in place
\* of all others, or after them.
With(k, c) ==
  IF k \in scope.reduced
  THEN << Append(IF log[k] = <<>> THEN <<>> ELSE log[k][1], c) >>
  ELSE IF scope.reductionPolicy = "FINAL_ONLY" THEN << <<c>> >>
  ELSE Append(log[k], <<c>>)

Deliver(k, c) ==
  /\ c \in onWay[k]
  /\ onWay' = [onWay EXCEPT ![k] = @ \ {c}]
  /\ log' = [log EXCEPT ![k] = With(k, c)]
  /\ UNCHANGED <<scope, count>>

\* A reduction raised on the activation.
Drop(k, c) ==
  /\ c \in onWay[k] /\ k \in scope.reduced
  /\ onWay' = [onWay EXCEPT ![k] = @ \ {c}]
  /\ UNCHANGED <<scope, log, count>>

Clear ==
  /\ \A k \in Keys : onWay[k] = {}
  /\ log' = [k \in Keys |-> <<>>]
  /\ count' = [k \in Keys |-> 0]
  /\ UNCHANGED <<scope, onWay>>

\* init_accumulator: the seed replaces everything, the count goes on.
SeedKey(k) ==
  /\ onWay[k] = {}
  /\ log' = [log EXCEPT ![k] = << <<Seed>> >>]
  /\ UNCHANGED <<scope, count, onWay>>

Next ==
  \/ \E k \in Keys, c \in Activations : Fire(k, c) \/ Deliver(k, c) \/ Drop(k, c)
  \/ Clear
  \/ \E k \in Keys : SeedKey(k)

Spec == Init /\ [][Next]_vars
=============================================================================
