----------------------------- MODULE MCHookPath -----------------------------
(***************************************************************************)
(* Instances of HookPath for TLC: two layers hooked by one scope, the keys *)
(* fired in model order, one or two threads.                               *)
(***************************************************************************)
EXTENDS HookPath, TLC

CONSTANTS t1, t2, fc1, fc2

TwoThreads == {t1, t2}
OneKey     == {fc1}
TwoKeys    == {fc1, fc2}
OneFire    == <<fc1>>
TwoFires   == <<fc1, fc2>>

Scp(capture, n, k, policy, reduced) ==
  [capture |-> capture, sampleEvery |-> n, maxBatches |-> k,
   reductionPolicy |-> policy, reduced |-> reduced]

\* Every capture policy, each with a stray knob of another policy.
ManyScopes ==
  {Scp("EVERY", 3, 1, "STORE_ALL", {}), Scp("SAMPLE_N", 2, 1, "STORE_ALL", {}),
   Scp("MAX_K", 3, 2, "STREAMING", {}), Scp("MAX_K", 3, 1, "STORE_ALL", {fc1}),
   Scp("MAX_K", 1, 2, "FINAL_ONLY", {})}

\* Every reduction policy, with and without a reduction on the first layer.
SerialScopes ==
  {Scp("EVERY", 1, 0, p, r) : p \in {"STORE_ALL", "FINAL_ONLY"}, r \in {{}, {fc1}}}
  \cup {Scp("SAMPLE_N", 2, 0, "STORE_ALL", {}), Scp("MAX_K", 1, 2, "STORE_ALL", {fc1}),
        Scp("SAMPLE_N", 2, 0, "FINAL_ONLY", {fc1})}

AllScopes == ManyScopes \cup SerialScopes

\* SerialScopes are run by one thread, for longer.
SomeCrews    == [s \in AllScopes |-> IF s \in SerialScopes THEN {t1} ELSE TwoThreads]
SomeForwards == [s \in AllScopes |-> IF s \in SerialScopes THEN 4 ELSE 3]
SomeCalls    == [s \in AllScopes |-> IF s \in SerialScopes THEN SessionCalls
                                     ELSE {"clear", "readback"}]

Keeping  == {Scp("EVERY", 1, 0, "STORE_ALL", {})}
FinalOnly == {Scp("EVERY", 1, 0, "FINAL_ONLY", {})}
Reducing == {Scp("EVERY", 1, 0, "STORE_ALL", {fc1})}
ClearRead == [s \in Keeping |-> {"clear", "readback"}]
FinalRead == [s \in FinalOnly |-> {"readback"}]
NoCalls   == [s \in Reducing |-> {}]
AllCalls  == [s \in Reducing |-> SessionCalls]
PairKeeping   == [s \in Keeping |-> TwoThreads]
OneFinal      == [s \in FinalOnly |-> {t1}]
PairReducing  == [s \in Reducing |-> TwoThreads]
ThreeKeeping  == [s \in Keeping |-> 3]
ThreeFinal    == [s \in FinalOnly |-> 3]
TwoReducing   == [s \in Reducing |-> 2]
ThreeReducing == [s \in Reducing |-> 3]
=============================================================================
