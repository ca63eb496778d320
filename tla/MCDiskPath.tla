----------------------------- MODULE MCDiskPath -----------------------------
(***************************************************************************)
(* Instances of DiskPath for TLC.  A hook is a pair <<session, layer>>.    *)
(***************************************************************************)
EXTENDS DiskPath, TLC

CONSTANTS t1, t2, a, b, fc1, fc2, tmpA, tmpB

OneThread   == {t1}
TwoThreads  == {t1, t2}
OneSession  == {a}
TwoSessions == {a, b}

\* Threads are alike, and the run that uses this states no liveness.
ThreadSymmetry == Permutations(TwoThreads)

\* Two sessions on one layer, in directories of their own.
SharedLayer == {<<a, fc1>>, <<b, fc1>>}
SharedFires == << <<a, fc1>>, <<b, fc1>> >>
\* One session on one layer.
SingleLayer == {<<a, fc1>>}
SingleFire  == << <<a, fc1>> >>
\* One session on two layers whose names differ by a dot for an underscore.
TwoLayers   == {<<a, fc1>>, <<a, fc2>>}
TwoFires    == << <<a, fc1>>, <<a, fc2>> >>
OneName     == [h \in Hooks |-> fc1]

FirstOf  == [h \in Hooks |-> h[1]]
SecondOf == [h \in Hooks |-> h[2]]
OwnDirs  == [s \in Sessions |-> IF s = a THEN tmpA ELSE tmpB]

\* The directory of session b may have been used before.
LeftOver == {<< <<tmpB, fc1>>, 0>>}

Pair(dtype) == [dtype |-> dtype, shape |-> <<2>>]
Scp(capture, n, k, dtype) ==
  [capture |-> capture, sampleEvery |-> n, maxBatches |-> k, form |-> Pair(dtype)]
EveryOrMax == {Scp("EVERY", 1, 0, "float32"), Scp("MAX_K", 1, 1, "float32"),
               Scp("MAX_K", 1, 1, "complex64")}
EveryScope == {Scp("EVERY", 1, 0, "float32")}
Complex    == {Scp("EVERY", 1, 0, "complex64")}
=============================================================================
