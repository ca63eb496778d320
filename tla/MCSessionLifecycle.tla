------------------------- MODULE MCSessionLifecycle -------------------------
(***************************************************************************)
(* Instances of SessionLifecycle for TLC: two scopes on one model of one   *)
(* or two hooked layers.                                                   *)
(***************************************************************************)
EXTENDS SessionLifecycle, TLC

CONSTANTS s1, s2, r1, r2, fc1, fc2

OneScope   == {s1}
TwoScopes  == {s1, s2}
OneRunner  == {r1}
TwoRunners == {r1, r2}
OneKey     == {fc1}
TwoKeys    == {fc1, fc2}
OneLayer   == {<<fc1>>}
BothLayers == {<<fc1, fc2>>}
EachOrBoth == {<<fc1>>, <<fc1, fc2>>}
=============================================================================
