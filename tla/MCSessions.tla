----------------------------- MODULE MCSessions -----------------------------
(***************************************************************************)
(* Sessions for model checking: an account with two devices and one        *)
(* device_id that is not registered yet.                                   *)
(***************************************************************************)
EXTENDS Sessions, TLC

CONSTANTS d1, d2, d3, c1, c2, c3, none

ThreeDevices == {d1, d2, d3}
ThreeCalls == {c1, c2, c3}
AnyOrder == Permutations(ThreeCalls)
=============================================================================
