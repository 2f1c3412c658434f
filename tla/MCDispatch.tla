----------------------------- MODULE MCDispatch -----------------------------
(* One envelope of each kind in turn, carried by two requests at a time: the *)
(* guards of different envelopes are different keys.                         *)
EXTENDS Dispatch

CONSTANTS env1, s1, s2

OneEnvelope == {env1}
TwoSlots == {s1, s2}

=============================================================================
