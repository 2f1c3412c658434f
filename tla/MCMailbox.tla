----------------------------- MODULE MCMailbox -----------------------------
(* Instances of Mailbox for TLC. *)
EXTENDS Mailbox, TLC

CONSTANTS d1, d2, gone, m1, m2, m3

\* m1 names no device, m2 names the reader, m3 its sibling.
NamedMixed == (m1 :> NoName) @@ (m2 :> d1) @@ (m3 :> d2)
NamedGone == (m1 :> NoName) @@ (m2 :> gone) @@ (m3 :> d2)


=============================================================================
