---------------------------- MODULE OneTimeKeys ----------------------------
(***************************************************************************)
(* What a store of one-time keys promises to those who start sessions: a   *)
(* key it hands out was offered to it, and it is handed out once.          *)
(***************************************************************************)
CONSTANT Key

VARIABLES
    held,   \* the keys the store may hand out
    spent   \* the keys it has handed out

StoreInit == held \subseteq Key /\ spent = {}

\* The owner offers keys; the store may take some of them, none a spent one.
Offer ==
    /\ held \subseteq held' /\ held' \subseteq Key
    /\ (held' \ held) \cap spent = {}
    /\ UNCHANGED spent

HandOut == \E k \in held : held' = held \ {k} /\ spent' = spent \cup {k}

\* The owner replaces its keys.
Retire == held' \subseteq held /\ UNCHANGED spent

StoreNext == Retire \/ HandOut \/ Offer

StoreSpec == StoreInit /\ [][StoreNext]_<<held, spent>>

=============================================================================
