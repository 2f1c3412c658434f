----------------------------- MODULE MCMessages -----------------------------
(***************************************************************************)
(* The path of a message for TLC: the gates a sealed send passes, dispatch, *)
(* the mailbox and its retention, and the push that wakes the reader.  Each *)
(* keeps its own rows and keys, so a behaviour follows one of them while    *)
(* the others stay as they began.                                           *)
(***************************************************************************)
EXTENDS MCMailbox, MailboxGap, MCDispatch, MCPush, MCGates

VARIABLE part       \* the component this behaviour follows

\* A component that is not followed is asked nothing.
NoPush == Scene(<<>>, {}, {}, {}, {}, FALSE, Home("production", "production"))
NoGate == Enforced(0, <<>>)
MessagePushPlans == MCPlans \cup {NoPush}
MessageGatePlans == MCGatePlans \cup {NoGate}

MessagesInit ==
    /\ part \in {"mailbox", "gap", "dispatch", "push", "gates"}
    /\ Init /\ GapInit
    /\ DispatchInit /\ (part = "dispatch" \/ kind = CHOOSE k \in [Envelope -> Kinds] : TRUE)
    /\ PushInit /\ (part = "push" <=> pushPlan # NoPush)
    /\ GateInit /\ (part = "gates" <=> gatePlan # NoGate)

MessagesNext ==
    /\ UNCHANGED part
    /\ \/ part = "mailbox" /\ Next /\ UNCHANGED <<gapVars, dispatchVars, pushVars, gateVars>>
       \/ part = "gap" /\ GapNext /\ UNCHANGED <<vars, dispatchVars, pushVars, gateVars>>
       \/ part = "dispatch" /\ DispatchNext /\ UNCHANGED <<vars, gapVars, pushVars, gateVars>>
       \/ part = "push" /\ PushNext /\ UNCHANGED <<vars, gapVars, dispatchVars, gateVars>>
       \/ part = "gates" /\ GateNext /\ UNCHANGED <<vars, gapVars, dispatchVars, pushVars>>

MessagesSpec ==
    MessagesInit /\ [][MessagesNext]_<<vars, gapVars, dispatchVars, pushVars, gateVars, part>>

=============================================================================
