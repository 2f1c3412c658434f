------------------------------ MODULE Dispatch ------------------------------
(***************************************************************************)
(* How an envelope gets from a request into the recipient's mailbox.       *)
(*                                                                         *)
(* Every door of messaging-service ends in dispatch_envelope: SendMessage  *)
(* ("unary"), Send on a MessageStream ("stream"), SendSealedMessage        *)
(* ("sealed"), and the federation endpoints for regular ("federated") and  *)
(* sealed ("fedsealed") envelopes.  A sender that got an error, or no      *)
(* answer, sends the same envelope again; each door has its own guard that *)
(* makes a repeat a no-op, set at a different time:                        *)
(*   - msg:dedup:v2, read before the mailbox write and set after it;       *)
(*   - the delivery tag, set before the write and removed if it fails;     *)
(*   - the federation claim, likewise.                                     *)
(*                                                                         *)
(* Requests run in slots, on any process: the queue mutex is per process,  *)
(* so nothing here relies on it.  A request whose process dies, or whose   *)
(* caller hangs up (which drops the handler's future), stops where it is.  *)
(* The run is shorter than the 24 h the guards live.                       *)
(*                                                                         *)
(* The recipient may block the sender of the regular envelopes; BlockUser  *)
(* writes the row, answers, and a spawned task purges the mailbox.         *)
(***************************************************************************)
EXTENDS Naturals, FiniteSets

CONSTANTS
    Envelope,        \* envelopes, each with its message id and delivery tag
    Slot,       \* requests that run at the same time
    Blocks,     \* whether the recipient blocks and unblocks the sender
    MaxFaults   \* bound: kinds of faults one envelope meets

Kinds == {"regular", "sealed", "federated", "fedsealed"}

\* write: the mailbox write fails;  reply: it lands and its reply is lost;
\* check, mark, undo: a Redis command on a guard fails;  db: the block lookup
\* fails;  crash: a request stops;  overlap: the sender gives up on a request
\* that still runs, and sends again.
FaultKinds == {"write", "reply", "check", "mark", "undo", "db", "crash", "overlap"}

ASSUME BlocksAssumption == Blocks \in BOOLEAN
ASSUME DispatchBounds == MaxFaults \in Nat

VARIABLES
    kind,      \* kind[m]: regular or sealed, from a client or from another server
    req,       \* req[s]: the request in slot s
    sender,    \* sender[m]: "trying", "acked" or "refused"
    dedup,     \* envelopes with a msg:dedup:v2 key
    tagged,    \* envelopes with a delivery-tag key
    claimed,   \* envelopes with a federation claim
    mailbox,   \* copies in the mailbox
    writes,    \* writes[m]: mailbox writes of m that landed, at most 2 counted
    dropped,   \* envelopes dropped without an error because of a block
    blocked,   \* whether the user_blocks row exists
    purge,     \* the purge task of the last block
    hit        \* hit[m]: the faults requests of m have met

guardVars == <<dedup, tagged, claimed>>
boxVars == <<mailbox, writes, dropped>>
blockVars == <<blocked, purge>>
dispatchVars == <<kind, req, sender, guardVars, boxVars, blockVars, hit>>

Idle == [stage |-> "idle"]
NoPurge == [stage |-> "off"]

Sealed(m) == kind[m] \in {"sealed", "fedsealed"}
Federated(m) == kind[m] \in {"federated", "fedsealed"}

At(s, stage) == req[s].stage = stage
Goto(s, stage) == req' = [req EXCEPT ![s].stage = stage]

\* A request of m meets fault f.
Meets(m, f) ==
    /\ f \in hit[m] \/ Cardinality(hit[m]) < MaxFaults
    /\ hit' = [hit EXCEPT ![m] = @ \cup {f}]

----------------------------------------------------------------------------
(* A request up to its guard. *)

\* A regular envelope of a client comes by SendMessage or on its stream, and a
\* retry may take the other way.
FirstStages(m) ==
    CASE kind[m] = "regular" -> {"early", "limits"}
      [] kind[m] = "sealed"  -> {"token"}
      [] Federated(m)        -> {"inbound"}

\* Where a request goes that fails after its claim, and before its tag.
Fail(m) == IF Federated(m) THEN "release" ELSE "err"

Running(m) == \E t \in {u \in Slot : req[u] # Idle} : req[t].m = m

Send(s, m) ==
    /\ req[s] = Idle
    /\ sender[m] = "trying"
    /\ IF Running(m) THEN Meets(m, "overlap") ELSE UNCHANGED hit
    /\ \E stage \in FirstStages(m) :
          req' = [req EXCEPT ![s] = [stage |-> stage, m |-> m, late |-> blocked]]
    /\ UNCHANGED <<kind, sender, guardVars, boxVars, blockVars>>

\* SendMessage looks at the dedup key first, so that a repeat is not charged to
\* the sender's rate limits.  A failed lookup goes on.
EarlyDedup(s) ==
    /\ At(s, "early")
    /\ \/ Goto(s, IF req[s].m \in dedup THEN "ok" ELSE "early_block") /\ UNCHANGED hit
       \/ Goto(s, "early_block") /\ Meets(req[s].m, "check")
    /\ UNCHANGED <<kind, sender, guardVars, boxVars, blockVars>>

\* ... then at the block, which it reports.
EarlyBlock(s) ==
    /\ At(s, "early_block")
    /\ \/ Goto(s, IF blocked THEN "refused" ELSE "limits") /\ UNCHANGED hit
       \/ Goto(s, "err") /\ Meets(req[s].m, "db")
    /\ UNCHANGED <<kind, sender, guardVars, boxVars, blockVars>>

\* Sentinel, trust and rate limits: go on, or an error the sender may retry.
Limits(s) ==
    /\ At(s, "limits")
    /\ \E next \in {"dedup", "err"} : Goto(s, next)
    /\ UNCHANGED <<kind, sender, guardVars, boxVars, blockVars, hit>>

\* Intake credential and Privacy Pass gate of a sealed envelope, likewise.
Token(s) ==
    /\ At(s, "token")
    /\ \E next \in {"tag", Fail(req[s].m)} : Goto(s, next)
    /\ UNCHANGED <<kind, sender, guardVars, boxVars, blockVars, hit>>

\* Skew, origin rate limit, payload hash and signature of a federated envelope.
Inbound(s) ==
    /\ At(s, "inbound")
    /\ \E next \in {"claim", "err"} : Goto(s, next)
    /\ UNCHANGED <<kind, sender, guardVars, boxVars, blockVars, hit>>

\* SET NX of the federation claim.  A failed command is an error to the origin,
\* whether or not it took effect.
Claim(s) ==
    /\ At(s, "claim")
    /\ LET m == req[s].m
       IN  \/ /\ m \in claimed
              /\ Goto(s, "ok")
              /\ UNCHANGED <<claimed, hit>>
           \/ /\ m \notin claimed
              /\ claimed' = claimed \cup {m}
              /\ Goto(s, IF Sealed(m) THEN "token" ELSE "dedup")
              /\ UNCHANGED hit
           \/ /\ Meets(m, "check")
              /\ claimed' \in {claimed, claimed \cup {m}}
              /\ Goto(s, "err")
    /\ UNCHANGED <<kind, sender, dedup, tagged, boxVars, blockVars>>

\* Mutant: the tag is looked at and not set.
TagLookedAt(s) ==
    /\ At(s, "tag")
    /\ Goto(s, IF req[s].m \in tagged THEN "ok" ELSE "write")
    /\ UNCHANGED <<kind, sender, guardVars, boxVars, blockVars, hit>>

\* check_and_mark_delivery_tag.  A failed command delivers unchecked.
Tag(s) ==
    /\ At(s, "tag")
    /\ LET m == req[s].m
       IN  \/ /\ m \in tagged
              /\ Goto(s, "ok")
              /\ UNCHANGED <<tagged, hit>>
           \/ /\ m \notin tagged
              /\ tagged' = tagged \cup {m}
              /\ Goto(s, "write")
              /\ UNCHANGED hit
           \/ /\ Meets(m, "check")
              /\ tagged' \in {tagged, tagged \cup {m}}
              /\ Goto(s, "write")
    /\ UNCHANGED <<kind, sender, dedup, claimed, boxVars, blockVars>>

----------------------------------------------------------------------------
(* dispatch_envelope.  A sealed envelope gets a fresh message id and names *)
(* no sender, so neither check below concerns it.                          *)

DedupCheck(s) ==
    /\ At(s, "dedup")
    /\ \/ Goto(s, IF req[s].m \in dedup THEN "ok" ELSE "block") /\ UNCHANGED hit
       \/ Goto(s, "block") /\ Meets(req[s].m, "check")
    /\ UNCHANGED <<kind, sender, guardVars, boxVars, blockVars>>

\* Mutant: dispatch_envelope leaves the block to the doors.
NoBlockCheck(s) ==
    /\ At(s, "block")
    /\ Goto(s, "write")
    /\ UNCHANGED <<kind, sender, guardVars, boxVars, blockVars, hit>>

\* A blocked sender's envelope is dropped and answered Ok; a failed lookup goes on.
BlockCheck(s) ==
    /\ At(s, "block")
    /\ \/ /\ Goto(s, IF blocked THEN "ok" ELSE "write")
          /\ dropped' = IF blocked THEN dropped \cup {req[s].m} ELSE dropped
          /\ UNCHANGED hit
       \/ /\ Goto(s, "write")
          /\ Meets(req[s].m, "db")
          /\ UNCHANGED dropped
    /\ UNCHANGED <<kind, sender, guardVars, mailbox, writes, blockVars>>

\* A copy: its envelope, whether its request began after the block, and whether
\* it was written after the purge had looked.
Copy(s) == [m |-> req[s].m, late |-> req[s].late, missed |-> purge.stage \in {"delete", "done"}]

Land(s) ==
    /\ mailbox' = mailbox \cup {Copy(s)}
    /\ writes' = [writes EXCEPT ![req[s].m] = IF @ < 2 THEN @ + 1 ELSE @]

\* Mutant: the dedup key is set with the write, whether or not it lands.
MarkBeforeWrite(s) ==
    /\ At(s, "write")
    /\ dedup' = dedup \cup {req[s].m}
    /\ \/ Land(s) /\ Goto(s, "ok") /\ UNCHANGED hit
       \/ /\ Meets(req[s].m, "write")
          /\ Goto(s, IF Sealed(req[s].m) THEN "unmark" ELSE Fail(req[s].m))
          /\ UNCHANGED <<mailbox, writes>>
    /\ UNCHANGED <<kind, sender, tagged, claimed, dropped, blockVars>>

\* write_message_to_device_streams.
WriteBox(s) ==
    /\ At(s, "write")
    /\ LET m == req[s].m
           failed == IF Sealed(m) THEN "unmark" ELSE Fail(m)
       IN  \/ Land(s) /\ Goto(s, IF Sealed(m) THEN "ok" ELSE "mark") /\ UNCHANGED hit
           \/ Land(s) /\ Goto(s, failed) /\ Meets(m, "reply")
           \/ Goto(s, failed) /\ Meets(m, "write") /\ UNCHANGED <<mailbox, writes>>
    /\ UNCHANGED <<kind, sender, guardVars, dropped, blockVars>>

\* mark_message_dispatched: a failure is logged, the envelope is in the mailbox.
Mark(s) ==
    /\ At(s, "mark")
    /\ \/ dedup' = dedup \cup {req[s].m} /\ UNCHANGED hit
       \/ UNCHANGED dedup /\ Meets(req[s].m, "mark")
    /\ Goto(s, "ok")
    /\ UNCHANGED <<kind, sender, tagged, claimed, boxVars, blockVars>>

----------------------------------------------------------------------------
(* A failed dispatch takes its guards back. *)

\* unmark_delivery_tag
Unmark(s) ==
    /\ At(s, "unmark")
    /\ \/ tagged' = tagged \ {req[s].m} /\ UNCHANGED hit
       \/ UNCHANGED tagged /\ Meets(req[s].m, "undo")
    /\ Goto(s, Fail(req[s].m))
    /\ UNCHANGED <<kind, sender, dedup, claimed, boxVars, blockVars>>

\* release_federation_message_id
Release(s) ==
    /\ At(s, "release")
    /\ \/ claimed' = claimed \ {req[s].m} /\ UNCHANGED hit
       \/ UNCHANGED claimed /\ Meets(req[s].m, "undo")
    /\ Goto(s, "err")
    /\ UNCHANGED <<kind, sender, dedup, tagged, boxVars, blockVars>>

\* The answer reaches the sender or is lost; an error leaves it trying.
Answer(s) ==
    /\ req[s].stage \in {"ok", "err", "refused"}
    /\ LET heard == CASE At(s, "ok") -> "acked" [] At(s, "refused") -> "refused" [] OTHER -> "trying"
       IN  sender' \in {sender} \cup
                       (IF sender[req[s].m] = "trying"
                        THEN {[sender EXCEPT ![req[s].m] = heard]} ELSE {})
    /\ req' = [req EXCEPT ![s] = Idle]
    /\ UNCHANGED <<kind, guardVars, boxVars, blockVars, hit>>

\* The process dies, or the caller hangs up and the handler is dropped.
Stop(s) ==
    /\ req[s] # Idle
    /\ Meets(req[s].m, "crash")
    /\ req' = [req EXCEPT ![s] = Idle]
    /\ UNCHANGED <<kind, sender, guardVars, boxVars, blockVars>>

----------------------------------------------------------------------------
(* BlockUser and UnblockUser of identity-service. *)

\* The row (again, if it is there), then the purge task; purges run one at a time.
BlockUser ==
    /\ Blocks
    /\ purge.stage # "delete"
    /\ blocked' = TRUE
    /\ purge' = [stage |-> "scan"]
    /\ UNCHANGED <<kind, req, sender, guardVars, boxVars, hit>>

\* XRANGE of the streams: sealed entries name no sender.
PurgeScan ==
    /\ purge.stage = "scan"
    /\ purge' = [stage |-> "delete", found |-> {c \in mailbox : ~Sealed(c.m)}]
    /\ UNCHANGED <<kind, req, sender, guardVars, boxVars, blocked, hit>>

\* XDEL of what was found.
PurgeDelete ==
    /\ purge.stage = "delete"
    /\ mailbox' = mailbox \ purge.found
    /\ purge' = [stage |-> "done"]
    /\ UNCHANGED <<kind, req, sender, guardVars, writes, dropped, blocked, hit>>

\* A request under way counts as begun before the next block.
UnblockUser ==
    /\ blocked
    /\ blocked' = FALSE
    /\ req' = [s \in Slot |-> IF req[s] = Idle THEN Idle ELSE [req[s] EXCEPT !.late = FALSE]]
    /\ UNCHANGED <<kind, sender, guardVars, boxVars, purge, hit>>

----------------------------------------------------------------------------

DispatchInit ==
    /\ kind \in [Envelope -> Kinds]
    /\ req = [s \in Slot |-> Idle]
    /\ sender = [m \in Envelope |-> "trying"]
    /\ dedup = {} /\ tagged = {} /\ claimed = {}
    /\ mailbox = {} /\ dropped = {}
    /\ writes = [m \in Envelope |-> 0]
    /\ blocked = FALSE
    /\ purge = NoPurge
    /\ hit = [m \in Envelope |-> {}]

Request(s) ==
    \/ \E m \in Envelope : Send(s, m)
    \/ EarlyDedup(s) \/ EarlyBlock(s) \/ Limits(s) \/ Token(s)
    \/ Inbound(s) \/ Claim(s) \/ Tag(s)
    \/ DedupCheck(s) \/ BlockCheck(s) \/ WriteBox(s) \/ Mark(s)
    \/ Unmark(s) \/ Release(s)
    \/ Answer(s) \/ Stop(s)

Block == BlockUser \/ PurgeScan \/ PurgeDelete \/ UnblockUser

DispatchNext == (\E s \in Slot : Request(s)) \/ Block

DispatchSpec == DispatchInit /\ [][DispatchNext]_dispatchVars

----------------------------------------------------------------------------
(* Properties. *)

Stages == {"early", "early_block", "limits", "token", "inbound", "claim", "tag", "dedup",
           "block", "write", "mark", "unmark", "release", "ok", "err", "refused"}

Copies == [m : Envelope, late : BOOLEAN, missed : BOOLEAN]

\* The shape of every variable.
DispatchTypeOK ==
    /\ kind \in [Envelope -> Kinds]
    /\ req \in [Slot -> {Idle} \cup [stage : Stages, m : Envelope, late : BOOLEAN]]
    /\ sender \in [Envelope -> {"trying", "acked", "refused"}]
    /\ dedup \in SUBSET Envelope /\ tagged \in SUBSET Envelope /\ claimed \in SUBSET Envelope
    /\ mailbox \in SUBSET Copies
    /\ writes \in [Envelope -> 0..2]
    /\ dropped \in SUBSET Envelope
    /\ blocked \in BOOLEAN
    /\ purge \in [stage : {"off", "scan", "done"}] \cup [stage : {"delete"}, found : SUBSET Copies]
    /\ hit \in [Envelope -> SUBSET FaultKinds]

Accounted(m) == writes[m] > 0 \/ m \in dropped

\* What it takes to lose an acknowledged envelope: nothing does for a dedup key,
\* set after the write; a guard set before it may outlive a failed attempt.
LossCauses(m) ==
    CASE kind[m] = "regular" -> {}
      [] kind[m] = "sealed"  -> {"undo", "crash", "overlap"}
      [] Federated(m)        -> {"undo", "crash", "overlap", "check"}

\* An Ok means the envelope was written to the mailbox, or dropped by a block,
\* unless it met one of the faults its guard is exposed to: no other retry is
\* answered by a guard whose write never happened.
AnsweredIsWritten ==
    \A m \in Envelope : sender[m] = "acked" => Accounted(m) \/ hit[m] \cap LossCauses(m) # {}

\* What it takes to write an envelope twice.
RepeatCauses(m) ==
    CASE kind[m] = "regular" -> {"overlap", "crash", "reply", "mark", "check"}
      [] kind[m] = "sealed"  -> {"reply", "check"}
      [] Federated(m)        -> {"reply"}

\* However often a sender repeats an envelope, it is written once, unless it met
\* one of the faults its guard is exposed to.
WrittenOnce ==
    \A m \in Envelope : writes[m] <= 1 \/ hit[m] \cap RepeatCauses(m) # {}

\* A block holds: when its purge is done, what is left of the sender was in
\* flight across the block - its request had begun before, and its copy landed
\* after the purge had looked - or got past a failed block lookup.
BlockHolds ==
    purge.stage = "done" /\ blocked =>
        \A c \in mailbox : Sealed(c.m) \/ (~c.late /\ c.missed) \/ "db" \in hit[c.m]

\* Redis commands that fail lose no sealed envelope silently: if nothing else
\* went wrong, an Ok means the envelope was written.
OutageLosesNothing ==
    \A m \in Envelope :
        kind[m] = "sealed" /\ sender[m] = "acked"
            /\ hit[m] \cap {"crash", "overlap"} = {} => Accounted(m)

=============================================================================
