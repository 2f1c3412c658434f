------------------------------ MODULE Contacts ------------------------------
(***************************************************************************)
(* identity-service: contact requests, invites, blocks and the deletion of *)
(* an account.                                                             *)
(*                                                                         *)
(* The calls of a plan run at the same time, each in steps of one database *)
(* access or transaction; the process may die between two of them.  A      *)
(* request row is named after the call that inserted it.  Each account has *)
(* minted one invite, whose jti is the account's name here.  Tokens of a   *)
(* deleted account are refused by the revocation layer, so none of its     *)
(* calls begins; those in progress go on.  Names, signatures' bytes and    *)
(* the pushes, which change nothing here, are left out.                    *)
(***************************************************************************)
EXTENDS Integers, Sequences, FiniteSets

CONSTANTS
    ContactUser,   \* accounts
    ContactPlan,   \* bound: sequences of calls, [kind, by, peer]
    DailyMax,      \* new requests of an account in a day (MAX_REQUESTS_PER_DAY)
    NoRow          \* no request row

VARIABLES
    plan,       \* the calls of this behaviour
    account,    \* account[u]: whether it exists, and is searchable
    request,    \* contact_requests: request[<<u, v>>], the row from u to v
    link,       \* contact_links: pairs <<user, peer>>
    block,      \* user_blocks: pairs <<blocker, blocked>>
    burnedInvites,     \* used_invites: the creators whose invite is spent
    expired,    \* the invites minted are past their ttl
    quota,      \* rate:contact_request:<u>:day
    ccall,      \* ccall[i]: the progress of call i of the plan
    spent,      \* history: the calls that redeemed or revoked an invite
    declined,   \* history: pairs whose request was declined, until an unblock
    revived,    \* history: requests made after their pair was declined
    wasted,     \* history: charged sends that made no row, and why
    cut,        \* history: calls that died with their process
    deleting    \* history: accounts deleted while a call that names them was in progress

contactRows == <<account, request, link, block, burnedInvites>>
contactHistory == <<spent, declined, revived, wasted, cut, deleting>>
contactVars == <<plan, contactRows, expired, quota, ccall, contactHistory>>

ContactPair == ContactUser \X ContactUser
Mine(i) == plan[i].by
Peer(i) == plan[i].peer
SendPair(i) == <<Mine(i), Peer(i)>>   \* of a send
ReplyPair(i) == <<Peer(i), Mine(i)>>  \* of the answer to one

Goes(i, at) == ccall' = [ccall EXCEPT ![i].at = at]
Ends(i) == Goes(i, "done")
Running(i) == ccall[i].at \notin {"new", "done"}
Begins(i, kind) == ccall[i].at = "new" /\ plan[i].kind = kind /\ account[Mine(i)].here
At(i, at) == ccall[i].at = at

----------------------------------------------------------------------------
(* send_contact_request                                                    *)

\* is_user_searchable
Searchable(u) == account[u].here /\ account[u].searchable

\* The sends of the same pair in progress.
Rivals(i) == {j \in DOMAIN plan : Running(j) /\ plan[j] = plan[i]}

\* The cheap guards: the peer is another account and is_user_searchable.
SendFinds(i) ==
    /\ Begins(i, "send") /\ Mine(i) # Peer(i)
    /\ ccall' = [j \in DOMAIN plan |->
           CASE j = i -> [ccall[i] EXCEPT !.raced = Rivals(i) # {},
                    !.at = IF Searchable(Peer(i)) THEN "blocked?" ELSE "done"]
             [] j \in Rivals(i) -> [ccall[j] EXCEPT !.raced = TRUE]
             [] OTHER -> ccall[j]]
    /\ UNCHANGED <<plan, contactRows, expired, quota, contactHistory>>

\* is_blocked_by, noting that the read precedes any decline still to come.
SendReadsBlock(i) ==
    /\ At(i, "blocked?")
    /\ IF <<Peer(i), Mine(i)>> \in block THEN Ends(i)
       ELSE ccall' = [ccall EXCEPT ![i].at = "pending?", ![i].cleared = SendPair(i) \notin declined]
    /\ UNCHANGED <<plan, contactRows, expired, quota, contactHistory>>

\* get_pending_contact_request_id: a request still pending is the answer.
SendReadsPending(i) ==
    /\ At(i, "pending?")
    /\ IF request[SendPair(i)] # NoRow /\ request[SendPair(i)].status = "pending"
       THEN Ends(i) ELSE Goes(i, "count")
    /\ UNCHANGED <<plan, contactRows, expired, quota, contactHistory>>

SendCounts(i) ==
    /\ At(i, "count")
    /\ quota' = [quota EXCEPT ![Mine(i)] = @ + 1]
    /\ IF quota[Mine(i)] + 1 > DailyMax THEN Ends(i) ELSE Goes(i, "identity")
    /\ UNCHANGED <<plan, contactRows, expired, contactHistory>>

\* The name a request shows is checked against the sender's row; a sender whose
\* row is gone is refused, unless it shows no name.
SendChecksIdentity(i) ==
    /\ At(i, "identity")
    /\ IF account[Mine(i)].here THEN Goes(i, "insert")
       ELSE Goes(i, "insert") \/ Ends(i)
    /\ UNCHANGED <<plan, contactRows, expired, quota, contactHistory>>

\* INSERT ... ON CONFLICT (from_hmac, to_hmac) DO NOTHING.
SendInserts(i) ==
    LET p == SendPair(i) IN
    /\ At(i, "insert")
    /\ IF request[p] = NoRow
       THEN /\ request' = [request EXCEPT ![p] =
                   [id |-> i, status |-> "pending", sealed |-> TRUE, old |-> FALSE]]
            /\ revived' = IF p \in declined /\ ~ccall[i].cleared THEN revived \cup {i} ELSE revived
            /\ Ends(i)
       ELSE Goes(i, "reread") /\ UNCHANGED <<request, revived>>
    /\ UNCHANGED <<plan, account, link, block, burnedInvites, expired, quota, spent, declined, wasted, cut, deleting>>

\* The row in the way: pending is the answer, accepted an error, gone an error.
SendRereads(i) ==
    LET row == request[SendPair(i)] IN
    /\ At(i, "reread")
    /\ wasted' = wasted \cup {[call |-> i, why |-> IF row = NoRow THEN "gone" ELSE row.status,
                               raced |-> ccall[i].raced]}
    /\ Ends(i)
    /\ UNCHANGED <<plan, contactRows, expired, quota, spent, declined, revived, cut, deleting>>

----------------------------------------------------------------------------
(* get_contact_requests and respond_to_contact_request                     *)

\* get_pending_contact_requests: the inbox shows a row whose sender it can decrypt.
InInbox(p) == request[p] # NoRow /\ request[p].status = "pending" /\ request[p].sealed

\* get_sent_contact_requests, of an answered request.
SentAccepted(p) == request[p] # NoRow /\ request[p].status = "accepted"

\* The recipient finds the request in its inbox and answers it by its id.
ReplyLists(i) ==
    /\ Begins(i, "accept") \/ Begins(i, "decline")
    /\ InInbox(ReplyPair(i))
    /\ ccall' = [ccall EXCEPT ![i].at = "sender?", ![i].row = request[ReplyPair(i)].id]
    /\ UNCHANGED <<plan, contactRows, expired, quota, contactHistory>>

Named(i) == request[ReplyPair(i)] # NoRow /\ request[ReplyPair(i)].id = ccall[i].row

\* get_contact_request_sender: the row of that id, unless its sender is scrubbed.
ReplyReadsSender(i) ==
    /\ At(i, "sender?")
    /\ IF Named(i) /\ request[ReplyPair(i)].sealed
       THEN Goes(i, IF plan[i].kind = "accept" THEN "accept" ELSE "block") ELSE Ends(i)
    /\ UNCHANGED <<plan, contactRows, expired, quota, contactHistory>>

Both(p) == {p, <<p[2], p[1]>>}

\* accept_contact_request: the row is scrubbed and both edges are written, in one
\* transaction.
AcceptRow(i) ==
    /\ At(i, "accept")
    /\ IF Named(i) /\ request[ReplyPair(i)].status = "pending"
       THEN /\ request' = [request EXCEPT ![ReplyPair(i)] =
                   [@ EXCEPT !.status = "accepted", !.sealed = FALSE, !.old = FALSE]]
            /\ link' = link \cup Both(ReplyPair(i))
       ELSE UNCHANGED <<request, link>>
    /\ Ends(i)
    /\ UNCHANGED <<plan, account, block, burnedInvites, expired, quota, contactHistory>>

\* block_user: user_blocks refers to both accounts.
BlockRow(i) ==
    IF account[Mine(i)].here /\ account[Peer(i)].here
    THEN block' = block \cup {SendPair(i)} ELSE UNCHANGED block

\* Mutant: the row is deleted with no block to hold the sender.
DeclineBlocksNobody(i) ==
    /\ At(i, "block")
    /\ Goes(i, "delete")
    /\ UNCHANGED <<plan, contactRows, expired, quota, contactHistory>>

\* A decline blocks the sender first ...
DeclineBlocks(i) ==
    /\ At(i, "block")
    /\ BlockRow(i)
    /\ IF account[Mine(i)].here /\ account[Peer(i)].here THEN Goes(i, "delete") ELSE Ends(i)
    /\ UNCHANGED <<plan, account, request, link, burnedInvites, expired, quota, contactHistory>>

\* ... and then deletes the row, if that row is still pending.
DeclineDeletes(i) ==
    /\ At(i, "delete")
    /\ IF Named(i) /\ request[ReplyPair(i)].status = "pending"
       THEN /\ request' = [request EXCEPT ![ReplyPair(i)] = NoRow]
            /\ declined' = IF ccall[i].raced THEN declined ELSE declined \cup {ReplyPair(i)}
       ELSE UNCHANGED <<request, declined>>
    /\ Ends(i)
    /\ UNCHANGED <<plan, account, link, block, burnedInvites, expired, quota, spent, revived, wasted, cut, deleting>>

\* delete_acknowledged_contact_requests: the caller's own requests it read as accepted.
Acknowledge(i) ==
    /\ Begins(i, "ack") /\ SentAccepted(SendPair(i))
    /\ request' = [request EXCEPT ![SendPair(i)] = NoRow]
    /\ Ends(i)
    /\ UNCHANGED <<plan, account, link, block, burnedInvites, expired, quota, contactHistory>>

\* delete_stale_contact_requests, hourly.
SweepRequests ==
    /\ \E p \in ContactPair : request[p] # NoRow /\ request[p].old
    /\ request' = [p \in ContactPair |->
           IF request[p] # NoRow /\ request[p].old THEN NoRow ELSE request[p]]
    /\ UNCHANGED <<plan, account, link, block, burnedInvites, expired, quota, ccall, contactHistory>>

----------------------------------------------------------------------------
(* accept_invite and revoke_invite                                         *)

\* validate_with_expiry
InviteLive == ~expired

\* verify_invite_signature: an active device of its creator signed it, and deletion
\* retires them all.
InviteSigned(u) == account[u].here

\* The checks of accept_invite that change nothing.
RedeemChecks(i) ==
    /\ Begins(i, "redeem")
    /\ IF InviteLive /\ InviteSigned(Peer(i)) THEN Goes(i, "burn") ELSE Ends(i)
    /\ UNCHANGED <<plan, contactRows, expired, quota, contactHistory>>

\* burn_used_invite: INSERT ... ON CONFLICT (jti) DO NOTHING; the row refers to
\* the creator's, which must exist.
Burns(u) == account[u].here /\ u \notin burnedInvites

RedeemBurns(i) ==
    /\ At(i, "burn")
    /\ IF Burns(Peer(i))
       THEN /\ burnedInvites' = burnedInvites \cup {Peer(i)}
            /\ spent' = spent \cup {i}
            /\ Goes(i, "link")
       ELSE Ends(i) /\ UNCHANGED <<burnedInvites, spent>>
    /\ UNCHANGED <<plan, account, request, link, block, expired, quota, declined, revived, wasted, cut, deleting>>

\* add_contact_link, accepter to creator and then creator to accepter.
RedeemLinks(i) ==
    /\ At(i, "link")
    /\ link' = link \cup {SendPair(i)}
    /\ Goes(i, "link back")
    /\ UNCHANGED <<plan, account, request, block, burnedInvites, expired, quota, contactHistory>>

RedeemLinksBack(i) ==
    /\ At(i, "link back")
    /\ link' = link \cup {ReplyPair(i)}
    /\ Ends(i)
    /\ UNCHANGED <<plan, account, request, block, burnedInvites, expired, quota, contactHistory>>

\* revoke_invite, by the account that minted it.
RevokeInvite(i) ==
    /\ Begins(i, "revoke")
    /\ IF Burns(Mine(i))
       THEN burnedInvites' = burnedInvites \cup {Mine(i)} /\ spent' = spent \cup {i}
       ELSE UNCHANGED <<burnedInvites, spent>>
    /\ Ends(i)
    /\ UNCHANGED <<plan, account, request, link, block, expired, quota, declined, revived, wasted, cut, deleting>>

----------------------------------------------------------------------------
(* Blocks, discoverability, the account.                                   *)

BlockUser(i) ==
    /\ Begins(i, "block")
    /\ BlockRow(i)
    /\ Ends(i)
    /\ UNCHANGED <<plan, account, request, link, burnedInvites, expired, quota, contactHistory>>

UnblockUser(i) ==
    /\ Begins(i, "unblock")
    /\ block' = block \ {SendPair(i)}
    /\ declined' = declined \ {ReplyPair(i)}
    /\ ccall' = [j \in DOMAIN plan |->
           CASE j = i -> [ccall[i] EXCEPT !.at = "done"]
             [] At(j, "delete") /\ SendPair(j) = SendPair(i) -> [ccall[j] EXCEPT !.raced = TRUE]
             [] OTHER -> ccall[j]]
    /\ UNCHANGED <<plan, account, request, link, burnedInvites, expired, quota, spent, revived, wasted, cut, deleting>>

\* set_discoverable
SetDiscoverable(i) ==
    /\ Begins(i, "hide") \/ Begins(i, "show")
    /\ account' = [account EXCEPT ![Mine(i)].searchable = plan[i].kind = "show"]
    /\ Ends(i)
    /\ UNCHANGED <<plan, request, link, block, burnedInvites, expired, quota, contactHistory>>

Names(i, u) == u \in {Mine(i), Peer(i)}
Without(S, u) == {p \in S : u \notin {p[1], p[2]}}

\* Mutant: the requests others sent to the account stay.
WithoutOwn(u) ==
    /\ account' = [account EXCEPT ![u] = [here |-> FALSE, searchable |-> FALSE]]
    /\ request' = [p \in ContactPair |-> IF u = p[1] THEN NoRow ELSE request[p]]
    /\ link' = Without(link, u)
    /\ block' = Without(block, u)
    /\ burnedInvites' = burnedInvites \ {u}

\* delete_user_account: one transaction; blocks and spent invites go with the row.
WithoutAccount(u) ==
    /\ account' = [account EXCEPT ![u] = [here |-> FALSE, searchable |-> FALSE]]
    /\ request' = [p \in ContactPair |-> IF u \in {p[1], p[2]} THEN NoRow ELSE request[p]]
    /\ link' = Without(link, u)
    /\ block' = Without(block, u)
    /\ burnedInvites' = burnedInvites \ {u}

DeleteAccount(i) ==
    LET u == Mine(i) IN
    /\ Begins(i, "delete me")
    /\ WithoutAccount(u)
    /\ declined' = Without(declined, u)
    /\ deleting' = IF \E j \in DOMAIN plan : Running(j) /\ Names(j, u) THEN deleting \cup {u} ELSE deleting
    /\ Ends(i)
    /\ UNCHANGED <<plan, expired, quota, spent, revived, wasted, cut>>

----------------------------------------------------------------------------

\* A month: requests go stale, invites expire, the day's counters are gone.
MonthPasses(i) ==
    /\ ccall[i].at = "new" /\ plan[i].kind = "month"
    /\ \A j \in DOMAIN plan : ~Running(j)
    /\ request' = [p \in ContactPair |->
           IF request[p] = NoRow THEN NoRow ELSE [request[p] EXCEPT !.old = TRUE]]
    /\ expired' = TRUE
    /\ quota' = [u \in ContactUser |-> 0]
    /\ wasted' = {}
    /\ Ends(i)
    /\ UNCHANGED <<plan, account, link, block, burnedInvites, spent, declined, revived, cut, deleting>>

\* The process dies: the call answers nothing and leaves what it wrote.
Dies(i) ==
    /\ Running(i)
    /\ cut' = cut \cup {i}
    /\ Ends(i)
    /\ UNCHANGED <<plan, contactRows, expired, quota, spent, declined, revived, wasted, deleting>>

ContactsInit ==
    /\ plan \in ContactPlan
    /\ account = [u \in ContactUser |-> [here |-> TRUE, searchable |-> TRUE]]
    /\ request = [p \in ContactPair |-> NoRow]
    /\ link = {} /\ block = {} /\ burnedInvites = {} /\ expired = FALSE
    /\ quota = [u \in ContactUser |-> 0]
    /\ ccall = [i \in DOMAIN plan |-> [at |-> "new", row |-> 0, cleared |-> FALSE, raced |-> FALSE]]
    /\ spent = {} /\ declined = {} /\ revived = {} /\ wasted = {} /\ cut = {} /\ deleting = {}

SendStep(i) ==
    \/ SendFinds(i) \/ SendReadsBlock(i) \/ SendReadsPending(i) \/ SendCounts(i)
    \/ SendChecksIdentity(i) \/ SendInserts(i) \/ SendRereads(i)

ReplyStep(i) ==
    \/ ReplyLists(i) \/ ReplyReadsSender(i) \/ AcceptRow(i) \/ DeclineBlocks(i)
    \/ DeclineDeletes(i) \/ Acknowledge(i)

InviteStep(i) ==
    RedeemChecks(i) \/ RedeemBurns(i) \/ RedeemLinks(i) \/ RedeemLinksBack(i) \/ RevokeInvite(i)

AccountStep(i) ==
    BlockUser(i) \/ UnblockUser(i) \/ SetDiscoverable(i) \/ DeleteAccount(i) \/ MonthPasses(i) \/ Dies(i)

ContactsNext ==
    \/ \E i \in DOMAIN plan : SendStep(i) \/ ReplyStep(i) \/ InviteStep(i) \/ AccountStep(i)
    \/ SweepRequests

ContactsSpec == ContactsInit /\ [][ContactsNext]_contactVars

----------------------------------------------------------------------------
(* Properties                                                              *)

\* The rows have their shape: a row names its sender, under encryption, exactly
\* while it is pending, and the day's counter passes its limit only by refused sends.
ContactsTypeOK ==
    /\ link \subseteq ContactPair /\ block \subseteq ContactPair /\ burnedInvites \subseteq ContactUser
    /\ \A p \in ContactPair : request[p] # NoRow =>
           /\ request[p].id \in DOMAIN plan
           /\ request[p].status \in {"pending", "accepted"}
           /\ request[p].sealed <=> request[p].status = "pending"
    /\ \A u \in ContactUser : quota[u] \in 0 .. Len(plan)

\* accept_contact_request: "there is no state with an accepted request and no
\* edges", whatever runs beside it: another answer, a sweep, a deletion.
AcceptedIsLinked ==
    \A p \in ContactPair :
        request[p] # NoRow /\ request[p].status = "accepted" => Both(p) \subseteq link

\* A contact is mutual, except where accept_invite, whose two inserts are no
\* transaction, is between them, died between them, or met a deletion there.
LinksPaired ==
    \A p \in link : <<p[2], p[1]>> \in link
        \/ \E i \in DOMAIN plan : plan[i].kind = "redeem" /\ SendPair(i) \in Both(p)
               /\ (At(i, "link back") \/ i \in cut \/ {p[1], p[2]} \cap deleting # {})

InviteOf(i) == IF plan[i].kind = "redeem" THEN Peer(i) ELSE Mine(i)

\* An invite is spent once: of the redemptions and revocations of one jti, at the
\* same time or after each other, one is told that it succeeded.
InviteSpentOnce ==
    \A i, j \in spent : InviteOf(i) = InviteOf(j) => i = j

\* A decline holds: once its row is deleted, and until the sender is unblocked, no
\* send that looked for a block after that makes a new request ("the block, not the
\* request row, is what stops a repeat request, so it is written first").
DeclineHolds == revived = {}

\* A retried send costs nothing of the day's five: a charged send that found a
\* pending request in its way overlapped another send to the same account.
RetriesAreFree == \A w \in wasted : w.why = "pending" => w.raced

\* A deleted account leaves no request and no link that names it, unless a call
\* that names it was in progress when it was deleted.
DeletedLeavesNothing ==
    \A u \in ContactUser : ~account[u].here /\ u \notin deleting =>
        /\ \A p \in ContactPair : u \in {p[1], p[2]} => request[p] = NoRow
        /\ Without(link, u) = link

\* The contacts are mutual and between accounts that exist: whatever accepts,
\* redeems and deletes at the same time, nobody has a contact who does not have them.
ContactsMutual == AcceptedIsLinked /\ LinksPaired /\ DeletedLeavesNothing

\* An answer stands: a declined sender stays declined, an invite answers once, and
\* a send that is repeated is answered without being charged.
AnswersStand == DeclineHolds /\ InviteSpentOnce /\ RetriesAreFree

=============================================================================
