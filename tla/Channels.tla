------------------------------ MODULE Channels ------------------------------
(***************************************************************************)
(* group-service: broadcast channels, their subscribers, admins, posts,    *)
(* invite links and comment groups.                                        *)
(*                                                                         *)
(* The calls of a plan run at the same time, each in steps of one database *)
(* access or transaction; a call may fail between two of them.  Channels,  *)
(* posts, invite links and groups are named after the call that made them, *)
(* and a call that names one begins once that call has returned.  Tokens,  *)
(* ids that do not parse and the bodies of metadata and posts are left     *)
(* out.  sent_at is a post's place in its channel.                         *)
(***************************************************************************)
EXTENDS Integers, Sequences, FiniteSets

CONSTANTS
    ChanDevice,   \* devices, each of its own account
    ChanPlan,     \* bound: sequences of calls, [kind, by, chan, ref, arg]
    Young,        \* devices whose account is in its warm-up
    WarmMax,      \* calls of one kind per window in the warm-up, ...
    GrownMax,     \* ... and after it (check_warmup_rate_limit)
    CapMax,       \* greatest max_subscribers (100000)
    DaysMax,      \* greatest retention_days (90), ...
    DaysDefault,  \* ... and the one taken for 0 (30)
    PageDefault,  \* the page taken for limit 0 (50)
    MaxBroken,    \* bound: calls that fail half-way
    NoChan        \* no row

VARIABLES
    chanPlan,    \* the calls of this behaviour
    channel,     \* channels
    subscriber,  \* channel_subscribers: [chan, dev, owner]; the owner's role is ADMIN
    chanAdmin,   \* channel_admins: <<channel, device>>
    post,        \* channel_posts
    chanLink,    \* channel_invite_links
    comments,    \* channel_post_comment_groups: comments[p], the group of post p
    senderKey,   \* channel_sender_keys not rotated: <<channel, device>>
    chanRate,    \* rl:channel:<action>:<user>
    rowLock,     \* the call that holds a channel's row FOR UPDATE, or 0
    today,       \* the day
    chanCall,    \* the progress of each call
    broken,      \* history: calls that failed half-way
    entered,     \* history: admissions by an invite, [call, link, good]
    lateAct,     \* history: calls begun after the deletion that published or entered
    missed       \* history: posts and channels a finished listing left out

chanTables == <<channel, subscriber, chanAdmin, post, chanLink, comments, senderKey>>
chanHistory == <<broken, entered, lateAct, missed>>
chanVars == <<chanPlan, chanTables, chanRate, rowLock, today, chanCall, chanHistory>>

Calling == DOMAIN chanPlan
By(i) == chanPlan[i].by
Of(i) == chanPlan[i].chan
Ref(i) == chanPlan[i].ref
Arg(i) == chanPlan[i].arg

\* A call's record: its place, whether it succeeded, whether its channel was
\* deleted before it began or another first comment overlapped it, what it read,
\* and for a listing what there was to list when it began, and how far it came.
Unborn == [at |-> "new", ok |-> FALSE, late |-> FALSE, raced |-> FALSE,
           got |-> 0, cursor |-> 0, held |-> {}, seen |-> {}]
ChanTo(i, at) == chanCall' = [chanCall EXCEPT ![i].at = at]
ChanDone(i, ok) == chanCall' = [chanCall EXCEPT ![i].at = "done", ![i].ok = ok]
ChanAt(i, at) == chanCall[i].at = at
ChanRunning(i) == chanCall[i].at \notin {"new", "done"}
ChanReturned(j) == chanCall[j].at = "done" /\ chanCall[j].ok

Gone(c) == c # 0 /\ channel[c] # NoChan /\ channel[c].deleted
\* A call begun on a channel already deleted publishes to it or enters it.
NotesLate(i) == lateAct' = IF chanCall[i].late THEN lateAct \cup {i} ELSE lateAct

----------------------------------------------------------------------------
(* Reads                                                                   *)

\* get_channel_by_id
OpenChan(c) == channel[c] # NoChan /\ ~channel[c].deleted

\* is_channel_subscriber, is_channel_owner, is_channel_admin
IsSubscriber(c, d) == \E s \in subscriber : s.chan = c /\ s.dev = d
IsOwner(c, d) == \E s \in subscriber : s.chan = c /\ s.dev = d /\ s.owner
IsAdmin(c, d) == <<c, d>> \in chanAdmin \/ IsOwner(c, d)

\* check_channel_owner and its kin: the call goes on or is refused.
OwnerOnly(i, at) == IF IsOwner(Of(i), By(i)) THEN ChanTo(i, at) ELSE ChanDone(i, FALSE)
AdminOnly(i, at) == IF IsAdmin(Of(i), By(i)) THEN ChanTo(i, at) ELSE ChanDone(i, FALSE)
SubscriberOnly(i, d, at) == IF IsSubscriber(Of(i), d) THEN ChanTo(i, at) ELSE ChanDone(i, FALSE)
ReaderOnly(i, at) ==
    IF IsSubscriber(Of(i), By(i)) \/ IsAdmin(Of(i), By(i)) THEN ChanTo(i, at) ELSE ChanDone(i, FALSE)

\* list_subscriptions: the device's channels after the cursor, in the order of their ids.
Listed(d, after) == {s.chan : s \in {t \in subscriber : t.dev = d /\ t.chan > after /\ OpenChan(t.chan)}}

\* get_subscriber_count and list_admins answer these.
SubscriberCount(c) == IF OpenChan(c) THEN channel[c].count ELSE 0
Admins(c) == {d \in ChanDevice : IsAdmin(c, d)}

ChanRows(c) == Cardinality({s \in subscriber : s.chan = c})
PostVisible(p) == ~p.deleted /\ p.expires > today

\* check_warmup_rate_limit, for the kinds that have one.
Limited == {"create", "subscribe", "publish", "link"}
ChanAllowance(d) == IF d \in Young THEN WarmMax ELSE GrownMax
Charges(i, k) ==
    IF k \in Limited
    THEN chanRate[By(i)][k] < ChanAllowance(By(i)) /\ chanRate' = [chanRate EXCEPT ![By(i)][k] = @ + 1]
    ELSE UNCHANGED chanRate

\* A call arrives: the client has every id it names.
ChanArrives(i) ==
    LET k == chanPlan[i].kind
        known == \A j \in {Of(i), Ref(i)} \ {0} : ChanReturned(j)
        over == k \in Limited /\ chanRate[By(i)][k] >= ChanAllowance(By(i))
    IN
    /\ ChanAt(i, "new") /\ known
    /\ IF over THEN ChanDone(i, FALSE) /\ UNCHANGED chanRate
       ELSE /\ Charges(i, k)
            /\ chanCall' = [chanCall EXCEPT ![i].at = k, ![i].late = Gone(Of(i)),
                                ![i].held = IF k = "mine" THEN Listed(By(i), 0) ELSE {}]
    /\ UNCHANGED <<chanPlan, chanTables, rowLock, today, chanHistory>>

----------------------------------------------------------------------------
(* create_channel: the row, the owner's row, the count, the admin          *)

Valid(a) == a.cap <= CapMax /\ a.days <= DaysMax
CreateInserts(i) ==
    /\ ChanAt(i, "create")
    /\ IF Valid(Arg(i))
       THEN /\ channel' = [channel EXCEPT ![i] = [owner |-> By(i), private |-> Arg(i).private,
                   cap |-> Arg(i).cap, days |-> IF Arg(i).days = 0 THEN DaysDefault ELSE Arg(i).days,
                   meta |-> i, count |-> 0, last |-> 0, deleted |-> FALSE]]
            /\ ChanTo(i, "own")
       ELSE ChanDone(i, FALSE) /\ UNCHANGED channel
    /\ UNCHANGED <<chanPlan, subscriber, chanAdmin, post, chanLink, comments, senderKey, chanRate,
                   rowLock, today, chanHistory>>

\* subscribe_to_channel inserts the owner's row ...
CreateOwns(i) ==
    /\ ChanAt(i, "own")
    /\ subscriber' = subscriber \cup {[chan |-> i, dev |-> By(i), owner |-> TRUE]}
    /\ ChanTo(i, "count")
    /\ UNCHANGED <<chanPlan, channel, chanAdmin, post, chanLink, comments, senderKey, chanRate,
                   rowLock, today, chanHistory>>

\* ... and then counts it.
CreateCounts(i) ==
    /\ ChanAt(i, "count")
    /\ channel' = [channel EXCEPT ![i].count = @ + 1]
    /\ ChanTo(i, "admin")
    /\ UNCHANGED <<chanPlan, subscriber, chanAdmin, post, chanLink, comments, senderKey, chanRate,
                   rowLock, today, chanHistory>>

\* add_channel_admin, whose failure is ignored.
CreateAdmins(i) ==
    /\ ChanAt(i, "admin")
    /\ chanAdmin' \in {chanAdmin, chanAdmin \cup {<<i, By(i)>>}}
    /\ ChanDone(i, TRUE)
    /\ UNCHANGED <<chanPlan, channel, subscriber, post, chanLink, comments, senderKey, chanRate,
                   rowLock, today, chanHistory>>

----------------------------------------------------------------------------
(* subscribe_channel_atomic: one transaction under the channel's row lock  *)

\* The checks of admit_channel_subscription on the link as it reads.
LinkLives(t) == ~t.revoked /\ (t.ends = 0 \/ t.ends > today) /\ (t.max = 0 \/ t.used < t.max)
\* resolve_invite_link's answer to someone who holds the link.
Resolves(t) == chanLink[t] # NoChan /\ LinkLives(chanLink[t])
LinkAdmits(i) == Ref(i) # 0 /\ chanLink[Ref(i)].chan = Of(i) /\ LinkLives(chanLink[Ref(i)])
Room(c) == channel[c].cap = 0 \/ ChanRows(c) < channel[c].cap

\* The channel is locked and read; a subscriber already there is answered at once.
SubscribeLocks(i) ==
    LET c == Of(i) IN
    /\ ChanAt(i, "subscribe") /\ rowLock[c] = 0
    /\ IF OpenChan(c) /\ IsSubscriber(c, By(i)) THEN ChanTo(i, "key") /\ UNCHANGED rowLock
       ELSE IF OpenChan(c) /\ (channel[c].private => LinkAdmits(i)) /\ Room(c)
       THEN ChanTo(i, "admit") /\ rowLock' = [rowLock EXCEPT ![c] = i]
       ELSE ChanDone(i, FALSE) /\ UNCHANGED rowLock
    /\ UNCHANGED <<chanPlan, chanTables, chanRate, today, chanHistory>>

\* Mutant: the use is counted on whatever link was read.
LinkStillTakes(t) == TRUE

\* increment_channel_invite_link_usage asks again: a link is not locked with the channel.
LinkTakes(t) == LinkLives(chanLink[t])

\* UPDATE channels SET subscriber_count to the number of subscriber rows.
Recount(c, n) == n

SubscribeAdmits(i) ==
    LET c == Of(i)
        t == Ref(i)
        private == channel[c].private
        refused == private /\ ~LinkTakes(t)
    IN
    /\ ChanAt(i, "admit")
    /\ rowLock' = [rowLock EXCEPT ![c] = 0]
    /\ IF refused THEN ChanDone(i, FALSE) /\ UNCHANGED <<channel, subscriber, chanLink, entered, lateAct>>
       ELSE /\ chanLink' = IF private THEN [chanLink EXCEPT ![t].used = @ + 1] ELSE chanLink
            /\ entered' = IF private
                          THEN entered \cup {[call |-> i, link |-> t, good |-> Resolves(t)]}
                          ELSE entered
            /\ subscriber' = subscriber \cup {[chan |-> c, dev |-> By(i), owner |-> FALSE]}
            /\ channel' = [channel EXCEPT ![c].count = Recount(c, ChanRows(c) + 1)]
            /\ NotesLate(i)
            /\ ChanTo(i, "key")
    /\ UNCHANGED <<chanPlan, chanAdmin, post, comments, senderKey, chanRate, today, broken, missed>>

\* get_channel_sender_key: the key not rotated, or none; a failed read is none.
SubscribeAnswers(i) ==
    /\ ChanAt(i, "key")
    /\ chanCall' = [chanCall EXCEPT ![i].at = "done", ![i].ok = TRUE,
                        ![i].got = IF <<Of(i), By(i)>> \in senderKey THEN 1 ELSE 0]
    /\ UNCHANGED <<chanPlan, chanTables, chanRate, rowLock, today, chanHistory>>

\* DELETE FROM channel_subscribers ... AND is_owner = FALSE
Leaver(s, c, d) == s.chan = c /\ s.dev = d /\ ~s.owner

\* unsubscribe_from_channel, a transaction under the same lock.
UnsubscribeRemoves(i) ==
    LET c == Of(i)
        leaving == {s \in subscriber : Leaver(s, c, By(i))}
    IN
    /\ ChanAt(i, "unsubscribe") /\ rowLock[c] = 0
    /\ IF leaving = {} THEN ChanDone(i, FALSE) /\ UNCHANGED <<subscriber, channel>>
       ELSE /\ subscriber' = subscriber \ leaving
            /\ channel' = [channel EXCEPT ![c].count = IF @ = 0 THEN 0 ELSE @ - 1]
            /\ IF Arg(i).rotate THEN ChanTo(i, "rotate") ELSE ChanDone(i, TRUE)
    /\ UNCHANGED <<chanPlan, chanAdmin, post, chanLink, comments, senderKey, chanRate, rowLock,
                   today, chanHistory>>

\* rotate_channel_sender_key, whose failure is ignored.
UnsubscribeRotates(i) ==
    /\ ChanAt(i, "rotate")
    /\ senderKey' \in {senderKey, senderKey \ {<<Of(i), By(i)>>}}
    /\ ChanDone(i, TRUE)
    /\ UNCHANGED <<chanPlan, channel, subscriber, chanAdmin, post, chanLink, comments, chanRate,
                   rowLock, today, chanHistory>>

\* LIMIT n of rows in the order of their numbers.
FirstOf(S, n) == {x \in S : Cardinality({y \in S : y < x}) < n}
PageSize(n) == IF n = 0 THEN PageDefault ELSE n

\* The client asks again after the last id it got, until a page is empty.
ListSubscriptions(i) ==
    LET page == FirstOf(Listed(By(i), chanCall[i].cursor), PageSize(Arg(i).limit))
        last == CHOOSE c \in page : \A e \in page : e <= c
        seen == chanCall[i].seen \cup page
    IN
    /\ ChanAt(i, "mine")
    /\ IF page = {} THEN ChanDone(i, TRUE) /\ missed' = missed \cup ((chanCall[i].held \cap Listed(By(i), 0)) \ seen)
       ELSE /\ chanCall' = [chanCall EXCEPT ![i].cursor = last, ![i].seen = seen]
            /\ UNCHANGED missed
    /\ UNCHANGED <<chanPlan, chanTables, chanRate, rowLock, today, broken, entered, lateAct>>

----------------------------------------------------------------------------
(* update_channel, set_channel_visibility, delete_channel                  *)

OwnRow(i) == OpenChan(Of(i)) /\ channel[Of(i)].owner = By(i)

UpdateChannel(i) ==
    /\ ChanAt(i, "update") /\ rowLock[Of(i)] = 0
    /\ channel' = IF OwnRow(i) THEN [channel EXCEPT ![Of(i)].meta = i] ELSE channel
    /\ ChanDone(i, OwnRow(i))
    /\ UNCHANGED <<chanPlan, subscriber, chanAdmin, post, chanLink, comments, senderKey, chanRate,
                   rowLock, today, chanHistory>>

\* The answer is success whether or not a row matched.
SetVisibility(i) ==
    /\ ChanAt(i, "visibility") /\ rowLock[Of(i)] = 0
    /\ channel' = IF OwnRow(i) THEN [channel EXCEPT ![Of(i)].private = Arg(i).private] ELSE channel
    /\ ChanDone(i, TRUE)
    /\ UNCHANGED <<chanPlan, subscriber, chanAdmin, post, chanLink, comments, senderKey, chanRate,
                   rowLock, today, chanHistory>>

DeleteChecks(i) ==
    /\ ChanAt(i, "delete") /\ OwnerOnly(i, "mark")
    /\ UNCHANGED <<chanPlan, chanTables, chanRate, rowLock, today, chanHistory>>

\* soft_delete_channel
DeleteMarks(i) ==
    /\ ChanAt(i, "mark") /\ rowLock[Of(i)] = 0
    /\ channel' = IF OwnRow(i) THEN [channel EXCEPT ![Of(i)].deleted = TRUE] ELSE channel
    /\ ChanDone(i, TRUE)
    /\ UNCHANGED <<chanPlan, subscriber, chanAdmin, post, chanLink, comments, senderKey, chanRate,
                   rowLock, today, chanHistory>>

----------------------------------------------------------------------------
(* Posts                                                                   *)

PublishChecks(i) ==
    /\ ChanAt(i, "publish") /\ AdminOnly(i, "days")
    /\ UNCHANGED <<chanPlan, chanTables, chanRate, rowLock, today, chanHistory>>

\* get_channel_by_id, for the retention.
PublishReads(i) ==
    /\ ChanAt(i, "days")
    /\ IF OpenChan(Of(i))
       THEN chanCall' = [chanCall EXCEPT ![i].at = "post", ![i].got = today + channel[Of(i)].days]
       ELSE ChanDone(i, FALSE)
    /\ UNCHANGED <<chanPlan, chanTables, chanRate, rowLock, today, chanHistory>>

\* last_post_sequence + 1
NextSequence(c) == channel[c].last + 1

\* insert_channel_post: the number is drawn and the post stored in one statement.
\* Nothing is asked of the channel again, nor of client_message_id.
PublishInserts(i) ==
    LET c == Of(i) IN
    /\ ChanAt(i, "post") /\ rowLock[c] = 0
    /\ channel' = [channel EXCEPT ![c].last = NextSequence(c)]
    /\ post' = post \cup {[id |-> i, chan |-> c, seq |-> NextSequence(c), thread |-> Arg(i).thread,
                           msg |-> Arg(i).msg, expires |-> chanCall[i].got, deleted |-> FALSE]}
    /\ NotesLate(i)
    /\ ChanDone(i, TRUE)
    /\ UNCHANGED <<chanPlan, subscriber, chanAdmin, chanLink, comments, senderKey, chanRate, rowLock,
                   today, broken, entered, missed>>

\* What a ListPosts request asks for; 0 asks for anything.
Wanted(p, f) ==
    /\ f.thread # 0 => p.thread = f.thread
    /\ f.since # 0 => p.seq >= f.since
    /\ f.until # 0 => p.seq <= f.until

\* The query list_channel_posts picks: the arms that have an end but no start are
\* missing, and their requests take the one with no filter at all.
Selects(p, f) == IF f.until # 0 /\ f.since = 0 THEN TRUE ELSE Wanted(p, f)

Matching(c, f) == {p \in post : p.chan = c /\ PostVisible(p) /\ Selects(p, f)}

\* Mutant: the cursor's own number is passed over, and the next one too.
AfterSkips(p, cursor) == p.seq > cursor + (IF cursor = 0 THEN 0 ELSE 1)
\* sequence_number > after
After(p, cursor) == p.seq > cursor

ListChecks(i) ==
    /\ ChanAt(i, "list") /\ ReaderOnly(i, "page")
    /\ UNCHANGED <<chanPlan, chanTables, chanRate, rowLock, today, chanHistory>>

\* A page; has_more when it is full.  The client goes on from next_sequence.
ListPage(i) ==
    LET f == Arg(i)
        here == {p \in Matching(Of(i), f) : After(p, chanCall[i].cursor)}
        seqs == FirstOf({p.seq : p \in here}, PageSize(f.limit))
        page == {p \in here : p.seq \in seqs}
        seen == chanCall[i].seen \cup {p.id : p \in page}
        more == Cardinality(page) = PageSize(f.limit)
    IN
    /\ ChanAt(i, "page")
    /\ IF more
       THEN chanCall' = [chanCall EXCEPT ![i].at = "list", ![i].seen = seen,
                             ![i].cursor = CHOOSE n \in seqs : \A m \in seqs : m <= n]
       ELSE chanCall' = [chanCall EXCEPT ![i].at = "done", ![i].ok = TRUE, ![i].seen = seen]
    /\ missed' = IF more THEN missed ELSE missed \cup ({p.id : p \in Matching(Of(i), f)} \ seen)
    /\ UNCHANGED <<chanPlan, chanTables, chanRate, rowLock, today, broken, entered, lateAct>>

\* get_channel_post_by_id
Found(n) == {p \in post : p.id = n /\ PostVisible(p)}

GetPost(i) ==
    /\ ChanAt(i, "get")
    /\ IF Found(Ref(i)) = {} THEN ChanDone(i, FALSE) ELSE ChanTo(i, "got")
    /\ UNCHANGED <<chanPlan, chanTables, chanRate, rowLock, today, chanHistory>>

GetChecks(i) ==
    /\ ChanAt(i, "got")
    /\ ChanDone(i, IsSubscriber(Of(i), By(i)) \/ IsAdmin(Of(i), By(i)))
    /\ UNCHANGED <<chanPlan, chanTables, chanRate, rowLock, today, chanHistory>>

\* soft_delete_channel_post, by an admin of the post's channel.
DeletePost(i) ==
    LET gone == {p \in post : p.id = Ref(i) /\ ~p.deleted /\ IsAdmin(p.chan, By(i))} IN
    /\ ChanAt(i, "unpost")
    /\ post' = (post \ gone) \cup {[p EXCEPT !.deleted = TRUE] : p \in gone}
    /\ ChanDone(i, gone # {})
    /\ UNCHANGED <<chanPlan, channel, subscriber, chanAdmin, chanLink, comments, senderKey, chanRate,
                   rowLock, today, chanHistory>>

----------------------------------------------------------------------------
(* get_comment_group                                                       *)

CommentReads(i) ==
    /\ ChanAt(i, "comment")
    /\ IF Found(Ref(i)) = {} THEN ChanDone(i, FALSE) ELSE ChanTo(i, "commenter")
    /\ UNCHANGED <<chanPlan, chanTables, chanRate, rowLock, today, chanHistory>>

CommentChecks(i) ==
    /\ ChanAt(i, "commenter") /\ ReaderOnly(i, "group?")
    /\ UNCHANGED <<chanPlan, chanTables, chanRate, rowLock, today, chanHistory>>

\* get_post_comment_group
GroupOf(p) == comments[p]

\* The calls that found no group yet and have still to link theirs.
Firsts(i) == {j \in Calling : chanPlan[j].kind = "comment" /\ Ref(j) = Ref(i)
                               /\ chanCall[j].at \in {"group", "link group"}}

CommentFinds(i) ==
    LET g == GroupOf(Ref(i)) IN
    /\ ChanAt(i, "group?")
    /\ chanCall' = [j \in Calling |->
           IF j = i
           THEN IF g # 0 THEN [chanCall[i] EXCEPT !.at = "done", !.ok = TRUE, !.got = g]
                ELSE [chanCall[i] EXCEPT !.at = "group", !.raced = Firsts(i) # {}]
           ELSE IF g = 0 /\ j \in Firsts(i) THEN [chanCall[j] EXCEPT !.raced = TRUE]
           ELSE chanCall[j]]
    /\ UNCHANGED <<chanPlan, chanTables, chanRate, rowLock, today, chanHistory>>

\* create_group makes the commenter's own group, ...
CommentCreates(i) ==
    /\ ChanAt(i, "group") /\ ChanTo(i, "link group")
    /\ UNCHANGED <<chanPlan, chanTables, chanRate, rowLock, today, chanHistory>>

\* ... create_post_comment_group links it if none is (ON CONFLICT DO NOTHING), and
\* the answer is the group made here either way.
CommentLinks(i) ==
    /\ ChanAt(i, "link group")
    /\ comments' = IF comments[Ref(i)] = 0 THEN [comments EXCEPT ![Ref(i)] = i] ELSE comments
    /\ chanCall' = [chanCall EXCEPT ![i].at = "done", ![i].ok = TRUE, ![i].got = i]
    /\ UNCHANGED <<chanPlan, channel, subscriber, chanAdmin, post, chanLink, senderKey, chanRate,
                   rowLock, today, chanHistory>>

----------------------------------------------------------------------------
(* Admins and invite links                                                 *)

AddChecksOwner(i) ==
    /\ ChanAt(i, "add") /\ OwnerOnly(i, "subscriber?")
    /\ UNCHANGED <<chanPlan, chanTables, chanRate, rowLock, today, chanHistory>>

AddChecksSubscriber(i) ==
    /\ ChanAt(i, "subscriber?") /\ SubscriberOnly(i, Arg(i).dev, "grant")
    /\ UNCHANGED <<chanPlan, chanTables, chanRate, rowLock, today, chanHistory>>

\* add_channel_admin
AddGrants(i) ==
    /\ ChanAt(i, "grant")
    /\ chanAdmin' = chanAdmin \cup {<<Of(i), Arg(i).dev>>}
    /\ ChanDone(i, TRUE)
    /\ UNCHANGED <<chanPlan, channel, subscriber, post, chanLink, comments, senderKey, chanRate,
                   rowLock, today, chanHistory>>

RemoveChecks(i) ==
    /\ ChanAt(i, "remove") /\ OwnerOnly(i, "ungrant")
    /\ UNCHANGED <<chanPlan, chanTables, chanRate, rowLock, today, chanHistory>>

\* remove_channel_admin, never the owner's row.
RemoveUngrants(i) ==
    LET a == <<Of(i), Arg(i).dev>>
        gone == a \in chanAdmin /\ ~IsOwner(Of(i), Arg(i).dev)
    IN
    /\ ChanAt(i, "ungrant")
    /\ chanAdmin' = IF gone THEN chanAdmin \ {a} ELSE chanAdmin
    /\ ChanDone(i, gone)
    /\ UNCHANGED <<chanPlan, channel, subscriber, post, chanLink, comments, senderKey, chanRate,
                   rowLock, today, chanHistory>>

LinkChecks(i) ==
    /\ ChanAt(i, "link") /\ OwnerOnly(i, "mint")
    /\ UNCHANGED <<chanPlan, chanTables, chanRate, rowLock, today, chanHistory>>

\* create_channel_invite_link; 0 uses are unlimited, 0 days never end.
LinkMints(i) ==
    /\ ChanAt(i, "mint")
    /\ chanLink' = [chanLink EXCEPT ![i] = [chan |-> Of(i), max |-> Arg(i).max, used |-> 0,
                        ends |-> IF Arg(i).ttl = 0 THEN 0 ELSE today + Arg(i).ttl, revoked |-> FALSE]]
    /\ ChanDone(i, TRUE)
    /\ UNCHANGED <<chanPlan, channel, subscriber, chanAdmin, post, comments, senderKey, chanRate,
                   rowLock, today, chanHistory>>

RevokeChecks(i) ==
    /\ ChanAt(i, "revoke") /\ AdminOnly(i, "end link")
    /\ UNCHANGED <<chanPlan, chanTables, chanRate, rowLock, today, chanHistory>>

\* revoke_channel_invite_link
RevokeMarks(i) ==
    LET t == chanLink[Ref(i)]
        hits == t.chan = Of(i) /\ ~t.revoked
    IN
    /\ ChanAt(i, "end link")
    /\ chanLink' = IF hits THEN [chanLink EXCEPT ![Ref(i)].revoked = TRUE] ELSE chanLink
    /\ ChanDone(i, hits)
    /\ UNCHANGED <<chanPlan, channel, subscriber, chanAdmin, post, comments, senderKey, chanRate,
                   rowLock, today, chanHistory>>

----------------------------------------------------------------------------

\* A day passes.
DayPasses(i) ==
    /\ ChanAt(i, "day")
    /\ today' = today + 1
    /\ ChanDone(i, TRUE)
    /\ UNCHANGED <<chanPlan, chanTables, chanRate, rowLock, chanHistory>>

\* A call fails half-way: its transaction, if it has one open, is rolled back.
ChanBreaks(i) ==
    /\ ChanRunning(i) /\ chanPlan[i].kind # "day" /\ Cardinality(broken) < MaxBroken
    /\ broken' = broken \cup {i}
    /\ rowLock' = [c \in Calling |-> IF rowLock[c] = i THEN 0 ELSE rowLock[c]]
    /\ ChanDone(i, FALSE)
    /\ UNCHANGED <<chanPlan, chanTables, chanRate, today, entered, lateAct, missed>>

ChannelsInit ==
    /\ chanPlan \in ChanPlan
    /\ channel = [i \in Calling |-> NoChan]
    /\ subscriber = {} /\ chanAdmin = {} /\ post = {}
    /\ chanLink = [i \in Calling |-> NoChan]
    /\ comments = [i \in Calling |-> 0]
    /\ senderKey = Calling \X ChanDevice
    /\ chanRate = [d \in ChanDevice |-> [k \in Limited |-> 0]]
    /\ rowLock = [i \in Calling |-> 0]
    /\ today = 0
    /\ chanCall = [i \in Calling |-> Unborn]
    /\ broken = {} /\ entered = {} /\ lateAct = {} /\ missed = {}

ChannelsNext == \E i \in Calling :
    \/ ChanArrives(i) \/ CreateInserts(i) \/ CreateOwns(i) \/ CreateCounts(i) \/ CreateAdmins(i)
    \/ SubscribeLocks(i) \/ SubscribeAdmits(i) \/ SubscribeAnswers(i)
    \/ UnsubscribeRemoves(i) \/ UnsubscribeRotates(i) \/ ListSubscriptions(i)
    \/ UpdateChannel(i) \/ SetVisibility(i) \/ DeleteChecks(i) \/ DeleteMarks(i)
    \/ PublishChecks(i) \/ PublishReads(i) \/ PublishInserts(i)
    \/ ListChecks(i) \/ ListPage(i) \/ GetPost(i) \/ GetChecks(i) \/ DeletePost(i)
    \/ CommentReads(i) \/ CommentChecks(i) \/ CommentFinds(i) \/ CommentCreates(i) \/ CommentLinks(i)
    \/ AddChecksOwner(i) \/ AddChecksSubscriber(i) \/ AddGrants(i) \/ RemoveChecks(i) \/ RemoveUngrants(i)
    \/ LinkChecks(i) \/ LinkMints(i) \/ RevokeChecks(i) \/ RevokeMarks(i)
    \/ DayPasses(i) \/ ChanBreaks(i)

ChannelsSpec == ChannelsInit /\ [][ChannelsNext]_chanVars

----------------------------------------------------------------------------
(* Properties                                                              *)

\* Every row names what exists: channels and links by the calls that made them,
\* at most one row a device and channel, numbers of posts used once.
ChannelsTypeOK ==
    /\ \A c \in Calling : channel[c] # NoChan =>
           /\ channel[c].owner = By(c) /\ channel[c].days \in 1 .. DaysMax
           /\ channel[c].cap \in 0 .. CapMax /\ channel[c].meta \in Calling
           /\ channel[c].count \in Nat /\ channel[c].last \in Nat
    /\ \A s \in subscriber : channel[s.chan] # NoChan
    /\ \A s, t \in subscriber : s.chan = t.chan /\ s.dev = t.dev => s = t
    /\ chanAdmin \subseteq Calling \X ChanDevice /\ senderKey \subseteq Calling \X ChanDevice
    /\ \A p \in post : channel[p.chan] # NoChan /\ p.seq \in 1 .. channel[p.chan].last
    /\ \A p, q \in post : p.chan = q.chan /\ p.seq = q.seq => p = q
    /\ \A c \in Calling : rowLock[c] # 0 => ChanAt(rowLock[c], "admit")
    /\ \A d \in ChanDevice, k \in Limited : chanRate[d][k] \in 0 .. ChanAllowance(d)

\* subscriber_count, which GetSubscriberCount answers, is the number of subscriber
\* rows of every open channel whose creation returned, whatever subscribes, leaves,
\* fails or overlaps (subscribe_channel_atomic, unsubscribe_from_channel).
SubscriberCountTrue ==
    \A c \in Calling : channel[c] # NoChan /\ ChanReturned(c) /\ OpenChan(c) => SubscriberCount(c) = ChanRows(c)

\* A private channel is entered only on a link that is alive at that moment; a
\* link's count is the number of admissions it gave, never above its max, and a
\* channel never outgrows its cap (admit_channel_subscription and the revocations,
\* expiries and other admissions that overlap it).
AdmissionSound ==
    /\ \A e \in entered : e.good
    /\ \A t \in Calling : chanLink[t] # NoChan =>
           /\ chanLink[t].used = Cardinality({e \in entered : e.link = t})
           /\ chanLink[t].max # 0 => chanLink[t].used <= chanLink[t].max
    /\ \A c \in Calling : channel[c] # NoChan /\ channel[c].cap # 0 => ChanRows(c) <= channel[c].cap

\* No call that begins after a channel was deleted publishes to it or enters it
\* (get_channel_by_id, and the lock of admit_channel_subscription).
ClosedStaysClosed == lateAct = {}

\* The maker of a channel keeps its owner row, and with it every right of an
\* admin, through unsubscribe and remove_channel_admin, even when the admin row
\* was never written (create_channel ignores that failure).
OwnerStaysAdmin ==
    \A c \in Calling : channel[c] # NoChan /\ ChanReturned(c) => IsOwner(c, By(c)) /\ By(c) \in Admins(c)

\* A client that pages through posts or subscriptions to the end has every one that
\* was there, while posts are published, deleted and expire between its pages: the
\* numbers a page went past are never used again (insert_channel_post,
\* list_channel_posts, list_channel_subscriptions).
PagingMissesNothing ==
    /\ missed = {}
    /\ \A i \in Calling : chanPlan[i].kind = "list" /\ ChanRunning(i) =>
           \A p \in Matching(Of(i), Arg(i)) : p.seq <= chanCall[i].cursor => p.id \in chanCall[i].seen

\* Every commenter of a post is given the one group that is linked to it, unless
\* two first comments overlapped (get_comment_group).
OneCommentGroup ==
    \A i \in Calling : chanPlan[i].kind = "comment" /\ ChanReturned(i) /\ ~chanCall[i].raced =>
        chanCall[i].got = comments[Ref(i)]

\* A channel knows who is in it: its count is that of its rows, entered within its
\* cap by links that were good, its maker stays and nobody enters after its end.
AdmissionsTrue == SubscriberCountTrue /\ AdmissionSound /\ OwnerStaysAdmin /\ ClosedStaysClosed

\* Its readers see the same: every post by paging, and one group under each.
ReadersAgree == PagingMissesNothing /\ OneCommentGroup

\* A list answers only posts the request asked for: "Optional: filter by thread_id",
\* "Optional: time range" (ListPostsRequest).  Violated by a request with an end
\* and no start.
FiltersHonoured ==
    \A i \in Calling : chanPlan[i].kind = "list" =>
        \A p \in post : p.id \in chanCall[i].seen => Wanted(p, Arg(i))

=============================================================================
