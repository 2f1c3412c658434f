---------------------------- MODULE GroupStream ----------------------------
(***************************************************************************)
(* group-service: the messages of one group, the streams that carry them,  *)
(* and the reads a member catches up with.                                 *)
(*                                                                         *)
(* A message is stored and then published to the hub, a broadcast channel  *)
(* of this process with one receiver for each subscribed stream.  A stream *)
(* may fall behind, lose its connection or be closed by the server; its    *)
(* client then connects again, subscribes, and fetches from the last       *)
(* sequence number it has, as the status it was closed with says.          *)
(* Admission and epochs are Groups; here a member is removed, revoked or   *)
(* back in one step each.  Ciphertexts, topics, threads and rate limits    *)
(* are left out.                                                           *)
(***************************************************************************)
EXTENDS Integers, Sequences, FiniteSets

CONSTANTS
    Member,      \* devices, members of the group at first
    StreamPlan,  \* bound: sequences of calls, [kind, by, id]
    HubCap,      \* GROUP_BROADCAST_CAPACITY (256)
    MaxFetch,    \* greatest page of FetchGroupMessages (200)
    FetchLimit,  \* the limit a client asks for
    MaxDbErrors  \* bound: membership checks that fail

VARIABLES
    streamPlan,  \* the calls of this behaviour
    member,      \* group_members of the group
    active,      \* devices.is_active
    streamDissolved,   \* dissolved_at is set
    streamEpoch,       \* mls_groups.epoch
    streamCommits,     \* group_commits not expired, by epoch_from
    stored,      \* group_messages not expired: [seq, id]
    lastSeq,     \* mls_groups.last_sequence
    dev,         \* each device's stream and client
    gcall,       \* the progress of each call
    dbErrors,    \* membership checks that have failed
    outrun,      \* history: messages published after a later one, or never
    published,   \* history: sequence numbers published
    gone,        \* history: gone[d] = last_sequence when d was removed, -1 while a member
    shunned,     \* history: devices dropped by the word of an earlier removal
    aged         \* history: a commit has expired

roster == <<member, active, streamDissolved>>
log == <<streamEpoch, streamCommits, stored, lastSeq>>
faults == <<dbErrors, outrun, published, gone, shunned, aged>>
streamVars == <<streamPlan, roster, log, dev, gcall, faults>>

\* A device's side: whether its connection is open; where its server task is with
\* the group; its receiver (nothing, or the events not read yet), whether the hub
\* still sends to it, whether events were dropped; the frame in hand; and of the
\* client, where it is, what it has, by frame and in all, and what came while it
\* fetched.
NoStream == [conn |-> FALSE, task |-> "out", rx |-> <<>>, on |-> FALSE, lag |-> FALSE, frame |-> 0,
             client |-> "down", cursor |-> 0, last |-> 0, got |-> {}, heard |-> {}, held |-> {}]

GCalls == DOMAIN streamPlan
GAt(i, at) == gcall[i].at = at
GTo(i, at) == gcall' = [gcall EXCEPT ![i].at = at]
SDone(i, ok) == gcall' = [gcall EXCEPT ![i].at = "done", ![i].ok = ok]
Kind(i) == streamPlan[i].kind
Who(i) == streamPlan[i].by

\* A call arrives; what is sent is sealed under the epoch of that moment.
GBegins(i) ==
    /\ GAt(i, "new") /\ Kind(i) # "connect"
    /\ gcall' = [gcall EXCEPT ![i].at = Kind(i), ![i].seq = streamEpoch]
    /\ UNCHANGED <<streamPlan, roster, log, dev, faults>>

----------------------------------------------------------------------------
(* The hub                                                                 *)

\* Mutant: a full receiver loses its oldest event and is not told.
QueuedQuietly(v, e) == [v EXCEPT !.rx = Append(IF Len(@) = HubCap THEN Tail(@) ELSE @, e)]
\* tokio's broadcast: a full receiver loses its oldest event and will be told.
Queued(v, e) == [v EXCEPT !.rx = Append(IF Len(@) = HubCap THEN Tail(@) ELSE @, e),
                          !.lag = @ \/ Len(v.rx) = HubCap]

\* GroupHub::send to the receivers of the group's sender.
HubSends(e) == dev' = [d \in Member |-> IF dev[d].on THEN Queued(dev[d], e) ELSE dev[d]]

\* GroupHub::dissolve: every receiver comes to its end.
HubDissolves == dev' = [d \in Member |-> [dev[d] EXCEPT !.on = FALSE]]

----------------------------------------------------------------------------
(* send_group_message                                                      *)

SendChecksGroup(i) ==
    /\ GAt(i, "send")
    /\ IF streamDissolved THEN SDone(i, FALSE) ELSE GTo(i, "member?")
    /\ UNCHANGED <<streamPlan, roster, log, dev, faults>>

SendChecksMember(i) ==
    /\ GAt(i, "member?")
    /\ IF Who(i) \in member THEN GTo(i, "epoch?") ELSE SDone(i, FALSE)
    /\ UNCHANGED <<streamPlan, roster, log, dev, faults>>

SendChecksEpoch(i) ==
    /\ GAt(i, "epoch?")
    /\ IF gcall[i].seq = streamEpoch THEN GTo(i, "store") ELSE SDone(i, FALSE)
    /\ UNCHANGED <<streamPlan, roster, log, dev, faults>>

\* The row of client_message_id id, if the group has one (ON CONFLICT).
RowOf(id) == {m \in stored : m.id = id}

\* insert_group_message: a number is taken even when the row is an earlier one's.
SendStores(i) ==
    LET id == streamPlan[i].id
        row == IF RowOf(id) # {} THEN CHOOSE m \in RowOf(id) : TRUE ELSE [seq |-> lastSeq + 1, id |-> id]
    IN
    /\ GAt(i, "store")
    /\ lastSeq' = lastSeq + 1
    /\ stored' = stored \cup {row}
    /\ gcall' = [gcall EXCEPT ![i].at = "publish", ![i].seq = row.seq]
    /\ UNCHANGED <<streamPlan, roster, streamEpoch, streamCommits, dev, faults>>

SendPublishes(i) ==
    LET n == gcall[i].seq IN
    /\ GAt(i, "publish")
    /\ HubSends(<<"frame", n>>)
    /\ published' = published \cup {n}
    /\ outrun' = IF n \notin published /\ \E k \in published : k > n THEN outrun \cup {n} ELSE outrun
    /\ SDone(i, TRUE)
    /\ UNCHANGED <<streamPlan, roster, log, dbErrors, gone, shunned, aged>>

\* The request is dropped while its row is written: nothing is published.
SendCut(i) ==
    /\ GAt(i, "publish")
    /\ outrun' = outrun \cup {gcall[i].seq}
    /\ SDone(i, FALSE)
    /\ UNCHANGED <<streamPlan, roster, log, dev, dbErrors, published, gone, shunned, aged>>

----------------------------------------------------------------------------
(* message_stream: the server's task for one device                        *)

IsActiveMember(d) == d \in member /\ d \in active

\* The client connects and sends its Subscribe, or sends it again on the
\* connection it has.
Connect(i) ==
    LET d == Who(i) IN
    /\ GAt(i, "new") /\ Kind(i) = "connect" /\ dev[d].client = "down"
    /\ dev' = [dev EXCEPT ![d].conn = TRUE, ![d].client = "asked"]
    /\ SDone(i, TRUE)
    /\ UNCHANGED <<streamPlan, roster, log, faults>>

\* Between two turns of its loop the task hears the client or the hub.
Waits(d) == dev[d].conn /\ dev[d].task \in {"out", "in"}

Attached(v) == [v EXCEPT !.rx = <<>>, !.lag = FALSE, !.on = TRUE]

\* Without the group, and told so (NotMember).
Refused(v) == [v EXCEPT !.task = "out", !.frame = 0, !.rx = <<>>, !.lag = FALSE, !.on = FALSE,
                        !.client = "down", !.held = {}]

\* In, and told so by an answered heartbeat, the client fetches from the last
\* number it has.
Fetching(v) == [v EXCEPT !.client = "fetching", !.cursor = v.last]

\* Mutant: membership first, the receiver after it.
CheckFirst == <<"check", "receiver">>
\* subscribe takes the receiver before it asks whether the device is a member.
SubscribeOrder == <<"receiver", "check">>

Subscribes(d, k) ==
    IF SubscribeOrder[k] = "receiver" THEN Attached(dev[d])
    ELSE IF IsActiveMember(d) THEN dev[d] ELSE Refused(dev[d])

\* A Subscribe for a group the stream already has changes nothing.
SubscribeBegins(d) ==
    LET v == Subscribes(d, 1) IN
    /\ Waits(d) /\ dev[d].client = "asked"
    /\ dev' = [dev EXCEPT ![d] = IF dev[d].task = "in" THEN Fetching(dev[d])
                                 ELSE IF v.client = "down" THEN v ELSE [v EXCEPT !.task = "joining"]]
    /\ UNCHANGED <<streamPlan, roster, log, gcall, faults>>

SubscribeEnds(d) ==
    LET v == Subscribes(d, 2) IN
    /\ dev[d].conn /\ dev[d].task = "joining"
    /\ dev' = [dev EXCEPT ![d] = IF v.client = "down" THEN v ELSE [Fetching(v) EXCEPT !.task = "in"]]
    /\ UNCHANGED <<streamPlan, roster, log, gcall, faults>>

\* The connection is gone: the task and its receiver with it, and what the client
\* had not taken in yet.
Closed(v) == [NoStream EXCEPT !.last = v.last, !.got = v.got, !.heard = v.heard]

\* RecvError::Lagged closes the stream.
Lags(d) ==
    /\ dev[d].conn /\ dev[d].task = "in" /\ dev[d].lag
    /\ dev' = [dev EXCEPT ![d] = Closed(dev[d])]
    /\ UNCHANGED <<streamPlan, roster, log, gcall, faults>>

\* The next event is a frame, ...
TakesFrame(d) ==
    /\ dev[d].conn /\ dev[d].task = "in" /\ ~dev[d].lag /\ dev[d].rx # <<>> /\ Head(dev[d].rx)[1] = "frame"
    /\ dev' = [dev EXCEPT ![d].task = "frame", ![d].frame = Head(dev[d].rx)[2], ![d].rx = Tail(@)]
    /\ UNCHANGED <<streamPlan, roster, log, gcall, faults>>

\* ... the removal of this device, or of another, ...
TakesRemoval(d) ==
    /\ dev[d].conn /\ dev[d].task = "in" /\ ~dev[d].lag /\ dev[d].rx # <<>> /\ Head(dev[d].rx)[1] = "removed"
    /\ IF Head(dev[d].rx)[2] = d
       THEN /\ dev' = [dev EXCEPT ![d].task = "out", ![d].rx = <<>>, ![d].on = FALSE]
            /\ shunned' = IF IsActiveMember(d) THEN shunned \cup {d} ELSE shunned
       ELSE dev' = [dev EXCEPT ![d].rx = Tail(@)] /\ UNCHANGED shunned
    /\ UNCHANGED <<streamPlan, roster, log, gcall, dbErrors, outrun, published, gone, aged>>

\* ... or the end of the group.
TakesEnd(d) ==
    /\ dev[d].conn /\ dev[d].task = "in" /\ ~dev[d].lag /\ dev[d].rx = <<>> /\ ~dev[d].on
    /\ dev' = [dev EXCEPT ![d].task = "out"]
    /\ UNCHANGED <<streamPlan, roster, log, gcall, faults>>

Larger(m, n) == IF m > n THEN m ELSE n
\* The client takes a frame in; while it fetches it keeps them for later.
Hears(v, n) ==
    IF v.client = "up"
    THEN [v EXCEPT !.got = @ \cup {n}, !.heard = @ \cup {n}, !.last = Larger(n, @)]
    ELSE [v EXCEPT !.held = @ \cup {n}, !.heard = @ \cup {n}]

\* Each frame asks the database whether this stream may still carry it.
MayCarry(d) == IsActiveMember(d)

FrameChecks(d) ==
    /\ dev[d].conn /\ dev[d].task = "frame"
    /\ dev' = [dev EXCEPT ![d] =
           IF MayCarry(d) THEN [Hears(dev[d], dev[d].frame) EXCEPT !.task = "in", !.frame = 0]
           ELSE Refused(dev[d])]
    /\ UNCHANGED <<streamPlan, roster, log, gcall, faults>>

\* A check that fails closes the stream.
FrameUnknown(v) == Closed(v)
FrameCheckFails(d) ==
    /\ dev[d].conn /\ dev[d].task = "frame" /\ dbErrors < MaxDbErrors
    /\ dbErrors' = dbErrors + 1
    /\ dev' = [dev EXCEPT ![d] = FrameUnknown(dev[d])]
    /\ UNCHANGED <<streamPlan, roster, log, gcall, outrun, published, gone, shunned, aged>>

\* On a Subscribe it leaves the group out, and the refusal is told.
SubscribeCheckFails(d) ==
    /\ dev[d].conn /\ dev[d].task = "joining" /\ dbErrors < MaxDbErrors
    /\ dbErrors' = dbErrors + 1
    /\ dev' = [dev EXCEPT ![d] = Refused(dev[d])]
    /\ UNCHANGED <<streamPlan, roster, log, gcall, outrun, published, gone, shunned, aged>>

----------------------------------------------------------------------------
(* fetch_group_messages                                                    *)

FetchChecks(d) ==
    /\ dev[d].client = "fetching"
    /\ dev' = [dev EXCEPT ![d].client = IF d \in member THEN "page" ELSE "down",
                          ![d].held = IF d \in member THEN @ ELSE {}]
    /\ UNCHANGED <<streamPlan, roster, log, gcall, faults>>

\* sequence_number > after, not expired.
PageAfter(n) == {m \in stored : m.seq > n}

\* limit.clamp(1, 200)
Clamped(n) == IF n < 1 THEN 1 ELSE IF n > MaxFetch THEN MaxFetch ELSE n

\* list_group_messages; the client asks on until a page is empty, and then takes in
\* what came meanwhile.
FetchLists(d) ==
    LET v == dev[d]
        rest == {m.seq : m \in PageAfter(v.cursor)}
        page == {n \in rest : Cardinality({k \in rest : k < n}) < Clamped(FetchLimit)}
        top == CHOOSE n \in page : \A k \in page : k <= n
        heldTop == CHOOSE n \in v.held : \A k \in v.held : k <= n
    IN
    /\ v.client = "page"
    /\ dev' = [dev EXCEPT ![d] =
           IF page # {}
           THEN [v EXCEPT !.got = @ \cup page, !.cursor = top, !.last = Larger(top, @), !.client = "fetching"]
           ELSE [v EXCEPT !.client = "up", !.cursor = 0, !.got = @ \cup v.held, !.held = {},
                          !.last = IF v.held = {} THEN @ ELSE Larger(heldTop, @)]]
    /\ UNCHANGED <<streamPlan, roster, log, gcall, faults>>

----------------------------------------------------------------------------
(* leave_group, remove_member, dissolve_group: the row, then the hub       *)

RemoveRow(i) ==
    LET d == Who(i) IN
    /\ GAt(i, "remove")
    /\ IF streamDissolved \/ d \notin member THEN SDone(i, FALSE) /\ UNCHANGED <<member, gone>>
       ELSE /\ member' = member \ {d}
            /\ gone' = [gone EXCEPT ![d] = lastSeq]
            /\ GTo(i, "tell")
    /\ UNCHANGED <<streamPlan, active, streamDissolved, log, dev, dbErrors, outrun, published, shunned, aged>>

RemoveTells(i) ==
    /\ GAt(i, "tell")
    /\ HubSends(<<"removed", Who(i)>>)
    /\ SDone(i, TRUE)
    /\ UNCHANGED <<streamPlan, roster, log, faults>>

DissolveRow(i) ==
    /\ GAt(i, "dissolve")
    /\ IF streamDissolved THEN SDone(i, FALSE) ELSE GTo(i, "end")
    /\ streamDissolved' = TRUE
    /\ UNCHANGED <<streamPlan, member, active, log, dev, faults>>

DissolveTells(i) ==
    /\ GAt(i, "end")
    /\ HubDissolves
    /\ SDone(i, TRUE)
    /\ UNCHANGED <<streamPlan, roster, log, faults>>

\* identity-service revokes a device: its rows stay and no hub hears of it.
DeviceRevoked(i) ==
    /\ GAt(i, "revoke")
    /\ active' = active \ {Who(i)}
    /\ gone' = [gone EXCEPT ![Who(i)] = IF @ = -1 THEN lastSeq ELSE @]
    /\ SDone(i, TRUE)
    /\ UNCHANGED <<streamPlan, member, streamDissolved, log, dev, dbErrors, outrun, published, shunned, aged>>

\* accept_group_invite brings a removed device back; its client subscribes anew.
Rejoin(i) ==
    LET d == Who(i) IN
    /\ GAt(i, "rejoin")
    /\ IF d \in member \/ streamDissolved THEN SDone(i, FALSE) /\ UNCHANGED <<member, gone, dev>>
       ELSE /\ member' = member \cup {d}
            /\ gone' = [gone EXCEPT ![d] = IF d \in active THEN -1 ELSE @]
            /\ dev' = [dev EXCEPT ![d].client = "down", ![d].held = {}]
            /\ SDone(i, TRUE)
    /\ UNCHANGED <<streamPlan, active, streamDissolved, log, dbErrors, outrun, published, shunned, aged>>

----------------------------------------------------------------------------
(* Commits, and get_group_state                                            *)

\* commit_group_epoch, a transaction.
EpochMoves(i) ==
    /\ GAt(i, "commit")
    /\ IF streamDissolved \/ Who(i) \notin member THEN SDone(i, FALSE) /\ UNCHANGED <<streamEpoch, streamCommits>>
       ELSE streamEpoch' = streamEpoch + 1 /\ streamCommits' = streamCommits \cup {streamEpoch} /\ SDone(i, TRUE)
    /\ UNCHANGED <<streamPlan, roster, stored, lastSeq, dev, faults>>

StateChecks(i) ==
    /\ GAt(i, "state")
    /\ IF Who(i) \in member THEN GTo(i, "state row") ELSE SDone(i, FALSE)
    /\ UNCHANGED <<streamPlan, roster, log, dev, faults>>

\* get_active_group_state; the request names the epoch it knows, -1 for none.
\* Without one the answer is the ratchet tree, which needs no commits.
StateReads(i) ==
    LET known == streamPlan[i].id IN
    /\ GAt(i, "state row")
    /\ gcall' = [gcall EXCEPT ![i].at = IF ~streamDissolved /\ known >= 0 /\ known < streamEpoch THEN "state commits" ELSE "done",
                              ![i].ok = ~streamDissolved, ![i].seq = streamEpoch]
    /\ UNCHANGED <<streamPlan, roster, log, dev, faults>>

\* epoch_from >= since
Since(known) == {e \in streamCommits : e >= known}

StateCommits(i) ==
    /\ GAt(i, "state commits")
    /\ gcall' = [gcall EXCEPT ![i].at = "done", ![i].commits = Since(streamPlan[i].id)]
    /\ UNCHANGED <<streamPlan, roster, log, dev, faults>>

\* fetch_commits: member, then not dissolved, then the same commits.
FetchCommits(i) ==
    /\ GAt(i, "commits")
    /\ IF Who(i) \in member /\ ~streamDissolved
       THEN gcall' = [gcall EXCEPT ![i].at = "done", ![i].ok = TRUE, ![i].seq = streamEpoch,
                                   ![i].commits = Since(streamPlan[i].id)]
       ELSE SDone(i, FALSE)
    /\ UNCHANGED <<streamPlan, roster, log, dev, faults>>

\* Retention passes: what is stored now expires.
Ages(i) ==
    /\ GAt(i, "age")
    /\ stored' = {} /\ streamCommits' = {}
    /\ aged' = (aged \/ streamCommits # {})
    /\ SDone(i, TRUE)
    /\ UNCHANGED <<streamPlan, roster, streamEpoch, lastSeq, dev, dbErrors, outrun, published, gone, shunned>>

\* The process restarts: the hub, its streams and the calls at work are gone.
StreamRestart(i) ==
    /\ GAt(i, "restart")
    /\ dev' = [d \in Member |-> Closed(dev[d])]
    /\ outrun' = outrun \cup {gcall[j].seq : j \in {k \in GCalls : GAt(k, "publish")}}
    /\ gcall' = [j \in GCalls |-> IF j = i \/ gcall[j].at \notin {"new", "done"}
                                  THEN [gcall[j] EXCEPT !.at = "done", !.ok = FALSE] ELSE gcall[j]]
    /\ UNCHANGED <<streamPlan, roster, log, dbErrors, published, gone, shunned, aged>>

\* A client's connection is lost.
ConnectionLost(i) ==
    /\ GAt(i, "lose")
    /\ dev' = [dev EXCEPT ![Who(i)] = Closed(dev[Who(i)])]
    /\ SDone(i, TRUE)
    /\ UNCHANGED <<streamPlan, roster, log, faults>>

----------------------------------------------------------------------------

StreamInit ==
    /\ streamPlan \in StreamPlan
    /\ member = Member /\ active = Member /\ streamDissolved = FALSE
    /\ streamEpoch = 0 /\ streamCommits = {} /\ stored = {} /\ lastSeq = 0
    /\ dev = [d \in Member |-> NoStream]
    /\ gcall = [i \in GCalls |-> [at |-> "new", ok |-> FALSE, seq |-> 0, commits |-> {}]]
    /\ dbErrors = 0 /\ outrun = {} /\ published = {}
    /\ gone = [d \in Member |-> -1] /\ shunned = {} /\ aged = FALSE

StreamNext ==
    \/ \E i \in GCalls :
        \/ GBegins(i) \/ Connect(i) \/ SendChecksGroup(i) \/ SendChecksMember(i) \/ SendChecksEpoch(i)
        \/ SendStores(i) \/ SendPublishes(i) \/ SendCut(i)
        \/ RemoveRow(i) \/ RemoveTells(i) \/ DissolveRow(i) \/ DissolveTells(i)
        \/ DeviceRevoked(i) \/ Rejoin(i) \/ EpochMoves(i)
        \/ StateChecks(i) \/ StateReads(i) \/ StateCommits(i) \/ FetchCommits(i)
        \/ Ages(i) \/ StreamRestart(i) \/ ConnectionLost(i)
    \/ \E d \in Member :
        \/ SubscribeBegins(d) \/ SubscribeEnds(d) \/ SubscribeCheckFails(d)
        \/ Lags(d) \/ TakesFrame(d) \/ TakesRemoval(d) \/ TakesEnd(d)
        \/ FrameChecks(d) \/ FrameCheckFails(d) \/ FetchChecks(d) \/ FetchLists(d)

StreamSpec == StreamInit /\ [][StreamNext]_streamVars

----------------------------------------------------------------------------
(* Properties                                                              *)

\* One row for each client_message_id and each number, none above last_sequence;
\* receivers within the hub's capacity, and only while a stream has one.
StreamTypeOK ==
    /\ member \subseteq Member /\ active \subseteq Member
    /\ \A m \in stored : m.seq \in 1 .. lastSeq
    /\ \A m, n \in stored : m.seq = n.seq \/ m.id = n.id => m = n
    /\ streamCommits \subseteq 0 .. (streamEpoch - 1)
    /\ \A d \in Member :
        /\ Len(dev[d].rx) <= HubCap
        /\ dev[d].on => dev[d].conn /\ dev[d].task # "out"
        /\ dev[d].task = "frame" => dev[d].frame \in 1 .. lastSeq
        /\ \A n \in dev[d].got \cup dev[d].held : n \in 1 .. lastSeq

\* The stream has nothing more for its client.
Drained(d) == dev[d].client = "up" /\ dev[d].rx = <<>> /\ ~dev[d].lag /\ dev[d].task # "frame"

\* Numbers some send has still to publish.
Unpublished == {gcall[i].seq : i \in {j \in GCalls : GAt(j, "publish")}}

\* A member whose stream has nothing left to read, and that was told of no closing
\* and no refusal, has every message there is: through lag, failed checks, lost
\* connections and restarts the fetch from its last number fills what the stream
\* left out.  Not claimed of a message overtaken between its insert and its
\* publication or never published, nor of a device dropped on an old removal
\* (send_group_message, serve_message_stream).
NoSilentGap ==
    \A d \in Member : Drained(d) /\ IsActiveMember(d) /\ ~streamDissolved /\ d \notin shunned =>
        {m.seq : m \in stored} \subseteq dev[d].got \cup outrun \cup Unpublished

\* The same without its exceptions for overtaken messages: "close the stream so the
\* client re-fetches from its last sequence number instead of silently missing
\* messages".  Violated when a later message is published first.
NothingMissed ==
    \A d \in Member : Drained(d) /\ IsActiveMember(d) /\ ~streamDissolved /\ d \notin shunned =>
        {m.seq : m \in stored} \subseteq dev[d].got \cup Unpublished

\* A stream never carries a message stored after its device was removed or revoked,
\* in this process or elsewhere (the check of each frame).
RemovedHearsNothing ==
    \A d \in Member : gone[d] # -1 => \A n \in dev[d].heard : n <= gone[d]

\* A device removed here does not stay subscribed: once the removal was told and
\* the stream has read what it was sent, the group is gone from it, even if the
\* removal fell into its Subscribe (hub.remove_member, and the order in subscribe).
RemovedUnsubscribed ==
    \A d \in Member \ member : dev[d].task = "in" /\ dev[d].rx = <<>> /\ ~dev[d].lag /\ dev[d].on =>
        \E i \in GCalls : Kind(i) = "remove" /\ Who(i) = d /\ (GAt(i, "tell") \/ (GAt(i, "done") /\ ~gcall[i].ok))

\* A member that asks for the commits since the epoch it knows can follow them, one
\* by one, to the epoch it is told of or later, unless one has expired: the epoch is
\* read before the commits (get_group_state, fetch_commits).
CatchesUp ==
    \A i \in GCalls : Kind(i) \in {"state", "commits"} /\ GAt(i, "done") /\ gcall[i].ok /\ streamPlan[i].id >= 0 /\ ~aged =>
        streamPlan[i].id .. (gcall[i].seq - 1) \subseteq gcall[i].commits

\* A member misses nothing: neither messages, by its stream, nor commits, by the
\* reads it catches up with.
MembersMissNothing == NoSilentGap /\ CatchesUp

\* A removed device is out: it hears nothing stored later, and its stream lets the
\* group go.
RemovedIsOut == RemovedHearsNothing /\ RemovedUnsubscribed

=============================================================================
