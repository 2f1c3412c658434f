------------------------------ MODULE Mailbox ------------------------------
(***************************************************************************)
(* The mailbox of one recipient account, as construct-queue writes it and  *)
(* messaging-service reads it.                                             *)
(*                                                                         *)
(* An account has one legacy user stream and one stream per device, all    *)
(* Redis streams.  A write call (write_message_to_device_streams) appends  *)
(* to the user stream, then to each target device's stream, one XADD at a  *)
(* time.  A device reads by XREADing its own stream and then the user      *)
(* stream, merging the two pages, and moving ONE cursor over both: ids of  *)
(* the two streams are compared as if they were one sequence.  Reads       *)
(* delete nothing, so a message is lost to a device exactly when its       *)
(* cursor moves past every copy of it that the device would accept.        *)
(*                                                                         *)
(* Ids are numbers: the id "ms-seq" is ms * SeqSpan + seq.  Nothing is     *)
(* trimmed here (MailboxGap models retention): the mailbox is younger than *)
(* MAILBOX_MAX_AGE_DAYS and below its MAXLEN.                              *)
(***************************************************************************)
EXTENDS Integers, FiniteSets

CONSTANTS
    Device,      \* the account's active devices
    Reader,      \* the devices whose clients read the mailbox
    UserKey,     \* the key of the legacy user stream
    Msg,         \* envelopes, one per MessageDedupKey
    Named,       \* Named[m]: the device envelope m names, or NoName
    NoName,
    Corrupt,     \* envelopes whose stored payload does not parse
    Instance,    \* messaging-service processes: one queue mutex each
    UserWrite,   \* MSG_MAILBOX_USER_WRITE
    SameMs,      \* whether two XADDs may fall into one millisecond
    SeqSpan,     \* ids per millisecond
    PageCount,   \* STREAM_MAILBOX_PAGE, and the limit of GetPendingMessages
    MaxCalls,    \* bound: write calls
    MaxOpens     \* bound: streams opened per reader

Stream == Device \cup {UserKey}

ASSUME DeviceAssumption == Reader \subseteq Device /\ UserKey \notin Device
ASSUME MsgAssumption == Corrupt \subseteq Msg
ASSUME FlagAssumption == UserWrite \in BOOLEAN /\ SameMs \in BOOLEAN
ASSUME CountAssumption == PageCount \in Nat \ {0} /\ SeqSpan \in Nat \ {0}
ASSUME BoundAssumption == MaxCalls \in Nat /\ MaxOpens \in Nat
\* A millisecond has room for every id the bounded number of calls can take.
ASSUME SpanAssumption == MaxCalls < SeqSpan

VARIABLES
    now,        \* the id "ms-0" of the current millisecond
    stream,     \* stream[s]: the entries of Redis stream s
    lastId,     \* lastId[s]: last-generated-id of stream s
    wr,         \* wr[i]: what holds instance i's queue mutex
    calls,      \* write calls made
    acked,      \* envelopes a write call returned Ok for
    phase,      \* phase[d]: where device d's connection is
    pos,        \* StreamCatchupState.last_stream_id, 0 for None
    upos,       \* StreamCatchupState.user_stream_id, 0 for None
    start,      \* the positions before the page being read
    dread,      \* the device read of the page being read
    page,       \* entries of the page not yet delivered
    examined,   \* MailboxPage.user_examined_through, 0 for None
    more,       \* MailboxPage.has_more
    cursor,     \* cursor[d]: the resume position the client of d holds
    received,   \* received[d]: envelopes the client of d was handed
    opens       \* opens[d]: streams d opened

storeVars == <<now, stream, lastId>>
writeVars == <<wr, calls, acked>>
readVars  == <<phase, pos, upos, start, dread, page, examined, more>>
clientVars == <<cursor, received, opens>>
vars == <<storeVars, writeVars, readVars, clientVars>>

Entry == [id : Nat, m : Msg]
NoRead == [got |-> {}, last |-> 0]
Free == [stage |-> "free"]

----------------------------------------------------------------------------
(* Redis streams. *)

\* The id XADD * takes at millisecond t: never below one already given.
NextId(s, t) == IF lastId[s] < t THEN t ELSE lastId[s] + 1

\* The clock moves only when an entry is written.
Times == IF SameMs THEN {now, now + SeqSpan} ELSE {now + SeqSpan}

XAdd(s, m, t) ==
    /\ now' = t
    /\ stream' = [stream EXCEPT ![s] = @ \cup {[id |-> NextId(s, t), m |-> m]}]
    /\ lastId' = [lastId EXCEPT ![s] = NextId(s, t)]

After(s, since) == {e \in stream[s] : e.id > since}

\* What XREAD COUNT limit STREAMS s since can answer: the oldest entries after
\* since, up to the limit, with the id of the last one.
XRead(s, since, limit) ==
    {r \in [got : SUBSET After(s, since), last : {0} \cup {e.id : e \in After(s, since)}] :
        /\ IF r.got = {} THEN r.last = 0
                         ELSE /\ \E e \in r.got : e.id = r.last
                              /\ \A e \in r.got : e.id <= r.last
        /\ \A e \in r.got : \A f \in After(s, since) \ r.got : e.id < f.id
        /\ Cardinality(r.got) <= limit
        /\ r.got = After(s, since) \/ Cardinality(r.got) = limit}

----------------------------------------------------------------------------
(* merge_mailbox_pages: one page from the device read rd and the user read *)
(* ru of device d.                                                         *)

SourceLimit == 2 * PageCount

Full(r) == Cardinality(r.got) >= SourceLimit

\* A full read may have more entries after its last one: the page ends there.
PastHorizon(rd, ru, id) ==
    \/ Full(rd) /\ id > rd.last
    \/ Full(ru) /\ id > ru.last

Horizon(rd, ru) ==
    IF Full(rd) /\ (Full(ru) => rd.last <= ru.last) THEN rd.last ELSE ru.last

\* A user-stream entry named to another device is a sibling's and is skipped.
ForReader(d, m) == m \in Corrupt \/ Named[m] \in {NoName, d}

\* The device copy wins over the user copy, a later copy over an earlier one;
\* entries that do not parse have no key and are all kept.
Merged(d, rd, ru) ==
    {e \in rd.got : e.m \in Corrupt \/ \A f \in rd.got : f.m = e.m => f.id <= e.id}
    \cup
    {e \in ru.got :
        /\ ForReader(d, e.m)
        /\ \/ e.m \in Corrupt
           \/ /\ \A f \in rd.got : f.m # e.m
              /\ \A f \in ru.got : f.m = e.m => f.id <= e.id}

Kept(d, rd, ru) == {e \in Merged(d, rd, ru) : ~PastHorizon(rd, ru, e.id)}

CutByCount(d, rd, ru) == Cardinality(Kept(d, rd, ru)) > PageCount

\* The page: the PageCount oldest entries kept.  Entries with equal ids come out
\* of a hash map, so either may be the one cut.
Pages(d, rd, ru) ==
    IF CutByCount(d, rd, ru)
    THEN {p \in SUBSET Kept(d, rd, ru) :
            /\ Cardinality(p) = PageCount
            /\ \A e \in p : \A f \in Kept(d, rd, ru) \ p : e.id <= f.id}
    ELSE {Kept(d, rd, ru)}

\* Mutant: a page cut by count still claims the whole user read.
ExaminedDespiteCut(d, rd, ru) == ru.last

ExaminedThrough(d, rd, ru) ==
    IF CutByCount(d, rd, ru) \/ ru.got = {} THEN 0
    ELSE IF PastHorizon(rd, ru, ru.last) THEN Horizon(rd, ru)
    ELSE ru.last

HasMore(d, rd, ru) == CutByCount(d, rd, ru) \/ Full(rd) \/ Full(ru)

----------------------------------------------------------------------------
(* Write calls.  The queue mutex of an instance is held for the whole call. *)

\* select_target_devices: a name that is not active means every device.
SelectTargetDevices(active, named) ==
    IF named \in active THEN {named} ELSE active

\* dispatch_envelope reads the active devices, then takes the mutex.  A failed
\* lookup is an empty list.
BeginWrite(i, m) ==
    /\ wr[i] = Free
    /\ calls < MaxCalls
    /\ \E active \in {Device, {}} :
          wr' = [wr EXCEPT ![i] =
                   [stage |-> IF UserWrite THEN "user" ELSE "devices",
                    m |-> m,
                    todo |-> SelectTargetDevices(active, Named[m]),
                    landed |-> FALSE]]
    /\ calls' = calls + 1
    /\ UNCHANGED <<storeVars, acked, readVars, clientVars>>

WriteUser(i) ==
    /\ wr[i].stage = "user"
    /\ \E t \in Times : XAdd(UserKey, wr[i].m, t)
    /\ wr' = [wr EXCEPT ![i].stage = "devices"]
    /\ UNCHANGED <<calls, acked, readVars, clientVars>>

\* A failed user-stream XADD fails the call before any device is written.
WriteUserFails(i) ==
    /\ wr[i].stage = "user"
    /\ wr' = [wr EXCEPT ![i] = Free]
    /\ UNCHANGED <<storeVars, calls, acked, readVars, clientVars>>

WriteDevice(i, d) ==
    /\ wr[i].stage = "devices"
    /\ d \in wr[i].todo
    /\ \E t \in Times : XAdd(d, wr[i].m, t)
    /\ wr' = [wr EXCEPT ![i].todo = @ \ {d}, ![i].landed = TRUE]
    /\ UNCHANGED <<calls, acked, readVars, clientVars>>

\* One failing device does not stop the others.
WriteDeviceFails(i, d) ==
    /\ wr[i].stage = "devices"
    /\ d \in wr[i].todo
    /\ wr' = [wr EXCEPT ![i].todo = @ \ {d}]
    /\ UNCHANGED <<storeVars, calls, acked, readVars, clientVars>>

\* The call returns: Ok unless the envelope reached no stream at all.
EndWrite(i) ==
    /\ wr[i].stage = "devices"
    /\ wr[i].todo = {}
    /\ acked' = IF ~UserWrite /\ ~wr[i].landed THEN acked ELSE acked \cup {wr[i].m}
    /\ wr' = [wr EXCEPT ![i] = Free]
    /\ UNCHANGED <<storeVars, calls, readVars, clientVars>>

----------------------------------------------------------------------------
(* MessageStream: one task per connection reads for its device.  What is   *)
(* sent reaches the client in order or not at all; a client that loses its *)
(* connection with answers on the wire resumes from the last it was handed,*)
(* so sending and receiving are one step.                                  *)
(*                                                                         *)
(* phase: "closed"; "await", open and waiting for Subscribe or the grace   *)
(* timer; "idle", initial catch-up done; "device", "user" and "deliver",   *)
(* the three parts of a page of poll_messages; "pending", a GetPending-    *)
(* Messages call between its two reads.                                    *)

Open(d) ==
    /\ phase[d] = "closed"
    /\ opens[d] < MaxOpens
    /\ phase' = [phase EXCEPT ![d] = "await"]
    /\ opens' = [opens EXCEPT ![d] = @ + 1]
    /\ UNCHANGED <<storeVars, writeVars, pos, upos, start, dread, page, examined, more,
                   cursor, received>>

\* Mutant: a late Subscribe sets the position back.
SubscribeRewinds(d) ==
    /\ phase[d] \in {"await", "idle"}
    /\ \E since \in {0, cursor[d]} : pos' = [pos EXCEPT ![d] = since]
    /\ phase' = [phase EXCEPT ![d] = IF @ = "await" THEN "device" ELSE "idle"]
    /\ UNCHANGED <<storeVars, writeVars, upos, start, dread, page, examined, more, clientVars>>

\* The client resumes from its cursor, or from none; a Subscribe never rewinds.
\* Only the first one, before the catch-up, polls.
Subscribe(d) ==
    /\ phase[d] \in {"await", "idle"}
    /\ \E since \in {0, cursor[d]} :
          pos' = [pos EXCEPT ![d] = IF since > @ THEN since ELSE @]
    /\ phase' = [phase EXCEPT ![d] = IF @ = "await" THEN "device" ELSE "idle"]
    /\ UNCHANGED <<storeVars, writeVars, upos, start, dread, page, examined, more, clientVars>>

\* SUBSCRIBE_CATCHUP_GRACE elapsed without a Subscribe.
GraceElapses(d) ==
    /\ phase[d] = "await"
    /\ phase' = [phase EXCEPT ![d] = "device"]
    /\ UNCHANGED <<storeVars, writeVars, pos, upos, start, dread, page, examined, more, clientVars>>

\* An inbox wakeup or the fallback tick, both gated on the initial catch-up.
Wake(d) ==
    /\ phase[d] = "idle"
    /\ phase' = [phase EXCEPT ![d] = "device"]
    /\ UNCHANGED <<storeVars, writeVars, pos, upos, start, dread, page, examined, more, clientVars>>

\* user_read_position: the delivery cursor unless the user position is ahead.
UserReadPosition(d) == IF upos[d] > pos[d] THEN upos[d] ELSE pos[d]

ReadDevice(d) ==
    /\ phase[d] = "device"
    /\ \E rd \in XRead(d, pos[d], SourceLimit) : dread' = [dread EXCEPT ![d] = rd]
    /\ start' = [start EXCEPT ![d] = <<pos[d], upos[d]>>]
    /\ phase' = [phase EXCEPT ![d] = "user"]
    /\ UNCHANGED <<storeVars, writeVars, pos, upos, page, examined, more, clientVars>>

ReadUser(d) ==
    /\ phase[d] = "user"
    /\ \E ru \in XRead(UserKey, UserReadPosition(d), SourceLimit) :
          /\ \E p \in Pages(d, dread[d], ru) : page' = [page EXCEPT ![d] = p]
          /\ examined' = [examined EXCEPT ![d] = ExaminedThrough(d, dread[d], ru)]
          /\ more' = [more EXCEPT ![d] = HasMore(d, dread[d], ru)]
    /\ dread' = [dread EXCEPT ![d] = NoRead]
    /\ phase' = [phase EXCEPT ![d] = "deliver"]
    /\ UNCHANGED <<storeVars, writeVars, pos, upos, start, clientVars>>

\* The next entry of the page in id order.  One that does not parse moves the
\* cursor and is not sent.
Deliver(d) ==
    /\ phase[d] = "deliver"
    /\ \E e \in page[d] :
          /\ \A f \in page[d] : e.id <= f.id
          /\ page' = [page EXCEPT ![d] = @ \ {e}]
          /\ pos' = [pos EXCEPT ![d] = e.id]
          /\ IF e.m \in Corrupt
             THEN UNCHANGED <<cursor, received>>
             ELSE /\ cursor' = [cursor EXCEPT ![d] = e.id]
                  /\ received' = [received EXCEPT ![d] = @ \cup {e.m}]
    /\ UNCHANGED <<storeVars, writeVars, phase, upos, start, dread, examined, more, opens>>

\* Mutant: the examined position is not kept.
ExaminedForgotten(d) == upos[d]

\* The user position a finished page leaves.
UserPositionAfter(d) == IF examined[d] # 0 THEN examined[d] ELSE upos[d]

Moved(d) == <<pos[d], UserPositionAfter(d)>> # start[d]

\* Reads on while the page says more remains and some position moved.
EndPage(d) ==
    /\ phase[d] = "deliver"
    /\ page[d] = {}
    /\ upos' = [upos EXCEPT ![d] = UserPositionAfter(d)]
    /\ phase' = [phase EXCEPT ![d] = IF more[d] /\ Moved(d) THEN "device" ELSE "idle"]
    /\ examined' = [examined EXCEPT ![d] = 0]
    /\ more' = [more EXCEPT ![d] = FALSE]
    /\ start' = [start EXCEPT ![d] = <<0, 0>>]
    /\ UNCHANGED <<storeVars, writeVars, pos, dread, page, clientVars>>

\* A read, a conversion or a send failed: the poll returns what it has not
\* delivered to the next one, and the stream goes on.
PollFails(d) ==
    /\ phase[d] \in {"device", "user", "deliver"}
    /\ phase' = [phase EXCEPT ![d] = "idle"]
    /\ start' = [start EXCEPT ![d] = <<0, 0>>]
    /\ dread' = [dread EXCEPT ![d] = NoRead]
    /\ page' = [page EXCEPT ![d] = {}]
    /\ examined' = [examined EXCEPT ![d] = 0]
    /\ more' = [more EXCEPT ![d] = FALSE]
    /\ UNCHANGED <<storeVars, writeVars, pos, upos, clientVars>>

\* The connection ends at any point; the client keeps its cursor.  The last of
\* the MaxOpens streams stays up.
Close(d) ==
    /\ phase[d] \notin {"closed", "pending"}
    /\ opens[d] < MaxOpens
    /\ phase' = [phase EXCEPT ![d] = "closed"]
    /\ pos' = [pos EXCEPT ![d] = 0]
    /\ upos' = [upos EXCEPT ![d] = 0]
    /\ start' = [start EXCEPT ![d] = <<0, 0>>]
    /\ dread' = [dread EXCEPT ![d] = NoRead]
    /\ page' = [page EXCEPT ![d] = {}]
    /\ examined' = [examined EXCEPT ![d] = 0]
    /\ more' = [more EXCEPT ![d] = FALSE]
    /\ UNCHANGED <<storeVars, writeVars, clientVars>>

----------------------------------------------------------------------------
(* GetPendingMessages: the same two reads from one cursor, under the queue *)
(* mutex of the instance that serves it.                                   *)

PendingReadDevice(d, i) ==
    /\ phase[d] = "closed"
    /\ wr[i] = Free
    /\ wr' = [wr EXCEPT ![i] = [stage |-> "reading", by |-> d]]
    /\ \E rd \in XRead(d, cursor[d], SourceLimit) : dread' = [dread EXCEPT ![d] = rd]
    /\ phase' = [phase EXCEPT ![d] = "pending"]
    /\ UNCHANGED <<storeVars, calls, acked, pos, upos, start, page, examined, more, clientVars>>

\* MailboxPage::resume_after: the furthest of the request's cursor, the last
\* delivered entry and the examined user entries.
ResumeAfter(since, p, through) ==
    LET reached == {since, through} \cup {e.id : e \in p}
    IN  {c \in reached : \A x \in reached : x <= c}

PendingReadUser(d, i) ==
    /\ phase[d] = "pending"
    /\ wr[i] = [stage |-> "reading", by |-> d]
    /\ wr' = [wr EXCEPT ![i] = Free]
    /\ \E ru \in XRead(UserKey, cursor[d], SourceLimit) :
       \E p \in Pages(d, dread[d], ru) :
          /\ \E c \in ResumeAfter(cursor[d], p, ExaminedThrough(d, dread[d], ru)) :
                cursor' = [cursor EXCEPT ![d] = c]
          /\ received' = [received EXCEPT ![d] = @ \cup ({e.m : e \in p} \ Corrupt)]
    /\ dread' = [dread EXCEPT ![d] = NoRead]
    /\ phase' = [phase EXCEPT ![d] = "closed"]
    /\ UNCHANGED <<storeVars, calls, acked, pos, upos, start, page, examined, more, opens>>

\* The second read fails, or the answer does not reach the client.
PendingFails(d, i) ==
    /\ phase[d] = "pending"
    /\ wr[i] = [stage |-> "reading", by |-> d]
    /\ wr' = [wr EXCEPT ![i] = Free]
    /\ dread' = [dread EXCEPT ![d] = NoRead]
    /\ phase' = [phase EXCEPT ![d] = "closed"]
    /\ UNCHANGED <<storeVars, calls, acked, pos, upos, start, page, examined, more, clientVars>>

----------------------------------------------------------------------------

Init ==
    /\ now = SeqSpan
    /\ stream = [s \in Stream |-> {}]
    /\ lastId = [s \in Stream |-> 0]
    /\ wr = [i \in Instance |-> Free]
    /\ calls = 0
    /\ acked = {}
    /\ phase = [d \in Reader |-> "closed"]
    /\ pos = [d \in Reader |-> 0]
    /\ upos = [d \in Reader |-> 0]
    /\ start = [d \in Reader |-> <<0, 0>>]
    /\ dread = [d \in Reader |-> NoRead]
    /\ page = [d \in Reader |-> {}]
    /\ examined = [d \in Reader |-> 0]
    /\ more = [d \in Reader |-> FALSE]
    /\ cursor = [d \in Reader |-> 0]
    /\ received = [d \in Reader |-> {}]
    /\ opens = [d \in Reader |-> 0]

Write(i) ==
    \/ \E m \in Msg : BeginWrite(i, m)
    \/ WriteUser(i)
    \/ WriteUserFails(i)
    \/ \E d \in Device : WriteDevice(i, d)
    \/ \E d \in Device : WriteDeviceFails(i, d)
    \/ EndWrite(i)

Connection(d) ==
    \/ Open(d)
    \/ Subscribe(d)
    \/ GraceElapses(d)
    \/ Wake(d)
    \/ ReadDevice(d)
    \/ ReadUser(d)
    \/ Deliver(d)
    \/ EndPage(d)
    \/ PollFails(d)
    \/ Close(d)

Pending(d, i) ==
    \/ PendingReadDevice(d, i)
    \/ PendingReadUser(d, i)
    \/ PendingFails(d, i)

Next ==
    \/ \E i \in Instance : Write(i)
    \/ \E d \in Reader : Connection(d)
    \/ \E d \in Reader : \E i \in Instance : Pending(d, i)

Spec == Init /\ [][Next]_vars

\* What the runtime gives an open stream: the grace timer and the fallback tick
\* fire, its task is scheduled, and Redis does not fail the same step of every
\* poll for ever.  A client keeps reconnecting, a request is answered or fails.
\* Nothing makes a client Subscribe or a sender send.
Fairness ==
    /\ \A d \in Reader :
          /\ SF_vars(Open(d))
          /\ WF_vars(GraceElapses(d))
          /\ WF_vars(Wake(d))
          /\ SF_vars(ReadDevice(d))
          /\ SF_vars(ReadUser(d))
          /\ SF_vars(Deliver(d))
          /\ SF_vars(EndPage(d))
    /\ \A d \in Reader, i \in Instance :
          WF_vars(PendingReadUser(d, i) \/ PendingFails(d, i))

FairSpec == Spec /\ Fairness

----------------------------------------------------------------------------
(* Properties. *)

Phase == {"closed", "await", "idle", "device", "user", "deliver", "pending"}

Reply == [got : SUBSET Entry, last : Nat]

WriteCall ==
    {Free}
    \cup [stage : {"user", "devices"}, m : Msg, todo : SUBSET Device, landed : BOOLEAN]
    \cup [stage : {"reading"}, by : Reader]

\* Every variable has the shape its declaration says.
TypeOK ==
    /\ now \in Nat
    /\ stream \in [Stream -> SUBSET Entry]
    /\ lastId \in [Stream -> Nat]
    /\ wr \in [Instance -> WriteCall]
    /\ calls \in Nat
    /\ acked \in SUBSET Msg
    /\ phase \in [Reader -> Phase]
    /\ pos \in [Reader -> Nat]
    /\ upos \in [Reader -> Nat]
    /\ start \in [Reader -> Nat \X Nat]
    /\ dread \in [Reader -> Reply]
    /\ page \in [Reader -> SUBSET Entry]
    /\ examined \in [Reader -> Nat]
    /\ more \in [Reader -> BOOLEAN]
    /\ cursor \in [Reader -> Nat]
    /\ received \in [Reader -> SUBSET Msg]
    /\ opens \in [Reader -> Nat]

Holds(s, m) == \E e \in stream[s] : e.m = m

\* A copy of m that a read of the device stream from p, or of the user stream
\* from q, would find.
Ahead(d, m, p, q) ==
    \/ \E e \in stream[d] : e.m = m /\ e.id > p
    \/ \E e \in stream[UserKey] : e.m = m /\ e.id > q

\* The mailbox owes m to d: it holds the copy that d reads whatever happened to
\* the device lookup and the device writes - the user copy while that stream is
\* written, the device copy once it is not.
Owed(d, m) ==
    /\ m \notin Corrupt
    /\ IF UserWrite THEN Holds(UserKey, m) /\ Named[m] \in {NoName, d}
                    ELSE Holds(d, m)

\* Dual read loses nothing: an envelope the mailbox owes to a device was handed
\* to its client, or lies after the one cursor the client resumes both streams
\* from - whatever the interleaving of XADDs with the two XREADs of a page, the
\* page limits, failed device writes, failed polls and reconnects.
OwedStaysReachable ==
    \A d \in Reader : \A m \in Msg :
        Owed(d, m) => m \in received[d] \/ Ahead(d, m, cursor[d], cursor[d])

\* The same within an open stream, for the two positions it reads from next:
\* what poll_messages skipped as examined never hides an undelivered envelope
\* until the next reconnect.
StreamReachesOwed ==
    \A d \in Reader : \A m \in Msg :
        phase[d] \in {"idle", "device"} /\ Owed(d, m) =>
            m \in received[d] \/ Ahead(d, m, pos[d], UserReadPosition(d))

\* The position a client is told never goes back while its stream is open,
\* though the page merges two streams read from different positions.
CursorNeverRewinds ==
    [][\A d \in Reader :
          phase[d] \notin {"closed", "await"} /\ phase'[d] # "closed" => pos'[d] >= pos[d]]_vars

\* Every envelope owed is handed over in the end, through sibling backlogs that
\* fill whole reads, failed polls, and clients that never Subscribe.
OwedIsDelivered ==
    \A d \in Reader : \A m \in Msg : Owed(d, m) ~> m \in received[d]

\* A write call that returned Ok left a copy in some stream of the account
\* (the "nowhere to land" check of write_message_to_device_streams).
AckedIsWritten == \A m \in acked : \E s \in Stream : Holds(s, m)

\* An envelope that names a device the account no longer has is written to
\* every device's stream instead, and no such copy is passed over either.
UnknownDeviceNeverDropped ==
    \A d \in Reader : \A m \in Msg :
        m \notin Corrupt /\ Named[m] \notin Device \cup {NoName} /\ Holds(d, m) =>
            m \in received[d] \/ Ahead(d, m, cursor[d], cursor[d])

----------------------------------------------------------------------------
(* The inductive invariant behind OwedStaysReachable and StreamReachesOwed, *)
(* for mailboxes no two XADDs of which share a millisecond.                 *)

\* The furthest id that has been told to, or read for, the client of d.
Passed(d) == IF pos[d] > cursor[d] THEN pos[d] ELSE cursor[d]

UserPassed(d) == IF upos[d] > Passed(d) THEN upos[d] ELSE Passed(d)

Missing(d, m) == Owed(d, m) /\ m \notin received[d]

\* Every new id is larger than every id so far.
ClockAhead ==
    /\ \A s \in Stream : lastId[s] <= now
    /\ \A s \in Stream : \A e \in stream[s] : e.id <= now /\ e.id > 0

IdsUnique ==
    \A s, t \in Stream : \A e \in stream[s] : \A f \in stream[t] :
        e.id = f.id => e = f

NoUserStream ==
    ~UserWrite => stream[UserKey] = {} /\ \A i \in Instance : wr[i].stage # "user"

\* ... and than every position of d.
PositionsBehind(d) ==
    /\ pos[d] <= now /\ upos[d] <= now /\ cursor[d] <= now /\ examined[d] <= now
    /\ dread[d].last <= now

\* Between connections the stream positions are reset.
PositionsReset(d) ==
    phase[d] \in {"closed", "await", "pending"} => pos[d] = 0 /\ upos[d] = 0

\* Between pages, a missing envelope has a copy after everything passed.
BetweenPages(d) ==
    phase[d] \in {"closed", "await", "idle", "device"} =>
        \A m \in Msg : Missing(d, m) => Ahead(d, m, Passed(d), UserPassed(d))

\* Between the two reads of a page, a missing envelope is in the device read,
\* or after it if it was full, or in the user stream where the second read
\* finds it.
BetweenReads(d) ==
    phase[d] \in {"user", "pending"} =>
        /\ \A e \in dread[d].got : e \in stream[d] /\ e.id > pos[d] /\ e.id <= dread[d].last
        /\ \A m \in Msg : Missing(d, m) =>
              \/ \E f \in dread[d].got : f.m = m /\ f.id > Passed(d)
              \/ /\ Full(dread[d]) \/ ~UserWrite
                 /\ \E f \in stream[d] : f.m = m /\ f.id > Passed(d) /\ f.id > dread[d].last
              \/ \E f \in stream[UserKey] : f.m = m /\ f.id > UserPassed(d)

\* A copy of m after a page p and what it examined.
AfterPage(d, m, p, through) ==
    \/ \E f \in stream[d] :
          /\ f.m = m /\ f.id > Passed(d) /\ f.id > through
          /\ \A g \in p : g.id < f.id
    \/ \E f \in stream[UserKey] :
          /\ f.m = m /\ f.id > UserPassed(d) /\ f.id > through
          /\ \A g \in p : g.id < f.id

\* While a page is delivered, a missing envelope is on it, or after it.
WithinPage(d) ==
    phase[d] = "deliver" =>
        /\ \A e \in page[d] :
              /\ e.id > pos[d]
              /\ e \in stream[d] \/ (e \in stream[UserKey] /\ e.id > upos[d])
        /\ \A m \in Msg : Missing(d, m) =>
              \/ (\E f \in page[d] : f.m = m) /\ Ahead(d, m, Passed(d), UserPassed(d))
              \/ AfterPage(d, m, page[d], examined[d])

StoreInv == ClockAhead /\ IdsUnique /\ NoUserStream

ReaderInv(d) ==
    /\ PositionsBehind(d)
    /\ PositionsReset(d)
    /\ BetweenPages(d)
    /\ BetweenReads(d)
    /\ WithinPage(d)

\* What the merge of two reads, the shared cursor and the examined position keep
\* true at every step; the two reachability properties follow from it.
ReadInv == TypeOK /\ StoreInv /\ \A d \in Reader : ReaderInv(d)

=============================================================================
