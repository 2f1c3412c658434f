----------------------------- MODULE MailboxGap -----------------------------
(***************************************************************************)
(* Retention of one mailbox stream, and how a reader learns of it.         *)
(*                                                                         *)
(* A stream loses entries three ways.  XADD MAXLEN ~ drops the oldest once *)
(* it is over its cap and records nothing.  The hourly sweep of each       *)
(* messaging-service process (trim_streams_by_age) drops what is older     *)
(* than its cutoff with XTRIM, in four commands: it reads the newest entry *)
(* it is about to drop, trims, and then raises the stream's                *)
(* max-deleted-entry-id with XINFO and XSETID (record_deleted).  A block   *)
(* (purge_sender_from_one_stream) XDELs the sender's entries, which raises *)
(* the mark by itself.                                                     *)
(*                                                                         *)
(* mailbox_gap compares what XINFO STREAM says with the cursor of a        *)
(* reader, before the first page of a MessageStream and after the page of  *)
(* GetPendingMessages.  Sweeps, writes and GetPendingMessages hold their   *)
(* process's queue mutex; streams and blocks do not.  The two streams of a *)
(* device are checked by the same rule, so one is modelled.                *)
(***************************************************************************)
EXTENDS Integers, FiniteSets

CONSTANTS
    Sweeper,    \* messaging-service processes
    Cap,         \* queue_maxlen_standard
    Api,         \* the calls the client reads with: "stream", "pending"
    Purgeable,   \* ids of the entries a later block purges
    MaxAdds,     \* bound: entries written
    MaxSweeps    \* bound: sweeps of each process

ASSUME CapAssumption == Cap \in Nat \ {0}
ASSUME ApiAssumption == Api \subseteq {"stream", "pending"}
ASSUME IdAssumption == Purgeable \subseteq Nat
ASSUME GapBounds == MaxAdds \in Nat \ {0} /\ MaxSweeps \in Nat

VARIABLES
    entries,    \* ids of the entries the stream holds
    clock,      \* the last id XADD * gave
    newestId,     \* last-generated-id
    maxDel,     \* max-deleted-entry-id, 0 for none
    trimmed,    \* ids XADD or XTRIM dropped
    purged,     \* ids XDEL dropped
    sweep,      \* sweep[i]: where the sweep of process i is
    sweeps,     \* sweeps each process has begun
    reading,    \* the read under way for the client
    gapCursor,     \* the position the client resumes from
    got,        \* ids the client was handed
    told,       \* ids inside a gap the client was told of
    unseen,     \* ids trimmed too late for the check: under an open stream, or by a
                \* sweep that had not recorded them yet
    disturbed   \* whether a sweep or a check has met a failure, or a sweep has
                \* put the mark back

streamVars == <<entries, clock, newestId, maxDel, trimmed, purged>>
sweepVars == <<sweep, sweeps>>
readerVars == <<reading, gapCursor, got, told>>
gapVars == <<streamVars, sweepVars, readerVars, unseen, disturbed>>

Off == [stage |-> "off"]

----------------------------------------------------------------------------
(* The stream. *)

First(ids) == {x \in ids : \A y \in ids : x <= y}
Last(ids) == {x \in ids : \A y \in ids : y <= x}

\* What MAXLEN ~ may leave of ids: whole nodes go from the old end, and never
\* so many that fewer than the cap remain.
TrimmedToCap(ids) ==
    {kept \in SUBSET ids :
        /\ \A x \in kept : \A y \in ids \ kept : y < x
        /\ kept = ids \/ Cardinality(kept) >= Cap}

\* A write of process i, under its mutex.
GapXAdd(i) ==
    /\ sweep[i] = Off
    /\ clock < MaxAdds
    /\ clock' = clock + 1
    /\ newestId' = clock'
    /\ \E kept \in TrimmedToCap(entries \cup {clock'}) :
          /\ entries' = kept
          /\ trimmed' = trimmed \cup ((entries \cup {clock'}) \ kept)
    /\ UNCHANGED <<maxDel, purged, sweepVars, readerVars, unseen, disturbed>>

\* A block: XDEL of the sender's entries, which moves max-deleted-entry-id up.
Purge ==
    LET dropped == entries \cap Purgeable
    IN  /\ dropped # {}
        /\ entries' = entries \ dropped
        /\ purged' = purged \cup dropped
        /\ \E x \in Last(dropped) : maxDel' = IF x > maxDel THEN x ELSE maxDel
        /\ UNCHANGED <<clock, newestId, trimmed, sweepVars, readerVars, unseen, disturbed>>

----------------------------------------------------------------------------
(* trim_streams_by_age and record_deleted, a command at a time. *)

\* XREVRANGE COUNT 1 below the cutoff: the newest entry the trim will drop, none
\* if the command fails.
SweepLook(i) ==
    /\ sweep[i] = Off
    /\ sweeps[i] < MaxSweeps
    /\ sweeps' = [sweeps EXCEPT ![i] = @ + 1]
    /\ \E cutoff \in 1..(clock + 1), failed \in BOOLEAN :
       LET old == {x \in entries : x < cutoff}
       IN  /\ \E removed \in IF old = {} \/ failed THEN {0} ELSE Last(old) :
                 sweep' = [sweep EXCEPT ![i] =
                             [stage |-> "trim", cutoff |-> cutoff, removed |-> removed]]
           /\ disturbed' = (disturbed \/ failed)
    /\ UNCHANGED <<streamVars, readerVars, unseen>>

\* XTRIM MINID.  Its count is what the sweep goes by, 0 if the answer is lost.
SweepTrim(i) ==
    /\ sweep[i].stage = "trim"
    /\ LET old == {x \in entries : x < sweep[i].cutoff}
       IN  /\ entries' = entries \ old
           /\ trimmed' = trimmed \cup old
           /\ \E lost \in BOOLEAN :
                 /\ disturbed' = (disturbed \/ lost)
                 /\ sweep' = [sweep EXCEPT ![i] =
                                IF old # {} /\ ~lost /\ sweep[i].removed # 0
                                THEN [stage |-> "info", removed |-> @.removed, tries |-> 0]
                                ELSE Off]
    /\ UNCHANGED <<clock, newestId, maxDel, purged, sweeps, readerVars, unseen>>

\* Mutant: a stream that has a mark keeps the one it has.
FirstMarkStays(i) ==
    /\ sweep[i].stage = "info"
    /\ sweep' = [sweep EXCEPT ![i] =
                   IF maxDel # 0 THEN Off
                   ELSE [stage |-> "set", removed |-> @.removed, tries |-> @.tries,
                         last |-> newestId]]
    /\ UNCHANGED <<streamVars, sweeps, readerVars, unseen, disturbed>>

\* XINFO STREAM: nothing to record if the mark is there already.
SweepInfo(i) ==
    /\ sweep[i].stage = "info"
    /\ sweep' = [sweep EXCEPT ![i] =
                   IF maxDel >= @.removed THEN Off
                   ELSE [stage |-> "set", removed |-> @.removed, tries |-> @.tries,
                         last |-> newestId]]
    /\ UNCHANGED <<streamVars, sweeps, readerVars, unseen, disturbed>>

\* One retry from XINFO, then the trim goes unrecorded.
Retry(i) ==
    sweep' = [sweep EXCEPT ![i] =
                IF @.tries = 0
                THEN [stage |-> "info", removed |-> @.removed, tries |-> 1]
                ELSE Off]

\* XSETID last MAXDELETEDID removed: refused when last is below the newest entry.
SweepSetId(i) ==
    /\ sweep[i].stage = "set"
    /\ IF \A x \in entries : x <= sweep[i].last
       THEN /\ maxDel' = sweep[i].removed
            /\ newestId' = sweep[i].last
            /\ sweep' = [sweep EXCEPT ![i] = Off]
            /\ disturbed' = (disturbed \/ maxDel > sweep[i].removed)
       ELSE /\ Retry(i)
            /\ disturbed' = (disturbed \/ sweep[i].tries = 1)
            /\ UNCHANGED <<maxDel, newestId>>
    /\ UNCHANGED <<entries, clock, trimmed, purged, sweeps, readerVars, unseen>>

\* A command fails: XTRIM and XINFO end the sweep of this stream, XSETID retries.
SweepFails(i) ==
    /\ \/ sweep[i].stage \in {"trim", "info"} /\ sweep' = [sweep EXCEPT ![i] = Off]
       \/ sweep[i].stage = "set" /\ Retry(i)
    /\ disturbed' = TRUE
    /\ UNCHANGED <<streamVars, sweeps, readerVars, unseen>>

----------------------------------------------------------------------------
(* gap::mailbox_gap on one XINFO STREAM. *)

EntriesAdded == clock

AtCap == Cardinality(entries) >= (Cap * 9) \div 10

BeforeAll(after) == \A x \in entries : x > after

\* The mark is after the cursor, or a full stream that lost something is read
\* from before its first entry.
Gap(after) ==
    \/ maxDel # 0 /\ maxDel > after
    \/ EntriesAdded > Cardinality(entries) /\ AtCap /\ BeforeAll(after)

\* The interval a gap names: from the cursor to the oldest entry still held.
Interval(after) ==
    IF Gap(after) THEN {x \in 1..clock : x > after /\ \A y \in entries : x < y} ELSE {}

\* Trimmed by a sweep that is between its XTRIM and its XSETID.
Unrecorded ==
    {x \in trimmed : \E i \in Sweeper :
        sweep[i].stage \in {"info", "set"} /\ x <= sweep[i].removed}

\* What a check from the cursor tells the client.  A failed check is no gap.
Check ==
    /\ \E failed \in BOOLEAN :
          /\ told' = IF failed THEN told ELSE told \cup Interval(gapCursor)
          /\ disturbed' = (disturbed \/ failed)
    /\ unseen' = unseen \cup Unrecorded

----------------------------------------------------------------------------
(* The client. *)

\* Subscribe with the cursor: the gap check, once, before the first page.
GapSubscribe ==
    /\ "stream" \in Api
    /\ reading = Off
    /\ Check
    /\ reading' = [stage |-> "stream", before |-> trimmed]
    /\ UNCHANGED <<streamVars, sweepVars, gapCursor, got>>

\* The next entry of the next page of the stream.
GapDeliver ==
    /\ reading.stage = "stream"
    /\ \E x \in First({y \in entries : y > gapCursor}) :
          /\ gapCursor' = x
          /\ got' = got \cup {x}
          /\ unseen' = unseen \cup {y \in trimmed \ reading.before : gapCursor < y /\ y < x}
    /\ UNCHANGED <<streamVars, sweepVars, reading, told, disturbed>>

Disconnect ==
    /\ reading.stage = "stream"
    /\ reading' = Off
    /\ UNCHANGED <<streamVars, sweepVars, gapCursor, got, told, unseen, disturbed>>

\* GetPendingMessages on process i: the page, ...
PendingRead(i) ==
    /\ "pending" \in Api
    /\ reading = Off
    /\ sweep[i] = Off
    /\ reading' = [stage |-> "pending", by |-> i, page |-> First({x \in entries : x > gapCursor})]
    /\ UNCHANGED <<streamVars, sweepVars, gapCursor, got, told, unseen, disturbed>>

\* ... then, under the mutex again, the gap check from the same cursor.
PendingCheck(i) ==
    /\ reading.stage = "pending"
    /\ reading.by = i
    /\ sweep[i] = Off
    /\ Check
    /\ got' = got \cup reading.page
    /\ \E c \in IF reading.page = {} THEN {gapCursor} ELSE reading.page : gapCursor' = c
    /\ reading' = Off
    /\ UNCHANGED <<streamVars, sweepVars>>

----------------------------------------------------------------------------

\* A client that has read the first entry.
GapInit ==
    /\ entries = {1}
    /\ clock = 1
    /\ newestId = 1
    /\ maxDel = 0
    /\ trimmed = {}
    /\ purged = {}
    /\ sweep = [i \in Sweeper |-> Off]
    /\ sweeps = [i \in Sweeper |-> 0]
    /\ reading = Off
    /\ gapCursor = 1
    /\ got = {1}
    /\ told = {}
    /\ unseen = {}
    /\ disturbed = FALSE

Sweep(i) == SweepLook(i) \/ SweepTrim(i) \/ SweepInfo(i) \/ SweepSetId(i) \/ SweepFails(i)

GapNext ==
    \/ \E i \in Sweeper : GapXAdd(i)
    \/ Purge
    \/ \E i \in Sweeper : Sweep(i)
    \/ GapSubscribe
    \/ GapDeliver
    \/ Disconnect
    \/ \E i \in Sweeper : PendingRead(i)
    \/ \E i \in Sweeper : PendingCheck(i)

GapSpec == GapInit /\ [][GapNext]_gapVars

----------------------------------------------------------------------------
(* Properties. *)

SweepState ==
    {Off}
    \cup [stage : {"trim"}, cutoff : Nat, removed : Nat]
    \cup [stage : {"info"}, removed : Nat, tries : 0..1]
    \cup [stage : {"set"}, removed : Nat, tries : 0..1, last : Nat]

\* The shape of every variable.
GapTypeOK ==
    /\ entries \in SUBSET Nat
    /\ clock \in Nat /\ newestId \in Nat /\ maxDel \in Nat /\ gapCursor \in Nat
    /\ trimmed \in SUBSET Nat /\ purged \in SUBSET Nat
    /\ sweep \in [Sweeper -> SweepState]
    /\ sweeps \in [Sweeper -> Nat]
    /\ reading \in {Off} \cup [stage : {"stream"}, before : SUBSET Nat]
                   \cup [stage : {"pending"}, by : Sweeper, page : SUBSET Nat]
    /\ got \in SUBSET Nat /\ told \in SUBSET Nat /\ unseen \in SUBSET Nat
    /\ disturbed \in BOOLEAN

\* Between sweeps, what was trimmed can be seen: from any cursor with a trimmed
\* entry after it, the rule of gap::mailbox_gap reports a gap, unless a sweep
\* was disturbed.
TrimIsVisible ==
    (\A i \in Sweeper : sweep[i] = Off) /\ ~disturbed =>
        \A after \in 1..clock : (\E x \in trimmed : x > after) => Gap(after)

\* An entry that was trimmed before the client was handed it, and that its cursor
\* has passed, lies in a gap it was told of, unless it was trimmed under an open
\* stream, its sweep had not recorded it when the check was made, or a sweep or
\* the check was disturbed.
GapNeverHidden ==
    ~disturbed => \A x \in trimmed : x < gapCursor => x \in got \cup told \cup unseen

\* The mark names an entry that was really deleted, so a reader whose cursor is
\* before the mark has a deletion after its cursor, even when commands fail.
MarkIsDeleted == maxDel = 0 \/ maxDel \in trimmed \cup purged

\* What retention takes from a reader it is told of: the mark is never a fiction,
\* between undisturbed sweeps it shows every trim, and no cursor passes a trimmed
\* entry in silence (trim_streams_by_age, record_deleted, mailbox_gap).
LossIsTold == TrimIsVisible /\ GapNeverHidden /\ MarkIsDeleted

=============================================================================
