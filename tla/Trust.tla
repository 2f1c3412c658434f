------------------------------- MODULE Trust -------------------------------
(***************************************************************************)
(* What an identified send passes before it is dispatched: the Sentinel    *)
(* (bans, flags, blocks between devices, quotas) and the limits by account *)
(* age (trust.rs); and the calls that change them.                         *)
(*                                                                         *)
(* The calls of a plan run at the same time, in steps of one Redis or      *)
(* database access.  Both may fail an access, and an instance may die      *)
(* between two steps of a call.  Bans and block lists are rows with a      *)
(* cache in front; the counters are Redis keys that end with their window. *)
(* Statistics are left out.  A quota the Sentinel cannot count in Redis is *)
(* counted by the instance, as the door of Gates does: here either answer. *)
(* No code gives a ban an end, so the branch for one that ended is out;    *)
(* "warming", between "new" and "trusted", differs in numbers only.        *)
(***************************************************************************)
EXTENDS Integers, Sequences, FiniteSets

CONSTANTS
    TrustPlan,      \* bound: [calls, errors, cuts]; a call: [kind, by, to, named, brief]
    SDevice,        \* devices
    UserOf,         \* their accounts
    MsgLimit,       \* msg_limit_hour, by level
    CopyLimit,      \* OWN_COPY_LIMIT_HOUR
    HourLimit,      \* hourly_limit, by account level
    FanLimit,       \* fanout_limit, by account level ("trusted" has none)
    ReportsMax,     \* REPORT_RATE_LIMIT
    FlagReports, FlagReporters, BanReports, BanReporters  \* the escalation thresholds

VARIABLES
    trustPlan,    \* the scenario
    bans, flags,  \* device_flags: is_banned, is_flagged
    banKey, flagKey,      \* sentinel:ban, sentinel:flag
    deviceBlocks,      \* device_blocks
    blockKey,     \* sentinel:blocks: [on, of, ends] by blocker
    age,          \* "new" or "trusted", devices and accounts alike
    ageKey,       \* trust:{user}: the cached account age
    msgs, copies, \* sentinel:rate:msg by device and by account, own copies by account
    hourly, fanout,       \* rate:msg:{user}:hour, and the recipients of the day
    reportRate,   \* sentinel:rate:report
    reports,      \* sentinel:reports
    reporters,    \* sentinel:reporters
    ttl,          \* keys of the three that have an expiry
    tcall,        \* the progress of each call
    terrors, tcuts,       \* history: failed accesses, calls cut short
    blurred,      \* history: devices whose ban and unban, or lookup, overlapped or were cut
    stale,        \* history: blockers whose list was read before a change and cached after, or not dropped
    recent,       \* history: reports counted against a device in this window, by report
    lasted,       \* history: devices with a counter of an earlier window
    overdue,      \* history: devices whose temporary ban should have ended
    hasty,        \* history: devices banned on fewer reports than the rule asks for
    sentBy,       \* history: sends the Sentinel let pass in this hour, and the largest limit used
    wrote         \* history: [known, new] recipients fanout let pass today, known ones it refused

Users == {UserOf[d] : d \in SDevice}
rowsAndKeys == <<bans, flags, banKey, flagKey>>
blockLists == <<deviceBlocks, blockKey>>
ages == <<age, ageKey>>
windows == <<msgs, copies, hourly, fanout>>
reporting == <<reportRate, reports, reporters, ttl>>
escalations == <<recent, lasted, hasty, overdue>>
trustHistory == <<blurred, stale, sentBy, wrote>>
trustVars == <<trustPlan, rowsAndKeys, blockLists, ages, windows, reporting, tcall, terrors, tcuts, escalations, trustHistory>>

TrustCall(i) == trustPlan.calls[i]
Sender(i) == TrustCall(i).by
Target(i) == TrustCall(i).to
Me(i) == UserOf[Sender(i)]
TCalls == DOMAIN trustPlan.calls
TAt(i, at) == tcall[i].at = at
TTo(i, at) == tcall' = [tcall EXCEPT ![i].at = at]
Errs(i) == terrors < trustPlan.errors /\ terrors' = terrors + 1
Fine == terrors' = terrors
\* A step of a call that failed: the call goes on, marked.
Marked(i, at) == tcall' = [tcall EXCEPT ![i].at = at, ![i].err = TRUE]
TEnds(i, answer) == tcall' = [tcall EXCEPT ![i].at = answer, ![i].rows = {}, ![i].level = "none"]
NewTCall == [at |-> "new", level |-> "none", rows |-> {}, err |-> FALSE, again |-> FALSE, slipped |-> FALSE, banned |-> FALSE, blocked |-> FALSE]

\* is_own_copy
OwnCopy(i) == TrustCall(i).kind = "send" /\ Me(i) = UserOf[Target(i)]
\* The device whose block list is asked: the sender's own when the envelope names none, and for a copy.
AskedOf(i) == IF OwnCopy(i) \/ ~TrustCall(i).named THEN Sender(i) ELSE Target(i)

\* No ban or unban of the device is under way, and the row stands; likewise for a block.
StandingBan(d) == d \in bans /\ \A j \in TCalls : Target(j) = d => ~TAt(j, "unban") /\ ~TAt(j, "unban row")
Firm(b, d) == <<b, d>> \in deviceBlocks /\ \A j \in TCalls : <<Sender(j), Target(j)>> = <<b, d>> => ~TAt(j, "block key") /\ ~TAt(j, "unblock")

TBegins(i, kind, first) ==
    /\ TAt(i, "new") /\ TrustCall(i).kind = kind
    /\ tcall' = [tcall EXCEPT ![i].at = first, ![i].banned = StandingBan(Sender(i)), ![i].blocked = Firm(AskedOf(i), Sender(i))]
    /\ UNCHANGED <<trustPlan, rowsAndKeys, blockLists, ages, windows, reporting, terrors, tcuts, escalations, trustHistory>>

\* SendMessage and the stream's Send ask the same questions.
SendRegular(i) == TBegins(i, "send", "level")
CheckSendPermission(i) == TBegins(i, "check", "level")
GetTrustStatus(i) == TBegins(i, "status", "level")
\* Reporting or blocking oneself is refused.
ReportSpam(i) == Sender(i) # Target(i) /\ TBegins(i, "report", "rate")
BlockDevice(i) == Sender(i) # Target(i) /\ TBegins(i, "block", "block")
UnblockDevice(i) == TBegins(i, "unblock", "unblock")
\* duration_seconds is not read.
AdminBanDevice(i) == TBegins(i, "ban", "ban")
AdminUnbanDevice(i) == TBegins(i, "unban", "unban")
AdminClearFlag(i) == TBegins(i, "unflag", "unflag")
TimeBegins(i) == TBegins(i, "hour", "hour") \/ TBegins(i, "month", "month")

\* The answers that stop a send: RATE_LIMIT may be retried, BLOCKED may not.
Refuse(i, answer) == TEnds(i, answer)
RateLimited(i) == TEnds(i, "limited")
\* The Sentinel had nothing against it: a send goes on to the limits by age.
Onwards(i) == IF TrustCall(i).kind = "check" THEN "allowed" ELSE "age"
\* The Sentinel failed: a send passes it.
FailsOpen(i) == Errs(i) /\ Marked(i, IF TrustCall(i).kind = "check" THEN "failed" ELSE "age")

----------------------------------------------------------------------------
(* trust_level                                                             *)

\* The lookup has its answer.  A copy of a flagged or banned device is asked for
\* again, as any send: it has no window of its own.
Level(i, level) ==
    LET own == OwnCopy(i) /\ ~tcall[i].again
        next == IF TrustCall(i).kind = "status" THEN "answered"
                ELSE IF own THEN (IF level \in {"flagged", "banned"} THEN "level" ELSE "copy")
                ELSE IF level = "banned" THEN "denied" ELSE "blocked"
    IN tcall' = [tcall EXCEPT ![i].at = next, ![i].level = level, ![i].err = @ \/ terrors' > terrors,
                              ![i].again = OwnCopy(i)]

\* A key that cannot be read is a key that is not there.
LookBanKey(i) ==
    /\ TAt(i, "level")
    /\ IF Sender(i) \in banKey THEN (Fine /\ Level(i, "banned")) \/ (Errs(i) /\ Marked(i, "flag key"))
       ELSE Fine /\ TTo(i, "flag key")
    /\ UNCHANGED <<trustPlan, rowsAndKeys, blockLists, ages, windows, reporting, tcuts, escalations, trustHistory>>

LookFlagKey(i) ==
    /\ TAt(i, "flag key")
    /\ IF Sender(i) \in flagKey THEN (Fine /\ Level(i, "flagged")) \/ (Errs(i) /\ Marked(i, "row"))
       ELSE Fine /\ TTo(i, "row")
    /\ UNCHANGED <<trustPlan, rowsAndKeys, blockLists, ages, windows, reporting, tcuts, escalations, trustHistory>>

\* The row, then the device's age.
RowLevel(d) == IF d \in bans THEN "banned" ELSE IF d \in flags THEN "flagged" ELSE age

LookRow(i) ==
    /\ TAt(i, "row")
    /\ LET level == RowLevel(Sender(i))
       IN \/ Fine /\ (IF level \in {"banned", "flagged"} THEN tcall' = [tcall EXCEPT ![i].at = "cache", ![i].level = level]
                      ELSE Level(i, level))
          \/ Errs(i) /\ Level(i, "flagged")
    /\ UNCHANGED <<trustPlan, rowsAndKeys, blockLists, ages, windows, reporting, tcuts, escalations, trustHistory>>

UnbanUnderWay(d) == \E j \in TCalls : TAt(j, "unban row") /\ Target(j) = d
BanUnderWay(d) == \E j \in TCalls : TAt(j, "ban row") /\ Target(j) = d
LookupUnderWay(d) == \E j \in TCalls : TAt(j, "cache") /\ Sender(j) = d

\* The answer is cached; failing to is nothing.
CacheLevel(i) ==
    /\ TAt(i, "cache")
    /\ LET d == Sender(i)
           level == tcall[i].level
       IN /\ \/ /\ Fine
                /\ banKey' = IF level = "banned" THEN banKey \cup {d} ELSE banKey
                /\ flagKey' = IF level = "flagged" THEN flagKey \cup {d} ELSE flagKey
             \/ Errs(i) /\ UNCHANGED <<banKey, flagKey>>
          /\ blurred' = IF UnbanUnderWay(d) THEN blurred \cup {d} ELSE blurred
          /\ Level(i, level)
    /\ UNCHANGED <<trustPlan, bans, flags, blockLists, ages, windows, reporting, tcuts, escalations, stale, sentBy, wrote>>

----------------------------------------------------------------------------
(* is_blocked                                                              *)

\* The recipient's list, if the cache has it; a read that fails is "not a member".
BlockedInCache(i) ==
    /\ TAt(i, "blocked")
    /\ IF blockKey[AskedOf(i)].on /\ Sender(i) \in blockKey[AskedOf(i)].of
       THEN (Fine /\ Refuse(i, "denied")) \/ (Errs(i) /\ Marked(i, "block list"))
       ELSE Fine /\ TTo(i, "block list")
    /\ UNCHANGED <<trustPlan, rowsAndKeys, blockLists, ages, windows, reporting, tcuts, escalations, trustHistory>>

\* An error here lets the send pass the whole of the Sentinel.
BlockListCached(i) ==
    /\ TAt(i, "block list")
    /\ \/ Fine /\ TTo(i, IF blockKey[AskedOf(i)].on THEN "quota" ELSE "block rows")
       \/ FailsOpen(i)
    /\ UNCHANGED <<trustPlan, rowsAndKeys, blockLists, ages, windows, reporting, tcuts, escalations, trustHistory>>

\* The devices a device has blocked.
BlockedDevices(b) == {d \in SDevice : <<b, d>> \in deviceBlocks}

BlockRows(i) ==
    /\ TAt(i, "block rows")
    /\ \/ Fine /\ tcall' = [tcall EXCEPT ![i].at = "block fill", ![i].rows = BlockedDevices(AskedOf(i))]
       \/ FailsOpen(i)
    /\ UNCHANGED <<trustPlan, rowsAndKeys, blockLists, ages, windows, reporting, tcuts, escalations, trustHistory>>

\* SADD and EXPIRE.  An empty list leaves no key, so nothing marks it as read.
Filled(key, rows) == IF rows = {} THEN key ELSE [key EXCEPT !.on = TRUE, !.of = @ \cup rows]
\* History: the fill comes between another send's two looks at the key.
SlipsPast(j, i) == TAt(j, "block list") /\ AskedOf(j) = AskedOf(i)
BlockFill(i) ==
    /\ TAt(i, "block fill")
    /\ LET b == AskedOf(i)
           full == Filled(blockKey[b], tcall[i].rows)
           mine == [tcall[i] EXCEPT !.at = IF Sender(i) \in tcall[i].rows THEN "denied" ELSE "quota", !.rows = {}]
       IN \/ /\ Fine
             /\ blockKey' = [blockKey EXCEPT ![b] = [full EXCEPT !.ends = full.on]]
             /\ tcall' = [j \in TCalls |-> IF j = i THEN mine ELSE [tcall[j] EXCEPT !.slipped = @ \/ SlipsPast(j, i)]]
          \/ /\ FailsOpen(i)
             /\ \E key \in {blockKey[b], full} : blockKey' = [blockKey EXCEPT ![b] = key]
    /\ UNCHANGED <<trustPlan, rowsAndKeys, deviceBlocks, ages, windows, reporting, tcuts, escalations, trustHistory>>

FillUnderWay(b) == \E j \in TCalls : TAt(j, "block fill") /\ AskedOf(j) = b
NotesFill(b) == stale' = IF FillUnderWay(b) THEN stale \cup {b} ELSE stale

\* block_device, unblock_device: the row, then invalidate_block_cache.
DeviceBlockRow(i) ==
    /\ TAt(i, "block") \/ TAt(i, "unblock")
    /\ deviceBlocks' = IF TAt(i, "block") THEN deviceBlocks \cup {<<Sender(i), Target(i)>>} ELSE deviceBlocks \ {<<Sender(i), Target(i)>>}
    /\ tcall' = [j \in TCalls |-> IF j = i THEN [tcall[i] EXCEPT !.at = "block key"]
                                  ELSE IF AskedOf(j) = Sender(i) /\ Sender(j) = Target(i) /\ TAt(i, "unblock")
                                  THEN [tcall[j] EXCEPT !.blocked = FALSE] ELSE tcall[j]]
    /\ NotesFill(Sender(i))
    /\ UNCHANGED <<trustPlan, rowsAndKeys, blockKey, ages, windows, reporting, terrors, tcuts, escalations, blurred, sentBy, wrote>>

NoBlockKey == [on |-> FALSE, of |-> {}, ends |-> FALSE]
\* Mutant: the cached list is left to expire.
LeftToExpire(key) == key
\* DEL
Dropped(key) == NoBlockKey

BlockKeyDropped(i) ==
    /\ TAt(i, "block key") /\ TEnds(i, "done")
    /\ \/ Fine /\ blockKey' = [blockKey EXCEPT ![Sender(i)] = Dropped(@)] /\ NotesFill(Sender(i))
       \/ Errs(i) /\ blockKey' = blockKey /\ stale' = stale \cup {Sender(i)}
    /\ UNCHANGED <<trustPlan, rowsAndKeys, deviceBlocks, ages, windows, reporting, tcuts, escalations, blurred, sentBy, wrote>>

----------------------------------------------------------------------------
(* charge_window                                                           *)

\* quota_outcome
WithinQuota(used, limit) == used <= limit

LetPass(i, limit) == sentBy' = [sentBy EXCEPT ![Sender(i)].n = @ + 1, ![Sender(i)].most = IF limit > @ THEN limit ELSE @]

\* consume_msg_quota
ChargeDevice(i) ==
    /\ TAt(i, "quota")
    /\ LET limit == MsgLimit[tcall[i].level]
       IN \/ /\ Fine /\ msgs' = [msgs EXCEPT ![Sender(i)] = @ + 1]
             /\ IF WithinQuota(msgs'[Sender(i)], limit) THEN TTo(i, "user quota") ELSE Refuse(i, "limited")
          \/ /\ Errs(i) /\ msgs' = msgs
             /\ Marked(i, "user quota") \/ Refuse(i, "limited")
    /\ UNCHANGED <<trustPlan, rowsAndKeys, blockLists, ages, copies, hourly, fanout, reporting, tcuts, escalations, trustHistory>>

\* consume_user_msg_quota: the device's limit again, over all devices of the account.
ChargeUser(i) ==
    /\ TAt(i, "user quota")
    /\ LET limit == MsgLimit[tcall[i].level]
       IN \/ /\ Fine /\ msgs' = [msgs EXCEPT ![Me(i)] = @ + 1]
             /\ IF WithinQuota(msgs'[Me(i)], limit) THEN TTo(i, Onwards(i)) /\ LetPass(i, limit)
                ELSE Refuse(i, "limited") /\ sentBy' = sentBy
          \/ /\ Errs(i) /\ msgs' = msgs /\ sentBy' = sentBy
             /\ Marked(i, Onwards(i)) \/ Refuse(i, "limited")
    /\ UNCHANGED <<trustPlan, rowsAndKeys, blockLists, ages, copies, hourly, fanout, reporting, tcuts, escalations, blurred, stale, wrote>>

\* check_own_copy_permission: a window of the account's own.
ChargeCopy(i) ==
    /\ TAt(i, "copy")
    /\ \/ /\ Fine /\ copies' = [copies EXCEPT ![Me(i)] = @ + 1]
          /\ IF WithinQuota(copies'[Me(i)], CopyLimit) THEN TTo(i, "age") ELSE Refuse(i, "limited")
       \/ /\ Errs(i) /\ copies' = copies
          /\ Marked(i, "age") \/ Refuse(i, "limited")
    /\ UNCHANGED <<trustPlan, rowsAndKeys, blockLists, ages, msgs, hourly, fanout, reporting, tcuts, escalations, trustHistory>>

----------------------------------------------------------------------------
(* get_trust_level, check_send_limits                                      *)

\* A read that fails is a miss; without a connection both limits are skipped.
AgeCached(i) ==
    /\ TAt(i, "age")
    /\ \/ /\ Fine
          /\ IF ageKey[Me(i)] = "none" THEN TTo(i, "age row")
             ELSE tcall' = [tcall EXCEPT ![i].at = "hourly", ![i].level = ageKey[Me(i)]]
       \/ Errs(i) /\ (Marked(i, "age row") \/ Marked(i, "allowed"))
    /\ UNCHANGED <<trustPlan, rowsAndKeys, blockLists, ages, windows, reporting, tcuts, escalations, trustHistory>>

\* A failed query is an age of 0.
AgeRow(i) ==
    /\ TAt(i, "age row")
    /\ \/ Fine /\ tcall' = [tcall EXCEPT ![i].at = "age cache", ![i].level = age]
       \/ Errs(i) /\ tcall' = [tcall EXCEPT ![i].at = "age cache", ![i].level = "new", ![i].err = TRUE]
    /\ UNCHANGED <<trustPlan, rowsAndKeys, blockLists, ages, windows, reporting, tcuts, escalations, trustHistory>>

AgeCache(i) ==
    /\ TAt(i, "age cache")
    /\ \/ Fine /\ ageKey' = [ageKey EXCEPT ![Me(i)] = tcall[i].level] /\ TTo(i, "hourly")
       \/ Errs(i) /\ ageKey' = ageKey /\ Marked(i, "hourly")
    /\ UNCHANGED <<trustPlan, rowsAndKeys, blockLists, age, windows, reporting, tcuts, escalations, trustHistory>>

\* check_send_limits: a copy counts toward neither.
CopyPasses(i) ==
    /\ TAt(i, "hourly") /\ OwnCopy(i) /\ TEnds(i, "allowed")
    /\ UNCHANGED <<trustPlan, rowsAndKeys, blockLists, ages, windows, reporting, terrors, tcuts, escalations, trustHistory>>

\* check_hourly_rate: a refused send is not counted; an error lets it pass.
Hourly(i) ==
    /\ TAt(i, "hourly") /\ ~OwnCopy(i)
    /\ LET room == hourly[Me(i)] < HourLimit[tcall[i].level]
           next == IF tcall[i].level = "trusted" THEN "allowed" ELSE "fanout"
       IN \/ /\ Fine
             /\ hourly' = IF room THEN [hourly EXCEPT ![Me(i)] = @ + 1] ELSE hourly
             /\ IF room THEN TTo(i, next) ELSE RateLimited(i)
          \/ Errs(i) /\ hourly' = hourly /\ Marked(i, next)
    /\ UNCHANGED <<trustPlan, rowsAndKeys, blockLists, ages, msgs, copies, fanout, reporting, tcuts, escalations, trustHistory>>

\* The script: a recipient of today passes, a new one if there is room.
FanRoom(u, r, limit) == r \in fanout[u] \/ Cardinality(fanout[u]) < limit

\* check_fanout_rate
Fanout(i) ==
    /\ TAt(i, "fanout")
    /\ LET u == Me(i)
           r == UserOf[Target(i)]
           ok == FanRoom(u, r, FanLimit[tcall[i].level])
       IN \/ /\ Fine
             /\ fanout' = IF ok THEN [fanout EXCEPT ![u] = @ \cup {r}] ELSE fanout
             /\ wrote' = IF ok THEN [wrote EXCEPT !.to = @ \cup {<<u, r>>}]
                         ELSE [wrote EXCEPT !.cutOff = @ \/ <<u, r>> \in wrote.to]
             /\ IF ok THEN TEnds(i, "allowed") ELSE RateLimited(i)
          \/ Errs(i) /\ UNCHANGED <<fanout, wrote>> /\ Marked(i, "allowed")
    /\ UNCHANGED <<trustPlan, rowsAndKeys, blockLists, ages, msgs, copies, hourly, reporting, tcuts, escalations, blurred, stale, sentBy>>

----------------------------------------------------------------------------
(* report_spam                                                             *)

\* INCR; only the call that made the key gives it its expiry, in a step of its own.
ReportRate(i) ==
    /\ TAt(i, "rate")
    /\ reportRate' = [reportRate EXCEPT ![Sender(i)] = @ + 1]
    /\ IF reportRate'[Sender(i)] = 1 THEN TTo(i, "rate ttl")
       ELSE IF reportRate'[Sender(i)] > ReportsMax THEN TEnds(i, "limited") ELSE TTo(i, "total")
    /\ UNCHANGED <<trustPlan, rowsAndKeys, blockLists, ages, windows, reports, reporters, ttl, terrors, tcuts, escalations, trustHistory>>

ReportKeyOf(i) == [x \in {"rate ttl", "total ttl", "reporter ttl"} |->
                CASE x = "rate ttl" -> <<"rate", Sender(i)>> [] x = "total ttl" -> <<"reports", Target(i)>>
                  [] OTHER -> <<"reporters", Target(i)>>]
AfterTtl == [x \in {"rate ttl", "total ttl", "reporter ttl"} |->
                CASE x = "rate ttl" -> "total" [] x = "total ttl" -> "first reporter" [] OTHER -> "unique"]

SetTtl(i) ==
    /\ tcall[i].at \in DOMAIN AfterTtl
    /\ ttl' = ttl \cup {ReportKeyOf(i)[tcall[i].at]}
    /\ TTo(i, AfterTtl[tcall[i].at])
    /\ UNCHANGED <<trustPlan, rowsAndKeys, blockLists, ages, windows, reportRate, reports, reporters, terrors, tcuts, escalations, trustHistory>>

\* The report is stored, then counted against the device.
ReportTotal(i) ==
    /\ TAt(i, "total")
    /\ LET d == Target(i)
       IN /\ reports' = [reports EXCEPT ![d] = @ + 1]
          /\ recent' = [recent EXCEPT ![d] = @ \cup {i}]
          /\ tcall' = [tcall EXCEPT ![i].at = IF reports'[d] = 1 THEN "total ttl" ELSE "reporter", ![i].rows = {reports'[d]}]
    /\ UNCHANGED <<trustPlan, rowsAndKeys, blockLists, ages, windows, reportRate, reporters, ttl, terrors, tcuts, lasted, hasty, overdue, trustHistory>>

Reporter(i) ==
    /\ TAt(i, "reporter") \/ TAt(i, "first reporter")
    /\ reporters' = [reporters EXCEPT ![Target(i)] = @ \cup {Sender(i)}]
    /\ TTo(i, IF TAt(i, "reporter") THEN "unique" ELSE "reporter ttl")
    /\ UNCHANGED <<trustPlan, rowsAndKeys, blockLists, ages, windows, reportRate, reports, ttl, terrors, tcuts, escalations, trustHistory>>

\* AUTO_BAN_REPORTS, MIN_UNIQUE_REPORTERS_FOR_BAN
Bans(total, unique) == total >= BanReports /\ unique >= BanReporters
Flags(total, unique) == total >= FlagReports /\ unique >= FlagReporters

Escalate(i) ==
    /\ TAt(i, "unique")
    /\ LET d == Target(i)
           total == CHOOSE n \in tcall[i].rows : TRUE
           unique == Cardinality(reporters[d])
           earned == /\ Cardinality(recent[d]) >= BanReports
                     /\ Cardinality({Sender(j) : j \in recent[d]}) >= BanReporters
       IN /\ IF Bans(total, unique) THEN TTo(i, "ban") ELSE IF Flags(total, unique) THEN TTo(i, "flag") ELSE TEnds(i, "done")
          /\ hasty' = IF Bans(total, unique) /\ ~earned /\ d \notin lasted THEN hasty \cup {d} ELSE hasty
    /\ UNCHANGED <<trustPlan, rowsAndKeys, blockLists, ages, windows, reporting, terrors, tcuts, recent, lasted, overdue, trustHistory>>

----------------------------------------------------------------------------
(* set_banned, clear_ban, set_flagged, clear_flag: the key, then the row   *)

BanKey(i) ==
    /\ TAt(i, "ban") /\ TTo(i, "ban row")
    /\ banKey' = banKey \cup {Target(i)}
    /\ blurred' = IF UnbanUnderWay(Target(i)) THEN blurred \cup {Target(i)} ELSE blurred
    /\ UNCHANGED <<trustPlan, bans, flags, flagKey, blockLists, ages, windows, reporting, terrors, tcuts, escalations, stale, sentBy, wrote>>

BanRow(i) ==
    /\ TAt(i, "ban row") /\ TEnds(i, "done")
    /\ bans' = bans \cup {Target(i)} /\ overdue' = overdue \ {Target(i)}
    /\ UNCHANGED <<trustPlan, flags, banKey, flagKey, blockLists, ages, windows, reporting, terrors, tcuts, recent, lasted, hasty, trustHistory>>

Crosses(d) == BanUnderWay(d) \/ LookupUnderWay(d)
NotesCross(d) == blurred' = IF Crosses(d) THEN blurred \cup {d} ELSE blurred

\* Mutant: the key is left.
KeyLeft(d) == banKey
\* DEL sentinel:ban
KeyDeleted(d) == banKey \ {d}

UnbanKey(i) ==
    /\ TAt(i, "unban")
    /\ tcall' = [j \in TCalls |-> IF j = i THEN [tcall[i] EXCEPT !.at = "unban row"]
                                  ELSE IF Sender(j) = Target(i) THEN [tcall[j] EXCEPT !.banned = FALSE] ELSE tcall[j]]
    /\ banKey' = KeyDeleted(Target(i)) /\ NotesCross(Target(i))
    /\ UNCHANGED <<trustPlan, bans, flags, flagKey, blockLists, ages, windows, reporting, terrors, tcuts, escalations, stale, sentBy, wrote>>

UnbanRow(i) ==
    /\ TAt(i, "unban row") /\ TEnds(i, "done")
    /\ bans' = bans \ {Target(i)} /\ NotesCross(Target(i))
    /\ UNCHANGED <<trustPlan, flags, banKey, flagKey, blockLists, ages, windows, reporting, terrors, tcuts, escalations, stale, sentBy, wrote>>

FlagKey(i) ==
    /\ TAt(i, "flag") /\ TTo(i, "flag row")
    /\ flagKey' = flagKey \cup {Target(i)}
    /\ UNCHANGED <<trustPlan, bans, flags, banKey, blockLists, ages, windows, reporting, terrors, tcuts, escalations, trustHistory>>

FlagRow(i) ==
    /\ TAt(i, "flag row") /\ TEnds(i, "done")
    /\ flags' = flags \cup {Target(i)}
    /\ UNCHANGED <<trustPlan, bans, banKey, flagKey, blockLists, ages, windows, reporting, terrors, tcuts, escalations, trustHistory>>

UnflagKey(i) ==
    /\ TAt(i, "unflag") /\ TTo(i, "unflag row")
    /\ flagKey' = flagKey \ {Target(i)}
    /\ UNCHANGED <<trustPlan, bans, flags, banKey, blockLists, ages, windows, reporting, terrors, tcuts, escalations, trustHistory>>

UnflagRow(i) ==
    /\ TAt(i, "unflag row") /\ TEnds(i, "done")
    /\ flags' = flags \ {Target(i)}
    /\ UNCHANGED <<trustPlan, bans, banKey, flagKey, blockLists, ages, windows, reporting, terrors, tcuts, escalations, trustHistory>>

----------------------------------------------------------------------------
(* Time, and calls that stop half-way                                      *)

ClearedHour ==
    /\ msgs' = [x \in SDevice \cup Users |-> 0] /\ copies' = [u \in Users |-> 0] /\ hourly' = [u \in Users |-> 0]
    /\ ageKey' = [u \in Users |-> "none"] /\ blockKey' = [d \in SDevice |-> IF blockKey[d].ends THEN NoBlockKey ELSE blockKey[d]]
    /\ sentBy' = [d \in SDevice |-> [n |-> 0, most |-> 0]]

TrustHour(i) ==
    /\ TAt(i, "hour") /\ TEnds(i, "done") /\ ClearedHour
    /\ UNCHANGED <<trustPlan, rowsAndKeys, deviceBlocks, age, fanout, reporting, terrors, tcuts, escalations, blurred, stale, wrote>>

\* A month: every key with an expiry is gone, and accounts have grown old.
TrustMonth(i) ==
    /\ TAt(i, "month") /\ TEnds(i, "done") /\ ClearedHour
    /\ banKey' = {} /\ flagKey' = {} /\ age' = "trusted"
    /\ fanout' = [u \in Users |-> {}] /\ wrote' = [to |-> {}, cutOff |-> wrote.cutOff]
    /\ reportRate' = [d \in SDevice |-> IF <<"rate", d>> \in ttl THEN 0 ELSE reportRate[d]]
    /\ reports' = [d \in SDevice |-> IF <<"reports", d>> \in ttl THEN 0 ELSE reports[d]]
    /\ reporters' = [d \in SDevice |-> IF <<"reporters", d>> \in ttl THEN {} ELSE reporters[d]]
    /\ recent' = [d \in SDevice |-> {}]
    /\ lasted' = lasted \cup {d \in SDevice : reports'[d] > 0 \/ reporters'[d] # {}}
                        \cup {Target(j) : j \in {j \in TCalls : tcall[j].at \in {"first reporter", "reporter", "reporter ttl", "total ttl", "unique"}}}
    /\ ttl' = {}
    /\ overdue' = {d \in SDevice : \E j \in TCalls : TrustCall(j).kind = "ban" /\ TrustCall(j).brief /\ TAt(j, "done") /\ Target(j) = d}
    /\ UNCHANGED <<trustPlan, bans, flags, deviceBlocks, terrors, tcuts, hasty, blurred, stale>>

TCut(i) ==
    /\ tcuts < trustPlan.cuts /\ tcuts' = tcuts + 1
    /\ TrustCall(i).kind \in {"report", "ban", "unban", "block", "unblock"}
    /\ tcall[i].at \notin {"new", "done", "limited", "cut"}
    /\ TEnds(i, "cut")
    /\ blurred' = IF TAt(i, "ban row") \/ TAt(i, "unban row") THEN blurred \cup {Target(i)} ELSE blurred
    /\ stale' = IF TAt(i, "block key") THEN stale \cup {Sender(i)} ELSE stale
    /\ UNCHANGED <<trustPlan, rowsAndKeys, blockLists, ages, windows, reporting, terrors, escalations, sentBy, wrote>>

----------------------------------------------------------------------------

TrustInit ==
    /\ trustPlan \in TrustPlan
    /\ bans = {} /\ flags = {} /\ banKey = {} /\ flagKey = {} /\ deviceBlocks = {}
    /\ blockKey = [d \in SDevice |-> NoBlockKey]
    /\ age = "new" /\ ageKey = [u \in Users |-> "none"]
    /\ msgs = [x \in SDevice \cup Users |-> 0] /\ copies = [u \in Users |-> 0] /\ hourly = [u \in Users |-> 0]
    /\ fanout = [u \in Users |-> {}]
    /\ reportRate = [d \in SDevice |-> 0] /\ reports = [d \in SDevice |-> 0] /\ reporters = [d \in SDevice |-> {}]
    /\ ttl = {} /\ tcall = [i \in DOMAIN trustPlan.calls |-> NewTCall] /\ terrors = 0 /\ tcuts = 0
    /\ blurred = {} /\ stale = {} /\ recent = [d \in SDevice |-> {}] /\ lasted = {} /\ hasty = {} /\ overdue = {}
    /\ sentBy = [d \in SDevice |-> [n |-> 0, most |-> 0]] /\ wrote = [to |-> {}, cutOff |-> FALSE]

TrustNext ==
    \E i \in TCalls :
        \/ SendRegular(i) \/ CheckSendPermission(i) \/ GetTrustStatus(i) \/ ReportSpam(i) \/ BlockDevice(i) \/ UnblockDevice(i)
        \/ AdminBanDevice(i) \/ AdminUnbanDevice(i) \/ AdminClearFlag(i) \/ TimeBegins(i)
        \/ LookBanKey(i) \/ LookFlagKey(i) \/ LookRow(i) \/ CacheLevel(i)
        \/ BlockedInCache(i) \/ BlockListCached(i) \/ BlockRows(i) \/ BlockFill(i) \/ DeviceBlockRow(i) \/ BlockKeyDropped(i)
        \/ ChargeDevice(i) \/ ChargeUser(i) \/ ChargeCopy(i)
        \/ AgeCached(i) \/ AgeRow(i) \/ AgeCache(i) \/ CopyPasses(i) \/ Hourly(i) \/ Fanout(i)
        \/ ReportRate(i) \/ SetTtl(i) \/ ReportTotal(i) \/ Reporter(i) \/ Escalate(i)
        \/ BanKey(i) \/ BanRow(i) \/ UnbanKey(i) \/ UnbanRow(i) \/ FlagKey(i) \/ FlagRow(i) \/ UnflagKey(i) \/ UnflagRow(i)
        \/ TrustHour(i) \/ TrustMonth(i) \/ TCut(i)

TrustSpec == TrustInit /\ [][TrustNext]_trustVars

----------------------------------------------------------------------------
(* Properties                                                              *)

\* The tables and keys hold devices, and an account never has more recipients of
\* the day than the new accounts' cap: older accounts' are not kept.
TrustTypeOK ==
    /\ bans \cup flags \cup banKey \cup flagKey \subseteq SDevice /\ deviceBlocks \subseteq SDevice \X SDevice
    /\ \A d \in SDevice : blockKey[d].of \subseteq SDevice /\ (blockKey[d].on <=> blockKey[d].of # {})
    /\ \A u \in Users : Cardinality(fanout[u]) <= FanLimit["new"]
    /\ msgs \in [SDevice \cup Users -> Nat] /\ ageKey \in [Users -> {"none", "new", "trusted"}]

\* The cache claims no ban the table does not have, unless the unban overlapped a
\* ban or a lookup of the device, or one of them stopped between its two writes.
UnbanStands == \A d \in banKey : d \in bans \cup blurred \/ BanUnderWay(d)

\* A device whose ban was in the table when its send began does not get the send
\* through, whatever the caches held, unless an unban began or an access failed.
BanHolds == \A i \in TCalls : TrustCall(i).kind \in {"send", "check"} /\ tcall[i].banned /\ TAt(i, "allowed") => tcall[i].err

\* Once BlockDevice has answered, a send from the blocked device that begins later
\* does not pass, unless an access failed, the list was cached from before the block
\* or could not be dropped, or another send cached it between this one's two looks.
DeviceBlockHolds ==
    \A i \in TCalls : tcall[i].blocked /\ TAt(i, "allowed") => tcall[i].err \/ tcall[i].slipped \/ AskedOf(i) \in stale

\* "Returns true if `blocker` has blocked `target`" (is_blocked): a send that begins
\* after BlockDevice has answered, with no access failing, is refused.
BlockedIsRefused == \A i \in TCalls : tcall[i].blocked /\ TAt(i, "allowed") => tcall[i].err

\* A device is banned by reports only if this window's reports ask for it, unless a
\* report stopped before it gave its key an expiry, or straddled the window's end.
BannedByMany == hasty = {}

\* In an hour the Sentinel counts no more of a device's sends through than the
\* largest limit its levels gave.
QuotaHolds == \A d \in SDevice : sentBy[d].n <= sentBy[d].most

\* Reaching the cap of recipients never cuts an account off from one it wrote to today.
KnownRecipientPasses == ~wrote.cutOff

\* What is to be refused is refused: the sends of banned and blocked devices, and
\* those beyond the quota, whatever the caches in front of the tables hold.
RefusalsHold == BanHolds /\ DeviceBlockHolds /\ QuotaHolds

\* And nobody else is: a lifted ban stays lifted, one reporter bans nobody, and a
\* cap on new recipients does not cut off the known ones.
NobodyWronged == UnbanStands /\ BannedByMany /\ KnownRecipientPasses

\* "Optional: set ban_expires_at for temporary bans (seconds from now)" (AdminBanDevice):
\* once its time has passed, a temporary ban holds no longer.
TemporaryBanEnds == \A d \in overdue : RowLevel(d) # "banned"
=============================================================================
