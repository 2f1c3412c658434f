-------------------------------- MODULE Push --------------------------------
(***************************************************************************)
(* Push notifications of one account: the device-token and VoIP-token      *)
(* tables, the blind, key-rotation and incoming-call pushes that walk them, *)
(* the marker that holds back a banner while an earlier one is unread, and  *)
(* the mailbox reads that clear it (messaging-service notification_core,    *)
(* identity-service push tokens, key-service nudges, construct-apns).       *)
(*                                                                         *)
(* Every handler is a walk of single database, Redis and APNs accesses;     *)
(* the walks of different calls interleave.  A plan says which calls are    *)
(* made, which rows exist already and which APNs endpoint minted a token.   *)
(***************************************************************************)
EXTENDS Naturals, FiniteSets

CONSTANTS
    Dev,        \* device ids
    NoDev,      \* a row registered without a device id
    PushPlan,   \* the scenarios, see PushTypeOK
    RingMax,    \* VOIP_PUSH_MAX_PER_WINDOW
    PeerMax,    \* VOIP_PUSH_PEER_MAX_PER_WINDOW
    NoRow       \* a job that has no row in hand

ASSUME PushAssumption == NoDev \notin Dev

VARIABLES
    pushPlan,   \* the chosen scenario
    rows,       \* device_tokens of the account
    voip,       \* voip_tokens of the account
    dead,       \* tokens whose app was uninstalled
    marker,     \* devices with a push:outstanding key
    slots,      \* throttle keys held in Redis
    rung,       \* rate:voip counters of the window
    job,        \* what each call is doing
    unread,     \* messages in the mailbox of each device, not yet read
    shown,      \* devices with a banner accepted since their last read
    withheld,   \* <<message, device>> pairs whose banner was skipped
    excused,    \* the pairs that lost the banner they relied on
    stranded,   \* devices whose marker outlived the sender that set it
    condemned,  \* <<rejected token, token the row held>>
    refused,    \* calls a uniqueness constraint turned away
    passed      \* pushes let through a rate limit or throttle

pushVars == <<pushPlan, rows, voip, dead, marker, slots, rung, job, unread,
              shown, withheld, excused, stranded, condemned, refused, passed>>

\* What most steps leave alone, together.
tables == <<rows, voip>>
marks == <<marker, stranded>>
limits == <<slots, rung, passed>>
banners == <<unread, shown, withheld, excused>>
verdicts == <<condemned, refused>>

Ends == {"sandbox", "production"}
Jobs == DOMAIN pushPlan.calls
Asks(c) == pushPlan.calls[c]
PushIdle == [at |-> "idle", todo |-> {}, ids |-> {}, row |-> NoRow, left |-> {},
         all |-> TRUE, on |-> "none", holds |-> NoDev]

PushAt(c, a) == job[c].at = a
To(c, a) == job' = [job EXCEPT ![c].at = a]
Done(c) == job' = [job EXCEPT ![c] = [PushIdle EXCEPT !.at = "done"]]
Onward(c) == job' = [job EXCEPT ![c] = [PushIdle EXCEPT !.at = "next",
                                            !.todo = job[c].todo, !.ids = job[c].ids]]
Silently == UNCHANGED <<pushPlan, dead>>

-----------------------------------------------------------------------------
(* Rows and environments.                                                   *)

\* ApnsEnvironments: what a registration records for the environment asked.
Declared(e) == IF e \in Ends THEN {e} ELSE Ends

\* The identity service's own reading of the same field.
DeclaredByIdentity(e) == IF e = "production" THEN {e} ELSE {"sandbox"}

\* ApnsEnvironments::both lists the sandbox first, and iter keeps the order.
Probe(E) == IF "sandbox" \in E THEN "sandbox" ELSE "production"

\* hash_token names the token; encrypt draws a nonce, so that the sealed
\* column is new at every registration: it is named after the call.
Row(c, filter, env) ==
    [seal |-> c, tok |-> Asks(c).tok, dev |-> Asks(c).dev, filter |-> filter,
     env |-> env, provider |-> Asks(c).provider, enabled |-> TRUE]

\* UNIQUE (user_id, device_token_hash), which an upsert on the device id
\* does not arbitrate.
TokenTaken(rs, row) == \E r \in rs : r.tok = row.tok /\ r.dev # row.dev

\* INSERT ... ON CONFLICT (user_id, device_id) DO UPDATE.
Upserted(rs, row) == {r \in rs : r.dev # row.dev} \cup {row}

\* The stale rows that hold the token under another device id, or none, go
\* first, in the transaction of the upsert.
Claimed(rs, row) == {r \in rs : r.tok # row.tok \/ r.dev = row.dev}

\* A registration without a device id never moves a row to another device.
UpsertedByToken(rs, row) ==
    IF \E r \in rs : r.tok = row.tok
    THEN {IF r.tok = row.tok
          THEN [r EXCEPT !.filter = row.filter, !.env = row.env,
                         !.provider = row.provider, !.enabled = TRUE]
          ELSE r : r \in rs}
    ELSE rs \cup {row}

-----------------------------------------------------------------------------
(* Registrations.  Each ends with one statement or one transaction.         *)

Settles(c, row, rs) ==
    /\ IF TokenTaken(rs, row)
       THEN rows' = rows /\ refused' = refused \cup {c}
       ELSE rows' = Upserted(rs, row) /\ UNCHANGED refused
    /\ Done(c)
    /\ UNCHANGED <<marks, limits, banners, voip, condemned>>
    /\ Silently

RegisterDeviceToken(c) ==
    /\ PushAt(c, "idle") /\ Asks(c).op = "register"
    /\ LET row == Row(c, Asks(c).filter, Declared(Asks(c).env)) IN
       IF Asks(c).dev # NoDev
       THEN Settles(c, row, Claimed(rows, row))
       ELSE /\ rows' = UpsertedByToken(rows, row)
            /\ Done(c)
            /\ UNCHANGED <<marks, limits, banners, verdicts, voip>>
            /\ Silently

\* The identity service upserts without claiming, keeps the filter of the row
\* it updates, and files a new one as silent.
UpdatePushToken(c) ==
    /\ PushAt(c, "idle") /\ Asks(c).op = "update"
    /\ LET old == {r \in rows : r.dev = Asks(c).dev}
           filter == IF old = {} THEN "silent"
                     ELSE (CHOOSE r \in old : TRUE).filter
       IN  Settles(c, Row(c, filter, DeclaredByIdentity(Asks(c).env)), rows)

\* What is left of the device tokens after one of the calls that take rows
\* away or change their preferences.
UnregisterDeviceToken(c) == {r \in rows : r.tok # Asks(c).tok}
UnregisterPushToken(c) == {r \in rows : r.dev # Asks(c).dev}
UpdateNotificationPreferences(c) ==
    {IF r.tok = Asks(c).tok
     THEN [r EXCEPT !.filter = Asks(c).filter, !.enabled = Asks(c).enabled]
     ELSE r : r \in rows}

ChangeRows(c) ==
    /\ PushAt(c, "idle")
    /\ \/ Asks(c).op = "unregister" /\ rows' = UnregisterDeviceToken(c)
       \/ Asks(c).op = "remove" /\ rows' = UnregisterPushToken(c)
       \/ Asks(c).op = "prefs" /\ rows' = UpdateNotificationPreferences(c)
    /\ Done(c)
    /\ UNCHANGED <<marks, limits, banners, verdicts, voip>>
    /\ Silently

VoipRow(c, id) ==
    [id |-> id, seal |-> c, dev |-> Asks(c).dev, tok |-> Asks(c).tok,
     env |-> Declared(Asks(c).env), enabled |-> TRUE]

\* A VoIP row keeps its id while its device registers again.
RegisterVoipToken(c) ==
    LET old == {v \in voip : v.dev = Asks(c).dev}
        id == IF old = {} THEN c ELSE (CHOOSE v \in old : TRUE).id
    IN  (voip \ old) \cup {VoipRow(c, id)}
UnregisterVoipToken(c) == {v \in voip : v.dev # Asks(c).dev}

ChangeVoip(c) ==
    /\ PushAt(c, "idle")
    /\ \/ Asks(c).op = "voip" /\ voip' = RegisterVoipToken(c)
       \/ Asks(c).op = "novoip" /\ voip' = UnregisterVoipToken(c)
    /\ Done(c)
    /\ UNCHANGED <<marks, limits, banners, verdicts, rows>>
    /\ Silently

\* The app goes, and APNs answers Unregistered for its tokens from now on.
Uninstall(c) ==
    /\ PushAt(c, "idle") /\ Asks(c).op = "uninstall"
    /\ dead' = dead \cup {Asks(c).tok}
    /\ Done(c)
    /\ UNCHANGED <<tables, marks, limits, banners, verdicts, pushPlan>>

-----------------------------------------------------------------------------
(* What a push is.                                                          *)

\* blind_alert: the activities a person should see.
BlindAlert(act) == act \in {"message", "request"}

\* push_alert: no banner for a silent row or a copy to one's own devices.
PushAlert(filter, announce, act) ==
    filter # "silent" /\ announce /\ BlindAlert(act)

\* is_message_alert: only a message's banner is held back.
IsMessageAlert(act, alert) == alert /\ act = "message"

\* push_announces: an envelope from the account to itself announces nothing.
Announces(c) == ~ Asks(c).own
Activity(c) == IF Asks(c).op \in {"message", "request"} THEN Asks(c).op
               ELSE "quiet"
Blind(c) == Asks(c).op \in {"message", "request", "nudge", "low"}
Alerts(c, r) == Blind(c) /\ PushAlert(r.filter, Announces(c), Activity(c))

\* outstanding_for: the device whose marker this push takes, if its row
\* carries an id in the second query's answer.
OutstandingFor(c, r) ==
    IF IsMessageAlert(Activity(c), Alerts(c, r)) /\ <<r.seal, r.dev>> \in job[c].ids
    THEN r.dev ELSE NoDev

\* condemns_device_token: only BadDeviceToken and Unregistered are a verdict
\* on the token; both also answer a live token at the wrong endpoint.  A 403,
\* a transport error and a missing VoIP topic are "other".
Live(t) == t \notin dead /\ pushPlan.home[t] \in Ends
Answers(t, e) ==
    IF t \notin dead /\ pushPlan.home[t] = e THEN {"ok", "other"}
    ELSE {"invalid", "other"}

Ring(c) == Asks(c).op = "ring"

-----------------------------------------------------------------------------
(* How a push begins.                                                       *)

\* dispatch_envelope writes the mailboxes, reads the presence of the account
\* and pushes only when it is offline.
Dispatch(c) ==
    /\ PushAt(c, "idle") /\ Asks(c).op = "message"
    /\ unread' = [d \in Dev |-> unread[d] \cup {c}]
    /\ \/ To(c, "fetch")
       \/ Done(c)
    /\ UNCHANGED <<tables, marks, limits, verdicts, shown, withheld, excused>>
    /\ Silently

\* A contact request that is new pushes at once.
PushContactRequest(c) ==
    /\ PushAt(c, "idle") /\ Asks(c).op = "request"
    /\ To(c, "fetch")
    /\ UNCHANGED <<tables, marks, limits, banners, verdicts>>
    /\ Silently

\* A fetch that found few or no one-time prekeys; the count may fail to read.
NotifyLowPrekeys(c) ==
    /\ PushAt(c, "idle") /\ Asks(c).op = "low"
    /\ To(c, "fetch") \/ Done(c)
    /\ UNCHANGED <<tables, marks, limits, banners, verdicts>>
    /\ Silently

\* SET NX EX: the push goes out with the slot, which a failed push keeps.  A
\* Redis error counts as no slot.
Throttled(c, slot) ==
    /\ \/ /\ slot \notin slots
          /\ slots' = slots \cup {slot}
          /\ passed' = passed \cup {c}
          /\ To(c, "fetch")
       \/ UNCHANGED <<slots, passed>> /\ Done(c)
    /\ UNCHANGED <<tables, marks, banners, verdicts, rung>>
    /\ Silently

\* The nudge to publish hybrid signatures, once per device.
NudgeHybridRepublish(c) ==
    PushAt(c, "idle") /\ Asks(c).op = "nudge" /\ Throttled(c, Asks(c).dev)

\* The wake to rotate keys, once per account.
WakeKeyRotation(c) ==
    PushAt(c, "idle") /\ Asks(c).op = "wake" /\ Throttled(c, "account")

\* INCR of the recipient's counter, then of the pair's: the first is charged
\* even when the second refuses.
OverBudget(count, max) == count > max

Budget(c) ==
    LET from == Asks(c).from
        all == rung["all"] + 1
        pair == rung[from] + 1
    IN
    /\ PushAt(c, "idle") /\ Ring(c)
    /\ \/ /\ OverBudget(all, RingMax)
          /\ rung' = [rung EXCEPT !["all"] = all]
          /\ Done(c) /\ UNCHANGED passed
       \/ /\ ~ OverBudget(all, RingMax)
          /\ rung' = [rung EXCEPT !["all"] = all, ![from] = pair]
          /\ IF OverBudget(pair, PeerMax)
             THEN Done(c) /\ UNCHANGED passed
             ELSE To(c, "fetch") /\ passed' = passed \cup {c}
       \/ To(c, "fetch") /\ UNCHANGED <<rung, passed>>   \* Redis error
    /\ UNCHANGED <<tables, marks, banners, verdicts, slots>>
    /\ Silently

-----------------------------------------------------------------------------
(* The walk over the tokens.                                                *)

Fetch(c, table, then) ==
    /\ PushAt(c, "fetch")
    /\ LET todo == {r \in table : r.enabled} IN
       job' = [job EXCEPT ![c] = [PushIdle EXCEPT !.todo = todo,
                                    !.at = IF todo = {} THEN "done" ELSE then]]
    /\ UNCHANGED <<tables, marks, limits, banners, verdicts>>
    /\ Silently

FetchTokens(c) == Blind(c) /\ Fetch(c, rows, "ids")
FetchWakeTokens(c) == Asks(c).op = "wake" /\ Fetch(c, rows, "next")
FetchVoipTokens(c) == Ring(c) /\ Fetch(c, voip, "next")

\* The second query of a blind push; without its answer nothing is held back.
FetchIds(c) ==
    /\ PushAt(c, "ids")
    /\ \E ids \in {{}, {<<r.seal, r.dev>> : r \in {r \in rows : r.enabled
                                                     /\ r.dev # NoDev}}} :
          job' = [job EXCEPT ![c].ids = ids, ![c].at = "next"]
    /\ UNCHANGED <<tables, marks, limits, banners, verdicts>>
    /\ Silently

\* decide_push, on what SET NX answered.
SkipOutstanding(d) == d \in marker

\* The row in hand: `left` are the endpoints to try.
Takes(c, r, d) ==
    job' = [job EXCEPT ![c].todo = @ \ {r}, ![c].row = r, ![c].left = r.env,
                       ![c].all = TRUE, ![c].on = "none", ![c].holds = d,
                       ![c].at = "send"]
Passes(c, r) == job' = [job EXCEPT ![c].todo = @ \ {r}]

\* A blind push ends at a row it cannot decrypt and passes over FCM rows.  The
\* marker is taken with the row; a Redis error sends without it.
NextToken(c) ==
    /\ Blind(c) /\ PushAt(c, "next")
    /\ \E r \in job[c].todo :
         LET d == OutstandingFor(c, r)
             held == d # NoDev /\ SkipOutstanding(d)
         IN
         \/ /\ r.seal \in pushPlan.lost
            /\ Done(c) /\ UNCHANGED <<marker, withheld, excused>>
         \/ /\ r.seal \notin pushPlan.lost /\ r.provider # "apns"
            /\ Passes(c, r) /\ UNCHANGED <<marker, withheld, excused>>
         \/ /\ r.seal \notin pushPlan.lost /\ r.provider = "apns"
            /\ Takes(c, r, d)
            /\ \/ ~ held /\ marker' = marker \cup ({d} \ {NoDev})
               \/ pushPlan.outage /\ UNCHANGED marker
            /\ UNCHANGED <<withheld, excused>>
         \/ /\ r.seal \notin pushPlan.lost /\ r.provider = "apns"
            /\ held /\ Passes(c, r)
            /\ withheld' = withheld \cup {<<c, d>>}
            /\ excused' = IF d \in stranded THEN excused \cup {<<c, d>>} ELSE excused
            /\ UNCHANGED marker
    /\ UNCHANGED <<tables, limits, verdicts, unread, shown, stranded>>
    /\ Silently

\* A wake passes over both.
NextWakeToken(c) ==
    /\ Asks(c).op = "wake" /\ PushAt(c, "next")
    /\ \E r \in job[c].todo :
         IF r.seal \in pushPlan.lost \/ r.provider # "apns"
         THEN Passes(c, r) ELSE Takes(c, r, NoDev)
    /\ UNCHANGED <<tables, marks, limits, banners, verdicts>>
    /\ Silently

\* A call disables the row it cannot decrypt.
NextVoipToken(c) ==
    /\ Ring(c) /\ PushAt(c, "next")
    /\ \E r \in job[c].todo :
         IF r.seal \in pushPlan.lost
         THEN /\ Passes(c, r)
              /\ voip' = {IF v.id = r.id THEN [v EXCEPT !.enabled = FALSE] ELSE v :
                           v \in voip}
         ELSE Takes(c, r, NoDev) /\ UNCHANGED voip
    /\ UNCHANGED <<rows, marks, limits, banners, verdicts>>
    /\ Silently

LastToken(c) ==
    /\ PushAt(c, "next") /\ job[c].todo = {}
    /\ Done(c)
    /\ UNCHANGED <<tables, marks, limits, banners, verdicts>>
    /\ Silently

\* A transport failure taken for a verdict.
FailedByAll(all, answer) == all /\ answer # "ok"

\* One endpoint, its retries included: what counts is the last answer.
RejectedByAll(all, answer) == all /\ answer = "invalid"

\* send_notification at the next endpoint of the row.
PushSend(c) ==
    LET e == Probe(job[c].left)
        r == job[c].row
    IN
    /\ PushAt(c, "send") /\ job[c].left # {}
    /\ \E answer \in Answers(r.tok, e) :
         /\ job' = [job EXCEPT
                ![c].left = IF answer = "ok" THEN {} ELSE @ \ {e},
                ![c].all = RejectedByAll(@, answer),
                ![c].on = IF answer = "ok" THEN e ELSE @]
         /\ shown' = IF answer = "ok" /\ Alerts(c, r)
                     THEN shown \cup {r.dev} ELSE shown
    /\ UNCHANGED <<tables, marks, limits, verdicts, unread, withheld, excused>>
    /\ Silently

SendNotification(c) == Blind(c) /\ PushSend(c)
SendWake(c) == Asks(c).op = "wake" /\ PushSend(c)
SendVoip(c) == Ring(c) /\ PushSend(c)

\* One that keeps it.
MarkerKept(d) == marker

\* A push that failed gives up the marker it took.
Unmarked(d) == marker \ {d}

ReleaseMarker(c) ==
    /\ PushAt(c, "send") /\ job[c].left = {}
    /\ job[c].on = "none" /\ job[c].holds # NoDev
    /\ LET d == job[c].holds IN
       /\ excused' = excused \cup {w \in withheld : w[2] = d}
       /\ \/ marker' = Unmarked(d) /\ stranded' = stranded \ {d}
          \/ /\ pushPlan.outage /\ UNCHANGED marker   \* the TTL will
             /\ stranded' = stranded \cup (marker \cap {d})
    /\ job' = [job EXCEPT ![c].holds = NoDev]
    /\ UNCHANGED <<tables, limits, verdicts, unread, shown, withheld>>
    /\ Silently

\* verdict_after_rejection: one declared endpoint proves nothing.
VerdictAfterRejection(env) == IF Cardinality(env) > 1 THEN "delete" ELSE "widen"

SettleRejectedDeviceToken(r) ==
    IF VerdictAfterRejection(r.env) = "widen"
    THEN {IF s.seal = r.seal THEN [s EXCEPT !.env = Ends] ELSE s : s \in rows}
    ELSE {s \in rows : s.seal # r.seal}

SettleRejectedVoipToken(r) ==
    {IF v.id # r.id THEN v
     ELSE IF VerdictAfterRejection(r.env) = "widen" THEN [v EXCEPT !.env = Ends]
     ELSE [v EXCEPT !.enabled = FALSE] : v \in voip}

\* Whether a push is through with the endpoints and with its marker.
Tried(c) == PushAt(c, "send") /\ job[c].left = {}
Rejected(c) == Tried(c) /\ job[c].all /\ job[c].holds = NoDev
Answered(c) == Tried(c) /\ ~ job[c].all
               /\ (job[c].on = "none" => job[c].holds = NoDev)

\* A verdict names the token refused and the token the row held by then.
SettleDevice(c) ==
    LET r == job[c].row
        rs == SettleRejectedDeviceToken(r)
    IN
    /\ Rejected(c) /\ rows' = rs /\ Onward(c)
    /\ condemned' = condemned \cup
          {<<r.tok, s.tok>> : s \in {s \in rows : \A w \in rs : w.seal # s.seal}}
    /\ UNCHANGED <<voip, marks, limits, banners, refused>>
    /\ Silently

SettleToken(c) == Blind(c) /\ SettleDevice(c)
SettleWakeToken(c) == Asks(c).op = "wake" /\ SettleDevice(c)

SettleVoipToken(c) ==
    LET r == job[c].row
        vs == SettleRejectedVoipToken(r)
    IN
    /\ Ring(c) /\ Rejected(c) /\ voip' = vs /\ Onward(c)
    /\ condemned' = condemned \cup
          {<<r.tok, v.tok>> : v \in {v \in voip : v.enabled
              /\ \E w \in vs : w.id = v.id /\ ~ w.enabled}}
    /\ UNCHANGED <<rows, marks, limits, banners, refused>>
    /\ Silently

\* The endpoint that worked replaces the pair: of the sealed column a message
\* push read, and of the VoIP row with the same id.  A wake pins nothing.
Pins(c) == job[c].on # "none" /\ Cardinality(job[c].row.env) > 1

PinToken(c) ==
    /\ Blind(c) /\ Answered(c) /\ Onward(c)
    /\ rows' = {IF Pins(c) /\ r.seal = job[c].row.seal
                THEN [r EXCEPT !.env = {job[c].on}] ELSE r : r \in rows}
    /\ UNCHANGED <<voip, marks, limits, banners, verdicts>>
    /\ Silently

LeaveWakeToken(c) ==
    /\ Asks(c).op = "wake" /\ Answered(c) /\ Onward(c)
    /\ UNCHANGED <<tables, marks, limits, banners, verdicts>>
    /\ Silently

PinVoipToken(c) ==
    /\ Ring(c) /\ Answered(c) /\ Onward(c)
    /\ voip' = {IF Pins(c) /\ v.id = job[c].row.id
                THEN [v EXCEPT !.env = {job[c].on}] ELSE v : v \in voip}
    /\ UNCHANGED <<rows, marks, limits, banners, verdicts>>
    /\ Silently

-----------------------------------------------------------------------------
(* Mailbox reads, the marker's TTL, and a restart of the sender.            *)

\* GetPendingMessages and a poll of the stream read the mailbox first; the
\* poll goes on to the marker only when the page held something.
ReadMailbox(c) ==
    LET d == Asks(c).dev IN
    /\ PushAt(c, "idle") /\ Asks(c).op \in {"pending", "poll"}
    /\ unread' = [unread EXCEPT ![d] = {}]
    /\ IF Asks(c).op = "poll" /\ unread[d] = {}
       THEN Done(c) /\ UNCHANGED shown
       ELSE To(c, "clear") /\ shown' = shown \ {d}
    /\ UNCHANGED <<tables, marks, limits, verdicts, withheld, excused>>
    /\ Silently

ClearPushOutstanding(c) ==
    LET d == Asks(c).dev IN
    /\ PushAt(c, "clear")
    /\ \/ marker' = marker \ {d} /\ stranded' = stranded \ {d}
       \/ /\ pushPlan.outage /\ UNCHANGED marker      \* the marker expires
          /\ stranded' = stranded \cup (marker \cap {d})
    /\ excused' = excused \cup {w \in withheld : w[2] = d}
    /\ Done(c)
    /\ UNCHANGED <<tables, limits, verdicts, unread, shown, withheld>>
    /\ Silently

Holders(d) == {c \in Jobs : PushAt(c, "send") /\ job[c].holds = d}

\* PUSH_OUTSTANDING_TTL_SECONDS, taken to be longer than any send.
Expire(d) ==
    /\ d \in marker /\ Holders(d) = {}
    /\ marker' = marker \ {d}
    /\ stranded' = stranded \ {d}
    /\ UNCHANGED <<tables, limits, banners, verdicts, job>>
    /\ Silently

\* The service dies with its tasks; the markers they took stay behind.
Restart(c) ==
    /\ PushAt(c, "idle") /\ Asks(c).op = "restart"
    /\ job' = [k \in Jobs |->
                 IF k = c \/ job[k].at \in {"fetch", "ids", "next", "send", "clear"}
                 THEN [PushIdle EXCEPT !.at = "done"] ELSE job[k]]
    /\ LET Left(d) == \/ Holders(d) # {}
                      \/ \E k \in Jobs : PushAt(k, "clear") /\ Asks(k).dev = d
       IN  /\ stranded' = stranded \cup {d \in marker : Left(d)}
           /\ excused' = excused \cup {w \in withheld : Left(w[2])}
    /\ UNCHANGED <<tables, limits, verdicts, marker, unread, shown, withheld>>
    /\ Silently

-----------------------------------------------------------------------------
PushInit ==
    /\ pushPlan \in PushPlan
    /\ rows = pushPlan.rows /\ voip = pushPlan.voip
    /\ dead = {} /\ marker = {} /\ slots = {} /\ shown = {} /\ withheld = {}
    /\ excused = {} /\ stranded = {} /\ condemned = {} /\ refused = {}
    /\ passed = {}
    /\ rung = [k \in {"all"} \cup pushPlan.callers |-> 0]
    /\ job = [c \in Jobs |-> PushIdle]
    /\ unread = [d \in Dev |-> {}]

PushNext ==
    \/ \E c \in Jobs :
         \/ RegisterDeviceToken(c) \/ UpdatePushToken(c) \/ ChangeRows(c)
         \/ ChangeVoip(c) \/ Uninstall(c) \/ Dispatch(c)
         \/ PushContactRequest(c) \/ NotifyLowPrekeys(c)
         \/ NudgeHybridRepublish(c) \/ WakeKeyRotation(c) \/ Budget(c)
         \/ FetchTokens(c) \/ FetchWakeTokens(c) \/ FetchVoipTokens(c) \/ FetchIds(c)
         \/ NextToken(c) \/ NextWakeToken(c) \/ NextVoipToken(c) \/ LastToken(c)
         \/ SendNotification(c) \/ SendWake(c) \/ SendVoip(c) \/ ReleaseMarker(c)
         \/ SettleToken(c) \/ SettleWakeToken(c) \/ SettleVoipToken(c)
         \/ PinToken(c) \/ LeaveWakeToken(c) \/ PinVoipToken(c)
         \/ ReadMailbox(c) \/ ClearPushOutstanding(c) \/ Restart(c)
    \/ \E d \in Dev : Expire(d)

PushSpec == PushInit /\ [][PushNext]_pushVars

-----------------------------------------------------------------------------
(* What the pushes promise.                                                 *)

\* The shapes of the tables and of the calls: a row names a known device or
\* none, at least one endpoint, and no two rows of the account share a token
\* or a device id.
PushTypeOK ==
    /\ \A r \in rows : r.dev \in Dev \cup {NoDev} /\ r.env \in SUBSET Ends \ {{}}
    /\ \A r, s \in rows : r # s => r.tok # s.tok /\ (r.dev = s.dev => r.dev = NoDev)
    /\ \A v, w \in voip : v # w => v.dev # w.dev /\ v.id # w.id
    /\ marker \cup shown \cup stranded \subseteq Dev \cup {NoDev}
    /\ \A c \in Jobs : job[c].at \in {"idle", "fetch", "ids", "next", "send",
                                      "clear", "done"}

\* A message whose banner was held back, and that is still unread, is covered:
\* a banner was accepted for the device since its last read, or the push that
\* took the marker is still being sent.  Left out are the messages held back
\* before that push failed, on the marker of a sender that died or of a Redis
\* call that failed, which waits for the TTL, and while a read of the mailbox
\* was on its way to clear the marker.
WithheldIsCovered ==
    \A w \in withheld \ excused :
        w[1] \in unread[w[2]] =>
            w[2] \in shown \/ Holders(w[2]) # {}
                \/ \E c \in Jobs : PushAt(c, "clear") /\ Asks(c).dev = w[2]

\* The comment of PushDecision::SkipOutstanding without exceptions: while a
\* push is outstanding its banner is the one the person will see.
BannerStands ==
    \A w \in withheld :
        w[1] \in unread[w[2]] => w[2] \in shown \/ Holders(w[2]) # {}

\* A token some endpoint accepts is never deleted or disabled because of an
\* endpoint's answer to that same token, whatever the row declared, however
\* many pushes probe the row at once and however often APNs fails.
LiveTokenKept ==
    \A k \in condemned : k[1] = k[2] => ~ Live(k[1])

\* RejectionVerdict::Delete says the token is dead: no verdict takes away a
\* token that was not the one the endpoints refused.
VerdictOnTokenSent == \A k \in condemned : k[1] = k[2]

\* Registering a token with a device id is never turned away by the rows that
\* hold the token already: they are claimed in the same transaction.
ClaimSucceeds == \A c \in refused : Asks(c).op # "register"

\* A token that works keeps its row: no verdict takes it, and no row that already
\* holds it keeps a device from registering it.
TokensKept == LiveTokenKept /\ ClaimSucceeds

\* ClaimSucceeds of both services that register tokens.
RegistrationStands == refused = {}

\* Within one window an account is rung at most RingMax times, and PeerMax
\* times by one caller; a device is nudged and an account woken at most once.
\* Pushes let through because Redis did not answer are not counted.
PushBudgets ==
    LET Rings == {c \in passed : Ring(c)} IN
    /\ Cardinality(Rings) <= RingMax
    /\ \A f \in pushPlan.callers :
          Cardinality({c \in Rings : Asks(c).from = f}) <= PeerMax
    /\ \A c, k \in passed \ Rings : Asks(c) = Asks(k) => c = k

\* A person with mail is woken, and not beyond the budgets: a banner is held back
\* only while another stands for it, and rings, nudges and wakes stay within theirs.
WokenEnough == WithheldIsCovered /\ PushBudgets
=============================================================================
