------------------------------- MODULE Gates -------------------------------
(***************************************************************************)
(* What a sealed envelope passes before it is dispatched: the per-address  *)
(* window (sealed_ip.rs), the credential its recipient published           *)
(* (intake.rs) and the Privacy Pass token (token_redeem.rs); and how the   *)
(* credentials and the tokens are made (PublishIntakeTags, IssueTokens).   *)
(*                                                                         *)
(* The calls of a plan run at the same time, in steps of one Redis access. *)
(* An access may fail, before or after Redis applied it.  All senders      *)
(* share one address and one messaging instance; calls to IssueTokens are  *)
(* for one account and each on an instance of its own, so the instance's   *)
(* lock does not order them.  What happens to an admitted envelope is in   *)
(* Dispatch.  Sets of tags outlive the epochs that may still use them, so  *)
(* their expiry shows nowhere; spent marks last longer than a behaviour.   *)
(***************************************************************************)
EXTENDS Integers, Sequences, FiniteSets

CONSTANTS
    GatePlan,      \* bound: [policy, configured, full, errors, old, calls]
    Account,       \* recipients
    Nobody,        \* a key address no account has
    IntakeKey,     \* keys credentials are derived from
    NoCred, Unopened, Misfit,  \* no credential; one that does not open; one of the wrong length
    GateToken,     \* valid tokens
    NoToken, BadToken,         \* no token; one that does not open or verify
    Spend,         \* spend ids
    NoSpend, BadSpend,         \* no spend id; one of the wrong length
    UnitMax,       \* MAX_ENVELOPES_PER_SPEND_UNIT (256)
    TagMax,        \* MAX_TAGS_PER_EPOCH (32)
    EpochsMax,     \* MAX_PUBLISHED_EPOCHS (14)
    LastDay,       \* bound: epochs are 0 .. LastDay
    DoorLimit,     \* sealed_ip_rate_limit_per_min
    TripAt,        \* TRIP_THRESHOLD (5)
    YoungCap, FullCap  \* tokens an account may be issued in an hour

VARIABLES
    gatePlan,    \* the scenario
    spentNonce,  \* spent:{sha256(nonce)}
    unitCount,   \* pp:unit:{h(spend_id|recipient)}, 0 when there is none
    tagSet,      \* intake:v2: the keys whose tags an account published for an epoch
    oldTag,      \* intake: the keys of tags published before there were sets
    generation,  \* the account's key generation
    epochNow,    \* the day
    windowCount, \* events of the address in the Redis window
    localCount,  \* events of the address in the instance's own table
    failures,    \* consecutive failures the breaker has seen
    breaker,     \* "closed", "open", "half"
    hourCount,   \* rate:pp_tokens: tokens reserved in this hour
    mature,      \* the account's first device is older than the maturity age
    gateCall,    \* the progress of each call
    errors,      \* history: accesses that failed
    used,        \* history: how often a token was redeemed
    paidUnit,    \* history: tokens redeemed for a spend id and a recipient
    freeRides,   \* history: envelopes covered by a unit
    keyGen,      \* history: the last generation a key was published at
    rotatedTo,   \* history: the generation of the last rotation that named an epoch
    issued,      \* history: tokens issued in this hour
    letIn,       \* history: envelopes let in this minute, by who counted them
    crowdedDoor  \* history: an event was recorded on a count that had changed

intakeStore == <<tagSet, oldTag, generation>>
tokenStore == <<spentNonce, unitCount>>
door == <<windowCount, localCount, failures, breaker, letIn, crowdedDoor>>
issuance == <<hourCount, mature, issued>>
gateClock == <<gatePlan, epochNow>>
spending == <<used, paidUnit, freeRides>>
rotations == <<keyGen, rotatedTo>>
gateVars == <<gateClock, intakeStore, tokenStore, door, issuance, gateCall, errors, spending, rotations>>

Epoch == 0 .. LastDay
Unit == Spend \X (Account \cup {Nobody})
Asked(i) == gatePlan.calls[i]
GAt(i, at) == gateCall[i].at = at
GTo(i, at) == gateCall' = [gateCall EXCEPT ![i].at = at]
MayFail == errors < gatePlan.errors
Fails == MayFail /\ errors' = errors + 1
FirstStep == [send |-> "door", publish |-> "publish", issue |-> "age", day |-> "day", minute |-> "minute",
              hours |-> "hours", grow |-> "grow"]

NewGateCall == [at |-> "new", seen |-> 0, found |-> FALSE, check |-> "unasked", result |-> "none",
                want |-> 0, cap |-> 0, tries |-> 0]

GBegins(i) ==
    /\ GAt(i, "new") /\ GTo(i, FirstStep[Asked(i).kind])
    /\ UNCHANGED <<gateClock, intakeStore, tokenStore, door, issuance, errors, spending, rotations>>

----------------------------------------------------------------------------
(* check_sealed_ip_limit                                                   *)

\* DegradedLimiter::charge counts the event.
Charge(n) == n + 1

\* charge_locally: an address the full table does not hold passes uncounted.
ChargeLocally(i) ==
    IF localCount = 0 /\ gatePlan.full
    THEN localCount' = localCount /\ GTo(i, "intake") /\ letIn' = letIn
    ELSE /\ localCount' = Charge(localCount)
         /\ IF localCount' <= DoorLimit THEN GTo(i, "intake") /\ letIn' = [letIn EXCEPT !.local = @ + 1]
            ELSE GTo(i, "limited") /\ letIn' = letIn

\* should_skip_redis
Door(i) ==
    /\ GAt(i, "door")
    /\ IF breaker = "open" THEN ChargeLocally(i) ELSE GTo(i, "count") /\ UNCHANGED <<localCount, letIn>>
    /\ UNCHANGED <<gateClock, intakeStore, tokenStore, issuance, errors, spending, rotations,
                   windowCount, failures, breaker, crowdedDoor>>

\* Redis answered: degraded mode, and what it counted, is over.
DoorAnswers(i, ok) ==
    LET local == IF breaker = "closed" THEN letIn.local ELSE 0
    IN /\ GTo(i, IF ok THEN "intake" ELSE "limited")
       /\ letIn' = [redis |-> IF ok THEN letIn.redis + 1 ELSE letIn.redis, local |-> local]
       /\ localCount' = IF breaker = "closed" THEN localCount ELSE 0
       /\ failures' = 0 /\ breaker' = "closed"

\* record_failure, then the local table.
DoorFails(i) ==
    /\ Fails
    /\ failures' = failures + 1
    /\ breaker' = IF failures' < TripAt THEN breaker ELSE "open"
    /\ ChargeLocally(i)

\* sliding_window_check_and_record
WindowHasRoom(n) == n < DoorLimit

CountWindow(i) ==
    /\ GAt(i, "count")
    /\ \/ /\ errors' = errors
          /\ IF WindowHasRoom(windowCount)
             THEN /\ gateCall' = [gateCall EXCEPT ![i].at = "record", ![i].seen = windowCount]
                  /\ UNCHANGED <<localCount, failures, breaker, letIn>>
             ELSE DoorAnswers(i, FALSE)
       \/ DoorFails(i)
    /\ UNCHANGED <<gateClock, intakeStore, tokenStore, issuance, spending, rotations, windowCount, crowdedDoor>>

\* The event is added and the key's expiry set: the second may fail after the first.
RecordEvent(i) ==
    /\ GAt(i, "record")
    /\ \/ errors' = errors /\ windowCount' = windowCount + 1 /\ DoorAnswers(i, TRUE)
       \/ DoorFails(i) /\ windowCount' \in {windowCount, windowCount + 1}
    /\ crowdedDoor' = (crowdedDoor \/ windowCount # gateCall[i].seen)
    /\ UNCHANGED <<gateClock, intakeStore, tokenStore, issuance, spending, rotations>>

\* COOLDOWN_MS passed.
Cooldown ==
    /\ breaker = "open" /\ breaker' = "half"
    /\ UNCHANGED <<gateClock, intakeStore, tokenStore, issuance, gateCall, errors, spending, rotations,
                   windowCount, localCount, failures, letIn, crowdedDoor>>

----------------------------------------------------------------------------
(* token_gate_action                                                       *)

Accepts(result) == result \in {"ok", "covered"}

GateAction(policy, result) ==
    IF ~Accepts(result) /\ result # "redis error" /\ policy = "enforce" THEN "refused" ELSE "delivered"

Redeemed(i, result) ==
    gateCall' = [gateCall EXCEPT ![i].at = GateAction(gatePlan.policy, result), ![i].result = result]

----------------------------------------------------------------------------
(* check_intake_credential                                                 *)

\* IntakeCheck::verdict
Verdict == [vouched |-> "accepted", absent |-> "none", nomatch |-> "not accepted", nothing |-> "not accepted",
            misfit |-> "not accepted", nokey |-> "unchecked", unopened |-> "unchecked",
            unavailable |-> "unchecked", unasked |-> "unspecified"]
OwesToken(check) == check \notin {"vouched", "unasked"}

\* A key address nobody has gets the answer of an account without tags, and nothing is delivered.
Checked(i, check) ==
    gateCall' = [gateCall EXCEPT ![i].check = check, ![i].seen = 0, ![i].found = FALSE,
        ![i].at = IF Asked(i).to = Nobody THEN "dropped"
                  ELSE IF OwesToken(check) THEN "redeem" ELSE "delivered"]

CheckCredential(i) ==
    /\ GAt(i, "intake")
    /\ LET cred == Asked(i).cred IN
       IF gatePlan.policy = "off" THEN Checked(i, "unasked")
       ELSE IF cred = NoCred THEN Checked(i, "absent")
       ELSE IF ~gatePlan.configured THEN Checked(i, "nokey")
       ELSE IF cred = Unopened THEN Checked(i, "unopened")
       ELSE IF cred = Misfit THEN Checked(i, "misfit")
       ELSE gateCall' = [gateCall EXCEPT ![i].at = "today", ![i].seen = epochNow]
    /\ UNCHANGED <<gateClock, intakeStore, tokenStore, door, issuance, errors, spending, rotations>>

\* acceptable_epochs: the day the envelope came, and the one before.
AcceptableEpoch(i) == IF GAt(i, "today") THEN gateCall[i].seen ELSE gateCall[i].seen - 1
Published(a, e) == IF a = Nobody \/ e \notin Epoch THEN {} ELSE tagSet[a][e] \cup oldTag[a][e]

LookUpTags(i) ==
    /\ GAt(i, "today") \/ GAt(i, "yesterday")
    /\ LET live == Published(Asked(i).to, AcceptableEpoch(i))
           found == gateCall[i].found \/ live # {}
       IN \/ /\ errors' = errors
             /\ IF Asked(i).cred \in live THEN Checked(i, "vouched")
                ELSE IF GAt(i, "yesterday") THEN Checked(i, IF found THEN "nomatch" ELSE "nothing")
                ELSE gateCall' = [gateCall EXCEPT ![i].at = "yesterday", ![i].found = found]
          \/ Fails /\ Checked(i, "unavailable")
    /\ UNCHANGED <<gateClock, intakeStore, tokenStore, door, issuance, spending, rotations>>

----------------------------------------------------------------------------
(* redeem_token_checked                                                    *)

\* normalize_spend_id, after the keys' presence.
StartRedeem(i) ==
    /\ GAt(i, "redeem")
    /\ IF ~gatePlan.configured THEN Redeemed(i, "not configured")
       ELSE IF Asked(i).spend = BadSpend THEN Redeemed(i, "invalid")
       ELSE GTo(i, IF Asked(i).spend = NoSpend THEN "token" ELSE "unit")
    /\ UNCHANGED <<gateClock, intakeStore, tokenStore, door, issuance, errors, spending, rotations>>

\* Mutant: one unit for a spend id, whoever the recipient is.
UnitOfSpend(i) == <<Asked(i).spend, CHOOSE a \in Account : TRUE>>
\* unit_key
UnitKey(i) == <<Asked(i).spend, Asked(i).to>>
Owner(i) == <<Asked(i).spend, Asked(i).to>>

UnitHolds(u) == unitCount[u] \in 1 .. UnitMax - 1

\* try_cover_with_paid_unit
CoverWithUnit(i) ==
    /\ GAt(i, "unit")
    /\ LET u == UnitKey(i)
           covered == [unitCount EXCEPT ![u] = @ + 1]
       IN \/ /\ errors' = errors
             /\ unitCount' = IF UnitHolds(u) THEN covered ELSE unitCount
             /\ freeRides' = IF UnitHolds(u) THEN [freeRides EXCEPT ![Owner(i)] = @ + 1] ELSE freeRides
             /\ IF unitCount[u] = 0 THEN GTo(i, "token")
                ELSE Redeemed(i, IF UnitHolds(u) THEN "covered" ELSE "exhausted")
          \/ /\ Fails /\ Redeemed(i, "redis error") /\ freeRides' = freeRides
             /\ unitCount' \in {unitCount, IF UnitHolds(u) THEN covered ELSE unitCount}
    /\ UNCHANGED <<gateClock, intakeStore, spentNonce, door, issuance, used, paidUnit, rotations>>

\* SET spent:{h} NX
Unspent(t) == t \notin spentNonce

\* redeem_token
RedeemToken(i) ==
    /\ GAt(i, "token")
    /\ LET t == Asked(i).token
           opens == Asked(i).spend # NoSpend
       IN \/ /\ t = NoToken /\ Redeemed(i, "missing")
             /\ UNCHANGED <<spentNonce, used, paidUnit, errors>>
          \/ /\ t = BadToken /\ Redeemed(i, "invalid")
             /\ UNCHANGED <<spentNonce, used, paidUnit, errors>>
          \/ /\ t \in GateToken /\ ~Unspent(t) /\ Redeemed(i, "double spent")
             /\ UNCHANGED <<spentNonce, used, paidUnit, errors>>
          \/ /\ t \in GateToken /\ Unspent(t)
             /\ spentNonce' = spentNonce \cup {t}
             /\ used' = [used EXCEPT ![t] = @ + 1]
             /\ paidUnit' = IF opens THEN [paidUnit EXCEPT ![Owner(i)] = @ + 1] ELSE paidUnit
             /\ IF opens THEN GTo(i, "open") ELSE Redeemed(i, "ok")
             /\ errors' = errors
          \/ /\ t \in GateToken /\ Fails /\ Redeemed(i, "redis error")
             /\ spentNonce' \in {spentNonce, spentNonce \cup {t}}
             /\ UNCHANGED <<used, paidUnit>>
    /\ UNCHANGED <<gateClock, intakeStore, unitCount, door, issuance, freeRides, rotations>>

\* open_spend_unit: 1, or one more if another paying envelope opened it first.  Failing is not an error.
OpenSpendUnit(i) ==
    /\ GAt(i, "open") /\ Redeemed(i, "ok")
    /\ LET opened == [unitCount EXCEPT ![UnitKey(i)] = @ + 1]
       IN \/ unitCount' = opened /\ errors' = errors
          \/ Fails /\ unitCount' \in {unitCount, opened}
    /\ UNCHANGED <<gateClock, intakeStore, spentNonce, door, issuance, spending, rotations>>

----------------------------------------------------------------------------
(* publish_intake_tags                                                     *)

\* publishable_tags: the first EpochsMax entries, without the epochs past their grace.
Publishable(c) == {c.epochs[n] : n \in {n \in DOMAIN c.epochs : n <= EpochsMax /\ c.epochs[n] + 1 >= epochNow}}

\* Mutant: a higher generation is added beside the earlier ones.
NeverReplaces(sent, current) == FALSE
Replaces(sent, current) == sent > current

\* PUBLISH_SCRIPT on one epoch's set.
SetAfter(c, kept) == IF c.key \in kept \/ Cardinality(kept) < TagMax THEN kept \cup {c.key} ELSE kept

PublishScript(c) ==
    LET a == c.to
        replace == Replaces(c.gen, generation[a])
        named == Publishable(c)
        kept(e) == IF replace THEN {} ELSE tagSet[a][e]
    IN IF c.gen < generation[a] THEN UNCHANGED <<intakeStore, rotations>>
       ELSE /\ generation' = [generation EXCEPT ![a] = IF c.gen > @ THEN c.gen ELSE @]
            /\ tagSet' = [tagSet EXCEPT ![a] = [e \in Epoch |-> IF e \in named THEN SetAfter(c, kept(e)) ELSE @[e]]]
            /\ oldTag' = [oldTag EXCEPT ![a] = [e \in Epoch |-> IF replace /\ e \in named THEN {} ELSE @[e]]]
            /\ keyGen' = [keyGen EXCEPT ![a][c.key] = c.gen]
            /\ rotatedTo' = [rotatedTo EXCEPT ![a] = [e \in Epoch |->
                  IF c.gen > generation[a] /\ e \in named THEN c.gen ELSE @[e]]]

PublishTags(i) ==
    /\ GAt(i, "publish") /\ GTo(i, "done")
    /\ \/ errors' = errors /\ PublishScript(Asked(i))
       \/ Fails /\ (PublishScript(Asked(i)) \/ UNCHANGED <<intakeStore, rotations>>)
    /\ UNCHANGED <<gateClock, tokenStore, door, issuance, spending>>

\* get_intake_state
IntakeState(a) == <<generation[a], tagSet[a][epochNow] \cup oldTag[a][epochNow] # {}>>

----------------------------------------------------------------------------
(* issue_tokens                                                            *)

\* effective_issuance_cap; the lookup failing counts as young.
EffectiveCap(old) == IF old \/ YoungCap > FullCap THEN FullCap ELSE YoungCap

IssueEnds(i, at, why) == gateCall' = [gateCall EXCEPT ![i] = [NewGateCall EXCEPT !.at = at, !.result = why]]
IssueRefused(i, why) == IssueEnds(i, "refused", why)

\* A batch that is empty or has a malformed point (0 here) reserves nothing.
ReadAge(i) ==
    /\ GAt(i, "age")
    /\ IF Asked(i).n = 0 THEN IssueRefused(i, "malformed")
       ELSE \E old \in {mature, FALSE} : gateCall' = [gateCall EXCEPT ![i].at = "read", ![i].cap = EffectiveCap(old)]
    /\ UNCHANGED <<gateClock, intakeStore, tokenStore, door, issuance, errors, spending, rotations>>

\* issuance_grant
Grant(already, want, cap) == IF already >= cap THEN 0 ELSE IF cap - already < want THEN cap - already ELSE want

\* token_issuance_count
ReadIssued(i) ==
    /\ GAt(i, "read")
    /\ LET want == Grant(hourCount, Asked(i).n, gateCall[i].cap)
       IN \/ /\ errors' = errors
             /\ IF want = 0 THEN IssueRefused(i, "full")
                ELSE gateCall' = [gateCall EXCEPT ![i].at = "reserve", ![i].seen = hourCount, ![i].want = want]
          \/ Fails /\ IssueRefused(i, "redis error")
    /\ UNCHANGED <<gateClock, intakeStore, tokenStore, door, issuance, spending, rotations>>

\* Mutant: the reservation is made on the count read before.
FitsAsRead(i) == gateCall[i].seen + gateCall[i].want <= gateCall[i].cap
\* try_reserve_token_issuance
Fits(i) == hourCount + gateCall[i].want <= gateCall[i].cap

IssueTries == 3

Reserve(i) ==
    /\ GAt(i, "reserve")
    /\ LET c == gateCall[i]
           reserved == hourCount + c.want
       IN \/ /\ Fits(i) /\ errors' = errors
             /\ hourCount' = reserved /\ issued' = issued + c.want
             /\ IssueEnds(i, "done", "ok")
          \/ /\ ~Fits(i) /\ errors' = errors
             /\ IF c.tries + 1 = IssueTries THEN IssueRefused(i, "raced")
                ELSE gateCall' = [gateCall EXCEPT ![i].at = "read", ![i].tries = @ + 1]
             /\ UNCHANGED <<hourCount, issued>>
          \/ /\ Fails /\ IssueRefused(i, "redis error") /\ issued' = issued
             /\ hourCount' \in {hourCount, IF Fits(i) THEN reserved ELSE hourCount}
    /\ UNCHANGED <<gateClock, intakeStore, tokenStore, door, mature, spending, rotations>>

----------------------------------------------------------------------------
(* Time                                                                    *)

Day(i) ==
    /\ GAt(i, "day") /\ GTo(i, "done") /\ epochNow' = epochNow + 1
    /\ UNCHANGED <<gatePlan, intakeStore, tokenStore, door, issuance, errors, spending, rotations>>

\* The window's events age out, the local window is a new one, the cooldown is over.
Minute(i) ==
    /\ GAt(i, "minute") /\ GTo(i, "done")
    /\ windowCount' = 0 /\ localCount' = 0 /\ letIn' = [redis |-> 0, local |-> 0]
    /\ breaker' = IF breaker = "open" THEN "half" ELSE breaker
    /\ UNCHANGED <<gateClock, intakeStore, tokenStore, issuance, errors, spending, rotations, failures, crowdedDoor>>

\* SPEND_UNIT_TTL_SECS: units expire, and a new hour of issuance begins.
Hours(i) ==
    /\ GAt(i, "hours") /\ GTo(i, "done")
    /\ unitCount' = [u \in Unit |-> 0] /\ hourCount' = 0 /\ issued' = 0
    /\ UNCHANGED <<gateClock, intakeStore, spentNonce, door, mature, errors, spending, rotations>>

Grow(i) ==
    /\ GAt(i, "grow") /\ GTo(i, "done") /\ mature' = TRUE
    /\ UNCHANGED <<gateClock, intakeStore, tokenStore, door, hourCount, issued, errors, spending, rotations>>

----------------------------------------------------------------------------

GateInit ==
    /\ gatePlan \in GatePlan
    /\ spentNonce = {} /\ unitCount = [u \in Unit |-> 0]
    /\ tagSet = [a \in Account |-> [e \in Epoch |-> {}]]
    /\ oldTag = [a \in Account |-> [e \in Epoch |-> gatePlan.old]]
    /\ generation = [a \in Account |-> 0] /\ epochNow = 1
    /\ windowCount = 0 /\ localCount = 0 /\ failures = 0 /\ breaker = "closed"
    /\ hourCount = 0 /\ mature = FALSE /\ issued = 0 /\ errors = 0
    /\ gateCall = [i \in DOMAIN gatePlan.calls |-> NewGateCall]
    /\ used = [t \in GateToken |-> 0] /\ paidUnit = [u \in Unit |-> 0] /\ freeRides = [u \in Unit |-> 0]
    /\ keyGen = [a \in Account |-> [k \in IntakeKey |-> 0]]
    /\ rotatedTo = [a \in Account |-> [e \in Epoch |-> 0]]
    /\ letIn = [redis |-> 0, local |-> 0] /\ crowdedDoor = FALSE

GateNext ==
    \/ Cooldown
    \/ \E i \in DOMAIN gatePlan.calls :
        \/ GBegins(i) \/ Door(i) \/ CountWindow(i) \/ RecordEvent(i)
        \/ CheckCredential(i) \/ LookUpTags(i)
        \/ StartRedeem(i) \/ CoverWithUnit(i) \/ RedeemToken(i) \/ OpenSpendUnit(i)
        \/ PublishTags(i) \/ ReadAge(i) \/ ReadIssued(i) \/ Reserve(i)
        \/ Day(i) \/ Minute(i) \/ Hours(i) \/ Grow(i)

GateSpec == GateInit /\ [][GateNext]_gateVars

----------------------------------------------------------------------------
(* Properties                                                              *)

\* The stores hold what the code writes to them: a set never more tags than its cap.
GatesTypeOK ==
    /\ spentNonce \subseteq GateToken /\ unitCount \in [Unit -> Nat]
    /\ \A a \in Account, e \in Epoch : tagSet[a][e] \subseteq IntakeKey /\ Cardinality(tagSet[a][e]) <= TagMax
    /\ generation \in [Account -> Nat] /\ epochNow \in Epoch
    /\ breaker \in {"closed", "open", "half"} /\ {windowCount, localCount, failures, hourCount} \subseteq Nat
    /\ \A i \in DOMAIN gateCall : gateCall[i].check \in DOMAIN Verdict

\* A token pays once, however its envelope is retried or overtaken, and whichever
\* answers of Redis were lost.
TokenPaysOnce == \A t \in GateToken : used[t] <= 1

\* The envelopes a spend unit covers are never more than the tokens paid for that
\* spend id and that recipient allow: one id cannot carry envelopes to others.
UnitPaysItself == \A u \in Unit : freeRides[u] <= (UnitMax - 1) * paidUnit[u]

\* Under "enforce" an envelope is refused for what it carries, never because Redis
\* did not answer the check of its token; and one let through was vouched for, paid,
\* covered or could not be checked.
GateIsFair ==
    gatePlan.policy = "enforce" =>
        \A i \in DOMAIN gateCall : Asked(i).kind = "send" =>
            /\ GAt(i, "refused") => gateCall[i].result \in {"missing", "invalid", "double spent", "exhausted", "not configured"}
            /\ GAt(i, "delivered") => gateCall[i].check = "vouched" \/ gateCall[i].result \in {"ok", "covered", "redis error"}

\* Who passes the gate has paid, once and for no one else: tokens, the units they
\* open and the policy that reads both, with answers of Redis lost anywhere.
PaymentsSound == TokenPaysOnce /\ UnitPaysItself /\ GateIsFair

\* After a rotation, an epoch it named accepts no key last published before it, from
\* whichever device, in whichever order the devices publish, and GetIntakeState
\* shows the generation to the ones behind.
RotationReplaces ==
    \A a \in Account, e \in Epoch :
        /\ \A k \in tagSet[a][e] : keyGen[a][k] >= rotatedTo[a][e]
        /\ rotatedTo[a][e] > 0 => oldTag[a][e] = {} /\ IntakeState(a)[1] >= rotatedTo[a][e]

\* An account is issued no more tokens in an hour than its age allows, and the
\* counter never says less than was issued.
IssuedWithinCap == issued <= hourCount /\ hourCount <= EffectiveCap(mature)

\* A request for tokens is refused with room left only after losing three races.
RefusedWhenFull ==
    \A i \in DOMAIN gateCall :
        gateCall[i].result = "raced" =>
            Cardinality({j \in DOMAIN gateCall : Asked(j).kind = "issue" /\ (GAt(j, "done") \/ gateCall[j].result = "redis error")}) >= 3

\* Unless two checks overlap, no more envelopes enter in a minute than the limit by
\* Redis's count, nor, in a stretch without Redis, by the instance's own.
DoorBound ==
    /\ ~crowdedDoor => letIn.redis <= DoorLimit
    /\ ~gatePlan.full => letIn.local <= DoorLimit

\* The limits are kept, and not felt before they are reached: tokens issued in an
\* hour, requests refused, envelopes let in by the door.
WithinLimits == IssuedWithinCap /\ RefusedWhenFull /\ DoorBound

\* "What must NOT follow from `Unavailable` is a refusal" (intake.rs): an envelope
\* whose credential could not be looked up is not refused.
OutageRefusesNobody ==
    \A i \in DOMAIN gateCall : gateCall[i].check = "unavailable" => ~GAt(i, "refused")
=============================================================================
