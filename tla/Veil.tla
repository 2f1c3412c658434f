-------------------------------- MODULE Veil --------------------------------
(***************************************************************************)
(* The issuer of front capabilities (veil-service): IssueVeilCapability    *)
(* with its alternates, IssueBootstrapVoucher under its quota, the sweep   *)
(* of voucher rows, and the capability's bytes.                            *)
(*                                                                         *)
(* A front is an address with a scope; a capability is a record, and its   *)
(* blob the sequence of its fields: one element for a field of fixed       *)
(* width, one for each byte of the scope.  The rank of a front is a        *)
(* constant of user and epoch (a hash in the code).  The signatures over a *)
(* front's coordinates and the link around a voucher are data.             *)
(***************************************************************************)
EXTENDS Integers, Sequences, FiniteSets

CONSTANTS
    VeilPlan,     \* bound: [calls, spec, legacy, quota, flag, errors]; a call: [kind, user, relay, pk, role]
    VUser, VeilFront, \* accounts, addresses
    Seed,         \* the addresses each account starts with
    AltRank,      \* [user, epoch, address] -> rank
    AltK,         \* DEFAULT_ALTERNATES_K
    VoucherQuota, MaxVoucherQuota,
    VDay,         \* bound: ticks of the 24 hours of the quota, and of an epoch
    VSecond,      \* ticks of a second
    SweepAge,     \* ticks a voucher row is kept
    TicketLife, VoucherLife,
    ScopeWidth    \* values of the byte that holds a scope's length

ASSUME VeilTimes == VDay \in Nat \ {0} /\ VSecond \in Nat \ {0} /\ SweepAge >= VDay /\ ScopeWidth \in Nat \ {0}

VARIABLES
    veilPlan,     \* the scenario
    vnow,         \* the clock
    capRows,      \* veil_tickets and veil_capabilities_v2
    voucherRows,  \* veil_bootstrap_vouchers
    vlock,        \* the advisory locks held: [user, call]
    vcall,        \* the progress of each call
    verrors,      \* failed database accesses
    told,         \* history: the capabilities clients were given
    knows,        \* history: the addresses each client knows
    learned,      \* history: [user, epoch, address] new to the client when it was told
    promise,      \* history: when a refused client was told to come back
    misled        \* history: clients refused although they came back as told

veilRows == <<capRows, voucherRows>>
clients == <<told, knows, learned, promise, misled>>
veilVars == <<veilPlan, vnow, veilRows, vlock, vcall, verrors, clients>>

----------------------------------------------------------------------------
(* Configuration                                                           *)

\* parse_relays_spec: the last record of an address counts, malformed ones are skipped.
WellFormed(spec) == {n \in DOMAIN spec : spec[n].ok}
ParseRelays(spec) ==
    [a \in {spec[n].at : n \in WellFormed(spec)} |->
        spec[CHOOSE n \in WellFormed(spec) : spec[n].at = a /\ \A m \in WellFormed(spec) : spec[m].at = a => m <= n].scope]
\* merge_legacy_relay: only an address that is not there yet.
Relays ==
    LET named == ParseRelays(veilPlan.spec)
    IN [a \in DOMAIN named \cup {r.at : r \in veilPlan.legacy} |->
            IF a \in DOMAIN named THEN named[a] ELSE (CHOOSE r \in veilPlan.legacy : TRUE).scope]
\* voucher_quota_from_env: 0 stands for a value that is unset or no number.
Quota == IF veilPlan.quota \in 1..MaxVoucherQuota THEN veilPlan.quota ELSE VoucherQuota
\* bootstrap_voucher_flag_enabled
Enabled == veilPlan.flag \in {"1", "on", "true"}

----------------------------------------------------------------------------
(* Which fronts                                                            *)

VEpoch == vnow \div VDay

\* resolve_primary_relay
Unresolved == "unresolved"
PrimaryOf(requested) ==
    IF requested # "" THEN (IF requested \in DOMAIN Relays THEN requested ELSE Unresolved)
    ELSE IF Cardinality(DOMAIN Relays) = 1 THEN CHOOSE a \in DOMAIN Relays : TRUE ELSE Unresolved

Below(u, e, a, among) == {b \in among : AltRank[<<u, e, b>>] < AltRank[<<u, e, a>>]}
\* select_alternate_addresses
Alternates(primary, u, e) ==
    LET others == DOMAIN Relays \ {primary}
    IN {a \in others : Cardinality(Below(u, e, a, others)) < AltK}
\* select_voucher_front
VoucherFront(u, e) == CHOOSE a \in DOMAIN Relays : Below(u, e, a, DOMAIN Relays) = {}

----------------------------------------------------------------------------
(* The capability                                                          *)

\* mint_capability_b2: a bearer secret is made up.
MintB2(id, a, life) ==
    [id |-> id, at |-> a, version |-> 1, key |-> <<"auth", id>>, role |-> 0, from |-> vnow, until |-> vnow + life, scope |-> Relays[a]]
\* mint_capability_v2: bound to the client's key.
MintV2(id, a, pk, role) ==
    [id |-> id, at |-> a, version |-> 2, key |-> <<"pk", pk>>, role |-> role, from |-> vnow, until |-> vnow + TicketLife, scope |-> Relays[a]]

SigningMessage(c) == <<"veil-cap-v1", c.id, c.key, c.from, c.until, 1>> \o c.scope
SigningMessageV2(c) == <<"veil-cap-v2", c.id, c.key, c.role, c.from, c.until, 1>> \o c.scope
EncodeB2(c) == <<c.id, c.key, c.from, c.until, 1, Len(c.scope) % ScopeWidth>> \o c.scope \o <<SigningMessage(c)>>
EncodeV2(c) == <<c.id, c.key, c.role, c.from, c.until, 1, Len(c.scope) % ScopeWidth>> \o c.scope \o <<SigningMessageV2(c)>>
Blob(c) == IF c.version = 1 THEN EncodeB2(c) ELSE EncodeV2(c)

\* What the relay reads and verifies, by the layout the two programs share.
RelayReads(version, blob) ==
    LET n == IF version = 1 THEN 6 ELSE 7
        len == blob[n]
        scope == SubSeq(blob, n + 1, n + len)
        domain == IF version = 1 THEN "veil-cap-v1" ELSE "veil-cap-v2"
    IN [scope |-> scope, until |-> blob[n - 2],
        verified |-> blob[n + len + 1] = <<domain>> \o SubSeq(blob, 1, n - 1) \o scope]

----------------------------------------------------------------------------
(* Calls                                                                   *)

VCalls == DOMAIN veilPlan.calls
VC(i) == veilPlan.calls[i]
VUserOf(i) == VC(i).user
VAt(i, at) == vcall[i].at = at
NewVCall == [at |-> "new", start |-> 0, relay |-> "", epoch |-> 0, todo |-> {}, caps |-> {}]
VTo(i, at) == vcall' = [vcall EXCEPT ![i].at = at]
VEnds(i, at) == vcall' = [vcall EXCEPT ![i] = [NewVCall EXCEPT !.at = at]]
VErrs == verrors < veilPlan.errors /\ verrors' = verrors + 1
VFine == verrors' = verrors

\* The answer reaches the client.
Gives(u, e, caps, since) ==
    /\ told' = told \cup {[user |-> u, cap |-> c, since |-> since] : c \in caps}
    /\ learned' = learned \cup {<<u, e, a>> : a \in {c.at : c \in caps} \ knows[u]}
    /\ knows' = [knows EXCEPT ![u] = @ \cup {c.at : c \in caps}]

\* issue_capability
Bearer(id, a) == MintB2(id, a, TicketLife)
\* issue_one: a key in the request asks for key-bound capabilities.
One(i, a, n) ==
    IF VC(i).pk = "" THEN Bearer(<<i, n>>, a) ELSE MintV2(<<i, n>>, a, VC(i).pk, VC(i).role)

\* issue_capability_v2: a key of 32 bytes, a known role.
Acceptable(i) == VC(i).pk = "" \/ (VC(i).pk = "key" /\ VC(i).role \in {0, 1})

\* Mutant: a failed INSERT is logged and the capability handed out.
StoredOrNot(c) == (VFine /\ capRows' = capRows \cup {c}) \/ (VErrs /\ UNCHANGED capRows)
\* The row is written, or the call (or the alternate) fails.
Stored(c) == VFine /\ capRows' = capRows \cup {c}

\* IssueVeilCapability: a client names an address it knows, or none.
IssueVeilCapability(i) ==
    /\ VAt(i, "new") /\ VC(i).kind = "issue"
    /\ \E requested \in (IF VC(i).relay = "known" THEN knows[VUserOf(i)] ELSE {VC(i).relay}) :
          LET primary == PrimaryOf(requested)
              cap == One(i, primary, 0)
          IN IF primary = Unresolved \/ ~Acceptable(i) THEN VFine /\ VEnds(i, "refused") /\ UNCHANGED capRows
             ELSE \/ /\ Stored(cap)
                     /\ vcall' = [vcall EXCEPT ![i].at = "alternates", ![i].relay = primary, ![i].caps = {cap}]
                  \/ VErrs /\ VEnds(i, "failed") /\ UNCHANGED capRows
    /\ UNCHANGED <<veilPlan, vnow, voucherRows, vlock, clients>>

PickAlternates(i) ==
    /\ VAt(i, "alternates")
    /\ vcall' = [vcall EXCEPT ![i].at = "alternate", ![i].epoch = VEpoch,
                              ![i].todo = Alternates(vcall[i].relay, VUserOf(i), VEpoch)]
    /\ UNCHANGED <<veilPlan, vnow, veilRows, vlock, verrors, clients>>

\* An alternate that fails is skipped.  They go by rank.
IssueAlternate(i) ==
    /\ VAt(i, "alternate") /\ vcall[i].todo # {}
    /\ LET c == vcall[i]
           next == CHOOSE a \in c.todo : Below(VUserOf(i), c.epoch, a, c.todo) = {}
           cap == One(i, next, 1 + Cardinality(c.todo))
       IN \/ Stored(cap) /\ vcall' = [vcall EXCEPT ![i].todo = @ \ {next}, ![i].caps = @ \cup {cap}]
          \/ VErrs /\ vcall' = [vcall EXCEPT ![i].todo = @ \ {next}] /\ UNCHANGED capRows
    /\ UNCHANGED <<veilPlan, vnow, voucherRows, vlock, clients>>

AnswerBundle(i) ==
    /\ VAt(i, "alternate") /\ vcall[i].todo = {}
    /\ Gives(VUserOf(i), vcall[i].epoch, vcall[i].caps, vcall[i].start) /\ VEnds(i, "done")
    /\ UNCHANGED <<veilPlan, vnow, veilRows, vlock, verrors, promise, misled>>

----------------------------------------------------------------------------
(* issue_bootstrap_voucher                                                 *)

\* BEGIN: NOW() is this moment to the end of the transaction.
BeginVoucher(i) ==
    /\ VAt(i, "new") /\ VC(i).kind = "voucher"
    /\ IF ~Enabled \/ DOMAIN Relays = {} THEN VEnds(i, "refused")
       ELSE vcall' = [vcall EXCEPT ![i].at = "lock", ![i].start = vnow]
    /\ UNCHANGED <<veilPlan, vnow, veilRows, vlock, verrors, clients>>

\* pg_advisory_xact_lock
Lockable(i) == \A l \in vlock : l.user # VUserOf(i)
TakeLock(i) ==
    /\ VAt(i, "lock") /\ Lockable(i)
    /\ vlock' = vlock \cup {[user |-> VUserOf(i), call |-> i]} /\ VTo(i, "count")
    /\ UNCHANGED <<veilPlan, vnow, veilRows, verrors, clients>>
Unlocked(i) == {l \in vlock : l.call # i}

InWindow(u, start) == {r \in voucherRows : r.user = u /\ r.at > start - VDay}
Oldest(rows) == (CHOOSE r \in rows : \A s \in rows : r.at <= s.at).at
NotNegative(n) == IF n > 0 THEN n ELSE 0
\* voucher_retry_after_secs: whole seconds, the rest cut off.
RetryAfter(rows) == NotNegative((Oldest(rows) + VDay - vnow) \div VSecond)
\* Mutant: one more than the quota.
UnderQuotaLate(rows) == Cardinality(rows) <= Quota
\* voucher_quota_retry_after
UnderQuota(rows) == Cardinality(rows) < Quota

\* A refusal, or any error, rolls the transaction back.
CountVouchers(i) ==
    /\ VAt(i, "count")
    /\ LET u == VUserOf(i)
           start == vcall[i].start
           rows == InWindow(u, start)
       IN \/ /\ VFine /\ UnderQuota(rows) /\ VTo(i, "mint") /\ UNCHANGED <<vlock, promise, misled>>
          \/ /\ VFine /\ ~UnderQuota(rows) /\ VEnds(i, "limited") /\ vlock' = Unlocked(i)
             /\ misled' = IF promise[u] >= 0 /\ start >= promise[u] THEN misled \cup {u} ELSE misled
             /\ promise' = [promise EXCEPT ![u] = IF vnow = start THEN vnow + (RetryAfter(rows) + 1) * VSecond ELSE -1]
          \/ VErrs /\ VEnds(i, "failed") /\ vlock' = Unlocked(i) /\ UNCHANGED <<promise, misled>>
    /\ UNCHANGED <<veilPlan, vnow, veilRows, told, knows, learned>>

\* The front, the capability, INSERT.
MintVoucher(i) ==
    /\ VAt(i, "mint")
    /\ LET cap == MintB2(<<i, 0>>, VoucherFront(VUserOf(i), VEpoch), VoucherLife)
       IN \/ VFine /\ vcall' = [vcall EXCEPT ![i].at = "commit", ![i].caps = {cap}, ![i].epoch = VEpoch] /\ UNCHANGED vlock
          \/ VErrs /\ VEnds(i, "failed") /\ vlock' = Unlocked(i)
    /\ UNCHANGED <<veilPlan, vnow, veilRows, clients>>

\* An error at COMMIT may hide a commit.  Only after it is anything signed.
CommitVoucher(i) ==
    /\ VAt(i, "commit")
    /\ LET row == [id |-> <<i, 0>>, user |-> VUserOf(i), at |-> vcall[i].start]
       IN \/ VFine /\ voucherRows' = voucherRows \cup {row} /\ VTo(i, "sign")
          \/ VErrs /\ VEnds(i, "failed") /\ voucherRows' \in {voucherRows, voucherRows \cup {row}}
    /\ vlock' = Unlocked(i)
    /\ promise' = [promise EXCEPT ![VUserOf(i)] = -1]
    /\ UNCHANGED <<veilPlan, vnow, capRows, told, knows, learned, misled>>

AnswerVoucher(i) ==
    /\ VAt(i, "sign")
    /\ Gives(VUserOf(i), vcall[i].epoch, vcall[i].caps, vcall[i].start) /\ VEnds(i, "done")
    /\ UNCHANGED <<veilPlan, vnow, veilRows, vlock, verrors, promise, misled>>

\* sweep_bootstrap_vouchers
Swept(r) == r.at < vnow - SweepAge
Sweep(i) ==
    /\ VAt(i, "new") /\ VC(i).kind = "sweep" /\ VEnds(i, "done")
    /\ voucherRows' = {r \in voucherRows : ~Swept(r)}
    /\ UNCHANGED <<veilPlan, vnow, capRows, vlock, verrors, clients>>

VWait(i) ==
    /\ VAt(i, "new") /\ VC(i).kind = "wait" /\ VEnds(i, "done")
    /\ vnow' = vnow + VC(i).ticks
    /\ UNCHANGED <<veilPlan, veilRows, vlock, verrors, clients>>

----------------------------------------------------------------------------

VeilInit ==
    /\ veilPlan \in VeilPlan /\ vnow = 0 /\ capRows = {} /\ voucherRows = {} /\ vlock = {} /\ verrors = 0
    /\ vcall = [i \in DOMAIN veilPlan.calls |-> NewVCall]
    /\ told = {} /\ knows = Seed /\ learned = {} /\ promise = [u \in VUser |-> -1] /\ misled = {}

VeilNext ==
    \E i \in VCalls :
        \/ IssueVeilCapability(i) \/ PickAlternates(i) \/ IssueAlternate(i) \/ AnswerBundle(i)
        \/ BeginVoucher(i) \/ TakeLock(i) \/ CountVouchers(i) \/ MintVoucher(i) \/ CommitVoucher(i) \/ AnswerVoucher(i)
        \/ Sweep(i) \/ VWait(i)

VeilSpec == VeilInit /\ [][VeilNext]_veilVars

----------------------------------------------------------------------------
(* Properties                                                              *)

\* Rows and calls are of their types, and an account's lock has one holder, in its transaction.
VeilTypeOK ==
    /\ vnow \in Nat /\ \A r \in voucherRows : r.user \in VUser /\ r.at \in 0..vnow
    /\ \A k, l \in vlock : k.user = l.user => k = l
    /\ \A l \in vlock : vcall[l.call].at \in {"count", "mint", "commit"}

\* No day, however placed, holds more of an account's voucher rows than the quota.
VouchersBounded == \A r \in voucherRows : Cardinality({s \in voucherRows : s.user = r.user /\ s.at \in (r.at - VDay + 1)..r.at}) <= Quota

\* A client refused for its quota that comes back a second after the time it was
\* told, with no voucher issued in between, is not refused again.
RetryAfterTrue == misled = {}

\* Whatever a client holds is in the tables (a voucher until its row is swept): no answer goes out for
\* a row that was not written.
HandedIsRecorded ==
    \A t \in told : t.cap \in capRows \/ t.since + SweepAge < vnow \/ \E r \in voucherRows : r.id = t.cap.id /\ r.user = t.user

\* "each account learns a bounded, rotating subset": whatever known fronts a client
\* names, and whatever its vouchers name, an epoch shows it at most K + 1 new ones.
LearnsFew == \A u \in VUser : \A l \in learned : l[1] = u => Cardinality({m \in learned : m[1] = u /\ m[2] = l[2]}) <= AltK + 1

\* "a key-bound request yields key-bound alternates bound to the same veil_pk", and a
\* request without a key gets no key-bound capability.
BoundAlike ==
    \A t \in told : \A i \in VCalls :
        t.cap.id[1] = i /\ VC(i).kind = "issue" =>
            IF VC(i).pk = "" THEN t.cap.version = 1 ELSE t.cap.version = 2 /\ t.cap.key = <<"pk", VC(i).pk>>

\* The relay reads the scope and the expiry that were issued, and the signature
\* verifies, as long as the scope's length fits its byte.
BlobVerifies ==
    \A t \in told :
        Len(t.cap.scope) < ScopeWidth =>
            LET read == RelayReads(t.cap.version, Blob(t.cap))
            IN read.verified /\ read.scope = t.cap.scope /\ read.until = t.cap.until

\* Fronts are rationed: vouchers by a quota that a waiting client is told the truth
\* about, and the fronts an account gets to know by its epoch.
FrontsRationed == VouchersBounded /\ RetryAfterTrue /\ LearnsFew

\* What a client is handed is good: it is on record, bound to the key it asked for,
\* and reads at the relay as it was issued.
HandedIsGood == HandedIsRecorded /\ BoundAlike /\ BlobVerifies
=============================================================================
