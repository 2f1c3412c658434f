-------------------------------- MODULE Keys --------------------------------
(***************************************************************************)
(* key-service: the keys the devices of one account publish, the bundles   *)
(* that start sessions with them, and the key transparency log.            *)
(*                                                                         *)
(* A call is a walk from one access to PostgreSQL or Redis to the next;    *)
(* between two of them other calls run, and the call may be dropped.  A    *)
(* key is named after the upload it came with, so that a public key sent   *)
(* again by a retry is the same key and a new one under an old key_id is   *)
(* not.  A signature is the pair of what signed and what was signed.  The  *)
(* windows of the rate limits (a minute and an hour) are longer than a     *)
(* behaviour; the age of a signed key, which only decides wake pushes, and *)
(* the pushes themselves are left out.                                     *)
(***************************************************************************)
EXTENDS Integers, Sequences, FiniteSets, FiniteSetsExt

CONSTANTS
    KeyDevice,       \* the devices of the account
    KeyHybrid,       \* those with a hybrid identity at the start
    KeyCall,         \* bound: the calls made, each of them once
    KeyBefore,          \* names what was uploaded before the behaviour starts
    KeyNone,         \* no key, no signature, nobody
    KeyPlan,         \* bound: the requests the calls may make, one for each
    KeyId,           \* bound: key_ids of one-time keys
    KeyIdsBefore,    \* those uploaded before
    KeyMaxOpen,      \* bound: calls in progress at once
    DrainThreshold,  \* OTPK_DRAIN_THRESHOLD_PER_HOUR
    BundleLimit,     \* BUNDLE_RATE_LIMIT_PER_MIN
    MaxPerUpload,    \* MAX_PREKEYS_PER_UPLOAD
    MaxStored,       \* MAX_STORED_PREKEYS
    MaxReplaces      \* MAX_REPLACES_PER_HOUR

\* Requests are about devices of the account and key_ids in use; a rotation carries a
\* signed key.
KeyRequestOK(r) ==
    \/ r.op = "fetch" /\ r.devs \subseteq KeyDevice
    \/ /\ r.op = "upload" /\ r.dev \in KeyDevice /\ r.ids \subseteq KeyId
       /\ r.spk \in {"none", "classic", "both", "refused"}
    \/ r.op = "rotate" /\ r.dev \in KeyDevice /\ r.spk \in {"classic", "both", "refused"}

ASSUME KeyAssumption ==
    /\ KeyBefore \notin KeyCall /\ KeyNone \notin KeyCall /\ KeyIdsBefore \subseteq KeyId
    /\ \A p \in KeyPlan, c \in KeyCall : KeyRequestOK(p[c])
ASSUME KeyBounds ==
    /\ IsFiniteSet(KeyCall) /\ IsFiniteSet(KeyId) /\ Cardinality(KeyIdsBefore) <= MaxStored
    /\ DrainThreshold \in Nat /\ KeyMaxOpen \in Nat \ {0} /\ MaxStored \in Nat

VARIABLES
    keyRow,     \* the rows of devices: what key-service reads and writes
    pool,       \* pool[kind][d]: the rows of the one-time key tables
    ktLog,      \* kt_leaves by tree_index
    ktLock,     \* who holds KT_APPEND_LOCK
    drained,    \* otpk_drain of the account
    fetched,    \* fetched[who]: the bundle rate counters
    replaced,   \* replaced[d]: the prekey_replace counters
    keyCall,    \* the calls
    given,      \* history: the one-time keys handed out, by kind
    twice,      \* history: those handed out again
    overlapped, \* history: devices two of whose writing calls overlapped
    burned,     \* history: fetches that took a one-time key
    uncounted   \* history: fetches the drain check or its counter missed

countVars == <<drained, fetched, replaced>>
ktVars == <<ktLog, ktLock>>
keyHistory == <<given, twice, overlapped, burned, uncounted>>
keyVars == <<keyRow, pool, ktVars, countVars, keyCall, keyHistory>>

KeyKind == {"classic", "kyber"}
KeyUploader == KeyCall \cup {KeyBefore}

\* A one-time key: its owner, its key_id and the upload that carries it.
OneTimeKey == [dev : KeyDevice, id : KeyId, by : KeyUploader]

KeyCallDone == [at |-> "done"]
KeyBusy(c) == keyCall[c].at \notin {"idle", "done", "sent", "gone"}
WritesKeys(r) == r.op \in {"upload", "rotate"}

KeyGo(c, at) == keyCall' = [keyCall EXCEPT ![c].at = at]

\* What is left of a call that ended: an upload may be sent again.
KeyOver(c, ok) ==
    LET r == keyCall[c].req IN
    IF r.op = "upload" THEN
        [at |-> "sent", dev |-> r.dev, ids |-> r.ids, kinds |-> r.kinds, by |-> keyCall[c].by,
         replaced |-> ok /\ r.replace]
    ELSE KeyCallDone
KeyEnd(c) == keyCall' = [keyCall EXCEPT ![c] = KeyOver(c, FALSE)]

----------------------------------------------------------------------------
(* Requests.                                                               *)

\* The upload whose keys a request carries: its own, or those of an upload
\* that its client repeats because it never heard the answer.
KeyBatches(c, r) ==
    IF r.op = "upload" /\ r.again THEN
        {b \in KeyCall : /\ keyCall[b].at = "sent" /\ keyCall[b].by = b
                         /\ keyCall[b].dev = r.dev /\ keyCall[b].ids = r.ids
                         /\ keyCall[b].kinds = r.kinds}
    ELSE {c}

\* The fields of a call: req, the request; by, the upload its keys come from;
\* hk, spk and kspk, the hybrid identity its client signs with and the signed
\* keys it believes published; rows, the device rows it read; dev and todo, the device it serves
\* and those still to serve; burn, whether it may take one-time keys; took,
\* whether it did; ids, the keys still to insert; leaf, the positions of the
\* two leaves it proves; size, that of the tree it loaded.
OpenCall(c, b) ==
    LET r == keyCall[c].req IN
    [at |-> CASE r.op = "fetch" -> "resolve" [] r.op = "upload" -> "counts"
              [] r.op = "rotate" -> "readHybrid",
     req |-> r, by |-> b,
     hk |-> IF r.op = "upload" /\ r.hybrid # "none" THEN c
            ELSE IF WritesKeys(r) THEN keyRow[r.dev].hk ELSE KeyNone,
     spk |-> IF WritesKeys(r) /\ r.spk # "none" THEN c
             ELSE IF WritesKeys(r) THEN keyRow[r.dev].spk ELSE KeyNone,
     kspk |-> IF WritesKeys(r) /\ r.spk = "both" THEN c
              ELSE IF WritesKeys(r) THEN keyRow[r.dev].kspk ELSE KeyNone,
     rows |-> <<>>, dev |-> KeyNone, todo |-> {}, burn |-> FALSE, took |-> FALSE,
     ids |-> {}, leaf |-> <<>>, size |-> 0]

BeginKeyCall(c, b) ==
    LET r == keyCall[c].req IN
    /\ keyCall[c].at = "idle"
    /\ Cardinality({x \in KeyCall : KeyBusy(x)}) < KeyMaxOpen
    /\ keyCall' = [keyCall EXCEPT ![c] = OpenCall(c, b)]
    /\ overlapped' = IF /\ WritesKeys(r)
                        /\ \E x \in KeyCall : KeyBusy(x) /\ WritesKeys(keyCall[x].req)
                                                /\ keyCall[x].req.dev = r.dev
                     THEN overlapped \cup {r.dev} ELSE overlapped
    /\ UNCHANGED <<keyRow, pool, ktVars, countVars, given, twice, burned, uncounted>>

\* A handler whose future is dropped, or that PostgreSQL or Redis fails, leaves
\* what it has done; an open transaction is rolled back and its lock released.
DropKeyCall(c) ==
    /\ KeyBusy(c)
    /\ KeyEnd(c)
    /\ ktLock' = IF ktLock = c THEN KeyNone ELSE ktLock
    /\ uncounted' = IF keyCall[c].took THEN uncounted + 1 ELSE uncounted
    /\ UNCHANGED <<keyRow, pool, ktLog, countVars, given, twice, overlapped, burned>>

----------------------------------------------------------------------------
(* GetPreKeyBundle, GetPreKeyBundles.                                      *)

\* Mutant: the threshold is compared with what was counted before this fetch.
DrainReachedLate(n) == n > DrainThreshold

DrainReached(n) == n >= DrainThreshold

\* The caller opted out, or fetches its own account, or the hour's threshold is
\* reached.  Redis unavailable: the check lets the fetch take keys.
ResolveConsumption(c) ==
    LET r == keyCall[c].req IN
    /\ keyCall[c].at = "resolve"
    /\ \/ /\ keyCall' = [keyCall EXCEPT ![c].at = "rate",
                            ![c].burn = r.wants /\ r.who # "self" /\ ~DrainReached(drained)]
          /\ UNCHANGED uncounted
       \/ /\ r.wants /\ r.who # "self"
          /\ keyCall' = [keyCall EXCEPT ![c].at = "rate", ![c].burn = TRUE]
          /\ uncounted' = uncounted + 1
    /\ UNCHANGED <<keyRow, pool, ktVars, countVars, given, twice, overlapped, burned>>

\* The counter of the caller and the account; above the limit the call is refused.
CountBundle(c) ==
    LET who == keyCall[c].req.who IN
    /\ keyCall[c].at = "rate"
    /\ fetched' = [fetched EXCEPT ![who] = @ + 1]
    /\ IF fetched'[who] > BundleLimit THEN KeyEnd(c) ELSE KeyGo(c, "rows")
    /\ UNCHANGED <<keyRow, pool, ktVars, drained, replaced, keyHistory>>

\* The active devices asked for, all rows in one query.  No row: not found, or
\* an empty answer.
ReadRows(c) ==
    LET found == {d \in keyCall[c].req.devs : keyRow[d].active} IN
    /\ keyCall[c].at = "rows"
    /\ IF found = {} THEN KeyEnd(c)
       ELSE \E d \in found :
              keyCall' = [keyCall EXCEPT ![c].at = "classic", ![c].rows = [x \in found |-> keyRow[x]],
                                         ![c].dev = d, ![c].todo = found \ {d}]
    /\ UNCHANGED <<keyRow, pool, ktVars, countVars, keyHistory>>

\* A row of a one-time key table; up stands for uploaded_at.
KeyRowOf(id, by, up, expired) == [id |-> id, by |-> by, up |-> up, expired |-> expired]
ExpiredRow(k) == KeyRowOf(k.id, k.by, k.up, TRUE)

ActiveKeys(kind, d) == {k \in pool[kind][d] : ~k.expired}
KeyOf(d, k) == [dev |-> d, id |-> k.id, by |-> k.by]

\* Mutant: the oldest classic key is read and stays.
TakenFromUnlocked(kind, d, k) ==
    IF kind = "classic" THEN pool[kind][d] ELSE (pool[kind][d] \ {k}) \cup {ExpiredRow(k)}

\* The table after its row k was taken, in one statement, SKIP LOCKED: a classic key
\* is deleted, the row of a Kyber key stays, expired.
TakenFrom(kind, d, k) ==
    IF kind = "classic" THEN pool[kind][d] \ {k} ELSE (pool[kind][d] \ {k}) \cup {ExpiredRow(k)}

\* The oldest active key of the device, if the call may take one and there is one.
TakeKey(c, kind, next) ==
    LET d == keyCall[c].dev IN
    /\ keyCall[c].at = kind
    /\ IF keyCall[c].burn /\ ActiveKeys(kind, d) # {} THEN
           \E row \in ActiveKeys(kind, d) :
              LET k == KeyOf(d, row) IN
              /\ \A other \in ActiveKeys(kind, d) : row.up <= other.up
              /\ pool' = [pool EXCEPT ![kind][d] = TakenFrom(kind, d, row)]
              /\ given' = [given EXCEPT ![kind] = @ \cup {k}]
              /\ twice' = [twice EXCEPT ![kind] = IF k \in given[kind] THEN @ \cup {k} ELSE @]
              /\ burned' = IF keyCall[c].took THEN burned ELSE burned + 1
              /\ keyCall' = [keyCall EXCEPT ![c].at = next, ![c].took = TRUE]
       ELSE KeyGo(c, next) /\ UNCHANGED <<pool, given, twice, burned>>
    /\ UNCHANGED <<keyRow, ktVars, countVars, overlapped, uncounted>>

TakeClassic(c) == TakeKey(c, "classic", "kyber")
TakeKyber(c) == TakeKey(c, "kyber", "identityLeaf")

----------------------------------------------------------------------------
(* The key transparency log.                                               *)

\* A leaf commits to a device, the kind of key and the key.
KtLeaf(c, kind) ==
    LET d == keyCall[c].dev IN
    [dev |-> d, kind |-> kind,
     key |-> IF kind = "identity" THEN d ELSE keyCall[c].rows[d].hk]

\* tree_index of the latest leaf of the device and kind; -1 if there is none.
LatestLeaf(d, kind) ==
    LET S == {i \in DOMAIN ktLog : ktLog[i].dev = d /\ ktLog[i].kind = kind} IN
    IF S = {} THEN -1 ELSE (CHOOSE i \in S : \A j \in S : j <= i) - 1

\* After its identity leaf a device with a hybrid key has a second one to log.
AfterLeaf(c, kind) ==
    IF kind = "identity" /\ keyCall[c].rows[keyCall[c].dev].hk # KeyNone THEN "hybridLeaf" ELSE "tree"

\* Mutant: the latest leaf is looked up without the lock.
LockFreeUnasked == TRUE

LockFree == ktLock = KeyNone

\* Where a call looks for its leaf, and where it appends it.
LeafAt(kind) == IF kind = "identity" THEN "identityLeaf" ELSE "hybridLeaf"
AppendAt(kind) == IF kind = "identity" THEN "identityAppend" ELSE "hybridAppend"

\* Under KT_APPEND_LOCK: the latest leaf is this key, or it must be appended.
EnsureLeaf(c, kind) ==
    LET d == keyCall[c].dev  i == LatestLeaf(d, kind) IN
    /\ keyCall[c].at = LeafAt(kind)
    /\ LockFree
    /\ IF i >= 0 /\ ktLog[i + 1] = KtLeaf(c, kind) THEN
           /\ keyCall' = [keyCall EXCEPT ![c].at = AfterLeaf(c, kind), ![c].leaf = Append(@, i)]
           /\ UNCHANGED ktLock
       ELSE KeyGo(c, AppendAt(kind)) /\ ktLock' = c
    /\ UNCHANGED <<keyRow, pool, ktLog, countVars, keyHistory>>

NextIndex == Len(ktLog)

\* The leaf goes to the next position; the commit releases the lock.
AppendLeaf(c, kind) ==
    /\ keyCall[c].at = AppendAt(kind)
    /\ ktLog' = Append(ktLog, KtLeaf(c, kind))
    /\ ktLock' = KeyNone
    /\ keyCall' = [keyCall EXCEPT ![c].at = AfterLeaf(c, kind), ![c].leaf = Append(@, NextIndex)]
    /\ UNCHANGED <<keyRow, pool, countVars, keyHistory>>

\* One load of the tree for both proofs.
LoadTree(c) ==
    /\ keyCall[c].at = "tree"
    /\ keyCall' = [keyCall EXCEPT ![c].at = "bundle", ![c].size = Len(ktLog)]
    /\ UNCHANGED <<keyRow, pool, ktVars, countVars, keyHistory>>

\* A failure of the log is never fatal: the bundle goes without proofs.  Nor has
\* it any when no signing key is configured.
ProofsFail(c) ==
    /\ keyCall[c].at \in {"identityLeaf", "identityAppend", "hybridLeaf", "hybridAppend", "tree"}
    /\ keyCall' = [keyCall EXCEPT ![c].at = "bundle", ![c].leaf = <<>>]
    /\ ktLock' = IF ktLock = c THEN KeyNone ELSE ktLock
    /\ UNCHANGED <<keyRow, pool, ktLog, countVars, keyHistory>>

\* The bundle of this device is built; on to the next, or the answer, after
\* which a task counts the consumption, once for the call.
FinishBundle(c) ==
    /\ keyCall[c].at = "bundle"
    /\ IF keyCall[c].todo # {} THEN
           \E d \in keyCall[c].todo :
              keyCall' = [keyCall EXCEPT ![c].at = "classic", ![c].dev = d, ![c].todo = @ \ {d},
                                         ![c].leaf = <<>>, ![c].size = 0]
       ELSE IF keyCall[c].took THEN KeyGo(c, "record")
       ELSE KeyEnd(c)
    /\ UNCHANGED <<keyRow, pool, ktVars, countVars, keyHistory>>

RecordConsumption(c) ==
    /\ keyCall[c].at = "record"
    /\ drained' = drained + 1
    /\ KeyEnd(c)
    /\ UNCHANGED <<keyRow, pool, ktVars, fetched, replaced, keyHistory>>

----------------------------------------------------------------------------
(* UploadPreKeys.                                                          *)

\* What is held counts unless this upload replaces it.
UploadAllowed(r) ==
    \A kind \in r.kinds :
        /\ Cardinality(r.ids) <= MaxPerUpload
        /\ (IF r.replace THEN 0 ELSE Cardinality(ActiveKeys(kind, r.dev))) + Cardinality(r.ids) <= MaxStored

AfterLimits(r) ==
    IF r.spk # "none" THEN "spk" ELSE IF r.hybrid # "none" THEN "readKeys" ELSE "exists"

CountKeys(c) ==
    LET r == keyCall[c].req IN
    /\ keyCall[c].at = "counts"
    /\ IF ~UploadAllowed(r) THEN KeyEnd(c)
       ELSE KeyGo(c, IF r.replace THEN "replaceLimit" ELSE AfterLimits(r))
    /\ UNCHANGED <<keyRow, pool, ktVars, countVars, keyHistory>>

CountReplace(c) ==
    LET r == keyCall[c].req IN
    /\ keyCall[c].at = "replaceLimit"
    /\ replaced' = [replaced EXCEPT ![r.dev] = @ + 1]
    /\ IF replaced'[r.dev] > MaxReplaces THEN KeyEnd(c) ELSE KeyGo(c, AfterLimits(r))
    /\ UNCHANGED <<keyRow, pool, ktVars, drained, fetched, keyHistory>>

\* A signature of the hybrid identity hk over the signed key k.
HybridSigned(hk, k) == [hk |-> hk, key |-> k]

\* The row after call c rotated its signed keys: the classic one, and the Kyber
\* one when the request carries it.
RotatedRow(row, c, r, sig, ksig) ==
    IF r.spk = "both" THEN
        [row EXCEPT !.spk = c, !.paired = TRUE, !.sig = sig, !.kspk = c, !.ksig = ksig]
    ELSE [row EXCEPT !.spk = c, !.paired = r.spk # "classic", !.sig = sig]

\* One transaction: a Kyber key the server refuses leaves the classic one too.
StoreSpk(c, r, sig, ksig, kyberAccepted) ==
    IF r.spk = "refused" \/ (r.spk = "both" /\ ~kyberAccepted) THEN UNCHANGED keyRow
    ELSE keyRow' = [keyRow EXCEPT ![r.dev] = RotatedRow(@, c, r, sig, ksig)]

\* The rotation that comes with an upload clears the hybrid signatures.
UploadSpk(c) ==
    LET r == keyCall[c].req IN
    /\ keyCall[c].at = "spk"
    /\ IF keyRow[r.dev].active THEN
           /\ StoreSpk(c, r, KeyNone, KeyNone, TRUE)
           /\ IF r.spk = "refused" THEN KeyEnd(c)
              ELSE KeyGo(c, IF r.hybrid # "none" THEN "readKeys" ELSE "exists")
       ELSE KeyEnd(c) /\ UNCHANGED keyRow
    /\ UNCHANGED <<pool, ktVars, countVars, keyHistory>>

\* store_hybrid_identity reads the signed keys its signatures are checked over.
ReadKeys(c) ==
    LET d == keyCall[c].req.dev IN
    /\ keyCall[c].at = "readKeys"
    /\ IF keyRow[d].active THEN
           keyCall' = [keyCall EXCEPT ![c].at = "writeHybrid", ![c].rows = [x \in {d} |-> keyRow[x]]]
       ELSE KeyEnd(c)
    /\ UNCHANGED <<keyRow, pool, ktVars, countVars, keyHistory>>

\* The signature as it is stored: none when it does not verify over the key read.
VerifiedSig(c, signed, read) ==
    IF keyCall[c].req.hybrid = "signed" /\ signed = read THEN HybridSigned(c, read) ELSE KeyNone

\* The signatures are written outright, with the identity they belong to.
HybridRow(c, row, sig, ksig) == [row EXCEPT !.hk = c, !.sig = sig, !.ksig = ksig]

WriteHybrid(c) ==
    LET d == keyCall[c].req.dev  read == keyCall[c].rows[d] IN
    /\ keyCall[c].at = "writeHybrid"
    /\ keyRow' = IF keyRow[d].active THEN
                     [keyRow EXCEPT ![d] = HybridRow(c, @, VerifiedSig(c, keyCall[c].spk, read.spk),
                                                     VerifiedSig(c, keyCall[c].kspk, read.kspk))]
                 ELSE keyRow
    /\ KeyGo(c, "exists")
    /\ UNCHANGED <<pool, ktVars, countVars, keyHistory>>

\* Then the one-time keys: the device must be active, and every Kyber key be
\* signed by the hybrid identity on the row.
CheckKeys(c) ==
    LET r == keyCall[c].req  row == keyRow[r.dev] IN
    /\ keyCall[c].at = "exists"
    /\ IF row.active /\ (r.ids # {} /\ "kyber" \in r.kinds => row.hk # KeyNone /\ row.hk = keyCall[c].hk)
       THEN keyCall' = [keyCall EXCEPT ![c].at = IF r.replace THEN "expire" ELSE "insert",
                                       ![c].ids = r.ids]
       ELSE KeyEnd(c)
    /\ UNCHANGED <<keyRow, pool, ktVars, countVars, keyHistory>>

ExpiredRows(rows) == {ExpiredRow(k) : k \in rows}

\* replace_existing: what the device holds is expired, a table at a time.
ExpireKeys(c, kind, at, next) ==
    LET d == keyCall[c].req.dev IN
    /\ keyCall[c].at = at
    /\ pool' = [pool EXCEPT ![kind][d] = ExpiredRows(@)]
    /\ KeyGo(c, next)
    /\ UNCHANGED <<keyRow, ktVars, countVars, keyHistory>>

ExpireClassic(c) == ExpireKeys(c, "classic", "expire", "expireKyber")
ExpireKyber(c) == ExpireKeys(c, "kyber", "expireKyber", "insert")

\* The row of a key uploaded now, after those of the table.
NewKeyRow(rows, id, by) == KeyRowOf(id, by, 1 + Max({0} \cup {k.up : k \in rows}), FALSE)

\* Mutant: a conflict overwrites the row.
InsertedRowOver(rows, id, by) == {k \in rows : k.id # id} \cup {NewKeyRow(rows, id, by)}

\* ON CONFLICT (device_id, key_id) DO NOTHING.
InsertedRow(rows, id, by) ==
    IF \E k \in rows : k.id = id THEN rows ELSE rows \cup {NewKeyRow(rows, id, by)}

\* The keys of a request are inserted one by one, in its order.
InsertKey(c, kind, at) ==
    LET r == keyCall[c].req IN
    /\ keyCall[c].at = at
    /\ kind \in r.kinds
    /\ \E id \in keyCall[c].ids :
          /\ \A other \in keyCall[c].ids : id <= other
          /\ pool' = [pool EXCEPT ![kind][r.dev] = InsertedRow(@, id, keyCall[c].by)]
          /\ keyCall' = [keyCall EXCEPT ![c].ids = @ \ {id}]
    /\ UNCHANGED <<keyRow, ktVars, countVars, keyHistory>>

InsertClassic(c) == InsertKey(c, "classic", "insert")
InsertKyber(c) == InsertKey(c, "kyber", "insertKyber")

\* All classic keys are in: on to the Kyber keys, then the answer.
NextInserts(c) ==
    LET r == keyCall[c].req IN
    /\ \/ /\ keyCall[c].at = "insert" /\ ("classic" \in r.kinds => keyCall[c].ids = {})
          /\ keyCall' = [keyCall EXCEPT ![c].at = "insertKyber", ![c].ids = r.ids]
       \/ /\ keyCall[c].at = "insertKyber" /\ ("kyber" \in r.kinds => keyCall[c].ids = {})
          /\ keyCall' = [keyCall EXCEPT ![c] = KeyOver(c, TRUE)]
    /\ UNCHANGED <<keyRow, pool, ktVars, countVars, keyHistory>>

----------------------------------------------------------------------------
(* RotateSignedPreKey.                                                     *)

\* The hybrid identity the signature over the new key is checked against.
ReadHybrid(c) ==
    LET r == keyCall[c].req  row == keyRow[r.dev] IN
    /\ keyCall[c].at = "readHybrid"
    /\ IF row.active /\ (r.hybrid = "signed" => row.hk # KeyNone /\ row.hk = keyCall[c].hk)
       THEN KeyGo(c, "rotate") ELSE KeyEnd(c)
    /\ UNCHANGED <<keyRow, pool, ktVars, countVars, keyHistory>>

\* The update does not ask whether the device is active; storing the Kyber key,
\* in the same transaction, does, and checks its signature against the row.
RotateKeys(c) ==
    LET r == keyCall[c].req  row == keyRow[r.dev]
        sig == IF r.hybrid = "signed" THEN HybridSigned(keyCall[c].hk, c) ELSE KeyNone IN
    /\ keyCall[c].at = "rotate"
    /\ StoreSpk(c, r, sig, sig, row.active /\ (r.hybrid = "signed" => row.hk = keyCall[c].hk))
    /\ KeyEnd(c)
    /\ UNCHANGED <<pool, ktVars, countVars, keyHistory>>

----------------------------------------------------------------------------
(* Elsewhere.                                                              *)

\* auth-service revokes the device.
RevokeDevice(d) ==
    /\ keyRow[d].active
    /\ keyRow' = [keyRow EXCEPT ![d].active = FALSE]
    /\ UNCHANGED <<pool, ktVars, countVars, keyCall, keyHistory>>

\* 48 hours later the expired keys are deleted, every call is over and no client
\* repeats what it sent before.
CleanupExpired ==
    /\ \A c \in KeyCall : ~KeyBusy(c)
    /\ pool' = [kind \in KeyKind |-> [d \in KeyDevice |-> ActiveKeys(kind, d)]]
    /\ pool' # pool
    /\ keyCall' = [c \in KeyCall |-> IF keyCall[c].at = "sent" THEN [keyCall[c] EXCEPT !.at = "gone"]
                                     ELSE keyCall[c]]
    /\ UNCHANGED <<keyRow, ktVars, countVars, keyHistory>>

----------------------------------------------------------------------------
KeysInit ==
    /\ keyRow = [d \in KeyDevice |->
            LET hk == IF d \in KeyHybrid THEN KeyBefore ELSE KeyNone
                sig == IF d \in KeyHybrid THEN HybridSigned(KeyBefore, KeyBefore) ELSE KeyNone IN
            [active |-> TRUE, spk |-> KeyBefore, paired |-> TRUE, sig |-> sig,
             kspk |-> KeyBefore, ksig |-> sig, hk |-> hk]]
    /\ pool = [kind \in KeyKind |-> [d \in KeyDevice |->
            IF kind = "kyber" /\ d \notin KeyHybrid THEN {}
            ELSE {KeyRowOf(id, KeyBefore, id, FALSE) : id \in KeyIdsBefore}]]
    /\ ktLog = <<>> /\ ktLock = KeyNone
    /\ drained = 0 /\ fetched = [who \in {"self", "peer", "other"} |-> 0]
    /\ replaced = [d \in KeyDevice |-> 0]
    /\ \E plan \in KeyPlan : keyCall = [c \in KeyCall |-> [at |-> "idle", req |-> plan[c]]]
    /\ given = [kind \in KeyKind |-> {}] /\ twice = [kind \in KeyKind |-> {}]
    /\ overlapped = {} /\ burned = 0 /\ uncounted = 0

FetchStep(c) ==
    \/ ResolveConsumption(c) \/ CountBundle(c) \/ ReadRows(c) \/ TakeClassic(c) \/ TakeKyber(c)
    \/ \E kind \in {"identity", "hybrid"} : EnsureLeaf(c, kind) \/ AppendLeaf(c, kind)
    \/ LoadTree(c) \/ ProofsFail(c) \/ FinishBundle(c) \/ RecordConsumption(c)

UploadStep(c) ==
    \/ CountKeys(c) \/ CountReplace(c) \/ UploadSpk(c) \/ ReadKeys(c) \/ WriteHybrid(c)
    \/ CheckKeys(c) \/ ExpireClassic(c) \/ ExpireKyber(c)
    \/ InsertClassic(c) \/ InsertKyber(c) \/ NextInserts(c)

KeysNext ==
    \/ \E c \in KeyCall : \/ keyCall[c].at = "idle" /\ \E b \in KeyBatches(c, keyCall[c].req) : BeginKeyCall(c, b)
                          \/ DropKeyCall(c) \/ FetchStep(c) \/ UploadStep(c)
                          \/ ReadHybrid(c) \/ RotateKeys(c)
    \/ \E d \in KeyDevice : RevokeDevice(d)
    \/ CleanupExpired

KeysSpec == KeysInit /\ [][KeysNext]_keyVars

----------------------------------------------------------------------------
(* Properties.                                                             *)

KeySig == [hk : KeyUploader, key : KeyUploader] \cup {KeyNone}

\* Rows, tables and counters have the shapes the schema gives them; a key_id is
\* used by one row of a table.
KeysTypeOK ==
    /\ keyRow \in [KeyDevice -> [active : BOOLEAN, spk : KeyUploader, paired : BOOLEAN, sig : KeySig,
                                 kspk : KeyUploader, ksig : KeySig, hk : KeyUploader \cup {KeyNone}]]
    /\ \A kind \in KeyKind, d \in KeyDevice :
          /\ pool[kind][d] \subseteq [id : KeyId, by : KeyUploader, up : Nat, expired : BOOLEAN]
          /\ \A j, k \in pool[kind][d] : j.id = k.id => j = k
    /\ drained \in 0..Cardinality(KeyCall) /\ burned \in 0..Cardinality(KeyCall)
    /\ overlapped \subseteq KeyDevice /\ ktLock \in KeyCall \cup {KeyNone}
    /\ \A kind \in KeyKind : given[kind] \subseteq OneTimeKey /\ twice[kind] \subseteq given[kind]

\* The Kyber one-time keys, as a store of one-time keys.
HeldKyber == UNION {{KeyOf(d, k) : k \in ActiveKeys("kyber", d)} : d \in KeyDevice}
KyberStore == INSTANCE OneTimeKeys WITH Key <- OneTimeKey, held <- HeldKyber, spent <- given["kyber"]

\* A Kyber one-time key is handed out once, even when the upload it came with is
\* sent again: the expired row that get_prekey_bundle leaves keeps the insert of
\* upload_prekeys from bringing the key back.
KyberKeysGivenOnce == KyberStore!StoreSpec

\* A classic one-time key is handed out a second time only if its client sent it a
\* second time: get_prekey_bundle deletes the row, whatever fetches run at once.
ClassicKeysGivenOnce ==
    \A k \in twice["classic"] :
        \E c \in KeyCall \ {k.by} : keyCall[c].at \notin {"idle", "done"} /\ keyCall[c].by = k.by

\* A device whose key-writing calls never overlapped serves hybrid signatures made
\* by the hybrid identity and over the signed keys it serves with them, or none
\* (store_hybrid_identity, rotate_signed_prekey).
BundleSelfConsistent ==
    \A d \in KeyDevice \ overlapped :
        /\ keyRow[d].sig \in {KeyNone, HybridSigned(keyRow[d].hk, keyRow[d].spk)}
        /\ keyRow[d].ksig \in {KeyNone, HybridSigned(keyRow[d].hk, keyRow[d].kspk)}

\* A signed key that came with a Kyber key is served with that Kyber key: the two
\* are rotated together or not at all.
RotatedTogether == \A d \in KeyDevice : keyRow[d].paired => keyRow[d].spk = keyRow[d].kspk

\* A device whose uploads never overlapped holds at most MAX_STORED_PREKEYS active
\* one-time keys of each kind.
StoredBound ==
    \A kind \in KeyKind, d \in KeyDevice \ overlapped : Cardinality(ActiveKeys(kind, d)) <= MaxStored

\* The fetches that took a one-time key of the account within the hour exceed the
\* drain threshold by no more than the fetches that may be in flight with the one
\* that reached it, and those Redis did not count.
DrainBound == burned <= DrainThreshold + (KeyMaxOpen - 1) + uncounted

\* Overlapping calls pass the limits on one-time keys by no more than overlaps allow.
KeyLimits == StoredBound /\ DrainBound

\* A proof names the position its own leaf has in the tree that was loaded, whatever
\* was appended by then (build_kt_proofs, db_ensure_leaf).
ProofsNameTheirLeaf ==
    \A c \in KeyCall : KeyBusy(c) /\ keyCall[c].at = "bundle" =>
        \A i \in DOMAIN keyCall[c].leaf :
            LET kind == <<"identity", "hybrid">>[i] IN
            /\ keyCall[c].leaf[i] < keyCall[c].size
            /\ ktLog[keyCall[c].leaf[i] + 1] = KtLeaf(c, kind)

\* The log records a change of key once: consecutive leaves of a device and kind
\* differ, so two first fetches of a new device append it once.
LeavesRecordChanges ==
    \A i, j \in DOMAIN ktLog :
        /\ i < j /\ ktLog[i] = ktLog[j]
        => \E k \in (i + 1)..(j - 1) : /\ ktLog[k].dev = ktLog[i].dev
                                         /\ ktLog[k].kind = ktLog[i].kind /\ ktLog[k] # ktLog[i]

\* What a bundle says of a device is true together: its keys and signatures belong
\* to each other, its proofs to its leaf, and the log has one leaf for each change.
BundlesTrue == BundleSelfConsistent /\ RotatedTogether /\ ProofsNameTheirLeaf /\ LeavesRecordChanges

\* After an accepted replacing upload the new keys are in the table or were handed
\* out: core.rs says the existing keys "are atomically deleted before the new batch
\* is inserted".
ReplaceDelivers ==
    \A c \in KeyCall : keyCall[c].at = "sent" /\ keyCall[c].replaced =>
        \A kind \in keyCall[c].kinds, id \in keyCall[c].ids :
            \/ [dev |-> keyCall[c].dev, id |-> id, by |-> keyCall[c].by] \in given[kind]
            \/ \E k \in pool[kind][keyCall[c].dev] : k.id = id /\ k.by = keyCall[c].by

=============================================================================
