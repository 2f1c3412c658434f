----------------------------- MODULE KeysProofs -----------------------------
(***************************************************************************)
(* key-service hands a Kyber one-time key out once: Keys implements        *)
(* OneTimeKeys; and a classic one-time key is given twice only when it was *)
(* sent twice; for any devices, requests and bounds.                       *)
(***************************************************************************)
EXTENDS Keys, TLAPS

Over == {"idle", "done", "sent", "gone"}

FetchPlace == {"resolve", "rate", "rows", "classic", "kyber", "identityLeaf", "identityAppend",
               "hybridLeaf", "hybridAppend", "tree", "bundle", "record"}
UploadPlace == {"counts", "replaceLimit", "spk", "readKeys", "writeHybrid", "exists", "expire",
                "expireKyber", "insert", "insertKyber"}
RotatePlace == {"readHybrid", "rotate"}

CallFields == {"at", "req", "by", "hk", "spk", "kspk", "rows", "dev", "todo", "burn", "took",
               "ids", "leaf", "size"}

\* A call in progress: the keys and devices it still has to serve are the account's.
OpenOK(r) ==
    /\ DOMAIN r = CallFields
    /\ KeyRequestOK(r.req)
    /\ r.by \in KeyCall
    /\ r.ids \subseteq KeyId
    /\ r.todo \subseteq KeyDevice
    /\ r.at \in FetchPlace \cup UploadPlace \cup RotatePlace
    /\ r.at \in FetchPlace => r.req.op = "fetch"
    /\ r.at \in {"classic", "kyber"} => r.dev \in KeyDevice
    /\ r.at \in UploadPlace => r.req.op = "upload"
    /\ r.at \in RotatePlace => r.req.op = "rotate"

\* What a call is before, during and after it.
CallOK(r) ==
    \/ r.at = "idle" /\ KeyRequestOK(r.req)
    \/ r.at = "done"
    \/ r.at \in {"sent", "gone"} /\ DOMAIN r = {"at", "dev", "ids", "kinds", "by", "replaced"}
    \/ OpenOK(r)

CallsOK == DOMAIN keyCall = KeyCall /\ \A c \in KeyCall : CallOK(keyCall[c])

\* A call in progress carries keys of its own, or of an upload that may be repeated.
BatchesOK ==
    \A c \in KeyCall : KeyBusy(c) => keyCall[c].by = c \/ keyCall[keyCall[c].by].at = "sent"

\* The rows of the Kyber table: one to a key_id, each from an upload that was made.
TableOK ==
    /\ DOMAIN pool = KeyKind /\ \A kind \in KeyKind : DOMAIN pool[kind] = KeyDevice
    /\ \A d \in KeyDevice : \A k \in pool["kyber"][d] :
          /\ k.id \in KeyId /\ k.by \in KeyUploader /\ k.expired \in BOOLEAN
          /\ k.by \in KeyCall => keyCall[k.by].at # "idle"
    /\ \A d \in KeyDevice : \A j, k \in pool["kyber"][d] : j.id = k.id => j = k

\* No call will carry the keys of this upload again.
Retired(b) == b = KeyBefore \/ (b \in KeyCall /\ keyCall[b].at \in {"gone", "done"})

\* The expired row that a key leaves when it is handed out.
Tombstone(k) ==
    \E row \in pool["kyber"][k.dev] : row.id = k.id /\ row.by = k.by /\ row.expired

\* What keeps a key that was handed out from coming back: its row, or that nobody
\* sends it any more.
GivenOK ==
    /\ DOMAIN given = KeyKind /\ given["kyber"] \subseteq OneTimeKey
    /\ \A k \in given["kyber"] : Tombstone(k) \/ Retired(k.by)

KyberInv == CallsOK /\ BatchesOK /\ TableOK /\ GivenOK

-----------------------------------------------------------------------------
\* The invariant holds of the tables as they were found, before any call.
LEMMA KyberInit == KeysInit => KyberInv
<1> SUFFICES ASSUME KeysInit PROVE KyberInv
    BY Zenon
<1> USE KeyAssumption
<1>1. CallsOK /\ BatchesOK
  <2>1. PICK p \in KeyPlan : keyCall = [c \in KeyCall |-> [at |-> "idle", req |-> p[c]]]
      BY Zenon DEF KeysInit
  <2> QED BY Zenon, <2>1 DEF CallsOK, CallOK, BatchesOK, KeyBusy
<1>2. TableOK
  <2>1. pool = [kind \in KeyKind |-> [d \in KeyDevice |->
            IF kind = "kyber" /\ d \notin KeyHybrid THEN {}
            ELSE {KeyRowOf(id, KeyBefore, id, FALSE) : id \in KeyIdsBefore}]]
      BY Zenon DEF KeysInit
  <2>2. \A d \in KeyDevice : \A k \in pool["kyber"][d] :
            \E id \in KeyIdsBefore : k = KeyRowOf(id, KeyBefore, id, FALSE)
      BY Zenon, <2>1 DEF KeyKind
  <2>3. \A d \in KeyDevice : \A k \in pool["kyber"][d] :
            k = KeyRowOf(k.id, KeyBefore, k.id, FALSE) /\ k.id \in KeyIdsBefore
      BY <2>2 DEF KeyRowOf
  <2>4. \A d \in KeyDevice : \A k \in pool["kyber"][d] : k.by = KeyBefore /\ k.expired = FALSE
      BY <2>2 DEF KeyRowOf
  <2>5. DOMAIN pool = KeyKind /\ \A kind \in KeyKind : DOMAIN pool[kind] = KeyDevice
      BY Zenon, <2>1
  <2> QED BY Zenon, <2>3, <2>4, <2>5 DEF TableOK, KeyUploader
<1>3. GivenOK
    BY Zenon DEF KeysInit, GivenOK, KeyKind
<1> QED BY Zenon, <1>1, <1>2, <1>3 DEF KyberInv

\* What a step of a call in progress does to the calls: uploads that were over, or
\* were made, stay so.
LEMMA CallStep ==
    ASSUME KyberInv, NEW c \in KeyCall, KeyBusy(c), NEW r,
           keyCall' = [keyCall EXCEPT ![c] = r],
           r.at # "idle", CallOK(r), r.at # "gone",
           r.at \notin Over => r.by = keyCall[c].by
    PROVE  /\ CallsOK' /\ BatchesOK'
           /\ \A x \in KeyCall : keyCall[x].at # "idle" => keyCall'[x].at # "idle"
           /\ \A b : Retired(b) => Retired(b)'
<1>1. \A x \in KeyCall : keyCall'[x] = IF x = c THEN r ELSE keyCall[x]
    BY Zenon DEF KyberInv, CallsOK
<1>2. \A x \in KeyCall \ {c} : KeyBusy(x) => keyCall[x].by # c
    BY Zenon DEF KyberInv, BatchesOK, KeyBusy
<1>3. CallsOK'
    BY Zenon, <1>1 DEF KyberInv, CallsOK
<1>4. BatchesOK'
    BY <1>1, <1>2 DEF KyberInv, BatchesOK, KeyBusy, Over, CallsOK, CallOK, OpenOK
<1>5. \A b : Retired(b) => Retired(b)'
    BY Zenon, <1>1 DEF Retired, KeyBusy
<1> QED BY Zenon, <1>1, <1>3, <1>4, <1>5

\* A step of a call in progress that leaves the Kyber table and what was handed out
\* of it alone keeps the invariant, if what becomes of the call is sound.
LEMMA QuietStep ==
    ASSUME KyberInv, NEW c \in KeyCall, KeyBusy(c), NEW r,
           keyCall' = [keyCall EXCEPT ![c] = r],
           r.at # "idle", CallOK(r), r.at # "gone",
           r.at \notin Over => r.by = keyCall[c].by,
           DOMAIN pool' = KeyKind, \A kind \in KeyKind : DOMAIN pool'[kind] = KeyDevice,
           pool'["kyber"] = pool["kyber"],
           DOMAIN given' = KeyKind, given'["kyber"] = given["kyber"]
    PROVE  KyberInv'
<1>1. /\ CallsOK' /\ BatchesOK'
      /\ \A x \in KeyCall : keyCall[x].at # "idle" => keyCall'[x].at # "idle"
      /\ \A b : Retired(b) => Retired(b)'
    BY Zenon, CallStep
<1>2. TableOK'
    BY Zenon, <1>1 DEF KyberInv, TableOK
<1>3. GivenOK'
  <2>1. \A k \in given["kyber"] : Tombstone(k) => Tombstone(k)'
      BY Zenon DEF Tombstone
  <2> QED BY Zenon, <1>1, <2>1 DEF KyberInv, GivenOK
<1> QED BY Zenon, <1>1, <1>2, <1>3 DEF KyberInv

\* A call that is neither before its start nor over is open.
LEMMA BusyOpen ==
    ASSUME KyberInv, NEW c \in KeyCall, KeyBusy(c)
    PROVE  OpenOK(keyCall[c])
BY Zenon DEF KyberInv, CallsOK, CallOK, KeyBusy

\* The tables as they are when a step leaves them alone.
LEMMA SameTables ==
    ASSUME KyberInv, UNCHANGED <<pool, given>>
    PROVE  /\ DOMAIN pool' = KeyKind /\ \A kind \in KeyKind : DOMAIN pool'[kind] = KeyDevice
           /\ pool'["kyber"] = pool["kyber"]
           /\ DOMAIN given' = KeyKind /\ given'["kyber"] = given["kyber"]
BY Zenon DEF KyberInv, TableOK, GivenOK

\* A call that goes on.
LEMMA GoesOn ==
    ASSUME KyberInv, NEW c \in KeyCall, KeyBusy(c), NEW r,
           keyCall' = [keyCall EXCEPT ![c] = r], OpenOK(r), r.by = keyCall[c].by,
           UNCHANGED <<pool, given>>
    PROVE  KyberInv'
<1>1. r.at \notin Over
    BY Zenon DEF OpenOK, Over, FetchPlace, UploadPlace, RotatePlace
<1> QED BY Zenon, <1>1, QuietStep, SameTables DEF Over, CallOK

\* A call that ends, wherever it is.
LEMMA Ends ==
    ASSUME KyberInv, NEW c \in KeyCall, KeyBusy(c), NEW ok,
           keyCall' = [keyCall EXCEPT ![c] = KeyOver(c, ok)],
           UNCHANGED <<pool, given>>
    PROVE  KyberInv'
<1> DEFINE r == KeyOver(c, ok)
<1>1. CallOK(r) /\ r.at \in {"sent", "done"}
    BY Zenon DEF KeyOver, KeyCallDone, CallOK
<1>2. r.at # "idle" /\ r.at # "gone" /\ (r.at \notin Over => r.by = keyCall[c].by)
    BY Zenon, <1>1 DEF Over
<1> HIDE DEF r
<1>3. keyCall' = [keyCall EXCEPT ![c] = r]
    BY Zenon DEF r
<1> QED BY Zenon, <1>1, <1>2, <1>3, QuietStep, SameTables

\* A call that moves to another place of its handler.
LEMMA Moves ==
    ASSUME KyberInv, NEW c \in KeyCall, KeyBusy(c), NEW at,
           KeyGo(c, at), UNCHANGED <<pool, given>>,
           \/ keyCall[c].at \in FetchPlace /\ at \in FetchPlace \ {"classic", "kyber"}
           \/ keyCall[c].at \in UploadPlace /\ at \in UploadPlace
           \/ keyCall[c].at \in RotatePlace /\ at \in RotatePlace
           \/ keyCall[c].at = "classic" /\ at = "kyber"
    PROVE  KyberInv'
<1> DEFINE r == [keyCall[c] EXCEPT !.at = at]
<1>1. OpenOK(keyCall[c])
    BY Zenon, BusyOpen
<1>2. OpenOK(r) /\ r.by = keyCall[c].by
    BY Zenon, <1>1 DEF OpenOK, CallFields, FetchPlace, UploadPlace, RotatePlace
<1>3. keyCall' = [keyCall EXCEPT ![c] = r]
    BY Zenon DEF KeyGo
<1> HIDE DEF r
<1> QED BY Zenon, <1>2, <1>3, GoesOn

-----------------------------------------------------------------------------
\* A call begins with keys of its own, or of an upload that was sent before.
LEMMA BeginStep ==
    ASSUME KyberInv, NEW c \in KeyCall, keyCall[c].at = "idle",
           NEW b \in KeyBatches(c, keyCall[c].req), BeginKeyCall(c, b)
    PROVE  KyberInv'
<1> DEFINE r == OpenCall(c, b)
<1>1. /\ keyCall' = [keyCall EXCEPT ![c] = r]
      /\ DOMAIN r = CallFields
      /\ r.at = (CASE keyCall[c].req.op = "fetch" -> "resolve"
                   [] keyCall[c].req.op = "upload" -> "counts"
                   [] keyCall[c].req.op = "rotate" -> "readHybrid")
      /\ r.req = keyCall[c].req /\ r.by = b /\ r.ids = {} /\ r.todo = {}
    BY Zenon DEF BeginKeyCall, CallFields, OpenCall
<1> HIDE DEF r
<1>2. KeyRequestOK(keyCall[c].req)
    BY Zenon DEF KyberInv, CallsOK, CallOK, OpenOK, FetchPlace, UploadPlace, RotatePlace
<1>3. b \in KeyCall /\ (b = c \/ keyCall[b].at = "sent")
    BY Zenon DEF KeyBatches
<1>4. OpenOK(r) /\ r.at \notin Over
    BY Zenon, <1>1, <1>2, <1>3 DEF OpenOK, KeyRequestOK, FetchPlace, UploadPlace, RotatePlace, Over
<1>5. \A x \in KeyCall : keyCall'[x] = IF x = c THEN r ELSE keyCall[x]
    BY Zenon, <1>1 DEF KyberInv, CallsOK
<1>6. CallsOK'
    BY Zenon, <1>1, <1>4, <1>5 DEF KyberInv, CallsOK, CallOK
<1>7. BatchesOK'
  <2>1. \A x \in KeyCall : KeyBusy(x) => keyCall[x].by \in KeyCall
      BY Zenon, BusyOpen DEF OpenOK
  <2> QED BY <1>1, <1>3, <1>4, <1>5, <2>1 DEF KyberInv, BatchesOK, KeyBusy, Over
<1>8. TableOK'
    BY Zenon, <1>4, <1>5 DEF KyberInv, TableOK, BeginKeyCall, Over
<1>9. GivenOK'
  <2>1. \A k \in given["kyber"] : Tombstone(k) => Tombstone(k)'
      BY Zenon DEF Tombstone, BeginKeyCall
  <2>2. \A x : Retired(x) => Retired(x)'
      BY Zenon, <1>5 DEF Retired
  <2> QED BY Zenon, <2>1, <2>2 DEF KyberInv, GivenOK, BeginKeyCall
<1> QED BY Zenon, <1>6, <1>7, <1>8, <1>9 DEF KyberInv

\* A call that is dropped leaves the tables as they are.
LEMMA DropStep ==
    ASSUME KyberInv, NEW c \in KeyCall, DropKeyCall(c)
    PROVE  KyberInv' /\ UNCHANGED <<pool, given>>
BY ZenonT(60), Ends DEF DropKeyCall, KeyEnd

\* The steps of a fetch that touch neither table.
LEMMA QuietFetch ==
    ASSUME KyberInv, NEW c \in KeyCall,
           \/ ResolveConsumption(c) \/ CountBundle(c) \/ ReadRows(c) \/ LoadTree(c)
           \/ ProofsFail(c) \/ FinishBundle(c) \/ RecordConsumption(c)
    PROVE  KyberInv' /\ UNCHANGED <<pool, given>>
<1> USE DEF keyHistory
<1>1. UNCHANGED <<pool, given>>
    BY Zenon DEF ResolveConsumption, CountBundle, ReadRows, LoadTree, ProofsFail, FinishBundle,
           RecordConsumption
<1>2. KeyBusy(c) /\ keyCall[c].at \in FetchPlace
    BY Zenon DEF ResolveConsumption, CountBundle, ReadRows, LoadTree, ProofsFail, FinishBundle,
           RecordConsumption, KeyBusy, FetchPlace
<1>3. OpenOK(keyCall[c])
    BY Zenon, <1>2, BusyOpen
<1>4. CASE ResolveConsumption(c)
  <2>1. PICK burn : keyCall' = [keyCall EXCEPT ![c] = [@ EXCEPT !.at = "rate", !.burn = burn]]
      BY Zenon, <1>4 DEF ResolveConsumption
  <2> DEFINE r == [keyCall[c] EXCEPT !.at = "rate", !.burn = burn]
  <2>2. OpenOK(r) /\ r.by = keyCall[c].by
      BY Zenon, <1>2, <1>3 DEF OpenOK, CallFields, FetchPlace, UploadPlace, RotatePlace
  <2>3. keyCall' = [keyCall EXCEPT ![c] = r]
      BY Zenon, <2>1
  <2> HIDE DEF r
  <2> QED BY Zenon, <1>1, <1>2, <2>2, <2>3, GoesOn
<1>5. CASE CountBundle(c)
  <2>1. CASE KeyEnd(c)
      BY Zenon, <1>1, <1>2, <2>1, Ends DEF KeyEnd
  <2>2. CASE KeyGo(c, "rows")
      BY Zenon, <1>1, <1>2, <2>2, Moves DEF FetchPlace
  <2> QED BY Zenon, <1>5, <2>1, <2>2 DEF CountBundle
<1>6. CASE ReadRows(c)
  <2>1. CASE KeyEnd(c)
      BY Zenon, <1>1, <1>2, <2>1, Ends DEF KeyEnd
  <2> DEFINE found == {d \in keyCall[c].req.devs : keyRow[d].active}
             r(d) == [keyCall[c] EXCEPT !.at = "classic", !.rows = [x \in found |-> keyRow[x]],
                                        !.dev = d, !.todo = found \ {d}]
  <2>2. KeyEnd(c) \/ \E d \in found : keyCall' = [keyCall EXCEPT ![c] = r(d)]
      BY ZenonT(60), <1>6 DEF ReadRows
  <2>3. found \subseteq KeyDevice
      BY Zenon, <1>2, <1>3 DEF OpenOK, KeyRequestOK
  <2>4. ASSUME NEW d \in found, keyCall' = [keyCall EXCEPT ![c] = r(d)]
        PROVE  KyberInv'
    <3>1. OpenOK(r(d)) /\ r(d).by = keyCall[c].by
        BY Zenon, <1>2, <1>3, <2>3 DEF OpenOK, CallFields, FetchPlace, UploadPlace, RotatePlace
    <3> HIDE DEF r
    <3> QED BY Zenon, <1>1, <1>2, <2>4, <3>1, GoesOn
  <2> QED BY ZenonT(60), <1>1, <2>1, <2>2, <2>4
<1>7. CASE LoadTree(c)
  <2> DEFINE r == [keyCall[c] EXCEPT !.at = "bundle", !.size = Len(ktLog)]
  <2>2. OpenOK(r) /\ r.by = keyCall[c].by
      BY Zenon, <1>2, <1>3 DEF OpenOK, CallFields, FetchPlace, UploadPlace, RotatePlace
  <2>3. keyCall' = [keyCall EXCEPT ![c] = r]
      BY Zenon, <1>7 DEF LoadTree
  <2> HIDE DEF r
  <2> QED BY Zenon, <1>1, <1>2, <2>2, <2>3, GoesOn
<1>8. CASE ProofsFail(c)
  <2> DEFINE r == [keyCall[c] EXCEPT !.at = "bundle", !.leaf = <<>>]
  <2>2. OpenOK(r) /\ r.by = keyCall[c].by
      BY Zenon, <1>2, <1>3 DEF OpenOK, CallFields, FetchPlace, UploadPlace, RotatePlace
  <2>3. keyCall' = [keyCall EXCEPT ![c] = r]
      BY Zenon, <1>8 DEF ProofsFail
  <2> HIDE DEF r
  <2> QED BY Zenon, <1>1, <1>2, <2>2, <2>3, GoesOn
<1>9. CASE FinishBundle(c)
  <2>1. CASE KeyEnd(c)
      BY Zenon, <1>1, <1>2, <2>1, Ends DEF KeyEnd
  <2>2. CASE KeyGo(c, "record")
      BY Zenon, <1>1, <1>2, <2>2, Moves DEF FetchPlace
  <2>3. ASSUME NEW d \in keyCall[c].todo,
               keyCall' = [keyCall EXCEPT ![c] = [@ EXCEPT !.at = "classic", !.dev = d,
                                 !.todo = keyCall[c].todo \ {d}, !.leaf = <<>>, !.size = 0]]
        PROVE  KyberInv'
    <3> DEFINE r == [keyCall[c] EXCEPT !.at = "classic", !.dev = d, !.todo = keyCall[c].todo \ {d},
                                       !.leaf = <<>>, !.size = 0]
    <3>2. OpenOK(r) /\ r.by = keyCall[c].by
        BY Zenon, <1>2, <1>3 DEF OpenOK, CallFields, FetchPlace, UploadPlace, RotatePlace
    <3>3. keyCall' = [keyCall EXCEPT ![c] = r]
        BY Zenon, <2>3
    <3> HIDE DEF r
    <3> QED BY Zenon, <1>1, <1>2, <3>2, <3>3, GoesOn
  <2> QED BY Zenon, <1>9, <2>1, <2>2, <2>3 DEF FinishBundle
<1>10. CASE RecordConsumption(c)
    BY Zenon, <1>1, <1>2, <1>10, Ends DEF RecordConsumption, KeyEnd
<1> QED BY Zenon, <1>1, <1>4, <1>5, <1>6, <1>7, <1>8, <1>9, <1>10

\* The steps of the transparency log leave the tables as they are.
LEMMA LeafSteps ==
    ASSUME KyberInv, NEW c \in KeyCall, NEW kind \in {"identity", "hybrid"},
           EnsureLeaf(c, kind) \/ AppendLeaf(c, kind)
    PROVE  KyberInv' /\ UNCHANGED <<pool, given>>
<1> USE DEF keyHistory
<1>1. UNCHANGED <<pool, given>>
    BY Zenon DEF EnsureLeaf, AppendLeaf
<1>2. KeyBusy(c) /\ keyCall[c].at \in FetchPlace
    BY Zenon DEF EnsureLeaf, AppendLeaf, LeafAt, AppendAt, KeyBusy, FetchPlace
<1>3. OpenOK(keyCall[c])
    BY Zenon, <1>2, BusyOpen
<1>4. AfterLeaf(c, kind) \in {"hybridLeaf", "tree"}
    BY Zenon DEF AfterLeaf
<1>5. ASSUME NEW leaf,
             keyCall' = [keyCall EXCEPT ![c] = [@ EXCEPT !.at = AfterLeaf(c, kind), !.leaf = leaf]]
      PROVE  KyberInv'
  <2> DEFINE r == [keyCall[c] EXCEPT !.at = AfterLeaf(c, kind), !.leaf = leaf]
  <2>1. OpenOK(r) /\ r.by = keyCall[c].by
      BY Zenon, <1>2, <1>3, <1>4 DEF OpenOK, CallFields, FetchPlace, UploadPlace, RotatePlace
  <2>2. keyCall' = [keyCall EXCEPT ![c] = r]
      BY Zenon, <1>5
  <2> HIDE DEF r
  <2> QED BY Zenon, <1>1, <1>2, <2>1, <2>2, GoesOn
<1>6. CASE KeyGo(c, AppendAt(kind))
    BY Zenon, <1>1, <1>2, <1>6, Moves DEF FetchPlace, AppendAt
<1>7. CASE EnsureLeaf(c, kind)
  <2>1. \/ keyCall' = [keyCall EXCEPT ![c] = [@ EXCEPT !.at = AfterLeaf(c, kind),
                             !.leaf = Append(keyCall[c].leaf, LatestLeaf(keyCall[c].dev, kind))]]
        \/ KeyGo(c, AppendAt(kind))
      BY Zenon, <1>7 DEF EnsureLeaf
  <2> QED BY Zenon, <1>1, <1>5, <1>6, <2>1
<1>8. CASE AppendLeaf(c, kind)
  <2>1. keyCall' = [keyCall EXCEPT ![c] = [@ EXCEPT !.at = AfterLeaf(c, kind),
                             !.leaf = Append(keyCall[c].leaf, NextIndex)]]
      BY ZenonT(60), <1>8 DEF AppendLeaf
  <2> QED BY Zenon, <1>1, <1>5, <2>1
<1> QED BY Zenon, <1>7, <1>8

\* The steps of an upload or a rotation that touch neither table.
LEMMA QuietWrites ==
    ASSUME KyberInv, NEW c \in KeyCall,
           \/ CountKeys(c) \/ CountReplace(c) \/ UploadSpk(c) \/ ReadKeys(c) \/ WriteHybrid(c)
           \/ CheckKeys(c) \/ NextInserts(c) \/ ReadHybrid(c) \/ RotateKeys(c)
    PROVE  KyberInv' /\ UNCHANGED <<pool, given>>
<1> USE DEF keyHistory
<1> DEFINE here == keyCall[c].at
<1>1. UNCHANGED <<pool, given>>
    BY Zenon DEF CountKeys, CountReplace, UploadSpk, ReadKeys, WriteHybrid, CheckKeys, NextInserts,
           ReadHybrid, RotateKeys
<1>2. KeyBusy(c) /\ here \in UploadPlace \cup RotatePlace
    BY Zenon DEF CountKeys, CountReplace, UploadSpk, ReadKeys, WriteHybrid, CheckKeys, NextInserts,
           ReadHybrid, RotateKeys, KeyBusy, UploadPlace, RotatePlace
<1>3. OpenOK(keyCall[c])
    BY Zenon, <1>2, BusyOpen
<1>4. CASE KeyEnd(c)
    BY Zenon, <1>1, <1>2, <1>4, Ends DEF KeyEnd
<1>5. ASSUME here \in UploadPlace, NEW at \in UploadPlace, KeyGo(c, at) PROVE KyberInv'
    BY Zenon, <1>1, <1>2, <1>5, Moves
<1>6. \A r : AfterLimits(r) \in UploadPlace
    BY Zenon DEF AfterLimits, UploadPlace
<1>7. ASSUME here \in UploadPlace, NEW at \in UploadPlace, NEW ids, ids \subseteq KeyId,
             keyCall' = [keyCall EXCEPT ![c] = [@ EXCEPT !.at = at, !.ids = ids]]
      PROVE  KyberInv'
  <2> DEFINE r == [keyCall[c] EXCEPT !.at = at, !.ids = ids]
  <2>1. OpenOK(r) /\ r.by = keyCall[c].by
      BY Zenon, <1>3, <1>7 DEF OpenOK, CallFields, FetchPlace, UploadPlace, RotatePlace
  <2>2. keyCall' = [keyCall EXCEPT ![c] = r]
      BY Zenon, <1>7
  <2> HIDE DEF r
  <2> QED BY Zenon, <1>1, <1>2, <2>1, <2>2, GoesOn
<1>8. here \in UploadPlace => keyCall[c].req.ids \subseteq KeyId
    BY Zenon, <1>3 DEF OpenOK, KeyRequestOK
<1>9. CASE CountKeys(c)
  <2>1. KeyEnd(c) \/ KeyGo(c, "replaceLimit") \/ KeyGo(c, AfterLimits(keyCall[c].req))
      BY Zenon, <1>9 DEF CountKeys
  <2>2. here \in UploadPlace /\ "replaceLimit" \in UploadPlace
      BY Zenon, <1>9 DEF CountKeys, UploadPlace
  <2> HIDE DEF here
  <2> QED BY Zenon, <1>1, <1>4, <1>5, <1>6, <2>1, <2>2
<1>10. CASE CountReplace(c)
  <2>1. KeyEnd(c) \/ KeyGo(c, AfterLimits(keyCall[c].req))
      BY Zenon, <1>10 DEF CountReplace
  <2>2. here \in UploadPlace
      BY Zenon, <1>10 DEF CountReplace, UploadPlace
  <2> HIDE DEF here
  <2> QED BY Zenon, <1>1, <1>4, <1>5, <1>6, <2>1, <2>2
<1>11. CASE UploadSpk(c)
  <2>1. KeyEnd(c) \/ KeyGo(c, "readKeys") \/ KeyGo(c, "exists")
      BY Zenon, <1>11 DEF UploadSpk
  <2>2. here \in UploadPlace /\ {"readKeys", "exists"} \subseteq UploadPlace
      BY Zenon, <1>11 DEF UploadSpk, UploadPlace
  <2> HIDE DEF here
  <2> QED BY Zenon, <1>1, <1>4, <1>5, <2>1, <2>2
<1>12. CASE ReadKeys(c)
  <2> DEFINE r == [keyCall[c] EXCEPT !.at = "writeHybrid",
                        !.rows = [x \in {keyCall[c].req.dev} |-> keyRow[x]]]
  <2>1. KeyEnd(c) \/ keyCall' = [keyCall EXCEPT ![c] = r]
      BY ZenonT(60), <1>12 DEF ReadKeys
  <2>2. here = "readKeys"
      BY Zenon, <1>12 DEF ReadKeys
  <2>3. OpenOK(r) /\ r.by = keyCall[c].by
      BY Zenon, <1>3, <2>2 DEF OpenOK, CallFields, FetchPlace, UploadPlace, RotatePlace
  <2> HIDE DEF r
  <2> QED BY Zenon, <1>1, <1>2, <1>4, <2>1, <2>3, GoesOn
<1>13. CASE WriteHybrid(c)
  <2>1. KeyGo(c, "exists") /\ here \in UploadPlace /\ "exists" \in UploadPlace
      BY Zenon, <1>13 DEF WriteHybrid, UploadPlace
  <2> HIDE DEF here
  <2> QED BY Zenon, <1>1, <1>5, <2>1
<1>14. CASE CheckKeys(c)
  <2>1. here \in UploadPlace /\ {"expire", "insert"} \subseteq UploadPlace
      BY Zenon, <1>14 DEF CheckKeys, UploadPlace
  <2>2. \/ KeyEnd(c)
        \/ \E at \in {"expire", "insert"} :
             keyCall' = [keyCall EXCEPT ![c] = [@ EXCEPT !.at = at, !.ids = keyCall[c].req.ids]]
      BY Zenon, <1>14 DEF CheckKeys
  <2> HIDE DEF here
  <2> QED BY Zenon, <1>1, <1>4, <1>7, <1>8, <2>1, <2>2
<1>15. CASE NextInserts(c)
  <2>1. here \in UploadPlace /\ "insertKyber" \in UploadPlace
      BY Zenon, <1>15 DEF NextInserts, UploadPlace
  <2>2. \/ keyCall' = [keyCall EXCEPT ![c] = KeyOver(c, TRUE)]
        \/ keyCall' = [keyCall EXCEPT ![c] = [@ EXCEPT !.at = "insertKyber", !.ids = keyCall[c].req.ids]]
      BY Zenon, <1>15 DEF NextInserts
  <2> HIDE DEF here
  <2> QED BY Zenon, <1>1, <1>2, <1>7, <1>8, <2>1, <2>2, Ends
<1>16. CASE ReadHybrid(c)
  <2>1. KeyEnd(c) \/ KeyGo(c, "rotate")
      BY Zenon, <1>16 DEF ReadHybrid
  <2>2. keyCall[c].at = "readHybrid"
      BY Zenon, <1>16 DEF ReadHybrid
  <2> QED BY Zenon, <1>1, <1>2, <1>4, <2>1, <2>2, Moves DEF RotatePlace
<1>17. CASE RotateKeys(c)
    BY Zenon, <1>1, <1>4, <1>17 DEF RotateKeys
<1> QED BY Zenon, <1>1, <1>9, <1>10, <1>11, <1>12, <1>13, <1>14, <1>15, <1>16, <1>17

-----------------------------------------------------------------------------
(* The steps that write a one-time key table.                              *)

\* A statement about one table leaves the other one alone.
LEMMA OtherTable ==
    ASSUME KyberInv, NEW kind \in KeyKind, NEW d, NEW t, pool' = [pool EXCEPT ![kind][d] = t]
    PROVE  /\ DOMAIN pool' = KeyKind /\ \A x \in KeyKind : DOMAIN pool'[x] = KeyDevice
           /\ kind = "classic" => pool'["kyber"] = pool["kyber"]
           /\ kind = "kyber" => \A e \in KeyDevice :
                 pool'["kyber"][e] = IF e = d THEN t ELSE pool["kyber"][e]
BY Zenon DEF KyberInv, TableOK, KeyKind

\* The steps on the classic table leave the Kyber table as it is.
LEMMA ClassicSteps ==
    ASSUME KyberInv, NEW c \in KeyCall, TakeClassic(c) \/ ExpireClassic(c) \/ InsertClassic(c)
    PROVE  KyberInv' /\ pool'["kyber"] = pool["kyber"] /\ given'["kyber"] = given["kyber"]
<1> USE DEF keyHistory
<1> "classic" \in KeyKind
    BY Zenon DEF KeyKind
<1>1. KeyBusy(c)
    BY Zenon DEF TakeClassic, TakeKey, ExpireClassic, ExpireKeys, InsertClassic, InsertKey, KeyBusy
<1>2. OpenOK(keyCall[c])
    BY Zenon, <1>1, BusyOpen
<1>3. DOMAIN given = KeyKind
    BY Zenon DEF KyberInv, GivenOK
<1>4. ASSUME NEW d, NEW t, pool' = [pool EXCEPT !["classic"][d] = t],
             given' = given \/ (\E x : given' = [given EXCEPT !["classic"] = x]),
             NEW r, keyCall' = [keyCall EXCEPT ![c] = r], OpenOK(r), r.by = keyCall[c].by
      PROVE  KyberInv' /\ pool'["kyber"] = pool["kyber"] /\ given'["kyber"] = given["kyber"]
  <2>1. /\ DOMAIN pool' = KeyKind /\ \A x \in KeyKind : DOMAIN pool'[x] = KeyDevice
        /\ pool'["kyber"] = pool["kyber"]
      BY Zenon, <1>4, OtherTable
  <2>2. DOMAIN given' = KeyKind /\ given'["kyber"] = given["kyber"]
      BY Zenon, <1>3, <1>4 DEF KeyKind
  <2>3. CallOK(r) /\ r.at \notin Over
      BY Zenon, <1>4 DEF CallOK, OpenOK, Over, FetchPlace, UploadPlace, RotatePlace
  <2>4. KyberInv'
      BY Zenon, <1>1, <1>4, <2>1, <2>2, <2>3, QuietStep DEF Over
  <2> QED BY Zenon, <2>1, <2>2, <2>4
<1>5. CASE TakeClassic(c)
  <2> DEFINE d == keyCall[c].dev
             r == [keyCall[c] EXCEPT !.at = "kyber", !.took = TRUE]
  <2>1. keyCall[c].at = "classic"
      BY Zenon, <1>5 DEF TakeClassic, TakeKey
  <2>2. OpenOK(r) /\ r.by = keyCall[c].by
      BY Zenon, <1>2, <2>1 DEF OpenOK, CallFields, FetchPlace, UploadPlace, RotatePlace
  <2>3. \/ KeyGo(c, "kyber") /\ UNCHANGED <<pool, given>>
        \/ /\ \E t : pool' = [pool EXCEPT !["classic"][d] = t]
           /\ \E x : given' = [given EXCEPT !["classic"] = x]
           /\ keyCall' = [keyCall EXCEPT ![c] = r]
      BY Zenon, <1>5 DEF TakeClassic, TakeKey
  <2>4. CASE KeyGo(c, "kyber") /\ UNCHANGED <<pool, given>>
      BY Zenon, <1>1, <2>1, <2>4, Moves
  <2> HIDE DEF r
  <2> QED BY Zenon, <1>4, <2>2, <2>3, <2>4
<1>6. CASE ExpireClassic(c)
  <2> DEFINE d == keyCall[c].req.dev
             r == [keyCall[c] EXCEPT !.at = "expireKyber"]
  <2>1. keyCall[c].at = "expire"
      BY Zenon, <1>6 DEF ExpireClassic, ExpireKeys
  <2>2. OpenOK(r) /\ r.by = keyCall[c].by
      BY Zenon, <1>2, <2>1 DEF OpenOK, CallFields, FetchPlace, UploadPlace, RotatePlace
  <2>3. /\ \E t : pool' = [pool EXCEPT !["classic"][d] = t]
        /\ given' = given
        /\ keyCall' = [keyCall EXCEPT ![c] = r]
      BY Zenon, <1>6 DEF ExpireClassic, ExpireKeys, KeyGo
  <2> HIDE DEF r
  <2> QED BY Zenon, <1>4, <2>2, <2>3
<1>7. CASE InsertClassic(c)
  <2> DEFINE d == keyCall[c].req.dev
             r(id) == [keyCall[c] EXCEPT !.ids = keyCall[c].ids \ {id}]
  <2>1. PICK id : /\ \E t : pool' = [pool EXCEPT !["classic"][d] = t]
                  /\ given' = given
                  /\ keyCall' = [keyCall EXCEPT ![c] = r(id)]
      BY Zenon, <1>7 DEF InsertClassic, InsertKey
  <2>2. OpenOK(r(id)) /\ r(id).by = keyCall[c].by
      BY Zenon, <1>2 DEF OpenOK, CallFields
  <2> HIDE DEF r
  <2> QED BY Zenon, <1>4, <2>1, <2>2
<1> QED BY Zenon, <1>5, <1>6, <1>7

\* The keys the abstract store holds are the active rows.
LEMMA HeldRows ==
    \A x : x \in HeldKyber <=>
        \E d \in KeyDevice : \E row \in pool["kyber"][d] : ~row.expired /\ x = KeyOf(d, row)
BY DEF HeldKyber, ActiveKeys

\* The same after a step.
LEMMA HeldRowsNext ==
    \A x : x \in HeldKyber' <=>
        \E d \in KeyDevice : \E row \in pool'["kyber"][d] : ~row.expired /\ x = KeyOf(d, row)
BY DEF HeldKyber, ActiveKeys, KeyOf

\* Handing out the oldest active key.
LEMMA TakeStep ==
    ASSUME KyberInv, NEW c \in KeyCall, TakeKyber(c)
    PROVE  /\ KyberInv'
           /\ KyberStore!HandOut \/ UNCHANGED <<pool, given>>
<1>0. PICK d : d = keyCall[c].dev
    BY Zenon
<1> DEFINE r == [keyCall[c] EXCEPT !.at = "identityLeaf", !.took = TRUE]
<1>1. keyCall[c].at = "kyber" /\ KeyBusy(c)
    BY Zenon DEF TakeKyber, TakeKey, KeyBusy
<1>2. OpenOK(keyCall[c])
    BY Zenon, <1>1, BusyOpen
<1>3. CASE KeyGo(c, "identityLeaf") /\ UNCHANGED <<pool, given>>
    BY Zenon, <1>1, <1>3, Moves DEF FetchPlace
<1>4. ASSUME NEW row \in pool["kyber"][d], ~row.expired,
             pool' = [pool EXCEPT !["kyber"][d] = TakenFrom("kyber", d, row)],
             given' = [given EXCEPT !["kyber"] = @ \cup {KeyOf(d, row)}],
             keyCall' = [keyCall EXCEPT ![c] = r]
      PROVE  KyberInv' /\ KyberStore!HandOut
  <2> DEFINE k == KeyOf(d, row)
             rest == pool["kyber"][d] \ {row}
             T == rest \cup {ExpiredRow(row)}
  <2>1. d \in KeyDevice
      BY Zenon, <1>0, <1>1, <1>2 DEF OpenOK
  <2>2. CallOK(r) /\ r.at \notin Over /\ r.by = keyCall[c].by
      BY Zenon, <1>1, <1>2 DEF CallOK, OpenOK, CallFields, Over, FetchPlace, UploadPlace, RotatePlace
  <2>3. /\ CallsOK' /\ BatchesOK'
        /\ \A x \in KeyCall : keyCall[x].at # "idle" => keyCall'[x].at # "idle"
        /\ \A b : Retired(b) => Retired(b)'
    <3> HIDE DEF r
    <3> QED BY Zenon, <1>1, <1>4, <2>2, CallStep DEF Over
  <2>4. /\ DOMAIN pool' = KeyKind /\ \A x \in KeyKind : DOMAIN pool'[x] = KeyDevice
        /\ \A e \in KeyDevice : pool'["kyber"][e] = IF e = d THEN T ELSE pool["kyber"][e]
    <3>1. TakenFrom("kyber", d, row) = T /\ "kyber" \in KeyKind
        BY Zenon DEF TakenFrom, KeyKind
    <3> HIDE DEF T
    <3> QED BY Zenon, <1>4, <3>1, OtherTable
  <2>5. /\ row.id \in KeyId /\ row.by \in KeyUploader
        /\ row.by \in KeyCall => keyCall[row.by].at # "idle"
        /\ \A other \in rest : other.id # row.id
      BY Zenon, <2>1 DEF KyberInv, TableOK
  <2>6. /\ ExpiredRow(row).id = row.id /\ ExpiredRow(row).by = row.by
        /\ ExpiredRow(row).expired = TRUE
      BY Zenon DEF ExpiredRow, KeyRowOf
  <2>7. TableOK'
    <3>1. ASSUME NEW e \in KeyDevice, NEW x \in pool'["kyber"][e]
          PROVE  /\ x.id \in KeyId /\ x.by \in KeyUploader /\ x.expired \in BOOLEAN
                 /\ x.by \in KeyCall => keyCall'[x.by].at # "idle"
      <4>1. x \in pool["kyber"][e] \/ x = ExpiredRow(row)
          BY Zenon, <2>4
      <4> HIDE DEF T, rest
      <4>2. CASE x \in pool["kyber"][e]
          BY Zenon, <2>3, <4>2 DEF KyberInv, TableOK, KeyUploader
      <4>3. CASE x = ExpiredRow(row)
          BY Zenon, <2>3, <2>5, <2>6, <4>3
      <4> QED BY Zenon, <4>1, <4>2, <4>3
    <3>2. ASSUME NEW e \in KeyDevice, NEW x \in pool'["kyber"][e], NEW y \in pool'["kyber"][e],
                 x.id = y.id
          PROVE  x = y
        BY <2>4, <2>5, <2>6, <3>2 DEF KyberInv, TableOK
    <3> QED BY Zenon, <2>4, <3>1, <3>2 DEF TableOK
  <2>8. k \in OneTimeKey /\ k.dev = d /\ k.id = row.id /\ k.by = row.by
      BY Zenon, <2>1, <2>5 DEF KeyOf, OneTimeKey
  <2>9. DOMAIN given' = KeyKind /\ given'["kyber"] = given["kyber"] \cup {k}
      BY Zenon, <1>4 DEF KyberInv, GivenOK, KeyKind
  <2>10. GivenOK'
    <3>1. Tombstone(k)'
        BY Zenon, <2>1, <2>4, <2>6, <2>8 DEF Tombstone
    <3>2. ASSUME NEW x \in given["kyber"], Tombstone(x) PROVE Tombstone(x)'
      <4>1. x.dev \in KeyDevice
          BY Zenon DEF KyberInv, GivenOK, OneTimeKey
      <4> QED BY <1>4, <2>4, <3>2, <4>1 DEF Tombstone
    <3> QED BY Zenon, <2>3, <2>8, <2>9, <3>1, <3>2 DEF KyberInv, GivenOK
  <2>11. k \in HeldKyber
      BY Zenon, <1>4, <2>1, HeldRows
  <2>12. HeldKyber' = HeldKyber \ {k}
    <3>1. ASSUME NEW x \in HeldKyber' PROVE x \in HeldKyber \ {k}
      <4>0. PICK e \in KeyDevice : \E y \in pool'["kyber"][e] : ~y.expired /\ x = KeyOf(e, y)
          BY Zenon, HeldRowsNext
      <4>1. PICK y \in pool'["kyber"][e] : ~y.expired /\ x = KeyOf(e, y)
          BY Zenon, <4>0
      <4>2. y \in pool["kyber"][e] /\ (e = d => y \in rest)
          BY Zenon, <2>4, <2>6, <4>1
      <4>3. x # k
          BY Zenon, <2>5, <2>8, <4>1, <4>2 DEF KeyOf
      <4> QED BY Zenon, <4>1, <4>2, <4>3, HeldRows
    <3>2. ASSUME NEW x \in HeldKyber \ {k} PROVE x \in HeldKyber'
      <4>0. PICK e \in KeyDevice : \E y \in pool["kyber"][e] : ~y.expired /\ x = KeyOf(e, y)
          BY Zenon, HeldRows
      <4>1. PICK y \in pool["kyber"][e] : ~y.expired /\ x = KeyOf(e, y)
          BY Zenon, <4>0
      <4>2. y \in pool'["kyber"][e]
          BY Zenon, <2>4, <3>2, <4>1
      <4> QED BY Zenon, <4>1, <4>2, HeldRowsNext
    <3> QED BY Zenon, <3>1, <3>2
  <2>13. KyberStore!HandOut
      BY Zenon, <2>9, <2>11, <2>12 DEF KyberStore!HandOut
  <2> QED BY Zenon, <2>3, <2>7, <2>10, <2>13 DEF KyberInv
<1>5. \/ KeyGo(c, "identityLeaf") /\ UNCHANGED <<pool, given>>
      \/ \E row \in pool["kyber"][d] :
            /\ ~row.expired
            /\ pool' = [pool EXCEPT !["kyber"][d] = TakenFrom("kyber", d, row)]
            /\ given' = [given EXCEPT !["kyber"] = @ \cup {KeyOf(d, row)}]
            /\ keyCall' = [keyCall EXCEPT ![c] = r]
    BY Zenon, <1>0 DEF TakeKyber, TakeKey, ActiveKeys
<1> QED BY Zenon, <1>3, <1>4, <1>5

\* replace_existing retires the keys the device holds.
LEMMA ExpireStep ==
    ASSUME KyberInv, NEW c \in KeyCall, ExpireKyber(c)
    PROVE  KyberInv' /\ KyberStore!Retire
<1> USE DEF keyHistory
<1>0. PICK d : d = keyCall[c].req.dev
    BY Zenon
<1> DEFINE r == [keyCall[c] EXCEPT !.at = "insert"]
           T == ExpiredRows(pool["kyber"][d])
<1>1. /\ keyCall[c].at = "expireKyber" /\ KeyBusy(c) /\ given' = given
      /\ keyCall' = [keyCall EXCEPT ![c] = r]
      /\ pool' = [pool EXCEPT !["kyber"][d] = ExpiredRows(@)]
    BY Zenon, <1>0 DEF ExpireKyber, ExpireKeys, KeyBusy, KeyGo
<1>2. OpenOK(keyCall[c])
    BY Zenon, <1>1, BusyOpen
<1>3. CallOK(r) /\ r.at \notin Over /\ r.by = keyCall[c].by
    BY Zenon, <1>1, <1>2 DEF CallOK, OpenOK, CallFields, Over, FetchPlace, UploadPlace, RotatePlace
<1>4. /\ CallsOK' /\ BatchesOK'
      /\ \A x \in KeyCall : keyCall[x].at # "idle" => keyCall'[x].at # "idle"
      /\ \A b : Retired(b) => Retired(b)'
  <2> HIDE DEF r
  <2> QED BY Zenon, <1>1, <1>3, CallStep DEF Over
<1>5. /\ DOMAIN pool' = KeyKind /\ \A x \in KeyKind : DOMAIN pool'[x] = KeyDevice
      /\ \A e \in KeyDevice : pool'["kyber"][e] = IF e = d THEN T ELSE pool["kyber"][e]
  <2>1. "kyber" \in KeyKind /\ pool' = [pool EXCEPT !["kyber"][d] = T]
      BY Zenon, <1>1 DEF KyberInv, TableOK, KeyKind
  <2> HIDE DEF T
  <2> QED BY Zenon, <2>1, OtherTable
<1>6. \A x \in T : \E y \in pool["kyber"][d] : x = ExpiredRow(y)
    BY Zenon DEF ExpiredRows
<1>7. \A y \in pool["kyber"][d] : ExpiredRow(y) \in T
    BY Zenon DEF ExpiredRows
<1>8. \A y : ExpiredRow(y).id = y.id /\ ExpiredRow(y).by = y.by /\ ExpiredRow(y).expired = TRUE
    BY Zenon DEF ExpiredRow, KeyRowOf
<1> HIDE DEF T, r
<1>9. TableOK'
  <2>1. ASSUME NEW e \in KeyDevice, NEW x \in pool'["kyber"][e]
        PROVE  /\ x.id \in KeyId /\ x.by \in KeyUploader /\ x.expired \in BOOLEAN
               /\ x.by \in KeyCall => keyCall'[x.by].at # "idle"
    <3>1. PICK y \in pool["kyber"][e] : x = y \/ x = ExpiredRow(y)
        BY Zenon, <1>5, <1>6
    <3>2. x.id = y.id /\ x.by = y.by /\ (x.expired = y.expired \/ x.expired = TRUE)
        BY Zenon, <1>8, <3>1
    <3> QED BY Zenon, <1>4, <3>2 DEF KyberInv, TableOK
  <2>2. ASSUME NEW e \in KeyDevice, NEW x \in pool'["kyber"][e], NEW y \in pool'["kyber"][e],
               x.id = y.id
        PROVE  x = y
      BY <1>5, <1>6, <1>8, <2>2 DEF KyberInv, TableOK
  <2> QED BY Zenon, <1>5, <2>1, <2>2 DEF TableOK
<1>10. GivenOK'
  <2>1. ASSUME NEW x \in given["kyber"], Tombstone(x) PROVE Tombstone(x)'
    <3>1. x.dev \in KeyDevice
        BY Zenon DEF KyberInv, GivenOK, OneTimeKey
    <3>2. PICK row \in pool["kyber"][x.dev] : row.id = x.id /\ row.by = x.by /\ row.expired
        BY Zenon, <2>1 DEF Tombstone
    <3>3. CASE x.dev = d
        BY ZenonT(60), <1>5, <1>7, <1>8, <3>1, <3>2, <3>3 DEF Tombstone
    <3>4. CASE x.dev # d
        BY Zenon, <1>5, <3>1, <3>2, <3>4 DEF Tombstone
    <3> QED BY Zenon, <3>3, <3>4
  <2> QED BY Zenon, <1>1, <1>4, <2>1 DEF KyberInv, GivenOK
<1>11. HeldKyber' \subseteq HeldKyber
  <2> SUFFICES ASSUME NEW x \in HeldKyber' PROVE x \in HeldKyber
      BY Zenon
  <2>1. PICK e \in KeyDevice : \E y \in pool'["kyber"][e] : ~y.expired /\ x = KeyOf(e, y)
      BY Zenon, HeldRowsNext
  <2>2. PICK y \in pool'["kyber"][e] : ~y.expired /\ x = KeyOf(e, y)
      BY Zenon, <2>1
  <2>3. y \in pool["kyber"][e]
      BY <1>5, <1>6, <1>8, <2>2
  <2> QED BY Zenon, <2>2, <2>3, HeldRows
<1> QED BY Zenon, <1>1, <1>4, <1>9, <1>10, <1>11 DEF KyberInv, KyberStore!Retire

\* An insert brings back no key that was handed out: its row is there to conflict
\* with, or the call that inserts it could not carry it any more.
LEMMA InsertStep ==
    ASSUME KyberInv, NEW c \in KeyCall, InsertKyber(c)
    PROVE  KyberInv' /\ KyberStore!Offer
<1> USE DEF keyHistory
<1>a. PICK d, by : d = keyCall[c].req.dev /\ by = keyCall[c].by
    BY Zenon
<1>b. PICK id \in keyCall[c].ids : /\ pool' = [pool EXCEPT !["kyber"][d] = InsertedRow(@, id, by)]
                                   /\ keyCall' = [keyCall EXCEPT ![c].ids = @ \ {id}]
    BY Zenon, <1>a DEF InsertKyber, InsertKey
<1>0. /\ d = keyCall[c].req.dev /\ by = keyCall[c].by /\ id \in keyCall[c].ids
      /\ pool' = [pool EXCEPT !["kyber"][d] = InsertedRow(@, id, by)]
      /\ keyCall' = [keyCall EXCEPT ![c].ids = @ \ {id}]
    BY Zenon, <1>a, <1>b
<1> DEFINE r == [keyCall[c] EXCEPT !.ids = keyCall[c].ids \ {id}]
           T == InsertedRow(pool["kyber"][d], id, by)
           new == NewKeyRow(pool["kyber"][d], id, by)
<1>1. /\ keyCall[c].at = "insertKyber" /\ KeyBusy(c) /\ given' = given
      /\ keyCall' = [keyCall EXCEPT ![c] = r]
    BY Zenon, <1>0 DEF InsertKyber, InsertKey, KeyBusy
<1>2. OpenOK(keyCall[c])
    BY Zenon, <1>1, BusyOpen
<1>3. d \in KeyDevice /\ id \in KeyId /\ by \in KeyCall
    BY Zenon, <1>0, <1>1, <1>2 DEF OpenOK, KeyRequestOK, UploadPlace
<1>4. CallOK(r) /\ r.at \notin Over /\ r.by = keyCall[c].by
    BY Zenon, <1>1, <1>2 DEF CallOK, OpenOK, CallFields, Over, FetchPlace, UploadPlace
<1>5. /\ CallsOK' /\ BatchesOK'
      /\ \A x \in KeyCall : keyCall[x].at # "idle" => keyCall'[x].at # "idle"
      /\ \A b : Retired(b) => Retired(b)'
  <2> HIDE DEF r
  <2> QED BY Zenon, <1>1, <1>4, CallStep DEF Over
<1>6. /\ DOMAIN pool' = KeyKind /\ \A x \in KeyKind : DOMAIN pool'[x] = KeyDevice
      /\ \A e \in KeyDevice : pool'["kyber"][e] = IF e = d THEN T ELSE pool["kyber"][e]
  <2>1. "kyber" \in KeyKind /\ pool' = [pool EXCEPT !["kyber"][d] = T]
      BY Zenon, <1>0, <1>3 DEF KyberInv, TableOK, KeyKind
  <2> HIDE DEF T
  <2> QED BY Zenon, <2>1, OtherTable
<1>7. \/ T = pool["kyber"][d]
      \/ T = pool["kyber"][d] \cup {new} /\ \A k \in pool["kyber"][d] : k.id # id
    BY Zenon DEF InsertedRow
<1>8. new.id = id /\ new.by = by /\ new.expired = FALSE
    BY Zenon DEF NewKeyRow, KeyRowOf
<1>9. keyCall[by].at # "idle" /\ ~Retired(by)
    BY Zenon, <1>0, <1>1, <1>3, KeyAssumption DEF KyberInv, BatchesOK, KeyBusy, Retired
<1> HIDE DEF T, r, new
<1>10. TableOK'
  <2>1. ASSUME NEW e \in KeyDevice, NEW x \in pool'["kyber"][e]
        PROVE  /\ x.id \in KeyId /\ x.by \in KeyUploader /\ x.expired \in BOOLEAN
               /\ x.by \in KeyCall => keyCall'[x.by].at # "idle"
    <3>1. x \in pool["kyber"][e] \/ x = new
        BY Zenon, <1>6, <1>7
    <3>2. CASE x \in pool["kyber"][e]
        BY Zenon, <1>5, <3>2 DEF KyberInv, TableOK
    <3>3. CASE x = new
        BY Zenon, <1>3, <1>5, <1>8, <1>9, <3>3 DEF KeyUploader
    <3> QED BY Zenon, <3>1, <3>2, <3>3
  <2>2. ASSUME NEW e \in KeyDevice, NEW x \in pool'["kyber"][e], NEW y \in pool'["kyber"][e],
               x.id = y.id
        PROVE  x = y
      BY <1>6, <1>7, <1>8, <2>2 DEF KyberInv, TableOK
  <2> QED BY Zenon, <1>6, <2>1, <2>2 DEF TableOK
<1>11. GivenOK'
  <2>1. ASSUME NEW x \in given["kyber"], Tombstone(x) PROVE Tombstone(x)'
    <3>1. x.dev \in KeyDevice
        BY Zenon DEF KyberInv, GivenOK, OneTimeKey
    <3> QED BY Zenon, <1>6, <1>7, <2>1, <3>1 DEF Tombstone
  <2> QED BY Zenon, <1>1, <1>5, <2>1 DEF KyberInv, GivenOK
<1>12. HeldKyber \subseteq HeldKyber'
  <2> SUFFICES ASSUME NEW x \in HeldKyber PROVE x \in HeldKyber'
      BY Zenon
  <2>1. PICK e \in KeyDevice : \E y \in pool["kyber"][e] : ~y.expired /\ x = KeyOf(e, y)
      BY Zenon, HeldRows
  <2>2. PICK y \in pool["kyber"][e] : ~y.expired /\ x = KeyOf(e, y)
      BY Zenon, <2>1
  <2>3. y \in pool'["kyber"][e]
      BY Zenon, <1>6, <1>7
  <2> QED BY Zenon, <2>2, <2>3, HeldRowsNext
<1>13. ASSUME NEW x \in HeldKyber' PROVE x \in OneTimeKey /\ (x \in HeldKyber \/ x \notin given["kyber"])
  <2>1. PICK e \in KeyDevice : \E y \in pool'["kyber"][e] : ~y.expired /\ x = KeyOf(e, y)
      BY Zenon, HeldRowsNext
  <2>2. PICK y \in pool'["kyber"][e] : ~y.expired /\ x = KeyOf(e, y)
      BY Zenon, <2>1
  <2>3. x \in OneTimeKey
      BY Zenon, <1>10, <2>2 DEF TableOK, KeyOf, OneTimeKey
  <2>4. CASE y \in pool["kyber"][e]
      BY Zenon, <2>2, <2>3, <2>4, HeldRows
  <2>5. CASE y \notin pool["kyber"][e]
    <3>1. e = d /\ y = new /\ \A k \in pool["kyber"][d] : k.id # id
        BY Zenon, <1>6, <1>7, <2>5
    <3>2. x.dev = d /\ x.id = id /\ x.by = by
        BY Zenon, <1>8, <2>2, <3>1 DEF KeyOf
    <3>3. ~Tombstone(x)
        BY Zenon, <3>1, <3>2 DEF Tombstone
    <3> QED BY Zenon, <1>9, <2>3, <3>2, <3>3 DEF KyberInv, GivenOK
  <2> QED BY Zenon, <2>4, <2>5
<1> QED BY Zenon, <1>1, <1>5, <1>10, <1>11, <1>12, <1>13 DEF KyberInv, KyberStore!Offer

\* The cleanup deletes expired rows when no call is in progress and none will be
\* repeated, so that nothing has to stop the keys they stood for.
LEMMA CleanupStep ==
    ASSUME KyberInv, CleanupExpired
    PROVE  KyberInv' /\ UNCHANGED <<HeldKyber, given["kyber"]>>
<1> USE DEF keyHistory
<1>1. \A c \in KeyCall : keyCall[c].at \in Over
    BY Zenon DEF CleanupExpired, KeyBusy, Over
<1>2. /\ DOMAIN keyCall' = KeyCall
      /\ \A c \in KeyCall : keyCall'[c] = IF keyCall[c].at = "sent"
                                          THEN [keyCall[c] EXCEPT !.at = "gone"] ELSE keyCall[c]
    BY Zenon DEF CleanupExpired
<1>3. \A c \in KeyCall : CallOK(keyCall[c])
    BY Zenon DEF KyberInv, CallsOK
<1>4. ASSUME NEW c \in KeyCall
      PROVE  /\ CallOK(keyCall'[c]) /\ keyCall'[c].at \in Over
             /\ keyCall[c].at # "idle" => keyCall'[c].at \in {"gone", "done"}
  <2>1. CASE keyCall[c].at = "sent"
    <3>1. DOMAIN keyCall[c] = {"at", "dev", "ids", "kinds", "by", "replaced"}
        BY Zenon, <1>3, <2>1 DEF CallOK, OpenOK, FetchPlace, UploadPlace, RotatePlace
    <3>2. DOMAIN keyCall'[c] = DOMAIN keyCall[c] /\ keyCall'[c].at = "gone"
        BY Zenon, <1>2, <2>1, <3>1
    <3> QED BY Zenon, <3>1, <3>2 DEF CallOK, Over
  <2>2. CASE keyCall[c].at # "sent"
      BY Zenon, <1>1, <1>2, <1>3, <2>2 DEF Over
  <2> QED BY Zenon, <2>1, <2>2
<1>5. CallsOK' /\ BatchesOK'
    BY Zenon, <1>2, <1>4 DEF CallsOK, BatchesOK, KeyBusy, Over
<1>6. pool' = [kind \in KeyKind |-> [d \in KeyDevice |-> ActiveKeys(kind, d)]] /\ given' = given
    BY Zenon DEF CleanupExpired
<1>7. /\ DOMAIN pool' = KeyKind /\ \A kind \in KeyKind : DOMAIN pool'[kind] = KeyDevice
      /\ \A d \in KeyDevice : pool'["kyber"][d] = {row \in pool["kyber"][d] : ~row.expired}
    BY Zenon, <1>6 DEF KeyKind, ActiveKeys
<1>8. TableOK'
    BY Zenon, <1>4, <1>7 DEF KyberInv, TableOK
<1>9. \A k \in given["kyber"] : Retired(k.by)'
  <2> SUFFICES ASSUME NEW k \in given["kyber"] PROVE Retired(k.by)'
      BY Zenon
  <2>1. k.dev \in KeyDevice /\ k.by \in KeyCall \cup {KeyBefore}
      BY Zenon DEF KyberInv, GivenOK, OneTimeKey, KeyUploader
  <2>2. k.by \in KeyCall => keyCall[k.by].at # "idle"
    <3>1. CASE Retired(k.by)
        BY Zenon, <3>1, KeyAssumption DEF Retired
    <3>2. CASE Tombstone(k)
        BY Zenon, <2>1, <3>2 DEF Tombstone, KyberInv, TableOK
    <3> QED BY Zenon, <3>1, <3>2 DEF KyberInv, GivenOK
  <2> QED BY Zenon, <1>4, <2>1, <2>2 DEF Retired
<1>10. GivenOK'
    BY Zenon, <1>6, <1>9 DEF KyberInv, GivenOK
<1>11. HeldKyber' = HeldKyber
    BY Zenon, <1>7, HeldRows, HeldRowsNext
<1> QED BY Zenon, <1>5, <1>6, <1>8, <1>10, <1>11 DEF KyberInv

\* auth-service revokes a device: no table of keys changes.
LEMMA RevokeStep ==
    ASSUME KyberInv, NEW d \in KeyDevice, RevokeDevice(d)
    PROVE  KyberInv' /\ UNCHANGED <<pool, given>>
<1>1. UNCHANGED <<pool, given, keyCall>>
    BY Zenon DEF RevokeDevice, keyHistory
<1> QED BY Zenon, <1>1 DEF KyberInv, CallsOK, BatchesOK, KeyBusy, TableOK, GivenOK, Tombstone, Retired

-----------------------------------------------------------------------------
\* A step that leaves the Kyber table and what was handed out of it alone.
LEMMA QuietStore ==
    ASSUME pool'["kyber"] = pool["kyber"], given'["kyber"] = given["kyber"]
    PROVE  UNCHANGED <<HeldKyber, given["kyber"]>>
BY Zenon, HeldRows, HeldRowsNext

\* Every step keeps the invariant, and is a step of the store or none.
LEMMA KyberStep ==
    ASSUME KyberInv, [KeysNext]_keyVars
    PROVE  KyberInv' /\ [KyberStore!StoreNext]_<<HeldKyber, given["kyber"]>>
<1> DEFINE Stored == [KyberStore!StoreNext]_<<HeldKyber, given["kyber"]>>
<1>1. ASSUME UNCHANGED <<pool, given>> PROVE Stored
    BY Zenon, <1>1, QuietStore
<1>2. ASSUME NEW c \in KeyCall, NEW b \in KeyBatches(c, keyCall[c].req), keyCall[c].at = "idle",
             BeginKeyCall(c, b)
      PROVE  KyberInv' /\ Stored
    BY ZenonT(60), <1>1, <1>2, BeginStep DEF BeginKeyCall
<1>3. ASSUME NEW c \in KeyCall, FetchStep(c) PROVE KyberInv' /\ Stored
  <2>1. CASE \/ ResolveConsumption(c) \/ CountBundle(c) \/ ReadRows(c) \/ LoadTree(c)
             \/ ProofsFail(c) \/ FinishBundle(c) \/ RecordConsumption(c)
      BY Zenon, <1>1, <2>1, QuietFetch
  <2>2. CASE \E kind \in {"identity", "hybrid"} : EnsureLeaf(c, kind) \/ AppendLeaf(c, kind)
      BY Zenon, <1>1, <2>2, LeafSteps
  <2>3. CASE TakeClassic(c)
      BY Zenon, <2>3, ClassicSteps, QuietStore
  <2>4. CASE TakeKyber(c)
      BY Zenon, <1>1, <2>4, TakeStep DEF KyberStore!StoreNext
  <2> QED BY Zenon, <1>3, <2>1, <2>2, <2>3, <2>4 DEF FetchStep
<1>4. ASSUME NEW c \in KeyCall, UploadStep(c) \/ ReadHybrid(c) \/ RotateKeys(c)
      PROVE  KyberInv' /\ Stored
  <2>1. CASE \/ CountKeys(c) \/ CountReplace(c) \/ UploadSpk(c) \/ ReadKeys(c) \/ WriteHybrid(c)
             \/ CheckKeys(c) \/ NextInserts(c) \/ ReadHybrid(c) \/ RotateKeys(c)
      BY Zenon, <1>1, <2>1, QuietWrites
  <2>2. CASE ExpireClassic(c) \/ InsertClassic(c)
      BY Zenon, <2>2, ClassicSteps, QuietStore
  <2>3. CASE ExpireKyber(c)
      BY Zenon, <2>3, ExpireStep DEF KyberStore!StoreNext
  <2>4. CASE InsertKyber(c)
      BY Zenon, <2>4, InsertStep DEF KyberStore!StoreNext
  <2> QED BY Zenon, <1>4, <2>1, <2>2, <2>3, <2>4 DEF UploadStep
<1>5. CASE UNCHANGED keyVars
  <2>1. UNCHANGED <<pool, given, keyCall>>
      BY Zenon, <1>5 DEF keyVars, keyHistory
  <2>2. KyberInv'
      BY Zenon, <2>1 DEF KyberInv, CallsOK, BatchesOK, KeyBusy, TableOK, GivenOK, Tombstone, Retired
  <2> QED BY Zenon, <1>1, <2>1, <2>2
<1>6. ASSUME NEW c \in KeyCall, DropKeyCall(c) PROVE KyberInv' /\ Stored
    BY Zenon, <1>1, <1>6, DropStep
<1>7. ASSUME NEW d \in KeyDevice, RevokeDevice(d) PROVE KyberInv' /\ Stored
    BY Zenon, <1>1, <1>7, RevokeStep
<1>8. ASSUME CleanupExpired PROVE KyberInv' /\ Stored
    BY Zenon, <1>8, CleanupStep
<1> HIDE DEF Stored
<1>9. ASSUME KeysNext PROVE KyberInv' /\ Stored
  <2>1. \/ \E c \in KeyCall :
              \/ keyCall[c].at = "idle" /\ \E b \in KeyBatches(c, keyCall[c].req) : BeginKeyCall(c, b)
              \/ DropKeyCall(c) \/ FetchStep(c)
              \/ UploadStep(c) \/ ReadHybrid(c) \/ RotateKeys(c)
        \/ (\E d \in KeyDevice : RevokeDevice(d)) \/ CleanupExpired
      BY Zenon, <1>9 DEF KeysNext
  <2> QED BY Zenon, <2>1, <1>2, <1>3, <1>4, <1>6, <1>7, <1>8
<1> QED BY Zenon, <1>5, <1>9 DEF Stored

\* The keys found in the table are keys of the account, and none was handed out.
LEMMA StoreInitially == KeysInit => KyberStore!StoreInit
<1> SUFFICES ASSUME KeysInit PROVE KyberStore!StoreInit
    BY Zenon
<1>1. KyberInv
    BY Zenon, KyberInit
<1>2. HeldKyber \subseteq OneTimeKey
    BY SMTT(60), <1>1, HeldRows DEF KyberInv, TableOK, KeyOf, OneTimeKey
<1>3. given["kyber"] = {}
    BY Zenon DEF KeysInit, KeyKind
<1> QED BY Zenon, <1>2, <1>3 DEF KyberStore!StoreInit

\* key-service implements a store of one-time keys: a Kyber one-time key is handed
\* out once, whatever fetches, repeated uploads, replacements, revocations, dropped
\* handlers and cleanups run at once (KyberKeysGivenOnce).
THEOREM KyberRefinesStore == KeysSpec => KyberKeysGivenOnce
<1>1. KeysInit => KyberInv /\ KyberStore!StoreInit
    BY Zenon, KyberInit, StoreInitially
<1>2. KyberInv /\ [KeysNext]_keyVars => KyberInv' /\ [KyberStore!StoreNext]_<<HeldKyber, given["kyber"]>>
    BY Zenon, KyberStep
<1> QED BY <1>1, <1>2, PTL DEF KeysSpec, KyberKeysGivenOnce, KyberStore!StoreSpec

-----------------------------------------------------------------------------
(* How the calls go on.                                                    *)

\* The step of a call in progress.
Step(c) == DropKeyCall(c) \/ FetchStep(c) \/ UploadStep(c) \/ ReadHybrid(c) \/ RotateKeys(c)

\* From where a handler goes on to where.
Passage(p, q) ==
    \/ p = "resolve" /\ q = "rate"
    \/ p = "rate" /\ q = "rows"
    \/ p = "rows" /\ q = "classic"
    \/ p = "classic" /\ q = "kyber"
    \/ p = "kyber" /\ q = "identityLeaf"
    \/ p = "identityLeaf" /\ q \in {"identityAppend", "hybridLeaf", "tree", "bundle"}
    \/ p = "identityAppend" /\ q \in {"hybridLeaf", "tree", "bundle"}
    \/ p = "hybridLeaf" /\ q \in {"hybridAppend", "tree", "bundle"}
    \/ p = "hybridAppend" /\ q \in {"tree", "bundle"}
    \/ p = "tree" /\ q = "bundle"
    \/ p = "bundle" /\ q \in {"classic", "record"}
    \/ p = "counts" /\ q \in {"replaceLimit", "spk", "readKeys", "exists"}
    \/ p = "replaceLimit" /\ q \in {"spk", "readKeys", "exists"}
    \/ p = "spk" /\ q \in {"readKeys", "exists"}
    \/ p = "readKeys" /\ q = "writeHybrid"
    \/ p = "writeHybrid" /\ q = "exists"
    \/ p = "exists" /\ q \in {"expire", "insert"}
    \/ p = "expire" /\ q = "expireKyber"
    \/ p = "expireKyber" /\ q = "insert"
    \/ p = "insert" /\ q \in {"insert", "insertKyber"}
    \/ p = "insertKyber" /\ q = "insertKyber"
    \/ p = "readHybrid" /\ q = "rotate"

\* What a handler keeps of its call r when that becomes s.
Kept(r, s) ==
    /\ s.req = r.req /\ s.by = r.by /\ s.hk = r.hk /\ s.spk = r.spk /\ s.kspk = r.kspk
    /\ r.at \notin {"rows", "readKeys"} => s.rows = r.rows
    /\ r.at \notin {"rows", "bundle"} => s.dev = r.dev
    /\ r.at # "resolve" => s.burn = r.burn
    /\ r.at \notin {"classic", "kyber"} => s.took = r.took
    /\ r.at \notin {"exists", "insert", "insertKyber"} => s.ids = r.ids
    /\ r.at = s.at => s.ids \subseteq r.ids
    /\ r.at \notin {"identityLeaf", "identityAppend", "hybridLeaf", "hybridAppend", "tree", "bundle"}
          => s.leaf = r.leaf

\* A step of a call in progress: the other calls stay as they are, and this one ends or
\* goes on.
Turn(c) ==
    /\ KeyBusy(c) /\ OpenOK(keyCall[c])
    /\ \A x \in KeyCall \ {c} : keyCall'[x] = keyCall[x]
    /\ \/ \E ok : keyCall'[c] = KeyOver(c, ok)
       \/ /\ OpenOK(keyCall'[c]) /\ Kept(keyCall[c], keyCall'[c])
          /\ Passage(keyCall[c].at, keyCall'[c].at)

\* The end of a call, as a turn.
LEMMA EndTurn ==
    ASSUME KyberInv, NEW c \in KeyCall, KeyBusy(c), NEW ok,
           keyCall' = [keyCall EXCEPT ![c] = KeyOver(c, ok)]
    PROVE  Turn(c)
<1>1. DOMAIN keyCall = KeyCall /\ OpenOK(keyCall[c])
    BY Zenon, BusyOpen DEF KyberInv, CallsOK
<1> DEFINE r == KeyOver(c, ok)
<1>2. keyCall' = [keyCall EXCEPT ![c] = r]
    BY Zenon
<1>3. keyCall'[c] = KeyOver(c, ok) /\ \A x \in KeyCall \ {c} : keyCall'[x] = keyCall[x]
  <2> HIDE DEF r
  <2>1. keyCall'[c] = r /\ \A x \in KeyCall \ {c} : keyCall'[x] = keyCall[x]
      BY Zenon, <1>1, <1>2
  <2> QED BY Zenon, <2>1 DEF r
<1> QED BY Zenon, <1>1, <1>3 DEF Turn

\* A call that goes on, as a turn.
LEMMA GoTurn ==
    ASSUME KyberInv, KyberInv', NEW c \in KeyCall, KeyBusy(c), NEW r,
           keyCall' = [keyCall EXCEPT ![c] = r], r.at \notin Over,
           Kept(keyCall[c], r), Passage(keyCall[c].at, r.at)
    PROVE  Turn(c)
<1>1. DOMAIN keyCall = KeyCall /\ OpenOK(keyCall[c])
    BY Zenon, BusyOpen DEF KyberInv, CallsOK
<1>2. keyCall'[c] = r /\ \A x \in KeyCall \ {c} : keyCall'[x] = keyCall[x]
    BY Zenon, <1>1
<1>3. OpenOK(keyCall'[c])
    BY Zenon, <1>2 DEF KyberInv, CallsOK, CallOK, Over
<1> QED BY Zenon, <1>1, <1>2, <1>3 DEF Turn

\* A call that only moves to another place.
LEMMA MoveTurn ==
    ASSUME KyberInv, KyberInv', NEW c \in KeyCall, KeyBusy(c), NEW at, at \notin Over,
           KeyGo(c, at), Passage(keyCall[c].at, at)
    PROVE  Turn(c)
<1> DEFINE r == [keyCall[c] EXCEPT !.at = at]
<1>1. OpenOK(keyCall[c])
    BY Zenon, BusyOpen
<1>2. r.at = at /\ Kept(keyCall[c], r)
    BY Zenon, <1>1 DEF OpenOK, CallFields, Kept
<1>3. keyCall' = [keyCall EXCEPT ![c] = r]
    BY Zenon DEF KeyGo
<1> HIDE DEF r
<1> QED BY Zenon, <1>2, <1>3, GoTurn

\* Every step of a fetch is a turn of it.
LEMMA FetchTurn ==
    ASSUME KyberInv, KyberInv', NEW c \in KeyCall, FetchStep(c)
    PROVE  Turn(c)
<1>1. /\ KeyBusy(c) /\ keyCall[c].at \in FetchPlace
    BY Zenon DEF FetchStep, ResolveConsumption, CountBundle, ReadRows, TakeClassic, TakeKyber, TakeKey,
           EnsureLeaf, AppendLeaf, LeafAt, AppendAt, LoadTree, ProofsFail, FinishBundle,
           RecordConsumption, KeyBusy, FetchPlace
<1>2. OpenOK(keyCall[c])
    BY Zenon, <1>1, BusyOpen
<1>3. CASE KeyEnd(c)
    BY Zenon, <1>1, <1>3, EndTurn DEF KeyEnd
<1>4. CASE ResolveConsumption(c)
  <2>1. PICK burn : keyCall' = [keyCall EXCEPT ![c] = [@ EXCEPT !.at = "rate", !.burn = burn]]
      BY Zenon, <1>4 DEF ResolveConsumption
  <2> DEFINE r == [keyCall[c] EXCEPT !.at = "rate", !.burn = burn]
  <2>2. keyCall[c].at = "resolve"
      BY Zenon, <1>4 DEF ResolveConsumption
  <2>3. r.at = "rate" /\ Kept(keyCall[c], r)
      BY Zenon, <1>2, <2>2 DEF OpenOK, CallFields, Kept
  <2>4. keyCall' = [keyCall EXCEPT ![c] = r]
      BY Zenon, <2>1
  <2> HIDE DEF r
  <2> QED BY Zenon, <1>1, <2>2, <2>3, <2>4, GoTurn DEF Passage, Over
<1>5. CASE CountBundle(c)
  <2>1. keyCall[c].at = "rate" /\ (KeyEnd(c) \/ KeyGo(c, "rows"))
      BY Zenon, <1>5 DEF CountBundle
  <2> QED BY Zenon, <1>1, <1>3, <2>1, MoveTurn DEF Passage, Over
<1>6. CASE ReadRows(c)
  <2> DEFINE found == {d \in keyCall[c].req.devs : keyRow[d].active}
             r(d) == [keyCall[c] EXCEPT !.at = "classic", !.rows = [x \in found |-> keyRow[x]],
                                        !.dev = d, !.todo = found \ {d}]
  <2>1. KeyEnd(c) \/ \E d \in found : keyCall' = [keyCall EXCEPT ![c] = r(d)]
      BY ZenonT(60), <1>6 DEF ReadRows
  <2>2. keyCall[c].at = "rows"
      BY Zenon, <1>6 DEF ReadRows
  <2>3. ASSUME NEW d \in found, keyCall' = [keyCall EXCEPT ![c] = r(d)] PROVE Turn(c)
    <3>1. r(d).at = "classic" /\ Kept(keyCall[c], r(d))
        BY Zenon, <1>2, <2>2 DEF OpenOK, CallFields, Kept
    <3> HIDE DEF r
    <3> QED BY Zenon, <1>1, <2>2, <2>3, <3>1, GoTurn DEF Passage, Over
  <2> QED BY ZenonT(60), <1>3, <2>1, <2>3
<1>7. ASSUME NEW kind \in {"classic", "kyber"}, NEW next \in {"kyber", "identityLeaf"},
             Passage(kind, next), TakeKey(c, kind, next)
      PROVE  Turn(c)
  <2> DEFINE r == [keyCall[c] EXCEPT !.at = next, !.took = TRUE]
  <2>1. keyCall[c].at = kind /\ (KeyGo(c, next) \/ keyCall' = [keyCall EXCEPT ![c] = r])
      BY Zenon, <1>7 DEF TakeKey
  <2>2. r.at = next /\ Kept(keyCall[c], r)
      BY Zenon, <1>2, <2>1 DEF OpenOK, CallFields, Kept
  <2>3. next \notin Over
      BY Zenon DEF Over
  <2> HIDE DEF r
  <2> QED BY Zenon, <1>1, <1>7, <2>1, <2>2, <2>3, MoveTurn, GoTurn
<1>8. CASE TakeClassic(c) \/ TakeKyber(c)
    BY Zenon, <1>7, <1>8 DEF TakeClassic, TakeKyber, Passage
<1>9. ASSUME NEW kind \in {"identity", "hybrid"}, EnsureLeaf(c, kind) \/ AppendLeaf(c, kind)
      PROVE  Turn(c)
  <2>1. PICK next : next = AfterLeaf(c, kind)
      BY Zenon
  <2>2. next \in {"hybridLeaf", "tree"} /\ next \notin Over /\ (kind = "hybrid" => next = "tree")
      BY Zenon, <2>1 DEF AfterLeaf, Over
  <2>3. AppendAt(kind) \notin Over /\ keyCall[c].at \in {LeafAt(kind), AppendAt(kind)}
      BY Zenon, <1>9 DEF EnsureLeaf, AppendLeaf, AppendAt, Over
  <2>4. Passage(LeafAt(kind), AppendAt(kind)) /\ Passage(keyCall[c].at, next)
      BY Zenon, <2>2, <2>3 DEF LeafAt, AppendAt, Passage
  <2> DEFINE r(leaf) == [keyCall[c] EXCEPT !.at = next, !.leaf = leaf]
  <2>5. \/ keyCall[c].at = LeafAt(kind) /\ KeyGo(c, AppendAt(kind))
        \/ \E leaf : keyCall' = [keyCall EXCEPT ![c] = r(leaf)]
      BY ZenonT(60), <1>9, <2>1 DEF EnsureLeaf, AppendLeaf
  <2>6. ASSUME NEW leaf, keyCall' = [keyCall EXCEPT ![c] = r(leaf)] PROVE Turn(c)
    <3>1. r(leaf).at = next /\ Kept(keyCall[c], r(leaf))
        BY Zenon, <1>2, <2>3 DEF OpenOK, CallFields, Kept, LeafAt, AppendAt
    <3> HIDE DEF r
    <3> QED BY Zenon, <1>1, <2>2, <2>4, <2>6, <3>1, GoTurn
  <2> HIDE DEF r
  <2> QED BY Zenon, <1>1, <2>3, <2>4, <2>5, <2>6, MoveTurn
<1>10. CASE LoadTree(c)
  <2> DEFINE r == [keyCall[c] EXCEPT !.at = "bundle", !.size = Len(ktLog)]
  <2>1. keyCall[c].at = "tree" /\ keyCall' = [keyCall EXCEPT ![c] = r]
      BY Zenon, <1>10 DEF LoadTree
  <2>2. r.at = "bundle" /\ Kept(keyCall[c], r)
      BY Zenon, <1>2, <2>1 DEF OpenOK, CallFields, Kept
  <2> HIDE DEF r
  <2> QED BY Zenon, <1>1, <2>1, <2>2, GoTurn DEF Passage, Over
<1>11. CASE ProofsFail(c)
  <2> DEFINE r == [keyCall[c] EXCEPT !.at = "bundle", !.leaf = <<>>]
  <2>1. /\ keyCall[c].at \in {"identityLeaf", "identityAppend", "hybridLeaf", "hybridAppend", "tree"}
        /\ keyCall' = [keyCall EXCEPT ![c] = r]
      BY Zenon, <1>11 DEF ProofsFail
  <2>2. r.at = "bundle" /\ Kept(keyCall[c], r)
      BY Zenon, <1>2, <2>1 DEF OpenOK, CallFields, Kept
  <2> HIDE DEF r
  <2> QED BY Zenon, <1>1, <2>1, <2>2, GoTurn DEF Passage, Over
<1>12. CASE FinishBundle(c)
  <2> DEFINE r(d) == [keyCall[c] EXCEPT !.at = "classic", !.dev = d, !.todo = keyCall[c].todo \ {d},
                                        !.leaf = <<>>, !.size = 0]
  <2>1. \/ KeyEnd(c) \/ KeyGo(c, "record")
        \/ \E d : keyCall' = [keyCall EXCEPT ![c] = r(d)]
    <3>1. ASSUME NEW d \in keyCall[c].todo,
                 keyCall' = [keyCall EXCEPT ![c].at = "classic", ![c].dev = d, ![c].todo = @ \ {d},
                                            ![c].leaf = <<>>, ![c].size = 0]
          PROVE  keyCall' = [keyCall EXCEPT ![c] = r(d)]
        BY Zenon, <3>1
    <3> HIDE DEF r
    <3> QED BY Zenon, <1>12, <3>1 DEF FinishBundle
  <2>2. keyCall[c].at = "bundle"
      BY Zenon, <1>12 DEF FinishBundle
  <2>3. ASSUME NEW d, keyCall' = [keyCall EXCEPT ![c] = r(d)] PROVE Turn(c)
    <3>1. r(d).at = "classic" /\ Kept(keyCall[c], r(d))
        BY Zenon, <1>2, <2>2 DEF OpenOK, CallFields, Kept
    <3> HIDE DEF r
    <3> QED BY Zenon, <1>1, <2>2, <2>3, <3>1, GoTurn DEF Passage, Over
  <2> HIDE DEF r
  <2> QED BY Zenon, <1>1, <1>3, <2>1, <2>2, <2>3, MoveTurn DEF Passage, Over
<1>13. CASE RecordConsumption(c)
    BY Zenon, <1>3, <1>13 DEF RecordConsumption
<1> QED BY Zenon, <1>4, <1>5, <1>6, <1>8, <1>9, <1>10, <1>11, <1>12, <1>13 DEF FetchStep

\* Every step of an upload or a rotation is a turn of it.
LEMMA WriteTurn ==
    ASSUME KyberInv, KyberInv', NEW c \in KeyCall, UploadStep(c) \/ ReadHybrid(c) \/ RotateKeys(c)
    PROVE  Turn(c)
<1>1. KeyBusy(c)
    BY Zenon DEF UploadStep, CountKeys, CountReplace, UploadSpk, ReadKeys, WriteHybrid, CheckKeys,
           ExpireClassic, ExpireKyber, ExpireKeys, InsertClassic, InsertKyber, InsertKey, NextInserts,
           ReadHybrid, RotateKeys, KeyBusy
<1>2. OpenOK(keyCall[c])
    BY Zenon, <1>1, BusyOpen
<1>3. CASE KeyEnd(c)
    BY Zenon, <1>1, <1>3, EndTurn DEF KeyEnd
<1>4. ASSUME NEW at \in UploadPlace \cup RotatePlace, KeyGo(c, at), Passage(keyCall[c].at, at)
      PROVE  Turn(c)
  <2>1. at \notin Over
      BY Zenon, <1>4 DEF UploadPlace, RotatePlace, Over
  <2> QED BY Zenon, <1>1, <1>4, <2>1, MoveTurn
<1>5. \A r : AfterLimits(r) \in {"spk", "readKeys", "exists"}
    BY Zenon DEF AfterLimits
<1>6. CASE CountKeys(c)
  <2>1. KeyEnd(c) \/ \E at \in {"replaceLimit", "spk", "readKeys", "exists"} : KeyGo(c, at)
      BY Zenon, <1>5, <1>6 DEF CountKeys
  <2>2. keyCall[c].at = "counts"
      BY Zenon, <1>6 DEF CountKeys
  <2> QED BY Zenon, <1>3, <1>4, <2>1, <2>2 DEF Passage, UploadPlace
<1>7. CASE CountReplace(c)
  <2>1. KeyEnd(c) \/ \E at \in {"spk", "readKeys", "exists"} : KeyGo(c, at)
      BY Zenon, <1>5, <1>7 DEF CountReplace
  <2>2. keyCall[c].at = "replaceLimit"
      BY Zenon, <1>7 DEF CountReplace
  <2> QED BY Zenon, <1>3, <1>4, <2>1, <2>2 DEF Passage, UploadPlace
<1>8. CASE UploadSpk(c)
  <2>1. keyCall[c].at = "spk" /\ (KeyEnd(c) \/ KeyGo(c, "readKeys") \/ KeyGo(c, "exists"))
      BY Zenon, <1>8 DEF UploadSpk
  <2> QED BY Zenon, <1>3, <1>4, <2>1 DEF Passage, UploadPlace
<1>9. CASE ReadKeys(c)
  <2> DEFINE r == [keyCall[c] EXCEPT !.at = "writeHybrid",
                        !.rows = [x \in {keyCall[c].req.dev} |-> keyRow[x]]]
  <2>1. KeyEnd(c) \/ keyCall' = [keyCall EXCEPT ![c] = r]
      BY ZenonT(60), <1>9 DEF ReadKeys
  <2>2. keyCall[c].at = "readKeys"
      BY Zenon, <1>9 DEF ReadKeys
  <2>3. r.at = "writeHybrid" /\ Kept(keyCall[c], r)
      BY Zenon, <1>2, <2>2 DEF OpenOK, CallFields, Kept
  <2> HIDE DEF r
  <2> QED BY Zenon, <1>1, <1>3, <2>1, <2>2, <2>3, GoTurn DEF Passage, Over
<1>10. CASE WriteHybrid(c)
    BY Zenon, <1>4, <1>10 DEF WriteHybrid, Passage, UploadPlace
<1>11. CASE ExpireClassic(c) \/ ExpireKyber(c)
    BY Zenon, <1>4, <1>11 DEF ExpireClassic, ExpireKyber, ExpireKeys, Passage, UploadPlace
<1>12. ASSUME NEW at \in {"expire", "insert", "insertKyber"}, NEW ids, Passage(keyCall[c].at, at),
              keyCall[c].at \in {"exists", "insert"} \ {at},
              keyCall' = [keyCall EXCEPT ![c] = [@ EXCEPT !.at = at, !.ids = ids]]
       PROVE  Turn(c)
  <2> DEFINE r == [keyCall[c] EXCEPT !.at = at, !.ids = ids]
  <2>1. r.at = at /\ at \notin Over /\ Kept(keyCall[c], r)
      BY Zenon, <1>2, <1>12 DEF OpenOK, CallFields, Kept, Over
  <2>2. keyCall' = [keyCall EXCEPT ![c] = r]
      BY Zenon, <1>12
  <2> HIDE DEF r
  <2> QED BY Zenon, <1>1, <1>12, <2>1, <2>2, GoTurn
<1>13. CASE CheckKeys(c)
  <2>1. \/ KeyEnd(c)
        \/ \E at \in {"expire", "insert"} :
             keyCall' = [keyCall EXCEPT ![c] = [@ EXCEPT !.at = at, !.ids = keyCall[c].req.ids]]
      BY Zenon, <1>13 DEF CheckKeys
  <2>2. keyCall[c].at = "exists"
      BY Zenon, <1>13 DEF CheckKeys
  <2> QED BY Zenon, <1>3, <1>12, <2>1, <2>2 DEF Passage
<1>14. ASSUME NEW kind, NEW at \in {"insert", "insertKyber"}, InsertKey(c, kind, at) PROVE Turn(c)
  <2> DEFINE r(id) == [keyCall[c] EXCEPT !.ids = keyCall[c].ids \ {id}]
  <2>1. keyCall[c].at = at /\ \E id : keyCall' = [keyCall EXCEPT ![c] = r(id)]
      BY Zenon, <1>14 DEF InsertKey
  <2>2. PICK id : keyCall' = [keyCall EXCEPT ![c] = r(id)]
      BY Zenon, <2>1
  <2>3. r(id).at = at /\ at \notin Over /\ Kept(keyCall[c], r(id))
      BY Zenon, <1>2, <2>1 DEF OpenOK, CallFields, Kept, Over
  <2>4. Passage(at, at)
      BY Zenon DEF Passage
  <2> HIDE DEF r
  <2> QED BY Zenon, <1>1, <2>1, <2>2, <2>3, <2>4, GoTurn
<1>15. CASE InsertClassic(c) \/ InsertKyber(c)
    BY Zenon, <1>14, <1>15 DEF InsertClassic, InsertKyber
<1>16. CASE NextInserts(c)
  <2>1. \/ keyCall' = [keyCall EXCEPT ![c] = KeyOver(c, TRUE)]
        \/ /\ keyCall[c].at = "insert"
           /\ keyCall' = [keyCall EXCEPT ![c] = [@ EXCEPT !.at = "insertKyber", !.ids = keyCall[c].req.ids]]
      BY Zenon, <1>16 DEF NextInserts
  <2> QED BY Zenon, <1>1, <1>12, <2>1, EndTurn DEF Passage
<1>17. CASE ReadHybrid(c)
  <2>1. keyCall[c].at = "readHybrid" /\ (KeyEnd(c) \/ KeyGo(c, "rotate"))
      BY Zenon, <1>17 DEF ReadHybrid
  <2> QED BY Zenon, <1>3, <1>4, <2>1 DEF Passage, RotatePlace
<1>18. CASE RotateKeys(c)
    BY Zenon, <1>3, <1>18 DEF RotateKeys
<1> QED BY Zenon, <1>6, <1>7, <1>8, <1>9, <1>10, <1>11, <1>13, <1>15, <1>16, <1>17, <1>18 DEF UploadStep

\* What happens in a step: a call begins or takes a turn, a device is revoked, expired
\* keys are deleted, or nothing.
LEMMA NextKinds ==
    ASSUME KyberInv, [KeysNext]_keyVars
    PROVE  /\ KyberInv'
           /\ \/ \E c \in KeyCall : \E b \in KeyBatches(c, keyCall[c].req) : BeginKeyCall(c, b)
              \/ \E c \in KeyCall : Step(c) /\ Turn(c)
              \/ \E d \in KeyDevice : RevokeDevice(d)
              \/ CleanupExpired
              \/ UNCHANGED keyVars
<1>1. KyberInv'
    BY Zenon, KyberStep
<1>2. ASSUME NEW c \in KeyCall, DropKeyCall(c) PROVE Turn(c)
    BY Zenon, <1>2, EndTurn DEF DropKeyCall, KeyEnd
<1>3. ASSUME NEW c \in KeyCall, Step(c) PROVE Turn(c)
    BY Zenon, <1>1, <1>2, <1>3, FetchTurn, WriteTurn DEF Step
<1>4. CASE KeysNext
    BY Zenon, <1>1, <1>3, <1>4 DEF KeysNext, Step
<1> QED BY Zenon, <1>1, <1>4

-----------------------------------------------------------------------------
(* Classic one-time keys.                                                  *)

\* Where an upload has inserted nothing yet.
EarlyPlace == UploadPlace \ {"insert", "insertKyber"}

\* The call may still insert a classic key of its own.
Unsent(b, id) ==
    \/ keyCall[b].at \in EarlyPlace \cup {"idle"}
    \/ keyCall[b].at = "insert" /\ id \in keyCall[b].ids

\* Another call carries, or carried, the keys of this one.
Resent(b) == \E c \in KeyCall \ {b} : keyCall[c].at \notin {"idle", "done"} /\ keyCall[c].by = b

\* Only an upload carries the keys of another.
UploadsRepeat == \A c \in KeyCall : KeyBusy(c) /\ keyCall[c].by # c => keyCall[c].req.op = "upload"

\* The classic table has one row to a key_id; its keys, and those handed out, were
\* inserted; and a key that was handed out is back only when it was sent again.
ClassicOK ==
    /\ DOMAIN twice = KeyKind
    /\ \A d \in KeyDevice : \A j, k \in pool["classic"][d] : j.id = k.id => j = k
    /\ \A d \in KeyDevice : \A k \in pool["classic"][d] :
          k.by \in KeyUploader /\ (k.by \in KeyCall => ~Unsent(k.by, k.id))
    /\ \A k \in given["classic"] :
          /\ k.dev \in KeyDevice /\ (k.by \in KeyCall => ~Unsent(k.by, k.id))
          /\ \A row \in pool["classic"][k.dev] : row.id = k.id /\ row.by = k.by => Resent(k.by)

ClassicInv == UploadsRepeat /\ ClassicOK /\ ClassicKeysGivenOnce

\* What is left of a call that ended.
LEMMA OverShape ==
    ASSUME NEW c \in KeyCall, NEW ok
    PROVE  /\ keyCall[c].req.op = "upload" => KeyOver(c, ok).at = "sent" /\ KeyOver(c, ok).by = keyCall[c].by
           /\ keyCall[c].req.op # "upload" => KeyOver(c, ok).at = "done"
BY Zenon DEF KeyOver, KeyCallDone

\* After a turn the call is over, or open and where its handler goes on.
LEMMA TurnPlaces ==
    ASSUME NEW c \in KeyCall, Turn(c)
    PROVE  \/ keyCall'[c].at \in {"sent", "done"}
           \/ /\ keyCall'[c].at \in FetchPlace \cup UploadPlace \cup RotatePlace
              /\ OpenOK(keyCall'[c]) /\ Kept(keyCall[c], keyCall'[c])
              /\ Passage(keyCall[c].at, keyCall'[c].at)
<1>1. CASE \E ok : keyCall'[c] = KeyOver(c, ok)
    BY Zenon, <1>1, OverShape
<1>2. CASE /\ OpenOK(keyCall'[c]) /\ Kept(keyCall[c], keyCall'[c])
           /\ Passage(keyCall[c].at, keyCall'[c].at)
  <2>1. keyCall'[c].at \in FetchPlace \cup UploadPlace \cup RotatePlace
      BY Zenon, <1>2 DEF OpenOK
  <2> QED BY Zenon, <1>2, <2>1
<1> QED BY Zenon, <1>1, <1>2 DEF Turn

\* A call stays unsent no longer than its upload: what was inserted stays so, and what
\* was sent again stays sent again.
LEMMA SentStays ==
    ASSUME KyberInv, UploadsRepeat, [KeysNext]_keyVars
    PROVE  /\ UploadsRepeat'
           /\ \A b \in KeyCall : \A id : ~Unsent(b, id) => ~Unsent(b, id)'
           /\ \A b : Resent(b) => Resent(b)'
<1>1. ASSUME NEW c \in KeyCall, NEW b \in KeyBatches(c, keyCall[c].req), BeginKeyCall(c, b)
      PROVE  /\ UploadsRepeat'
             /\ \A x \in KeyCall : \A id : ~Unsent(x, id) => ~Unsent(x, id)'
             /\ \A x : Resent(x) => Resent(x)'
  <2>1. keyCall[c].at = "idle" /\ keyCall' = [keyCall EXCEPT ![c] = OpenCall(c, b)]
      BY Zenon, <1>1 DEF BeginKeyCall
  <2>2. OpenCall(c, b).req = keyCall[c].req /\ OpenCall(c, b).by = b
      BY Zenon DEF OpenCall
  <2> DEFINE r == OpenCall(c, b)
  <2>3. keyCall' = [keyCall EXCEPT ![c] = r] /\ r.req = keyCall[c].req /\ r.by = b
      BY Zenon, <2>1, <2>2
  <2> HIDE DEF r
  <2>4. /\ \A x \in KeyCall \ {c} : keyCall'[x] = keyCall[x]
        /\ keyCall'[c].req = keyCall[c].req /\ keyCall'[c].by = b
      BY Zenon, <2>3 DEF KyberInv, CallsOK
  <2>5. b # c => keyCall[c].req.op = "upload"
      BY Zenon DEF KeyBatches
  <2>6. UploadsRepeat'
      BY Zenon, <2>4, <2>5 DEF UploadsRepeat, KeyBusy
  <2>7. \A x \in KeyCall : \A id : ~Unsent(x, id) => ~Unsent(x, id)'
      BY Zenon, <2>1, <2>4 DEF Unsent
  <2>8. \A x : Resent(x) => Resent(x)'
      BY Zenon, <2>1, <2>4 DEF Resent
  <2> QED BY Zenon, <2>6, <2>7, <2>8
<1>2. ASSUME NEW c \in KeyCall, Turn(c)
      PROVE  /\ UploadsRepeat'
             /\ \A x \in KeyCall : \A id : ~Unsent(x, id) => ~Unsent(x, id)'
             /\ \A x : Resent(x) => Resent(x)'
  <2>1. \A x \in KeyCall \ {c} : keyCall'[x] = keyCall[x]
      BY Zenon, <1>2 DEF Turn
  <2>2. KeyBusy(c) /\ OpenOK(keyCall[c])
      BY Zenon, <1>2 DEF Turn
  <2>3. KeyBusy(c)' => keyCall'[c].by = keyCall[c].by /\ keyCall'[c].req = keyCall[c].req
      BY Zenon, <1>2, TurnPlaces DEF KeyBusy, Kept
  <2>4. UploadsRepeat'
      BY Zenon, <2>1, <2>2, <2>3 DEF UploadsRepeat, KeyBusy
  <2>5. ASSUME NEW id, ~Unsent(c, id) PROVE ~Unsent(c, id)'
    <3>1. CASE keyCall'[c].at \in {"sent", "done"}
        BY Zenon, <3>1 DEF Unsent, EarlyPlace, UploadPlace
    <3>2. CASE Kept(keyCall[c], keyCall'[c]) /\ Passage(keyCall[c].at, keyCall'[c].at)
      <4>1. keyCall[c].at \notin EarlyPlace
          BY Zenon, <2>5 DEF Unsent
      <4>2. keyCall'[c].at \notin EarlyPlace \cup {"idle"}
          BY Zenon, <3>2, <4>1 DEF Passage, EarlyPlace, UploadPlace
      <4>3. keyCall'[c].at = "insert" => keyCall[c].at = "insert"
          BY Zenon, <3>2, <4>1 DEF Passage, EarlyPlace, UploadPlace
      <4> QED BY Zenon, <2>5, <3>2, <4>2, <4>3 DEF Unsent, Kept
    <3> QED BY Zenon, <1>2, <3>1, <3>2, TurnPlaces
  <2>6. \A x \in KeyCall : \A id : ~Unsent(x, id) => ~Unsent(x, id)'
    <3>1. ASSUME NEW x \in KeyCall \ {c}, NEW id, ~Unsent(x, id) PROVE ~Unsent(x, id)'
        BY Zenon, <2>1, <3>1 DEF Unsent
    <3> QED BY Zenon, <2>5, <3>1
  <2>7. ASSUME NEW x, Resent(x) PROVE Resent(x)'
    <3>1. PICK y \in KeyCall \ {x} : keyCall[y].at \notin {"idle", "done"} /\ keyCall[y].by = x
        BY Zenon, <2>7 DEF Resent
    <3>2. CASE y # c
        BY Zenon, <2>1, <3>1, <3>2 DEF Resent
    <3>3. CASE y = c
      <4>1. keyCall[c].req.op = "upload"
          BY Zenon, <2>2, <3>1, <3>3 DEF UploadsRepeat
      <4>2. keyCall'[c].by = x /\ keyCall'[c].at \notin {"idle", "done"}
        <5>1. CASE \E ok : keyCall'[c] = KeyOver(c, ok)
          <6>0. PICK ok : keyCall'[c] = KeyOver(c, ok)
              BY Zenon, <5>1
          <6>1. keyCall'[c].at = "sent" /\ keyCall'[c].by = keyCall[c].by
            <7>1. /\ KeyOver(c, ok).at = "sent" /\ KeyOver(c, ok).by = keyCall[c].by
                BY Zenon, <4>1, OverShape
            <7> DEFINE o == KeyOver(c, ok)
            <7>2. keyCall'[c] = o /\ o.at = "sent" /\ o.by = keyCall[c].by
                BY Zenon, <6>0, <7>1
            <7> HIDE DEF o
            <7> QED BY Zenon, <7>2
          <6>2. keyCall[c].by = x
              BY Zenon, <3>1, <3>3
          <6> QED BY Zenon, <6>1, <6>2
        <5>2. CASE OpenOK(keyCall'[c]) /\ Kept(keyCall[c], keyCall'[c])
          <6>1. keyCall'[c].at \notin {"idle", "done"}
              BY Zenon, <5>2 DEF OpenOK, FetchPlace, UploadPlace, RotatePlace
          <6> QED BY Zenon, <3>1, <3>3, <5>2, <6>1 DEF Kept
        <5> QED BY Zenon, <1>2, <5>1, <5>2 DEF Turn
      <4> QED BY Zenon, <3>1, <3>3, <4>2 DEF Resent
    <3> QED BY Zenon, <3>2, <3>3
  <2> QED BY Zenon, <2>4, <2>6, <2>7
<1>3. ASSUME UNCHANGED keyCall
      PROVE  /\ UploadsRepeat'
             /\ \A x \in KeyCall : \A id : ~Unsent(x, id) => ~Unsent(x, id)'
             /\ \A x : Resent(x) => Resent(x)'
    BY Zenon, <1>3 DEF UploadsRepeat, KeyBusy, Unsent, Resent
<1>4. ASSUME CleanupExpired
      PROVE  /\ UploadsRepeat'
             /\ \A x \in KeyCall : \A id : ~Unsent(x, id) => ~Unsent(x, id)'
             /\ \A x : Resent(x) => Resent(x)'
  <2>1. \A c \in KeyCall : keyCall[c].at # "sent" => keyCall'[c] = keyCall[c]
      BY Zenon, <1>4 DEF CleanupExpired
  <2>2. ASSUME NEW c \in KeyCall, keyCall[c].at = "sent"
        PROVE  keyCall'[c].at = "gone" /\ keyCall'[c].by = keyCall[c].by
    <3>1. DOMAIN keyCall[c] = {"at", "dev", "ids", "kinds", "by", "replaced"}
        BY Zenon, <2>2 DEF KyberInv, CallsOK, CallOK, OpenOK, FetchPlace, UploadPlace, RotatePlace
    <3>2. keyCall'[c] = [keyCall[c] EXCEPT !.at = "gone"]
        BY Zenon, <1>4, <2>2 DEF CleanupExpired
    <3> QED BY Zenon, <3>1, <3>2
  <2>3. \A c \in KeyCall : ~KeyBusy(c)'
      BY Zenon, <1>4, <2>1, <2>2 DEF CleanupExpired, KeyBusy
  <2>4. UploadsRepeat'
      BY Zenon, <2>3 DEF UploadsRepeat, KeyBusy
  <2>5. \A x \in KeyCall : \A id : ~Unsent(x, id) => ~Unsent(x, id)'
      BY Zenon, <2>1, <2>2 DEF Unsent, EarlyPlace, UploadPlace
  <2>6. \A x : Resent(x) => Resent(x)'
      BY Zenon, <2>1, <2>2 DEF Resent
  <2> QED BY Zenon, <2>4, <2>5, <2>6
<1>5. \A d \in KeyDevice : RevokeDevice(d) => UNCHANGED keyCall
    BY Zenon DEF RevokeDevice
<1>6. UNCHANGED keyVars => UNCHANGED keyCall
    BY Zenon DEF keyVars
<1>7. \/ \E c \in KeyCall : \E b \in KeyBatches(c, keyCall[c].req) : BeginKeyCall(c, b)
      \/ \E c \in KeyCall : Turn(c)
      \/ CleanupExpired
      \/ UNCHANGED keyCall
    BY Zenon, NextKinds, <1>5, <1>6
<1> QED BY Zenon, <1>1, <1>2, <1>3, <1>4, <1>7

\* The classic keys stay sound when the tables and what was handed out do not change.
LEMMA ClassicFrame ==
    ASSUME ClassicInv, DOMAIN twice' = KeyKind,
           pool'["classic"] = pool["classic"], given'["classic"] = given["classic"],
           twice'["classic"] = twice["classic"],
           UploadsRepeat', \A b \in KeyCall : \A id : ~Unsent(b, id) => ~Unsent(b, id)',
           \A b : Resent(b) => Resent(b)'
    PROVE  ClassicInv'
<1>1. ClassicOK'
  <2>1. ASSUME NEW k \in given["classic"], NEW row \in pool["classic"][k.dev],
               row.id = k.id, row.by = k.by
        PROVE  Resent(k.by)'
      BY Zenon, <2>1 DEF ClassicInv, ClassicOK
  <2>2. \A d \in KeyDevice : \A j, k \in pool'["classic"][d] : j.id = k.id => j = k
      BY Zenon DEF ClassicInv, ClassicOK
  <2>3. \A d \in KeyDevice : \A k \in pool'["classic"][d] :
            k.by \in KeyUploader /\ (k.by \in KeyCall => ~Unsent(k.by, k.id)')
      BY Zenon DEF ClassicInv, ClassicOK
  <2>4. \A k \in given'["classic"] : k.dev \in KeyDevice /\ (k.by \in KeyCall => ~Unsent(k.by, k.id)')
      BY Zenon DEF ClassicInv, ClassicOK
  <2> QED BY Zenon, <2>1, <2>2, <2>3, <2>4 DEF ClassicOK
<1>2. ClassicKeysGivenOnce'
  <2>1. ASSUME NEW k \in twice["classic"] PROVE Resent(k.by)'
      BY Zenon DEF ClassicInv, ClassicKeysGivenOnce, Resent
  <2> QED BY Zenon, <2>1 DEF ClassicKeysGivenOnce, Resent
<1> QED BY Zenon, <1>1, <1>2 DEF ClassicInv

\* Handing out a classic key deletes its row, which was the only one with its key_id.
LEMMA TakeClassicStep ==
    ASSUME KyberInv, ClassicInv, NEW c \in KeyCall, TakeClassic(c),
           UploadsRepeat', \A b \in KeyCall : \A id : ~Unsent(b, id) => ~Unsent(b, id)',
           \A b : Resent(b) => Resent(b)'
    PROVE  ClassicInv'
<1>0. PICK d : d = keyCall[c].dev
    BY Zenon
<1>1. d \in KeyDevice
  <2>1. keyCall[c].at = "classic" /\ KeyBusy(c)
      BY Zenon DEF TakeClassic, TakeKey, KeyBusy
  <2> QED BY Zenon, <1>0, <2>1, BusyOpen DEF OpenOK
<1>2. CASE UNCHANGED <<pool, given, twice>>
    BY Zenon, <1>2, ClassicFrame DEF ClassicInv, ClassicOK
<1>3. ASSUME NEW row \in pool["classic"][d], NEW k, k = KeyOf(d, row),
             pool' = [pool EXCEPT !["classic"][d] = TakenFrom("classic", d, row)],
             given' = [given EXCEPT !["classic"] = @ \cup {k}],
             twice' = [twice EXCEPT !["classic"] = IF k \in given["classic"] THEN @ \cup {k} ELSE @]
      PROVE  ClassicInv'
  <2>1. k.dev = d /\ k.id = row.id /\ k.by = row.by
      BY Zenon, <1>3 DEF KeyOf
  <2>2. \A e \in KeyDevice :
            pool'["classic"][e] = IF e = d THEN pool["classic"][d] \ {row} ELSE pool["classic"][e]
    <3>1. PICK t : t = pool["classic"][d] \ {row}
        BY Zenon
    <3>2. pool' = [pool EXCEPT !["classic"][d] = t] /\ "classic" \in KeyKind
        BY Zenon, <1>3, <3>1 DEF TakenFrom, KeyKind
    <3> QED BY Zenon, <1>1, <3>1, <3>2 DEF KyberInv, TableOK
  <2>3. given'["classic"] = given["classic"] \cup {k}
      BY Zenon, <1>3 DEF KyberInv, GivenOK, KeyKind
  <2>4. /\ DOMAIN twice' = KeyKind
        /\ \A x \in twice'["classic"] : x \in twice["classic"] \/ (x = k /\ k \in given["classic"])
      BY Zenon, <1>3 DEF ClassicInv, ClassicOK, KeyKind
  <2>5. \A e \in KeyDevice : \A x \in pool'["classic"][e] : x \in pool["classic"][e] /\ (e = d => x.id # row.id)
      BY Zenon, <2>2 DEF ClassicInv, ClassicOK
  <2>6. ClassicOK'
    <3>1. \A e \in KeyDevice : \A j, x \in pool'["classic"][e] : j.id = x.id => j = x
        BY Zenon, <2>5 DEF ClassicInv, ClassicOK
    <3>2. \A e \in KeyDevice : \A x \in pool'["classic"][e] :
              x.by \in KeyUploader /\ (x.by \in KeyCall => ~Unsent(x.by, x.id)')
        BY Zenon, <2>5 DEF ClassicInv, ClassicOK
    <3>3. ASSUME NEW x \in given'["classic"]
          PROVE  x.dev \in KeyDevice /\ (x.by \in KeyCall => ~Unsent(x.by, x.id)')
      <4>1. CASE x \in given["classic"]
          BY Zenon, <4>1 DEF ClassicInv, ClassicOK
      <4>2. CASE x = k
          BY Zenon, <1>1, <2>1, <4>2 DEF ClassicInv, ClassicOK
      <4> QED BY Zenon, <2>3, <4>1, <4>2
    <3>4. ASSUME NEW x \in given'["classic"], NEW y \in pool'["classic"][x.dev], y.id = x.id, y.by = x.by
          PROVE  Resent(x.by)'
      <4>1. CASE x \in given["classic"]
          BY Zenon, <2>5, <3>3, <3>4, <4>1 DEF ClassicInv, ClassicOK
      <4>2. CASE x = k
          BY Zenon, <1>1, <2>1, <2>5, <3>4, <4>2
      <4> QED BY Zenon, <2>3, <4>1, <4>2
    <3> QED BY Zenon, <2>4, <3>1, <3>2, <3>3, <3>4 DEF ClassicOK
  <2>7. ASSUME NEW x \in twice'["classic"] PROVE Resent(x.by)'
    <3>1. CASE x \in twice["classic"]
        BY Zenon, <3>1 DEF ClassicInv, ClassicKeysGivenOnce, Resent
    <3>2. CASE x = k /\ k \in given["classic"]
        BY Zenon, <2>1, <3>2 DEF ClassicInv, ClassicOK
    <3> QED BY Zenon, <2>4, <3>1, <3>2
  <2>8. ClassicKeysGivenOnce'
      BY Zenon, <2>7 DEF ClassicKeysGivenOnce, Resent
  <2> QED BY Zenon, <2>6, <2>8 DEF ClassicInv
<1>4. \/ UNCHANGED <<pool, given, twice>>
      \/ \E row \in pool["classic"][d] :
           LET k == KeyOf(d, row) IN
           /\ pool' = [pool EXCEPT !["classic"][d] = TakenFrom("classic", d, row)]
           /\ given' = [given EXCEPT !["classic"] = @ \cup {k}]
           /\ twice' = [twice EXCEPT !["classic"] = IF k \in given["classic"] THEN @ \cup {k} ELSE @]
    BY Zenon, <1>0 DEF TakeClassic, TakeKey, ActiveKeys
<1> QED BY Zenon, <1>2, <1>3, <1>4

\* A step that leaves of the classic table no row but those it had, expired or not.
LEMMA ClassicShrinks ==
    ASSUME ClassicInv, UNCHANGED <<given, twice>>,
           \A e \in KeyDevice : \A x \in pool'["classic"][e] : \E y \in pool["classic"][e] :
               x = y \/ (x.id = y.id /\ x.by = y.by /\ x = ExpiredRow(y)),
           \A e \in KeyDevice : \A j, x \in pool'["classic"][e] : j.id = x.id => j = x,
           UploadsRepeat', \A b \in KeyCall : \A id : ~Unsent(b, id) => ~Unsent(b, id)',
           \A b : Resent(b) => Resent(b)'
    PROVE  ClassicInv'
<1>1. \A e \in KeyDevice : \A x \in pool'["classic"][e] : \E y \in pool["classic"][e] :
          x.id = y.id /\ x.by = y.by
    BY Zenon
<1>2. ClassicOK'
  <2>1. \A e \in KeyDevice : \A x \in pool'["classic"][e] :
            x.by \in KeyUploader /\ (x.by \in KeyCall => ~Unsent(x.by, x.id)')
    <3> SUFFICES ASSUME NEW e \in KeyDevice, NEW x \in pool'["classic"][e]
                 PROVE  x.by \in KeyUploader /\ (x.by \in KeyCall => ~Unsent(x.by, x.id)')
        BY Zenon
    <3>1. PICK y \in pool["classic"][e] : x.id = y.id /\ x.by = y.by
        BY Zenon, <1>1
    <3>2. y.by \in KeyUploader /\ (y.by \in KeyCall => ~Unsent(y.by, y.id)')
        BY Zenon DEF ClassicInv, ClassicOK
    <3> QED BY Zenon, <3>1, <3>2
  <2>2. \A k \in given'["classic"] : k.dev \in KeyDevice /\ (k.by \in KeyCall => ~Unsent(k.by, k.id)')
      BY Zenon DEF ClassicInv, ClassicOK
  <2>3. ASSUME NEW k \in given'["classic"], NEW x \in pool'["classic"][k.dev], x.id = k.id, x.by = k.by
        PROVE  Resent(k.by)'
    <3>1. PICK y \in pool["classic"][k.dev] : x.id = y.id /\ x.by = y.by
        BY Zenon, <1>1, <2>2
    <3>2. y.id = k.id /\ y.by = k.by /\ k \in given["classic"]
        BY Zenon, <2>3, <3>1
    <3> QED BY Zenon, <3>2 DEF ClassicInv, ClassicOK
  <2> QED BY Zenon, <2>1, <2>2, <2>3 DEF ClassicOK, ClassicInv
<1>3. ClassicKeysGivenOnce'
  <2>1. ASSUME NEW k \in twice["classic"] PROVE Resent(k.by)'
      BY Zenon DEF ClassicInv, ClassicKeysGivenOnce, Resent
  <2> QED BY Zenon, <2>1 DEF ClassicKeysGivenOnce, Resent
<1> QED BY Zenon, <1>2, <1>3 DEF ClassicInv

\* replace_existing expires the rows of the device and the cleanup deletes expired rows.
LEMMA ExpireClassicStep ==
    ASSUME KyberInv, ClassicInv,
           CleanupExpired \/ \E c \in KeyCall : ExpireClassic(c),
           UploadsRepeat', \A b \in KeyCall : \A id : ~Unsent(b, id) => ~Unsent(b, id)',
           \A b : Resent(b) => Resent(b)'
    PROVE  ClassicInv'
<1> USE DEF keyHistory
<1>1. CASE CleanupExpired
  <2>1. \A e \in KeyDevice : pool'["classic"][e] = {x \in pool["classic"][e] : ~x.expired}
      BY Zenon, <1>1 DEF CleanupExpired, ActiveKeys, KeyKind
  <2>2. \A e \in KeyDevice : \A j, x \in pool'["classic"][e] : j.id = x.id => j = x
      BY Zenon, <2>1 DEF ClassicInv, ClassicOK
  <2>3. UNCHANGED <<given, twice>>
      BY Zenon, <1>1 DEF CleanupExpired
  <2> QED BY Zenon, <2>1, <2>2, <2>3, ClassicShrinks
<1>2. ASSUME NEW c \in KeyCall, ExpireClassic(c) PROVE ClassicInv'
  <2>0. PICK d : d = keyCall[c].req.dev
      BY Zenon
  <2>1. keyCall[c].at = "expire" /\ KeyBusy(c) /\ UNCHANGED <<given, twice>>
      BY Zenon, <1>2 DEF ExpireClassic, ExpireKeys, KeyBusy
  <2>2. d \in KeyDevice
      BY Zenon, <2>0, <2>1, BusyOpen DEF OpenOK, KeyRequestOK, UploadPlace
  <2>3. PICK t : t = ExpiredRows(pool["classic"][d])
      BY Zenon
  <2>4. \A e \in KeyDevice : pool'["classic"][e] = IF e = d THEN t ELSE pool["classic"][e]
    <3>1. pool' = [pool EXCEPT !["classic"][d] = ExpiredRows(@)]
        BY Zenon, <1>2, <2>0 DEF ExpireClassic, ExpireKeys
    <3>2. pool' = [pool EXCEPT !["classic"][d] = t] /\ "classic" \in KeyKind
        BY Zenon, <2>2, <2>3, <3>1 DEF KyberInv, TableOK, KeyKind
    <3> QED BY Zenon, <2>2, <3>2 DEF KyberInv, TableOK
  <2>5. \A x \in t : \E y \in pool["classic"][d] : x = ExpiredRow(y)
      BY Zenon, <2>3 DEF ExpiredRows
  <2>6. \A y : ExpiredRow(y).id = y.id /\ ExpiredRow(y).by = y.by
      BY Zenon DEF ExpiredRow, KeyRowOf
  <2>7. \A e \in KeyDevice : \A x \in pool'["classic"][e] : \E y \in pool["classic"][e] :
            x = y \/ (x.id = y.id /\ x.by = y.by /\ x = ExpiredRow(y))
      BY <2>4, <2>5, <2>6
  <2>8. \A e \in KeyDevice : \A j, x \in pool'["classic"][e] : j.id = x.id => j = x
      BY <2>4, <2>5, <2>6 DEF ClassicInv, ClassicOK
  <2> QED BY Zenon, <2>1, <2>7, <2>8, ClassicShrinks
<1> QED BY Zenon, <1>1, <1>2

\* An insert brings back a key that was handed out only when another call carried it.
LEMMA InsertClassicStep ==
    ASSUME KyberInv, ClassicInv, NEW c \in KeyCall, InsertClassic(c),
           UploadsRepeat', \A b \in KeyCall : \A id : ~Unsent(b, id) => ~Unsent(b, id)',
           \A b : Resent(b) => Resent(b)'
    PROVE  ClassicInv'
<1> USE DEF keyHistory
<1>a. PICK d, by : d = keyCall[c].req.dev /\ by = keyCall[c].by
    BY Zenon
<1>b. PICK id \in keyCall[c].ids : /\ pool' = [pool EXCEPT !["classic"][d] = InsertedRow(@, id, by)]
                                   /\ keyCall' = [keyCall EXCEPT ![c].ids = @ \ {id}]
    BY Zenon, <1>a DEF InsertClassic, InsertKey
<1>1. keyCall[c].at = "insert" /\ KeyBusy(c) /\ UNCHANGED <<given, twice>>
    BY Zenon DEF InsertClassic, InsertKey, KeyBusy
<1>2. OpenOK(keyCall[c])
    BY Zenon, <1>1, BusyOpen
<1>3. d \in KeyDevice /\ by \in KeyCall
    BY Zenon, <1>1, <1>2, <1>a DEF OpenOK, KeyRequestOK, UploadPlace
<1>4. /\ \A x \in KeyCall \ {c} : keyCall'[x] = keyCall[x]
      /\ keyCall'[c].at = "insert" /\ id \notin keyCall'[c].ids
  <2> DEFINE r == [keyCall[c] EXCEPT !.ids = keyCall[c].ids \ {id}]
  <2>1. r.at = "insert" /\ r.ids = keyCall[c].ids \ {id}
      BY Zenon, <1>1, <1>2 DEF OpenOK, CallFields
  <2>2. keyCall' = [keyCall EXCEPT ![c] = r]
      BY Zenon, <1>b
  <2> HIDE DEF r
  <2> QED BY Zenon, <2>1, <2>2 DEF KyberInv, CallsOK
<1>5. ~Unsent(by, id)'
  <2>1. CASE by = c
      BY Zenon, <1>4, <2>1 DEF Unsent, EarlyPlace
  <2>2. CASE by # c
    <3>1. keyCall'[by].at = "sent"
        BY Zenon, <1>1, <1>3, <1>4, <1>a, <2>2 DEF KyberInv, BatchesOK
    <3> QED BY Zenon, <3>1 DEF Unsent, EarlyPlace, UploadPlace
  <2> QED BY Zenon, <2>1, <2>2
<1>6. PICK T, new : /\ T = InsertedRow(pool["classic"][d], id, by)
                    /\ new = NewKeyRow(pool["classic"][d], id, by)
    BY Zenon
<1>7. \A e \in KeyDevice : pool'["classic"][e] = IF e = d THEN T ELSE pool["classic"][e]
  <2>1. "classic" \in KeyKind /\ pool' = [pool EXCEPT !["classic"][d] = T]
      BY Zenon, <1>3, <1>6, <1>b DEF KyberInv, TableOK, KeyKind
  <2> QED BY Zenon, <1>3, <2>1 DEF KyberInv, TableOK
<1>8. \/ T = pool["classic"][d]
      \/ T = pool["classic"][d] \cup {new} /\ \A k \in pool["classic"][d] : k.id # id
    BY Zenon, <1>6 DEF InsertedRow
<1>9. new.id = id /\ new.by = by
    BY Zenon, <1>6 DEF NewKeyRow, KeyRowOf
<1>10. ClassicOK'
  <2>1. ASSUME NEW e \in KeyDevice, NEW x \in pool'["classic"][e]
        PROVE  x.by \in KeyUploader /\ (x.by \in KeyCall => ~Unsent(x.by, x.id)')
    <3>1. x \in pool["classic"][e] \/ x = new
        BY Zenon, <1>7, <1>8
    <3>2. CASE x \in pool["classic"][e]
        BY Zenon, <3>2 DEF ClassicInv, ClassicOK
    <3>3. CASE x = new
        BY Zenon, <1>3, <1>5, <1>9, <3>3 DEF KeyUploader
    <3> QED BY Zenon, <3>1, <3>2, <3>3
  <2>2. \A e \in KeyDevice : \A j, x \in pool'["classic"][e] : j.id = x.id => j = x
      BY <1>7, <1>8, <1>9 DEF ClassicInv, ClassicOK
  <2>3. \A k \in given'["classic"] : k.dev \in KeyDevice /\ (k.by \in KeyCall => ~Unsent(k.by, k.id)')
      BY Zenon, <1>1 DEF ClassicInv, ClassicOK
  <2>4. ASSUME NEW k \in given'["classic"], NEW x \in pool'["classic"][k.dev], x.id = k.id, x.by = k.by
        PROVE  Resent(k.by)'
    <3>0. k \in given["classic"] /\ k.dev \in KeyDevice
        BY Zenon, <1>1, <2>3
    <3>1. CASE x \in pool["classic"][k.dev]
        BY Zenon, <2>4, <3>0, <3>1 DEF ClassicInv, ClassicOK
    <3>2. CASE x \notin pool["classic"][k.dev]
      <4>1. x = new
          BY Zenon, <1>7, <1>8, <2>4, <3>0, <3>2
      <4>2. k.id = id /\ k.by = by
          BY Zenon, <1>9, <2>4, <4>1
      <4>3. ~Unsent(by, id)
          BY Zenon, <1>3, <3>0, <4>2 DEF ClassicInv, ClassicOK
      <4>4. by # c
          BY Zenon, <1>1, <1>b, <4>3 DEF Unsent
      <4>5. Resent(by)
          BY Zenon, <1>1, <1>a, <4>4 DEF Resent
      <4> QED BY Zenon, <4>2, <4>5
    <3> QED BY Zenon, <3>1, <3>2
  <2> QED BY Zenon, <1>1, <2>1, <2>2, <2>3, <2>4 DEF ClassicOK, ClassicInv
<1>11. ClassicKeysGivenOnce'
  <2>1. ASSUME NEW k \in twice["classic"] PROVE Resent(k.by)'
      BY Zenon DEF ClassicInv, ClassicKeysGivenOnce, Resent
  <2> QED BY Zenon, <1>1, <2>1 DEF ClassicKeysGivenOnce, Resent
<1> QED BY Zenon, <1>10, <1>11 DEF ClassicInv

\* Every step keeps the classic keys sound.
LEMMA ClassicStep ==
    ASSUME KyberInv, ClassicInv, [KeysNext]_keyVars
    PROVE  ClassicInv'
<1> USE DEF keyHistory
<1>1. /\ UploadsRepeat' /\ \A b \in KeyCall : \A id : ~Unsent(b, id) => ~Unsent(b, id)'
      /\ \A b : Resent(b) => Resent(b)'
    BY Zenon, SentStays DEF ClassicInv
<1>2. DOMAIN twice = KeyKind /\ DOMAIN given = KeyKind /\ DOMAIN pool = KeyKind
    BY Zenon DEF ClassicInv, ClassicOK, KyberInv, GivenOK, TableOK
<1>3. ASSUME UNCHANGED <<pool, given, twice>> PROVE ClassicInv'
    BY Zenon, <1>1, <1>2, <1>3, ClassicFrame
<1>4. ASSUME NEW c \in KeyCall, ExpireKyber(c) \/ InsertKyber(c) \/ TakeKyber(c) PROVE ClassicInv'
  <2>1. /\ pool' = pool \/ \E d, t : pool' = [pool EXCEPT !["kyber"][d] = t]
        /\ given' = given \/ \E x : given' = [given EXCEPT !["kyber"] = x]
        /\ twice' = twice \/ \E x : twice' = [twice EXCEPT !["kyber"] = x]
    <3>1. CASE ExpireKyber(c)
        BY Zenon, <3>1 DEF ExpireKyber, ExpireKeys
    <3>2. CASE InsertKyber(c)
        BY Zenon, <3>2 DEF InsertKyber, InsertKey
    <3>3. CASE TakeKyber(c)
      <4>1. CASE UNCHANGED <<pool, given, twice>>
          BY Zenon, <4>1
      <4>2. ASSUME NEW row, NEW k, pool' = [pool EXCEPT !["kyber"][keyCall[c].dev] = TakenFrom("kyber", keyCall[c].dev, row)],
                   given' = [given EXCEPT !["kyber"] = @ \cup {k}],
                   twice' = [twice EXCEPT !["kyber"] = IF k \in given["kyber"] THEN @ \cup {k} ELSE @]
            PROVE  /\ \E d, t : pool' = [pool EXCEPT !["kyber"][d] = t]
                   /\ \E x : given' = [given EXCEPT !["kyber"] = x]
                   /\ \E x : twice' = [twice EXCEPT !["kyber"] = x]
          BY Zenon, <4>2
      <4> QED BY Zenon, <3>3, <4>1, <4>2 DEF TakeKyber, TakeKey
    <3> QED BY Zenon, <1>4, <3>1, <3>2, <3>3
  <2>2. pool'["classic"] = pool["classic"]
      BY Zenon, <1>2, <2>1 DEF KeyKind
  <2>3. given'["classic"] = given["classic"]
      BY Zenon, <1>2, <2>1 DEF KeyKind
  <2>4. DOMAIN twice' = KeyKind /\ twice'["classic"] = twice["classic"]
      BY Zenon, <1>2, <2>1 DEF KeyKind
  <2> QED BY Zenon, <1>1, <2>2, <2>3, <2>4, ClassicFrame
<1>5. ASSUME NEW c \in KeyCall, FetchStep(c) PROVE ClassicInv'
  <2>1. CASE TakeClassic(c)
      BY Zenon, <1>1, <2>1, TakeClassicStep
  <2>2. CASE TakeKyber(c)
      BY Zenon, <1>4, <2>2
  <2>3. CASE ~TakeClassic(c) /\ ~TakeKyber(c)
    <3>1. UNCHANGED <<pool, given, twice>>
        BY Zenon, <1>5, <2>3 DEF FetchStep, ResolveConsumption, CountBundle, ReadRows, EnsureLeaf,
               AppendLeaf, LoadTree, ProofsFail, FinishBundle, RecordConsumption
    <3> QED BY Zenon, <1>3, <3>1
  <2> QED BY Zenon, <2>1, <2>2, <2>3
<1>6. ASSUME NEW c \in KeyCall, UploadStep(c) \/ ReadHybrid(c) \/ RotateKeys(c) PROVE ClassicInv'
  <2>1. CASE ExpireClassic(c)
      BY Zenon, <1>1, <2>1, ExpireClassicStep
  <2>2. CASE InsertClassic(c)
      BY Zenon, <1>1, <2>2, InsertClassicStep
  <2>3. CASE ExpireKyber(c) \/ InsertKyber(c)
      BY Zenon, <1>4, <2>3
  <2>4. CASE ~(ExpireClassic(c) \/ InsertClassic(c) \/ ExpireKyber(c) \/ InsertKyber(c))
    <3>1. UNCHANGED <<pool, given, twice>>
        BY Zenon, <1>6, <2>4 DEF UploadStep, CountKeys, CountReplace, UploadSpk, ReadKeys, WriteHybrid,
               CheckKeys, NextInserts, ReadHybrid, RotateKeys
    <3> QED BY Zenon, <1>3, <3>1
  <2> QED BY Zenon, <2>1, <2>2, <2>3, <2>4
<1>7. ASSUME NEW c \in KeyCall, Step(c) PROVE ClassicInv'
  <2>1. DropKeyCall(c) => UNCHANGED <<pool, given, twice>>
      BY Zenon DEF DropKeyCall
  <2> QED BY Zenon, <1>3, <1>5, <1>6, <1>7, <2>1 DEF Step
<1>8. ASSUME \/ \E c \in KeyCall : \E b \in KeyBatches(c, keyCall[c].req) : BeginKeyCall(c, b)
             \/ \E d \in KeyDevice : RevokeDevice(d)
             \/ UNCHANGED keyVars
      PROVE  ClassicInv'
  <2>1. UNCHANGED <<pool, given, twice>>
      BY Zenon, <1>8 DEF BeginKeyCall, RevokeDevice, keyVars
  <2> QED BY Zenon, <1>3, <2>1
<1>9. CASE CleanupExpired
    BY Zenon, <1>1, <1>9, ExpireClassicStep
<1> QED BY Zenon, <1>7, <1>8, <1>9, NextKinds

\* Nothing was handed out before, and the rows of the table are those found in it.
LEMMA ClassicInit == KeysInit => ClassicInv
<1> SUFFICES ASSUME KeysInit PROVE ClassicInv
    BY Zenon
<1>1. \A c \in KeyCall : ~KeyBusy(c)
  <2>1. PICK p \in KeyPlan : keyCall = [c \in KeyCall |-> [at |-> "idle", req |-> p[c]]]
      BY Zenon DEF KeysInit
  <2> QED BY Zenon, <2>1 DEF KeyBusy
<1>2. twice = [kind \in KeyKind |-> {}] /\ given["classic"] = {} /\ twice["classic"] = {}
    BY Zenon DEF KeysInit, KeyKind
<1>3. \A d \in KeyDevice : pool["classic"][d] = {KeyRowOf(id, KeyBefore, id, FALSE) : id \in KeyIdsBefore}
    BY Zenon DEF KeysInit, KeyKind
<1>4. \A d \in KeyDevice : \A k \in pool["classic"][d] :
          k = KeyRowOf(k.id, KeyBefore, k.id, FALSE) /\ k.by = KeyBefore
    BY <1>3 DEF KeyRowOf
<1>5. \A d \in KeyDevice : \A j, k \in pool["classic"][d] : j.id = k.id => j = k
    BY Zenon, <1>4
<1>6. ClassicOK
    BY Zenon, <1>2, <1>4, <1>5, KeyAssumption DEF ClassicOK, KeyUploader
<1> QED BY Zenon, <1>1, <1>2, <1>6 DEF ClassicInv, UploadsRepeat, ClassicKeysGivenOnce

\* A classic one-time key is handed out a second time only if its client sent it a
\* second time (ClassicKeysGivenOnce): get_prekey_bundle deletes the row it returns and
\* the table has one row to a key_id.
THEOREM ClassicOnceUnlessResent == KeysSpec => []ClassicKeysGivenOnce
<1>1. KeysInit => KyberInv /\ ClassicInv
    BY Zenon, KyberInit, ClassicInit
<1>2. KyberInv /\ ClassicInv /\ [KeysNext]_keyVars => KyberInv' /\ ClassicInv'
    BY Zenon, KyberStep, ClassicStep
<1>3. ClassicInv => ClassicKeysGivenOnce
    BY Zenon DEF ClassicInv
<1> QED BY <1>1, <1>2, <1>3, PTL DEF KeysSpec

-----------------------------------------------------------------------------
(* The calls that write keys of a device.                                  *)

\* A call that is writing keys of device d.
Writing(c, d) == KeyBusy(c) /\ WritesKeys(keyCall[c].req) /\ keyCall[c].req.dev = d

\* While the writing calls of a device do not overlap there is one at a time.
OneWriter == \A d \in KeyDevice \ overlapped : \A c, x \in KeyCall : Writing(c, d) /\ Writing(x, d) => c = x

\* A turn makes no call a writer of a device.
LEMMA WritersStay ==
    ASSUME NEW c \in KeyCall, Turn(c)
    PROVE  \A x \in KeyCall : \A d : Writing(x, d)' => Writing(x, d)
<1>1. \A x \in KeyCall \ {c} : keyCall'[x] = keyCall[x]
    BY Zenon DEF Turn
<1>2. ASSUME NEW d, Writing(c, d)' PROVE Writing(c, d)
  <2>1. KeyBusy(c) /\ keyCall'[c].req = keyCall[c].req
      BY Zenon, <1>2, TurnPlaces DEF Turn, Writing, KeyBusy, Kept
  <2> QED BY Zenon, <1>2, <2>1 DEF Writing
<1> QED BY Zenon, <1>1, <1>2 DEF Writing, KeyBusy

\* So there is still one after it.
LEMMA WritersTurn ==
    ASSUME OneWriter, NEW c \in KeyCall, Turn(c), UNCHANGED overlapped
    PROVE  OneWriter'
<1>1. \A x \in KeyCall : \A d : Writing(x, d)' => Writing(x, d)
    BY Zenon, WritersStay
<1> QED BY Zenon, <1>1 DEF OneWriter

\* A call that begins while another writes is noted as overlapping.
LEMMA WritersBegin ==
    ASSUME KyberInv, OneWriter, NEW c \in KeyCall, NEW b, BeginKeyCall(c, b)
    PROVE  OneWriter'
<1>1. PICK r : r = OpenCall(c, b)
    BY Zenon
<1>2. keyCall'[c] = r /\ r.req = keyCall[c].req /\ \A x \in KeyCall \ {c} : keyCall'[x] = keyCall[x]
  <2>1. r.req = keyCall[c].req
      BY Zenon, <1>1 DEF OpenCall
  <2> QED BY Zenon, <1>1, <2>1 DEF BeginKeyCall, KyberInv, CallsOK
<1>3. \A x \in KeyCall \ {c} : \A d : Writing(x, d)' => Writing(x, d)
    BY Zenon, <1>2 DEF Writing, KeyBusy
<1>4. ASSUME NEW d \in KeyDevice \ overlapped', NEW x \in KeyCall \ {c}, Writing(x, d)' PROVE ~Writing(c, d)'
  <2>1. Writing(x, d)
      BY Zenon, <1>3, <1>4
  <2>2. ASSUME WritesKeys(keyCall[c].req), keyCall[c].req.dev = d PROVE FALSE
      BY Zenon, <1>4, <2>1, <2>2 DEF BeginKeyCall, Writing
  <2> QED BY Zenon, <1>2, <2>2 DEF Writing
<1>5. overlapped \subseteq overlapped'
    BY Zenon DEF BeginKeyCall
<1>6. ASSUME NEW d \in KeyDevice \ overlapped', NEW x \in KeyCall, NEW y \in KeyCall, Writing(x, d)', Writing(y, d)'
      PROVE  x = y
  <2>1. CASE x = c \/ y = c
      BY Zenon, <1>4, <1>6, <2>1
  <2>2. CASE x # c /\ y # c
    <3>1. Writing(x, d) /\ Writing(y, d)
        BY Zenon, <1>3, <1>6, <2>2
    <3> QED BY Zenon, <1>5, <3>1 DEF OneWriter
  <2> QED BY Zenon, <2>1, <2>2
<1> QED BY Zenon, <1>6 DEF OneWriter

\* The cleanup comes when no call is in progress, and begins none.
LEMMA NobodyWrites ==
    ASSUME KyberInv, CleanupExpired, NEW x \in KeyCall
    PROVE  /\ ~KeyBusy(x) /\ ~KeyBusy(x)'
           /\ keyCall'[x] = keyCall[x] \/ keyCall'[x].at = "gone"
<1>1. keyCall'[x] = IF keyCall[x].at = "sent" THEN [keyCall[x] EXCEPT !.at = "gone"] ELSE keyCall[x]
    BY Zenon DEF CleanupExpired
<1>2. CASE keyCall[x].at = "sent"
  <2>1. DOMAIN keyCall[x] = {"at", "dev", "ids", "kinds", "by", "replaced"}
      BY Zenon, <1>2 DEF KyberInv, CallsOK, CallOK, OpenOK, FetchPlace, UploadPlace, RotatePlace
  <2>2. keyCall'[x].at = "gone"
      BY Zenon, <1>1, <1>2, <2>1
  <2> QED BY Zenon, <1>2, <2>2 DEF KeyBusy
<1>3. CASE keyCall[x].at # "sent"
    BY Zenon, <1>1, <1>3 DEF CleanupExpired, KeyBusy
<1> QED BY Zenon, <1>2, <1>3

\* Every step keeps the writers apart, or notes the overlap.
LEMMA WritersStep ==
    ASSUME KyberInv, OneWriter, [KeysNext]_keyVars
    PROVE  OneWriter'
<1> USE DEF keyHistory
<1>1. ASSUME NEW c \in KeyCall, Step(c), Turn(c) PROVE OneWriter'
  <2>1. UNCHANGED overlapped
      BY Zenon, <1>1 DEF Step, DropKeyCall, FetchStep, ResolveConsumption, CountBundle, ReadRows, TakeClassic,
             TakeKyber, TakeKey, EnsureLeaf, AppendLeaf, LoadTree, ProofsFail, FinishBundle, RecordConsumption,
             UploadStep, CountKeys, CountReplace, UploadSpk, ReadKeys, WriteHybrid, CheckKeys, ExpireClassic,
             ExpireKyber, ExpireKeys, InsertClassic, InsertKyber, InsertKey, NextInserts, ReadHybrid, RotateKeys
  <2> QED BY Zenon, <1>1, <2>1, WritersTurn
<1>2. ASSUME NEW c \in KeyCall, NEW b \in KeyBatches(c, keyCall[c].req), BeginKeyCall(c, b) PROVE OneWriter'
    BY Zenon, <1>2, WritersBegin
<1>3. ASSUME UNCHANGED <<keyCall, overlapped>> PROVE OneWriter'
  <2>1. \A x, d : Writing(x, d)' <=> Writing(x, d)
      BY Zenon, <1>3 DEF Writing, KeyBusy
  <2> QED BY Zenon, <1>3, <2>1 DEF OneWriter
<1>4. ASSUME NEW d \in KeyDevice, RevokeDevice(d) PROVE OneWriter'
    BY Zenon, <1>3, <1>4 DEF RevokeDevice
<1>5. CASE CleanupExpired
    BY Zenon, <1>5, NobodyWrites DEF OneWriter, Writing
<1>6. CASE UNCHANGED keyVars
    BY Zenon, <1>3, <1>6 DEF keyVars
<1> QED BY Zenon, <1>1, <1>2, <1>4, <1>5, <1>6, NextKinds

\* No call writes before the first begins.
LEMMA WritersInit == KeysInit => OneWriter
<1> SUFFICES ASSUME KeysInit PROVE OneWriter
    BY Zenon
<1>1. \A c \in KeyCall : keyCall[c].at = "idle"
    BY SMT DEF KeysInit
<1> QED BY Zenon, <1>1 DEF OneWriter, Writing, KeyBusy

=============================================================================
