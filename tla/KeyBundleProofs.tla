--------------------------- MODULE KeyBundleProofs ---------------------------
(***************************************************************************)
(* What key-service says of a device is true together: the keys of its row *)
(* and the proofs of the transparency log; for any devices and requests.   *)
(***************************************************************************)
EXTENDS KeysProofs, WellFoundedInduction

-----------------------------------------------------------------------------
(* The inductive invariants.                                               *)

RowFields == {"active", "spk", "paired", "sig", "kspk", "ksig", "hk"}

\* While the writing calls of a device do not overlap there is one at a time, and what
\* it read of the row still stands.
WritersAlone ==
    /\ OneWriter
    /\ \A d \in KeyDevice \ overlapped : \A c \in KeyCall : Writing(c, d) =>
          /\ keyCall[c].at = "writeHybrid" =>
                keyCall[c].rows[d].spk = keyRow[d].spk /\ keyCall[c].rows[d].kspk = keyRow[d].kspk
          /\ keyCall[c].at = "rotate" /\ keyCall[c].req.hybrid = "signed" =>
                keyCall[c].hk = keyRow[d].hk

RowsOK == DOMAIN keyRow = KeyDevice /\ \A d \in KeyDevice : DOMAIN keyRow[d] = RowFields

\* An upload stores a signed key when it carries one.
SpkCarried == \A c \in KeyCall : KeyBusy(c) /\ keyCall[c].at = "spk" => keyCall[c].req.spk # "none"

RowsInv == RowsOK /\ SpkCarried /\ WritersAlone /\ BundleSelfConsistent /\ RotatedTogether

\* Places of a fetch with a leaf to show.
LeafPlace == {"hybridLeaf", "hybridAppend", "tree", "bundle"}

\* The positions of the two leaves in the log.
Named(log, leaf, identity, hybrid) ==
    /\ leaf \in Seq(Nat) /\ Len(leaf) <= 2
    /\ Len(leaf) >= 1 => leaf[1] < Len(log) /\ log[leaf[1] + 1] = identity
    /\ Len(leaf) = 2 => leaf[2] < Len(log) /\ log[leaf[2] + 1] = hybrid

\* The leaves a fetch has found or appended are in the log, and in the tree it loaded.
LeafOK(c) ==
    /\ keyCall[c].at \notin LeafPlace \cup {"record"} => keyCall[c].leaf = <<>>
    /\ keyCall[c].at \in LeafPlace =>
          Named(ktLog, keyCall[c].leaf, KtLeaf(c, "identity"), KtLeaf(c, "hybrid"))
    /\ keyCall[c].at \in {"hybridLeaf", "hybridAppend"} => Len(keyCall[c].leaf) = 1
    /\ keyCall[c].at = "bundle" =>
          \A i \in 1..Len(keyCall[c].leaf) : keyCall[c].leaf[i] < keyCall[c].size

LeavesFound == \A c \in KeyCall : KeyBusy(c) => LeafOK(c)

\* Since this leaf its device logged another key of the kind.
Superseded(leaf) ==
    \A i \in 1..Len(ktLog) : ktLog[i] = leaf =>
        \E k \in (i + 1)..Len(ktLog) : ktLog[k].dev = leaf.dev /\ ktLog[k].kind = leaf.kind /\ ktLog[k] # leaf

\* Who is about to append holds the lock, and its leaf is not the latest.
AppendsLocked ==
    \A c \in KeyCall : \A kind \in {"identity", "hybrid"} :
        keyCall[c].at = AppendAt(kind) => ktLock = c /\ Superseded(KtLeaf(c, kind))

IsLog == \E S : ktLog \in Seq(S)

LogInv == IsLog /\ LeavesFound /\ AppendsLocked /\ LeavesRecordChanges

-----------------------------------------------------------------------------
(* The rows of the devices.                                                *)

\* What holds of a row holds of another that differs from it only in being active.
SameKeys(row, old) ==
    /\ row.spk = old.spk /\ row.paired = old.paired /\ row.sig = old.sig
    /\ row.kspk = old.kspk /\ row.ksig = old.ksig /\ row.hk = old.hk

\* A turn that writes no row, or that of its own device: the other writers' reads stand.
LEMMA RowsTurn ==
    ASSUME KyberInv, RowsInv, NEW c \in KeyCall, Turn(c), UNCHANGED overlapped, RowsOK',
           \A d \in KeyDevice : SameKeys(keyRow'[d], keyRow[d]) \/ Writing(c, d),
           \A d \in KeyDevice \ overlapped : Writing(c, d)' =>
              /\ keyCall'[c].at = "writeHybrid" =>
                    keyCall'[c].rows[d].spk = keyRow'[d].spk /\ keyCall'[c].rows[d].kspk = keyRow'[d].kspk
              /\ keyCall'[c].at = "rotate" /\ keyCall'[c].req.hybrid = "signed" =>
                    keyCall'[c].hk = keyRow'[d].hk
    PROVE  WritersAlone'
<1>1. \A x \in KeyCall : \A d : Writing(x, d)' => Writing(x, d)
    BY Zenon, WritersStay
<1>2. \A x \in KeyCall \ {c} : keyCall'[x] = keyCall[x]
    BY Zenon DEF Turn
<1>3. OneWriter'
    BY Zenon, WritersTurn DEF RowsInv, WritersAlone
<1>4. ASSUME NEW d \in KeyDevice \ overlapped, NEW x \in KeyCall \ {c}, Writing(x, d)'
      PROVE  /\ keyCall'[x].at = "writeHybrid" =>
                    keyCall'[x].rows[d].spk = keyRow'[d].spk /\ keyCall'[x].rows[d].kspk = keyRow'[d].kspk
             /\ keyCall'[x].at = "rotate" /\ keyCall'[x].req.hybrid = "signed" =>
                    keyCall'[x].hk = keyRow'[d].hk
  <2>1. Writing(x, d)
      BY Zenon, <1>1, <1>4
  <2>2. SameKeys(keyRow'[d], keyRow[d])
      BY Zenon, <2>1 DEF RowsInv, WritersAlone, OneWriter
  <2>3. /\ keyCall[x].at = "writeHybrid" =>
              keyCall[x].rows[d].spk = keyRow[d].spk /\ keyCall[x].rows[d].kspk = keyRow[d].kspk
        /\ keyCall[x].at = "rotate" /\ keyCall[x].req.hybrid = "signed" => keyCall[x].hk = keyRow[d].hk
      BY Zenon, <2>1 DEF RowsInv, WritersAlone, OneWriter
  <2> QED BY Zenon, <1>2, <2>2, <2>3 DEF SameKeys
<1>5. \A d \in KeyDevice \ overlapped : \A x \in KeyCall : Writing(x, d)' =>
          /\ keyCall'[x].at = "writeHybrid" =>
                keyCall'[x].rows[d].spk = keyRow'[d].spk /\ keyCall'[x].rows[d].kspk = keyRow'[d].kspk
          /\ keyCall'[x].at = "rotate" /\ keyCall'[x].req.hybrid = "signed" =>
                keyCall'[x].hk = keyRow'[d].hk
    BY Zenon, <1>4
<1> QED BY Zenon, <1>3, <1>5 DEF WritersAlone

\* The keys of a row, and the signatures over them, belong to each other.
RowTrue(row, d) ==
    /\ row.paired => row.spk = row.kspk
    /\ d \notin overlapped => /\ row.sig \in {KeyNone, HybridSigned(row.hk, row.spk)}
                              /\ row.ksig \in {KeyNone, HybridSigned(row.hk, row.kspk)}

\* The rows of the other devices stay self-consistent.
LEMMA RowsKept ==
    ASSUME RowsInv, UNCHANGED overlapped,
           \A d \in KeyDevice : SameKeys(keyRow'[d], keyRow[d]) \/ RowTrue(keyRow'[d], d)
    PROVE  BundleSelfConsistent' /\ RotatedTogether'
<1>1. \A d \in KeyDevice : RowTrue(keyRow[d], d)
    BY Zenon DEF RowsInv, RotatedTogether, BundleSelfConsistent, RowTrue
<1>2. ASSUME NEW d \in KeyDevice, SameKeys(keyRow'[d], keyRow[d]) PROVE RowTrue(keyRow'[d], d)
    BY Zenon, <1>1, <1>2 DEF SameKeys, RowTrue
<1>3. \A d \in KeyDevice : RowTrue(keyRow'[d], d)
    BY Zenon, <1>2
<1> QED BY Zenon, <1>3 DEF BundleSelfConsistent, RotatedTogether, RowTrue

\* A turn that goes on reading or serving what it knows.
LEMMA RowsQuiet ==
    ASSUME KyberInv, RowsInv, NEW c \in KeyCall, Turn(c), UNCHANGED <<keyRow, overlapped>>,
           keyCall'[c].at \notin {"spk", "writeHybrid", "rotate"}
    PROVE  RowsInv'
<1>1. RowsOK' /\ \A d \in KeyDevice : SameKeys(keyRow'[d], keyRow[d])
    BY Zenon DEF RowsInv, RowsOK, SameKeys
<1>2. WritersAlone'
    BY Zenon, <1>1, RowsTurn
<1>3. BundleSelfConsistent' /\ RotatedTogether'
    BY Zenon, <1>1, RowsKept
<1>4. SpkCarried'
    BY Zenon DEF RowsInv, SpkCarried, Turn, KeyBusy
<1> QED BY Zenon, <1>1, <1>2, <1>3, <1>4 DEF RowsInv

\* A turn that writes the row of its device.
LEMMA RowsWritten ==
    ASSUME KyberInv, RowsInv, NEW c \in KeyCall, Turn(c), UNCHANGED overlapped,
           NEW d \in KeyDevice, Writing(c, d), NEW row, keyRow' = [keyRow EXCEPT ![d] = row],
           DOMAIN row = RowFields, RowTrue(row, d),
           keyCall'[c].at \notin {"spk", "writeHybrid", "rotate"}
    PROVE  RowsInv'
<1>1. keyRow'[d] = row /\ \A e \in KeyDevice \ {d} : keyRow'[e] = keyRow[e]
    BY Zenon DEF RowsInv, RowsOK
<1>2. RowsOK'
    BY Zenon, <1>1 DEF RowsInv, RowsOK
<1>3. \A e \in KeyDevice \ {d} : SameKeys(keyRow'[e], keyRow[e])
    BY Zenon, <1>1 DEF SameKeys
<1>4. WritersAlone'
    BY Zenon, <1>2, <1>3, RowsTurn
<1>5. BundleSelfConsistent' /\ RotatedTogether'
    BY Zenon, <1>1, <1>3, RowsKept
<1>6. SpkCarried'
    BY Zenon DEF RowsInv, SpkCarried, Turn, KeyBusy
<1> QED BY Zenon, <1>2, <1>4, <1>5, <1>6 DEF RowsInv

\* The steps that go on with what a device row says.
LEMMA RowReads ==
    ASSUME KyberInv, RowsInv, NEW c \in KeyCall, Turn(c),
           CountKeys(c) \/ CountReplace(c) \/ ReadKeys(c) \/ ReadHybrid(c)
    PROVE  RowsInv'
<1> USE DEF keyHistory
<1>1. UNCHANGED <<keyRow, overlapped>> /\ KeyBusy(c) /\ OpenOK(keyCall[c])
    BY Zenon DEF CountKeys, CountReplace, ReadKeys, ReadHybrid, Turn
<1>2. RowsOK' /\ \A d \in KeyDevice : SameKeys(keyRow'[d], keyRow[d])
    BY Zenon, <1>1 DEF RowsInv, RowsOK, SameKeys
<1>3. BundleSelfConsistent' /\ RotatedTogether'
    BY Zenon, <1>1, <1>2, RowsKept
<1>4. \A x \in KeyCall \ {c} : keyCall'[x] = keyCall[x]
    BY Zenon DEF Turn
<1>5. DOMAIN keyCall = KeyCall /\ DOMAIN keyCall[c] = CallFields
    BY Zenon, <1>1 DEF KyberInv, CallsOK, OpenOK
<1>6. CASE keyCall'[c].at \notin {"spk", "writeHybrid", "rotate"}
    BY Zenon, <1>1, <1>6, RowsQuiet
<1>7. CASE keyCall'[c].at = "spk"
  <2>1. Passage(keyCall[c].at, "spk") /\ keyCall'[c].req = keyCall[c].req
      BY Zenon, <1>7, TurnPlaces DEF Kept
  <2>2. keyCall[c].at \in {"counts", "replaceLimit"}
      BY Zenon, <2>1 DEF Passage
  <2>3. CountKeys(c) \/ CountReplace(c)
      BY Zenon, <2>2 DEF ReadKeys, ReadHybrid
  <2>4. \/ KeyEnd(c) \/ KeyGo(c, "replaceLimit") \/ KeyGo(c, AfterLimits(keyCall[c].req))
      BY Zenon, <2>3 DEF CountKeys, CountReplace
  <2>5. AfterLimits(keyCall[c].req) = "spk"
    <3>1. ~KeyEnd(c)
      <4>1. KeyOver(c, FALSE).at # "spk"
          BY Zenon DEF KeyOver, KeyCallDone
      <4> QED BY Zenon, <1>5, <1>7, <4>1 DEF KeyEnd
    <3>2. \A at : KeyGo(c, at) => at = "spk"
        BY Zenon, <1>5, <1>7 DEF KeyGo, CallFields
    <3> QED BY Zenon, <2>4, <3>1, <3>2
  <2>6. keyCall'[c].req.spk # "none"
      BY Zenon, <2>1, <2>5 DEF AfterLimits
  <2>7. SpkCarried'
      BY Zenon, <1>4, <2>6 DEF RowsInv, SpkCarried, KeyBusy
  <2>8. WritersAlone'
      BY Zenon, <1>1, <1>2, <1>7, RowsTurn
  <2> QED BY Zenon, <1>2, <1>3, <2>7, <2>8 DEF RowsInv
<1>8. CASE keyCall'[c].at = "writeHybrid"
  <2>1. Passage(keyCall[c].at, "writeHybrid") /\ keyCall'[c].req = keyCall[c].req
      BY Zenon, <1>8, TurnPlaces DEF Kept
  <2>2. keyCall[c].at = "readKeys"
      BY Zenon, <2>1 DEF Passage
  <2>3. ReadKeys(c)
      BY Zenon, <2>2 DEF CountKeys, CountReplace, ReadHybrid
  <2>4. PICK d : d = keyCall[c].req.dev
      BY Zenon
  <2>5. ~KeyEnd(c)
    <3>1. KeyOver(c, FALSE).at # "writeHybrid"
        BY Zenon DEF KeyOver, KeyCallDone
    <3> QED BY Zenon, <1>5, <1>8, <3>1 DEF KeyEnd
  <2>6. keyCall'[c].rows = [x \in {d} |-> keyRow[x]]
    <3>1. PICK rows : rows = [x \in {d} |-> keyRow[x]]
        BY Zenon
    <3>2. keyCall' = [keyCall EXCEPT ![c].at = "writeHybrid", ![c].rows = rows]
        BY Zenon, <2>3, <2>4, <2>5, <3>1 DEF ReadKeys
    <3>3. keyCall'[c].rows = rows
        BY Zenon, <1>5, <3>2 DEF CallFields
    <3> QED BY Zenon, <3>1, <3>3
  <2>7. keyCall'[c].rows[d] = keyRow[d]
      BY Zenon, <2>6
  <2>8. \A e \in KeyDevice : Writing(c, e)' => e = d
      BY Zenon, <2>1, <2>4 DEF Writing
  <2>9. WritersAlone'
      BY Zenon, <1>1, <1>2, <1>8, <2>7, <2>8, RowsTurn
  <2>10. SpkCarried'
      BY Zenon, <1>4, <1>8 DEF RowsInv, SpkCarried, KeyBusy
  <2> QED BY Zenon, <1>2, <1>3, <2>9, <2>10 DEF RowsInv
<1>9. CASE keyCall'[c].at = "rotate"
  <2>1. Passage(keyCall[c].at, "rotate") /\ keyCall'[c].req = keyCall[c].req /\ keyCall'[c].hk = keyCall[c].hk
      BY Zenon, <1>9, TurnPlaces DEF Kept
  <2>2. keyCall[c].at = "readHybrid"
      BY Zenon, <2>1 DEF Passage
  <2>3. ReadHybrid(c)
      BY Zenon, <2>2 DEF CountKeys, CountReplace, ReadKeys
  <2>4. ~KeyEnd(c)
    <3>1. KeyOver(c, FALSE).at # "rotate"
        BY Zenon DEF KeyOver, KeyCallDone
    <3> QED BY Zenon, <1>5, <1>9, <3>1 DEF KeyEnd
  <2>5. keyCall[c].req.hybrid = "signed" => keyRow[keyCall[c].req.dev].hk = keyCall[c].hk
      BY Zenon, <2>3, <2>4 DEF ReadHybrid
  <2>6. \A e \in KeyDevice : Writing(c, e)' => e = keyCall[c].req.dev
      BY Zenon, <2>1 DEF Writing
  <2>7. \A e \in KeyDevice \ overlapped : Writing(c, e)' /\ keyCall'[c].req.hybrid = "signed" =>
            keyCall'[c].hk = keyRow'[e].hk
      BY Zenon, <1>1, <2>1, <2>5, <2>6
  <2>8. WritersAlone'
      BY Zenon, <1>1, <1>2, <1>9, <2>7, RowsTurn
  <2>9. SpkCarried'
      BY Zenon, <1>4, <1>9 DEF RowsInv, SpkCarried, KeyBusy
  <2> QED BY Zenon, <1>2, <1>3, <2>8, <2>9 DEF RowsInv
<1> QED BY Zenon, <1>6, <1>7, <1>8, <1>9

\* The row after a rotation of signed keys.
LEMMA RotatedTrue ==
    ASSUME NEW row, DOMAIN row = RowFields, NEW c, NEW r, r.spk \in {"classic", "both"}, NEW d, NEW sig,
           RowTrue(row, d),
           d \notin overlapped => sig \in {KeyNone, HybridSigned(row.hk, c)}
    PROVE  LET new == RotatedRow(row, c, r, sig, sig) IN DOMAIN new = RowFields /\ RowTrue(new, d)
<1>1. CASE r.spk = "both"
  <2> DEFINE new == [row EXCEPT !.spk = c, !.paired = TRUE, !.sig = sig, !.kspk = c, !.ksig = sig]
  <2>1. /\ DOMAIN new = RowFields /\ new.spk = c /\ new.sig = sig /\ new.kspk = c
        /\ new.ksig = sig /\ new.hk = row.hk
      BY Zenon DEF RowFields
  <2>2. RotatedRow(row, c, r, sig, sig) = new
      BY Zenon, <1>1 DEF RotatedRow
  <2> HIDE DEF new
  <2>3. RowTrue(new, d)
      BY Zenon, <2>1 DEF RowTrue
  <2> QED BY Zenon, <2>1, <2>2, <2>3
<1>2. CASE r.spk = "classic"
  <2> DEFINE new == [row EXCEPT !.spk = c, !.paired = FALSE, !.sig = sig]
  <2>1. /\ DOMAIN new = RowFields /\ new.spk = c /\ new.paired = FALSE /\ new.sig = sig
        /\ new.kspk = row.kspk /\ new.ksig = row.ksig /\ new.hk = row.hk
      BY Zenon DEF RowFields
  <2>2. RotatedRow(row, c, r, sig, sig) = new
      BY Zenon, <1>2 DEF RotatedRow
  <2> HIDE DEF new
  <2>3. RowTrue(new, d)
      BY Zenon, <2>1 DEF RowTrue
  <2> QED BY Zenon, <2>1, <2>2, <2>3
<1> QED BY Zenon, <1>1, <1>2

\* The steps that write a device row.
LEMMA RowWrites ==
    ASSUME KyberInv, RowsInv, NEW c \in KeyCall, Turn(c), UploadSpk(c) \/ WriteHybrid(c) \/ RotateKeys(c)
    PROVE  RowsInv'
<1> USE DEF keyHistory
<1>1. UNCHANGED overlapped /\ KeyBusy(c) /\ OpenOK(keyCall[c]) /\ keyCall[c].at \in {"spk", "writeHybrid", "rotate"}
    BY Zenon DEF UploadSpk, WriteHybrid, RotateKeys, Turn
<1>2. PICK r, d : r = keyCall[c].req /\ d = r.dev
    BY Zenon
<1>3. d \in KeyDevice /\ Writing(c, d)
    BY Zenon, <1>1, <1>2 DEF OpenOK, KeyRequestOK, Writing, WritesKeys, UploadPlace, RotatePlace
<1>4. keyCall'[c].at \notin {"spk", "writeHybrid", "rotate"}
    BY Zenon, <1>1, TurnPlaces DEF Passage
<1>5. CASE UNCHANGED keyRow
    BY Zenon, <1>1, <1>4, <1>5, RowsQuiet
<1>6. RowTrue(keyRow[d], d) /\ DOMAIN keyRow[d] = RowFields /\ DOMAIN keyRow = KeyDevice
    BY Zenon, <1>3 DEF RowsInv, RowsOK, BundleSelfConsistent, RotatedTogether, RowTrue
<1>7. PICK sig : sig = IF keyCall[c].at = "rotate" /\ r.hybrid = "signed" THEN HybridSigned(keyCall[c].hk, c)
                       ELSE KeyNone
    BY Zenon
<1>8. d \notin overlapped => sig \in {KeyNone, HybridSigned(keyRow[d].hk, c)}
  <2>1. d \notin overlapped /\ keyCall[c].at = "rotate" /\ r.hybrid = "signed" => keyCall[c].hk = keyRow[d].hk
      BY Zenon, <1>2, <1>3 DEF RowsInv, WritersAlone, OneWriter
  <2> QED BY Zenon, <1>7, <2>1
<1>9. CASE UploadSpk(c) \/ RotateKeys(c)
  <2>1. r.spk \in {"classic", "both", "refused"}
    <3>1. CASE keyCall[c].at = "spk"
      <4>1. r.op = "upload" /\ r.spk # "none"
          BY Zenon, <1>1, <1>2, <3>1 DEF OpenOK, UploadPlace, RowsInv, SpkCarried
      <4> QED BY Zenon, <1>1, <1>2, <4>1 DEF OpenOK, KeyRequestOK
    <3>2. CASE keyCall[c].at = "rotate"
      <4>1. r.op = "rotate"
          BY Zenon, <1>1, <1>2, <3>2 DEF OpenOK, RotatePlace
      <4> QED BY Zenon, <1>1, <1>2, <4>1 DEF OpenOK, KeyRequestOK
    <3> QED BY Zenon, <1>9, <3>1, <3>2 DEF UploadSpk, RotateKeys
  <2>2. \/ UNCHANGED keyRow
        \/ r.spk # "refused" /\ keyRow' = [keyRow EXCEPT ![d] = RotatedRow(@, c, r, sig, sig)]
    <3>1. CASE UploadSpk(c)
      <4>1. sig = KeyNone
          BY Zenon, <1>7, <3>1 DEF UploadSpk
      <4> QED BY Zenon, <1>2, <3>1, <4>1 DEF UploadSpk, StoreSpk
    <3>2. CASE RotateKeys(c)
      <4>1. sig = IF r.hybrid = "signed" THEN HybridSigned(keyCall[c].hk, c) ELSE KeyNone
          BY Zenon, <1>7, <3>2 DEF RotateKeys
      <4> QED BY Zenon, <1>2, <3>2, <4>1 DEF RotateKeys, StoreSpk
    <3> QED BY Zenon, <1>9, <3>1, <3>2
  <2>3. ASSUME r.spk # "refused", keyRow' = [keyRow EXCEPT ![d] = RotatedRow(@, c, r, sig, sig)]
        PROVE  RowsInv'
    <3>1. PICK row, new : row = keyRow[d] /\ new = RotatedRow(row, c, r, sig, sig)
        BY Zenon
    <3>2. DOMAIN row = RowFields /\ RowTrue(row, d)
        BY Zenon, <1>6, <3>1
    <3>3. d \notin overlapped => sig \in {KeyNone, HybridSigned(row.hk, c)}
        BY Zenon, <1>8, <3>1
    <3>4. r.spk \in {"classic", "both"}
        BY Zenon, <2>1, <2>3
    <3>5. LET n == RotatedRow(row, c, r, sig, sig) IN DOMAIN n = RowFields /\ RowTrue(n, d)
        BY <3>2, <3>3, <3>4, RotatedTrue
    <3>6. DOMAIN new = RowFields /\ RowTrue(new, d)
        BY Zenon, <3>1, <3>5
    <3>7. keyRow' = [keyRow EXCEPT ![d] = new]
        BY Zenon, <2>3, <3>1
    <3> QED BY Zenon, <1>1, <1>3, <1>4, <3>6, <3>7, RowsWritten
  <2> QED BY Zenon, <1>5, <2>2, <2>3
<1>10. CASE WriteHybrid(c)
  <2>1. keyCall[c].at = "writeHybrid"
      BY Zenon, <1>10 DEF WriteHybrid
  <2>2. PICK own, kown : /\ own = VerifiedSig(c, keyCall[c].spk, keyCall[c].rows[d].spk)
                         /\ kown = VerifiedSig(c, keyCall[c].kspk, keyCall[c].rows[d].kspk)
      BY Zenon
  <2>3. UNCHANGED keyRow \/ keyRow' = [keyRow EXCEPT ![d] = HybridRow(c, @, own, kown)]
      BY Zenon, <1>2, <1>10, <2>2 DEF WriteHybrid
  <2>4. /\ own \in {KeyNone, HybridSigned(c, keyCall[c].rows[d].spk)}
        /\ kown \in {KeyNone, HybridSigned(c, keyCall[c].rows[d].kspk)}
      BY Zenon, <2>2 DEF VerifiedSig
  <2>5. d \notin overlapped => /\ keyCall[c].rows[d].spk = keyRow[d].spk
                               /\ keyCall[c].rows[d].kspk = keyRow[d].kspk
      BY Zenon, <1>3, <2>1 DEF RowsInv, WritersAlone, OneWriter
  <2> DEFINE new == [keyRow[d] EXCEPT !.hk = c, !.sig = own, !.ksig = kown]
  <2>6. /\ DOMAIN new = RowFields /\ new.spk = keyRow[d].spk /\ new.paired = keyRow[d].paired /\ new.sig = own
        /\ new.kspk = keyRow[d].kspk /\ new.ksig = kown /\ new.hk = c
      BY Zenon, <1>6 DEF RowFields
  <2>7. HybridRow(c, keyRow[d], own, kown) = new
      BY Zenon DEF HybridRow
  <2> HIDE DEF new
  <2>8. RowTrue(new, d)
    <3>1. new.paired => new.spk = new.kspk
        BY Zenon, <1>6, <2>6 DEF RowTrue
    <3>2. d \notin overlapped => /\ new.sig \in {KeyNone, HybridSigned(new.hk, new.spk)}
                                 /\ new.ksig \in {KeyNone, HybridSigned(new.hk, new.kspk)}
        BY Zenon, <2>4, <2>5, <2>6
    <3> QED BY Zenon, <3>1, <3>2 DEF RowTrue
  <2>9. keyRow' = [keyRow EXCEPT ![d] = HybridRow(c, @, own, kown)] => keyRow' = [keyRow EXCEPT ![d] = new]
      BY Zenon, <1>3, <1>6, <2>7
  <2> QED BY Zenon, <1>1, <1>3, <1>4, <1>5, <2>3, <2>6, <2>8, <2>9, RowsWritten
<1> QED BY Zenon, <1>9, <1>10

\* A call that begins writes its device alone, or the device is one of those where
\* calls overlapped.
LEMMA RowsBegin ==
    ASSUME KyberInv, RowsInv, NEW c \in KeyCall, NEW b, BeginKeyCall(c, b), KyberInv'
    PROVE  RowsInv'
<1>1. UNCHANGED keyRow /\ overlapped \subseteq overlapped' /\ keyCall[c].at = "idle"
    BY Zenon DEF BeginKeyCall
<1>2. PICK r : r = OpenCall(c, b)
    BY Zenon
<1>3. r.req = keyCall[c].req /\ r.at \notin {"spk", "writeHybrid", "rotate"}
  <2>1. r.req = keyCall[c].req
      BY Zenon, <1>2 DEF OpenCall
  <2>2. KeyRequestOK(keyCall[c].req)
      BY Zenon, <1>1 DEF KyberInv, CallsOK, CallOK, OpenOK, FetchPlace, UploadPlace, RotatePlace
  <2>3. keyCall[c].req.op \in {"fetch", "upload", "rotate"}
      BY Zenon, <2>2 DEF KeyRequestOK
  <2>4. r.at = (CASE keyCall[c].req.op = "fetch" -> "resolve" [] keyCall[c].req.op = "upload" -> "counts"
                  [] keyCall[c].req.op = "rotate" -> "readHybrid")
      BY Zenon, <1>2 DEF OpenCall
  <2>5. r.at \in {"resolve", "counts", "readHybrid"}
      BY Zenon, <2>3, <2>4
  <2> QED BY Zenon, <2>1, <2>5
<1>4. keyCall'[c] = r /\ \A x \in KeyCall \ {c} : keyCall'[x] = keyCall[x]
    BY Zenon, <1>2 DEF BeginKeyCall, KyberInv, CallsOK
<1>5. \A x \in KeyCall \ {c} : \A d : Writing(x, d)' => Writing(x, d)
    BY Zenon, <1>4 DEF Writing, KeyBusy
<1>7. OneWriter'
    BY Zenon, WritersBegin DEF RowsInv, WritersAlone
<1>8. \A d \in KeyDevice \ overlapped' : \A x \in KeyCall : Writing(x, d)' =>
          /\ keyCall'[x].at = "writeHybrid" =>
                keyCall'[x].rows[d].spk = keyRow'[d].spk /\ keyCall'[x].rows[d].kspk = keyRow'[d].kspk
          /\ keyCall'[x].at = "rotate" /\ keyCall'[x].req.hybrid = "signed" =>
                keyCall'[x].hk = keyRow'[d].hk
  <2>1. ASSUME NEW d \in KeyDevice \ overlapped', NEW x \in KeyCall \ {c}, Writing(x, d)'
        PROVE  /\ keyCall'[x].at = "writeHybrid" =>
                    keyCall'[x].rows[d].spk = keyRow'[d].spk /\ keyCall'[x].rows[d].kspk = keyRow'[d].kspk
               /\ keyCall'[x].at = "rotate" /\ keyCall'[x].req.hybrid = "signed" =>
                    keyCall'[x].hk = keyRow'[d].hk
    <3>1. Writing(x, d) /\ d \in KeyDevice \ overlapped
        BY Zenon, <1>1, <1>5, <2>1
    <3>2. /\ keyCall[x].at = "writeHybrid" =>
                keyCall[x].rows[d].spk = keyRow[d].spk /\ keyCall[x].rows[d].kspk = keyRow[d].kspk
          /\ keyCall[x].at = "rotate" /\ keyCall[x].req.hybrid = "signed" => keyCall[x].hk = keyRow[d].hk
        BY Zenon, <3>1 DEF RowsInv, WritersAlone, OneWriter
    <3>3. keyCall'[x] = keyCall[x] /\ keyRow' = keyRow
        BY Zenon, <1>1, <1>4
    <3> QED BY SMT, <3>2, <3>3
  <2>2. keyCall'[c].at # "writeHybrid" /\ keyCall'[c].at # "rotate"
      BY Zenon, <1>3, <1>4
  <2> QED BY Zenon, <2>1, <2>2
<1>9. WritersAlone'
    BY Zenon, <1>7, <1>8 DEF WritersAlone
<1>10. SpkCarried'
    BY Zenon, <1>3, <1>4 DEF RowsInv, SpkCarried, KeyBusy
<1>11. RowsOK' /\ BundleSelfConsistent' /\ RotatedTogether'
    BY Zenon, <1>1 DEF RowsInv, RowsOK, BundleSelfConsistent, RotatedTogether
<1> QED BY Zenon, <1>9, <1>10, <1>11 DEF RowsInv

\* Every step keeps the rows sound.
LEMMA RowsStep ==
    ASSUME KyberInv, RowsInv, [KeysNext]_keyVars
    PROVE  RowsInv'
<1> USE DEF keyHistory
<1>1. ASSUME NEW c \in KeyCall, Step(c), Turn(c) PROVE RowsInv'
  <2>1. CASE CountKeys(c) \/ CountReplace(c) \/ ReadKeys(c) \/ ReadHybrid(c)
      BY Zenon, <1>1, <2>1, RowReads
  <2>2. CASE UploadSpk(c) \/ WriteHybrid(c) \/ RotateKeys(c)
      BY Zenon, <1>1, <2>2, RowWrites
  <2>3. CASE DropKeyCall(c)
    <3>1. UNCHANGED <<keyRow, overlapped>>
        BY Zenon, <2>3 DEF DropKeyCall
    <3>2. keyCall'[c] = KeyOver(c, FALSE)
        BY Zenon, <2>3 DEF DropKeyCall, KeyEnd, KyberInv, CallsOK
    <3>3. KeyOver(c, FALSE).at \in {"sent", "done"}
        BY Zenon DEF KeyOver, KeyCallDone
    <3>4. keyCall'[c].at \notin {"spk", "writeHybrid", "rotate"}
        BY Zenon, <3>2, <3>3
    <3> QED BY Zenon, <1>1, <3>1, <3>4, RowsQuiet
  <2>4. CASE FetchStep(c) \/ CheckKeys(c) \/ ExpireClassic(c) \/ ExpireKyber(c) \/ InsertClassic(c)
               \/ InsertKyber(c) \/ NextInserts(c)
    <3>1. UNCHANGED <<keyRow, overlapped>>
        BY Zenon, <2>4 DEF FetchStep, ResolveConsumption, CountBundle, ReadRows, TakeClassic, TakeKyber,
               TakeKey, EnsureLeaf, AppendLeaf, LoadTree, ProofsFail, FinishBundle, RecordConsumption,
               CheckKeys, ExpireClassic, ExpireKyber, ExpireKeys, InsertClassic, InsertKyber, InsertKey,
               NextInserts
    <3>2. keyCall[c].at \in FetchPlace \cup {"exists", "expire", "expireKyber", "insert", "insertKyber"}
        BY Zenon, <2>4 DEF FetchStep, ResolveConsumption, CountBundle, ReadRows, TakeClassic, TakeKyber,
               TakeKey, EnsureLeaf, AppendLeaf, LeafAt, AppendAt, LoadTree, ProofsFail, FinishBundle,
               RecordConsumption, CheckKeys, ExpireClassic, ExpireKyber, ExpireKeys, InsertClassic,
               InsertKyber, InsertKey, NextInserts, FetchPlace
    <3>3. keyCall'[c].at \notin {"spk", "writeHybrid", "rotate"}
        BY Zenon, <1>1, <3>2, TurnPlaces DEF Passage, FetchPlace
    <3> QED BY Zenon, <1>1, <3>1, <3>3, RowsQuiet
  <2> QED BY Zenon, <1>1, <2>1, <2>2, <2>3, <2>4 DEF Step, UploadStep
<1>2. ASSUME NEW c \in KeyCall, NEW b \in KeyBatches(c, keyCall[c].req), BeginKeyCall(c, b) PROVE RowsInv'
    BY Zenon, <1>2, NextKinds, RowsBegin
<1>3. ASSUME NEW d \in KeyDevice, RevokeDevice(d) PROVE RowsInv'
  <2>1. UNCHANGED <<keyCall, overlapped>> /\ keyRow' = [keyRow EXCEPT ![d].active = FALSE]
      BY Zenon, <1>3 DEF RevokeDevice
  <2>2. DOMAIN keyRow = KeyDevice /\ DOMAIN keyRow[d] = RowFields
      BY Zenon DEF RowsInv, RowsOK
  <2>3. DOMAIN keyRow'[d] = RowFields /\ SameKeys(keyRow'[d], keyRow[d])
    <3> DEFINE new == [keyRow[d] EXCEPT !.active = FALSE]
    <3>1. DOMAIN new = RowFields /\ SameKeys(new, keyRow[d])
        BY Zenon, <2>2 DEF SameKeys, RowFields
    <3>2. keyRow'[d] = new
        BY Zenon, <2>1, <2>2
    <3> QED BY Zenon, <3>1, <3>2
  <2>4. \A e \in KeyDevice \ {d} : keyRow'[e] = keyRow[e]
      BY Zenon, <2>1, <2>2
  <2>5. RowsOK'
      BY Zenon, <2>1, <2>2, <2>3, <2>4 DEF RowsInv, RowsOK
  <2>6. \A e \in KeyDevice : SameKeys(keyRow'[e], keyRow[e])
      BY Zenon, <2>3, <2>4 DEF SameKeys
  <2>7. BundleSelfConsistent' /\ RotatedTogether'
      BY Zenon, <2>1, <2>6, RowsKept
  <2>8. WritersAlone'
    <3>1. \A x, e : Writing(x, e)' <=> Writing(x, e)
        BY Zenon, <2>1 DEF Writing, KeyBusy
    <3>2. overlapped' = overlapped /\ keyCall' = keyCall
        BY Zenon, <2>1
    <3>3. \A e \in KeyDevice : /\ keyRow'[e].spk = keyRow[e].spk /\ keyRow'[e].kspk = keyRow[e].kspk
                               /\ keyRow'[e].hk = keyRow[e].hk
        BY Zenon, <2>6 DEF SameKeys
    <3>4. \A e \in KeyDevice \ overlapped' : \A x, y \in KeyCall : Writing(x, e)' /\ Writing(y, e)' => x = y
        BY Zenon, <3>1, <3>2 DEF RowsInv, WritersAlone, OneWriter
    <3>5. ASSUME NEW e \in KeyDevice \ overlapped, NEW x \in KeyCall, Writing(x, e)
          PROVE  /\ keyCall[x].at = "writeHybrid" =>
                      keyCall[x].rows[e].spk = keyRow'[e].spk /\ keyCall[x].rows[e].kspk = keyRow'[e].kspk
                 /\ keyCall[x].at = "rotate" /\ keyCall[x].req.hybrid = "signed" =>
                      keyCall[x].hk = keyRow'[e].hk
        BY Zenon, <3>3, <3>5 DEF RowsInv, WritersAlone, OneWriter
    <3> QED BY Zenon, <3>1, <3>2, <3>4, <3>5 DEF WritersAlone, OneWriter
  <2>9. SpkCarried'
      BY Zenon, <2>1 DEF RowsInv, SpkCarried, KeyBusy
  <2> QED BY Zenon, <2>5, <2>7, <2>8, <2>9 DEF RowsInv
<1>4. CASE CleanupExpired
  <2>1. UNCHANGED <<keyRow, overlapped>>
      BY Zenon, <1>4 DEF CleanupExpired
  <2>2. \A c \in KeyCall : ~KeyBusy(c)'
      BY Zenon, <1>4, NobodyWrites
  <2>3. WritersAlone' /\ SpkCarried'
      BY Zenon, <2>2 DEF WritersAlone, Writing, SpkCarried, OneWriter
  <2> QED BY Zenon, <2>1, <2>3 DEF RowsInv, RowsOK, BundleSelfConsistent, RotatedTogether
<1>5. CASE UNCHANGED keyVars
  <2>1. UNCHANGED <<keyRow, overlapped, keyCall>>
      BY Zenon, <1>5 DEF keyVars
  <2>2. RowsOK' /\ BundleSelfConsistent' /\ RotatedTogether' /\ SpkCarried'
      BY Zenon, <2>1 DEF RowsInv, RowsOK, BundleSelfConsistent, RotatedTogether, SpkCarried, KeyBusy
  <2>3. \A x, e : Writing(x, e)' <=> Writing(x, e)
      BY Zenon, <2>1 DEF Writing, KeyBusy
  <2>4. WritersAlone'
      BY Zenon, <2>1, <2>3 DEF RowsInv, WritersAlone, OneWriter
  <2> QED BY Zenon, <2>2, <2>4 DEF RowsInv
<1> QED BY Zenon, <1>1, <1>2, <1>3, <1>4, <1>5, NextKinds

-----------------------------------------------------------------------------
(* The key transparency log.                                               *)

\* The elements of a sequence.
LEMMA Elements ==
    ASSUME NEW S, NEW seq \in Seq(S)
    PROVE  Len(seq) \in Nat /\ \A j \in 1..Len(seq) : seq[j] \in S
BY SMT

\* Positions named in a log are named in a longer one.
LEMMA NamedStays ==
    ASSUME NEW S, NEW log \in Seq(S), NEW T, NEW long \in Seq(T), Len(log) <= Len(long),
           \A i \in 1..Len(log) : long[i] = log[i],
           NEW leaf, NEW identity, NEW hybrid, Named(log, leaf, identity, hybrid)
    PROVE  Named(long, leaf, identity, hybrid)
<1>1. leaf \in Seq(Nat) /\ Len(leaf) <= 2
    BY Zenon DEF Named
<1>2. PICK n, m : n = Len(log) /\ m = Len(long)
    BY Zenon
<1>3. n \in Nat /\ m \in Nat /\ n <= m
    BY SMT, <1>2
<1>4. ASSUME NEW p \in Nat, p < Len(log) PROVE p < Len(long) /\ long[p + 1] = log[p + 1]
  <2>1. p < n
      BY Zenon, <1>2, <1>4
  <2>2. p < m /\ p + 1 \in 1..n
      BY SMT, <1>3, <2>1
  <2> QED BY Zenon, <1>2, <2>2
<1>5. PICK l : l = Len(leaf)
    BY Zenon
<1>6. (Len(leaf) >= 1 => leaf[1] \in Nat) /\ (Len(leaf) = 2 => leaf[2] \in Nat)
  <2>1. l \in Nat /\ \A j \in 1..l : leaf[j] \in Nat
      BY Zenon, <1>1, <1>5, Elements
  <2>2. (l >= 1 => 1 \in 1..l) /\ (l = 2 => 2 \in 1..l)
      BY SMT, <2>1
  <2> QED BY Zenon, <1>5, <2>1, <2>2
<1>7. Len(leaf) >= 1 => leaf[1] < Len(long) /\ long[leaf[1] + 1] = identity
    BY Zenon, <1>4, <1>6 DEF Named
<1>8. Len(leaf) = 2 => leaf[2] < Len(long) /\ long[leaf[2] + 1] = hybrid
    BY Zenon, <1>4, <1>6 DEF Named
<1> QED BY Zenon, <1>1, <1>7, <1>8 DEF Named

\* The first leaf is named.
LEMMA NamedFirst ==
    ASSUME NEW log, NEW i \in Nat, i < Len(log), NEW identity, NEW hybrid, log[i + 1] = identity
    PROVE  Named(log, Append(<<>>, i), identity, hybrid) /\ Len(Append(<<>>, i)) = 1
BY SMT DEF Named

\* What Append adds.
LEMMA OneMore ==
    ASSUME NEW S, NEW seq \in Seq(S), NEW e \in S
    PROVE  /\ Append(seq, e) \in Seq(S) /\ Len(Append(seq, e)) = Len(seq) + 1
           /\ Append(seq, e)[Len(seq) + 1] = e
           /\ \A j \in 1..Len(seq) : Append(seq, e)[j] = seq[j]
BY SMT

\* A second position.
LEMMA SecondPosition ==
    ASSUME NEW S, NEW leaf \in Seq(S), NEW i \in S
    PROVE  Len(leaf) = 1 =>
              /\ Append(leaf, i) \in Seq(S) /\ Len(Append(leaf, i)) = 2
              /\ Append(leaf, i)[1] = leaf[1] /\ Append(leaf, i)[2] = i
<1>1. /\ Append(leaf, i) \in Seq(S) /\ Len(Append(leaf, i)) = Len(leaf) + 1
      /\ Append(leaf, i)[Len(leaf) + 1] = i
      /\ \A j \in 1..Len(leaf) : Append(leaf, i)[j] = leaf[j]
    BY SMT
<1>2. PICK new, l : new = Append(leaf, i) /\ l = Len(leaf)
    BY Zenon
<1>3. new \in Seq(S) /\ Len(new) = l + 1 /\ new[l + 1] = i /\ \A j \in 1..l : new[j] = leaf[j]
    BY Zenon, <1>1, <1>2
<1>4. l = 1 => l + 1 = 2 /\ 1 \in 1..l
    BY SMT
<1>5. l = 1 => new \in Seq(S) /\ Len(new) = 2 /\ new[1] = leaf[1] /\ new[2] = i
    BY Zenon, <1>3, <1>4
<1> QED BY Zenon, <1>2, <1>5

\* Then the second.
LEMMA NamedSecond ==
    ASSUME NEW log, NEW leaf, NEW i \in Nat, i < Len(log), NEW identity, NEW hybrid, log[i + 1] = hybrid,
           Named(log, leaf, identity, hybrid), Len(leaf) = 1
    PROVE  Named(log, Append(leaf, i), identity, hybrid)
<1>1. leaf \in Seq(Nat)
    BY Zenon DEF Named
<1>2. leaf[1] < Len(log) /\ log[leaf[1] + 1] = identity
    BY SMT DEF Named
<1>3. PICK long : long = Append(leaf, i)
    BY Zenon
<1>4. long \in Seq(Nat) /\ Len(long) = 2 /\ long[1] = leaf[1] /\ long[2] = i
    BY <1>1, <1>3, SecondPosition
<1>5. Named(log, long, identity, hybrid)
    BY SMT, <1>2, <1>4 DEF Named
<1> QED BY Zenon, <1>3, <1>5

\* A turn that keeps the log or adds to it leaves the leaves of the others in their place.
LEMMA LeavesTurn ==
    ASSUME KyberInv, LogInv, NEW c \in KeyCall, Turn(c), IsLog', Len(ktLog) <= Len(ktLog'),
           \A i \in 1..Len(ktLog) : ktLog'[i] = ktLog[i], KeyBusy(c)' => LeafOK(c)'
    PROVE  LeavesFound'
<1>1. SUFFICES ASSUME NEW x \in KeyCall \ {c}, KeyBusy(x)' PROVE LeafOK(x)'
    BY Zenon DEF LeavesFound
<1>2. keyCall'[x] = keyCall[x]
    BY Zenon DEF Turn
<1>3. KtLeaf(x, "identity")' = KtLeaf(x, "identity") /\ KtLeaf(x, "hybrid")' = KtLeaf(x, "hybrid")
    BY Zenon, <1>2 DEF KtLeaf
<1>4. KeyBusy(x) /\ LeafOK(x)
    BY Zenon, <1>1, <1>2 DEF KeyBusy, LogInv, LeavesFound
<1>5. PICK S, T : ktLog \in Seq(S) /\ ktLog' \in Seq(T)
    BY Zenon DEF LogInv, IsLog
<1>6. keyCall[x].at \in LeafPlace =>
          Named(ktLog', keyCall[x].leaf, KtLeaf(x, "identity"), KtLeaf(x, "hybrid"))
    BY Zenon, <1>4, <1>5, NamedStays DEF LeafOK
<1> QED BY Zenon, <1>2, <1>3, <1>4, <1>6 DEF LeafOK

\* A turn of a call that is not about to append, and takes the lock from no other.
LEMMA LocksTurn ==
    ASSUME KyberInv, LogInv, NEW c \in KeyCall, Turn(c), UNCHANGED ktLog,
           keyCall'[c].at \notin {"identityAppend", "hybridAppend"},
           \A x \in KeyCall \ {c} : ktLock = x => ktLock' = x
    PROVE  AppendsLocked'
<1>1. SUFFICES ASSUME NEW x \in KeyCall \ {c}, NEW kind \in {"identity", "hybrid"},
                      keyCall'[x].at = AppendAt(kind)
               PROVE  ktLock' = x /\ Superseded(KtLeaf(x, kind))'
    BY Zenon DEF AppendsLocked, AppendAt
<1>2. keyCall'[x] = keyCall[x]
    BY Zenon DEF Turn
<1>3. KtLeaf(x, kind)' = KtLeaf(x, kind)
    BY Zenon, <1>2 DEF KtLeaf
<1>4. ktLock = x /\ Superseded(KtLeaf(x, kind))
    BY Zenon, <1>1, <1>2 DEF LogInv, AppendsLocked
<1>5. PICK leaf : leaf = KtLeaf(x, kind)
    BY Zenon
<1>6. Superseded(leaf)'
  <2>1. Superseded(leaf) /\ ktLog' = ktLog
      BY Zenon, <1>4, <1>5
  <2> QED BY SMT, <2>1 DEF Superseded
<1>7. ktLock' = x
    BY Zenon, <1>4
<1>8. Superseded(KtLeaf(x, kind))'
  <2>1. KtLeaf(x, kind)' = leaf
      BY Zenon, <1>3, <1>5
  <2> QED BY SMT, <1>6, <2>1 DEF Superseded
<1> QED BY Zenon, <1>7, <1>8

\* A turn that leaves the log alone.
LEMMA LogQuiet ==
    ASSUME KyberInv, LogInv, NEW c \in KeyCall, Turn(c), UNCHANGED ktLog,
           keyCall'[c].at \notin {"identityAppend", "hybridAppend"},
           \A x \in KeyCall \ {c} : ktLock = x => ktLock' = x,
           KeyBusy(c)' => LeafOK(c)'
    PROVE  LogInv'
<1>1. IsLog' /\ LeavesRecordChanges'
  <2>1. IsLog'
      BY Zenon DEF LogInv, IsLog
  <2>2. LeavesRecordChanges'
      BY SMT DEF LogInv, LeavesRecordChanges
  <2> QED BY Zenon, <2>1, <2>2
<1>2. \A i \in 1..Len(ktLog) : ktLog'[i] = ktLog[i]
    BY Zenon
<1>3. Len(ktLog) <= Len(ktLog')
    BY SMT DEF LogInv, IsLog
<1>4. LeavesFound'
    BY Zenon, <1>1, <1>2, <1>3, LeavesTurn
<1>5. AppendsLocked'
    BY Zenon, LocksTurn
<1> QED BY Zenon, <1>1, <1>4, <1>5 DEF LogInv

\* The latest leaf of a device and kind, when it is not this one.
LEMMA LatestSuperseded ==
    ASSUME IsLog, NEW d, NEW kind, NEW leaf, leaf.dev = d, leaf.kind = kind
    PROVE  LET i == LatestLeaf(d, kind) IN
           /\ i >= 0 => i \in Nat /\ i < Len(ktLog)
           /\ ~(i >= 0 /\ ktLog[i + 1] = leaf) => Superseded(leaf)
<1> DEFINE S == {i \in DOMAIN ktLog : ktLog[i].dev = d /\ ktLog[i].kind = kind}
           Latest(i) == \A j \in S : j <= i
<1>1. DOMAIN ktLog = 1..Len(ktLog) /\ Len(ktLog) \in Nat
    BY SMT DEF IsLog
<1>2. CASE S = {}
  <2>1. LatestLeaf(d, kind) = -1
      BY Zenon, <1>2 DEF LatestLeaf
  <2>2. \A i \in 1..Len(ktLog) : ktLog[i] # leaf
      BY Zenon, <1>1, <1>2
  <2>3. Superseded(leaf)
      BY Zenon, <2>2 DEF Superseded
  <2> QED BY SMT, <2>1, <2>3
<1>3. CASE S # {}
  <2> DEFINE m == CHOOSE i \in S : Latest(i)
             U == {n \in Nat : \A j \in S : j <= n}
             R == OpToRel(<, Nat)
  <2>1. \E i \in S : Latest(i)
    <3>1. S \subseteq Nat /\ \A j \in S : j <= Len(ktLog)
        BY SMT, <1>1
    <3>2. U # {} /\ U \subseteq Nat
        BY Zenon, <1>1, <3>1
    <3>3. PICK x \in U : \A y \in U : ~(<<y, x>> \in R)
      <4> HIDE DEF U, R
      <4>1. IsWellFoundedOn(R, Nat)
          BY Zenon, NatLessThanWellFounded DEF R
      <4> QED BY Zenon, <3>2, <4>1, WFMin
    <3>4. x \in Nat /\ (\A j \in S : j <= x) /\ \A y \in U : ~(y < x)
        BY Zenon, <3>2, <3>3 DEF OpToRel
    <3>5. x \in S
      <4> SUFFICES ASSUME x \notin S PROVE FALSE
          BY Zenon
      <4> HIDE DEF S, U
      <4>1. PICK j \in S : TRUE
          BY Zenon, <1>3
      <4>2. x - 1 \in Nat /\ \A k \in S : k <= x - 1
          BY SMT, <3>1, <3>4, <4>1
      <4>3. x - 1 \in U /\ x - 1 < x
          BY SMT, <3>4, <4>2 DEF U
      <4> QED BY Zenon, <3>4, <4>3
    <3> QED BY Zenon, <3>4, <3>5
  <2>2. m \in S /\ Latest(m)
      BY Zenon, <2>1
  <2>3. LatestLeaf(d, kind) = m - 1
      BY Zenon, <1>3 DEF LatestLeaf
  <2>4. m \in 1..Len(ktLog) /\ ktLog[m].dev = d /\ ktLog[m].kind = kind
      BY Zenon, <1>1, <2>2
  <2>5. \A i \in 1..Len(ktLog) : ktLog[i] = leaf => i <= m
      BY Zenon, <1>1, <2>2
  <2> HIDE DEF m
  <2>6. m - 1 >= 0 /\ m - 1 \in Nat /\ m - 1 < Len(ktLog) /\ (m - 1) + 1 = m
      BY SMT, <1>1, <2>4
  <2>7. ASSUME ktLog[m] # leaf PROVE Superseded(leaf)
    <3>1. SUFFICES ASSUME NEW i \in 1..Len(ktLog), ktLog[i] = leaf PROVE m \in (i + 1)..Len(ktLog)
        BY Zenon, <2>4, <2>7 DEF Superseded
    <3>2. i # m /\ i <= m
        BY Zenon, <2>5, <2>7, <3>1
    <3> QED BY SMT, <1>1, <2>4, <3>2
  <2> QED BY Zenon, <2>3, <2>6, <2>7
<1> QED BY Zenon, <1>2, <1>3

\* A leaf that is not the latest of its device and kind records a change.
LEMMA AppendRecords ==
    ASSUME IsLog, LeavesRecordChanges, NEW leaf, Superseded(leaf), ktLog' = Append(ktLog, leaf)
    PROVE  /\ IsLog' /\ LeavesRecordChanges'
           /\ Len(ktLog') = Len(ktLog) + 1 /\ Len(ktLog) \in Nat
           /\ \A i \in 1..Len(ktLog) : ktLog'[i] = ktLog[i]
           /\ ktLog'[Len(ktLog) + 1] = leaf
<1>1. PICK S : ktLog \in Seq(S)
    BY Zenon DEF IsLog
<1>2. ktLog' \in Seq(S \cup {leaf})
    BY SMT, <1>1
<1>3. IsLog'
    BY Zenon, <1>2 DEF IsLog
<1>4. /\ Len(ktLog') = Len(ktLog) + 1 /\ Len(ktLog) \in Nat
      /\ \A i \in 1..Len(ktLog) : ktLog'[i] = ktLog[i]
      /\ ktLog'[Len(ktLog) + 1] = leaf
      /\ DOMAIN ktLog = 1..Len(ktLog) /\ DOMAIN ktLog' = 1..Len(ktLog')
    BY SMT, <1>1, <1>2
<1>5. ASSUME NEW i \in DOMAIN ktLog', NEW j \in DOMAIN ktLog', i < j, ktLog'[i] = ktLog'[j]
      PROVE  \E k \in (i + 1)..(j - 1) : /\ ktLog'[k].dev = ktLog'[i].dev
                                         /\ ktLog'[k].kind = ktLog'[i].kind /\ ktLog'[k] # ktLog'[i]
  <2>1. i \in 1..Len(ktLog) /\ ktLog'[i] = ktLog[i] /\ i \in DOMAIN ktLog
      BY SMT, <1>4, <1>5
  <2>2. \A k \in (i + 1)..Len(ktLog) : ktLog'[k] = ktLog[k]
      BY SMT, <1>4, <2>1
  <2>3. CASE j \in DOMAIN ktLog
    <3>1. ktLog[i] = ktLog[j]
      <4>1. j \in 1..Len(ktLog)
          BY Zenon, <1>4, <2>3
      <4>2. ktLog'[j] = ktLog[j]
          BY Zenon, <1>4, <4>1
      <4> QED BY Zenon, <1>5, <2>1, <4>2
    <3>2. PICK k \in (i + 1)..(j - 1) : /\ ktLog[k].dev = ktLog[i].dev
                                        /\ ktLog[k].kind = ktLog[i].kind /\ ktLog[k] # ktLog[i]
        BY Zenon, <1>5, <2>1, <2>3, <3>1 DEF LeavesRecordChanges
    <3>3. k \in (i + 1)..Len(ktLog)
        BY SMT, <1>4, <2>1, <2>3, <3>2
    <3> QED BY Zenon, <2>1, <2>2, <3>2, <3>3
  <2>4. CASE j \notin DOMAIN ktLog
    <3>1. j = Len(ktLog) + 1 /\ j - 1 = Len(ktLog)
        BY SMT, <1>4, <1>5, <2>4
    <3>2. ktLog[i] = leaf
        BY Zenon, <1>4, <1>5, <2>1, <3>1
    <3>3. PICK k \in (i + 1)..Len(ktLog) : ktLog[k].dev = leaf.dev /\ ktLog[k].kind = leaf.kind /\ ktLog[k] # leaf
        BY Zenon, <2>1, <3>2 DEF Superseded
    <3> QED BY Zenon, <2>1, <2>2, <3>1, <3>2, <3>3
  <2> QED BY Zenon, <2>3, <2>4
<1>6. LeavesRecordChanges'
    BY SMT, <1>5 DEF LeavesRecordChanges
<1> QED BY Zenon, <1>3, <1>4, <1>6

\* A call before its leaves, or done with them, as it goes on.
LEMMA LeavesAhead ==
    ASSUME KyberInv, LogInv, NEW c \in KeyCall, Turn(c), UNCHANGED ktLog, KeyBusy(c)',
           keyCall[c].at \notin LeafPlace \cup {"identityLeaf", "identityAppend"}
    PROVE  LeafOK(c)'
<1>1. OpenOK(keyCall'[c]) /\ Kept(keyCall[c], keyCall'[c]) /\ Passage(keyCall[c].at, keyCall'[c].at)
    BY Zenon, TurnPlaces DEF KeyBusy
<1>2. keyCall[c].at # "record"
    BY Zenon, <1>1 DEF Passage
<1>3. keyCall[c].leaf = <<>>
    BY Zenon, <1>2 DEF LogInv, LeavesFound, LeafOK, Turn
<1>4. keyCall'[c].leaf = <<>>
    BY Zenon, <1>1, <1>3 DEF Kept, LeafPlace
<1>5. keyCall'[c].at \notin LeafPlace
    BY Zenon, <1>1 DEF Passage, LeafPlace
<1> QED BY Zenon, <1>4, <1>5 DEF LeafOK, LeafPlace

\* What a fetch serves while it works on the leaves of one device.
LEMMA SameLeaf ==
    ASSUME NEW c \in KeyCall, Turn(c), KeyBusy(c)', NEW kind, keyCall[c].at \notin {"rows", "readKeys", "bundle"}
    PROVE  KtLeaf(c, kind)' = KtLeaf(c, kind)
<1>1. Kept(keyCall[c], keyCall'[c])
    BY Zenon, TurnPlaces DEF KeyBusy
<1>2. keyCall'[c].dev = keyCall[c].dev /\ keyCall'[c].rows = keyCall[c].rows
    BY Zenon, <1>1 DEF Kept
<1> QED BY Zenon, <1>2 DEF KtLeaf

\* A leaf of the call is added to those it shows.
LEMMA LeafShown ==
    ASSUME KyberInv, LogInv, NEW c \in KeyCall, Turn(c), KeyBusy(c)', NEW kind \in {"identity", "hybrid"},
           keyCall[c].at \in {LeafAt(kind), AppendAt(kind)}, IsLog', Len(ktLog) <= Len(ktLog'),
           \A j \in 1..Len(ktLog) : ktLog'[j] = ktLog[j],
           NEW i \in Nat, i < Len(ktLog'), ktLog'[i + 1] = KtLeaf(c, kind),
           keyCall'[c].leaf = Append(keyCall[c].leaf, i), keyCall'[c].at \in {"hybridLeaf", "tree"},
           kind = "hybrid" => keyCall'[c].at = "tree"
    PROVE  LeafOK(c)'
<1>1. PICK id, hy, leaf : id = KtLeaf(c, "identity") /\ hy = KtLeaf(c, "hybrid") /\ leaf = keyCall[c].leaf
    BY Zenon
<1>2. keyCall[c].at \in {"identityLeaf", "identityAppend", "hybridLeaf", "hybridAppend"}
    BY Zenon DEF LeafAt, AppendAt
<1>3. KtLeaf(c, "identity")' = id /\ KtLeaf(c, "hybrid")' = hy
    BY Zenon, <1>1, <1>2, SameLeaf
<1>4. PICK S, T : ktLog \in Seq(S) /\ ktLog' \in Seq(T)
    BY Zenon DEF LogInv, IsLog
<1>5. LeafOK(c)
    BY Zenon DEF LogInv, LeavesFound, Turn
<1>6. Named(ktLog', keyCall'[c].leaf, id, hy) /\ (kind = "identity" => Len(keyCall'[c].leaf) = 1)
  <2>1. CASE kind = "identity"
    <3>1. leaf = <<>>
        BY Zenon, <1>1, <1>5, <2>1 DEF LeafOK, LeafAt, AppendAt, LeafPlace
    <3>2. ktLog'[i + 1] = id
        BY Zenon, <1>1, <2>1
    <3>3. Named(ktLog', Append(<<>>, i), id, hy) /\ Len(Append(<<>>, i)) = 1
        BY Zenon, <3>2, NamedFirst
    <3> QED BY Zenon, <1>1, <3>1, <3>3
  <2>2. CASE kind = "hybrid"
    <3>1. keyCall[c].at \in {"hybridLeaf", "hybridAppend"}
        BY Zenon, <2>2 DEF LeafAt, AppendAt
    <3>2. Named(ktLog, leaf, id, hy) /\ Len(leaf) = 1
        BY Zenon, <1>1, <1>5, <3>1 DEF LeafOK, LeafPlace
    <3>3. Named(ktLog', leaf, id, hy)
        BY Zenon, <1>4, <3>2, NamedStays
    <3>4. ktLog'[i + 1] = hy
        BY Zenon, <1>1, <2>2
    <3>5. Named(ktLog', Append(leaf, i), id, hy)
        BY Zenon, <3>2, <3>3, <3>4, NamedSecond
    <3> QED BY Zenon, <1>1, <2>2, <3>5
  <2> QED BY Zenon, <2>1, <2>2
<1>7. keyCall'[c].at \in LeafPlace /\ keyCall'[c].at # "bundle" /\ keyCall'[c].at # "hybridAppend"
    BY Zenon DEF LeafPlace
<1> QED BY Zenon, <1>3, <1>6, <1>7 DEF LeafOK

\* The steps that look for a leaf or append it.
LEMMA LogSteps ==
    ASSUME KyberInv, LogInv, NEW c \in KeyCall, Turn(c), NEW kind \in {"identity", "hybrid"},
           EnsureLeaf(c, kind) \/ AppendLeaf(c, kind)
    PROVE  LogInv'
<1>1. DOMAIN keyCall = KeyCall /\ DOMAIN keyCall[c] = CallFields
    BY Zenon DEF KyberInv, CallsOK, Turn, OpenOK
<1>2. PICK next : next = AfterLeaf(c, kind)
    BY Zenon
<1>3. next \in {"hybridLeaf", "tree"} /\ (kind = "hybrid" => next = "tree")
    BY Zenon, <1>2 DEF AfterLeaf
<1>4. KtLeaf(c, kind).dev = keyCall[c].dev /\ KtLeaf(c, kind).kind = kind
    BY Zenon DEF KtLeaf
<1>5. IsLog /\ LeavesRecordChanges
    BY Zenon DEF LogInv
<1>6. ASSUME NEW leaf, keyCall' = [keyCall EXCEPT ![c].at = next, ![c].leaf = leaf]
      PROVE  keyCall'[c].at = next /\ keyCall'[c].leaf = leaf /\ KeyBusy(c)'
  <2>1. keyCall'[c].at = next /\ keyCall'[c].leaf = leaf
      BY Zenon, <1>1, <1>6 DEF CallFields
  <2> QED BY Zenon, <1>3, <2>1 DEF KeyBusy
<1>7. CASE EnsureLeaf(c, kind)
  <2>1. PICK i : i = LatestLeaf(keyCall[c].dev, kind)
      BY Zenon
  <2>2. /\ i >= 0 => i \in Nat /\ i < Len(ktLog)
        /\ ~(i >= 0 /\ ktLog[i + 1] = KtLeaf(c, kind)) => Superseded(KtLeaf(c, kind))
      BY Zenon, <1>4, <1>5, <2>1, LatestSuperseded
  <2>3. UNCHANGED ktLog /\ ktLock = KeyNone /\ keyCall[c].at = LeafAt(kind)
      BY Zenon, <1>7 DEF EnsureLeaf, LockFree
  <2>4. CASE i >= 0 /\ ktLog[i + 1] = KtLeaf(c, kind)
    <3>1. PICK leaf : leaf = Append(keyCall[c].leaf, i)
        BY Zenon
    <3>2. keyCall' = [keyCall EXCEPT ![c].at = next, ![c].leaf = leaf] /\ UNCHANGED ktLock
        BY Zenon, <1>2, <1>7, <2>1, <2>4, <3>1 DEF EnsureLeaf
    <3>3. keyCall'[c].at = next /\ keyCall'[c].leaf = leaf /\ KeyBusy(c)'
        BY Zenon, <1>6, <3>2
    <3>4. IsLog' /\ \A j \in 1..Len(ktLog) : ktLog'[j] = ktLog[j]
        BY Zenon, <1>5, <2>3 DEF IsLog
    <3>5. Len(ktLog) <= Len(ktLog')
        BY SMT, <1>5, <2>3 DEF IsLog
    <3>6. LeafOK(c)'
        BY Zenon, <1>3, <2>2, <2>3, <2>4, <3>1, <3>3, <3>4, <3>5, LeafShown
    <3>7. keyCall'[c].at \notin {"identityAppend", "hybridAppend"}
        BY Zenon, <1>3, <3>3
    <3> QED BY Zenon, <2>3, <3>2, <3>6, <3>7, LogQuiet
  <2>5. CASE ~(i >= 0 /\ ktLog[i + 1] = KtLeaf(c, kind))
    <3>1. keyCall' = [keyCall EXCEPT ![c].at = AppendAt(kind)] /\ ktLock' = c
        BY Zenon, <1>7, <2>1, <2>5 DEF EnsureLeaf, KeyGo
    <3>2. keyCall'[c].at = AppendAt(kind) /\ keyCall'[c].leaf = keyCall[c].leaf
        BY Zenon, <1>1, <3>1 DEF CallFields
    <3>3. KeyBusy(c)'
        BY Zenon, <3>2 DEF KeyBusy, AppendAt
    <3>4. keyCall[c].at \notin {"rows", "readKeys", "bundle"}
        BY Zenon, <2>3 DEF LeafAt
    <3>5. \A k : KtLeaf(c, k)' = KtLeaf(c, k)
        BY Zenon, <3>3, <3>4, SameLeaf
    <3>6. LeafOK(c)
        BY Zenon DEF LogInv, LeavesFound, Turn
    <3>7. LeafOK(c)'
      <4>1. CASE kind = "identity"
        <5>1. keyCall[c].at = "identityLeaf" /\ keyCall'[c].at = "identityAppend"
            BY Zenon, <2>3, <3>2, <4>1 DEF LeafAt, AppendAt
        <5> QED BY Zenon, <3>2, <3>6, <5>1 DEF LeafOK, LeafPlace
      <4>2. CASE kind = "hybrid"
        <5>1. keyCall[c].at = "hybridLeaf" /\ keyCall'[c].at = "hybridAppend"
            BY Zenon, <2>3, <3>2, <4>2 DEF LeafAt, AppendAt
        <5>2. Named(ktLog, keyCall[c].leaf, KtLeaf(c, "identity"), KtLeaf(c, "hybrid")) /\ Len(keyCall[c].leaf) = 1
            BY Zenon, <3>6, <5>1 DEF LeafOK, LeafPlace
        <5>3. Named(ktLog', keyCall'[c].leaf, KtLeaf(c, "identity")', KtLeaf(c, "hybrid")')
            BY Zenon, <2>3, <3>2, <3>5, <5>2
        <5> QED BY Zenon, <3>2, <5>1, <5>2, <5>3 DEF LeafOK, LeafPlace
      <4> QED BY Zenon, <4>1, <4>2
    <3>8. IsLog' /\ \A j \in 1..Len(ktLog) : ktLog'[j] = ktLog[j]
        BY Zenon, <1>5, <2>3 DEF IsLog
    <3>9. Len(ktLog) <= Len(ktLog')
        BY SMT, <1>5, <2>3 DEF IsLog
    <3>10. LeavesFound'
        BY Zenon, <3>7, <3>8, <3>9, LeavesTurn
    <3>11. Superseded(KtLeaf(c, kind))'
        BY SMT, <2>2, <2>3, <2>5, <3>5 DEF Superseded
    <3>12. \A x \in KeyCall, k \in {"identity", "hybrid"} : keyCall[x].at # AppendAt(k)
        BY Zenon, <2>3, KeyAssumption DEF LogInv, AppendsLocked
    <3>13. \A x \in KeyCall \ {c}, k \in {"identity", "hybrid"} : keyCall'[x].at # AppendAt(k)
        BY Zenon, <3>12 DEF Turn
    <3>14. \A k \in {"identity", "hybrid"} : AppendAt(k) = AppendAt(kind) => k = kind
        BY SMT DEF AppendAt
    <3>15. AppendsLocked'
      <4>1. ASSUME NEW x \in KeyCall, NEW k \in {"identity", "hybrid"}, keyCall'[x].at = AppendAt(k)
            PROVE  x = c /\ k = kind
          BY Zenon, <3>2, <3>13, <3>14, <4>1
      <4> QED BY Zenon, <3>1, <3>11, <4>1 DEF AppendsLocked
    <3>16. LeavesRecordChanges'
        BY SMT, <1>5, <2>3 DEF LeavesRecordChanges
    <3> QED BY Zenon, <3>8, <3>10, <3>15, <3>16 DEF LogInv
  <2> QED BY Zenon, <2>4, <2>5
<1>8. CASE AppendLeaf(c, kind)
  <2>1. /\ ktLog' = Append(ktLog, KtLeaf(c, kind)) /\ ktLock' = KeyNone /\ keyCall[c].at = AppendAt(kind)
      BY Zenon, <1>8 DEF AppendLeaf
  <2>2. ktLock = c /\ Superseded(KtLeaf(c, kind))
      BY Zenon, <2>1 DEF LogInv, AppendsLocked
  <2>3. /\ IsLog' /\ LeavesRecordChanges'
        /\ Len(ktLog') = Len(ktLog) + 1 /\ Len(ktLog) \in Nat
        /\ \A i \in 1..Len(ktLog) : ktLog'[i] = ktLog[i]
        /\ ktLog'[Len(ktLog) + 1] = KtLeaf(c, kind)
      BY Zenon, <1>5, <2>1, <2>2, AppendRecords
  <2>4. PICK i, leaf : i = Len(ktLog) /\ leaf = Append(keyCall[c].leaf, i)
      BY Zenon
  <2>5. keyCall' = [keyCall EXCEPT ![c].at = next, ![c].leaf = leaf]
      BY Zenon, <1>2, <1>8, <2>4 DEF AppendLeaf, NextIndex
  <2>6. keyCall'[c].at = next /\ keyCall'[c].leaf = leaf /\ KeyBusy(c)'
      BY Zenon, <1>6, <2>5
  <2>7. i \in Nat /\ i < Len(ktLog') /\ Len(ktLog) <= Len(ktLog')
      BY SMT, <2>3, <2>4
  <2>8. ktLog'[i + 1] = KtLeaf(c, kind)
      BY Zenon, <2>3, <2>4
  <2>9. LeafOK(c)'
      BY Zenon, <1>3, <2>1, <2>3, <2>4, <2>6, <2>7, <2>8, LeafShown
  <2>10. LeavesFound'
      BY Zenon, <2>3, <2>7, <2>9, LeavesTurn
  <2>11. \A x \in KeyCall \ {c}, k \in {"identity", "hybrid"} : keyCall'[x].at # AppendAt(k)
      BY Zenon, <2>2 DEF LogInv, AppendsLocked, Turn
  <2>12. \A k \in {"identity", "hybrid"} : keyCall'[c].at # AppendAt(k)
      BY Zenon, <1>3, <2>6 DEF AppendAt
  <2>13. AppendsLocked'
      BY Zenon, <2>11, <2>12 DEF AppendsLocked
  <2> QED BY Zenon, <2>3, <2>10, <2>13 DEF LogInv
<1> QED BY Zenon, <1>7, <1>8

\* A step elsewhere: the log and its lock stay, and so does every call that is open or
\* the call has no leaf yet.
LEMMA LogElsewhere ==
    ASSUME LogInv, UNCHANGED <<ktLog, ktLock>>,
           \A x \in KeyCall : \/ ~KeyBusy(x)' \/ keyCall'[x] = keyCall[x]
                              \/ LeafOK(x)' /\ \A kind \in {"identity", "hybrid"} : keyCall'[x].at # AppendAt(kind)
    PROVE  LogInv'
<1>1. ktLog' = ktLog /\ ktLock' = ktLock
    BY Zenon
<1>2. ASSUME NEW x \in KeyCall, KeyBusy(x)', keyCall'[x] = keyCall[x]
      PROVE  /\ LeafOK(x)'
             /\ \A kind \in {"identity", "hybrid"} :
                   keyCall'[x].at = AppendAt(kind) => ktLock' = x /\ Superseded(KtLeaf(x, kind))'
  <2>1. KeyBusy(x) /\ \A kind : KtLeaf(x, kind)' = KtLeaf(x, kind)
      BY Zenon, <1>2 DEF KeyBusy, KtLeaf
  <2>2. LeafOK(x)
      BY Zenon, <2>1 DEF LogInv, LeavesFound
  <2>3. LeafOK(x)'
    <3>1. KtLeaf(x, "identity")' = KtLeaf(x, "identity") /\ KtLeaf(x, "hybrid")' = KtLeaf(x, "hybrid")
        BY Zenon, <2>1
    <3>2. keyCall[x].at \in LeafPlace =>
              Named(ktLog, keyCall[x].leaf, KtLeaf(x, "identity"), KtLeaf(x, "hybrid"))
        BY Zenon, <2>2 DEF LeafOK
    <3>3. keyCall[x].at \in LeafPlace =>
              Named(ktLog', keyCall[x].leaf, KtLeaf(x, "identity")', KtLeaf(x, "hybrid")')
        BY Zenon, <1>1, <3>1, <3>2
    <3> QED BY Zenon, <1>2, <2>2, <3>3 DEF LeafOK
  <2>4. ASSUME NEW kind \in {"identity", "hybrid"}, keyCall'[x].at = AppendAt(kind)
        PROVE  ktLock' = x /\ Superseded(KtLeaf(x, kind))'
    <3>1. ktLock = x /\ Superseded(KtLeaf(x, kind))
        BY Zenon, <1>2, <2>4 DEF LogInv, AppendsLocked
    <3> QED BY Zenon, <1>1, <2>1, <3>1 DEF Superseded
  <2> QED BY Zenon, <2>3, <2>4
<1>3. LeavesFound'
    BY Zenon, <1>2 DEF LeavesFound
<1>4. \A x \in KeyCall : ~KeyBusy(x)' => \A kind \in {"identity", "hybrid"} : keyCall'[x].at # AppendAt(kind)
    BY Zenon DEF KeyBusy, AppendAt
<1>5. AppendsLocked'
    BY Zenon, <1>2, <1>4 DEF AppendsLocked
<1>6. IsLog'
    BY Zenon, <1>1 DEF LogInv, IsLog
<1>7. LeavesRecordChanges'
    BY SMT, <1>1 DEF LogInv, LeavesRecordChanges
<1> QED BY Zenon, <1>3, <1>5, <1>6, <1>7 DEF LogInv

\* Every step keeps the log sound.
LEMMA LogStep ==
    ASSUME KyberInv, LogInv, [KeysNext]_keyVars
    PROVE  LogInv'
<1> USE DEF ktVars
<1>1. ASSUME NEW c \in KeyCall, Step(c), Turn(c) PROVE LogInv'
  <2>1. DOMAIN keyCall = KeyCall /\ DOMAIN keyCall[c] = CallFields /\ LeafOK(c)
      BY Zenon, <1>1 DEF KyberInv, CallsOK, Turn, OpenOK, LogInv, LeavesFound
  <2>2. CASE \E kind \in {"identity", "hybrid"} : EnsureLeaf(c, kind) \/ AppendLeaf(c, kind)
      BY Zenon, <1>1, <2>2, LogSteps
  <2>3. CASE LoadTree(c)
    <3>1. PICK n : n = Len(ktLog)
        BY Zenon
    <3>2. keyCall[c].at = "tree" /\ UNCHANGED <<ktLog, ktLock>>
          /\ keyCall' = [keyCall EXCEPT ![c].at = "bundle", ![c].size = n]
        BY Zenon, <2>3, <3>1 DEF LoadTree
    <3>3. keyCall'[c].at = "bundle" /\ keyCall'[c].size = n /\ keyCall'[c].leaf = keyCall[c].leaf
        BY Zenon, <2>1, <3>2 DEF CallFields
    <3>4. KeyBusy(c)' /\ keyCall'[c].at \notin {"identityAppend", "hybridAppend"}
        BY Zenon, <3>3 DEF KeyBusy
    <3>5. KtLeaf(c, "identity")' = KtLeaf(c, "identity") /\ KtLeaf(c, "hybrid")' = KtLeaf(c, "hybrid")
        BY Zenon, <1>1, <3>2, <3>4, SameLeaf
    <3>6. PICK leaf, id, hy : leaf = keyCall[c].leaf /\ id = KtLeaf(c, "identity") /\ hy = KtLeaf(c, "hybrid")
        BY Zenon
    <3>7. Named(ktLog, leaf, id, hy)
        BY Zenon, <2>1, <3>2, <3>6 DEF LeafOK, LeafPlace
    <3>8. \A i \in 1..Len(leaf) : leaf[i] < n
      <4>1. leaf \in Seq(Nat) /\ Len(leaf) <= 2 /\ (Len(leaf) >= 1 => leaf[1] < n) /\ (Len(leaf) = 2 => leaf[2] < n)
          BY Zenon, <3>1, <3>7 DEF Named
      <4>2. PICK m : m = Len(leaf) /\ m \in Nat /\ m <= 2
          BY SMT, <4>1
      <4>3. m \in Nat /\ m <= 2
          BY Zenon, <4>2
      <4>4. ASSUME NEW i \in 1..m PROVE (i = 1 /\ m >= 1) \/ (i = 2 /\ m = 2)
          BY SMT, <4>3
      <4> QED BY Zenon, <4>1, <4>2, <4>4
    <3>9. LeafOK(c)'
      <4>1. Named(ktLog', keyCall'[c].leaf, KtLeaf(c, "identity")', KtLeaf(c, "hybrid")')
          BY Zenon, <3>2, <3>3, <3>5, <3>6, <3>7
      <4> QED BY Zenon, <3>3, <3>6, <3>8, <4>1 DEF LeafOK, LeafPlace
    <3> QED BY Zenon, <1>1, <3>2, <3>4, <3>9, LogQuiet
  <2>4. CASE ProofsFail(c)
    <3>1. keyCall' = [keyCall EXCEPT ![c].at = "bundle", ![c].leaf = <<>>] /\ UNCHANGED ktLog
        BY Zenon, <2>4 DEF ProofsFail
    <3>2. keyCall'[c].at = "bundle" /\ keyCall'[c].leaf = <<>>
        BY Zenon, <2>1, <3>1 DEF CallFields
    <3>3. \A x \in KeyCall \ {c} : ktLock = x => ktLock' = x
        BY Zenon, <2>4 DEF ProofsFail
    <3>5. \A log, id, hy : Named(log, <<>>, id, hy)
        BY SMT DEF Named
    <3>6. \A i \in 1..Len(<<>>) : FALSE
        BY SMT
    <3>7. LeafOK(c)'
        BY Zenon, <3>2, <3>5, <3>6 DEF LeafOK, LeafPlace
    <3>8. keyCall'[c].at \notin {"identityAppend", "hybridAppend"}
        BY Zenon, <3>2
    <3> QED BY Zenon, <1>1, <3>1, <3>3, <3>7, <3>8, LogQuiet
  <2>5. CASE FinishBundle(c)
    <3>1. UNCHANGED <<ktLog, ktLock>> /\ keyCall[c].at = "bundle"
        BY Zenon, <2>5 DEF FinishBundle
    <3>2. CASE keyCall[c].todo # {}
      <4>1. PICK d : keyCall' = [keyCall EXCEPT ![c].at = "classic", ![c].dev = d, ![c].todo = @ \ {d},
                                                ![c].leaf = <<>>, ![c].size = 0]
          BY Zenon, <2>5, <3>2 DEF FinishBundle
      <4>2. keyCall'[c].at = "classic" /\ keyCall'[c].leaf = <<>>
          BY Zenon, <2>1, <4>1 DEF CallFields
      <4>3. LeafOK(c)' /\ keyCall'[c].at \notin {"identityAppend", "hybridAppend"}
          BY Zenon, <4>2 DEF LeafOK, LeafPlace
      <4> QED BY Zenon, <1>1, <3>1, <4>3, LogQuiet
    <3>3. CASE keyCall[c].todo = {}
      <4>1. KeyEnd(c) \/ KeyGo(c, "record")
          BY Zenon, <2>5, <3>3 DEF FinishBundle
      <4>2. keyCall'[c].at \in {"sent", "done", "record"}
        <5>1. CASE KeyGo(c, "record")
            BY Zenon, <2>1, <5>1 DEF KeyGo, CallFields
        <5>2. CASE KeyEnd(c)
          <6>1. keyCall'[c] = KeyOver(c, FALSE)
              BY Zenon, <2>1, <5>2 DEF KeyEnd
          <6>2. KeyOver(c, FALSE).at \in {"sent", "done"}
              BY Zenon, OverShape
          <6> QED BY Zenon, <6>1, <6>2
        <5> QED BY Zenon, <4>1, <5>1, <5>2
      <4>3. KeyBusy(c)' => LeafOK(c)'
          BY Zenon, <4>2 DEF KeyBusy, LeafOK, LeafPlace
      <4>4. keyCall'[c].at \notin {"identityAppend", "hybridAppend"}
          BY Zenon, <4>2
      <4> QED BY Zenon, <1>1, <3>1, <4>3, <4>4, LogQuiet
    <3> QED BY Zenon, <3>2, <3>3
  <2>6. CASE DropKeyCall(c)
    <3>1. UNCHANGED ktLog /\ \A x \in KeyCall \ {c} : ktLock = x => ktLock' = x
        BY Zenon, <2>6 DEF DropKeyCall
    <3>2. keyCall'[c] = KeyOver(c, FALSE)
        BY Zenon, <2>1, <2>6 DEF DropKeyCall, KeyEnd
    <3>3. KeyOver(c, FALSE).at \in {"sent", "done"}
        BY Zenon, OverShape
    <3>4. ~KeyBusy(c)' /\ keyCall'[c].at \notin {"identityAppend", "hybridAppend"}
        BY Zenon, <3>2, <3>3 DEF KeyBusy
    <3> QED BY Zenon, <1>1, <3>1, <3>4, LogQuiet
  <2>7. CASE ResolveConsumption(c) \/ CountBundle(c) \/ ReadRows(c) \/ TakeClassic(c) \/ TakeKyber(c)
               \/ RecordConsumption(c) \/ UploadStep(c) \/ ReadHybrid(c) \/ RotateKeys(c)
    <3>1. UNCHANGED <<ktLog, ktLock>>
        BY Zenon, <2>7 DEF ResolveConsumption, CountBundle, ReadRows, TakeClassic, TakeKyber, TakeKey,
               RecordConsumption, UploadStep, CountKeys, CountReplace, UploadSpk, ReadKeys, WriteHybrid,
               CheckKeys, ExpireClassic, ExpireKyber, ExpireKeys, InsertClassic, InsertKyber, InsertKey,
               NextInserts, ReadHybrid, RotateKeys
    <3>2. keyCall[c].at \in {"resolve", "rate", "rows", "classic", "kyber", "record"} \cup UploadPlace \cup RotatePlace
        BY Zenon, <2>7 DEF ResolveConsumption, CountBundle, ReadRows, TakeClassic, TakeKyber, TakeKey,
               RecordConsumption, UploadStep, CountKeys, CountReplace, UploadSpk, ReadKeys, WriteHybrid,
               CheckKeys, ExpireClassic, ExpireKyber, ExpireKeys, InsertClassic, InsertKyber, InsertKey,
               NextInserts, ReadHybrid, RotateKeys, UploadPlace, RotatePlace
    <3>3. keyCall[c].at \notin LeafPlace \cup {"identityLeaf", "identityAppend"}
        BY Zenon, <3>2 DEF LeafPlace, UploadPlace, RotatePlace
    <3>4. keyCall'[c].at \notin {"identityAppend", "hybridAppend"}
        BY Zenon, <1>1, <3>3, TurnPlaces DEF Passage, LeafPlace
    <3>5. KeyBusy(c)' => LeafOK(c)'
        BY Zenon, <1>1, <3>1, <3>3, LeavesAhead
    <3> QED BY Zenon, <1>1, <3>1, <3>4, <3>5, LogQuiet
  <2> QED BY Zenon, <1>1, <2>2, <2>3, <2>4, <2>5, <2>6, <2>7 DEF Step, FetchStep
<1>2. ASSUME NEW c \in KeyCall, NEW b \in KeyBatches(c, keyCall[c].req), BeginKeyCall(c, b) PROVE LogInv'
  <2>1. PICK r : r = OpenCall(c, b)
      BY Zenon
  <2>2. keyCall'[c] = r /\ \A x \in KeyCall \ {c} : keyCall'[x] = keyCall[x]
      BY Zenon, <1>2, <2>1 DEF BeginKeyCall, KyberInv, CallsOK
  <2>3. UNCHANGED <<ktLog, ktLock>>
      BY Zenon, <1>2 DEF BeginKeyCall
  <2>4. r.leaf = <<>>
      BY Zenon, <2>1 DEF OpenCall
  <2>5. r.at \in {"resolve", "counts", "readHybrid"}
    <3>1. KeyRequestOK(keyCall[c].req)
        BY Zenon, <1>2 DEF BeginKeyCall, KyberInv, CallsOK, CallOK, OpenOK, FetchPlace, UploadPlace, RotatePlace
    <3>2. keyCall[c].req.op \in {"fetch", "upload", "rotate"}
        BY Zenon, <3>1 DEF KeyRequestOK
    <3>3. r.at = (CASE keyCall[c].req.op = "fetch" -> "resolve" [] keyCall[c].req.op = "upload" -> "counts"
                    [] keyCall[c].req.op = "rotate" -> "readHybrid")
        BY Zenon, <2>1 DEF OpenCall
    <3> QED BY Zenon, <3>2, <3>3
  <2>6. LeafOK(c)' /\ \A kind \in {"identity", "hybrid"} : keyCall'[c].at # AppendAt(kind)
      BY Zenon, <2>2, <2>4, <2>5 DEF LeafOK, LeafPlace, AppendAt
  <2> QED BY Zenon, <2>2, <2>3, <2>6, LogElsewhere
<1>3. ASSUME NEW d \in KeyDevice, RevokeDevice(d) PROVE LogInv'
    BY Zenon, <1>3, LogElsewhere DEF RevokeDevice
<1>4. CASE CleanupExpired
  <2>1. ASSUME NEW x \in KeyCall PROVE ~KeyBusy(x)' \/ keyCall'[x] = keyCall[x]
    <3>1. keyCall'[x] = IF keyCall[x].at = "sent" THEN [keyCall[x] EXCEPT !.at = "gone"] ELSE keyCall[x]
        BY Zenon, <1>4 DEF CleanupExpired
    <3>2. CASE keyCall[x].at = "sent"
      <4>1. DOMAIN keyCall[x] = {"at", "dev", "ids", "kinds", "by", "replaced"}
          BY Zenon, <3>2 DEF KyberInv, CallsOK, CallOK, OpenOK, FetchPlace, UploadPlace, RotatePlace
      <4>2. keyCall'[x].at = "gone"
          BY Zenon, <3>1, <3>2, <4>1
      <4> QED BY Zenon, <4>2 DEF KeyBusy
    <3> QED BY Zenon, <3>1, <3>2
  <2> QED BY Zenon, <1>4, <2>1, LogElsewhere DEF CleanupExpired
<1>5. CASE UNCHANGED keyVars
  <2>1. UNCHANGED <<ktLog, ktLock>> /\ keyCall' = keyCall
      BY Zenon, <1>5 DEF keyVars
  <2> QED BY Zenon, <2>1, LogElsewhere
<1> QED BY Zenon, <1>1, <1>2, <1>3, <1>4, <1>5, NextKinds

\* The device rows as they were found.
LEMMA RowsInit == KeysInit => RowsInv
<1> SUFFICES ASSUME KeysInit PROVE RowsInv
    BY Zenon
<1>1. \A c \in KeyCall : ~KeyBusy(c)
  <2>1. \A c \in KeyCall : keyCall[c].at = "idle"
      BY SMT DEF KeysInit
  <2> QED BY Zenon, <2>1 DEF KeyBusy
<1>2. SpkCarried /\ WritersAlone
    BY Zenon, <1>1 DEF SpkCarried, WritersAlone, Writing, OneWriter
<1>3. ASSUME NEW d \in KeyDevice
      PROVE  DOMAIN keyRow[d] = RowFields /\ RowTrue(keyRow[d], d)
  <2>1. PICK hk, sig : /\ hk = IF d \in KeyHybrid THEN KeyBefore ELSE KeyNone
                       /\ sig = IF d \in KeyHybrid THEN HybridSigned(KeyBefore, KeyBefore) ELSE KeyNone
      BY Zenon
  <2>2. keyRow[d] = [active |-> TRUE, spk |-> KeyBefore, paired |-> TRUE, sig |-> sig,
                     kspk |-> KeyBefore, ksig |-> sig, hk |-> hk]
      BY Zenon, <2>1 DEF KeysInit
  <2>3. /\ DOMAIN keyRow[d] = RowFields /\ keyRow[d].spk = KeyBefore /\ keyRow[d].kspk = KeyBefore
        /\ keyRow[d].sig = sig /\ keyRow[d].ksig = sig /\ keyRow[d].hk = hk
      BY SMT, <2>2 DEF RowFields
  <2>4. sig \in {KeyNone, HybridSigned(hk, KeyBefore)}
      BY Zenon, <2>1
  <2> QED BY Zenon, <2>3, <2>4 DEF RowTrue
<1>4. RowsOK
    BY Zenon, <1>3 DEF RowsOK, KeysInit
<1>5. BundleSelfConsistent /\ RotatedTogether
    BY Zenon, <1>3 DEF RowTrue, BundleSelfConsistent, RotatedTogether
<1> QED BY Zenon, <1>2, <1>4, <1>5 DEF RowsInv

\* The log as it was found: empty.
LEMMA LogInit == KeysInit => LogInv
<1> SUFFICES ASSUME KeysInit PROVE LogInv
    BY Zenon
<1>1. \A c \in KeyCall : keyCall[c].at = "idle"
    BY SMT DEF KeysInit
<1>2. LeavesFound /\ AppendsLocked
    BY Zenon, <1>1 DEF LeavesFound, AppendsLocked, AppendAt, KeyBusy
<1>3. ktLog = <<>> /\ <<>> \in Seq(KeyCall)
    BY SMT DEF KeysInit
<1>4. IsLog
    BY Zenon, <1>3 DEF IsLog
<1>5. LeavesRecordChanges
    BY SMT, <1>3 DEF LeavesRecordChanges
<1> QED BY Zenon, <1>2, <1>4, <1>5 DEF LogInv

\* The proofs of a bundle are those of its leaves.
LEMMA ProofsNamed == LogInv => ProofsNameTheirLeaf
<1> SUFFICES ASSUME LogInv, NEW c \in KeyCall, KeyBusy(c), keyCall[c].at = "bundle",
                    NEW i \in DOMAIN keyCall[c].leaf
             PROVE  /\ keyCall[c].leaf[i] < keyCall[c].size
                    /\ ktLog[keyCall[c].leaf[i] + 1] = KtLeaf(c, <<"identity", "hybrid">>[i])
    BY Zenon DEF ProofsNameTheirLeaf
<1>1. PICK leaf, id, hy : leaf = keyCall[c].leaf /\ id = KtLeaf(c, "identity") /\ hy = KtLeaf(c, "hybrid")
    BY Zenon
<1>2. Named(ktLog, leaf, id, hy) /\ \A j \in 1..Len(leaf) : leaf[j] < keyCall[c].size
    BY Zenon, <1>1 DEF LogInv, LeavesFound, LeafOK, LeafPlace
<1>3. leaf \in Seq(Nat) /\ Len(leaf) <= 2
    BY Zenon, <1>2 DEF Named
<1>4. i \in 1..Len(leaf) /\ Len(leaf) \in Nat
    BY SMT, <1>1, <1>3
<1>5. (i = 1 /\ Len(leaf) >= 1) \/ (i = 2 /\ Len(leaf) = 2)
  <2>1. PICK m : m = Len(leaf)
      BY Zenon
  <2>2. m \in Nat /\ m <= 2 /\ i \in 1..m
      BY Zenon, <1>3, <1>4, <2>1
  <2>3. (i = 1 /\ m >= 1) \/ (i = 2 /\ m = 2)
      BY SMT, <2>2
  <2> QED BY Zenon, <2>1, <2>3
<1>6. CASE i = 1 /\ Len(leaf) >= 1
  <2>1. <<"identity", "hybrid">>[i] = "identity"
      BY SMT, <1>6
  <2> QED BY Zenon, <1>1, <1>2, <1>4, <1>6, <2>1 DEF Named
<1>7. CASE i = 2 /\ Len(leaf) = 2
  <2>1. <<"identity", "hybrid">>[i] = "hybrid"
      BY SMT, <1>7
  <2> QED BY Zenon, <1>1, <1>2, <1>4, <1>7, <2>1 DEF Named
<1> QED BY Zenon, <1>5, <1>6, <1>7

\* What key-service says of a device is true together: the hybrid signatures of a row are
\* those of its identity over its keys while its writers do not overlap, keys that came
\* together are served together, a proof names its own leaf, and the log has one leaf for
\* each change (store_hybrid_identity, rotate_signed_prekey, build_kt_proofs, db_ensure_leaf).
THEOREM BundlesAreTrue == KeysSpec => []BundlesTrue
<1>1. KeysInit => KyberInv /\ RowsInv /\ LogInv
    BY Zenon, KyberInit, RowsInit, LogInit
<1>2. KyberInv /\ RowsInv /\ LogInv /\ [KeysNext]_keyVars => KyberInv' /\ RowsInv' /\ LogInv'
    BY Zenon, KyberStep, RowsStep, LogStep
<1>3. RowsInv /\ LogInv => BundlesTrue
    BY Zenon, ProofsNamed DEF RowsInv, LogInv, BundlesTrue
<1> QED BY <1>1, <1>2, <1>3, PTL DEF KeysSpec

==============================================================================
