--------------------------- MODULE KeyLimitsProofs ---------------------------
(***************************************************************************)
(* The limits of key-service on one-time keys hold but for overlaps, for   *)
(* any devices, requests and bounds.                                       *)
(***************************************************************************)
EXTENDS KeysProofs, FiniteSetTheorems

-----------------------------------------------------------------------------
(* The inductive invariants.                                               *)

\* The calls in progress, the fetches among them that may take a one-time key, and those
\* that did.
Open == {c \in KeyCall : KeyBusy(c)}
MayTake == {c \in KeyCall : KeyBusy(c) /\ keyCall[c].burn /\ ~keyCall[c].took}
HaveTaken == {c \in KeyCall : KeyBusy(c) /\ keyCall[c].took}

TakerOK(r) ==
    /\ r.burn \in BOOLEAN /\ r.took \in BOOLEAN
    /\ r.burn => r.at \in FetchPlace \ {"resolve"}
    /\ r.took => r.burn /\ r.at \notin {"resolve", "rate", "rows"}
    /\ r.at = "record" => r.took

\* Every fetch that took a key was counted, is about to be or was missed; and those that
\* may still take one were let in while the threshold was not reached, or were missed.
DrainInv ==
    /\ \A c \in KeyCall : KeyBusy(c) => TakerOK(keyCall[c])
    /\ burned \in Nat /\ drained \in Nat /\ uncounted \in Nat
    /\ Cardinality(Open) <= KeyMaxOpen
    /\ burned <= drained + Cardinality(HaveTaken) + uncounted
    /\ burned + Cardinality(MayTake) <= DrainThreshold + (KeyMaxOpen - 1) + uncounted

\* The key_ids an upload may still insert, and whether it will expire the table before.
Coming(r, kind) ==
    IF r.at = "insert" /\ kind = "classic" THEN r.ids
    ELSE IF r.at = "insertKyber" THEN (IF kind = "classic" THEN {} ELSE r.ids)
    ELSE r.req.ids
WillExpire(r, kind) ==
    r.req.replace /\ r.at \in EarlyPlace /\ (kind = "classic" => r.at # "expireKyber")

\* The keys to come fit in with those that stay.
Room(keys, ids, expires) == (IF expires THEN 0 ELSE Cardinality(keys)) + Cardinality(ids) <= MaxStored

UploadFits(c) ==
    LET r == keyCall[c] IN
    /\ r.ids \subseteq r.req.ids
    /\ r.at # "counts" /\ r.req.dev \notin overlapped =>
          \A kind \in r.req.kinds \cap KeyKind :
              Room(ActiveKeys(kind, r.req.dev), Coming(r, kind), WillExpire(r, kind))

\* What a device holds and what its upload still adds fit into the table.
StoredOK ==
    /\ \A kind \in KeyKind, d \in KeyDevice : IsFiniteSet(ActiveKeys(kind, d))
    /\ \A c \in KeyCall : KeyBusy(c) /\ keyCall[c].at \in UploadPlace => UploadFits(c)

StoredInv == StoredOK /\ StoredBound

-----------------------------------------------------------------------------
(* The drain limit.                                                        *)

\* A set that gains or loses one element at most.
LEMMA OneElement ==
    ASSUME NEW S, NEW T, IsFiniteSet(S), NEW c, S \ {c} = T \ {c}
    PROVE  /\ IsFiniteSet(T) /\ Cardinality(S) \in Nat /\ Cardinality(T) \in Nat
           /\ c \in S /\ c \notin T => Cardinality(S) = Cardinality(T) + 1
           /\ c \notin S /\ c \in T => Cardinality(T) = Cardinality(S) + 1
           /\ (c \in S <=> c \in T) => Cardinality(T) = Cardinality(S)
<1>1. T = S \/ T = S \ {c} \/ T = S \cup {c}
    BY SMT
<1>2. IsFiniteSet(S \cup {c}) /\ IsFiniteSet(S \ {c})
    BY Zenon, FS_AddElement, FS_RemoveElement
<1>3. IsFiniteSet(T) /\ Cardinality(S) \in Nat /\ Cardinality(T) \in Nat
    BY Zenon, <1>1, <1>2, FS_CardinalityType
<1>4. (c \in S <=> c \in T) => T = S
    BY SMT, <1>1
<1>5. ASSUME c \in S, c \notin T PROVE Cardinality(S) = Cardinality(T) + 1
  <2>1. T = S \ {c}
      BY SMT, <1>1, <1>5
  <2>2. Cardinality(T) = Cardinality(S) - 1
      BY Zenon, <1>5, <2>1, FS_RemoveElement
  <2> QED BY SMT, <1>3, <2>2
<1>6. ASSUME c \notin S, c \in T PROVE Cardinality(T) = Cardinality(S) + 1
  <2>1. T = S \cup {c}
      BY SMT, <1>1, <1>6
  <2> QED BY Zenon, <1>6, <2>1, FS_AddElement
<1> QED BY Zenon, <1>3, <1>4, <1>5, <1>6

\* What one call's step does to the sets of calls.
LEMMA TakersMove ==
    ASSUME NEW c \in KeyCall, \A x \in KeyCall \ {c} : keyCall'[x] = keyCall[x]
    PROVE  /\ Open \ {c} = Open' \ {c}
           /\ MayTake \ {c} = MayTake' \ {c}
           /\ HaveTaken \ {c} = HaveTaken' \ {c}
BY SMT DEF Open, MayTake, HaveTaken, KeyBusy

\* They are finitely many, as the calls are.
LEMMA TakersFinite ==
    /\ IsFiniteSet(Open) /\ IsFiniteSet(MayTake) /\ IsFiniteSet(HaveTaken)
    /\ Cardinality(Open) \in Nat /\ Cardinality(MayTake) \in Nat /\ Cardinality(HaveTaken) \in Nat
<1>1. Open \in SUBSET KeyCall /\ MayTake \in SUBSET KeyCall /\ HaveTaken \in SUBSET KeyCall
    BY Zenon DEF Open, MayTake, HaveTaken
<1>2. IsFiniteSet(Open) /\ IsFiniteSet(MayTake) /\ IsFiniteSet(HaveTaken)
    BY Zenon, <1>1, KeyBounds, FS_Subset
<1> QED BY Zenon, <1>2, FS_CardinalityType

\* Who may take a key and who did are different calls, so one call in progress more than
\* they are is open while another asks whether it may.
LEMMA TakersRoom ==
    ASSUME NEW c \in Open, c \notin MayTake, c \notin HaveTaken
    PROVE  Cardinality(HaveTaken) + Cardinality(MayTake) + 1 <= Cardinality(Open)
<1>1. PICK H, M, O : H = HaveTaken /\ M = MayTake /\ O = Open
    BY Zenon
<1>2. IsFiniteSet(H) /\ IsFiniteSet(M) /\ IsFiniteSet(O) /\ Cardinality(H) \in Nat /\ Cardinality(M) \in Nat
      /\ Cardinality(O) \in Nat
    BY Zenon, <1>1, TakersFinite
<1>3. H \cap M = {} /\ H \subseteq O /\ M \subseteq O /\ c \in O /\ c \notin H \cup M
    BY Zenon, <1>1 DEF HaveTaken, MayTake, Open
<1>4. IsFiniteSet(H \cup M) /\ Cardinality(H \cup M) = Cardinality(H) + Cardinality(M)
  <2>1. Cardinality(H \cap M) = 0
      BY Zenon, <1>3, FS_EmptySet
  <2>2. IsFiniteSet(H \cup M) /\ Cardinality(H \cup M) = Cardinality(H) + Cardinality(M) - Cardinality(H \cap M)
      BY Zenon, <1>2, FS_Union
  <2> QED BY SMT, <1>2, <2>1, <2>2
<1>5. Cardinality((H \cup M) \cup {c}) = Cardinality(H \cup M) + 1
    BY Zenon, <1>3, <1>4, FS_AddElement
<1>6. (H \cup M) \cup {c} \in SUBSET O
    BY Zenon, <1>3
<1>7. Cardinality((H \cup M) \cup {c}) <= Cardinality(O)
    BY Zenon, <1>2, <1>6, FS_Subset
<1> QED BY SMT, <1>1, <1>2, <1>4, <1>5, <1>7

\* The counts before and after a turn.
LEMMA DrainCounts ==
    ASSUME KyberInv, DrainInv, NEW c \in KeyCall, Turn(c)
    PROVE  /\ c \in Open
           /\ Cardinality(Open)' <= KeyMaxOpen
           /\ Cardinality(MayTake) \in Nat /\ Cardinality(MayTake)' \in Nat
           /\ Cardinality(HaveTaken) \in Nat /\ Cardinality(HaveTaken)' \in Nat
           /\ c \in HaveTaken /\ c \notin HaveTaken' => Cardinality(HaveTaken) = Cardinality(HaveTaken)' + 1
           /\ c \notin HaveTaken /\ c \in HaveTaken' => Cardinality(HaveTaken)' = Cardinality(HaveTaken) + 1
           /\ (c \in HaveTaken <=> c \in HaveTaken') => Cardinality(HaveTaken)' = Cardinality(HaveTaken)
           /\ c \in MayTake /\ c \notin MayTake' => Cardinality(MayTake) = Cardinality(MayTake)' + 1
           /\ c \notin MayTake /\ c \in MayTake' => Cardinality(MayTake)' = Cardinality(MayTake) + 1
           /\ (c \in MayTake <=> c \in MayTake') => Cardinality(MayTake)' = Cardinality(MayTake)
<1>1. \A x \in KeyCall \ {c} : keyCall'[x] = keyCall[x]
    BY Zenon DEF Turn
<1>2. /\ Open \ {c} = Open' \ {c} /\ MayTake \ {c} = MayTake' \ {c} /\ HaveTaken \ {c} = HaveTaken' \ {c}
    BY Zenon, <1>1, TakersMove
<1>3. c \in Open
    BY Zenon DEF Open, Turn
<1>4. PICK O, P : O = Open /\ P = Open'
    BY Zenon
<1>5. /\ Cardinality(O) \in Nat /\ Cardinality(P) \in Nat
      /\ c \in O /\ c \notin P => Cardinality(O) = Cardinality(P) + 1
      /\ (c \in O <=> c \in P) => Cardinality(P) = Cardinality(O)
    BY Zenon, <1>2, <1>4, TakersFinite, OneElement
<1>6. Cardinality(P) <= Cardinality(O) /\ Cardinality(O) <= KeyMaxOpen
  <2>1. c \in O /\ Cardinality(O) <= KeyMaxOpen
      BY Zenon, <1>3, <1>4 DEF DrainInv
  <2> QED BY SMT, <1>5, <2>1
<1>7. Cardinality(Open)' <= KeyMaxOpen
    BY SMT, <1>4, <1>5, <1>6, KeyBounds
<1>8. /\ Cardinality(MayTake) \in Nat /\ Cardinality(MayTake)' \in Nat
      /\ c \in MayTake /\ c \notin MayTake' => Cardinality(MayTake) = Cardinality(MayTake)' + 1
      /\ c \notin MayTake /\ c \in MayTake' => Cardinality(MayTake)' = Cardinality(MayTake) + 1
      /\ (c \in MayTake <=> c \in MayTake') => Cardinality(MayTake)' = Cardinality(MayTake)
    BY Zenon, <1>2, TakersFinite, OneElement
<1>9. /\ Cardinality(HaveTaken) \in Nat /\ Cardinality(HaveTaken)' \in Nat
      /\ c \in HaveTaken /\ c \notin HaveTaken' => Cardinality(HaveTaken) = Cardinality(HaveTaken)' + 1
      /\ c \notin HaveTaken /\ c \in HaveTaken' => Cardinality(HaveTaken)' = Cardinality(HaveTaken) + 1
      /\ (c \in HaveTaken <=> c \in HaveTaken') => Cardinality(HaveTaken)' = Cardinality(HaveTaken)
    BY Zenon, <1>2, TakersFinite, OneElement
<1> QED BY Zenon, <1>3, <1>7, <1>8, <1>9

\* What a call may take, as it goes on.
LEMMA TakerGoesOn ==
    ASSUME NEW c \in KeyCall, Turn(c), TakerOK(keyCall[c]), KeyBusy(c)', keyCall[c].at # "resolve",
           keyCall'[c].burn = keyCall[c].burn,
           keyCall'[c].took \in {keyCall[c].took, keyCall[c].burn},
           keyCall'[c].took => keyCall[c].at \notin {"resolve", "rate", "rows"},
           keyCall'[c].at = "record" => keyCall'[c].took
    PROVE  TakerOK(keyCall'[c])
<1>1. Passage(keyCall[c].at, keyCall'[c].at)
    BY Zenon, TurnPlaces DEF KeyBusy
<1>2. keyCall'[c].burn \in BOOLEAN /\ keyCall'[c].took \in BOOLEAN
    BY Zenon DEF TakerOK
<1>3. keyCall'[c].burn => keyCall'[c].at \in FetchPlace \ {"resolve"}
  <2>1. keyCall[c].at \in FetchPlace => keyCall'[c].at \in FetchPlace \ {"resolve"}
      BY Zenon, <1>1 DEF Passage, FetchPlace
  <2> QED BY Zenon, <2>1 DEF TakerOK
<1>4. keyCall'[c].took => keyCall'[c].burn
    BY Zenon DEF TakerOK
<1>5. keyCall[c].at \notin {"resolve", "rate", "rows"} => keyCall'[c].at \notin {"resolve", "rate", "rows"}
    BY Zenon, <1>1 DEF Passage
<1> QED BY Zenon, <1>2, <1>3, <1>4, <1>5 DEF TakerOK

\* The calls of others keep what they may take.
LEMMA TakersKept ==
    ASSUME DrainInv, NEW c \in KeyCall, Turn(c), KeyBusy(c)' => TakerOK(keyCall'[c])
    PROVE  \A x \in KeyCall : KeyBusy(x)' => TakerOK(keyCall'[x])
<1>1. ASSUME NEW x \in KeyCall \ {c}, KeyBusy(x)' PROVE TakerOK(keyCall'[x])
  <2>1. keyCall'[x] = keyCall[x]
      BY Zenon DEF Turn
  <2> QED BY Zenon, <1>1, <2>1 DEF DrainInv, KeyBusy
<1> QED BY Zenon, <1>1

\* A turn that takes nothing and counts nothing.
LEMMA DrainQuiet ==
    ASSUME KyberInv, DrainInv, NEW c \in KeyCall, Turn(c), UNCHANGED <<burned, drained, uncounted>>,
           keyCall[c].at # "resolve",
           KeyBusy(c)' => keyCall'[c].burn = keyCall[c].burn /\ keyCall'[c].took = keyCall[c].took,
           keyCall'[c].at = "record" => keyCall[c].took,
           keyCall[c].took => KeyBusy(c)'
    PROVE  DrainInv'
<1>1. TakerOK(keyCall[c])
    BY Zenon DEF DrainInv, Turn
<1>2. KeyBusy(c)' => TakerOK(keyCall'[c])
  <2>1. keyCall[c].took => keyCall[c].at \notin {"resolve", "rate", "rows"}
      BY Zenon, <1>1 DEF TakerOK
  <2> QED BY Zenon, <1>1, <2>1, TakerGoesOn
<1>3. (c \in HaveTaken <=> c \in HaveTaken') /\ (c \in MayTake' => c \in MayTake)
    BY Zenon DEF HaveTaken, MayTake, Turn
<1>4. PICK h, g, m, l : /\ h = Cardinality(HaveTaken) /\ g = Cardinality(HaveTaken)'
                        /\ m = Cardinality(MayTake) /\ l = Cardinality(MayTake)'
    BY Zenon
<1>5. h \in Nat /\ g = h /\ m \in Nat /\ l \in Nat /\ (l = m \/ m = l + 1) /\ Cardinality(Open)' <= KeyMaxOpen
    BY Zenon, <1>3, <1>4, DrainCounts
<1>6. /\ burned \in Nat /\ drained \in Nat /\ uncounted \in Nat
      /\ burned <= drained + h + uncounted
      /\ burned + m <= DrainThreshold + (KeyMaxOpen - 1) + uncounted
    BY Zenon, <1>4 DEF DrainInv
<1>7. /\ burned' \in Nat /\ drained' \in Nat /\ uncounted' \in Nat
      /\ burned' <= drained' + g + uncounted'
      /\ burned' + l <= DrainThreshold + (KeyMaxOpen - 1) + uncounted'
    BY SMT, <1>5, <1>6, KeyBounds
<1>8. \A x \in KeyCall : KeyBusy(x)' => TakerOK(keyCall'[x])
    BY Zenon, <1>2, TakersKept
<1> QED BY Zenon, <1>4, <1>5, <1>7, <1>8 DEF DrainInv

\* A fetch is let in while the threshold is not reached, or Redis does not answer.
LEMMA DrainResolve ==
    ASSUME KyberInv, DrainInv, NEW c \in KeyCall, Turn(c), ResolveConsumption(c)
    PROVE  DrainInv'
<1>1. DOMAIN keyCall = KeyCall /\ DOMAIN keyCall[c] = CallFields /\ keyCall[c].at = "resolve"
    BY Zenon DEF KyberInv, CallsOK, Turn, OpenOK, ResolveConsumption
<1>2. TakerOK(keyCall[c])
    BY Zenon DEF DrainInv, Turn
<1>3. ~keyCall[c].burn /\ ~keyCall[c].took
    BY Zenon, <1>1, <1>2 DEF TakerOK
<1>4. PICK burn \in BOOLEAN : /\ keyCall' = [keyCall EXCEPT ![c].at = "rate", ![c].burn = burn]
                              /\ \/ UNCHANGED uncounted /\ (burn => ~DrainReached(drained))
                                 \/ uncounted' = uncounted + 1
  <2>1. CASE /\ keyCall' = [keyCall EXCEPT ![c].at = "rate",
                        ![c].burn = keyCall[c].req.wants /\ keyCall[c].req.who # "self" /\ ~DrainReached(drained)]
             /\ UNCHANGED uncounted
    <3>1. PICK burn : burn = (keyCall[c].req.wants /\ keyCall[c].req.who # "self" /\ ~DrainReached(drained))
        BY Zenon
    <3>2. burn \in BOOLEAN /\ (burn => ~DrainReached(drained))
        BY Zenon, <3>1
    <3> QED BY Zenon, <2>1, <3>1, <3>2
  <2> QED BY Zenon, <2>1 DEF ResolveConsumption
<1>5. /\ keyCall'[c].at = "rate" /\ keyCall'[c].burn = burn /\ keyCall'[c].took = keyCall[c].took
    BY Zenon, <1>1, <1>4 DEF CallFields
<1>6. UNCHANGED <<burned, drained>>
    BY Zenon DEF ResolveConsumption, countVars
<1>7. TakerOK(keyCall'[c])
    BY Zenon, <1>3, <1>2, <1>5 DEF TakerOK, FetchPlace
<1>8. c \notin HaveTaken /\ c \notin HaveTaken' /\ c \notin MayTake
    BY Zenon, <1>3, <1>5 DEF HaveTaken, MayTake
<1>9. ~burn => c \notin MayTake'
    BY Zenon, <1>5 DEF MayTake
<1>10. PICK h, g, m, l, o : /\ h = Cardinality(HaveTaken) /\ g = Cardinality(HaveTaken)'
                            /\ m = Cardinality(MayTake) /\ l = Cardinality(MayTake)' /\ o = Cardinality(Open)
    BY Zenon
<1>11. /\ h \in Nat /\ g = h /\ m \in Nat /\ l \in Nat /\ (l = m \/ (l = m + 1 /\ burn))
       /\ Cardinality(Open)' <= KeyMaxOpen
    BY Zenon, <1>8, <1>9, <1>10, DrainCounts
<1>12. /\ burned \in Nat /\ drained \in Nat /\ uncounted \in Nat /\ o <= KeyMaxOpen
       /\ burned <= drained + h + uncounted
       /\ burned + m <= DrainThreshold + (KeyMaxOpen - 1) + uncounted
    BY Zenon, <1>10 DEF DrainInv
<1>13. h + m + 1 <= o /\ o \in Nat
    BY Zenon, <1>8, <1>10, DrainCounts, TakersRoom, TakersFinite
<1>14. DrainThreshold \in Nat /\ KeyMaxOpen \in Nat
    BY SMT, KeyBounds
<1>15. /\ burned' \in Nat /\ drained' \in Nat /\ uncounted' \in Nat
       /\ burned' <= drained' + g + uncounted'
       /\ burned' + l <= DrainThreshold + (KeyMaxOpen - 1) + uncounted'
  <2>1. CASE uncounted' = uncounted + 1
      BY SMT, <1>6, <1>11, <1>12, <1>14, <2>1
  <2>2. CASE uncounted' = uncounted /\ ~burn
    <3>1. l = m
        BY Zenon, <1>11, <2>2
    <3> QED BY SMT, <1>6, <1>11, <1>12, <1>14, <2>2, <3>1
  <2>3. CASE uncounted' = uncounted /\ ~DrainReached(drained)
    <3>1. ~(drained >= DrainThreshold)
        BY Zenon, <2>3 DEF DrainReached
    <3>2. l = m \/ l = m + 1
        BY Zenon, <1>11
    <3> QED BY SMT, <1>6, <1>11, <1>12, <1>13, <1>14, <2>3, <3>1, <3>2
  <2> QED BY Zenon, <1>4, <2>1, <2>2, <2>3
<1>16. \A x \in KeyCall : KeyBusy(x)' => TakerOK(keyCall'[x])
    BY Zenon, <1>7, TakersKept
<1> QED BY Zenon, <1>10, <1>11, <1>15, <1>16 DEF DrainInv

\* A fetch that takes a key had leave to, and is counted once.
LEMMA DrainTake ==
    ASSUME KyberInv, DrainInv, NEW c \in KeyCall, Turn(c), TakeClassic(c) \/ TakeKyber(c)
    PROVE  DrainInv'
<1>1. PICK next \in {"kyber", "identityLeaf"} :
          /\ keyCall[c].at \in {"classic", "kyber"} /\ UNCHANGED <<drained, uncounted>>
          /\ \/ KeyGo(c, next) /\ UNCHANGED burned
             \/ /\ keyCall[c].burn /\ burned' = IF keyCall[c].took THEN burned ELSE burned + 1
                /\ keyCall' = [keyCall EXCEPT ![c].at = next, ![c].took = TRUE]
  <2>1. ASSUME NEW kind \in {"classic", "kyber"}, NEW next \in {"kyber", "identityLeaf"}, TakeKey(c, kind, next)
        PROVE  /\ keyCall[c].at \in {"classic", "kyber"} /\ UNCHANGED <<drained, uncounted>>
               /\ \/ KeyGo(c, next) /\ UNCHANGED burned
                  \/ /\ keyCall[c].burn /\ burned' = IF keyCall[c].took THEN burned ELSE burned + 1
                     /\ keyCall' = [keyCall EXCEPT ![c].at = next, ![c].took = TRUE]
      BY Zenon, <2>1 DEF TakeKey, countVars
  <2> QED BY Zenon, <2>1 DEF TakeClassic, TakeKyber
<1>2. DOMAIN keyCall = KeyCall /\ DOMAIN keyCall[c] = CallFields
    BY Zenon DEF KyberInv, CallsOK, Turn, OpenOK
<1>3. TakerOK(keyCall[c]) /\ keyCall[c].at # "resolve" /\ keyCall[c].at \notin {"resolve", "rate", "rows"}
    BY Zenon, <1>1 DEF DrainInv, Turn
<1>4. CASE KeyGo(c, next) /\ UNCHANGED burned
  <2>1. keyCall'[c].at = next /\ keyCall'[c].burn = keyCall[c].burn /\ keyCall'[c].took = keyCall[c].took
      BY Zenon, <1>2, <1>4 DEF KeyGo, CallFields
  <2>2. KeyBusy(c)' /\ keyCall'[c].at # "record"
      BY Zenon, <2>1 DEF KeyBusy
  <2> QED BY Zenon, <1>1, <1>3, <1>4, <2>1, <2>2, DrainQuiet
<1>5. CASE /\ keyCall[c].burn /\ burned' = IF keyCall[c].took THEN burned ELSE burned + 1
           /\ keyCall' = [keyCall EXCEPT ![c].at = next, ![c].took = TRUE]
  <2>1. keyCall'[c].at = next /\ keyCall'[c].burn = keyCall[c].burn /\ keyCall'[c].took = TRUE
      BY Zenon, <1>2, <1>5 DEF CallFields
  <2>2. KeyBusy(c)' /\ keyCall'[c].at # "record"
      BY Zenon, <2>1 DEF KeyBusy
  <2>3. keyCall[c].burn = TRUE
      BY Zenon, <1>3, <1>5 DEF TakerOK
  <2>4. TakerOK(keyCall'[c])
      BY Zenon, <1>3, <2>1, <2>2, <2>3, TakerGoesOn
  <2>5. CASE keyCall[c].took
    <3>1. keyCall[c].took = TRUE
        BY Zenon, <1>3, <2>5 DEF TakerOK
    <3> QED BY Zenon, <1>1, <1>3, <1>5, <2>1, <2>2, <3>1, DrainQuiet
  <2>6. CASE ~keyCall[c].took
    <3>1. c \in MayTake /\ c \notin HaveTaken /\ c \in HaveTaken' /\ c \notin MayTake'
        BY Zenon, <1>5, <2>1, <2>2, <2>6 DEF MayTake, HaveTaken, Turn
    <3>2. PICK h, g, m, l : /\ h = Cardinality(HaveTaken) /\ g = Cardinality(HaveTaken)'
                            /\ m = Cardinality(MayTake) /\ l = Cardinality(MayTake)'
        BY Zenon
    <3>3. /\ h \in Nat /\ g = h + 1 /\ l \in Nat /\ m = l + 1 /\ Cardinality(Open)' <= KeyMaxOpen
        BY Zenon, <3>1, <3>2, DrainCounts
    <3>4. /\ burned \in Nat /\ drained \in Nat /\ uncounted \in Nat
          /\ burned <= drained + h + uncounted
          /\ burned + m <= DrainThreshold + (KeyMaxOpen - 1) + uncounted
        BY Zenon, <3>2 DEF DrainInv
    <3>5. burned' = burned + 1 /\ drained' = drained /\ uncounted' = uncounted
        BY Zenon, <1>1, <1>5, <2>6
    <3>6. /\ burned' \in Nat /\ drained' \in Nat /\ uncounted' \in Nat
          /\ burned' <= drained' + g + uncounted'
          /\ burned' + l <= DrainThreshold + (KeyMaxOpen - 1) + uncounted'
        BY SMT, <3>3, <3>4, <3>5, KeyBounds
    <3>7. \A x \in KeyCall : KeyBusy(x)' => TakerOK(keyCall'[x])
        BY Zenon, <2>4, TakersKept
    <3> QED BY Zenon, <3>2, <3>3, <3>6, <3>7 DEF DrainInv
  <2> QED BY Zenon, <2>5, <2>6
<1> QED BY Zenon, <1>1, <1>4, <1>5

\* A fetch that ends after it took a key is counted, or missed.
LEMMA DrainEnds ==
    ASSUME KyberInv, DrainInv, NEW c \in KeyCall, Turn(c), RecordConsumption(c) \/ DropKeyCall(c)
    PROVE  DrainInv'
<1>1. keyCall'[c] = KeyOver(c, FALSE)
    BY Zenon DEF RecordConsumption, DropKeyCall, KeyEnd, KyberInv, CallsOK
<1>2. KeyOver(c, FALSE).at \in {"sent", "done"}
    BY Zenon, OverShape
<1>3. ~KeyBusy(c)'
    BY Zenon, <1>1, <1>2 DEF KeyBusy
<1>4. c \notin HaveTaken' /\ c \notin MayTake'
    BY Zenon, <1>3 DEF HaveTaken, MayTake
<1>5. TakerOK(keyCall[c]) /\ KeyBusy(c)
    BY Zenon DEF DrainInv, Turn
<1>6. c \in HaveTaken <=> keyCall[c].took
    BY Zenon, <1>5 DEF HaveTaken
<1>7. PICK h, g, m, l : /\ h = Cardinality(HaveTaken) /\ g = Cardinality(HaveTaken)'
                        /\ m = Cardinality(MayTake) /\ l = Cardinality(MayTake)'
    BY Zenon
<1>8. /\ h \in Nat /\ g \in Nat /\ m \in Nat /\ l \in Nat /\ (l = m \/ m = l + 1)
      /\ (keyCall[c].took => h = g + 1) /\ (~keyCall[c].took => h = g) /\ Cardinality(Open)' <= KeyMaxOpen
    BY Zenon, <1>4, <1>6, <1>7, DrainCounts
<1>9. /\ burned \in Nat /\ drained \in Nat /\ uncounted \in Nat
      /\ burned <= drained + h + uncounted
      /\ burned + m <= DrainThreshold + (KeyMaxOpen - 1) + uncounted
    BY Zenon, <1>7 DEF DrainInv
<1>10. /\ burned' = burned
       /\ \/ drained' = drained /\ uncounted' = uncounted /\ h = g
          \/ drained' = drained + 1 /\ uncounted' = uncounted /\ (h = g \/ h = g + 1)
          \/ drained' = drained /\ uncounted' = uncounted + 1 /\ (h = g \/ h = g + 1)
  <2>1. CASE RecordConsumption(c)
      BY Zenon, <1>8, <2>1 DEF RecordConsumption, keyHistory
  <2>2. CASE DropKeyCall(c)
      BY Zenon, <1>8, <2>2 DEF DropKeyCall, countVars
  <2> QED BY Zenon, <2>1, <2>2
<1>11. /\ burned' \in Nat /\ drained' \in Nat /\ uncounted' \in Nat
       /\ burned' <= drained' + g + uncounted'
       /\ burned' + l <= DrainThreshold + (KeyMaxOpen - 1) + uncounted'
    BY SMT, <1>8, <1>9, <1>10, KeyBounds
<1>12. \A x \in KeyCall : KeyBusy(x)' => TakerOK(keyCall'[x])
    BY Zenon, <1>3, TakersKept
<1> QED BY Zenon, <1>7, <1>8, <1>11, <1>12 DEF DrainInv

\* A step that leaves the calls in progress and the counts as they are, or adds a call that
\* has taken nothing.
LEMMA DrainElsewhere ==
    ASSUME DrainInv, UNCHANGED <<burned, drained, uncounted>>, Cardinality(Open)' <= KeyMaxOpen,
           \A x \in KeyCall : \/ ~KeyBusy(x) /\ ~KeyBusy(x)'
                              \/ keyCall'[x] = keyCall[x]
                              \/ ~KeyBusy(x) /\ TakerOK(keyCall'[x]) /\ ~keyCall'[x].burn
    PROVE  DrainInv'
<1>1. \A x \in KeyCall : KeyBusy(x)' => TakerOK(keyCall'[x])
    BY Zenon DEF DrainInv, KeyBusy
<1>2. ASSUME NEW x \in KeyCall PROVE (x \in HaveTaken <=> x \in HaveTaken') /\ (x \in MayTake <=> x \in MayTake')
  <2>1. CASE ~KeyBusy(x) /\ ~KeyBusy(x)'
      BY Zenon, <2>1 DEF HaveTaken, MayTake
  <2>2. CASE keyCall'[x] = keyCall[x]
      BY Zenon, <2>2 DEF HaveTaken, MayTake, KeyBusy
  <2>3. CASE ~KeyBusy(x) /\ TakerOK(keyCall'[x]) /\ ~keyCall'[x].burn
      BY Zenon, <2>3 DEF HaveTaken, MayTake, TakerOK
  <2> QED BY Zenon, <2>1, <2>2, <2>3
<1>3. HaveTaken' = HaveTaken /\ MayTake' = MayTake
  <2>1. HaveTaken \subseteq KeyCall /\ MayTake \subseteq KeyCall /\ HaveTaken' \subseteq KeyCall /\ MayTake' \subseteq KeyCall
      BY Zenon DEF HaveTaken, MayTake
  <2> QED BY Zenon, <1>2, <2>1
<1> QED BY Zenon, <1>1, <1>3 DEF DrainInv

\* Every step keeps the account of the keys taken.
LEMMA DrainStep ==
    ASSUME KyberInv, DrainInv, [KeysNext]_keyVars
    PROVE  DrainInv'
<1> USE DEF countVars, keyHistory
<1>1. ASSUME NEW c \in KeyCall, Step(c), Turn(c) PROVE DrainInv'
  <2>1. CASE ResolveConsumption(c)
      BY Zenon, <1>1, <2>1, DrainResolve
  <2>2. CASE TakeClassic(c) \/ TakeKyber(c)
      BY Zenon, <1>1, <2>2, DrainTake
  <2>3. CASE RecordConsumption(c) \/ DropKeyCall(c)
      BY Zenon, <1>1, <2>3, DrainEnds
  <2>4. TakerOK(keyCall[c]) /\ OpenOK(keyCall[c]) /\ DOMAIN keyCall = KeyCall
      BY Zenon, <1>1 DEF DrainInv, Turn, KyberInv, CallsOK
  <2>5. ASSUME UNCHANGED <<burned, drained, uncounted>>, keyCall[c].at \notin {"resolve", "classic", "kyber"},
               keyCall'[c].at = "record" => keyCall[c].took, keyCall[c].took => KeyBusy(c)'
        PROVE  DrainInv'
    <3>1. KeyBusy(c)' => keyCall'[c].burn = keyCall[c].burn /\ keyCall'[c].took = keyCall[c].took
        BY Zenon, <1>1, <2>5, TurnPlaces DEF Kept, KeyBusy
    <3> QED BY Zenon, <1>1, <2>5, <3>1, DrainQuiet
  <2>6. CASE CountBundle(c) \/ ReadRows(c)
    <3>1. UNCHANGED <<burned, drained, uncounted>> /\ keyCall[c].at \in {"rate", "rows"}
        BY Zenon, <2>6 DEF CountBundle, ReadRows
    <3>2. ~keyCall[c].took
        BY Zenon, <2>4, <3>1 DEF TakerOK
    <3>3. keyCall'[c].at # "record"
        BY Zenon, <1>1, <3>1, TurnPlaces DEF Passage
    <3> QED BY Zenon, <2>5, <3>1, <3>2, <3>3
  <2>7. CASE (\E kind \in {"identity", "hybrid"} : EnsureLeaf(c, kind) \/ AppendLeaf(c, kind))
             \/ LoadTree(c) \/ ProofsFail(c)
    <3>1. UNCHANGED <<burned, drained, uncounted>>
        BY Zenon, <2>7 DEF EnsureLeaf, AppendLeaf, LoadTree, ProofsFail
    <3>2. keyCall[c].at \in {"identityLeaf", "identityAppend", "hybridLeaf", "hybridAppend", "tree"}
        BY Zenon, <2>7 DEF EnsureLeaf, AppendLeaf, LoadTree, ProofsFail, LeafAt, AppendAt
    <3>3. keyCall'[c].at \notin {"sent", "done"}
      <4>1. DOMAIN keyCall[c] = CallFields
          BY Zenon, <2>4 DEF OpenOK
      <4>2. ASSUME NEW kind \in {"identity", "hybrid"}, EnsureLeaf(c, kind) \/ AppendLeaf(c, kind)
            PROVE  keyCall'[c].at \notin {"sent", "done"}
        <5>1. PICK next : next = AfterLeaf(c, kind)
            BY Zenon
        <5>2. next \notin {"sent", "done"} /\ AppendAt(kind) \notin {"sent", "done"}
            BY Zenon, <5>1 DEF AfterLeaf, AppendAt
        <5>3. \/ \E leaf : keyCall' = [keyCall EXCEPT ![c].at = next, ![c].leaf = leaf]
              \/ KeyGo(c, AppendAt(kind))
            BY Zenon, <4>2, <5>1 DEF EnsureLeaf, AppendLeaf
        <5>4. ASSUME NEW leaf, keyCall' = [keyCall EXCEPT ![c].at = next, ![c].leaf = leaf]
              PROVE  keyCall'[c].at = next
            BY Zenon, <2>4, <4>1, <5>4 DEF CallFields
        <5>5. PICK wait : wait = AppendAt(kind)
            BY Zenon
        <5>6. ASSUME KeyGo(c, wait) PROVE keyCall'[c].at = wait
            BY Zenon, <2>4, <4>1, <5>6 DEF KeyGo, CallFields
        <5> QED BY Zenon, <5>2, <5>3, <5>4, <5>5, <5>6
      <4>3. CASE LoadTree(c) \/ ProofsFail(c)
        <5>1. PICK size, leaf : \/ keyCall' = [keyCall EXCEPT ![c].at = "bundle", ![c].size = size]
                               \/ keyCall' = [keyCall EXCEPT ![c].at = "bundle", ![c].leaf = leaf]
            BY Zenon, <4>3 DEF LoadTree, ProofsFail
        <5>2. CASE keyCall' = [keyCall EXCEPT ![c].at = "bundle", ![c].size = size]
            BY Zenon, <2>4, <4>1, <5>2 DEF CallFields
        <5>3. CASE keyCall' = [keyCall EXCEPT ![c].at = "bundle", ![c].leaf = leaf]
            BY Zenon, <2>4, <4>1, <5>3 DEF CallFields
        <5> QED BY Zenon, <5>1, <5>2, <5>3
      <4> QED BY Zenon, <2>7, <4>2, <4>3
    <3>4. Passage(keyCall[c].at, keyCall'[c].at)
        BY Zenon, <1>1, <3>3, TurnPlaces
    <3>5. KeyBusy(c)' /\ keyCall'[c].at # "record"
        BY Zenon, <3>2, <3>4 DEF KeyBusy, Passage
    <3> QED BY Zenon, <2>5, <3>1, <3>2, <3>5
  <2>8. CASE FinishBundle(c)
    <3>1. UNCHANGED <<burned, drained, uncounted>> /\ keyCall[c].at = "bundle"
        BY Zenon, <2>8 DEF FinishBundle
    <3>2. CASE keyCall[c].todo # {}
      <4>1. PICK d : keyCall' = [keyCall EXCEPT ![c].at = "classic", ![c].dev = d, ![c].todo = @ \ {d},
                                                ![c].leaf = <<>>, ![c].size = 0]
          BY Zenon, <2>8, <3>2 DEF FinishBundle
      <4>2. keyCall'[c].at = "classic"
          BY Zenon, <2>4, <4>1 DEF OpenOK, CallFields
      <4>3. KeyBusy(c)' /\ keyCall'[c].at # "record"
          BY Zenon, <4>2 DEF KeyBusy
      <4> QED BY Zenon, <2>5, <3>1, <4>3
    <3>3. CASE keyCall[c].todo = {} /\ keyCall[c].took
      <4>1. KeyGo(c, "record")
          BY Zenon, <2>8, <3>3 DEF FinishBundle
      <4>2. keyCall'[c].at = "record"
          BY Zenon, <2>4, <4>1 DEF KeyGo, OpenOK, CallFields
      <4>3. KeyBusy(c)'
          BY Zenon, <4>2 DEF KeyBusy
      <4> QED BY Zenon, <2>5, <3>1, <3>3, <4>3
    <3>4. CASE keyCall[c].todo = {} /\ ~keyCall[c].took
      <4>1. keyCall'[c] = KeyOver(c, FALSE)
          BY Zenon, <2>4, <2>8, <3>4 DEF FinishBundle, KeyEnd
      <4>2. KeyOver(c, FALSE).at \in {"sent", "done"}
          BY Zenon, OverShape
      <4>3. keyCall'[c].at # "record"
          BY Zenon, <4>1, <4>2
      <4> QED BY Zenon, <2>5, <3>1, <3>4, <4>3
    <3> QED BY Zenon, <3>2, <3>3, <3>4
  <2>9. CASE UploadStep(c) \/ ReadHybrid(c) \/ RotateKeys(c)
    <3>1. UNCHANGED <<burned, drained, uncounted>>
        BY Zenon, <2>9 DEF UploadStep, CountKeys, CountReplace, UploadSpk, ReadKeys, WriteHybrid,
               CheckKeys, ExpireClassic, ExpireKyber, ExpireKeys, InsertClassic, InsertKyber, InsertKey,
               NextInserts, ReadHybrid, RotateKeys
    <3>2. keyCall[c].at \in UploadPlace \cup RotatePlace
        BY Zenon, <2>9 DEF UploadStep, CountKeys, CountReplace, UploadSpk, ReadKeys, WriteHybrid,
               CheckKeys, ExpireClassic, ExpireKyber, ExpireKeys, InsertClassic, InsertKyber, InsertKey,
               NextInserts, ReadHybrid, RotateKeys, UploadPlace, RotatePlace
    <3>3. keyCall[c].at \notin FetchPlace
        BY Zenon, <3>2 DEF UploadPlace, RotatePlace, FetchPlace
    <3>4. ~keyCall[c].took
        BY Zenon, <2>4, <3>3 DEF TakerOK
    <3>5. keyCall'[c].at # "record" /\ keyCall[c].at \notin {"resolve", "classic", "kyber"}
        BY Zenon, <1>1, <3>3, TurnPlaces DEF Passage, FetchPlace
    <3> QED BY Zenon, <2>5, <3>1, <3>4, <3>5
  <2> QED BY Zenon, <1>1, <2>1, <2>2, <2>3, <2>6, <2>7, <2>8, <2>9 DEF Step, FetchStep
<1>2. ASSUME NEW c \in KeyCall, NEW b \in KeyBatches(c, keyCall[c].req), BeginKeyCall(c, b) PROVE DrainInv'
  <2>1. PICK r : r = OpenCall(c, b)
      BY Zenon
  <2>2. keyCall'[c] = r /\ \A x \in KeyCall \ {c} : keyCall'[x] = keyCall[x]
      BY Zenon, <1>2, <2>1 DEF BeginKeyCall, KyberInv, CallsOK
  <2>3. UNCHANGED <<burned, drained, uncounted>> /\ ~KeyBusy(c)
      BY Zenon, <1>2 DEF BeginKeyCall, KeyBusy
  <2>4. r.burn = FALSE /\ r.took = FALSE
      BY Zenon, <2>1 DEF OpenCall
  <2>5. r.at # "record"
    <3>1. KeyRequestOK(keyCall[c].req)
        BY Zenon, <1>2 DEF BeginKeyCall, KyberInv, CallsOK, CallOK, OpenOK, FetchPlace, UploadPlace, RotatePlace
    <3>2. keyCall[c].req.op \in {"fetch", "upload", "rotate"}
        BY Zenon, <3>1 DEF KeyRequestOK
    <3>3. r.at = (CASE keyCall[c].req.op = "fetch" -> "resolve" [] keyCall[c].req.op = "upload" -> "counts"
                    [] keyCall[c].req.op = "rotate" -> "readHybrid")
        BY Zenon, <2>1 DEF OpenCall
    <3> QED BY Zenon, <3>2, <3>3
  <2>6. TakerOK(keyCall'[c]) /\ ~keyCall'[c].burn
      BY Zenon, <2>2, <2>4, <2>5 DEF TakerOK
  <2>7. Cardinality(Open)' <= KeyMaxOpen
    <3>1. PICK O, P : O = Open /\ P = Open'
        BY Zenon
    <3>2. O \ {c} = P \ {c}
        BY Zenon, <2>2, <3>1, TakersMove
    <3>3. Cardinality(O) < KeyMaxOpen
        BY Zenon, <1>2, <3>1 DEF BeginKeyCall, Open
    <3>4. /\ Cardinality(O) \in Nat /\ Cardinality(P) \in Nat
          /\ (Cardinality(P) = Cardinality(O) + 1 \/ Cardinality(P) = Cardinality(O)
              \/ Cardinality(O) = Cardinality(P) + 1)
        BY Zenon, <3>1, <3>2, TakersFinite, OneElement
    <3>5. Cardinality(P) <= KeyMaxOpen
        BY SMT, <3>3, <3>4, KeyBounds
    <3> QED BY Zenon, <3>1, <3>5
  <2> QED BY Zenon, <2>2, <2>3, <2>6, <2>7, DrainElsewhere
<1>3. ASSUME UNCHANGED <<burned, drained, uncounted>>,
             \A x \in KeyCall : (~KeyBusy(x) /\ ~KeyBusy(x)') \/ keyCall'[x] = keyCall[x]
      PROVE  DrainInv'
  <2>1. \A x \in KeyCall : KeyBusy(x)' <=> KeyBusy(x)
      BY Zenon, <1>3 DEF KeyBusy
  <2>2. Open' = Open
      BY Zenon, <2>1 DEF Open
  <2>3. Cardinality(Open)' <= KeyMaxOpen
      BY Zenon, <2>2 DEF DrainInv
  <2> QED BY Zenon, <1>3, <2>3, DrainElsewhere
<1>4. ASSUME NEW d \in KeyDevice, RevokeDevice(d) PROVE DrainInv'
    BY Zenon, <1>3, <1>4 DEF RevokeDevice
<1>5. CASE CleanupExpired
  <2>1. \A x \in KeyCall : ~KeyBusy(x) /\ ~KeyBusy(x)'
      BY Zenon, <1>5, NobodyWrites
  <2>2. UNCHANGED <<burned, drained, uncounted>>
      BY Zenon, <1>5 DEF CleanupExpired
  <2> QED BY Zenon, <1>3, <2>1, <2>2
<1>6. CASE UNCHANGED keyVars
  <2>1. UNCHANGED <<burned, drained, uncounted>> /\ keyCall' = keyCall
      BY Zenon, <1>6 DEF keyVars
  <2> QED BY Zenon, <1>3, <2>1
<1> QED BY Zenon, <1>1, <1>2, <1>4, <1>5, <1>6, NextKinds

\* Nothing is taken at first.
LEMMA DrainInit == KeysInit => DrainInv
<1> SUFFICES ASSUME KeysInit PROVE DrainInv
    BY Zenon
<1>1. \A c \in KeyCall : ~KeyBusy(c)
  <2>1. \A c \in KeyCall : keyCall[c].at = "idle"
      BY SMT DEF KeysInit
  <2> QED BY Zenon, <2>1 DEF KeyBusy
<1>2. Open = {} /\ MayTake = {} /\ HaveTaken = {}
    BY Zenon, <1>1 DEF Open, MayTake, HaveTaken
<1>3. Cardinality(Open) = 0 /\ Cardinality(MayTake) = 0 /\ Cardinality(HaveTaken) = 0
    BY Zenon, <1>2, FS_EmptySet
<1>4. burned = 0 /\ drained = 0 /\ uncounted = 0
    BY Zenon DEF KeysInit
<1>5. /\ burned \in Nat /\ drained \in Nat /\ uncounted \in Nat /\ Cardinality(Open) <= KeyMaxOpen
      /\ burned <= drained + Cardinality(HaveTaken) + uncounted
      /\ burned + Cardinality(MayTake) <= DrainThreshold + (KeyMaxOpen - 1) + uncounted
    BY SMT, <1>3, <1>4, KeyBounds
<1> QED BY Zenon, <1>1, <1>5 DEF DrainInv

\* The threshold is passed by no more than the fetches in flight and those not counted.
LEMMA DrainHolds == DrainInv => DrainBound
<1> SUFFICES ASSUME DrainInv PROVE DrainBound
    BY Zenon
<1>1. PICK m : m = Cardinality(MayTake)
    BY Zenon
<1>2. m \in Nat /\ burned \in Nat /\ uncounted \in Nat /\ burned + m <= DrainThreshold + (KeyMaxOpen - 1) + uncounted
    BY Zenon, <1>1, TakersFinite DEF DrainInv
<1> QED BY SMT, <1>2, KeyBounds DEF DrainBound

-----------------------------------------------------------------------------
(* The limit on stored keys.                                               *)

\* There is still room when keys go, and when the keys that were to expire have.
LEMMA RoomStays ==
    ASSUME NEW A, NEW B, NEW S, NEW T, IsFiniteSet(A), IsFiniteSet(S), B \subseteq A, T \subseteq S,
           NEW e, NEW f, Room(A, S, e), e => f \/ B = {}
    PROVE  Room(B, T, f)
<1>1. PICK a, b, s, t : a = Cardinality(A) /\ b = Cardinality(B) /\ s = Cardinality(S) /\ t = Cardinality(T)
    BY Zenon
<1>2. IsFiniteSet(B) /\ IsFiniteSet(T) /\ b <= a /\ t <= s
    BY Zenon, <1>1, FS_Subset
<1>3. a \in Nat /\ b \in Nat /\ s \in Nat /\ t \in Nat
    BY Zenon, <1>1, <1>2, FS_CardinalityType
<1>4. B = {} => b = 0
    BY Zenon, <1>1, FS_EmptySet
<1>5. (e /\ s <= MaxStored) \/ (~e /\ a + s <= MaxStored)
  <2>1. (IF e THEN 0 ELSE a) + s <= MaxStored
      BY Zenon, <1>1 DEF Room
  <2>2. e => 0 + s <= MaxStored
      BY Zenon, <2>1
  <2>3. ~e => a + s <= MaxStored
      BY Zenon, <2>1
  <2>4. 0 + s = s
      BY SMT, <1>3
  <2> QED BY Zenon, <2>2, <2>3, <2>4
<1>6. t <= MaxStored /\ (f \/ b + t <= MaxStored)
  <2>1. CASE e /\ f
    <3>1. s <= MaxStored
        BY Zenon, <1>5, <2>1
    <3>2. t <= MaxStored
        BY SMT, <1>2, <1>3, <3>1, KeyBounds
    <3> QED BY Zenon, <2>1, <3>2
  <2>2. CASE e /\ B = {}
    <3>1. s <= MaxStored /\ b = 0
        BY Zenon, <1>4, <1>5, <2>2
    <3> QED BY SMT, <1>2, <1>3, <3>1, KeyBounds
  <2>3. CASE ~e
    <3>1. a + s <= MaxStored
        BY Zenon, <1>5, <2>3
    <3> QED BY SMT, <1>2, <1>3, <3>1, KeyBounds
  <2> QED BY Zenon, <2>1, <2>2, <2>3
<1>7. 0 + t = t
    BY SMT, <1>3
<1>8. (IF f THEN 0 ELSE b) + t <= MaxStored
    BY Zenon, <1>6, <1>7
<1> QED BY Zenon, <1>1, <1>8 DEF Room

\* A key that was to come takes its place among those held.
LEMMA RoomTaken ==
    ASSUME NEW A, NEW B, NEW S, NEW id \in S, NEW new, IsFiniteSet(A), IsFiniteSet(S),
           B \subseteq A \cup {new}, Room(A, S, FALSE)
    PROVE  IsFiniteSet(B) /\ Cardinality(B) <= MaxStored /\ Room(B, S \ {id}, FALSE)
<1>1. PICK a, b, m, s, t : /\ a = Cardinality(A) /\ b = Cardinality(B) /\ s = Cardinality(S)
                           /\ t = Cardinality(S \ {id}) /\ m = Cardinality(A \cup {new})
    BY Zenon
<1>2. IsFiniteSet(A \cup {new}) /\ (m = a \/ m = a + 1)
    BY Zenon, <1>1, FS_AddElement
<1>3. IsFiniteSet(S \ {id}) /\ t = s - 1
    BY Zenon, <1>1, FS_RemoveElement
<1>4. IsFiniteSet(B) /\ b <= m
    BY Zenon, <1>1, <1>2, FS_Subset
<1>5. a \in Nat /\ b \in Nat /\ m \in Nat /\ s \in Nat /\ t \in Nat
    BY Zenon, <1>1, <1>2, <1>3, <1>4, FS_CardinalityType
<1>6. a + s <= MaxStored
    BY Zenon, <1>1 DEF Room
<1>7. b <= MaxStored /\ b + t <= MaxStored
    BY SMT, <1>2, <1>3, <1>4, <1>5, <1>6, KeyBounds
<1> QED BY Zenon, <1>1, <1>4, <1>7 DEF Room

\* The keys an upload may still insert are of its request, so they are finitely many.
LEMMA ComingFinite ==
    ASSUME NEW r, OpenOK(r), r.at \in UploadPlace, r.ids \subseteq r.req.ids, NEW kind
    PROVE  IsFiniteSet(r.req.ids) /\ IsFiniteSet(Coming(r, kind)) /\ Coming(r, kind) \subseteq r.req.ids
<1>1. r.req.ids \subseteq KeyId
    BY Zenon DEF OpenOK, KeyRequestOK
<1>2. IsFiniteSet(r.req.ids)
    BY Zenon, <1>1, KeyBounds, FS_Subset
<1>3. Coming(r, kind) \subseteq r.req.ids
    BY Zenon DEF Coming
<1> QED BY Zenon, <1>2, <1>3, FS_Subset

\* A step of one call keeps what is stored within its limit when it adds keys to no device
\* but its own, and its own still has room.
LEMMA StoredTurn ==
    ASSUME KyberInv, OneWriter, StoredInv, NEW c \in KeyCall, Turn(c), UNCHANGED overlapped,
           \A kind \in KeyKind, d \in KeyDevice :
               \/ ActiveKeys(kind, d)' \subseteq ActiveKeys(kind, d)
               \/ /\ Writing(c, d) /\ IsFiniteSet(ActiveKeys(kind, d)')
                  /\ d \notin overlapped => Cardinality(ActiveKeys(kind, d)') <= MaxStored,
           KeyBusy(c)' /\ keyCall'[c].at \in UploadPlace => UploadFits(c)'
    PROVE  StoredInv'
<1>1. ASSUME NEW kind \in KeyKind, NEW d \in KeyDevice
      PROVE  /\ IsFiniteSet(ActiveKeys(kind, d)')
             /\ d \notin overlapped => Cardinality(ActiveKeys(kind, d)') <= MaxStored
  <2>1. PICK A, B : A = ActiveKeys(kind, d) /\ B = ActiveKeys(kind, d)'
      BY Zenon
  <2>2. CASE B \subseteq A
    <3>1. IsFiniteSet(A) /\ (d \notin overlapped => Cardinality(A) <= MaxStored)
        BY Zenon, <2>1 DEF StoredInv, StoredOK, StoredBound
    <3>2. IsFiniteSet(B) /\ Cardinality(B) <= Cardinality(A)
        BY Zenon, <2>2, <3>1, FS_Subset
    <3>3. Cardinality(A) \in Nat /\ Cardinality(B) \in Nat
        BY Zenon, <3>1, <3>2, FS_CardinalityType
    <3>4. Cardinality(A) <= MaxStored => Cardinality(B) <= MaxStored
        BY SMT, <3>2, <3>3, KeyBounds
    <3> QED BY Zenon, <2>1, <3>1, <3>2, <3>4
  <2>3. CASE ~(B \subseteq A)
      BY Zenon, <2>1, <2>3
  <2> QED BY Zenon, <2>2, <2>3
<1>2. ASSUME NEW x \in KeyCall, KeyBusy(x)', keyCall'[x].at \in UploadPlace, x # c
      PROVE  UploadFits(x)'
  <2>1. PICK r, d : r = keyCall[x] /\ d = keyCall[x].req.dev
      BY Zenon
  <2>2. keyCall'[x] = r
      BY Zenon, <1>2, <2>1 DEF Turn
  <2>3. KeyBusy(x) /\ r.at \in UploadPlace
      BY Zenon, <1>2, <2>1, <2>2 DEF KeyBusy
  <2>4. OpenOK(r) /\ UploadFits(x)
      BY Zenon, <2>1, <2>3, BusyOpen DEF StoredInv, StoredOK
  <2>5. d \in KeyDevice /\ Writing(x, d)
      BY Zenon, <2>1, <2>3, <2>4 DEF OpenOK, KeyRequestOK, Writing, WritesKeys
  <2>6. r.ids \subseteq r.req.ids
      BY Zenon, <2>1, <2>4 DEF UploadFits
  <2>7. ASSUME r.at # "counts", d \notin overlapped, NEW kind \in r.req.kinds \cap KeyKind
        PROVE  Room(ActiveKeys(kind, d)', Coming(r, kind), WillExpire(r, kind))
    <3>1. PICK A, B, S, e : /\ A = ActiveKeys(kind, d) /\ B = ActiveKeys(kind, d)' /\ S = Coming(r, kind)
                            /\ e = WillExpire(r, kind)
        BY Zenon
    <3>2. Room(A, S, e)
        BY Zenon, <2>1, <2>4, <2>7, <3>1 DEF UploadFits
    <3>3. IsFiniteSet(A) /\ IsFiniteSet(S)
        BY Zenon, <2>3, <2>4, <2>5, <2>6, <2>7, <3>1, ComingFinite DEF StoredInv, StoredOK
    <3>4. ~Writing(c, d)
        BY Zenon, <1>2, <2>5, <2>7 DEF OneWriter
    <3>5. B \subseteq A
        BY Zenon, <2>5, <2>7, <3>1, <3>4
    <3>6. Room(B, S, e)
        BY Zenon, <3>2, <3>3, <3>5, RoomStays
    <3> QED BY Zenon, <3>1, <3>6
  <2>8. r.req.dev = d
      BY Zenon, <2>1
  <2> QED BY Zenon, <2>2, <2>6, <2>7, <2>8 DEF UploadFits
<1>3. \A x \in KeyCall : KeyBusy(x)' /\ keyCall'[x].at \in UploadPlace => UploadFits(x)'
    BY Zenon, <1>2
<1>4. StoredOK'
    BY Zenon, <1>1, <1>3 DEF StoredOK
<1>5. StoredBound'
    BY Zenon, <1>1 DEF StoredBound
<1> QED BY Zenon, <1>4, <1>5 DEF StoredInv

\* As an upload goes on it has fewer keys to insert; what it was to expire it still is, or it
\* has come to expire it.
LEMMA ComingShrinks ==
    ASSUME NEW r, NEW s, Kept(r, s), Passage(r.at, s.at), r.at \in UploadPlace,
           r.ids \subseteq r.req.ids, s.ids \subseteq s.req.ids,
           r.at = "exists" /\ s.at = "insert" => ~r.req.replace,
           NEW kind \in KeyKind
    PROVE  /\ Coming(s, kind) \subseteq Coming(r, kind)
           /\ WillExpire(r, kind) => \/ WillExpire(s, kind)
                                     \/ r.at = "expire" /\ kind = "classic"
                                     \/ r.at = "expireKyber" /\ kind = "kyber"
<1>1. s.req = r.req /\ (r.at = s.at => s.ids \subseteq r.ids)
    BY Zenon DEF Kept
<1>2. Coming(s, kind) \subseteq s.req.ids
    BY Zenon DEF Coming
<1>3. CASE r.at \notin {"insert", "insertKyber"}
  <2>1. Coming(r, kind) = r.req.ids
      BY Zenon, <1>3 DEF Coming
  <2>2. Coming(s, kind) \subseteq Coming(r, kind)
      BY Zenon, <1>1, <1>2, <2>1
  <2>3. ASSUME WillExpire(r, kind)
        PROVE  \/ WillExpire(s, kind)
               \/ r.at = "expire" /\ kind = "classic"
               \/ r.at = "expireKyber" /\ kind = "kyber"
    <3>1. r.req.replace /\ s.req.replace /\ (kind = "classic" => r.at # "expireKyber")
        BY Zenon, <1>1, <2>3 DEF WillExpire
    <3>2. kind = "classic" \/ kind = "kyber"
        BY Zenon DEF KeyKind
    <3>3. CASE r.at \in {"expire", "expireKyber"}
      <4>1. r.at = "expire" => s.at = "expireKyber"
          BY Zenon DEF Passage
      <4> QED BY Zenon, <3>1, <3>2, <3>3, <4>1 DEF WillExpire, EarlyPlace, UploadPlace
    <3>4. CASE r.at \notin {"expire", "expireKyber"}
      <4>1. s.at \in EarlyPlace /\ s.at # "expireKyber"
          BY Zenon, <1>3, <3>1, <3>4 DEF Passage, EarlyPlace, UploadPlace
      <4> QED BY Zenon, <3>1, <4>1 DEF WillExpire
    <3> QED BY Zenon, <3>3, <3>4
  <2> QED BY Zenon, <2>2, <2>3
<1>4. CASE r.at = "insert"
  <2>1. s.at \in {"insert", "insertKyber"} /\ ~WillExpire(r, kind)
      BY Zenon, <1>4 DEF Passage, WillExpire, EarlyPlace
  <2>2. CASE kind = "classic"
    <3>1. Coming(r, kind) = r.ids
        BY Zenon, <1>4, <2>2 DEF Coming
    <3>2. Coming(s, kind) \subseteq r.ids
        BY Zenon, <1>1, <1>4, <2>1, <2>2 DEF Coming
    <3> QED BY Zenon, <2>1, <3>1, <3>2
  <2>3. CASE kind # "classic"
    <3>1. Coming(r, kind) = r.req.ids
        BY Zenon, <1>4, <2>3 DEF Coming
    <3> QED BY Zenon, <1>1, <1>2, <2>1, <3>1
  <2> QED BY Zenon, <2>2, <2>3
<1>5. CASE r.at = "insertKyber"
  <2>1. s.at = "insertKyber" /\ ~WillExpire(r, kind)
      BY Zenon, <1>5 DEF Passage, WillExpire, EarlyPlace
  <2>2. Coming(s, kind) \subseteq Coming(r, kind)
      BY Zenon, <1>1, <1>5, <2>1 DEF Coming
  <2> QED BY Zenon, <2>1, <2>2
<1> QED BY Zenon, <1>3, <1>4, <1>5

\* An upload past the count of what is held still fits, if its step adds no key and expires
\* what it is there to expire.
LEMMA FitsGoesOn ==
    ASSUME KyberInv, StoredInv, NEW c \in KeyCall, Turn(c), UNCHANGED overlapped,
           keyCall[c].at \in UploadPlace \ {"counts"}, KeyBusy(c)',
           keyCall'[c].ids \subseteq keyCall'[c].req.ids,
           keyCall[c].at = "exists" /\ keyCall'[c].at = "insert" => ~keyCall[c].req.replace,
           NEW d, d = keyCall[c].req.dev,
           \A kind \in KeyKind : ActiveKeys(kind, d)' \subseteq ActiveKeys(kind, d),
           keyCall[c].at = "expire" => ActiveKeys("classic", d)' = {},
           keyCall[c].at = "expireKyber" => ActiveKeys("kyber", d)' = {}
    PROVE  UploadFits(c)'
<1>1. PICK r, s : r = keyCall[c] /\ s = keyCall'[c]
    BY Zenon
<1>2. Kept(r, s) /\ Passage(r.at, s.at) /\ OpenOK(r) /\ OpenOK(s)
  <2>1. keyCall'[c].at \notin {"sent", "done"}
      BY Zenon DEF KeyBusy
  <2> QED BY Zenon, <1>1, <2>1, TurnPlaces DEF Turn
<1>3. s.req = r.req /\ s.req.dev = d /\ r.at \in UploadPlace
    BY Zenon, <1>1, <1>2 DEF Kept
<1>4. UploadFits(c) /\ d \in KeyDevice
    BY Zenon, <1>1, <1>2, <1>3 DEF StoredInv, StoredOK, Turn, OpenOK, KeyRequestOK
<1>5. r.ids \subseteq r.req.ids
    BY Zenon, <1>1, <1>4 DEF UploadFits
<1>6. ASSUME d \notin overlapped, NEW kind \in s.req.kinds \cap KeyKind
      PROVE  Room(ActiveKeys(kind, d)', Coming(s, kind), WillExpire(s, kind))
  <2>1. PICK A, B, S, T, e, f : /\ A = ActiveKeys(kind, d) /\ B = ActiveKeys(kind, d)'
                                /\ S = Coming(r, kind) /\ T = Coming(s, kind)
                                /\ e = WillExpire(r, kind) /\ f = WillExpire(s, kind)
      BY Zenon
  <2>2. Room(A, S, e)
    <3>1. r.at # "counts" /\ r.req.dev = d /\ kind \in r.req.kinds \cap KeyKind
        BY Zenon, <1>1, <1>3, <1>6
    <3> QED BY Zenon, <1>1, <1>4, <1>6, <2>1, <3>1 DEF UploadFits
  <2>3. IsFiniteSet(A) /\ IsFiniteSet(S)
      BY Zenon, <1>2, <1>3, <1>4, <1>5, <1>6, <2>1, ComingFinite DEF StoredInv, StoredOK
  <2>4. r.at = "exists" /\ s.at = "insert" => ~r.req.replace
      BY Zenon, <1>1
  <2>5. s.ids \subseteq s.req.ids
      BY Zenon, <1>1
  <2>6. T \subseteq S /\ (e => f \/ (r.at = "expire" /\ kind = "classic") \/ (r.at = "expireKyber" /\ kind = "kyber"))
      BY Zenon, <1>2, <1>3, <1>5, <1>6, <2>1, <2>4, <2>5, ComingShrinks
  <2>7. B \subseteq A
      BY Zenon, <1>6, <2>1
  <2>8. e => f \/ B = {}
      BY Zenon, <1>1, <2>1, <2>6
  <2>9. Room(B, T, f)
      BY Zenon, <2>2, <2>3, <2>6, <2>7, <2>8, RoomStays
  <2> QED BY Zenon, <2>1, <2>9
<1>7. s.ids \subseteq s.req.ids
    BY Zenon, <1>1
<1> QED BY Zenon, <1>1, <1>3, <1>6, <1>7 DEF UploadFits

\* A statement on one table of one device.
LEMMA OneTable ==
    ASSUME KyberInv, NEW kind \in KeyKind, NEW d \in KeyDevice, NEW T,
           pool' = [pool EXCEPT ![kind][d] = T]
    PROVE  /\ ActiveKeys(kind, d)' = {k \in T : ~k.expired}
           /\ \A other \in KeyKind, e \in KeyDevice :
                  other # kind \/ e # d => ActiveKeys(other, e)' = ActiveKeys(other, e)
<1>1. DOMAIN pool = KeyKind /\ \A other \in KeyKind : DOMAIN pool[other] = KeyDevice
    BY Zenon DEF KyberInv, TableOK
<1>2. pool'[kind][d] = T
    BY Zenon, <1>1
<1>3. \A other \in KeyKind, e \in KeyDevice : other # kind \/ e # d => pool'[other][e] = pool[other][e]
    BY Zenon, <1>1
<1> QED BY Zenon, <1>2, <1>3 DEF ActiveKeys

\* Nothing is added to the tables and the upload, if it is one, still fits.
LEMMA StoredQuiet ==
    ASSUME KyberInv, OneWriter, StoredInv, NEW c \in KeyCall, Turn(c), UNCHANGED <<pool, overlapped>>,
           KeyBusy(c)' /\ keyCall'[c].at \in UploadPlace => UploadFits(c)'
    PROVE  StoredInv'
<1>1. \A kind \in KeyKind, d \in KeyDevice : ActiveKeys(kind, d)' = ActiveKeys(kind, d)
    BY Zenon DEF ActiveKeys
<1> QED BY Zenon, <1>1, StoredTurn

\* A step of a call that is no upload, nor adds a key.
LEMMA StoredOther ==
    ASSUME KyberInv, OneWriter, StoredInv, NEW c \in KeyCall, Turn(c), UNCHANGED <<pool, overlapped>>,
           keyCall[c].at \notin UploadPlace \/ ~KeyBusy(c)'
    PROVE  StoredInv'
<1>1. ~(KeyBusy(c)' /\ keyCall'[c].at \in UploadPlace)
  <2>1. CASE keyCall[c].at \notin UploadPlace
      BY Zenon, <2>1, TurnPlaces DEF Passage, UploadPlace
  <2> QED BY Zenon, <2>1
<1> QED BY Zenon, <1>1, StoredQuiet

\* A fetch takes keys and adds none.
LEMMA StoredTake ==
    ASSUME KyberInv, OneWriter, StoredInv, NEW c \in KeyCall, Turn(c), TakeClassic(c) \/ TakeKyber(c)
    PROVE  StoredInv'
<1>1. ASSUME NEW kind \in KeyKind, NEW next, TakeKey(c, kind, next) PROVE StoredInv'
  <2>1. UNCHANGED overlapped /\ keyCall[c].at = kind
      BY Zenon, <1>1 DEF TakeKey
  <2>2. kind = "classic" \/ kind = "kyber"
      BY Zenon DEF KeyKind
  <2>3. keyCall[c].at \notin UploadPlace
      BY Zenon, <2>1, <2>2 DEF UploadPlace
  <2>4. CASE UNCHANGED pool
      BY Zenon, <2>1, <2>3, <2>4, StoredOther
  <2>5. PICK d : d = keyCall[c].dev
      BY Zenon
  <2>6. ASSUME NEW row \in ActiveKeys(kind, d), pool' = [pool EXCEPT ![kind][d] = TakenFrom(kind, d, row)]
        PROVE  StoredInv'
    <3>1. d \in KeyDevice
        BY Zenon, <2>1, <2>2, <2>5 DEF Turn, OpenOK
    <3>2. PICK T : T = TakenFrom(kind, d, row)
        BY Zenon
    <3>3. pool' = [pool EXCEPT ![kind][d] = T]
        BY Zenon, <2>6, <3>2
    <3>4. ActiveKeys(kind, d)' = {k \in T : ~k.expired}
        BY Zenon, <3>1, <3>3, OneTable
    <3>5. \A k \in T : k.expired \/ k \in pool[kind][d]
      <4>1. ExpiredRow(row).expired
          BY Zenon DEF ExpiredRow, KeyRowOf
      <4>2. \A k \in T : k \in pool[kind][d] \/ k = ExpiredRow(row)
          BY Zenon, <3>2 DEF TakenFrom
      <4> QED BY Zenon, <4>1, <4>2
    <3>6. ActiveKeys(kind, d)' \subseteq ActiveKeys(kind, d)
        BY Zenon, <3>4, <3>5 DEF ActiveKeys
    <3>7. \A other \in KeyKind, e \in KeyDevice :
              other # kind \/ e # d => ActiveKeys(other, e)' = ActiveKeys(other, e)
        BY Zenon, <3>1, <3>3, OneTable
    <3>8. \A other \in KeyKind, e \in KeyDevice : ActiveKeys(other, e)' \subseteq ActiveKeys(other, e)
        BY Zenon, <3>6, <3>7
    <3>9. ~(KeyBusy(c)' /\ keyCall'[c].at \in UploadPlace)
        BY Zenon, <2>3, TurnPlaces DEF Passage, UploadPlace
    <3> QED BY Zenon, <2>1, <3>8, <3>9, StoredTurn
  <2>7. UNCHANGED pool \/ \E row \in ActiveKeys(kind, d) : pool' = [pool EXCEPT ![kind][d] = TakenFrom(kind, d, row)]
      BY Zenon, <1>1, <2>5 DEF TakeKey
  <2> QED BY Zenon, <2>4, <2>6, <2>7
<1>2. "classic" \in KeyKind /\ "kyber" \in KeyKind
    BY Zenon DEF KeyKind
<1> QED BY Zenon, <1>1, <1>2 DEF TakeClassic, TakeKyber

\* A replacing upload expires what the table holds.
LEMMA StoredExpire ==
    ASSUME KyberInv, OneWriter, StoredInv, NEW c \in KeyCall, Turn(c), ExpireClassic(c) \/ ExpireKyber(c)
    PROVE  StoredInv'
<1>1. PICK kind \in KeyKind, at \in {"expire", "expireKyber"}, next \in {"expireKyber", "insert"} :
          /\ ExpireKeys(c, kind, at, next)
          /\ (kind = "classic" /\ at = "expire") \/ (kind = "kyber" /\ at = "expireKyber")
    BY Zenon DEF ExpireClassic, ExpireKyber, KeyKind
<1>2. PICK d : d = keyCall[c].req.dev
    BY Zenon
<1>3. keyCall[c].at = at /\ UNCHANGED overlapped /\ pool' = [pool EXCEPT ![kind][d] = ExpiredRows(@)] /\ KeyGo(c, next)
    BY Zenon, <1>1, <1>2 DEF ExpireKeys, keyHistory
<1>4. at \in UploadPlace \ {"counts", "exists"}
    BY Zenon, <1>1 DEF UploadPlace
<1>5. d \in KeyDevice /\ OpenOK(keyCall[c]) /\ UploadFits(c)
    BY Zenon, <1>2, <1>3, <1>4 DEF Turn, OpenOK, KeyRequestOK, StoredInv, StoredOK
<1>6. PICK T : T = ExpiredRows(pool[kind][d])
    BY Zenon
<1>7. pool' = [pool EXCEPT ![kind][d] = T]
    BY Zenon, <1>3, <1>5, <1>6 DEF KyberInv, TableOK
<1>8. \A k \in T : k.expired
  <2>1. \A k : ExpiredRow(k).expired
      BY Zenon DEF ExpiredRow, KeyRowOf
  <2> QED BY Zenon, <1>6, <2>1 DEF ExpiredRows
<1>9. ActiveKeys(kind, d)' = {k \in T : ~k.expired}
    BY Zenon, <1>5, <1>7, OneTable
<1>10. ActiveKeys(kind, d)' = {}
    BY Zenon, <1>8, <1>9
<1>11. \A other \in KeyKind, e \in KeyDevice :
           other # kind \/ e # d => ActiveKeys(other, e)' = ActiveKeys(other, e)
    BY Zenon, <1>5, <1>7, OneTable
<1>12. \A other \in KeyKind, e \in KeyDevice : ActiveKeys(other, e)' \subseteq ActiveKeys(other, e)
    BY Zenon, <1>10, <1>11
<1>13. keyCall'[c].at = next /\ keyCall'[c].ids = keyCall[c].ids /\ keyCall'[c].req = keyCall[c].req
    BY Zenon, <1>3, <1>5 DEF KeyGo, OpenOK, CallFields, KyberInv, CallsOK
<1>14. KeyBusy(c)' /\ keyCall'[c].ids \subseteq keyCall'[c].req.ids
    BY Zenon, <1>1, <1>5, <1>13 DEF KeyBusy, UploadFits
<1>15. /\ keyCall[c].at = "expire" => ActiveKeys("classic", d)' = {}
       /\ keyCall[c].at = "expireKyber" => ActiveKeys("kyber", d)' = {}
       /\ keyCall[c].at # "exists" /\ keyCall[c].at \in UploadPlace \ {"counts"}
    BY Zenon, <1>1, <1>3, <1>4, <1>10
<1>16. UploadFits(c)'
  <2>1. \A other \in KeyKind : ActiveKeys(other, d)' \subseteq ActiveKeys(other, d)
      BY Zenon, <1>5, <1>12
  <2>2. UNCHANGED overlapped
      BY Zenon, <1>3
  <2> QED BY Zenon, <1>2, <1>14, <1>15, <2>1, <2>2, FitsGoesOn
<1> QED BY Zenon, <1>3, <1>12, <1>16, StoredTurn

\* An inserted key was one of those to come.
LEMMA StoredInsert ==
    ASSUME KyberInv, OneWriter, StoredInv, NEW c \in KeyCall, Turn(c), InsertClassic(c) \/ InsertKyber(c)
    PROVE  StoredInv'
<1>1. PICK kind \in KeyKind, at \in {"insert", "insertKyber"} :
          /\ InsertKey(c, kind, at)
          /\ (kind = "classic" /\ at = "insert") \/ (kind = "kyber" /\ at = "insertKyber")
    BY Zenon DEF InsertClassic, InsertKyber, KeyKind
<1>2. PICK r, d : r = keyCall[c] /\ d = keyCall[c].req.dev
    BY Zenon
<1>3. PICK id \in r.ids : /\ pool' = [pool EXCEPT ![kind][d] = InsertedRow(@, id, r.by)]
                          /\ keyCall' = [keyCall EXCEPT ![c].ids = @ \ {id}]
    BY Zenon, <1>1, <1>2 DEF InsertKey
<1>4. r.at = at /\ kind \in r.req.kinds /\ UNCHANGED overlapped
    BY Zenon, <1>1, <1>2 DEF InsertKey, keyHistory
<1>5. at \in UploadPlace \ {"counts"}
    BY Zenon DEF UploadPlace
<1>6. OpenOK(r) /\ KeyBusy(c)
    BY Zenon, <1>2 DEF Turn
<1>7. d \in KeyDevice /\ Writing(c, d) /\ UploadFits(c)
    BY Zenon, <1>2, <1>4, <1>5, <1>6 DEF OpenOK, KeyRequestOK, Writing, WritesKeys, StoredInv, StoredOK
<1>8. PICK s : s = keyCall'[c]
    BY Zenon
<1>9. s.at = at /\ s.req = r.req /\ s.ids = r.ids \ {id}
    BY Zenon, <1>2, <1>3, <1>4, <1>6, <1>8 DEF OpenOK, CallFields, KyberInv, CallsOK
<1>10. r.ids \subseteq r.req.ids /\ s.ids \subseteq s.req.ids
    BY Zenon, <1>2, <1>7, <1>9 DEF UploadFits
<1>11. PICK T, new : /\ T = InsertedRow(pool[kind][d], id, r.by)
                     /\ new = NewKeyRow(pool[kind][d], id, r.by)
    BY Zenon
<1>12. pool' = [pool EXCEPT ![kind][d] = T]
    BY Zenon, <1>3, <1>7, <1>11 DEF KyberInv, TableOK
<1>13. PICK A, B : A = ActiveKeys(kind, d) /\ B = ActiveKeys(kind, d)'
    BY Zenon
<1>14. B \subseteq A \cup {new}
  <2>1. B = {k \in T : ~k.expired}
      BY Zenon, <1>7, <1>12, <1>13, OneTable
  <2>2. \A k \in T : k \in pool[kind][d] \/ k = new
      BY Zenon, <1>11 DEF InsertedRow
  <2> QED BY Zenon, <1>13, <2>1, <2>2 DEF ActiveKeys
<1>15. \A other \in KeyKind, e \in KeyDevice :
           other # kind \/ e # d => ActiveKeys(other, e)' = ActiveKeys(other, e)
    BY Zenon, <1>7, <1>12, OneTable
<1>16. \A other : ~WillExpire(r, other) /\ ~WillExpire(s, other)
    BY Zenon, <1>4, <1>9 DEF WillExpire, EarlyPlace
<1>17. Coming(r, kind) = r.ids /\ Coming(s, kind) = r.ids \ {id}
    BY Zenon, <1>1, <1>4, <1>9 DEF Coming
<1>18. \A other \in KeyKind \ {kind} : Coming(s, other) = Coming(r, other)
    BY Zenon, <1>1, <1>4, <1>9 DEF Coming, KeyKind
<1>19. IsFiniteSet(A) /\ IsFiniteSet(r.ids)
  <2>1. r.at \in UploadPlace
      BY Zenon, <1>4, <1>5
  <2>2. IsFiniteSet(Coming(r, kind))
      BY Zenon, <1>6, <1>10, <2>1, ComingFinite
  <2>3. IsFiniteSet(A)
      BY Zenon, <1>7, <1>13 DEF StoredInv, StoredOK
  <2> QED BY Zenon, <1>17, <2>2, <2>3
<1>20. IsFiniteSet(B)
    BY Zenon, <1>14, <1>19, FS_AddElement, FS_Subset
<1>21. ASSUME d \notin overlapped
       PROVE  Cardinality(B) <= MaxStored /\ Room(B, Coming(s, kind), WillExpire(s, kind))
  <2>1. Room(A, r.ids, WillExpire(r, kind))
      BY Zenon, <1>2, <1>4, <1>5, <1>7, <1>13, <1>17, <1>21 DEF UploadFits
  <2>2. Room(A, r.ids, FALSE)
      BY Zenon, <1>16, <2>1 DEF Room
  <2>3. Cardinality(B) <= MaxStored /\ Room(B, r.ids \ {id}, FALSE)
      BY Zenon, <1>14, <1>19, <2>2, RoomTaken
  <2> QED BY Zenon, <1>16, <1>17, <2>3 DEF Room
<1>22. ASSUME d \notin overlapped, NEW other \in s.req.kinds \cap KeyKind
       PROVE  Room(ActiveKeys(other, d)', Coming(s, other), WillExpire(s, other))
  <2>1. CASE other = kind
      BY Zenon, <1>13, <1>21, <1>22, <2>1
  <2>2. CASE other # kind
    <3>1. ActiveKeys(other, d)' = ActiveKeys(other, d) /\ Coming(s, other) = Coming(r, other)
        BY Zenon, <1>7, <1>15, <1>18, <1>22, <2>2
    <3>2. Room(ActiveKeys(other, d), Coming(r, other), WillExpire(r, other))
        BY Zenon, <1>2, <1>4, <1>5, <1>7, <1>9, <1>22 DEF UploadFits
    <3>3. WillExpire(s, other) <=> WillExpire(r, other)
        BY Zenon, <1>16
    <3> QED BY Zenon, <3>1, <3>2, <3>3 DEF Room
  <2> QED BY Zenon, <2>1, <2>2
<1>23. UploadFits(c)'
  <2>1. s.req.dev = d /\ overlapped' = overlapped
      BY Zenon, <1>2, <1>4, <1>9
  <2> QED BY Zenon, <1>8, <1>10, <1>22, <2>1 DEF UploadFits
<1>24. \A other \in KeyKind, e \in KeyDevice :
           \/ ActiveKeys(other, e)' \subseteq ActiveKeys(other, e)
           \/ /\ Writing(c, e) /\ IsFiniteSet(ActiveKeys(other, e)')
              /\ e \notin overlapped => Cardinality(ActiveKeys(other, e)') <= MaxStored
  <2> SUFFICES ASSUME NEW other \in KeyKind, NEW e \in KeyDevice
               PROVE  \/ ActiveKeys(other, e)' \subseteq ActiveKeys(other, e)
                      \/ /\ Writing(c, e) /\ IsFiniteSet(ActiveKeys(other, e)')
                         /\ e \notin overlapped => Cardinality(ActiveKeys(other, e)') <= MaxStored
      BY Zenon
  <2>1. CASE other = kind /\ e = d
      BY Zenon, <1>7, <1>13, <1>20, <1>21, <2>1
  <2>2. CASE other # kind \/ e # d
      BY Zenon, <1>15, <2>2
  <2> QED BY Zenon, <2>1, <2>2
<1> QED BY Zenon, <1>4, <1>23, <1>24, StoredTurn

\* The count lets an upload in only when its keys fit.
LEMMA StoredCount ==
    ASSUME KyberInv, OneWriter, StoredInv, NEW c \in KeyCall, Turn(c), CountKeys(c)
    PROVE  StoredInv'
<1>1. PICK r, d : r = keyCall[c] /\ d = keyCall[c].req.dev
    BY Zenon
<1>2. r.at = "counts" /\ UNCHANGED <<pool, overlapped>> /\ OpenOK(r)
    BY Zenon, <1>1 DEF CountKeys, keyHistory, Turn
<1>3. CASE KeyEnd(c)
  <2>1. keyCall'[c] = KeyOver(c, FALSE)
      BY Zenon, <1>3 DEF KeyEnd, KyberInv, CallsOK
  <2>2. keyCall'[c].at \in {"sent", "done"}
      BY Zenon, <2>1, OverShape
  <2>3. ~KeyBusy(c)'
      BY Zenon, <2>2 DEF KeyBusy
  <2> QED BY Zenon, <1>2, <2>3, StoredOther
<1>4. CASE UploadAllowed(r.req) /\ KeyGo(c, IF r.req.replace THEN "replaceLimit" ELSE AfterLimits(r.req))
  <2>1. PICK at : at = IF r.req.replace THEN "replaceLimit" ELSE AfterLimits(r.req)
      BY Zenon
  <2>2. at \in {"replaceLimit", "spk", "readKeys", "exists"}
      BY Zenon, <2>1 DEF AfterLimits
  <2>3. PICK s : s = keyCall'[c]
      BY Zenon
  <2>4. s.at = at /\ s.req = r.req /\ s.ids = r.ids
      BY Zenon, <1>1, <1>2, <1>4, <2>1, <2>3 DEF KeyGo, OpenOK, CallFields, KyberInv, CallsOK
  <2>5. r.ids \subseteq r.req.ids /\ d \in KeyDevice
      BY Zenon, <1>1, <1>2 DEF StoredInv, StoredOK, UploadFits, Turn, UploadPlace, OpenOK, KeyRequestOK
  <2>6. ASSUME NEW kind \in s.req.kinds \cap KeyKind
        PROVE  Room(ActiveKeys(kind, d)', Coming(s, kind), WillExpire(s, kind))
    <3>1. Coming(s, kind) = r.req.ids
        BY Zenon, <2>2, <2>4 DEF Coming
    <3>2. WillExpire(s, kind) <=> r.req.replace
        BY Zenon, <2>2, <2>4 DEF WillExpire, EarlyPlace, UploadPlace
    <3>3. ActiveKeys(kind, d)' = ActiveKeys(kind, d)
        BY Zenon, <1>2 DEF ActiveKeys
    <3>4. (IF r.req.replace THEN 0 ELSE Cardinality(ActiveKeys(kind, d))) + Cardinality(r.req.ids) <= MaxStored
        BY Zenon, <1>1, <1>4, <2>4, <2>6 DEF UploadAllowed
    <3>5. (IF WillExpire(s, kind) THEN 0 ELSE Cardinality(ActiveKeys(kind, d)))
            = (IF r.req.replace THEN 0 ELSE Cardinality(ActiveKeys(kind, d)))
        BY Zenon, <3>2
    <3> QED BY Zenon, <3>1, <3>3, <3>4, <3>5 DEF Room
  <2>7. s.req.dev = d /\ s.ids \subseteq s.req.ids
      BY Zenon, <1>1, <2>4, <2>5
  <2>8. UploadFits(c)'
      BY Zenon, <2>3, <2>6, <2>7 DEF UploadFits
  <2> QED BY Zenon, <1>2, <2>8, StoredQuiet
<1> QED BY Zenon, <1>1, <1>3, <1>4 DEF CountKeys

\* The steps of an upload that write no one-time key.
LEMMA StoredMoves ==
    ASSUME KyberInv, OneWriter, StoredInv, NEW c \in KeyCall, Turn(c),
           CountReplace(c) \/ UploadSpk(c) \/ ReadKeys(c) \/ WriteHybrid(c) \/ CheckKeys(c) \/ NextInserts(c)
    PROVE  StoredInv'
<1>1. UNCHANGED <<pool, overlapped>>
    BY Zenon DEF CountReplace, UploadSpk, ReadKeys, WriteHybrid, CheckKeys, NextInserts, keyHistory
<1>2. keyCall[c].at \in {"replaceLimit", "spk", "readKeys", "writeHybrid", "exists", "insert", "insertKyber"}
    BY Zenon DEF CountReplace, UploadSpk, ReadKeys, WriteHybrid, CheckKeys, NextInserts
<1>3. CASE ~KeyBusy(c)'
    BY Zenon, <1>1, <1>3, StoredOther
<1>4. CASE KeyBusy(c)'
  <2>1. PICK r, s : r = keyCall[c] /\ s = keyCall'[c]
      BY Zenon
  <2>2. Kept(r, s) /\ Passage(r.at, s.at) /\ OpenOK(r)
    <3>1. keyCall'[c].at \notin {"sent", "done"}
        BY Zenon, <1>4 DEF KeyBusy
    <3> QED BY Zenon, <2>1, <3>1, TurnPlaces DEF Turn
  <2>3. r.at \in UploadPlace \ {"counts"} /\ r.at \notin {"expire", "expireKyber"}
      BY Zenon, <1>2, <2>1 DEF UploadPlace
  <2>4. r.ids \subseteq r.req.ids /\ s.req = r.req
      BY Zenon, <2>1, <2>2, <2>3 DEF StoredInv, StoredOK, UploadFits, Turn, Kept
  <2>5. s.ids \subseteq s.req.ids /\ (r.at = "exists" /\ s.at = "insert" => ~r.req.replace)
    <3>1. CASE CheckKeys(c)
      <4>1. keyCall' = [keyCall EXCEPT ![c].at = IF r.req.replace THEN "expire" ELSE "insert", ![c].ids = r.req.ids]
        <5>1. ~KeyEnd(c)
          <6> SUFFICES ASSUME KeyEnd(c) PROVE FALSE
              BY Zenon
          <6>1. keyCall'[c] = KeyOver(c, FALSE)
              BY Zenon DEF KeyEnd, KyberInv, CallsOK
          <6>2. keyCall'[c].at \in {"sent", "done"}
              BY Zenon, <6>1, OverShape
          <6> QED BY Zenon, <1>4, <6>2 DEF KeyBusy
        <5> QED BY Zenon, <2>1, <3>1, <5>1 DEF CheckKeys
      <4>2. s.ids = r.req.ids /\ s.at = IF r.req.replace THEN "expire" ELSE "insert"
          BY Zenon, <2>1, <2>2, <4>1 DEF OpenOK, CallFields, KyberInv, CallsOK
      <4>3. r.req.replace => s.at = "expire"
          BY Zenon, <4>2
      <4> QED BY Zenon, <2>4, <4>2, <4>3
    <3>2. CASE NextInserts(c)
      <4>1. r.at # "exists"
          BY Zenon, <2>1, <3>2 DEF NextInserts
      <4>2. CASE keyCall' = [keyCall EXCEPT ![c].at = "insertKyber", ![c].ids = r.req.ids]
        <5>1. s.ids = r.req.ids
            BY Zenon, <2>1, <2>2, <4>2 DEF OpenOK, CallFields, KyberInv, CallsOK
        <5> QED BY Zenon, <2>4, <4>1, <5>1
      <4>3. CASE keyCall' = [keyCall EXCEPT ![c] = KeyOver(c, TRUE)]
        <5>1. keyCall'[c] = KeyOver(c, TRUE)
            BY Zenon, <4>3 DEF KyberInv, CallsOK
        <5>2. keyCall'[c].at \in {"sent", "done"}
            BY Zenon, <5>1, OverShape
        <5> QED BY Zenon, <1>4, <5>2 DEF KeyBusy
      <4> QED BY Zenon, <2>1, <3>2, <4>2, <4>3 DEF NextInserts
    <3>3. CASE CountReplace(c) \/ UploadSpk(c) \/ ReadKeys(c) \/ WriteHybrid(c)
      <4>1. r.at \in {"replaceLimit", "spk", "readKeys", "writeHybrid"}
          BY Zenon, <2>1, <3>3 DEF CountReplace, UploadSpk, ReadKeys, WriteHybrid
      <4>2. r.at \notin {"exists", "insert", "insertKyber"} /\ r.at # "exists"
          BY Zenon, <4>1
      <4> QED BY Zenon, <2>2, <2>4, <4>2 DEF Kept
    <3> QED BY Zenon, <3>1, <3>2, <3>3
  <2>6. PICK d : d = keyCall[c].req.dev
      BY Zenon
  <2>7. \A kind \in KeyKind : ActiveKeys(kind, d)' \subseteq ActiveKeys(kind, d)
      BY Zenon, <1>1 DEF ActiveKeys
  <2>8. UploadFits(c)'
      BY Zenon, <1>1, <1>4, <2>1, <2>3, <2>5, <2>6, <2>7, FitsGoesOn
  <2> QED BY Zenon, <1>1, <2>8, StoredQuiet
<1> QED BY Zenon, <1>3, <1>4

\* A step that adds no key and no upload past its count.
LEMMA StoredElsewhere ==
    ASSUME KyberInv, StoredInv, overlapped \subseteq overlapped',
           \A kind \in KeyKind, d \in KeyDevice : ActiveKeys(kind, d)' = ActiveKeys(kind, d),
           \A x \in KeyCall : \/ keyCall'[x] = keyCall[x]
                              \/ keyCall'[x].at \notin UploadPlace
                              \/ keyCall'[x].at = "counts" /\ keyCall'[x].ids = {}
    PROVE  StoredInv'
<1>1. \A kind \in KeyKind, d \in KeyDevice : IsFiniteSet(ActiveKeys(kind, d)')
    BY Zenon DEF StoredInv, StoredOK
<1>2. StoredBound'
    BY Zenon DEF StoredInv, StoredBound
<1>3. ASSUME NEW x \in KeyCall, KeyBusy(x)', keyCall'[x].at \in UploadPlace
      PROVE  UploadFits(x)'
  <2>1. CASE keyCall'[x].at = "counts" /\ keyCall'[x].ids = {}
      BY Zenon, <2>1 DEF UploadFits
  <2>2. CASE keyCall'[x] = keyCall[x]
    <3>1. PICK r, d : r = keyCall[x] /\ d = r.req.dev
        BY Zenon
    <3>2. KeyBusy(x) /\ r.at \in UploadPlace /\ keyCall'[x] = r
        BY Zenon, <1>3, <2>2, <3>1 DEF KeyBusy
    <3>3. UploadFits(x) /\ OpenOK(r)
        BY Zenon, <3>1, <3>2, BusyOpen DEF StoredInv, StoredOK
    <3>4. d \in KeyDevice
        BY Zenon, <3>1, <3>2, <3>3 DEF OpenOK, KeyRequestOK
    <3>5. r.ids \subseteq r.req.ids
        BY Zenon, <3>1, <3>3 DEF UploadFits
    <3>6. ASSUME r.at # "counts", d \notin overlapped', NEW kind \in r.req.kinds \cap KeyKind
          PROVE  Room(ActiveKeys(kind, d)', Coming(r, kind), WillExpire(r, kind))
      <4>1. Room(ActiveKeys(kind, d), Coming(r, kind), WillExpire(r, kind))
          BY Zenon, <3>1, <3>3, <3>6 DEF UploadFits
      <4>2. ActiveKeys(kind, d)' = ActiveKeys(kind, d)
          BY Zenon, <3>4, <3>6
      <4> QED BY Zenon, <4>1, <4>2
    <3>7. r.req.dev = d
        BY Zenon, <3>1
    <3> QED BY Zenon, <3>2, <3>5, <3>6, <3>7 DEF UploadFits
  <2> QED BY Zenon, <1>3, <2>1, <2>2
<1> QED BY Zenon, <1>1, <1>2, <1>3 DEF StoredInv, StoredOK

\* Every step keeps what is stored within its limit.
LEMMA StoredStep ==
    ASSUME KyberInv, OneWriter, StoredInv, [KeysNext]_keyVars
    PROVE  StoredInv'
<1> USE DEF keyHistory
<1>1. ASSUME NEW c \in KeyCall, Step(c), Turn(c) PROVE StoredInv'
  <2>1. CASE TakeClassic(c) \/ TakeKyber(c)
      BY Zenon, <1>1, <2>1, StoredTake
  <2>2. CASE ExpireClassic(c) \/ ExpireKyber(c)
      BY Zenon, <1>1, <2>2, StoredExpire
  <2>3. CASE InsertClassic(c) \/ InsertKyber(c)
      BY Zenon, <1>1, <2>3, StoredInsert
  <2>4. CASE CountKeys(c)
      BY Zenon, <1>1, <2>4, StoredCount
  <2>5. CASE CountReplace(c) \/ UploadSpk(c) \/ ReadKeys(c) \/ WriteHybrid(c) \/ CheckKeys(c) \/ NextInserts(c)
      BY Zenon, <1>1, <2>5, StoredMoves
  <2>6. CASE ResolveConsumption(c) \/ CountBundle(c) \/ ReadRows(c)
             \/ (\E kind \in {"identity", "hybrid"} : EnsureLeaf(c, kind) \/ AppendLeaf(c, kind))
             \/ LoadTree(c) \/ ProofsFail(c) \/ FinishBundle(c) \/ RecordConsumption(c)
             \/ ReadHybrid(c) \/ RotateKeys(c)
    <3>1. UNCHANGED <<pool, overlapped>>
        BY Zenon, <2>6 DEF ResolveConsumption, CountBundle, ReadRows, EnsureLeaf, AppendLeaf, LoadTree,
               ProofsFail, FinishBundle, RecordConsumption, ReadHybrid, RotateKeys
    <3>2. keyCall[c].at \in FetchPlace \cup RotatePlace
        BY Zenon, <2>6 DEF ResolveConsumption, CountBundle, ReadRows, EnsureLeaf, AppendLeaf, LeafAt,
               AppendAt, LoadTree, ProofsFail, FinishBundle, RecordConsumption, ReadHybrid, RotateKeys,
               FetchPlace, RotatePlace
    <3>3. keyCall[c].at \notin UploadPlace
        BY Zenon, <3>2 DEF FetchPlace, RotatePlace, UploadPlace
    <3> QED BY Zenon, <1>1, <3>1, <3>3, StoredOther
  <2>7. CASE DropKeyCall(c)
    <3>1. UNCHANGED <<pool, overlapped>>
        BY Zenon, <2>7 DEF DropKeyCall
    <3>2. keyCall'[c] = KeyOver(c, FALSE)
        BY Zenon, <2>7 DEF DropKeyCall, KeyEnd, KyberInv, CallsOK
    <3>3. keyCall'[c].at \in {"sent", "done"}
        BY Zenon, <3>2, OverShape
    <3>4. ~KeyBusy(c)'
        BY Zenon, <3>3 DEF KeyBusy
    <3> QED BY Zenon, <1>1, <3>1, <3>4, StoredOther
  <2> QED BY Zenon, <1>1, <2>1, <2>2, <2>3, <2>4, <2>5, <2>6, <2>7 DEF Step, FetchStep, UploadStep
<1>2. ASSUME NEW c \in KeyCall, NEW b \in KeyBatches(c, keyCall[c].req), BeginKeyCall(c, b) PROVE StoredInv'
  <2>1. PICK r : r = OpenCall(c, b)
      BY Zenon
  <2>2. keyCall'[c] = r /\ \A x \in KeyCall \ {c} : keyCall'[x] = keyCall[x]
      BY Zenon, <1>2, <2>1 DEF BeginKeyCall, KyberInv, CallsOK
  <2>3. UNCHANGED pool /\ overlapped \subseteq overlapped'
      BY Zenon, <1>2 DEF BeginKeyCall
  <2>4. r.ids = {} /\ (r.at \notin UploadPlace \/ r.at = "counts")
    <3>1. KeyRequestOK(keyCall[c].req)
        BY Zenon, <1>2 DEF BeginKeyCall, KyberInv, CallsOK, CallOK, OpenOK, FetchPlace, UploadPlace, RotatePlace
    <3>2. keyCall[c].req.op \in {"fetch", "upload", "rotate"}
        BY Zenon, <3>1 DEF KeyRequestOK
    <3>3. /\ r.ids = {}
          /\ r.at = (CASE keyCall[c].req.op = "fetch" -> "resolve" [] keyCall[c].req.op = "upload" -> "counts"
                       [] keyCall[c].req.op = "rotate" -> "readHybrid")
        BY Zenon, <2>1 DEF OpenCall
    <3>4. r.at \in {"resolve", "counts", "readHybrid"}
        BY Zenon, <3>2, <3>3
    <3> QED BY Zenon, <3>3, <3>4 DEF UploadPlace
  <2>5. \A kind \in KeyKind, d \in KeyDevice : ActiveKeys(kind, d)' = ActiveKeys(kind, d)
      BY Zenon, <2>3 DEF ActiveKeys
  <2> QED BY Zenon, <2>2, <2>3, <2>4, <2>5, StoredElsewhere
<1>3. ASSUME NEW d \in KeyDevice, RevokeDevice(d) PROVE StoredInv'
  <2>1. UNCHANGED <<pool, overlapped, keyCall>>
      BY Zenon, <1>3 DEF RevokeDevice
  <2>2. \A kind \in KeyKind, e \in KeyDevice : ActiveKeys(kind, e)' = ActiveKeys(kind, e)
      BY Zenon, <2>1 DEF ActiveKeys
  <2> QED BY Zenon, <2>1, <2>2, StoredElsewhere
<1>4. CASE CleanupExpired
  <2>1. UNCHANGED overlapped
      BY Zenon, <1>4 DEF CleanupExpired
  <2>2. \A kind \in KeyKind, e \in KeyDevice : ActiveKeys(kind, e)' = ActiveKeys(kind, e)
    <3>1. \A kind \in KeyKind, e \in KeyDevice : pool'[kind][e] = {k \in pool[kind][e] : ~k.expired}
        BY Zenon, <1>4 DEF CleanupExpired, ActiveKeys
    <3> QED BY Zenon, <3>1 DEF ActiveKeys
  <2>3. \A x \in KeyCall : keyCall'[x] = keyCall[x] \/ keyCall'[x].at \notin UploadPlace
      BY Zenon, <1>4, NobodyWrites DEF UploadPlace
  <2> QED BY Zenon, <2>1, <2>2, <2>3, StoredElsewhere
<1>5. CASE UNCHANGED keyVars
  <2>1. UNCHANGED <<pool, overlapped, keyCall>>
      BY Zenon, <1>5 DEF keyVars
  <2>2. \A kind \in KeyKind, e \in KeyDevice : ActiveKeys(kind, e)' = ActiveKeys(kind, e)
      BY Zenon, <2>1 DEF ActiveKeys
  <2> QED BY Zenon, <2>1, <2>2, StoredElsewhere
<1> QED BY Zenon, <1>1, <1>2, <1>3, <1>4, <1>5, NextKinds

\* What a device holds at first was uploaded before, and fits.
LEMMA StoredInit == KeysInit => StoredInv
<1> SUFFICES ASSUME KeysInit PROVE StoredInv
    BY Zenon
<1>1. \A c \in KeyCall : ~KeyBusy(c)
  <2>1. \A c \in KeyCall : keyCall[c].at = "idle"
      BY SMT DEF KeysInit
  <2> QED BY Zenon, <2>1 DEF KeyBusy
<1>2. IsFiniteSet(KeyIdsBefore) /\ Cardinality(KeyIdsBefore) \in Nat /\ Cardinality(KeyIdsBefore) <= MaxStored
    BY Zenon, KeyAssumption, KeyBounds, FS_Subset, FS_CardinalityType
<1>3. ASSUME NEW kind \in KeyKind, NEW d \in KeyDevice
      PROVE  IsFiniteSet(ActiveKeys(kind, d)) /\ Cardinality(ActiveKeys(kind, d)) <= MaxStored
  <2>1. PICK S : S = ActiveKeys(kind, d)
      BY Zenon
  <2>2. \A k \in S : \E id \in KeyIdsBefore : k = KeyRowOf(id, KeyBefore, id, FALSE)
    <3>1. pool[kind][d] = IF kind = "kyber" /\ d \notin KeyHybrid THEN {}
                          ELSE {KeyRowOf(id, KeyBefore, id, FALSE) : id \in KeyIdsBefore}
        BY Zenon DEF KeysInit
    <3>2. S \subseteq pool[kind][d]
        BY Zenon, <2>1 DEF ActiveKeys
    <3> QED BY Zenon, <3>1, <3>2
  <2>3. \A k \in S : k.id \in KeyIdsBefore /\ k = KeyRowOf(k.id, KeyBefore, k.id, FALSE)
      BY <2>2 DEF KeyRowOf
  <2> DEFINE f == [k \in S |-> k.id]
  <2>4. f \in Injection(S, KeyIdsBefore)
    <3>1. f \in [S -> KeyIdsBefore]
        BY Zenon, <2>3
    <3>2. \A j, k \in S : f[j] = f[k] => j = k
        BY Zenon, <2>3
    <3>3. DOMAIN f = S
        BY Zenon
    <3> HIDE DEF f
    <3> QED BY Zenon, <3>1, <3>2, <3>3 DEF Injection, IsInjective
  <2>5. IsFiniteSet(S) /\ Cardinality(S) <= Cardinality(KeyIdsBefore)
      BY Zenon, <1>2, <2>4, FS_Injection
  <2>6. Cardinality(S) \in Nat
      BY Zenon, <2>5, FS_CardinalityType
  <2>7. Cardinality(S) <= MaxStored
      BY SMT, <1>2, <2>5, <2>6, KeyBounds
  <2> QED BY Zenon, <2>1, <2>5, <2>7
<1> QED BY Zenon, <1>1, <1>3 DEF StoredInv, StoredOK, StoredBound

\* The limits on one-time keys hold but for overlaps: a device whose writing calls never
\* overlapped holds at most MAX_STORED_PREKEYS of each kind, and the fetches that took a key
\* within the hour pass the drain threshold by no more than those that were in flight and
\* those Redis missed (upload_prekeys, resolve_consumption, record_consumption).
THEOREM KeyLimitsHold == KeysSpec => []KeyLimits
<1>1. KeysInit => KyberInv /\ OneWriter /\ DrainInv /\ StoredInv
    BY Zenon, KyberInit, WritersInit, DrainInit, StoredInit
<1>2. KyberInv /\ OneWriter /\ DrainInv /\ StoredInv /\ [KeysNext]_keyVars
        => KyberInv' /\ OneWriter' /\ DrainInv' /\ StoredInv'
    BY Zenon, KyberStep, WritersStep, DrainStep, StoredStep
<1>3. DrainInv /\ StoredInv => KeyLimits
    BY Zenon, DrainHolds DEF StoredInv, KeyLimits
<1> QED BY <1>1, <1>2, <1>3, PTL DEF KeysSpec

==============================================================================
