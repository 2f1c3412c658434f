-------------------------- MODULE MailboxPageProofs --------------------------
(* Type correctness of the mailbox, that Ok means a copy, that the position *)
(* of an open stream never goes back; then what a page leaves out, and the  *)
(* steps that write or wait.                                                *)
EXTENDS Mailbox, WellFoundedInduction, TLAPS

\* A nonempty set of entries with bounded ids has a last one.
LEMMA LastEntry ==
    ASSUME NEW T \in SUBSET Entry, T # {}, NEW B \in Nat, \A e \in T : e.id <= B
    PROVE  \E g \in T : \A f \in T : f.id <= g.id
<1> DEFINE N == {B - e.id : e \in T}
<1>1. N \subseteq Nat /\ N # {}
  BY DEF Entry
<1>2. PICK x \in N : \A y \in N : ~(<<y, x>> \in OpToRel(<, Nat))
  <2> HIDE DEF N
  <2> QED BY Zenon, <1>1, WFMin, NatLessThanWellFounded
<1>3. \A y \in N : ~(y < x)
  BY Zenon, <1>1, <1>2 DEF OpToRel
<1>4. PICK g \in T : x = B - g.id
  BY Zenon
<1>5. ASSUME NEW f \in T PROVE f.id <= g.id
  <2>1. B - f.id \in N
    BY Zenon
  <2>2. ~(B - f.id < B - g.id)
    BY Zenon, <1>3, <1>4, <2>1
  <2> QED BY <2>2 DEF Entry
<1> QED BY Zenon, <1>5

----------------------------------------------------------------------------
(* What XREAD and the merge return. *)

\* An XREAD answer holds entries of the stream after the position, ends at its
\* last id, and leaves out only entries after that id, and only when it is full.
LEMMA XReadFacts ==
    ASSUME TypeOK, NEW s \in Stream, NEW since \in Nat,
           NEW r \in XRead(s, since, SourceLimit)
    PROVE  /\ r \in Reply
           /\ r.got \subseteq stream[s]
           /\ \A e \in r.got : e.id > since /\ e.id <= r.last
           /\ \/ r.got = {} /\ r.last = 0
              \/ \E e \in r.got : e.id = r.last
           /\ \A f \in stream[s] : f.id > since /\ f \notin r.got =>
                 Full(r) /\ f.id > r.last
<1> USE CountAssumption
<1>1. stream[s] \subseteq Entry
  BY Zenon DEF TypeOK
<1>2. After(s, since) \subseteq stream[s] /\ \A e \in After(s, since) : e.id > since
  BY Zenon DEF After
<1>3. /\ r.got \subseteq After(s, since)
      /\ r.last \in {0} \cup {e.id : e \in After(s, since)}
      /\ r = [got |-> r.got, last |-> r.last]
      /\ IF r.got = {} THEN r.last = 0
                       ELSE /\ \E e \in r.got : e.id = r.last
                            /\ \A e \in r.got : e.id <= r.last
      /\ \A e \in r.got : \A f \in After(s, since) \ r.got : e.id < f.id
      /\ r.got = After(s, since) \/ Cardinality(r.got) = SourceLimit
  BY Zenon DEF XRead
<1>4. r \in Reply
  BY <1>1, <1>2, <1>3 DEF Reply, Entry
<1>5. ASSUME NEW f \in stream[s], f.id > since, f \notin r.got
      PROVE  Full(r) /\ f.id > r.last
  <2>1. f \in After(s, since)
    BY Zenon, <1>5 DEF After
  <2>2. Cardinality(r.got) = SourceLimit /\ SourceLimit \in Nat
    BY <1>3, <1>5, <2>1 DEF SourceLimit
  <2>3. f.id > r.last
    BY <1>1, <1>3, <1>5, <2>1 DEF Entry
  <2> QED BY <2>2, <2>3 DEF Full
<1> QED BY Zenon, <1>2, <1>3, <1>4, <1>5

\* The parts of a merged page come from the two reads, in front of the horizon.
LEMMA PageFacts ==
    ASSUME NEW d, NEW rd \in Reply, NEW ru \in Reply, NEW p \in Pages(d, rd, ru)
    PROVE  /\ p \subseteq Kept(d, rd, ru)
           /\ p \subseteq Entry
           /\ \A e \in p : (e \in rd.got \/ e \in ru.got) /\ ~PastHorizon(rd, ru, e.id)
           /\ CutByCount(d, rd, ru) =>
                 \A e \in p : \A f \in Kept(d, rd, ru) \ p : e.id <= f.id
           /\ ~CutByCount(d, rd, ru) => p = Kept(d, rd, ru)
           /\ ExaminedThrough(d, rd, ru) \in Nat
           /\ HasMore(d, rd, ru) \in BOOLEAN
<1>1. p \subseteq Kept(d, rd, ru)
  BY Zenon DEF Pages
<1>2. Kept(d, rd, ru) \subseteq rd.got \cup ru.got
  BY Zenon DEF Kept, Merged
<1>3. rd.got \subseteq Entry /\ ru.got \subseteq Entry /\ rd.last \in Nat /\ ru.last \in Nat
  BY Zenon DEF Reply
<1>4. \A e \in p : ~PastHorizon(rd, ru, e.id)
  BY Zenon, <1>1 DEF Kept
<1>5. ExaminedThrough(d, rd, ru) \in Nat
  BY Zenon, <1>3 DEF ExaminedThrough, Horizon
<1>6. HasMore(d, rd, ru) \in BOOLEAN
  BY Zenon DEF HasMore
<1>7. /\ CutByCount(d, rd, ru) =>
            \A e \in p : \A f \in Kept(d, rd, ru) \ p : e.id <= f.id
      /\ ~CutByCount(d, rd, ru) => p = Kept(d, rd, ru)
  BY Zenon DEF Pages
<1> QED BY Zenon, <1>1, <1>2, <1>3, <1>4, <1>5, <1>6, <1>7

----------------------------------------------------------------------------
(* Type correctness. *)

\* XADD keeps the type of the streams.
LEMMA XAddType ==
    ASSUME TypeOK, NEW s \in Stream, NEW m \in Msg, NEW t \in Times, XAdd(s, m, t)
    PROVE  /\ now' \in Nat
           /\ stream' \in [Stream -> SUBSET Entry]
           /\ lastId' \in [Stream -> Nat]
<1> USE CountAssumption
<1>1. t \in Nat /\ NextId(s, t) \in Nat
  BY DEF TypeOK, Times, NextId
<1>2. [id |-> NextId(s, t), m |-> m] \in Entry
  BY Zenon, <1>1 DEF Entry
<1> QED BY Zenon, <1>1, <1>2 DEF TypeOK, XAdd

\* Every step keeps the types.
LEMMA TypeStep == TypeOK /\ [Next]_vars => TypeOK'
<1> SUFFICES ASSUME TypeOK, [Next]_vars PROVE TypeOK'
  BY Zenon
<1> USE DeviceAssumption, CountAssumption, FlagAssumption
<1>1. ASSUME NEW i \in Instance, NEW m \in Msg, BeginWrite(i, m) PROVE TypeOK'
  <2>1. \A active \in {Device, {}} : SelectTargetDevices(active, Named[m]) \subseteq Device
    BY Zenon DEF SelectTargetDevices
  <2>3. PICK active \in {Device, {}} :
          wr' = [wr EXCEPT ![i] = [stage |-> IF UserWrite THEN "user" ELSE "devices",
                                   m |-> m,
                                   todo |-> SelectTargetDevices(active, Named[m]),
                                   landed |-> FALSE]]
    BY Zenon, <1>1 DEF BeginWrite
  <2>2. wr' \in [Instance -> WriteCall]
    BY Zenon, <2>3, <2>1 DEF TypeOK, WriteCall
  <2> QED BY <1>1, <2>2 DEF BeginWrite, TypeOK, WriteCall, storeVars, readVars, clientVars
<1>2. ASSUME NEW i \in Instance, WriteUser(i) PROVE TypeOK'
  <2>1. wr[i] \in [stage : {"user", "devices"}, m : Msg, todo : SUBSET Device, landed : BOOLEAN]
    BY <1>2 DEF WriteUser, TypeOK, WriteCall, Free
  <2>2. UserKey \in Stream
    BY Zenon DEF Stream
  <2>3. now' \in Nat /\ stream' \in [Stream -> SUBSET Entry] /\ lastId' \in [Stream -> Nat]
    BY Zenon, <1>2, <2>1, <2>2, XAddType DEF WriteUser
  <2>4. wr' \in [Instance -> WriteCall]
    BY Zenon, <1>2, <2>1 DEF WriteUser, TypeOK, WriteCall
  <2> QED BY Zenon, <1>2, <2>3, <2>4 DEF WriteUser, TypeOK, readVars, clientVars
<1>3. ASSUME NEW i \in Instance, WriteUserFails(i) PROVE TypeOK'
  BY Zenon, <1>3 DEF WriteUserFails, TypeOK, WriteCall, storeVars, readVars, clientVars
<1>4. ASSUME NEW i \in Instance, NEW d \in Device, WriteDevice(i, d) PROVE TypeOK'
  <2>1. wr[i] \in [stage : {"user", "devices"}, m : Msg, todo : SUBSET Device, landed : BOOLEAN]
    BY <1>4 DEF WriteDevice, TypeOK, WriteCall, Free
  <2>2. d \in Stream
    BY Zenon DEF Stream
  <2>3. now' \in Nat /\ stream' \in [Stream -> SUBSET Entry] /\ lastId' \in [Stream -> Nat]
    BY Zenon, <1>4, <2>1, <2>2, XAddType DEF WriteDevice
  <2>4. wr' \in [Instance -> WriteCall]
    BY Zenon, <1>4, <2>1 DEF WriteDevice, TypeOK, WriteCall
  <2> QED BY Zenon, <1>4, <2>3, <2>4 DEF WriteDevice, TypeOK, readVars, clientVars
<1>5. ASSUME NEW i \in Instance, NEW d \in Device, WriteDeviceFails(i, d) PROVE TypeOK'
  <2>1. wr[i] \in [stage : {"user", "devices"}, m : Msg, todo : SUBSET Device, landed : BOOLEAN]
    BY <1>5 DEF WriteDeviceFails, TypeOK, WriteCall, Free
  <2>2. wr' \in [Instance -> WriteCall]
    BY Zenon, <1>5, <2>1 DEF WriteDeviceFails, TypeOK, WriteCall
  <2> QED BY Zenon, <1>5, <2>2 DEF WriteDeviceFails, TypeOK, storeVars, readVars, clientVars
<1>6. ASSUME NEW i \in Instance, EndWrite(i) PROVE TypeOK'
  <2>1. wr[i].m \in Msg
    BY <1>6 DEF EndWrite, TypeOK, WriteCall, Free
  <2> QED BY Zenon, <1>6, <2>1 DEF EndWrite, TypeOK, WriteCall, storeVars, readVars, clientVars
<1>7. ASSUME NEW d \in Reader, Connection(d) PROVE TypeOK'
  <2>1. CASE Open(d)
    BY <2>1 DEF Open, TypeOK, Phase, storeVars, writeVars
  <2>2. CASE Subscribe(d)
    BY <2>2 DEF Subscribe, TypeOK, Phase, storeVars, writeVars, clientVars
  <2>3. CASE GraceElapses(d)
    BY Zenon, <2>3 DEF GraceElapses, TypeOK, Phase, storeVars, writeVars, clientVars
  <2>4. CASE Wake(d)
    BY Zenon, <2>4 DEF Wake, TypeOK, Phase, storeVars, writeVars, clientVars
  <2>5. CASE ReadDevice(d)
    <3>1. XRead(d, pos[d], SourceLimit) \subseteq Reply
      BY Zenon, XReadFacts DEF TypeOK, Stream
    <3> QED BY ZenonT(60), <2>5, <3>1 DEF ReadDevice, TypeOK, Phase, storeVars, writeVars, clientVars
  <2>6. CASE ReadUser(d)
    <3>1. UserReadPosition(d) \in Nat /\ dread[d] \in Reply
      BY Zenon DEF TypeOK, UserReadPosition
    <3>2. PICK ru \in XRead(UserKey, UserReadPosition(d), SourceLimit) :
            /\ \E p \in Pages(d, dread[d], ru) : page' = [page EXCEPT ![d] = p]
            /\ examined' = [examined EXCEPT ![d] = ExaminedThrough(d, dread[d], ru)]
            /\ more' = [more EXCEPT ![d] = HasMore(d, dread[d], ru)]
      BY Zenon, <2>6 DEF ReadUser
    <3>3. ru \in Reply
      BY Zenon, <3>1, <3>2, XReadFacts DEF Stream
    <3>4. PICK p \in Pages(d, dread[d], ru) : page' = [page EXCEPT ![d] = p]
      BY Zenon, <3>2
    <3>5. /\ p \subseteq Entry
          /\ ExaminedThrough(d, dread[d], ru) \in Nat
          /\ HasMore(d, dread[d], ru) \in BOOLEAN
      BY Zenon, <3>1, <3>3, <3>4, PageFacts
    <3>6. NoRead \in Reply
      BY Zenon DEF NoRead, Reply
    <3>7. /\ page' \in [Reader -> SUBSET Entry]
          /\ examined' \in [Reader -> Nat]
          /\ more' \in [Reader -> BOOLEAN]
      BY Zenon, <3>2, <3>4, <3>5 DEF TypeOK
    <3> QED BY Zenon, <2>6, <3>6, <3>7 DEF ReadUser, TypeOK, Phase, storeVars, writeVars, clientVars
  <2>7. CASE Deliver(d)
    <3>1. page[d] \subseteq Entry
      BY Zenon DEF TypeOK
    <3>3. PICK e \in page[d] :
            /\ page' = [page EXCEPT ![d] = @ \ {e}]
            /\ pos' = [pos EXCEPT ![d] = e.id]
            /\ \/ UNCHANGED <<cursor, received>>
               \/ /\ cursor' = [cursor EXCEPT ![d] = e.id]
                  /\ received' = [received EXCEPT ![d] = @ \cup {e.m}]
      BY Zenon, <2>7 DEF Deliver
    <3>4. e.id \in Nat /\ e.m \in Msg
      BY Zenon, <3>1 DEF Entry
    <3>5. page' \in [Reader -> SUBSET Entry]
      BY Zenon, <3>3 DEF TypeOK
    <3>6. pos' \in [Reader -> Nat] /\ cursor' \in [Reader -> Nat]
      BY Zenon, <3>3, <3>4 DEF TypeOK
    <3>7. received' \in [Reader -> SUBSET Msg]
      <4>1. received \in [Reader -> SUBSET Msg] /\ received[d] \cup {e.m} \in SUBSET Msg
        BY SMTT(60), <3>4 DEF TypeOK
      <4> QED BY Zenon, <3>3, <4>1
    <3> QED BY Zenon, <2>7, <3>5, <3>6, <3>7 DEF Deliver, TypeOK, storeVars, writeVars
  <2>8. CASE EndPage(d)
    BY Zenon, <2>8 DEF EndPage, UserPositionAfter, TypeOK, Phase, storeVars, writeVars, clientVars
  <2>9. CASE PollFails(d)
    BY Zenon, <2>9 DEF PollFails, NoRead, Reply, TypeOK, Phase, storeVars, writeVars, clientVars
  <2>10. CASE Close(d)
    BY Zenon, <2>10 DEF Close, NoRead, Reply, TypeOK, Phase, storeVars, writeVars, clientVars
  <2> QED BY Zenon, <1>7, <2>1, <2>2, <2>3, <2>4, <2>5, <2>6, <2>7, <2>8, <2>9, <2>10 DEF Connection
<1>8. ASSUME NEW d \in Reader, NEW i \in Instance, Pending(d, i) PROVE TypeOK'
  <2>1. CASE PendingReadDevice(d, i)
    <3>1. XRead(d, cursor[d], SourceLimit) \subseteq Reply
      BY Zenon, XReadFacts DEF TypeOK, Stream
    <3> QED BY <2>1, <3>1 DEF PendingReadDevice, WriteCall, TypeOK, Phase, storeVars, clientVars
  <2>2. CASE PendingReadUser(d, i)
    <3>1. cursor[d] \in Nat /\ dread[d] \in Reply
      BY Zenon DEF TypeOK
    <3>2. PICK ru \in XRead(UserKey, cursor[d], SourceLimit) :
            \E p \in Pages(d, dread[d], ru) :
              /\ \E c \in ResumeAfter(cursor[d], p, ExaminedThrough(d, dread[d], ru)) :
                    cursor' = [cursor EXCEPT ![d] = c]
              /\ received' = [received EXCEPT ![d] = @ \cup ({e.m : e \in p} \ Corrupt)]
      BY Zenon, <2>2 DEF PendingReadUser
    <3>8. PICK p \in Pages(d, dread[d], ru) :
            /\ \E c \in ResumeAfter(cursor[d], p, ExaminedThrough(d, dread[d], ru)) :
                  cursor' = [cursor EXCEPT ![d] = c]
            /\ received' = [received EXCEPT ![d] = @ \cup ({e.m : e \in p} \ Corrupt)]
      BY Zenon, <3>2
    <3>3. ru \in Reply
      BY Zenon, <3>1, <3>2, XReadFacts DEF Stream
    <3>4. p \subseteq Entry /\ ExaminedThrough(d, dread[d], ru) \in Nat
      BY Zenon, <3>1, <3>8, <3>3, PageFacts
    <3>5. ResumeAfter(cursor[d], p, ExaminedThrough(d, dread[d], ru)) \subseteq Nat
      BY Zenon, <3>1, <3>4 DEF ResumeAfter, Entry
    <3>6. NoRead \in Reply
      BY Zenon DEF NoRead, Reply
    <3>7. cursor' \in [Reader -> Nat] /\ received' \in [Reader -> SUBSET Msg]
      BY <3>8, <3>4, <3>5 DEF TypeOK, Entry
    <3> QED BY Zenon, <2>2, <3>6, <3>7 DEF PendingReadUser, WriteCall, TypeOK, Phase, storeVars
  <2>3. CASE PendingFails(d, i)
    BY Zenon, <2>3 DEF PendingFails, NoRead, Reply, WriteCall, TypeOK, Phase, storeVars, clientVars
  <2> QED BY Zenon, <1>8, <2>1, <2>2, <2>3 DEF Pending
<1>9. CASE UNCHANGED vars
  BY Zenon, <1>9 DEF TypeOK, vars, storeVars, writeVars, readVars, clientVars
<1> QED BY Zenon, <1>1, <1>2, <1>3, <1>4, <1>5, <1>6, <1>7, <1>8, <1>9 DEF Next, Write

\* The types hold initially.
LEMMA TypeInit == Init => TypeOK
  BY DeviceAssumption, CountAssumption
     DEF Init, TypeOK, WriteCall, Phase, NoRead, Reply

\* Every variable of the mailbox keeps its type.
THEOREM TypeCorrect == Spec => []TypeOK
  BY TypeInit, TypeStep, PTL DEF Spec

----------------------------------------------------------------------------
(* Ok means a copy. *)

\* What a write call under way has written so far.
CallInv ==
    \A i \in Instance :
        wr[i].stage = "devices" =>
            /\ UserWrite => Holds(UserKey, wr[i].m)
            /\ wr[i].landed => \E s \in Stream : Holds(s, wr[i].m)

\* Nothing takes an entry out of a stream.
LEMMA HoldsStays ==
    ASSUME TypeOK, NEW s \in Stream, NEW m \in Msg, NEW t, XAdd(s, m, t)
    PROVE  /\ Holds(s, m)'
           /\ \A r \in Stream : \A n \in Msg : Holds(r, n) => Holds(r, n)'
<1>1. \A r \in Stream : stream[r] \subseteq stream'[r]
  BY Zenon DEF XAdd, TypeOK
<1>2. [id |-> NextId(s, t), m |-> m] \in stream'[s]
  BY Zenon DEF XAdd, TypeOK
<1>3. Holds(s, m)'
  BY Zenon, <1>2 DEF Holds
<1> QED BY Zenon, <1>1, <1>3 DEF Holds

\* Every step keeps what an acknowledgement stands for.
LEMMA AckStep == TypeOK /\ CallInv /\ AckedIsWritten /\ [Next]_vars => CallInv' /\ AckedIsWritten'
<1> SUFFICES ASSUME TypeOK, CallInv, AckedIsWritten, [Next]_vars
             PROVE  CallInv' /\ AckedIsWritten'
  BY Zenon
<1> USE DeviceAssumption
<1>a. ASSUME NEW i \in Instance, wr[i].stage \in {"user", "devices"}
      PROVE  wr[i] \in [stage : {"user", "devices"}, m : Msg, todo : SUBSET Device,
                        landed : BOOLEAN]
  BY <1>a DEF TypeOK, WriteCall, Free
<1>1. ASSUME NEW i \in Instance, NEW m \in Msg, BeginWrite(i, m)
      PROVE  CallInv' /\ AckedIsWritten'
  BY <1>1 DEF BeginWrite, CallInv, AckedIsWritten, Holds, TypeOK, storeVars
<1>2. ASSUME NEW i \in Instance, WriteUser(i) PROVE CallInv' /\ AckedIsWritten'
  <2>1. PICK m \in Msg : m = wr[i].m
    BY Zenon, <1>2, <1>a DEF WriteUser
  <2>2. PICK t : XAdd(UserKey, m, t)
    BY Zenon, <1>2, <2>1 DEF WriteUser
  <2>3. /\ Holds(UserKey, m)'
        /\ \A r \in Stream : \A n \in Msg : Holds(r, n) => Holds(r, n)'
        /\ UserKey \in Stream
    BY Zenon, <2>2, HoldsStays DEF Stream
  <2>4. AckedIsWritten'
    BY Zenon, <1>2, <2>3 DEF WriteUser, AckedIsWritten, TypeOK
  <2>5. ASSUME NEW j \in Instance, wr'[j].stage = "devices"
        PROVE  /\ UserWrite => Holds(UserKey, wr[j].m)'
               /\ wr'[j].landed => \E s \in Stream : Holds(s, wr[j].m)'
    <3>1. CASE j = i
      BY Zenon, <1>2, <1>a, <2>1, <2>3, <3>1 DEF WriteUser, TypeOK
    <3>2. CASE j # i
      <4>1. wr'[j] = wr[j]
        BY Zenon, <1>2, <3>2 DEF WriteUser, TypeOK
      <4>2. wr[j].m \in Msg
        BY Zenon, <1>a, <2>5, <4>1
      <4> QED BY Zenon, <2>3, <2>5, <4>1, <4>2 DEF CallInv
    <3> QED BY Zenon, <3>1, <3>2
  <2> QED BY Zenon, <2>4, <2>5 DEF CallInv
<1>3. ASSUME NEW i \in Instance, NEW d \in Device, WriteDevice(i, d)
      PROVE  CallInv' /\ AckedIsWritten'
  <2>1. PICK m \in Msg : m = wr[i].m
    BY Zenon, <1>3, <1>a DEF WriteDevice
  <2>2. PICK t : XAdd(d, m, t)
    BY Zenon, <1>3, <2>1 DEF WriteDevice
  <2>3. /\ Holds(d, m)'
        /\ \A r \in Stream : \A n \in Msg : Holds(r, n) => Holds(r, n)'
        /\ d \in Stream /\ UserKey \in Stream
    BY Zenon, <2>2, HoldsStays DEF Stream
  <2>4. AckedIsWritten'
    BY Zenon, <1>3, <2>3 DEF WriteDevice, AckedIsWritten, TypeOK
  <2>5. ASSUME NEW j \in Instance, wr'[j].stage = "devices"
        PROVE  /\ UserWrite => Holds(UserKey, wr[j].m)'
               /\ wr'[j].landed => \E s \in Stream : Holds(s, wr[j].m)'
    <3>1. wr'[j].m = wr[j].m /\ wr[j].stage = "devices" /\ (j # i => wr'[j] = wr[j])
      BY Zenon, <1>3, <1>a, <2>5 DEF WriteDevice, TypeOK
    <3>2. wr[j].m \in Msg
      BY Zenon, <1>a, <3>1
    <3> QED BY Zenon, <2>1, <2>3, <3>1, <3>2 DEF CallInv
  <2> QED BY Zenon, <2>4, <2>5 DEF CallInv
<1>4. ASSUME NEW i \in Instance, WriteUserFails(i) PROVE CallInv' /\ AckedIsWritten'
  BY <1>4 DEF WriteUserFails, CallInv, AckedIsWritten, Holds, TypeOK, storeVars, Free
<1>5. ASSUME NEW i \in Instance, NEW d \in Device, WriteDeviceFails(i, d)
      PROVE  CallInv' /\ AckedIsWritten'
  <2>1. UNCHANGED <<stream, acked>>
    BY Zenon, <1>5 DEF WriteDeviceFails, storeVars
  <2>2. ASSUME NEW j \in Instance
        PROVE  /\ wr'[j].stage = wr[j].stage
               /\ wr[j].stage = "devices" => wr'[j].m = wr[j].m /\ wr'[j].landed = wr[j].landed
    BY Zenon, <1>5, <1>a DEF WriteDeviceFails, TypeOK
  <2> QED BY <2>1, <2>2 DEF CallInv, AckedIsWritten, Holds
<1>6. ASSUME NEW i \in Instance, EndWrite(i) PROVE CallInv' /\ AckedIsWritten'
  <2>1. UNCHANGED stream /\ \A j \in Instance : wr'[j] = wr[j] \/ wr'[j] = Free
    BY Zenon, <1>6 DEF EndWrite, storeVars, TypeOK
  <2>2. CallInv'
    BY <2>1 DEF CallInv, Holds, Free
  <2>3. acked' # acked => \E s \in Stream : Holds(s, wr[i].m)
    BY Zenon, <1>6 DEF EndWrite, CallInv, Stream
  <2>4. AckedIsWritten'
    BY Zenon, <1>6, <2>1, <2>3 DEF EndWrite, AckedIsWritten, Holds
  <2> QED BY Zenon, <2>2, <2>4
<1>7. ASSUME NEW d \in Reader, Connection(d) PROVE CallInv' /\ AckedIsWritten'
  <2>1. UNCHANGED <<storeVars, writeVars>>
    BY Zenon, <1>7 DEF Connection, Open, Subscribe, GraceElapses, Wake, ReadDevice, ReadUser, Deliver,
                EndPage, PollFails, Close
  <2> QED BY ZenonT(60), <2>1 DEF storeVars, writeVars, CallInv, AckedIsWritten, Holds
<1>8. ASSUME NEW d \in Reader, NEW i \in Instance, Pending(d, i)
      PROVE  CallInv' /\ AckedIsWritten'
  <2>1. /\ UNCHANGED <<storeVars, acked>>
        /\ \A j \in Instance : wr'[j] = wr[j] \/ wr'[j].stage \in {"free", "reading"}
    BY <1>8 DEF Pending, PendingReadDevice, PendingReadUser, PendingFails, Free, TypeOK
  <2> QED BY <2>1 DEF storeVars, CallInv, AckedIsWritten, Holds
<1>9. CASE UNCHANGED vars
  BY ZenonT(60), <1>9 DEF vars, storeVars, writeVars, CallInv, AckedIsWritten, Holds
<1> QED BY Zenon, <1>1, <1>2, <1>3, <1>4, <1>5, <1>6, <1>7, <1>8, <1>9 DEF Next, Write

\* A write call that returned Ok left a copy in some stream, with the user stream
\* written or not, whatever XADDs failed.
THEOREM OkMeansStored == Spec => []AckedIsWritten
<1>1. Init => CallInv /\ AckedIsWritten
  BY DEF Init, CallInv, AckedIsWritten, Free
<1>2. TypeOK /\ CallInv /\ AckedIsWritten /\ [Next]_vars => CallInv' /\ AckedIsWritten'
  BY Zenon, AckStep
<1> QED BY <1>1, <1>2, TypeCorrect, PTL DEF Spec

----------------------------------------------------------------------------
(* The position of an open stream. *)

\* The device read, and the page, of d lie after what its client was told.
ForwardOf(d) ==
    /\ phase[d] = "user" => \A e \in dread[d].got : e.id > pos[d]
    /\ phase[d] = "deliver" => \A e \in page[d] : e.id >= pos[d]

PagesForward == \A d \in Reader : ForwardOf(d)

\* The position of d does not go back while its stream is open.
GoesOn(d) == phase[d] \notin {"closed", "await"} /\ phase'[d] # "closed" => pos'[d] >= pos[d]

\* A step that leaves the position and the page of d alone.
LEMMA ForwardFrame ==
    ASSUME TypeOK, NEW d \in Reader, ForwardOf(d), pos'[d] = pos[d],
           phase'[d] \in {"user", "deliver"} =>
               phase'[d] = phase[d] /\ dread'[d] = dread[d] /\ page'[d] = page[d]
    PROVE  ForwardOf(d)' /\ GoesOn(d)
<1>1. pos[d] \in Nat
  BY Zenon DEF TypeOK
<1>2. GoesOn(d)
  BY <1>1 DEF GoesOn
<1>3. ForwardOf(d)'
  BY Zenon DEF ForwardOf
<1> QED BY Zenon, <1>2, <1>3

\* What the connection task of d does moves its position forward.
LEMMA ForwardConnection ==
    ASSUME TypeOK, NEW d \in Reader, ForwardOf(d), Connection(d)
    PROVE  ForwardOf(d)' /\ GoesOn(d)
<1> USE DeviceAssumption
<1>1. CASE Open(d) \/ GraceElapses(d) \/ Wake(d) \/ EndPage(d) \/ PollFails(d)
  <2>1. pos' = pos
    BY Zenon, <1>1 DEF Open, GraceElapses, Wake, EndPage, PollFails
  <2>2. phase'[d] \in {"await", "device", "idle"}
    BY Zenon, <1>1 DEF Open, GraceElapses, Wake, EndPage, PollFails, TypeOK
  <2> QED BY <2>1, <2>2, ForwardFrame
<1>2. CASE Subscribe(d)
  <2>1. PICK since \in {0, cursor[d]} : pos' = [pos EXCEPT ![d] = IF since > @ THEN since ELSE @]
    BY Zenon, <1>2 DEF Subscribe
  <2>2. pos[d] \in Nat /\ since \in Nat
    BY <2>1 DEF TypeOK
  <2>3. pos'[d] = IF since > pos[d] THEN since ELSE pos[d]
    BY Zenon, <2>1 DEF TypeOK
  <2>4. pos'[d] >= pos[d]
    BY <2>2, <2>3
  <2>5. phase'[d] \in {"device", "idle"}
    BY Zenon, <1>2 DEF Subscribe, TypeOK
  <2>6. ForwardOf(d)'
    BY <2>5 DEF ForwardOf
  <2> QED BY Zenon, <2>4, <2>6 DEF GoesOn
<1>3. CASE ReadDevice(d)
  <2>1. PICK rd \in XRead(d, pos[d], SourceLimit) : dread' = [dread EXCEPT ![d] = rd]
    BY Zenon, <1>3 DEF ReadDevice
  <2>2. d \in Stream /\ pos[d] \in Nat
    BY Zenon DEF Stream, TypeOK
  <2>3. \A e \in rd.got : e.id > pos[d]
    BY Zenon, <2>1, <2>2, XReadFacts
  <2>4. dread'[d] = rd /\ pos'[d] = pos[d] /\ phase'[d] = "user"
    BY Zenon, <1>3, <2>1 DEF ReadDevice, TypeOK
  <2>5. ForwardOf(d)'
    BY <2>3, <2>4 DEF ForwardOf
  <2>6. GoesOn(d)
    BY <2>2, <2>4 DEF GoesOn
  <2> QED BY Zenon, <2>5, <2>6
<1>4. CASE ReadUser(d)
  <2>1. PICK ru \in XRead(UserKey, UserReadPosition(d), SourceLimit) :
          \E p \in Pages(d, dread[d], ru) : page' = [page EXCEPT ![d] = p]
    BY Zenon, <1>4 DEF ReadUser
  <2>2. PICK p \in Pages(d, dread[d], ru) : page' = [page EXCEPT ![d] = p]
    BY Zenon, <2>1
  <2>3. /\ UserReadPosition(d) \in Nat /\ pos[d] \in Nat /\ upos[d] \in Nat
        /\ dread[d] \in Reply /\ UserKey \in Stream
    BY Zenon DEF UserReadPosition, Stream, TypeOK
  <2>4. UserReadPosition(d) >= pos[d]
    BY <2>3 DEF UserReadPosition
  <2>5. ru \in Reply /\ \A e \in ru.got : e.id > UserReadPosition(d)
    BY Zenon, <2>1, <2>3, XReadFacts
  <2>6. p \subseteq Entry /\ \A e \in p : e \in dread[d].got \/ e \in ru.got
    BY Zenon, <2>2, <2>3, <2>5, PageFacts
  <2>7. phase[d] = "user"
    BY Zenon, <1>4 DEF ReadUser
  <2>8. \A e \in p : e.id > pos[d] \/ e.id > UserReadPosition(d)
    BY Zenon, <2>5, <2>6, <2>7 DEF ForwardOf
  <2>9. \A e \in p : e.id >= pos[d]
    BY <2>3, <2>4, <2>6, <2>8 DEF Entry
  <2>10. page'[d] = p /\ pos'[d] = pos[d] /\ phase'[d] = "deliver"
    BY Zenon, <1>4, <2>2 DEF ReadUser, TypeOK
  <2>11. ForwardOf(d)'
    BY <2>9, <2>10 DEF ForwardOf
  <2>12. GoesOn(d)
    BY <2>3, <2>10 DEF GoesOn
  <2> QED BY Zenon, <2>11, <2>12
<1>5. CASE Deliver(d)
  <2>1. PICK e \in page[d] :
          /\ \A f \in page[d] : e.id <= f.id
          /\ page' = [page EXCEPT ![d] = @ \ {e}]
          /\ pos' = [pos EXCEPT ![d] = e.id]
    BY Zenon, <1>5 DEF Deliver
  <2>2. phase[d] = "deliver" /\ phase' = phase
    BY Zenon, <1>5 DEF Deliver
  <2>3. page'[d] = page[d] \ {e} /\ pos'[d] = e.id
    BY Zenon, <2>1 DEF TypeOK
  <2>4. page[d] \subseteq Entry
    BY Zenon DEF TypeOK
  <2>5. \A f \in page[d] : e.id <= f.id /\ e.id \in Nat /\ f.id \in Nat
    BY Zenon, <2>1, <2>4 DEF Entry
  <2>6. ForwardOf(d)'
    BY <2>2, <2>3, <2>5 DEF ForwardOf
  <2>7. GoesOn(d)
    BY <2>1, <2>2, <2>3 DEF GoesOn, ForwardOf
  <2> QED BY Zenon, <2>6, <2>7
<1>6. CASE Close(d)
  <2>1. phase'[d] = "closed"
    BY Zenon, <1>6 DEF Close, TypeOK
  <2> QED BY <2>1 DEF ForwardOf, GoesOn
<1> QED BY Zenon, <1>1, <1>2, <1>3, <1>4, <1>5, <1>6 DEF Connection

\* Every step keeps the pages forward, and no position goes back.
LEMMA ForwardStep == TypeOK /\ PagesForward /\ [Next]_vars => PagesForward' /\ \A d \in Reader : GoesOn(d)
<1> SUFFICES ASSUME TypeOK, PagesForward, [Next]_vars, NEW d \in Reader
             PROVE  ForwardOf(d)' /\ GoesOn(d)
  BY Zenon DEF PagesForward
<1>1. ForwardOf(d)
  BY Zenon DEF PagesForward
<1>2. ASSUME NEW i \in Instance, Write(i) PROVE ForwardOf(d)' /\ GoesOn(d)
  <2>1. UNCHANGED readVars
    BY Zenon, <1>2 DEF Write, BeginWrite, WriteUser, WriteUserFails, WriteDevice, WriteDeviceFails, EndWrite
  <2>2. pos' = pos /\ phase' = phase /\ dread' = dread /\ page' = page
    BY Zenon, <2>1 DEF readVars
  <2> QED BY Zenon, <1>1, <2>2, ForwardFrame
<1>3. ASSUME NEW c \in Reader, Connection(c) PROVE ForwardOf(d)' /\ GoesOn(d)
  <2>1. CASE c = d
    BY Zenon, <1>1, <1>3, <2>1, ForwardConnection
  <2>2. CASE c # d
    <3>1. /\ pos' = pos \/ \E x : pos' = [pos EXCEPT ![c] = x]
          /\ phase' = phase \/ \E x : phase' = [phase EXCEPT ![c] = x]
          /\ dread' = dread \/ \E x : dread' = [dread EXCEPT ![c] = x]
          /\ page' = page \/ \E x : page' = [page EXCEPT ![c] = x]
      BY Zenon, <1>3 DEF Connection, Open, Subscribe, GraceElapses, Wake, ReadDevice, ReadUser, Deliver,
                  EndPage, PollFails, Close
    <3>2. pos'[d] = pos[d] /\ phase'[d] = phase[d] /\ dread'[d] = dread[d] /\ page'[d] = page[d]
      BY Zenon, <2>2, <3>1 DEF TypeOK
    <3> QED BY Zenon, <1>1, <3>2, ForwardFrame
  <2> QED BY Zenon, <2>1, <2>2
<1>4. ASSUME NEW c \in Reader, NEW i \in Instance, Pending(c, i) PROVE ForwardOf(d)' /\ GoesOn(d)
  <2>1. pos' = pos /\ page' = page
    BY Zenon, <1>4 DEF Pending, PendingReadDevice, PendingReadUser, PendingFails
  <2>2. CASE c = d
    <3>1. phase'[d] \in {"pending", "closed"}
      BY Zenon, <1>4, <2>2 DEF Pending, PendingReadDevice, PendingReadUser, PendingFails, TypeOK
    <3> QED BY <1>1, <2>1, <3>1, ForwardFrame
  <2>3. CASE c # d
    <3>1. /\ phase' = phase \/ \E x : phase' = [phase EXCEPT ![c] = x]
          /\ dread' = dread \/ \E x : dread' = [dread EXCEPT ![c] = x]
      BY Zenon, <1>4 DEF Pending, PendingReadDevice, PendingReadUser, PendingFails
    <3>2. phase'[d] = phase[d] /\ dread'[d] = dread[d]
      BY Zenon, <2>3, <3>1 DEF TypeOK
    <3> QED BY Zenon, <1>1, <2>1, <3>2, ForwardFrame
  <2> QED BY Zenon, <2>2, <2>3
<1>5. CASE UNCHANGED vars
  <2>1. pos' = pos /\ phase' = phase /\ dread' = dread /\ page' = page
    BY Zenon, <1>5 DEF vars, readVars
  <2> QED BY Zenon, <1>1, <2>1, ForwardFrame
<1> QED BY Zenon, <1>2, <1>3, <1>4, <1>5 DEF Next

\* The position an open stream has told its client never goes back, whether or
\* not XADDs share a millisecond.
THEOREM PositionsAdvance == Spec => CursorNeverRewinds
<1>1. Init => PagesForward
  BY Zenon DEF Init, PagesForward, ForwardOf
<1>2. TypeOK /\ PagesForward /\ [Next]_vars => PagesForward'
  BY Zenon, ForwardStep
<1>3. TypeOK /\ PagesForward /\ [Next]_vars =>
          [\A d \in Reader : phase[d] \notin {"closed", "await"} /\ phase'[d] # "closed" => pos'[d] >= pos[d]]_vars
  BY Zenon, ForwardStep DEF GoesOn
<1> QED BY <1>1, <1>2, <1>3, TypeCorrect, PTL DEF Spec, CursorNeverRewinds

(* What a page leaves out lies after it. *)

\* An entry that is past the horizon, or merged and not on the page, is after
\* everything on the page and after what the page says it examined.
LEMMA LeftOut ==
    ASSUME NEW d, NEW rd \in Reply, NEW ru \in Reply, NEW p \in Pages(d, rd, ru),
           NEW f \in Entry, f.id > 0,
           PastHorizon(rd, ru, f.id) \/ f \in Merged(d, rd, ru) \ p,
           \A g \in p : g.id = f.id => g = f
    PROVE  /\ \A g \in p : g.id < f.id
           /\ f.id > ExaminedThrough(d, rd, ru)
<1>1. rd.last \in Nat /\ ru.last \in Nat /\ f.id \in Nat /\ \A g \in p : g.id \in Nat
  BY PageFacts DEF Reply, Entry
<1>2. CASE PastHorizon(rd, ru, f.id)
  <2>1. \A g \in p : ~PastHorizon(rd, ru, g.id)
    BY Zenon, PageFacts
  <2>2. \A g \in p : g.id < f.id
    BY <1>1, <1>2, <2>1 DEF PastHorizon
  <2>3. f.id > ExaminedThrough(d, rd, ru)
    BY <1>1, <1>2 DEF PastHorizon, ExaminedThrough, Horizon
  <2> QED BY Zenon, <2>2, <2>3
<1>3. CASE ~PastHorizon(rd, ru, f.id)
  <2>1. f \in Kept(d, rd, ru) \ p
    BY Zenon, <1>3 DEF Kept
  <2>2. CutByCount(d, rd, ru) /\ \A g \in p : g.id <= f.id
    BY Zenon, <2>1, PageFacts
  <2>3. \A g \in p : g.id < f.id
    BY <1>1, <2>1, <2>2
  <2>4. f.id > ExaminedThrough(d, rd, ru)
    BY Zenon, <2>2 DEF ExaminedThrough
  <2> QED BY Zenon, <2>3, <2>4
<1> QED BY Zenon, <1>2, <1>3

\* The page of the two reads holds a missing envelope, or leaves a copy of it
\* after everything the page moves a position over.
LEMMA MergeKeeps ==
    ASSUME ReadInv, NEW d \in Reader, phase[d] \in {"user", "pending"},
           NEW q \in Nat, q <= UserPassed(d),
           NEW ru \in XRead(UserKey, q, SourceLimit),
           NEW p \in Pages(d, dread[d], ru),
           NEW m \in Msg, Missing(d, m)
    PROVE  \/ (\E f \in p : f.m = m) /\ Ahead(d, m, Passed(d), UserPassed(d))
           \/ AfterPage(d, m, p, ExaminedThrough(d, dread[d], ru))
<1> DEFINE rd == dread[d]
           ex == ExaminedThrough(d, rd, ru)
<1>1. rd \in Reply /\ d \in Stream /\ UserKey \in Stream
  BY Zenon, DeviceAssumption DEF ReadInv, TypeOK, Stream
<1>2. /\ ru \in Reply
      /\ ru.got \subseteq stream[UserKey]
      /\ \A e \in ru.got : e.id > q /\ e.id <= ru.last
      /\ ru.got = {} => ru.last = 0
      /\ \A f \in stream[UserKey] : f.id > q /\ f \notin ru.got => Full(ru) /\ f.id > ru.last
  BY Zenon, <1>1, XReadFacts DEF ReadInv
<1>3. /\ rd.got \subseteq stream[d]
      /\ \A e \in rd.got : e.id <= rd.last
      /\ \/ \E f \in rd.got : f.m = m /\ f.id > Passed(d)
         \/ /\ Full(rd) \/ ~UserWrite
            /\ \E f \in stream[d] : f.m = m /\ f.id > Passed(d) /\ f.id > rd.last
         \/ \E f \in stream[UserKey] : f.m = m /\ f.id > UserPassed(d)
  BY Zenon DEF ReadInv, ReaderInv, BetweenReads
<1>4. /\ stream[d] \subseteq Entry /\ stream[UserKey] \subseteq Entry
      /\ rd.last \in Nat /\ ru.last \in Nat
      /\ Passed(d) \in Nat /\ UserPassed(d) \in Nat
  BY Zenon, <1>1, <1>2 DEF ReadInv, TypeOK, Reply, Passed, UserPassed
<1>5. m \notin Corrupt
  BY Zenon DEF Missing, Owed
<1>6. p \subseteq Entry /\ \A e \in p : e \in rd.got \/ e \in ru.got
  BY Zenon, <1>1, <1>2, PageFacts
<1>7. ASSUME NEW f \in stream[d] \cup stream[UserKey],
             PastHorizon(rd, ru, f.id) \/ f \in Merged(d, rd, ru) \ p
      PROVE  (\A g \in p : g.id < f.id) /\ f.id > ex
  <2>1. f.id > 0
    BY Zenon, <1>1, <1>7 DEF ReadInv, StoreInv, ClockAhead
  <2>2. \A g \in p : g.id = f.id => g = f
    BY <1>1, <1>2, <1>3, <1>6, <1>7 DEF ReadInv, StoreInv, IdsUnique
  <2>3. f \in Entry
    BY Zenon, <1>4
  <2> QED BY Zenon, <1>1, <1>2, <1>7, <2>1, <2>2, <2>3, LeftOut
<1>8. ASSUME NEW h \in rd.got, h.m = m
      PROVE  \E g \in Merged(d, rd, ru) : g \in rd.got /\ g.m = m /\ h.id <= g.id
  <2> DEFINE T == {e \in rd.got : e.m = m}
  <2>1. T \in SUBSET Entry /\ T # {} /\ \A e \in T : e.id <= rd.last
    BY Zenon, <1>3, <1>4, <1>8
  <2>2. PICK g \in T : \A f \in T : f.id <= g.id
    <3> HIDE DEF T
    <3> QED BY Zenon, <1>4, <2>1, LastEntry
  <2> QED BY Zenon, <1>8, <2>2 DEF Merged
<1>9. CASE \E f \in rd.got : f.m = m /\ f.id > Passed(d)
  <2>1. PICK f \in rd.got : f.m = m /\ f.id > Passed(d)
    BY Zenon, <1>9
  <2>2. PICK g \in Merged(d, rd, ru) : g \in rd.got /\ g.m = m /\ f.id <= g.id
    BY Zenon, <1>8, <2>1
  <2>3. g \in stream[d] /\ g.id > Passed(d)
    BY <1>3, <1>4, <2>1, <2>2 DEF Entry
  <2>4. CASE g \in p
    BY Zenon, <2>2, <2>3, <2>4 DEF Ahead
  <2>5. CASE g \notin p
    BY Zenon, <1>7, <2>2, <2>3, <2>5 DEF AfterPage
  <2> QED BY Zenon, <2>4, <2>5
<1>10. CASE /\ Full(rd) \/ ~UserWrite
            /\ \E f \in stream[d] : f.m = m /\ f.id > Passed(d) /\ f.id > rd.last
  <2>1. PICK f \in stream[d] : f.m = m /\ f.id > Passed(d) /\ f.id > rd.last
    BY Zenon, <1>10
  <2>2. CASE Full(rd)
    <3>1. PastHorizon(rd, ru, f.id)
      BY Zenon, <2>1, <2>2 DEF PastHorizon
    <3> QED BY Zenon, <1>7, <2>1, <3>1 DEF AfterPage
  <2>3. CASE ~UserWrite
    <3>1. ru.got = {} /\ ex = 0
      BY Zenon, <1>2, <2>3 DEF ReadInv, StoreInv, NoUserStream, ExaminedThrough
    <3>2. \A g \in p : g.id < f.id
      BY <1>3, <1>4, <1>6, <2>1, <3>1 DEF Entry
    <3>3. f.id > ex
      BY <1>4, <2>1, <3>1 DEF Entry
    <3> QED BY Zenon, <2>1, <3>2, <3>3 DEF AfterPage
  <2> QED BY Zenon, <1>10, <2>2, <2>3
<1>11. CASE \E f \in stream[UserKey] : f.m = m /\ f.id > UserPassed(d)
  <2>1. PICK f \in stream[UserKey] : f.m = m /\ f.id > UserPassed(d)
    BY Zenon, <1>11
  <2>2. f.id \in Nat /\ f.id > q
    BY <1>4, <2>1 DEF Entry
  <2>3. CASE f \notin ru.got
    <3>1. PastHorizon(rd, ru, f.id)
      BY Zenon, <1>2, <2>2, <2>3 DEF PastHorizon
    <3> QED BY Zenon, <1>7, <2>1, <3>1 DEF AfterPage
  <2>4. CASE \E h \in rd.got : h.m = m
    <3>1. PICK g \in Merged(d, rd, ru) : g \in rd.got /\ g.m = m
      BY Zenon, <1>8, <2>4
    <3>2. g \in stream[d] /\ g.id \in Nat
      BY Zenon, <1>3, <1>4, <3>1 DEF Entry
    <3>3. CASE g \in p
      BY Zenon, <2>1, <3>1, <3>3 DEF Ahead
    <3>4. CASE g \notin p /\ g.id > Passed(d)
      BY Zenon, <1>7, <3>1, <3>2, <3>4 DEF AfterPage
    <3>5. CASE g \notin p /\ ~(g.id > Passed(d))
      <4>1. g.id < f.id
        BY <1>4, <2>1, <2>2, <3>2, <3>5 DEF UserPassed
      <4>2. (\A e \in p : e.id < g.id) /\ g.id > ex
        BY Zenon, <1>7, <3>1, <3>2, <3>5
      <4>3. \A e \in p : e.id \in Nat
        BY Zenon, <1>6 DEF Entry
      <4>4. ex \in Nat
        BY Zenon, <1>1, <1>2, PageFacts
      <4>5. (\A e \in p : e.id < f.id) /\ f.id > ex
        BY <2>2, <3>2, <4>1, <4>2, <4>3, <4>4
      <4> QED BY Zenon, <2>1, <4>5 DEF AfterPage
    <3> QED BY Zenon, <3>3, <3>4, <3>5
  <2>5. CASE f \in ru.got /\ \A h \in rd.got : h.m # m
    <3> DEFINE T == {e \in ru.got : e.m = m}
    <3>1. T \in SUBSET Entry /\ T # {} /\ \A e \in T : e.id <= ru.last
      BY Zenon, <1>2, <1>4, <2>1, <2>5
    <3>2. PICK g \in T : \A h \in T : h.id <= g.id
      <4> HIDE DEF T
      <4> QED BY Zenon, <1>4, <3>1, LastEntry
    <3>3. UserWrite
      BY Zenon, <2>1 DEF ReadInv, StoreInv, NoUserStream
    <3>4. ForReader(d, m)
      BY Zenon, <3>3 DEF Missing, Owed, ForReader
    <3>5. g \in Merged(d, rd, ru)
      BY Zenon, <2>5, <3>2, <3>4 DEF Merged
    <3>6. g \in stream[UserKey] /\ g.m = m /\ g.id > UserPassed(d)
      BY <1>2, <1>4, <2>1, <2>5, <3>2 DEF Entry
    <3>7. CASE g \in p
      BY Zenon, <3>6, <3>7 DEF Ahead
    <3>8. CASE g \notin p
      BY Zenon, <1>7, <3>5, <3>6, <3>8 DEF AfterPage
    <3> QED BY Zenon, <3>7, <3>8
  <2> QED BY Zenon, <2>3, <2>4, <2>5
<1> QED BY Zenon, <1>3, <1>9, <1>10, <1>11

----------------------------------------------------------------------------
(* ReadInv is inductive. *)

\* In every phase, a missing envelope has a copy after everything passed.
LEMMA StillAhead ==
    ASSUME ReadInv, NEW d \in Reader, NEW m \in Msg, Missing(d, m)
    PROVE  Ahead(d, m, Passed(d), UserPassed(d))
<1>1. CASE phase[d] \in {"closed", "await", "idle", "device"}
  BY Zenon, <1>1 DEF ReadInv, ReaderInv, BetweenPages
<1>2. CASE phase[d] \in {"user", "pending"}
  BY Zenon, <1>2 DEF ReadInv, ReaderInv, BetweenReads, Ahead
<1>3. CASE phase[d] = "deliver"
  BY Zenon, <1>3 DEF ReadInv, ReaderInv, WithinPage, AfterPage, Ahead
<1>4. phase[d] \in Phase
  BY Zenon DEF ReadInv, TypeOK
<1> QED BY Zenon, <1>1, <1>2, <1>3, <1>4 DEF Phase

\* What a page that was passed leaves behind.
LEMMA PassedFacts ==
    ASSUME TypeOK, NEW d \in Reader
    PROVE  /\ Passed(d) \in Nat /\ UserPassed(d) \in Nat
           /\ pos[d] <= Passed(d) /\ cursor[d] <= Passed(d)
           /\ Passed(d) <= UserPassed(d) /\ upos[d] <= UserPassed(d)
           /\ UserReadPosition(d) \in Nat
           /\ UserReadPosition(d) <= UserPassed(d)
           /\ pos[d] <= UserReadPosition(d) /\ upos[d] <= UserReadPosition(d)
  BY DEF TypeOK, Passed, UserPassed, UserReadPosition

\* A step that leaves the streams and a device's variables alone keeps ReaderInv.
LEMMA ReaderFrame ==
    ASSUME NEW d \in Reader, ReaderInv(d), UNCHANGED <<now, stream>>,
           phase'[d] = phase[d], pos'[d] = pos[d], upos'[d] = upos[d],
           dread'[d] = dread[d], page'[d] = page[d], examined'[d] = examined[d],
           cursor'[d] = cursor[d], received'[d] = received[d]
    PROVE  ReaderInv(d)'
  BY DEF ReaderInv, PositionsBehind, PositionsReset, BetweenPages, BetweenReads, WithinPage,
         Missing, Owed, Holds, Ahead, AfterPage, Passed, UserPassed

\* A step that leaves the streams alone keeps what is said of them alone.
LEMMA StoreFrame ==
    ASSUME StoreInv, UNCHANGED storeVars,
           ~UserWrite => \A i \in Instance : wr[i].stage # "user" => wr'[i].stage # "user"
    PROVE  StoreInv'
  BY Zenon DEF StoreInv, ClockAhead, IdsUnique, NoUserStream, storeVars

\* The facts about the entry an XADD appends when no two share a millisecond.
LEMMA XAddFacts ==
    ASSUME SameMs = FALSE, TypeOK, StoreInv,
           NEW s \in Stream, NEW m \in Msg, NEW t \in Times, XAdd(s, m, t)
    PROVE  /\ t \in Nat /\ t > now /\ now' = t
           /\ stream' = [stream EXCEPT ![s] = @ \cup {[id |-> t, m |-> m]}]
           /\ lastId' = [lastId EXCEPT ![s] = t]
<1>1. t = now + SeqSpan /\ now \in Nat /\ lastId[s] \in Nat
  BY Zenon DEF Times, TypeOK
<1>2. t \in Nat /\ t > now
  BY <1>1, CountAssumption
<1>3. lastId[s] < t
  BY <1>1, <1>2 DEF StoreInv, ClockAhead
<1> QED BY Zenon, <1>2, <1>3 DEF XAdd, NextId

\* What XADD adds to a stream.
LEMMA XAddStore ==
    ASSUME SameMs = FALSE, TypeOK, StoreInv,
           NEW s \in Stream, NEW m \in Msg, NEW t \in Times, XAdd(s, m, t),
           s = UserKey => UserWrite,
           ~UserWrite => \A i \in Instance : wr[i].stage # "user" => wr'[i].stage # "user"
    PROVE  StoreInv'
<1>1. /\ t \in Nat /\ t > now /\ now' = t
      /\ stream' = [stream EXCEPT ![s] = @ \cup {[id |-> t, m |-> m]}]
      /\ lastId' = [lastId EXCEPT ![s] = t]
  BY Zenon, XAddFacts
<1>2. now \in Nat /\ \A u \in Stream : stream[u] \subseteq Entry /\ lastId[u] \in Nat
  BY Zenon DEF TypeOK
<1>3. \A u \in Stream : \A e \in stream'[u] :
        e \in stream[u] \/ (u = s /\ e = [id |-> t, m |-> m])
  BY Zenon, <1>1 DEF TypeOK
<1>4. \A u \in Stream : \A e \in stream[u] : e.id \in Nat /\ e.id < t
  BY <1>1, <1>2 DEF StoreInv, ClockAhead, Entry
<1>5. ClockAhead'
  BY <1>1, <1>2, <1>3, <1>4 DEF StoreInv, ClockAhead, TypeOK
<1>6. IdsUnique'
  <2> SUFFICES ASSUME NEW u \in Stream, NEW v \in Stream, NEW e \in stream'[u],
                      NEW f \in stream'[v], e.id = f.id
               PROVE  e = f
    BY Zenon DEF IdsUnique
  <2>1. e \in stream[u] \/ e = [id |-> t, m |-> m]
    BY Zenon, <1>3
  <2>2. f \in stream[v] \/ f = [id |-> t, m |-> m]
    BY Zenon, <1>3
  <2> QED BY <1>1, <1>4, <2>1, <2>2 DEF StoreInv, IdsUnique
<1>7. NoUserStream'
  BY Zenon, <1>1 DEF StoreInv, NoUserStream, TypeOK, Stream
<1> QED BY Zenon, <1>5, <1>6, <1>7 DEF StoreInv

\* A new entry is after everything every reader has read.
LEMMA XAddReader ==
    ASSUME SameMs = FALSE, ReadInv,
           NEW s \in Stream, NEW m \in Msg, NEW t \in Times, XAdd(s, m, t),
           UNCHANGED <<readVars, clientVars>>, NEW d \in Reader
    PROVE  ReaderInv(d)'
<1> DEFINE e == [id |-> t, m |-> m]
<1>1. /\ t \in Nat /\ t > now /\ now' = t
      /\ stream' = [stream EXCEPT ![s] = @ \cup {e}]
  BY Zenon, XAddFacts DEF ReadInv
<1>2. /\ pos' = pos /\ upos' = upos /\ cursor' = cursor /\ examined' = examined
      /\ dread' = dread /\ page' = page /\ phase' = phase /\ received' = received
  BY Zenon DEF readVars, clientVars
<1>3. d \in Stream /\ UserKey \in Stream /\ d # UserKey
  BY Zenon, DeviceAssumption DEF Stream
<1>4. /\ now \in Nat /\ pos[d] \in Nat /\ upos[d] \in Nat /\ cursor[d] \in Nat
      /\ examined[d] \in Nat /\ dread[d].last \in Nat
      /\ stream[d] \subseteq Entry /\ stream[UserKey] \subseteq Entry
  BY Zenon, <1>3 DEF ReadInv, TypeOK, Reply
<1>5. Passed(d)' = Passed(d) /\ UserPassed(d)' = UserPassed(d)
  BY Zenon, <1>2 DEF Passed, UserPassed
<1>6. /\ t > Passed(d) /\ t > UserPassed(d) /\ t > examined[d] /\ t > dread[d].last
  BY <1>1, <1>4 DEF ReadInv, ReaderInv, PositionsBehind, Passed, UserPassed
<1>7. stream[d] \subseteq stream'[d] /\ stream[UserKey] \subseteq stream'[UserKey]
  BY Zenon, <1>1, <1>3 DEF ReadInv, TypeOK
<1>8. ASSUME NEW k \in Msg, Missing(d, k)'
      PROVE  \/ Missing(d, k)
             \/ k = m /\ e \in stream'[UserKey]
             \/ k = m /\ ~UserWrite /\ e \in stream'[d]
  <2>1. \A u \in Stream : stream'[u] = stream[u] \/ stream'[u] = stream[u] \cup {e}
    BY Zenon, <1>1 DEF ReadInv, TypeOK
  <2>2. \A u \in Stream : Holds(u, k)' => Holds(u, k) \/ (k = m /\ e \in stream'[u])
    BY <2>1 DEF Holds
  <2> QED BY Zenon, <1>2, <1>3, <1>8, <2>2 DEF Missing, Owed
<1>9. PositionsBehind(d)'
  BY <1>1, <1>2, <1>4 DEF ReadInv, ReaderInv, PositionsBehind
<1>10. PositionsReset(d)'
  BY Zenon, <1>2 DEF ReadInv, ReaderInv, PositionsReset
<1>11. BetweenPages(d)'
  <2> SUFFICES ASSUME phase[d] \in {"closed", "await", "idle", "device"},
                      NEW k \in Msg, Missing(d, k)'
               PROVE  Ahead(d, k, Passed(d), UserPassed(d))'
    BY Zenon, <1>2 DEF BetweenPages
  <2>1. CASE Missing(d, k)
    BY ZenonT(60), <1>5, <1>7, <2>1 DEF ReadInv, ReaderInv, BetweenPages, Ahead
  <2>2. CASE k = m /\ (e \in stream'[UserKey] \/ e \in stream'[d])
    BY Zenon, <1>5, <1>6, <2>2 DEF Ahead
  <2> QED BY Zenon, <1>8, <2>1, <2>2
<1>12. BetweenReads(d)'
  <2> SUFFICES ASSUME phase[d] \in {"user", "pending"}
               PROVE  (/\ \A f \in dread[d].got :
                            f \in stream[d] /\ f.id > pos[d] /\ f.id <= dread[d].last
                       /\ \A k \in Msg : Missing(d, k) =>
                          \/ \E f \in dread[d].got : f.m = k /\ f.id > Passed(d)
                          \/ /\ Full(dread[d]) \/ ~UserWrite
                             /\ \E f \in stream[d] :
                                   f.m = k /\ f.id > Passed(d) /\ f.id > dread[d].last
                          \/ \E f \in stream[UserKey] : f.m = k /\ f.id > UserPassed(d))'
    BY Zenon, <1>2 DEF BetweenReads
  <2>1. (\A f \in dread[d].got :
            f \in stream[d] /\ f.id > pos[d] /\ f.id <= dread[d].last)'
    BY Zenon, <1>2, <1>7 DEF ReadInv, ReaderInv, BetweenReads
  <2>2. ASSUME NEW k \in Msg, Missing(d, k)'
        PROVE (\/ \E f \in dread[d].got : f.m = k /\ f.id > Passed(d)
               \/ /\ Full(dread[d]) \/ ~UserWrite
                  /\ \E f \in stream[d] : f.m = k /\ f.id > Passed(d) /\ f.id > dread[d].last
               \/ \E f \in stream[UserKey] : f.m = k /\ f.id > UserPassed(d))'
    <3>1. CASE Missing(d, k)
      BY <1>2, <1>5, <1>7, <3>1 DEF ReadInv, ReaderInv, BetweenReads, Full
    <3>2. CASE k = m /\ e \in stream'[UserKey]
      BY Zenon, <1>5, <1>6, <3>2
    <3>3. CASE k = m /\ ~UserWrite /\ e \in stream'[d]
      BY Zenon, <1>2, <1>5, <1>6, <3>3
    <3> QED BY Zenon, <1>8, <2>2, <3>1, <3>2, <3>3
  <2> QED BY Zenon, <2>1, <2>2
<1>13. WithinPage(d)'
  <2> SUFFICES ASSUME phase[d] = "deliver"
               PROVE  (/\ \A f \in page[d] :
                            /\ f.id > pos[d]
                            /\ f \in stream[d] \/ (f \in stream[UserKey] /\ f.id > upos[d])
                       /\ \A k \in Msg : Missing(d, k) =>
                          \/ (\E f \in page[d] : f.m = k) /\ Ahead(d, k, Passed(d), UserPassed(d))
                          \/ AfterPage(d, k, page[d], examined[d]))'
    BY Zenon, <1>2 DEF WithinPage
  <2>1. \A f \in page[d] : f \in stream[d] \cup stream[UserKey]
    BY Zenon DEF ReadInv, ReaderInv, WithinPage
  <2>2. \A f \in page[d] : f.id < t
    BY <1>1, <1>3, <1>4, <2>1 DEF ReadInv, StoreInv, ClockAhead, Entry
  <2>3. (\A f \in page[d] :
            /\ f.id > pos[d]
            /\ f \in stream[d] \/ (f \in stream[UserKey] /\ f.id > upos[d]))'
    BY Zenon, <1>2, <1>7 DEF ReadInv, ReaderInv, WithinPage
  <2>4. ASSUME NEW k \in Msg, Missing(d, k)'
        PROVE  (\/ (\E f \in page[d] : f.m = k) /\ Ahead(d, k, Passed(d), UserPassed(d))
                \/ AfterPage(d, k, page[d], examined[d]))'
    <3>1. CASE Missing(d, k)
      BY <1>2, <1>5, <1>7, <3>1 DEF ReadInv, ReaderInv, WithinPage, Ahead, AfterPage
    <3>2. CASE k = m /\ (e \in stream'[UserKey] \/ e \in stream'[d])
      BY Zenon, <1>2, <1>5, <1>6, <2>2, <3>2 DEF AfterPage
    <3> QED BY Zenon, <1>8, <2>4, <3>1, <3>2
  <2> QED BY Zenon, <2>3, <2>4
<1> QED BY Zenon, <1>9, <1>10, <1>11, <1>12, <1>13 DEF ReaderInv

\* The steps of a device between pages keep what is missing ahead of it.
LEMMA IdleStep ==
    ASSUME ReadInv, NEW d \in Reader,
           \/ Open(d) \/ Subscribe(d) \/ GraceElapses(d) \/ Wake(d)
           \/ PollFails(d) \/ Close(d)
    PROVE  ReaderInv(d)'
<1>1. /\ pos[d] \in Nat /\ upos[d] \in Nat /\ cursor[d] \in Nat /\ now \in Nat
      /\ \A s \in Stream : stream[s] \subseteq Entry
  BY Zenon DEF ReadInv, TypeOK
<1>2. stream' = stream /\ now' = now /\ cursor' = cursor /\ received' = received
  BY Zenon DEF Open, Subscribe, GraceElapses, Wake, PollFails, Close, storeVars, clientVars
<1>3. phase'[d] \in {"closed", "await", "idle", "device"}
  BY Zenon DEF Open, Subscribe, GraceElapses, Wake, PollFails, Close, ReadInv, TypeOK
<1>4. PositionsBehind(d)
  BY Zenon DEF ReadInv, ReaderInv
<1>5. /\ pos'[d] \in Nat /\ pos'[d] <= Passed(d)
      /\ upos'[d] \in Nat /\ upos'[d] <= upos[d]
      /\ examined'[d] = examined[d] \/ examined'[d] = 0
      /\ dread'[d] = dread[d] \/ dread'[d] = NoRead
      /\ phase'[d] \in {"closed", "await"} => pos'[d] = 0 /\ upos'[d] = 0
  <2>1. CASE Open(d)
    BY <1>1, <2>1 DEF Open, Passed, ReadInv, TypeOK, ReaderInv, PositionsReset
  <2>2. CASE Subscribe(d)
    BY <1>1, <2>2 DEF Subscribe, Passed, ReadInv, TypeOK
  <2>3. CASE GraceElapses(d) \/ Wake(d)
    BY <1>1, <2>3 DEF GraceElapses, Wake, Passed, ReadInv, TypeOK
  <2>4. CASE PollFails(d)
    BY <1>1, <2>4 DEF PollFails, Passed, ReadInv, TypeOK
  <2>5. CASE Close(d)
    BY <1>1, <2>5 DEF Close, Passed, ReadInv, TypeOK
  <2> QED BY Zenon, <2>1, <2>2, <2>3, <2>4, <2>5
<1>6. /\ Passed(d)' \in Nat /\ Passed(d)' <= Passed(d)
      /\ UserPassed(d)' \in Nat /\ UserPassed(d)' <= UserPassed(d)
      /\ Passed(d) \in Nat /\ UserPassed(d) \in Nat
  BY SMTT(60), <1>1, <1>2, <1>5 DEF Passed, UserPassed
<1>7. PositionsBehind(d)'
  BY <1>1, <1>2, <1>4, <1>5 DEF PositionsBehind, NoRead, Passed, ReadInv, TypeOK
<1>8. PositionsReset(d)'
  BY Zenon, <1>3, <1>5 DEF PositionsReset
<1>9. BetweenPages(d)'
  <2> SUFFICES ASSUME NEW m \in Msg, Missing(d, m)'
               PROVE  Ahead(d, m, Passed(d), UserPassed(d))'
    BY Zenon DEF BetweenPages
  <2>1. Missing(d, m)
    BY Zenon, <1>2 DEF Missing, Owed, Holds
  <2>2. Ahead(d, m, Passed(d), UserPassed(d))
    BY Zenon, <2>1, StillAhead
  <2>3. d \in Stream /\ UserKey \in Stream
    BY Zenon, DeviceAssumption DEF Stream
  <2> QED BY <1>1, <1>2, <1>6, <2>2, <2>3 DEF Ahead, Entry
<1>10. BetweenReads(d)' /\ WithinPage(d)'
  BY Zenon, <1>3 DEF BetweenReads, WithinPage
<1> QED BY Zenon, <1>7, <1>8, <1>9, <1>10 DEF ReaderInv

\* The first read of a page, of the device stream from since.
LEMMA DeviceReadStep ==
    ASSUME ReadInv, NEW d \in Reader, NEW since \in Nat,
           pos[d] <= since, since <= Passed(d),
           NEW rd \in XRead(d, since, SourceLimit),
           dread'[d] = rd, phase'[d] \in {"user", "pending"},
           phase'[d] = "pending" => pos[d] = 0 /\ upos[d] = 0,
           UNCHANGED <<now, stream, pos, upos, page, examined, cursor, received>>
    PROVE  ReaderInv(d)'
<1>1. d \in Stream /\ UserKey \in Stream /\ TypeOK
  BY Zenon, DeviceAssumption DEF Stream, ReadInv
<1>2. /\ rd \in Reply
      /\ rd.got \subseteq stream[d]
      /\ \A e \in rd.got : e.id > since /\ e.id <= rd.last
      /\ \/ rd.got = {} /\ rd.last = 0
         \/ \E e \in rd.got : e.id = rd.last
      /\ \A f \in stream[d] : f.id > since /\ f \notin rd.got => Full(rd) /\ f.id > rd.last
  BY Zenon, <1>1, XReadFacts
<1>3. /\ Passed(d)' = Passed(d) /\ UserPassed(d)' = UserPassed(d)
      /\ Passed(d) \in Nat /\ pos[d] \in Nat /\ stream[d] \subseteq Entry
  BY Zenon, <1>1, PassedFacts DEF Passed, UserPassed, TypeOK
<1>4. rd.last <= now
  BY <1>1, <1>2 DEF ReadInv, StoreInv, ClockAhead, TypeOK
<1>5. PositionsBehind(d)' /\ PositionsReset(d)'
  BY Zenon, <1>4 DEF ReadInv, ReaderInv, PositionsBehind, PositionsReset
<1>6. BetweenReads(d)'
  <2>1. \A e \in rd.got : e \in stream[d] /\ e.id > pos[d] /\ e.id <= rd.last
    BY <1>2, <1>3 DEF Entry
  <2>2. ASSUME NEW m \in Msg, Missing(d, m)'
        PROVE  \/ \E f \in rd.got : f.m = m /\ f.id > Passed(d)
               \/ /\ Full(rd) \/ ~UserWrite
                  /\ \E f \in stream[d] : f.m = m /\ f.id > Passed(d) /\ f.id > rd.last
               \/ \E f \in stream[UserKey] : f.m = m /\ f.id > UserPassed(d)
    <3>1. Missing(d, m)
      BY Zenon, <2>2 DEF Missing, Owed, Holds
    <3>2. Ahead(d, m, Passed(d), UserPassed(d))
      BY Zenon, <3>1, StillAhead
    <3>3. \A f \in stream[d] : f.id > Passed(d) => f.id > since
      BY <1>3 DEF Entry
    <3> QED BY Zenon, <1>2, <3>2, <3>3 DEF Ahead
  <2> QED BY ZenonT(60), <1>3, <2>1, <2>2 DEF BetweenReads, Full
<1>7. BetweenPages(d)' /\ WithinPage(d)'
  BY Zenon DEF BetweenPages, WithinPage
<1> QED BY Zenon, <1>5, <1>6, <1>7 DEF ReaderInv
=============================================================================
