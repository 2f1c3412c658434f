---------------------------- MODULE MailboxProofs ----------------------------
(* The reading protocol keeps what is owed ahead of every reader.           *)
EXTENDS MailboxPageProofs

\* The read of the user stream keeps the read invariant.
LEMMA ReadUserStep ==
    ASSUME ReadInv, NEW d \in Reader, ReadUser(d)
    PROVE  ReaderInv(d)'
<1>1. d \in Stream /\ UserKey \in Stream /\ TypeOK
  BY Zenon, DeviceAssumption DEF Stream, ReadInv
<1>2. /\ phase[d] = "user" /\ phase'[d] = "deliver"
      /\ dread'[d] = NoRead
      /\ UNCHANGED <<now, stream, pos, upos, cursor, received>>
  BY Zenon, <1>1 DEF ReadUser, TypeOK, storeVars, clientVars
<1>3. PICK ru \in XRead(UserKey, UserReadPosition(d), SourceLimit) :
        /\ \E p \in Pages(d, dread[d], ru) : page' = [page EXCEPT ![d] = p]
        /\ examined' = [examined EXCEPT ![d] = ExaminedThrough(d, dread[d], ru)]
  BY Zenon DEF ReadUser
<1>4. PICK p \in Pages(d, dread[d], ru) : page' = [page EXCEPT ![d] = p]
  BY Zenon, <1>3
<1>5. page'[d] = p /\ examined'[d] = ExaminedThrough(d, dread[d], ru)
  BY Zenon, <1>1, <1>3, <1>4 DEF TypeOK
<1>6. /\ UserReadPosition(d) \in Nat /\ UserReadPosition(d) <= UserPassed(d)
      /\ pos[d] <= UserReadPosition(d) /\ upos[d] <= UserReadPosition(d)
      /\ pos[d] \in Nat /\ upos[d] \in Nat /\ dread[d] \in Reply /\ now \in Nat
      /\ stream[d] \subseteq Entry /\ stream[UserKey] \subseteq Entry
  BY Zenon, <1>1, PassedFacts DEF TypeOK
<1>7. /\ ru \in Reply
      /\ ru.got \subseteq stream[UserKey]
      /\ \A e \in ru.got : e.id > UserReadPosition(d)
      /\ \/ ru.got = {} /\ ru.last = 0
         \/ \E e \in ru.got : e.id = ru.last
  BY Zenon, <1>1, <1>3, <1>6, XReadFacts
<1>8. /\ \A e \in dread[d].got : e \in stream[d] /\ e.id > pos[d]
      /\ dread[d].last <= now /\ dread[d].last \in Nat
  BY Zenon, <1>2, <1>6 DEF ReadInv, ReaderInv, BetweenReads, PositionsBehind, Reply
<1>9. ru.last <= now /\ ru.last \in Nat
  BY <1>1, <1>6, <1>7 DEF ReadInv, StoreInv, ClockAhead, Reply
<1>10. PositionsBehind(d)' /\ PositionsReset(d)' /\ BetweenPages(d)' /\ BetweenReads(d)'
  BY <1>2, <1>5, <1>6, <1>8, <1>9
     DEF ReadInv, ReaderInv, PositionsBehind, PositionsReset, BetweenPages, BetweenReads,
         NoRead, ExaminedThrough, Horizon
<1>11. \A e \in p : /\ e.id > pos[d]
                    /\ e \in stream[d] \/ (e \in stream[UserKey] /\ e.id > upos[d])
  <2>1. \A e \in p : e \in dread[d].got \/ e \in ru.got
    BY Zenon, <1>4, <1>6, <1>7, PageFacts
  <2>2. \A e \in ru.got : e \in stream[UserKey] /\ e.id > upos[d] /\ e.id > pos[d]
    BY <1>6, <1>7 DEF Entry
  <2> QED BY Zenon, <1>8, <2>1, <2>2
<1>12. ASSUME NEW m \in Msg, Missing(d, m)'
       PROVE  \/ (\E f \in p : f.m = m) /\ Ahead(d, m, Passed(d), UserPassed(d))
              \/ AfterPage(d, m, p, ExaminedThrough(d, dread[d], ru))
  <2>1. Missing(d, m)
    BY Zenon, <1>2, <1>12 DEF Missing, Owed, Holds
  <2> QED BY Zenon, <1>2, <1>3, <1>4, <1>6, <2>1, MergeKeeps
<1>13. WithinPage(d)'
  BY ZenonT(60), <1>2, <1>5, <1>11, <1>12
     DEF WithinPage, Ahead, AfterPage, Passed, UserPassed
<1> QED BY Zenon, <1>10, <1>13 DEF ReaderInv

\* So does handing an entry to the client.
LEMMA DeliverStep ==
    ASSUME ReadInv, NEW d \in Reader, Deliver(d)
    PROVE  ReaderInv(d)'
<1>1. d \in Stream /\ UserKey \in Stream /\ TypeOK
  BY Zenon, DeviceAssumption DEF Stream, ReadInv
<1>2. /\ phase[d] = "deliver" /\ phase'[d] = "deliver"
      /\ UNCHANGED <<now, stream, upos, dread, examined>>
  BY Zenon DEF Deliver, storeVars
<1>3. PICK e \in page[d] :
        /\ \A f \in page[d] : e.id <= f.id
        /\ page' = [page EXCEPT ![d] = @ \ {e}]
        /\ pos' = [pos EXCEPT ![d] = e.id]
        /\ IF e.m \in Corrupt
           THEN UNCHANGED <<cursor, received>>
           ELSE /\ cursor' = [cursor EXCEPT ![d] = e.id]
                /\ received' = [received EXCEPT ![d] = @ \cup {e.m}]
  BY Zenon DEF Deliver
<1>4. /\ page'[d] = page[d] \ {e} /\ pos'[d] = e.id
      /\ e.m \in Corrupt => cursor'[d] = cursor[d] /\ received'[d] = received[d]
      /\ e.m \notin Corrupt => cursor'[d] = e.id /\ received'[d] = received[d] \cup {e.m}
  BY Zenon, <1>1, <1>3 DEF TypeOK
<1>5. \A f \in page[d] : /\ f \in Entry /\ f.id \in Nat /\ f.id > pos[d]
                         /\ f \in stream[d] \/ (f \in stream[UserKey] /\ f.id > upos[d])
  BY <1>1, <1>2 DEF ReadInv, ReaderInv, WithinPage, TypeOK, Entry
<1>6. \A f \in page[d] \ {e} : f.id > e.id
  BY <1>1, <1>3, <1>5 DEF ReadInv, StoreInv, IdsUnique
<1>7. /\ pos[d] \in Nat /\ upos[d] \in Nat /\ cursor[d] \in Nat /\ now \in Nat
      /\ examined[d] \in Nat
      /\ stream[d] \subseteq Entry /\ stream[UserKey] \subseteq Entry
  BY Zenon, <1>1 DEF TypeOK
<1>8. e.id <= now
  BY Zenon, <1>1, <1>5 DEF ReadInv, StoreInv, ClockAhead
<1>9. PositionsBehind(d)' /\ PositionsReset(d)' /\ BetweenPages(d)' /\ BetweenReads(d)'
  BY Zenon, <1>2, <1>4, <1>8
     DEF ReadInv, ReaderInv, PositionsBehind, PositionsReset, BetweenPages, BetweenReads
<1>10. (\A f \in page[d] : /\ f.id > pos[d]
                           /\ f \in stream[d] \/ (f \in stream[UserKey] /\ f.id > upos[d]))'
  BY Zenon, <1>2, <1>4, <1>5, <1>6
<1>11. ASSUME NEW m \in Msg, Missing(d, m)'
       PROVE  (\/ (\E f \in page[d] : f.m = m) /\ Ahead(d, m, Passed(d), UserPassed(d))
               \/ AfterPage(d, m, page[d], examined[d]))'
  <2>1. Missing(d, m) /\ m # e.m
    BY Zenon, <1>2, <1>4, <1>11 DEF Missing, Owed, Holds
  <2>2. \/ (\E f \in page[d] : f.m = m) /\ Ahead(d, m, Passed(d), UserPassed(d))
        \/ AfterPage(d, m, page[d], examined[d])
    BY Zenon, <1>2, <2>1 DEF ReadInv, ReaderInv, WithinPage
  <2>3. /\ Passed(d)' = e.id \/ (Passed(d)' = cursor[d] /\ cursor[d] >= e.id)
        /\ UserPassed(d)' = Passed(d)' \/ (UserPassed(d)' = upos[d] /\ upos[d] > Passed(d)')
    BY <1>2, <1>4, <1>5, <1>7 DEF Passed, UserPassed
  <2>4. CASE (\E f \in page[d] : f.m = m) /\ Ahead(d, m, Passed(d), UserPassed(d))
    <3>1. PICK f \in page[d] : f.m = m
      BY Zenon, <2>4
    <3>2. f \in page'[d] /\ f.id > e.id
      BY Zenon, <1>4, <1>6, <2>1, <3>1
    <3>3. CASE Passed(d)' = e.id
      <4>1. f \in stream[UserKey] /\ f.id > upos[d] => f.id > UserPassed(d)'
        BY Zenon, <2>3, <3>2, <3>3
      <4> QED BY Zenon, <1>2, <1>5, <3>1, <3>2, <3>3, <4>1 DEF Ahead
    <3>4. CASE Passed(d)' = cursor[d] /\ cursor[d] >= e.id
      <4>1. /\ Passed(d)' \in Nat /\ UserPassed(d)' \in Nat
            /\ Passed(d) \in Nat /\ UserPassed(d) \in Nat
            /\ Passed(d)' <= Passed(d) /\ UserPassed(d)' <= UserPassed(d)
        BY <1>7, <2>3, <3>4 DEF Passed, UserPassed
      <4>2. Ahead(d, m, Passed(d), UserPassed(d))'
        BY <1>2, <1>7, <2>4, <4>1 DEF Ahead, Entry
      <4> QED BY Zenon, <3>1, <3>2, <4>2
    <3> QED BY Zenon, <2>3, <3>3, <3>4
  <2>5. CASE AfterPage(d, m, page[d], examined[d])
    <3>1. ASSUME NEW f \in stream[d], f.id > Passed(d), e.id < f.id
          PROVE  f.id > Passed(d)'
      BY <1>5, <1>7, <2>3, <3>1 DEF Passed, Entry
    <3>2. ASSUME NEW f \in stream[UserKey], f.id > UserPassed(d), e.id < f.id
          PROVE  f.id > UserPassed(d)'
      BY <1>5, <1>7, <2>3, <3>2 DEF Passed, UserPassed, Entry
    <3> QED BY Zenon, <1>2, <1>3, <1>4, <2>5, <3>1, <3>2 DEF AfterPage
  <2> QED BY Zenon, <2>2, <2>4, <2>5
<1>12. WithinPage(d)'
  BY Zenon, <1>10, <1>11 DEF WithinPage
<1> QED BY Zenon, <1>9, <1>12 DEF ReaderInv

\* So does the end of a page.
LEMMA EndPageStep ==
    ASSUME ReadInv, NEW d \in Reader, EndPage(d)
    PROVE  ReaderInv(d)'
<1>1. d \in Stream /\ UserKey \in Stream /\ TypeOK
  BY Zenon, DeviceAssumption DEF Stream, ReadInv
<1>2. /\ phase[d] = "deliver" /\ phase'[d] \in {"device", "idle"} /\ page[d] = {}
      /\ UNCHANGED <<now, stream, pos, dread, cursor, received>>
      /\ upos'[d] = UserPositionAfter(d) /\ examined'[d] = 0
  BY Zenon, <1>1 DEF EndPage, TypeOK, storeVars, clientVars
<1>3. /\ pos[d] \in Nat /\ upos[d] \in Nat /\ cursor[d] \in Nat /\ now \in Nat
      /\ examined[d] \in Nat
      /\ stream[d] \subseteq Entry /\ stream[UserKey] \subseteq Entry
  BY Zenon, <1>1 DEF TypeOK
<1>4. PositionsBehind(d)' /\ PositionsReset(d)' /\ WithinPage(d)' /\ BetweenReads(d)'
  BY <1>2, <1>3
     DEF ReadInv, ReaderInv, PositionsBehind, PositionsReset, WithinPage, BetweenReads,
         UserPositionAfter
<1>5. BetweenPages(d)'
  <2> SUFFICES ASSUME NEW m \in Msg, Missing(d, m)'
               PROVE  Ahead(d, m, Passed(d), UserPassed(d))'
    BY Zenon DEF BetweenPages
  <2>1. Missing(d, m)
    BY Zenon, <1>2 DEF Missing, Owed, Holds
  <2>2. AfterPage(d, m, page[d], examined[d])
    BY Zenon, <1>2, <2>1 DEF ReadInv, ReaderInv, WithinPage
  <2>3. Passed(d)' = Passed(d) /\ Passed(d) \in Nat /\ UserPassed(d) \in Nat
    BY Zenon, <1>2, <1>3 DEF Passed, UserPassed
  <2>4. \A f \in stream[UserKey] :
          f.id > UserPassed(d) /\ f.id > examined[d] => f.id > UserPassed(d)'
    BY <1>2, <1>3, <2>3 DEF UserPassed, UserPositionAfter, Entry
  <2> QED BY Zenon, <1>2, <2>2, <2>3, <2>4 DEF AfterPage, Ahead
<1> QED BY Zenon, <1>4, <1>5 DEF ReaderInv

\* So does the user-stream read of GetPendingMessages.
LEMMA PendingReadUserStep ==
    ASSUME ReadInv, NEW d \in Reader, NEW i \in Instance, PendingReadUser(d, i)
    PROVE  ReaderInv(d)'
<1>1. d \in Stream /\ UserKey \in Stream /\ TypeOK
  BY Zenon, DeviceAssumption DEF Stream, ReadInv
<1>2. /\ phase[d] = "pending" /\ phase'[d] = "closed" /\ dread'[d] = NoRead
      /\ UNCHANGED <<now, stream, pos, upos, page, examined>>
  BY Zenon, <1>1 DEF PendingReadUser, TypeOK, storeVars
<1>3. PICK ru \in XRead(UserKey, cursor[d], SourceLimit) :
        \E p \in Pages(d, dread[d], ru) :
          /\ \E c \in ResumeAfter(cursor[d], p, ExaminedThrough(d, dread[d], ru)) :
                cursor' = [cursor EXCEPT ![d] = c]
          /\ received' = [received EXCEPT ![d] = @ \cup ({e.m : e \in p} \ Corrupt)]
  BY Zenon DEF PendingReadUser
<1>4. PICK p \in Pages(d, dread[d], ru) :
        /\ \E c \in ResumeAfter(cursor[d], p, ExaminedThrough(d, dread[d], ru)) :
              cursor' = [cursor EXCEPT ![d] = c]
        /\ received' = [received EXCEPT ![d] = @ \cup ({e.m : e \in p} \ Corrupt)]
  BY Zenon, <1>3
<1> DEFINE ex == ExaminedThrough(d, dread[d], ru)
<1>5. PICK c \in ResumeAfter(cursor[d], p, ex) : cursor' = [cursor EXCEPT ![d] = c]
  BY Zenon, <1>4
<1>6. cursor'[d] = c /\ received'[d] = received[d] \cup ({e.m : e \in p} \ Corrupt)
  BY Zenon, <1>1, <1>4, <1>5 DEF TypeOK
<1>7. /\ cursor[d] \in Nat /\ now \in Nat /\ dread[d] \in Reply
      /\ stream[d] \subseteq Entry /\ stream[UserKey] \subseteq Entry
      /\ pos[d] = 0 /\ upos[d] = 0
      /\ Passed(d) = cursor[d] /\ UserPassed(d) = cursor[d]
  BY <1>1, <1>2 DEF TypeOK, ReadInv, ReaderInv, PositionsReset, Passed, UserPassed
<1>8. /\ ru \in Reply
      /\ ru.got \subseteq stream[UserKey]
      /\ \/ ru.got = {} /\ ru.last = 0
         \/ \E e \in ru.got : e.id = ru.last
  BY Zenon, <1>1, <1>3, <1>7, XReadFacts
<1>9. /\ p \subseteq Entry /\ ex \in Nat
      /\ \A e \in p : e \in dread[d].got \/ e \in ru.got
  BY Zenon, <1>4, <1>7, <1>8, PageFacts
<1>10. c \in Nat /\ (c = cursor[d] \/ c = ex \/ \E e \in p : c = e.id)
  BY Zenon, <1>5, <1>7, <1>9 DEF ResumeAfter, Entry
<1>11. c <= now
  <2>1. \A e \in p : e.id <= now
    BY Zenon, <1>1, <1>2, <1>8, <1>9
       DEF ReadInv, StoreInv, ClockAhead, ReaderInv, BetweenReads
  <2>2. ru.last <= now /\ ru.last \in Nat /\ dread[d].last <= now
    BY Zenon, <1>1, <1>7, <1>8 DEF ReadInv, StoreInv, ClockAhead, ReaderInv, PositionsBehind, Reply
  <2>3. ex <= now
    BY <1>7, <2>2 DEF ExaminedThrough, Horizon
  <2>4. cursor[d] <= now
    BY Zenon DEF ReadInv, ReaderInv, PositionsBehind
  <2> QED BY Zenon, <1>10, <2>1, <2>3, <2>4
<1>12. PositionsBehind(d)' /\ PositionsReset(d)' /\ BetweenReads(d)' /\ WithinPage(d)'
  BY <1>2, <1>6, <1>7, <1>11
     DEF ReadInv, ReaderInv, PositionsBehind, PositionsReset, BetweenReads, WithinPage, NoRead
<1>13. BetweenPages(d)'
  <2> SUFFICES ASSUME NEW m \in Msg, Missing(d, m)'
               PROVE  Ahead(d, m, Passed(d), UserPassed(d))'
    BY Zenon DEF BetweenPages
  <2>1. Missing(d, m) /\ m \notin {e.m : e \in p}
    BY Zenon, <1>2, <1>6 DEF Missing, Owed, Holds
  <2>2. AfterPage(d, m, p, ex)
    BY <1>2, <1>3, <1>4, <1>7, <2>1, MergeKeeps
  <2>3. Passed(d)' = c /\ UserPassed(d)' = c
    BY <1>2, <1>6, <1>7, <1>10 DEF Passed, UserPassed
  <2> QED BY Zenon, <1>2, <1>7, <1>10, <2>2, <2>3 DEF AfterPage, Ahead
<1> QED BY Zenon, <1>12, <1>13 DEF ReaderInv

\* So does a GetPendingMessages that fails.
LEMMA PendingFailsStep ==
    ASSUME ReadInv, NEW d \in Reader, NEW i \in Instance, PendingFails(d, i)
    PROVE  ReaderInv(d)'
<1>1. /\ phase[d] = "pending" /\ phase'[d] = "closed" /\ dread'[d] = NoRead
      /\ UNCHANGED <<now, stream, pos, upos, page, examined, cursor, received>>
  BY Zenon DEF PendingFails, ReadInv, TypeOK, storeVars, clientVars
<1>2. PositionsBehind(d)' /\ PositionsReset(d)' /\ BetweenReads(d)' /\ WithinPage(d)'
  BY <1>1 DEF ReadInv, TypeOK, ReaderInv, PositionsBehind, PositionsReset, BetweenReads,
              WithinPage, NoRead
<1>3. \A m \in Msg : Missing(d, m) => Ahead(d, m, Passed(d), UserPassed(d))
  BY Zenon, StillAhead
<1>4. BetweenPages(d)'
  BY Zenon, <1>1, <1>3 DEF BetweenPages, Missing, Owed, Holds, Ahead, Passed, UserPassed
<1> QED BY Zenon, <1>2, <1>4 DEF ReaderInv

\* So do connecting and disconnecting.
LEMMA ConnectionStep ==
    ASSUME ReadInv, NEW d \in Reader, Connection(d), NEW r \in Reader
    PROVE  ReaderInv(r)'
<1> USE DEF Connection
<1>1. CASE r # d
  <2>1. UNCHANGED <<now, stream>>
    BY Zenon DEF Open, Subscribe, GraceElapses, Wake, ReadDevice, ReadUser, Deliver, EndPage,
           PollFails, Close, storeVars
  <2>2. /\ phase'[r] = phase[r] /\ pos'[r] = pos[r] /\ upos'[r] = upos[r]
        /\ dread'[r] = dread[r] /\ page'[r] = page[r] /\ examined'[r] = examined[r]
        /\ cursor'[r] = cursor[r] /\ received'[r] = received[r]
    <3>1. CASE Open(d) \/ Subscribe(d) \/ GraceElapses(d) \/ Wake(d)
      BY Zenon, <1>1, <3>1 DEF Open, Subscribe, GraceElapses, Wake, clientVars, ReadInv, TypeOK
    <3>2. CASE ReadDevice(d) \/ ReadUser(d) \/ Deliver(d)
      BY <1>1, <3>2 DEF ReadDevice, ReadUser, Deliver, clientVars, ReadInv, TypeOK
    <3>3. CASE EndPage(d) \/ PollFails(d) \/ Close(d)
      BY Zenon, <1>1, <3>3 DEF EndPage, PollFails, Close, clientVars, ReadInv, TypeOK
    <3> QED BY Zenon, <3>1, <3>2, <3>3
  <2>3. ReaderInv(r)
    BY Zenon DEF ReadInv
  <2> QED BY Zenon, <2>1, <2>2, <2>3, ReaderFrame
<1>2. CASE r = d
  <2>1. CASE ReadDevice(d)
    <3>1. PICK rd \in XRead(d, pos[d], SourceLimit) : dread' = [dread EXCEPT ![d] = rd]
      BY Zenon, <2>1 DEF ReadDevice
    <3>2. /\ dread'[d] = rd /\ phase'[d] = "user"
          /\ UNCHANGED <<now, stream, pos, upos, page, examined, cursor, received>>
      BY Zenon, <2>1, <3>1 DEF ReadDevice, ReadInv, TypeOK, storeVars, clientVars
    <3>3. pos[d] \in Nat /\ pos[d] <= pos[d] /\ pos[d] <= Passed(d)
      BY PassedFacts DEF ReadInv, TypeOK
    <3> QED BY Zenon, <1>2, <3>1, <3>2, <3>3, DeviceReadStep
  <2> QED BY Zenon, <1>2, <2>1, IdleStep, ReadUserStep, DeliverStep, EndPageStep
<1> QED BY Zenon, <1>1, <1>2

\* So does every step of GetPendingMessages.
LEMMA PendingStep ==
    ASSUME ReadInv, NEW d \in Reader, NEW i \in Instance, Pending(d, i), NEW r \in Reader
    PROVE  ReaderInv(r)'
<1> USE DEF Pending
<1>1. CASE r # d
  <2>1. UNCHANGED <<now, stream>>
    BY Zenon DEF PendingReadDevice, PendingReadUser, PendingFails, storeVars
  <2>2. /\ phase'[r] = phase[r] /\ pos'[r] = pos[r] /\ upos'[r] = upos[r]
        /\ dread'[r] = dread[r] /\ page'[r] = page[r] /\ examined'[r] = examined[r]
        /\ cursor'[r] = cursor[r] /\ received'[r] = received[r]
    BY Zenon, <1>1 DEF PendingReadDevice, PendingReadUser, PendingFails, clientVars, ReadInv, TypeOK
  <2>3. ReaderInv(r)
    BY Zenon DEF ReadInv
  <2> QED BY Zenon, <2>1, <2>2, <2>3, ReaderFrame
<1>2. CASE r = d
  <2>1. CASE PendingReadDevice(d, i)
    <3>1. PICK rd \in XRead(d, cursor[d], SourceLimit) : dread' = [dread EXCEPT ![d] = rd]
      BY Zenon, <2>1 DEF PendingReadDevice
    <3>2. /\ dread'[d] = rd /\ phase'[d] = "pending"
          /\ UNCHANGED <<now, stream, pos, upos, page, examined, cursor, received>>
      BY Zenon, <2>1, <3>1 DEF PendingReadDevice, ReadInv, TypeOK, storeVars, clientVars
    <3>3. pos[d] = 0 /\ upos[d] = 0
      BY Zenon, <2>1 DEF PendingReadDevice, ReadInv, ReaderInv, PositionsReset
    <3>4. cursor[d] \in Nat /\ pos[d] <= cursor[d] /\ cursor[d] <= Passed(d)
      BY <3>3, PassedFacts DEF ReadInv, TypeOK
    <3> QED BY Zenon, <1>2, <3>1, <3>2, <3>3, <3>4, DeviceReadStep
  <2> QED BY Zenon, <1>2, <2>1, PendingReadUserStep, PendingFailsStep
<1> QED BY Zenon, <1>1, <1>2

\* Every step keeps the read invariant.
LEMMA ReadStep ==
    ASSUME SameMs = FALSE, ReadInv, [Next]_vars
    PROVE  ReadInv'
<1>1. TypeOK'
  BY Zenon, TypeStep DEF ReadInv
<1>2. TypeOK /\ StoreInv
  BY Zenon DEF ReadInv
<1>3. ASSUME NEW i \in Instance, Write(i)
      PROVE  StoreInv' /\ \A r \in Reader : ReaderInv(r)'
  <2>1. CASE WriteUser(i)
    <3>1. PICK t \in Times : XAdd(UserKey, wr[i].m, t)
      BY Zenon, <2>1 DEF WriteUser
    <3>2. wr[i].m \in Msg /\ UserKey \in Stream
      BY <1>2, <2>1 DEF WriteUser, TypeOK, WriteCall, Free, Stream
    <3>3. UserWrite
      BY Zenon, <1>2, <2>1 DEF WriteUser, StoreInv, NoUserStream
    <3>4. UNCHANGED <<readVars, clientVars>>
      BY Zenon, <2>1 DEF WriteUser
    <3>5. StoreInv'
      BY Zenon, <1>2, <3>1, <3>2, <3>3, XAddStore
    <3>6. \A r \in Reader : ReaderInv(r)'
      BY Zenon, <3>1, <3>2, <3>4, XAddReader
    <3> QED BY Zenon, <3>5, <3>6
  <2>2. CASE \E d \in Device : WriteDevice(i, d)
    <3>1. PICK d \in Device : WriteDevice(i, d)
      BY Zenon, <2>2
    <3>2. PICK t \in Times : XAdd(d, wr[i].m, t)
      BY Zenon, <3>1 DEF WriteDevice
    <3>3. wr[i].m \in Msg /\ d \in Stream /\ d # UserKey
      BY <1>2, <3>1, DeviceAssumption DEF WriteDevice, TypeOK, WriteCall, Free, Stream
    <3>4. UNCHANGED <<readVars, clientVars>>
      BY Zenon, <3>1 DEF WriteDevice
    <3>5. \A j \in Instance : wr[j].stage # "user" => wr'[j].stage # "user"
      <4>1. wr[i] \in [stage : {"user", "devices"}, m : Msg, todo : SUBSET Device,
                       landed : BOOLEAN]
        BY <1>2, <3>1 DEF WriteDevice, TypeOK, WriteCall, Free
      <4>2. wr'[i].stage = wr[i].stage /\ \A j \in Instance \ {i} : wr'[j] = wr[j]
        BY Zenon, <1>2, <3>1, <4>1 DEF WriteDevice, TypeOK
      <4> QED BY Zenon, <4>2
    <3>6. StoreInv'
      BY Zenon, <1>2, <3>2, <3>3, <3>5, XAddStore
    <3>7. \A r \in Reader : ReaderInv(r)'
      BY Zenon, <3>2, <3>3, <3>4, XAddReader
    <3> QED BY Zenon, <3>6, <3>7
  <2>3. CASE \/ \E m \in Msg : BeginWrite(i, m)
             \/ WriteUserFails(i)
             \/ \E d \in Device : WriteDeviceFails(i, d)
             \/ EndWrite(i)
    <3>1. UNCHANGED <<storeVars, readVars, clientVars>>
      BY Zenon, <2>3 DEF BeginWrite, WriteUserFails, WriteDeviceFails, EndWrite
    <3>2. ~UserWrite => (wr[i].stage # "user" => wr'[i].stage # "user")
      <4>1. CASE \E m \in Msg : BeginWrite(i, m)
        BY <1>2, <4>1 DEF BeginWrite, TypeOK
      <4>2. CASE WriteUserFails(i) \/ EndWrite(i)
        BY <1>2, <4>2 DEF WriteUserFails, EndWrite, TypeOK, Free
      <4>3. CASE \E d \in Device : WriteDeviceFails(i, d)
        <5>1. PICK d \in Device : WriteDeviceFails(i, d)
          BY Zenon, <4>3
        <5>2. wr[i] \in [stage : {"user", "devices"}, m : Msg, todo : SUBSET Device,
                         landed : BOOLEAN]
          BY <1>2, <5>1 DEF WriteDeviceFails, TypeOK, WriteCall, Free
        <5> QED BY Zenon, <1>2, <5>1, <5>2 DEF WriteDeviceFails, TypeOK
      <4> QED BY Zenon, <2>3, <4>1, <4>2, <4>3
    <3>3. \A j \in Instance \ {i} : wr'[j] = wr[j]
      BY Zenon, <1>2, <2>3 DEF BeginWrite, WriteUserFails, WriteDeviceFails, EndWrite, TypeOK
    <3>4. StoreInv'
      BY Zenon, <1>2, <3>1, <3>2, <3>3, StoreFrame
    <3>5. \A r \in Reader : ReaderInv(r)'
      BY Zenon, <3>1, ReaderFrame DEF ReadInv, storeVars, readVars, clientVars
    <3> QED BY Zenon, <3>4, <3>5
  <2> QED BY Zenon, <1>3, <2>1, <2>2, <2>3 DEF Write
<1>4. ASSUME NEW d \in Reader, Connection(d)
      PROVE  StoreInv' /\ \A r \in Reader : ReaderInv(r)'
  <2>1. UNCHANGED <<storeVars, wr>>
    BY Zenon, <1>4 DEF Connection, Open, Subscribe, GraceElapses, Wake, ReadDevice, ReadUser,
                Deliver, EndPage, PollFails, Close, writeVars
  <2>2. StoreInv'
    BY Zenon, <1>2, <2>1, StoreFrame
  <2> QED BY Zenon, <1>4, <2>2, ConnectionStep
<1>5. ASSUME NEW d \in Reader, NEW i \in Instance, Pending(d, i)
      PROVE  StoreInv' /\ \A r \in Reader : ReaderInv(r)'
  <2>1. UNCHANGED storeVars
    BY Zenon, <1>5 DEF Pending, PendingReadDevice, PendingReadUser, PendingFails
  <2>4. \/ wr' = [wr EXCEPT ![i] = Free]
        \/ wr' = [wr EXCEPT ![i] = [stage |-> "reading", by |-> d]]
    BY Zenon, <1>5 DEF Pending, PendingReadDevice, PendingReadUser, PendingFails
  <2>2. \A j \in Instance : wr[j].stage # "user" => wr'[j].stage # "user"
    <3>1. wr'[i] = Free \/ wr'[i] = [stage |-> "reading", by |-> d]
      BY Zenon, <1>2, <2>4 DEF TypeOK
    <3>2. \A j \in Instance \ {i} : wr'[j] = wr[j]
      BY Zenon, <1>2, <2>4 DEF TypeOK
    <3>3. wr'[i].stage # "user"
      BY <3>1 DEF Free
    <3> QED BY Zenon, <3>2, <3>3
  <2>3. StoreInv'
    BY Zenon, <1>2, <2>1, <2>2, StoreFrame
  <2> QED BY Zenon, <1>5, <2>3, PendingStep
<1>6. CASE UNCHANGED vars
  <2>1. UNCHANGED <<storeVars, wr>>
    BY Zenon, <1>6 DEF vars, writeVars
  <2>2. StoreInv'
    BY Zenon, <1>2, <2>1, StoreFrame
  <2>3. \A r \in Reader : ReaderInv(r)'
    BY Zenon, <1>6, ReaderFrame DEF ReadInv, vars, storeVars, readVars, clientVars
  <2> QED BY Zenon, <1>1, <2>2, <2>3 DEF ReadInv
<1> QED BY Zenon, <1>1, <1>3, <1>4, <1>5, <1>6 DEF Next, ReadInv

\* The read invariant holds initially.
LEMMA ReadInit == Init => ReadInv
<1> SUFFICES ASSUME Init PROVE ReadInv
  BY Zenon
<1>1. TypeOK
  BY Zenon, TypeInit
<1>2. UserKey \in Stream /\ Reader \subseteq Stream
  BY Zenon, DeviceAssumption DEF Stream
<1>3. \A s \in Stream : stream[s] = {} /\ lastId[s] = 0
  BY Zenon DEF Init
<1>4. StoreInv
  BY <1>2, <1>3, CountAssumption DEF Init, StoreInv, ClockAhead, IdsUnique, NoUserStream, Free
<1>5. ASSUME NEW d \in Reader PROVE ReaderInv(d)
  <2>1. \A m \in Msg : ~Missing(d, m)
    BY Zenon, <1>2, <1>3 DEF Missing, Owed, Holds
  <2> QED BY <2>1, CountAssumption
          DEF Init, ReaderInv, PositionsBehind, PositionsReset, BetweenPages, BetweenReads,
              WithinPage, NoRead
<1> QED BY Zenon, <1>1, <1>4, <1>5 DEF ReadInv

\* ReadInv holds throughout, whatever the devices, envelopes, instances, page
\* size and number of calls and connections, if no two XADDs share a millisecond.
THEOREM ReadInvariant == SameMs = FALSE => (Spec => []ReadInv)
<1> SUFFICES ASSUME SameMs = FALSE PROVE Spec => []ReadInv
  BY Zenon
<1>1. Init => ReadInv
  BY Zenon, ReadInit
<1>2. ReadInv /\ [Next]_vars => ReadInv'
  BY Zenon, ReadStep
<1> QED BY <1>1, <1>2, PTL DEF Spec

\* Dual read with one cursor for both streams loses nothing that is owed.
THEOREM NothingOwedIsLost == SameMs = FALSE => (Spec => []OwedStaysReachable)
<1> SUFFICES ASSUME SameMs = FALSE PROVE Spec => []OwedStaysReachable
  BY Zenon
<1>1. ReadInv => OwedStaysReachable
  <2> SUFFICES ASSUME ReadInv, NEW d \in Reader, NEW m \in Msg, Missing(d, m)
               PROVE  Ahead(d, m, cursor[d], cursor[d])
    BY Zenon DEF OwedStaysReachable, Missing
  <2>1. Ahead(d, m, Passed(d), UserPassed(d))
    BY Zenon, StillAhead
  <2>2. /\ Passed(d) \in Nat /\ UserPassed(d) \in Nat /\ cursor[d] \in Nat
        /\ cursor[d] <= Passed(d) /\ cursor[d] <= UserPassed(d)
    BY PassedFacts DEF ReadInv, TypeOK
  <2>3. stream[d] \subseteq Entry /\ stream[UserKey] \subseteq Entry
    BY Zenon, DeviceAssumption DEF ReadInv, TypeOK, Stream
  <2> QED BY <2>1, <2>2, <2>3 DEF Ahead, Entry
<1>2. Spec => []ReadInv
  BY Zenon, ReadInvariant
<1> QED BY <1>1, <1>2, PTL

\* An open stream never steps over what is owed: it lies after the two positions
\* the next poll reads from.
THEOREM NothingOwedIsSkipped == SameMs = FALSE => (Spec => []StreamReachesOwed)
<1> SUFFICES ASSUME SameMs = FALSE PROVE Spec => []StreamReachesOwed
  BY Zenon
<1>1. ReadInv => StreamReachesOwed
  <2> SUFFICES ASSUME ReadInv, NEW d \in Reader, NEW m \in Msg, Missing(d, m)
               PROVE  Ahead(d, m, pos[d], UserReadPosition(d))
    BY Zenon DEF StreamReachesOwed, Missing
  <2>1. Ahead(d, m, Passed(d), UserPassed(d))
    BY Zenon, StillAhead
  <2>2. /\ Passed(d) \in Nat /\ UserPassed(d) \in Nat /\ pos[d] \in Nat
        /\ UserReadPosition(d) \in Nat
        /\ pos[d] <= Passed(d) /\ UserReadPosition(d) <= UserPassed(d)
    BY Zenon, PassedFacts DEF ReadInv, TypeOK
  <2>3. stream[d] \subseteq Entry /\ stream[UserKey] \subseteq Entry
    BY Zenon, DeviceAssumption DEF ReadInv, TypeOK, Stream
  <2> QED BY <2>1, <2>2, <2>3 DEF Ahead, Entry
<1>2. Spec => []ReadInv
  BY Zenon, ReadInvariant
<1> QED BY <1>1, <1>2, PTL
=============================================================================
