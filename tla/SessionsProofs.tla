--------------------------- MODULE SessionsProofs ---------------------------
(***************************************************************************)
(* The sessions of an account never fork, what ended stays ended and the   *)
(* primary device stays in service, for any number of calls, sessions,     *)
(* store errors and ticks of the clock.                                    *)
(*                                                                         *)
(* What each property lacks to be inductive is what the calls under way    *)
(* know: the devices a revocation is about to mark are out of service and  *)
(* stay so (RevocationsHold), no call has decided to take the primary      *)
(* device out (PrimaryInv), and what a logout from all devices will answer *)
(* for was minted before it began (TokensInv).                             *)
(***************************************************************************)
EXTENDS Sessions, SequenceTheorems, TLAPS

----------------------------------------------------------------------------
(* The inductive invariant.                                                *)

SessionRec == [dev : Device, exp : 0..(MaxNow + AccessTtl), root : Id, late : BOOLEAN, out : BOOLEAN]

CallRec == [op : Ops \cup {"idle", "done"}, at : Stages \cup {"idle"}, by : 0..MaxSessions,
            dev : Device \cup {NoDevice}, did : BOOLEAN, old : SUBSET Id]

\* The stages of each handler.
StagesOf ==
    [auth      |-> {"store"},
     refresh   |-> {"rotate"},
     logout    |-> {"block", "user", "deact", "mark"},
     logoutAll |-> {"block", "endall"},
     revoke    |-> {"user", "deact", "mark", "own"},
     recover   |-> {"wipe", "markall", "endall", "create", "pointer", "store", "used"},
     link      |-> {"create", "store"},
     delete    |-> {"markall", "endall", "rows"}]

Fits(r) ==
    IF r.op \in Ops
    THEN /\ r.at \in StagesOf[r.op]
         /\ r.op # "delete" => r.dev \in Device
         /\ r.op \in {"refresh", "logout", "logoutAll", "revoke"} \/ r.at = "used" =>
                r.by \in DOMAIN session
    ELSE r.at = "idle" /\ r.old = {}

CallsFit == \A c \in Call : Fits(call[c])

\* A refresh key outside the index is of a chain that met a Redis error; a chain that
\* a logout answered for, or will, began with a session minted before.
TokensInv ==
    /\ \A s \in DOMAIN session : session[s].root <= s
    /\ \A s \in refresh : s \notin index => session[s].root \in missed
    /\ \A c \in Call : \A r \in call[c].old : r <= Len(session)
    /\ \A r \in ended : r <= Len(session)

\* A device that a call is revoking has a row, and once it is about to be marked, or
\* was, it is out of service; both for good, unless the account was deleted.
RevocationsHold ==
    /\ primary = NoDevice => \A d \in Device : row[d] # "active"
    /\ \A d \in gone : row[d] = "inactive" \/ primary = NoDevice
    /\ \A c \in Call :
          /\ call[c].at \in {"block", "user", "deact"} => row[call[c].dev] # "none" \/ primary = NoDevice
          /\ call[c].at = "mark" => row[call[c].dev] = "inactive" \/ primary = NoDevice

\* No token and no marker outlives one made now, and the marker of a device that was
\* revoked outlives the tokens minted while its row was active.
MarkersInv ==
    /\ \A s \in DOMAIN session : session[s].exp <= now + AccessTtl
    /\ \A d \in Device : marker[d] <= now + AccessTtl
    /\ \A s \in DOMAIN session :
          session[s].dev \in gone /\ ~session[s].late => session[s].exp <= marker[session[s].dev]

\* The primary device is in service and no call has decided to take it out.
PrimaryInv ==
    primary = NoDevice \/ broken \/
        (row[primary] = "active" /\ \A c \in Call : ~(call[c].at = "deact" /\ call[c].dev = primary))

SessionsInv ==
    /\ TypeOK /\ CallsFit
    /\ TokensInv /\ SessionsNeverFork /\ LogoutAllEnds
    /\ RevocationsHold /\ MarkersInv
    /\ PrimaryInv

----------------------------------------------------------------------------
(* Calls and their turns.                                                  *)

\* The calls other than c are as they were.
OthersStay(c) == call' = [call EXCEPT ![c] = call'[c]]

\* A call begins with a session and a device of the account, or a new one.
Begins(c) ==
    /\ call[c].op = "idle" /\ call'[c] \in CallRec /\ call'[c].op \in Ops
    /\ Fits(call'[c]) /\ call'[c].old \subseteq Roots(refresh)
    /\ call'[c].at \notin {"deact", "mark"}
    /\ call'[c].at \in {"block", "user"} => row[call'[c].dev] # "none"

\* A call goes on to the next stage of its handler.
Goes(c) ==
    /\ call[c].op \in Ops /\ call'[c] \in CallRec
    /\ call'[c].op = call[c].op /\ call'[c].dev = call[c].dev /\ call'[c].old = call[c].old
    /\ call'[c].by = call[c].by \/ (call[c].op = "recover" /\ call'[c].at = "used" /\ call'[c].by = New)
    /\ call'[c].at \in StagesOf[call[c].op]
    /\ call'[c].at # "block"
    /\ call'[c].at = "used" => call'[c].by = New /\ Store(c)
    /\ call'[c].at = "user" => call[c].at = "block"
    /\ call'[c].at = "deact" => call[c].at = "user" /\ primary # NoDevice /\ primary # call[c].dev
    /\ call'[c].at = "mark" => Deactivate(c)

Returns(c) == call[c].op \in Ops /\ call'[c] = [Idle EXCEPT !.op = "done"]

Turn(c) == OthersStay(c) /\ (Begins(c) \/ Goes(c) \/ Returns(c))

\* The stages tell the handlers that have them.
LEMMA StageOps ==
    ASSUME NEW op \in Ops, NEW at \in StagesOf[op]
    PROVE  /\ at \in Stages
           /\ at = "store" => op \in {"auth", "recover", "link"}
           /\ at = "rotate" => op = "refresh"
           /\ at = "block" => op \in {"logout", "logoutAll"}
           /\ at \in {"user", "deact", "mark"} => op \in {"logout", "revoke"}
           /\ at = "own" => op = "revoke"
           /\ at \in {"wipe", "pointer", "used"} => op = "recover"
           /\ at = "markall" => op \in {"recover", "delete"}
           /\ at = "endall" => op \in {"logoutAll", "recover", "delete"}
           /\ at = "create" => op \in {"recover", "link"}
           /\ at = "rows" => op = "delete"
<1>1. CASE op = "auth"
  BY SMT, <1>1 DEF StagesOf, Stages
<1>2. CASE op = "refresh"
  BY SMT, <1>2 DEF StagesOf, Stages
<1>3. CASE op = "logout"
  BY SMT, <1>3 DEF StagesOf, Stages
<1>4. CASE op = "logoutAll"
  BY SMT, <1>4 DEF StagesOf, Stages
<1>5. CASE op = "revoke"
  BY SMT, <1>5 DEF StagesOf, Stages
<1>6. CASE op = "recover"
  BY SMT, <1>6 DEF StagesOf, Stages
<1>7. CASE op = "link"
  BY SMT, <1>7 DEF StagesOf, Stages
<1>8. CASE op = "delete"
  BY SMT, <1>8 DEF StagesOf, Stages
<1> QED  BY Zenon, <1>1, <1>2, <1>3, <1>4, <1>5, <1>6, <1>7, <1>8 DEF Ops

\* The handler a call at some stage is of, and what it holds.
LEMMA AtStage ==
    ASSUME TypeOK, CallsFit, NEW c \in Call, call[c].at # "idle"
    PROVE  /\ call[c] \in CallRec /\ call[c].op \in Ops /\ Fits(call[c])
           /\ call[c].at \in StagesOf[call[c].op]
           /\ call[c].op # "delete" => call[c].dev \in Device
<1>1. call[c] \in CallRec /\ Fits(call[c])
  BY Zenon DEF TypeOK, CallRec, CallsFit
<1> QED  BY Zenon, <1>1 DEF Fits

\* The sessions are numbered from 1 and each has its fields.
LEMMA SessionShape ==
    ASSUME TypeOK
    PROVE  /\ session \in Seq(SessionRec) /\ DOMAIN session = 1..Len(session) /\ Len(session) \in Nat
           /\ DOMAIN session \subseteq Id
           /\ \A s \in DOMAIN session :
                 /\ session[s] \in SessionRec
                 /\ session[s].dev \in Device /\ session[s].root \in Id /\ session[s].exp \in Nat
           /\ refresh \subseteq DOMAIN session /\ index \subseteq DOMAIN session
           /\ blocked \subseteq DOMAIN session
           /\ Roots(refresh) \subseteq Id /\ AccessTtl \in Nat \ {0} /\ now \in Nat
<1>1. session \in Seq(SessionRec)
  BY Zenon DEF TypeOK, SessionRec
<1>2. DOMAIN session = 1..Len(session) /\ Len(session) \in Nat
  BY <1>1
<1>3. Len(session) <= MaxSessions
  BY Zenon DEF TypeOK
<1>4. DOMAIN session \subseteq Id
  BY <1>2, <1>3, SessionsAssumption DEF Id
<1>5. \A s \in DOMAIN session : session[s] \in SessionRec
  BY <1>1, <1>2
<1>6. \A r \in SessionRec : r.dev \in Device /\ r.root \in Id /\ r.exp \in Nat
  BY SessionsAssumption DEF SessionRec
<1>7. refresh \subseteq DOMAIN session /\ index \subseteq DOMAIN session /\ blocked \subseteq DOMAIN session
  BY Zenon DEF TypeOK
<1>8. Roots(refresh) \subseteq Id
  BY Zenon, <1>5, <1>6, <1>7 DEF Roots
<1>9. AccessTtl \in Nat \ {0} /\ now \in Nat
  BY SessionsAssumption DEF TypeOK
<1> QED  BY Zenon, <1>1, <1>2, <1>4, <1>5, <1>6, <1>7, <1>8, <1>9

\* A request that is let in is a turn: its call begins.
LEMMA BeginTurn ==
    ASSUME TypeOK, CallsFit, NEW c \in Call, NEW op \in Ops, NEW at \in StagesOf[op],
           NEW by \in 0..MaxSessions, NEW d \in Device \cup {NoDevice},
           op # "delete" => d \in Device,
           op \in {"refresh", "logout", "logoutAll", "revoke"} => by \in DOMAIN session,
           at \notin {"deact", "mark", "used"}, at \in {"block", "user"} => row[d] # "none",
           Begin(c, op, at, by, d)
    PROVE  Turn(c)
<1> DEFINE o == IF op \in {"logoutAll", "recover"} THEN Roots(refresh) ELSE {}
           r == [op |-> op, at |-> at, by |-> by, dev |-> d, did |-> FALSE, old |-> o]
<1>1. call[c].op = "idle" /\ call' = [call EXCEPT ![c] = r] /\ DOMAIN call = Call
  BY Zenon DEF Begin, TypeOK
<1>2. call'[c] = r /\ OthersStay(c)
  BY Zenon, <1>1 DEF OthersStay
<1>3. Roots(refresh) \subseteq Id
  BY Zenon, SessionShape
<1>4. at \in Stages
  BY Zenon, StageOps
<1>5. o \subseteq Roots(refresh) /\ o \in SUBSET Id
  BY Zenon, <1>3
<1> HIDE DEF o
<1>6. /\ r \in CallRec /\ r.op = op /\ r.at = at /\ r.by = by /\ r.dev = d /\ r.old = o
  BY <1>4, <1>5 DEF CallRec
<1> HIDE DEF r
<1>7. Fits(r)
  BY Zenon, <1>6 DEF Fits
<1>8. Begins(c)
  BY Zenon, <1>1, <1>2, <1>5, <1>6, <1>7 DEF Begins
<1> QED  BY Zenon, <1>2, <1>8 DEF Turn

\* A handler that goes to its next stage takes a turn.
LEMMA GotoTurn ==
    ASSUME TypeOK, CallsFit, NEW c \in Call, call[c].at # "idle", NEW at \in StagesOf[call[c].op],
           at \notin {"block", "used", "mark"},
           at = "user" => call[c].at = "block",
           at = "deact" => call[c].at = "user" /\ primary # NoDevice /\ primary # call[c].dev,
           Goto(c, at)
    PROVE  Turn(c)
<1> DEFINE r == [call[c] EXCEPT !.at = at]
<1>1. call[c] \in CallRec /\ call[c].op \in Ops /\ DOMAIN call = Call
  BY Zenon, AtStage DEF TypeOK
<1>2. call' = [call EXCEPT ![c] = r]
  BY Zenon DEF Goto
<1>3. call'[c] = r /\ OthersStay(c)
  BY Zenon, <1>1, <1>2 DEF OthersStay
<1>4. at \in Stages
  BY Zenon, <1>1, StageOps
<1>5. /\ r \in CallRec /\ r.op = call[c].op /\ r.at = at /\ r.by = call[c].by /\ r.dev = call[c].dev
      /\ r.old = call[c].old
  BY <1>1, <1>4 DEF CallRec
<1> HIDE DEF r
<1>6. Goes(c)
  BY Zenon, <1>1, <1>3, <1>5 DEF Goes
<1> QED  BY Zenon, <1>3, <1>6 DEF Turn

\* A handler that returns takes a turn.
LEMMA ReturnTurn ==
    ASSUME TypeOK, CallsFit, NEW c \in Call, call[c].op \in Ops, Return(c)
    PROVE  Turn(c)
<1>1. DOMAIN call = Call
  BY Zenon DEF TypeOK
<1> QED  BY Zenon, <1>1 DEF Return, Returns, OthersStay, Turn

\* What a turn changes of the calls.
LEMMA TurnKeeps ==
    ASSUME TypeOK, CallsFit, NEW c \in Call, Turn(c), DOMAIN session \subseteq DOMAIN session',
           Goes(c) /\ call'[c].at = "used" => New \in DOMAIN session'
    PROVE  /\ call' \in [Call -> CallRec] /\ CallsFit'
           /\ \A b \in Call : b # c => call'[b] = call[b]
<1>0. call \in [Call -> CallRec]
  BY Zenon DEF TypeOK, CallRec
<1>1. Idle \in CallRec /\ [Idle EXCEPT !.op = "done"] \in CallRec
      /\ [Idle EXCEPT !.op = "done"].op = "done" /\ [Idle EXCEPT !.op = "done"].at = "idle"
      /\ [Idle EXCEPT !.op = "done"].old = {}
  <2>1. 0 \in 0..MaxSessions
    BY SMT, SessionsAssumption
  <2> QED  BY Zenon, <2>1 DEF Idle, CallRec
<1>2. call'[c] \in CallRec
  BY Zenon, <1>1 DEF Turn, Begins, Goes, Returns
<1>3. call' \in [Call -> CallRec] /\ \A b \in Call : b # c => call'[b] = call[b]
  BY <1>0, <1>2 DEF Turn, OthersStay
<1>4. ASSUME NEW b \in Call, b # c  PROVE Fits(call[b])'
  <2>1. call'[b] = call[b] /\ Fits(call[b])
    BY Zenon, <1>3, <1>4 DEF CallsFit
  <2> QED  BY Zenon, <2>1 DEF Fits
<1>5. Fits(call[c])'
  <2>1. CASE Begins(c)
    BY Zenon, <2>1 DEF Begins, Fits
  <2>2. CASE Goes(c)
    <3>1. Fits(call[c])
      BY Zenon DEF CallsFit
    <3> QED  BY Zenon, <2>2, <3>1 DEF Goes, Fits
  <2>3. CASE Returns(c)
    <3>1. "done" \notin Ops
      BY DEF Ops
    <3> QED  BY Zenon, <1>1, <2>3, <3>1 DEF Returns, Fits
  <2> QED  BY Zenon, <2>1, <2>2, <2>3 DEF Turn
<1>6. CallsFit'
  BY Zenon, <1>4, <1>5 DEF CallsFit
<1> QED  BY Zenon, <1>3, <1>6
\* The steps that touch a store.
Works(c) ==
    \/ Rotate(c) \/ Store(c) \/ LogoutBlock(c) \/ EndAll(c) \/ Deactivate(c) \/ Mark(c) \/ OwnBlock(c)
    \/ RecoverWipe(c) \/ MarkAll(c) \/ CreateDevice(c) \/ SetPrimary(c) \/ MarkUsed(c) \/ DeleteRows(c)

\* The steps that begin a call.
Requests(c) ==
    \/ \E d \in Device : AuthLookup(c, d)
    \/ \E d \in Fresh : RecoverVerify(c, d) \/ ConfirmDeviceLink(c, d)
    \/ \E s \in Out : RefreshLookup(c, s) \/ DeleteStart(c, s)
    \/ \E s \in Out, op \in {"logout", "logoutAll"} : LogoutStart(c, s, op)
    \/ \E s \in Out, d \in Device : RevokeStart(c, s, d)
    \/ \E s \in Out, d \in Fresh : ApproveJoinRequest(c, s, d)

Quiet ==
    /\ UNCHANGED << now, marker, session, refresh, index, blocked, row, primary, cooldown, broken, gone,
                    ended, missed >>
    /\ ticket' \subseteq Tickets /\ faults' \in 0..MaxFaults

\* A request begins a call and changes nothing but the ticket it spends.
LEMMA RequestTurn ==
    ASSUME TypeOK, CallsFit, NEW c \in Call, Requests(c)
    PROVE  Turn(c) /\ Quiet
<1>1. Quiet
  BY Zenon DEF Requests, AuthLookup, RecoverVerify, ConfirmDeviceLink, RefreshLookup, DeleteStart,
     LogoutStart, RevokeStart, ApproveJoinRequest, Quiet, db, tokens, history, TypeOK
<1>2. /\ Fresh \subseteq Device /\ NoDevice \in Device \cup {NoDevice}
      /\ \A s \in Out : s \in DOMAIN session /\ session[s].dev \in Device
  BY Zenon, SessionShape DEF Fresh, Out
<1>3. 0 \in 0..MaxSessions /\ \A s \in Out : s \in 0..MaxSessions
  <2>1. \A s \in Out : s \in Id
    BY Zenon, SessionShape DEF Out
  <2> QED  BY SMT, <2>1, SessionsAssumption DEF Id
<1>4. /\ "store" \in StagesOf["auth"] /\ "rotate" \in StagesOf["refresh"]
      /\ "block" \in StagesOf["logout"] /\ "block" \in StagesOf["logoutAll"]
      /\ "user" \in StagesOf["revoke"] /\ "wipe" \in StagesOf["recover"]
      /\ "create" \in StagesOf["link"] /\ "markall" \in StagesOf["delete"]
  BY DEF StagesOf
<1>5. CASE \E d \in Device : AuthLookup(c, d)
  <2>1. PICK d \in Device : Begin(c, "auth", "store", 0, d)
    BY Zenon, <1>5 DEF AuthLookup
  <2> QED  BY <1>1, <1>3, <1>4, <2>1, BeginTurn DEF Ops
<1>6. CASE \E d \in Fresh : RecoverVerify(c, d)
  <2>1. PICK d \in Device : Begin(c, "recover", "wipe", 0, d)
    BY Zenon, <1>2, <1>6 DEF RecoverVerify
  <2> QED  BY <1>1, <1>3, <1>4, <2>1, BeginTurn DEF Ops
<1>7. CASE \E d \in Fresh : ConfirmDeviceLink(c, d)
  <2>1. PICK d \in Device : Begin(c, "link", "create", 0, d)
    BY Zenon, <1>2, <1>7 DEF ConfirmDeviceLink
  <2> QED  BY <1>1, <1>3, <1>4, <2>1, BeginTurn DEF Ops
<1>8. CASE \E s \in Out : RefreshLookup(c, s)
  <2>1. PICK s \in Out : Begin(c, "refresh", "rotate", s, session[s].dev)
    BY Zenon, <1>8 DEF RefreshLookup
  <2>2. s \in DOMAIN session /\ session[s].dev \in Device
    BY Zenon, <1>2
  <2> QED  BY <1>1, <1>3, <1>4, <2>1, <2>2, BeginTurn DEF Ops
<1>9. CASE \E s \in Out : DeleteStart(c, s)
  <2>1. PICK s \in Out : Begin(c, "delete", "markall", s, NoDevice)
    BY Zenon, <1>9 DEF DeleteStart
  <2> QED  BY <1>1, <1>2, <1>3, <1>4, <2>1, BeginTurn DEF Ops
<1>10. CASE \E s \in Out, op \in {"logout", "logoutAll"} : LogoutStart(c, s, op)
  <2>1. PICK s \in Out, op \in {"logout", "logoutAll"} : /\ row[session[s].dev] = "active"
                                                        /\ Begin(c, op, "block", s, session[s].dev)
    BY Zenon, <1>10 DEF LogoutStart
  <2>2. s \in DOMAIN session /\ session[s].dev \in Device
    BY Zenon, <1>2
  <2>3. "block" \in StagesOf[op] /\ op \in Ops /\ op # "delete"
    BY Zenon, <1>4 DEF Ops
  <2> QED  BY <1>1, <1>3, <2>1, <2>2, <2>3, BeginTurn
<1>11. CASE \E s \in Out, d \in Device : RevokeStart(c, s, d)
  <2>1. PICK s \in Out, d \in Device : row[d] # "none" /\ Begin(c, "revoke", "user", s, d)
    BY Zenon, <1>11 DEF RevokeStart
  <2>2. s \in DOMAIN session
    BY Zenon, <1>2
  <2> QED  BY <1>1, <1>3, <1>4, <2>1, <2>2, BeginTurn DEF Ops
<1>12. CASE \E s \in Out, d \in Fresh : ApproveJoinRequest(c, s, d)
  <2>1. PICK s \in Out, d \in Device : Begin(c, "link", "create", s, d)
    BY Zenon, <1>2, <1>12 DEF ApproveJoinRequest
  <2> QED  BY <1>1, <1>3, <1>4, <2>1, BeginTurn DEF Ops
<1> QED  BY Zenon, <1>5, <1>6, <1>7, <1>8, <1>9, <1>10, <1>11, <1>12 DEF Requests

\* A step of a handler is a turn of its call.
LEMMA WorkTurn ==
    ASSUME TypeOK, CallsFit, NEW c \in Call, Works(c) \/ Drop(c) \/ ReadUser(c)
    PROVE  Turn(c)
<1> DEFINE op == call[c].op
           at == call[c].at
<1>1. ASSUME at # "idle"
      PROVE  /\ call[c] \in CallRec /\ op \in Ops /\ at \in StagesOf[op]
             /\ op # "delete" => call[c].dev \in Device
  BY Zenon, <1>1, AtStage
<1>2. CASE Return(c) /\ at # "idle"
  BY Zenon, <1>1, <1>2, ReturnTurn
<1>3. CASE Drop(c)
  BY Zenon, <1>3, ReturnTurn DEF Drop
<1>4. CASE Rotate(c) \/ OwnBlock(c) \/ MarkUsed(c) \/ DeleteRows(c)
  <2>1. Return(c) /\ at # "idle"
    BY Zenon, <1>4 DEF Rotate, OwnBlock, MarkUsed, DeleteRows
  <2> QED  BY Zenon, <1>2, <2>1
<1>5. CASE ReadUser(c)
  <2>1. at = "user" /\ at # "idle"
    BY <1>5 DEF ReadUser
  <2>2. op \in {"logout", "revoke"}
    BY Zenon, <1>1, <2>1, StageOps
  <2>3. "deact" \in StagesOf[op]
    BY <2>2 DEF StagesOf
  <2>4. CASE primary # NoDevice /\ primary # call[c].dev /\ Goto(c, "deact")
    BY <2>1, <2>3, <2>4, GotoTurn
  <2> QED  BY Zenon, <1>2, <1>5, <2>1, <2>4 DEF ReadUser
<1>6. CASE LogoutBlock(c)
  <2>1. at = "block" /\ at # "idle"
    BY <1>6 DEF LogoutBlock
  <2>2. op \in {"logout", "logoutAll"}
    BY Zenon, <1>1, <2>1, StageOps
  <2>3. "endall" \in StagesOf["logoutAll"] /\ "user" \in StagesOf["logout"]
    BY DEF StagesOf
  <2>4. CASE op = "logoutAll" /\ Goto(c, "endall")
    BY <2>1, <2>3, <2>4, GotoTurn
  <2>5. CASE op = "logout" /\ Goto(c, "user")
    BY <2>1, <2>3, <2>5, GotoTurn
  <2>6. Return(c) \/ Goto(c, IF op = "logoutAll" THEN "endall" ELSE "user")
    BY Zenon, <1>6 DEF LogoutBlock
  <2> QED  BY <1>2, <2>1, <2>2, <2>4, <2>5, <2>6
<1>7. CASE EndAll(c)
  <2>1. at = "endall" /\ at # "idle"
    BY <1>7 DEF EndAll
  <2>2. op \in {"logoutAll", "recover", "delete"}
    BY Zenon, <1>1, <2>1, StageOps
  <2>3. "create" \in StagesOf["recover"] /\ "rows" \in StagesOf["delete"]
    BY DEF StagesOf
  <2>4. CASE op = "recover" /\ Goto(c, "create")
    BY <2>1, <2>3, <2>4, GotoTurn
  <2>5. CASE op = "delete" /\ Goto(c, "rows")
    BY <2>1, <2>3, <2>5, GotoTurn
  <2>6. \/ op = "logoutAll" /\ Return(c)
        \/ op = "recover" /\ Goto(c, "create")
        \/ op = "delete" /\ Goto(c, "rows")
    BY Zenon, <1>7, <2>2 DEF EndAll, AfterEndAll
  <2> QED  BY Zenon, <1>2, <2>1, <2>4, <2>5, <2>6
<1>8. CASE Mark(c)
  <2>1. at = "mark" /\ at # "idle"
    BY <1>8 DEF Mark
  <2>2. Return(c) \/ (op = "revoke" /\ Goto(c, "own"))
    BY Zenon, <1>8 DEF Mark
  <2>3. "own" \in StagesOf["revoke"]
    BY DEF StagesOf
  <2>4. CASE op = "revoke" /\ Goto(c, "own")
    BY <2>1, <2>3, <2>4, GotoTurn
  <2> QED  BY Zenon, <1>2, <2>1, <2>2, <2>4
<1>9. CASE RecoverWipe(c)
  <2>1. at = "wipe" /\ at # "idle" /\ Goto(c, "markall")
    BY <1>9 DEF RecoverWipe
  <2>2. op = "recover"
    BY Zenon, <1>1, <2>1, StageOps
  <2>3. "markall" \in StagesOf["recover"]
    BY DEF StagesOf
  <2> QED  BY <2>1, <2>2, <2>3, GotoTurn
<1>10. CASE MarkAll(c)
  <2>1. at = "markall" /\ at # "idle"
    BY <1>10 DEF MarkAll
  <2>2. op \in {"recover", "delete"}
    BY Zenon, <1>1, <2>1, StageOps
  <2>3. "endall" \in StagesOf[op]
    BY <2>2 DEF StagesOf
  <2>4. CASE Goto(c, "endall")
    BY <2>1, <2>3, <2>4, GotoTurn
  <2> QED  BY Zenon, <1>2, <1>10, <2>1, <2>4 DEF MarkAll
<1>11. CASE CreateDevice(c)
  <2>1. at = "create" /\ at # "idle"
    BY <1>11 DEF CreateDevice
  <2>2. op \in {"recover", "link"}
    BY Zenon, <1>1, <2>1, StageOps
  <2>3. "pointer" \in StagesOf["recover"] /\ "store" \in StagesOf["link"]
    BY DEF StagesOf
  <2>4. CASE op = "recover" /\ Goto(c, "pointer")
    BY <2>1, <2>3, <2>4, GotoTurn
  <2>5. CASE op = "link" /\ Goto(c, "store")
    BY <2>1, <2>3, <2>5, GotoTurn
  <2>6. Return(c) \/ Goto(c, IF op = "recover" THEN "pointer" ELSE "store")
    BY Zenon, <1>11 DEF CreateDevice
  <2> QED  BY <1>2, <2>1, <2>2, <2>4, <2>5, <2>6
<1>12. CASE SetPrimary(c)
  <2>1. at = "pointer" /\ at # "idle" /\ Goto(c, "store")
    BY <1>12 DEF SetPrimary
  <2>2. op = "recover"
    BY Zenon, <1>1, <2>1, StageOps
  <2>3. "store" \in StagesOf["recover"]
    BY DEF StagesOf
  <2> QED  BY <2>1, <2>2, <2>3, GotoTurn
<1>13. CASE Deactivate(c)
  <2>1. at = "deact" /\ at # "idle"
    BY <1>13 DEF Deactivate
  <2>2. op \in {"logout", "revoke"} /\ call[c] \in CallRec /\ op \in Ops
    BY Zenon, <1>1, <2>1, StageOps
  <2>3. "mark" \in StagesOf[op] /\ "mark" \in Stages
    BY <2>2 DEF StagesOf, Stages
  <2> DEFINE r == [call[c] EXCEPT !.at = "mark", !.did = (row[call[c].dev] = "active")]
  <2>4. call' = [call EXCEPT ![c] = r] /\ DOMAIN call = Call
    BY Zenon, <1>13 DEF Deactivate, TypeOK
  <2>5. call'[c] = r /\ OthersStay(c)
    BY Zenon, <2>4 DEF OthersStay
  <2>6. /\ r \in CallRec /\ r.op = op /\ r.at = "mark" /\ r.by = call[c].by /\ r.dev = call[c].dev
        /\ r.old = call[c].old
    BY Zenon, <2>2, <2>3 DEF CallRec
  <2> HIDE DEF r
  <2>7. Goes(c)
    BY <1>13, <2>1, <2>2, <2>3, <2>5, <2>6 DEF Goes
  <2> QED  BY Zenon, <2>5, <2>7 DEF Turn
<1>14. CASE Store(c)
  <2>1. at = "store" /\ at # "idle"
    BY <1>14 DEF Store
  <2>2. CASE op # "recover"
    BY Zenon, <1>2, <1>14, <2>1, <2>2 DEF Store
  <2>3. CASE op = "recover"
    <3> DEFINE r == [call[c] EXCEPT !.at = "used", !.by = New]
    <3>1. call' = [call EXCEPT ![c] = r] /\ DOMAIN call = Call
      BY Zenon, <1>14, <2>3 DEF Store, TypeOK
    <3>2. call'[c] = r /\ OthersStay(c)
      BY Zenon, <3>1 DEF OthersStay
    <3>3. "used" \in StagesOf["recover"] /\ "used" \in Stages
      BY DEF StagesOf, Stages
    <3>4. call[c] \in CallRec /\ op \in Ops
      BY Zenon, <1>1, <2>1
    <3>5. New \in 0..MaxSessions
      BY <1>14, SessionShape, SessionsAssumption DEF Store, Mint, New
    <3>6. /\ r \in CallRec /\ r.op = op /\ r.at = "used" /\ r.by = New /\ r.dev = call[c].dev
          /\ r.old = call[c].old
      BY Zenon, <3>3, <3>4, <3>5 DEF CallRec
    <3> HIDE DEF r
    <3>7. Goes(c)
      BY <1>14, <2>3, <3>2, <3>3, <3>4, <3>6 DEF Goes
    <3> QED  BY Zenon, <3>2, <3>7 DEF Turn
  <2> QED  BY Zenon, <2>2, <2>3
<1> QED  BY Zenon, <1>3, <1>4, <1>5, <1>6, <1>7, <1>8, <1>9, <1>10, <1>11, <1>12, <1>13, <1>14 DEF Works

\* A step is one of the clock, one of a device that starts to be linked, or the turn of a

\* call, which touches a store or does not.
LEMMA NextKinds ==
    ASSUME TypeOK, CallsFit, Next
    PROVE  Tick \/ (Quiet /\ call' = call) \/ \E c \in Call : Turn(c) /\ (Quiet \/ Works(c))
<1>1. CASE (\E s \in Out : InitiateDeviceLink(s)) \/ \E d \in Fresh : SubmitJoinRequest(d)
  BY Zenon, <1>1 DEF InitiateDeviceLink, SubmitJoinRequest, Quiet, db, tokens, history, TypeOK, Tickets
<1>2. ASSUME NEW c \in Call, Drop(c) \/ ReadUser(c)  PROVE Turn(c) /\ Quiet
  <2>1. UNCHANGED << now, marker, session, refresh, index, blocked, row, primary, cooldown, broken, gone,
                     ended, missed >> /\ ticket' \subseteq Tickets
    BY Zenon, <1>2 DEF Drop, ReadUser, db, tokens, history, TypeOK
  <2>2. faults' \in 0..MaxFaults
    BY <1>2, SessionsAssumption DEF Drop, ReadUser, Fault, TypeOK
  <2> QED  BY Zenon, <1>2, <2>1, <2>2, WorkTurn DEF Quiet
<1>3. ASSUME NEW c \in Call, Works(c)  PROVE Turn(c)
  BY Zenon, <1>3, WorkTurn
<1>4. ASSUME NEW c \in Call, Requests(c)  PROVE Turn(c) /\ Quiet
  BY Zenon, <1>4, RequestTurn
<1> QED  BY Zenon, <1>1, <1>2, <1>3, <1>4 DEF Next, Works, Requests

----------------------------------------------------------------------------
(* The sessions, and the shape of the stores.                              *)

\* Sessions keep what the tokens say.
SessionsKept ==
    /\ session' \in Seq(SessionRec) /\ Len(session') <= MaxSessions /\ Len(session) <= Len(session')
    /\ DOMAIN session \subseteq DOMAIN session'
    /\ \A s \in DOMAIN session :
          /\ session'[s].dev = session[s].dev /\ session'[s].exp = session[s].exp
          /\ session'[s].root = session[s].root /\ session'[s].late = session[s].late

\* Minting adds a session with the next number, for the device of the call.
LEMMA Minting ==
    ASSUME TypeOK, CallsFit, NEW c \in Call, call[c].dev \in Device, NEW root \in Id, NEW out \in BOOLEAN,
           Mint(c, root, out)
    PROVE  /\ SessionsKept
           /\ New \in Nat /\ New \notin DOMAIN session /\ DOMAIN session' = DOMAIN session \cup {New}
           /\ Len(session') = New /\ New = Len(session) + 1 /\ New \in Id
           /\ session'[New].dev = call[c].dev /\ session'[New].exp = now + AccessTtl
           /\ session'[New].root = root
           /\ session'[New].late <=> row[call[c].dev] # "active"
<1> DEFINE m == Minted(c, root, out)
<1>1. /\ session \in Seq(SessionRec) /\ DOMAIN session = 1..Len(session) /\ Len(session) \in Nat
      /\ AccessTtl \in Nat /\ now \in 0..MaxNow /\ MaxNow \in Nat /\ MaxSessions \in Nat
  BY SMTT(60), SessionShape, SessionsAssumption DEF TypeOK
<1>2. session' = Append(session, m) /\ New = Len(session) + 1 /\ New <= MaxSessions
  BY Zenon DEF Mint, New
<1>3. now + AccessTtl \in 0..(MaxNow + AccessTtl)
  BY SMT, <1>1
<1>4. /\ m \in SessionRec /\ m.dev = call[c].dev /\ m.exp = now + AccessTtl /\ m.root = root
      /\ m.late <=> row[call[c].dev] # "active"
  BY Zenon, <1>3 DEF Minted, SessionRec
<1> HIDE DEF m
<1>5. /\ session' \in Seq(SessionRec) /\ Len(session') = Len(session) + 1
      /\ session'[New] = m /\ \A s \in DOMAIN session : session'[s] = session[s]
  BY SMT, <1>1, <1>2, <1>4
<1>6. /\ New \in Nat /\ New \notin DOMAIN session /\ Len(session') = New /\ New \in Id
      /\ Len(session) <= Len(session')
  BY SMT, <1>1, <1>2, <1>5 DEF Id
<1>7. DOMAIN session' = DOMAIN session \cup {New}
  BY SMT, <1>1, <1>2, <1>5
<1>8. SessionsKept
  BY Zenon, <1>2, <1>5, <1>6, <1>7 DEF SessionsKept
<1> QED  BY Zenon, <1>2, <1>4, <1>5, <1>6, <1>7, <1>8

\* A session that appears was minted by this call, for a new chain or for the one it
\* rotates.
Appeared(c) ==
    /\ New \notin DOMAIN session /\ DOMAIN session' = DOMAIN session \cup {New}
    /\ Len(session') = New /\ New = Len(session) + 1
    /\ session'[New].dev = call[c].dev /\ session'[New].exp = now + AccessTtl
    /\ session'[New].late <=> row[call[c].dev] # "active"
    /\ \/ /\ Store(c) /\ session'[New].root = New
          /\ refresh' \in {refresh, refresh \cup {New}}
       \/ /\ Rotate(c) /\ call[c].by \in refresh /\ session'[New].root = session[call[c].by].root
          /\ Rotated(call[c].by, New)
    /\ UNCHANGED <<now, row, primary, marker, gone, broken, blocked, ended>>

\* A turn keeps the sessions there were, and adds at most the one it mints.
LEMMA SessionSteps ==
    ASSUME TypeOK, CallsFit, NEW c \in Call, Turn(c), Quiet \/ Works(c)
    PROVE  /\ SessionsKept
           /\ (DOMAIN session' = DOMAIN session /\ ~Store(c)) \/ Appeared(c)
           /\ Goes(c) /\ call'[c].at = "used" => New \in DOMAIN session'
<1>0. /\ session \in Seq(SessionRec) /\ Len(session) \in Nat /\ Len(session) <= MaxSessions
      /\ \A s \in DOMAIN session : session[s] \in SessionRec
  BY SMTT(60), SessionShape DEF TypeOK
<1>1. session' = session => SessionsKept
  BY <1>0 DEF SessionsKept
<1>2. CASE Store(c)
  <2>1. call[c].at = "store" /\ call[c].at # "idle"
    BY <1>2 DEF Store
  <2>2. call[c].op \in {"auth", "recover", "link"}
    BY Zenon, <2>1, AtStage, StageOps
  <2>3. call[c].dev \in Device
    BY <2>1, <2>2, AtStage
  <2>4. New \in Id
    BY <1>0, <1>2, SessionsAssumption DEF Store, Mint, New, Id
  <2>5. PICK out \in BOOLEAN : Mint(c, New, out)
    BY Zenon, <1>2 DEF Store
  <2>6. refresh' \in {refresh, refresh \cup {New}} /\ UNCHANGED <<now, row, primary, marker, gone, broken, blocked, ended>>
    BY Zenon, <1>2 DEF Store, db
  <2> QED  BY Zenon, <1>2, <2>3, <2>4, <2>5, <2>6, Minting DEF Appeared
<1>3. CASE Rotate(c) /\ session' # session
  <2>1. call[c].at = "rotate" /\ call[c].at # "idle"
    BY <1>3 DEF Rotate
  <2>2. call[c].op = "refresh"
    BY Zenon, <2>1, AtStage, StageOps
  <2>3. call[c].dev \in Device
    BY <2>1, <2>2, AtStage
  <2>4. /\ call[c].by \in refresh /\ Rotated(call[c].by, New)
        /\ \E out \in BOOLEAN : Mint(c, session[call[c].by].root, out)
    BY Zenon, <1>3 DEF Rotate
  <2>5. PICK out \in BOOLEAN : Mint(c, session[call[c].by].root, out)
    BY Zenon, <2>4
  <2>6. session[call[c].by].root \in Id
    BY Zenon, <2>4, SessionShape
  <2>7. UNCHANGED <<now, row, primary, marker, gone, broken, blocked, ended>>
    BY Zenon, <1>3 DEF Rotate, db, history
  <2>8. Appeared(c) /\ SessionsKept
    BY Zenon, <1>3, <2>3, <2>4, <2>5, <2>6, <2>7, Minting DEF Appeared
  <2>9. Return(c)
    BY Zenon, <1>3 DEF Rotate
  <2>10. call'[c].at # "used"
    BY <2>9 DEF Return, TypeOK, Idle
  <2> QED  BY Zenon, <2>8, <2>10
<1>4. CASE ~Store(c) /\ ~(Rotate(c) /\ session' # session)
  <2>1. ~(Goes(c) /\ call'[c].at = "used")
    BY Zenon, <1>4 DEF Goes
  <2>2. CASE MarkUsed(c)
    <3>1. call[c].at = "used" /\ call[c].at # "idle"
      BY <2>2 DEF MarkUsed
    <3>2. call[c].by \in DOMAIN session
      BY Zenon, <3>1, AtStage DEF Fits
    <3> DEFINE r == [session[call[c].by] EXCEPT !.out = TRUE]
    <3>3. session' = [session EXCEPT ![call[c].by] = r]
      BY Zenon, <2>2 DEF MarkUsed
    <3>4. /\ r \in SessionRec /\ r.dev = session[call[c].by].dev /\ r.exp = session[call[c].by].exp
          /\ r.root = session[call[c].by].root /\ r.late = session[call[c].by].late
      BY Zenon, <1>0, <3>2 DEF SessionRec
    <3> HIDE DEF r
    <3>5. call[c].by \in 1..Len(session) /\ DOMAIN session = 1..Len(session)
      BY Zenon, <3>2, SessionShape
    <3>6. session' \in Seq(SessionRec) /\ Len(session') = Len(session)
      BY SMT, <1>0, <3>3, <3>4, <3>5, ExceptSeq
    <3>7. DOMAIN session' = DOMAIN session
      BY Zenon, <3>3
    <3>8. \A s \in DOMAIN session : session'[s] = IF s = call[c].by THEN r ELSE session[s]
      BY Zenon, <3>3
    <3>9. Len(session') <= MaxSessions /\ Len(session) <= Len(session')
      BY SMT, <1>0, <3>6
    <3>10. SessionsKept
      BY Zenon, <3>4, <3>6, <3>7, <3>8, <3>9 DEF SessionsKept
    <3> QED  BY Zenon, <1>4, <2>1, <3>7, <3>10
  <2>3. CASE ~MarkUsed(c)
    <3>1. session' = session
      BY Zenon, <1>4, <2>3 DEF Quiet, Works, Rotate, LogoutBlock, EndAll, Deactivate, Mark, OwnBlock,
         RecoverWipe, MarkAll, CreateDevice, SetPrimary, DeleteRows
    <3> QED  BY Zenon, <1>1, <1>4, <2>1, <3>1
  <2> QED  BY Zenon, <2>2, <2>3
<1> QED  BY Zenon, <1>2, <1>3, <1>4

\* The turn of a call keeps the shape of every variable, and every call in its handler.
LEMMA TypeStep ==
    ASSUME TypeOK, CallsFit, NEW c \in Call, Turn(c), Quiet \/ Works(c)
    PROVE  TypeOK' /\ CallsFit'
<1>1. SessionsKept
  BY Zenon, SessionSteps
<1>2. CallsFit' /\ call' \in [Call -> CallRec]
  BY Zenon, <1>1, SessionSteps, TurnKeeps DEF SessionsKept
<1>3. DOMAIN session \subseteq DOMAIN session'
  BY Zenon, <1>1 DEF SessionsKept
<1>4. faults' \in 0..MaxFaults /\ now' = now
  <2>1. faults' = faults \/ Fault \/ Quiet
    BY Zenon DEF Works, Rotate, Store, LogoutBlock, EndAll, Deactivate, Mark, OwnBlock, RecoverWipe,
       MarkAll, CreateDevice, SetPrimary, MarkUsed, DeleteRows
  <2>2. now' = now
    BY Zenon DEF Quiet, Works, Rotate, Store, LogoutBlock, EndAll, Deactivate, Mark, OwnBlock, RecoverWipe,
       MarkAll, CreateDevice, SetPrimary, MarkUsed, DeleteRows
  <2> QED  BY <2>1, <2>2, SessionsAssumption DEF TypeOK, Fault, Quiet
<1>5. /\ row' \in [Device -> {"none", "active", "inactive"}]
      /\ primary' \in Device \cup {NoDevice} /\ cooldown' \in BOOLEAN
  <2>1. CASE UNCHANGED << row, primary, cooldown >>
    BY Zenon, <2>1 DEF TypeOK
  <2>2. CASE Deactivate(c) \/ RecoverWipe(c) \/ CreateDevice(c) \/ DeleteRows(c)
    <3>1. row' \in [Device -> {"none", "active", "inactive"}]
      BY <2>2 DEF Deactivate, RecoverWipe, CreateDevice, DeleteRows, TypeOK
    <3>2. primary' \in {primary, NoDevice} /\ cooldown' = cooldown
      BY Zenon, <2>2 DEF Deactivate, RecoverWipe, CreateDevice, DeleteRows
    <3> QED  BY Zenon, <3>1, <3>2 DEF TypeOK
  <2>3. CASE SetPrimary(c) \/ MarkUsed(c)
    <3>1. call[c].dev \in Device \cup {NoDevice}
      BY DEF TypeOK
    <3>2. row' = row
      BY Zenon, <2>3 DEF SetPrimary, MarkUsed
    <3>3. primary' \in Device \cup {NoDevice}
      BY Zenon, <2>3, <3>1 DEF SetPrimary, MarkUsed, TypeOK
    <3>4. cooldown' \in BOOLEAN
      BY Zenon, <2>3 DEF SetPrimary, MarkUsed, TypeOK
    <3> QED  BY Zenon, <3>2, <3>3, <3>4 DEF TypeOK
  <2> QED  BY Zenon, <2>1, <2>2, <2>3 DEF Quiet, Works, Rotate, Store, LogoutBlock, EndAll, Mark, OwnBlock,
              MarkAll, db
<1>6. marker' \in [Device -> 0..(MaxNow + AccessTtl)] /\ gone' \subseteq Device
  <2>1. CASE UNCHANGED << marker, gone >>
    BY Zenon, <2>1 DEF TypeOK
  <2>2. now + AccessTtl \in 0..(MaxNow + AccessTtl)
    BY SessionsAssumption DEF TypeOK
  <2>3. CASE Mark(c)
    <3>1. call[c].at = "mark" /\ call[c].at # "idle"
      BY <2>3 DEF Mark
    <3>2. call[c].op \in {"logout", "revoke"}
      BY Zenon, <3>1, AtStage, StageOps
    <3>3. call[c].dev \in Device
      BY <3>1, <3>2, AtStage
    <3>4. \/ UNCHANGED << marker, gone >>
          \/ marker' = [marker EXCEPT ![call[c].dev] = now + AccessTtl] /\ gone' = gone \cup {call[c].dev}
      BY Zenon, <2>3 DEF Mark
    <3> QED  BY <2>1, <2>2, <3>3, <3>4 DEF TypeOK
  <2>4. CASE MarkAll(c)
    <3>1. \E marked \in SUBSET Listed :
              marker' = [d \in Device |-> IF d \in marked THEN now + AccessTtl ELSE marker[d]]
      BY Zenon, <2>4 DEF MarkAll
    <3>2. marker' \in [Device -> 0..(MaxNow + AccessTtl)]
      BY <2>2, <3>1 DEF TypeOK
    <3>3. gone' = gone \/ gone' = gone \cup {d \in Listed : row[d] = "inactive"}
      BY Zenon, <2>4 DEF MarkAll
    <3>4. gone' \subseteq Device
      BY Zenon, <3>3 DEF TypeOK, Listed
    <3> QED  BY Zenon, <3>2, <3>4
  <2> QED  BY Zenon, <2>1, <2>3, <2>4 DEF Quiet, Works, Rotate, Store, LogoutBlock, EndAll, Deactivate,
              OwnBlock, RecoverWipe, CreateDevice, SetPrimary, MarkUsed, DeleteRows, history
<1>7. /\ refresh' \subseteq DOMAIN session' /\ index' \subseteq DOMAIN session'
      /\ blocked' \subseteq DOMAIN session'
  <2>0. refresh \subseteq DOMAIN session' /\ index \subseteq DOMAIN session' /\ blocked \subseteq DOMAIN session'
    BY Zenon, <1>3 DEF TypeOK
  <2>1. CASE Store(c)
    <3>1. New \in DOMAIN session'
      BY Zenon, <2>1, SessionSteps DEF Appeared
    <3> QED  BY Zenon, <2>0, <2>1, <3>1 DEF Store
  <2>2. CASE Rotate(c)
    <3>1. CASE UNCHANGED << refresh, index >>
      BY Zenon, <2>0, <2>2, <3>1 DEF Rotate
    <3>2. CASE /\ call[c].by \in refresh /\ Rotated(call[c].by, New)
               /\ \E out \in BOOLEAN : Mint(c, session[call[c].by].root, out)
      <4>1. call[c].at = "rotate" /\ call[c].at # "idle"
        BY <2>2 DEF Rotate
      <4>2. call[c].op = "refresh"
        BY Zenon, <4>1, AtStage, StageOps
      <4>3. call[c].dev \in Device /\ session[call[c].by].root \in Id
        BY <3>2, <4>1, <4>2, AtStage, SessionShape
      <4>4. New \in DOMAIN session'
        BY Zenon, <3>2, <4>3, Minting
      <4> QED  BY Zenon, <2>0, <2>2, <3>2, <4>4 DEF Rotate, Rotated
    <3> QED  BY Zenon, <2>2, <3>1, <3>2 DEF Rotate
  <2>3. CASE LogoutBlock(c) \/ OwnBlock(c)
    <3>1. call[c].at \in {"block", "own"} /\ call[c].at # "idle"
      BY <2>3 DEF LogoutBlock, OwnBlock
    <3>2. call[c].op \in {"logout", "logoutAll", "revoke"}
      BY <3>1, AtStage, StageOps
    <3>3. call[c].by \in DOMAIN session
      BY <3>1, <3>2, AtStage DEF Fits
    <3>4. UNCHANGED << refresh, index >> /\ blocked' \subseteq blocked \cup {call[c].by}
      BY Zenon, <2>3 DEF LogoutBlock, OwnBlock
    <3> QED  BY Zenon, <1>3, <2>0, <3>3, <3>4
  <2>4. CASE EndAll(c)
    BY Zenon, <2>0, <2>4 DEF EndAll
  <2>5. CASE UNCHANGED << refresh, index, blocked >>
    BY Zenon, <2>0, <2>5
  <2> QED  BY Zenon, <2>1, <2>2, <2>3, <2>4, <2>5 DEF Quiet, Works, Deactivate, Mark, RecoverWipe, MarkAll,
              CreateDevice, SetPrimary, MarkUsed, DeleteRows, tokens
<1>8. ticket' \subseteq Tickets
  BY Zenon DEF Quiet, Works, Rotate, Store, LogoutBlock, EndAll, Deactivate, Mark, OwnBlock, RecoverWipe,
     MarkAll, CreateDevice, SetPrimary, MarkUsed, DeleteRows, TypeOK
<1>9. broken' \in BOOLEAN
  BY Zenon DEF Quiet, Works, Rotate, Store, LogoutBlock, EndAll, Deactivate, Mark, OwnBlock, RecoverWipe,
     MarkAll, CreateDevice, SetPrimary, MarkUsed, DeleteRows, TypeOK, history
<1>10. ended' \subseteq Id /\ missed' \subseteq Id
  <2>1. CASE UNCHANGED << ended, missed >>
    BY Zenon, <2>1 DEF TypeOK
  <2>2. CASE EndAll(c)
    <3>1. call[c].old \subseteq Id
      BY DEF TypeOK
    <3>2. \A kept \in SUBSET refresh : Roots(kept) \subseteq Id
      BY Zenon, SessionShape DEF Roots
    <3> QED  BY Zenon, <2>2, <3>1, <3>2 DEF EndAll, TypeOK
  <2>3. CASE Store(c)
    <3>1. New \in Id
      BY <2>3, SessionShape, SessionsAssumption DEF Store, Mint, New, Id
    <3> QED  BY Zenon, <2>3, <3>1 DEF Store, TypeOK
  <2> QED  BY Zenon, <2>1, <2>2, <2>3 DEF Quiet, Works, Rotate, LogoutBlock, Deactivate, Mark, OwnBlock,
              RecoverWipe, MarkAll, CreateDevice, SetPrimary, MarkUsed, DeleteRows, history
<1>11. /\ session' \in Seq(SessionRec) /\ Len(session') <= MaxSessions /\ now' \in 0..MaxNow
  BY Zenon, <1>1, <1>4 DEF SessionsKept, TypeOK
<1>12. TypeOK'
  BY Zenon, <1>2, <1>4, <1>5, <1>6, <1>7, <1>8, <1>9, <1>10, <1>11 DEF TypeOK, SessionRec, CallRec
<1> QED  BY Zenon, <1>2, <1>12

----------------------------------------------------------------------------
(* Refresh tokens: chains of rotations.                                    *)

\* A chain is named by its first session, which is no later than any other of it, and what a

\* logout answers for began no later than the sessions there are.
LEMMA RootsStep ==
    ASSUME TypeOK, CallsFit, TokensInv, NEW c \in Call, Turn(c), Quiet \/ Works(c)
    PROVE  /\ \A s \in DOMAIN session' : session'[s].root <= s
           /\ \A k \in Call : \A r \in call'[k].old : r <= Len(session')
           /\ \A r \in ended' : r <= Len(session')
<1>1. /\ SessionsKept /\ Len(session) \in Nat /\ Len(session') \in Nat /\ Len(session) <= Len(session')
      /\ DOMAIN session = 1..Len(session)
  BY SessionSteps, SessionShape DEF SessionsKept
<1>2. \A s \in DOMAIN session : session[s].root \in Nat /\ session[s].root <= s
  BY SessionShape DEF TokensInv, Id
<1>3. \A s \in DOMAIN session' : session'[s].root <= s
  <2>1. \A s \in DOMAIN session : session'[s].root <= s
    BY Zenon, <1>1, <1>2 DEF SessionsKept
  <2>2. CASE Appeared(c)
    <3>1. CASE session'[New].root = New
      <4>1. session'[New].root <= New
        BY <1>1, <3>1 DEF New
      <4> QED  BY Zenon, <2>1, <2>2, <4>1 DEF Appeared
    <3>2. CASE call[c].by \in refresh /\ session'[New].root = session[call[c].by].root
      <4>1. call[c].by \in DOMAIN session
        BY Zenon, <3>2 DEF TypeOK
      <4>2. session'[New].root <= New
        BY <1>1, <1>2, <3>2, <4>1 DEF New
      <4> QED  BY Zenon, <2>1, <2>2, <4>2 DEF Appeared
    <3> QED  BY Zenon, <2>2, <3>1, <3>2 DEF Appeared
  <2> QED  BY Zenon, <2>1, <2>2, SessionSteps
<1>4. \A k \in Call : call[k].old \subseteq Id /\ \A r \in call[k].old : r <= Len(session')
  <2>1. \A k \in Call : call[k].old \subseteq Id
    BY DEF TypeOK
  <2> QED  BY <1>1, <2>1 DEF TokensInv, Id
<1>5. \A r \in Roots(refresh) : r <= Len(session')
  BY <1>1, <1>2 DEF Roots, TypeOK
<1>6. call'[c].old \subseteq call[c].old \cup Roots(refresh)
  <2>1. CASE Returns(c)
    BY <2>1 DEF Returns, Idle
  <2> QED  BY Zenon, <2>1 DEF Turn, Begins, Goes
<1>7. \A k \in Call : \A r \in call'[k].old : r <= Len(session')
  <2>1. \A k \in Call : k # c => call'[k] = call[k]
    BY Zenon DEF Turn, OthersStay, TypeOK
  <2> QED  BY Zenon, <1>4, <1>5, <1>6, <2>1
<1>8. \A r \in ended' : r <= Len(session')
  <2>1. ended' \subseteq ended \cup call[c].old
    BY Zenon DEF Quiet, Works, Rotate, Store, LogoutBlock, EndAll, Deactivate, Mark, OwnBlock, RecoverWipe,
       MarkAll, CreateDevice, SetPrimary, MarkUsed, DeleteRows, history
  <2>2. \A r \in ended : r <= Len(session')
    BY <1>1 DEF TokensInv, TypeOK, Id
  <2> QED  BY Zenon, <1>4, <2>1, <2>2
<1> QED  BY Zenon, <1>3, <1>7, <1>8

\* What a turn does to the refresh keys: nothing, the first key of a chain, the next one in

\* the place of the last, or the end of all that the index knows.
LEMMA TokensStep ==
    ASSUME TypeOK, CallsFit, TokensInv, SessionsNeverFork, LogoutAllEnds, NEW c \in Call, Turn(c),
           Quiet \/ Works(c)
    PROVE  TokensInv' /\ SessionsNeverFork' /\ LogoutAllEnds'
<1>1. \A s \in refresh : s \in DOMAIN session /\ session'[s].root = session[s].root
  BY Zenon, SessionSteps DEF SessionsKept, TypeOK
<1>2. SUFFICES /\ \A s, t \in refresh' : session'[s].root = session'[t].root => s = t
               /\ \A s \in refresh' : s \notin index' => session'[s].root \in missed'
               /\ \A s \in refresh' : session'[s].root \in ended' => session'[s].root \in missed'
  BY Zenon, RootsStep DEF TokensInv, SessionsNeverFork, LogoutAllEnds
<1>3. CASE UNCHANGED << refresh, index, missed, ended >>
  <2>1. \A s, t \in refresh : session'[s].root = session'[t].root => s = t
    BY <1>1 DEF SessionsNeverFork
  <2>2. \A s \in refresh : s \notin index => session'[s].root \in missed
    BY Zenon, <1>1 DEF TokensInv
  <2>3. \A s \in refresh : session'[s].root \in ended => session'[s].root \in missed
    BY Zenon, <1>1 DEF LogoutAllEnds
  <2> QED  BY Zenon, <1>3, <2>1, <2>2, <2>3
<1>4. CASE Store(c)
  <2>1. /\ New \notin DOMAIN session /\ session'[New].root = New /\ ended' = ended
        /\ Len(session) \in Nat /\ New = Len(session) + 1
    <3>1. Appeared(c)
      BY Zenon, <1>4, SessionSteps
    <3>2. ~Rotate(c)
      BY <1>4 DEF Store, Rotate
    <3> QED  BY Zenon, <3>1, <3>2, SessionShape DEF Appeared
  <2>2. New \notin ended
    <3>1. \A r \in ended : r \in Nat /\ r <= Len(session)
      BY SessionsAssumption DEF TokensInv, TypeOK, Id
    <3> QED  BY <2>1, <3>1
  <2>3. \A s \in refresh : session[s].root # New
    <3>1. \A s \in refresh : s \in 1..Len(session) /\ session[s].root \in Id /\ session[s].root <= s
      BY Zenon, <1>1, SessionShape DEF TokensInv
    <3> QED  BY <2>1, <3>1 DEF Id
  <2>4. /\ refresh' \subseteq refresh \cup {New} /\ index \subseteq index' /\ missed \subseteq missed'
        /\ New \in refresh' => New \in index' \/ New \in missed'
    <3>1. New \notin refresh
      BY Zenon, <2>1 DEF TypeOK
    <3> QED  BY Zenon, <1>4, <3>1 DEF Store
  <2>5. \A s, t \in refresh' : session'[s].root = session'[t].root => s = t
    BY ZenonT(60), <1>1, <2>1, <2>3, <2>4 DEF SessionsNeverFork
  <2>6. \A s \in refresh' : s \notin index' => session'[s].root \in missed'
    BY Zenon, <1>1, <2>1, <2>4 DEF TokensInv
  <2>7. \A s \in refresh' : session'[s].root \in ended' => session'[s].root \in missed'
    BY Zenon, <1>1, <2>1, <2>2, <2>4 DEF LogoutAllEnds
  <2> QED  BY Zenon, <2>5, <2>6, <2>7
<1>5. CASE Rotate(c) /\ ~UNCHANGED << refresh, index >>
  <2>1. /\ call[c].by \in refresh /\ Rotated(call[c].by, New) /\ UNCHANGED << missed, ended >>
        /\ \E out \in BOOLEAN : Mint(c, session[call[c].by].root, out)
    BY Zenon, <1>5 DEF Rotate, history
  <2>2. session'[New].root = session[call[c].by].root
    <3>1. call[c].at = "rotate" /\ call[c].at # "idle"
      BY <1>5 DEF Rotate
    <3>2. call[c].op = "refresh"
      BY Zenon, <3>1, AtStage, StageOps
    <3>3. call[c].dev \in Device /\ session[call[c].by].root \in Id
      BY <2>1, <3>1, <3>2, AtStage, SessionShape
    <3> QED  BY Zenon, <2>1, <3>3, Minting
  <2>3. \A s, t \in refresh' : session'[s].root = session'[t].root => s = t
    <3>1. \A s \in refresh' : s = New \/ (s \in refresh /\ s # call[c].by)
      BY Zenon, <2>1 DEF Rotated
    <3>2. \A s \in refresh : s # call[c].by => session'[s].root # session'[New].root
      BY <1>1, <2>1, <2>2 DEF SessionsNeverFork
    <3>3. \A s, t \in refresh : session'[s].root = session'[t].root => s = t
      BY <1>1 DEF SessionsNeverFork
    <3> QED  BY Zenon, <3>1, <3>2, <3>3
  <2>4. \A s \in refresh' : s \notin index' => session'[s].root \in missed'
    BY Zenon, <1>1, <2>1 DEF TokensInv, Rotated
  <2>5. \A s \in refresh' : session'[s].root \in ended' => session'[s].root \in missed'
    BY Zenon, <1>1, <2>1, <2>2 DEF LogoutAllEnds, Rotated
  <2> QED  BY Zenon, <2>3, <2>4, <2>5
<1>6. CASE EndAll(c)
  <2>1. session' = session /\ refresh' \subseteq refresh
    BY Zenon, <1>6 DEF EndAll
  <2>2. \A s \in refresh' : session[s].root \in missed'
    BY Zenon, <1>6 DEF EndAll, TokensInv, Roots
  <2> QED  BY Zenon, <2>1, <2>2 DEF SessionsNeverFork
<1> QED  BY Zenon, <1>3, <1>4, <1>5, <1>6 DEF Quiet, Works, Rotate, LogoutBlock, Deactivate, Mark, OwnBlock,
            RecoverWipe, MarkAll, CreateDevice, SetPrimary, MarkUsed, DeleteRows, history, tokens

----------------------------------------------------------------------------
(* Devices out of service.                                                 *)

\* A turn deletes the account, or it keeps the rows there are, brings no inactive device
\* back, and gives an account without a user row no active device.
LEMMA RowsStep ==
    ASSUME TypeOK, CallsFit, NEW c \in Call, Quiet \/ Works(c)
    PROVE  \/ primary' = NoDevice /\ \A d \in Device : row'[d] # "active"
           \/ /\ primary' = NoDevice <=> primary = NoDevice
              /\ \A d \in Device :
                    /\ row[d] # "none" => row'[d] # "none"
                    /\ row[d] = "inactive" => row'[d] = "inactive"
                    /\ primary = NoDevice /\ row[d] # "active" => row'[d] # "active"
<1>1. CASE UNCHANGED << row, primary >>
  BY Zenon, <1>1
<1>2. CASE DeleteRows(c)
  BY <1>2 DEF DeleteRows
<1>3. CASE SetPrimary(c)
  <2>1. call[c].at = "pointer" /\ call[c].at # "idle"
    BY <1>3 DEF SetPrimary
  <2>2. call[c].op = "recover"
    BY Zenon, <2>1, AtStage, StageOps
  <2>3. call[c].dev \in Device /\ call[c].dev # NoDevice
    BY <2>1, <2>2, AtStage, SessionsAssumption
  <2>4. row' = row /\ primary' = IF primary = NoDevice THEN NoDevice ELSE call[c].dev
    BY Zenon, <1>3 DEF SetPrimary
  <2> QED  BY Zenon, <2>3, <2>4
<1>4. CASE Deactivate(c)
  <2>1. primary' = primary /\ row' = [row EXCEPT ![call[c].dev] = IF @ = "active" THEN "inactive" ELSE @]
    BY Zenon, <1>4 DEF Deactivate
  <2> QED  BY <2>1 DEF TypeOK
<1>5. CASE RecoverWipe(c)
  BY <1>5 DEF RecoverWipe, TypeOK
<1>6. CASE CreateDevice(c) /\ row' # row
  <2>1. /\ primary' = primary /\ primary # NoDevice /\ row[call[c].dev] = "none"
        /\ row' = [row EXCEPT ![call[c].dev] = "active"]
    BY Zenon, <1>6 DEF CreateDevice
  <2> QED  BY <2>1 DEF TypeOK
<1> QED  BY Zenon, <1>1, <1>2, <1>3, <1>4, <1>5, <1>6 DEF Quiet, Works, Rotate, Store, LogoutBlock, EndAll,
            Mark, OwnBlock, MarkAll, CreateDevice, MarkUsed, db

\* What a turn marks is marked for as long as a token minted now lives, and is out of service.
LEMMA MarksStep ==
    ASSUME TypeOK, CallsFit, RevocationsHold, NEW c \in Call, Quiet \/ Works(c)
    PROVE  /\ \A d \in Device : marker'[d] \in {marker[d], now + AccessTtl}
           /\ \A d \in Device : d \in gone' =>
                 d \in gone \/ (marker'[d] = now + AccessTtl /\ (row[d] = "inactive" \/ primary = NoDevice))
           /\ gone' # gone => UNCHANGED << row, primary >>
<1>1. CASE UNCHANGED << marker, gone >>
  BY Zenon, <1>1
<1>2. CASE Mark(c) /\ gone' = gone \cup {call[c].dev}
  <2>1. \/ call[c].at = "mark" /\ marker' = [marker EXCEPT ![call[c].dev] = now + AccessTtl]
        \/ UNCHANGED << marker, gone >>
    BY Zenon, <1>2 DEF Mark
  <2>2. UNCHANGED << row, primary >>
    BY Zenon, <1>2 DEF Mark, db
  <2>3. CASE call[c].at = "mark" /\ marker' = [marker EXCEPT ![call[c].dev] = now + AccessTtl]
    <3>1. row[call[c].dev] = "inactive" \/ primary = NoDevice
      BY Zenon, <2>3 DEF RevocationsHold
    <3>2. DOMAIN marker = Device
      BY DEF TypeOK
    <3> QED  BY Zenon, <1>2, <2>2, <2>3, <3>1, <3>2
  <2> QED  BY Zenon, <1>1, <2>1, <2>3
<1>3. CASE MarkAll(c)
  <2>1. UNCHANGED << row, primary >>
    BY Zenon, <1>3 DEF MarkAll, db
  <2>2. PICK marked \in SUBSET Listed :
             /\ marker' = [d \in Device |-> IF d \in marked THEN now + AccessTtl ELSE marker[d]]
             /\ gone' = IF call[c].op = "recover" /\ marked = Listed
                        THEN gone \cup {d \in Listed : row[d] = "inactive"} ELSE gone
    BY Zenon, <1>3 DEF MarkAll
  <2>3. \A d \in Device : marker'[d] = IF d \in marked THEN now + AccessTtl ELSE marker[d]
    BY Zenon, <2>2
  <2> QED  BY Zenon, <2>1, <2>2, <2>3
<1> QED  BY Zenon, <1>1, <1>2, <1>3 DEF Quiet, Works, Rotate, Store, LogoutBlock, EndAll, Deactivate, Mark,
            OwnBlock, RecoverWipe, CreateDevice, SetPrimary, MarkUsed, DeleteRows, history

\* A device that was marked, or is about to be, stays out of service.
LEMMA RevocationsStep ==
    ASSUME TypeOK, CallsFit, RevocationsHold, NEW c \in Call, Turn(c), Quiet \/ Works(c)
    PROVE  RevocationsHold'
<1>1. primary' = NoDevice => \A d \in Device : row'[d] # "active"
  BY Zenon, RowsStep DEF RevocationsHold
<1>2. \A d \in gone' : row'[d] = "inactive" \/ primary' = NoDevice
  <2>1. gone' \subseteq Device /\ gone \subseteq Device
    BY Zenon, TypeStep DEF TypeOK
  <2>2. \A d \in gone : row'[d] = "inactive" \/ primary' = NoDevice
    BY Zenon, <2>1, RowsStep DEF RevocationsHold
  <2>3. \A d \in gone' : d \notin gone => row'[d] = "inactive" \/ primary' = NoDevice
    BY Zenon, <2>1, MarksStep
  <2> QED  BY Zenon, <2>2, <2>3
<1>3. ASSUME NEW k \in Call, call[k].at \in {"block", "user", "deact", "mark"}
      PROVE  call[k].dev \in Device
  <2>1. call[k].at # "idle"
    BY <1>3
  <2>2. call[k].op \in {"logout", "logoutAll", "revoke"}
    BY <1>3, <2>1, AtStage, StageOps
  <2> QED  BY <2>1, <2>2, AtStage
<1>4. ASSUME NEW k \in Call, k # c
      PROVE  /\ call'[k].at \in {"block", "user", "deact"} => row'[call'[k].dev] # "none" \/ primary' = NoDevice
             /\ call'[k].at = "mark" => row'[call'[k].dev] = "inactive" \/ primary' = NoDevice
  <2>1. call'[k] = call[k]
    BY Zenon, <1>4 DEF Turn, OthersStay, TypeOK
  <2> QED  BY Zenon, <1>3, <2>1, RowsStep DEF RevocationsHold
<1>5. /\ call'[c].at \in {"block", "user", "deact"} => row'[call'[c].dev] # "none" \/ primary' = NoDevice
      /\ call'[c].at = "mark" => row'[call'[c].dev] = "inactive" \/ primary' = NoDevice
  <2>1. CASE Begins(c)
    <3>1. call'[c].at \in StagesOf[call'[c].op] /\ call'[c].op \in Ops
      BY Zenon, <2>1 DEF Begins, Fits
    <3>2. CASE call'[c].at \in {"block", "user"}
      <4>1. call'[c].op # "delete"
        BY <3>1, <3>2, StageOps
      <4>2. call'[c].dev \in Device
        BY Zenon, <2>1, <4>1 DEF Begins, Fits
      <4>3. row[call'[c].dev] # "none"
        BY Zenon, <2>1, <3>2 DEF Begins
      <4> QED  BY <3>2, <4>2, <4>3, RowsStep
    <3> QED  BY Zenon, <2>1, <3>2 DEF Begins
  <2>2. CASE Goes(c)
    <3>1. CASE call'[c].at \in {"user", "deact"}
      <4>1. call[c].at \in {"block", "user"} /\ call'[c].dev = call[c].dev
        BY Zenon, <2>2, <3>1 DEF Goes
      <4>2. row[call[c].dev] # "none" \/ primary = NoDevice
        BY Zenon, <4>1 DEF RevocationsHold
      <4>3. call[c].dev \in Device
        BY Zenon, <1>3, <4>1
      <4>4. row'[call[c].dev] # "none" \/ primary' = NoDevice
        BY Zenon, <4>2, <4>3, RowsStep
      <4> QED  BY <3>1, <4>1, <4>4
    <3>2. CASE call'[c].at = "mark"
      <4>1. Deactivate(c) /\ call'[c].dev = call[c].dev
        BY Zenon, <2>2, <3>2 DEF Goes
      <4>2. /\ call[c].at = "deact" /\ primary' = primary
            /\ row' = [row EXCEPT ![call[c].dev] = IF @ = "active" THEN "inactive" ELSE @]
        BY Zenon, <4>1 DEF Deactivate
      <4>3. row[call[c].dev] # "none" \/ primary = NoDevice
        BY Zenon, <4>2 DEF RevocationsHold
      <4>4. call[c].dev \in Device
        BY Zenon, <1>3, <4>2
      <4>5. row'[call[c].dev] = "inactive" \/ primary' = NoDevice
        BY <4>2, <4>3, <4>4 DEF TypeOK
      <4> QED  BY <3>2, <4>1, <4>5
    <3> QED  BY Zenon, <2>2, <3>1, <3>2 DEF Goes
  <2>3. CASE Returns(c)
    BY <2>3 DEF Returns, Idle
  <2> QED  BY Zenon, <2>1, <2>2, <2>3 DEF Turn
<1> QED  BY Zenon, <1>1, <1>2, <1>4, <1>5 DEF RevocationsHold

\* The markers keep up with the tokens: a token of a marked device is older than the marker,
\* or was minted when the device was out of service already.
LEMMA MarkersStep ==
    ASSUME TypeOK, CallsFit, RevocationsHold, MarkersInv, NEW c \in Call, Turn(c), Quiet \/ Works(c)
    PROVE  MarkersInv'
<1>1. now' = now
  BY Zenon DEF Quiet, Works, Rotate, Store, LogoutBlock, EndAll, Deactivate, Mark, OwnBlock, RecoverWipe,
     MarkAll, CreateDevice, SetPrimary, MarkUsed, DeleteRows
<1> DEFINE till == now + AccessTtl
<1>2. /\ till \in Nat /\ till <= till
      /\ \A d \in Device : marker[d] \in Nat /\ marker[d] <= till
      /\ \A s \in DOMAIN session : session[s].exp \in Nat /\ session[s].exp <= till
  BY SMTT(60), SessionShape, SessionsAssumption DEF MarkersInv, TypeOK
<1>3. \A d \in Device : marker'[d] <= till /\ marker[d] <= marker'[d]
  BY <1>2, MarksStep
<1>4. \A s \in DOMAIN session : session'[s].dev = session[s].dev /\ session'[s].exp = session[s].exp
                                /\ session'[s].late = session[s].late /\ session[s].dev \in Device
  BY Zenon, SessionSteps, SessionShape DEF SessionsKept
<1>5. \A s \in DOMAIN session :
          session[s].dev \in gone' /\ ~session[s].late => session[s].exp <= marker'[session[s].dev]
  <2> SUFFICES ASSUME NEW s \in DOMAIN session, session[s].dev \in gone', ~session[s].late
               PROVE  session[s].exp <= marker'[session[s].dev]
    OBVIOUS
  <2>1. CASE session[s].dev \in gone
    <3>1. session[s].exp <= marker[session[s].dev]
      BY Zenon, <2>1 DEF MarkersInv
    <3>2. marker'[session[s].dev] \in Nat
      BY <1>2, <1>4, MarksStep
    <3> QED  BY <1>2, <1>3, <1>4, <3>1, <3>2
  <2>2. CASE session[s].dev \notin gone
    BY Zenon, <1>2, <1>4, <2>2, MarksStep
  <2> QED  BY Zenon, <2>1, <2>2
<1> HIDE DEF till
<1>6. CASE DOMAIN session' = DOMAIN session
  BY Zenon, <1>1, <1>2, <1>3, <1>4, <1>5, <1>6 DEF MarkersInv, till
<1>7. CASE Appeared(c)
  <2>1. call[c].dev \in gone => session'[New].late
    <3>1. CASE call[c].dev \in gone
      <4>1. call[c].dev \in Device
        BY Zenon, <3>1 DEF TypeOK
      <4>2. row[call[c].dev] # "active"
        BY <3>1, <4>1 DEF RevocationsHold
      <4> QED  BY Zenon, <1>7, <4>2 DEF Appeared
    <3> QED  BY Zenon, <3>1
  <2>2. /\ DOMAIN session' = DOMAIN session \cup {New} /\ session'[New].exp = till
        /\ session'[New].dev = call[c].dev /\ gone' = gone
    BY Zenon, <1>7 DEF Appeared, till
  <2> QED  BY Zenon, <1>1, <1>2, <1>3, <1>4, <1>5, <2>1, <2>2 DEF MarkersInv, till
<1> QED  BY Zenon, <1>6, <1>7, SessionSteps

----------------------------------------------------------------------------
(* The primary device.                                                     *)

\* No turn takes the primary device out or decides to, unless it deletes the account or
\* recovers it.
LEMMA PrimaryStep ==
    ASSUME TypeOK, CallsFit, PrimaryInv, NEW c \in Call, Turn(c), Quiet \/ Works(c)
    PROVE  PrimaryInv'
<1>1. \A k \in Call : k # c => call'[k] = call[k]
  BY Zenon DEF Turn, OthersStay, TypeOK
<1>2. call'[c].at = "deact" => primary # NoDevice /\ primary # call'[c].dev
  <2>1. CASE Returns(c)
    BY <2>1 DEF Returns, Idle
  <2> QED  BY Zenon, <2>1 DEF Turn, Begins, Goes
<1>3. CASE RecoverWipe(c) \/ DeleteRows(c)
  BY Zenon, <1>3 DEF RecoverWipe, DeleteRows, PrimaryInv
<1>4. CASE SetPrimary(c)
  <2>1. CASE primary' = NoDevice \/ ~NewPrimaryStands(c)
    BY Zenon, <1>4, <2>1 DEF SetPrimary, PrimaryInv
  <2>2. CASE primary' # NoDevice /\ NewPrimaryStands(c)
    <3>1. primary' = call[c].dev /\ row' = row /\ Goto(c, "store")
      BY Zenon, <1>4, <2>2 DEF SetPrimary
    <3>2. call'[c].at # "deact"
      BY <3>1 DEF Goto, TypeOK
    <3> QED  BY Zenon, <1>1, <2>2, <3>1, <3>2 DEF NewPrimaryStands, PrimaryInv
  <2> QED  BY Zenon, <2>1, <2>2
<1>5. CASE UNCHANGED << primary, broken >>
  <2>1. CASE primary = NoDevice \/ broken
    BY Zenon, <1>5, <2>1 DEF PrimaryInv
  <2>2. CASE primary # NoDevice /\ ~broken
    <3>1. /\ primary \in Device /\ row[primary] = "active"
          /\ \A k \in Call : ~(call[k].at = "deact" /\ call[k].dev = primary)
      BY Zenon, <2>2 DEF PrimaryInv, TypeOK
    <3>2. \A k \in Call : ~(call'[k].at = "deact" /\ call'[k].dev = primary)
      BY Zenon, <1>1, <1>2, <3>1
    <3>3. row'[primary] = "active"
      <4>1. CASE row' = row
        BY Zenon, <3>1, <4>1
      <4>2. CASE Deactivate(c)
        <5>1. call[c].dev # primary
          BY Zenon, <3>1, <4>2 DEF Deactivate
        <5> QED  BY <3>1, <4>2, <5>1 DEF Deactivate, TypeOK
      <4>3. CASE CreateDevice(c) /\ row' = [row EXCEPT ![call[c].dev] = "active"]
        BY <3>1, <4>3 DEF TypeOK
      <4>4. CASE RecoverWipe(c) \/ DeleteRows(c)
        BY Zenon, <1>5, <2>2, <4>4 DEF RecoverWipe, DeleteRows
      <4> QED  BY Zenon, <4>1, <4>2, <4>3, <4>4 DEF Quiet, Works, Rotate, Store, LogoutBlock, EndAll, Mark,
                  OwnBlock, MarkAll, CreateDevice, SetPrimary, MarkUsed, db
    <3> QED  BY Zenon, <1>5, <3>2, <3>3 DEF PrimaryInv
  <2> QED  BY Zenon, <2>1, <2>2
<1> QED  BY Zenon, <1>3, <1>4, <1>5 DEF Quiet, Works, Rotate, Store, LogoutBlock, EndAll, Deactivate, Mark,
            OwnBlock, MarkAll, CreateDevice, MarkUsed, db, history

----------------------------------------------------------------------------
(* The theorems.                                                           *)

\* Two devices, one of them with a session, and no calls.
LEMMA SessionsInit ==
    ASSUME Init
    PROVE  SessionsInv
<1> DEFINE first == [dev |-> Linked, exp |-> AccessTtl, root |-> 1, late |-> FALSE, out |-> TRUE]
<1>1. first \in SessionRec /\ first.root = 1 /\ first.exp = AccessTtl /\ first.dev = Linked
  BY SessionsAssumption DEF SessionRec, Id
<1>2. session = << first >>
  BY Zenon DEF Init
<1> HIDE DEF first
<1>3. /\ session \in Seq(SessionRec) /\ Len(session) = 1 /\ DOMAIN session = {1} /\ session[1] = first
  BY <1>1, <1>2
<1>4. Idle \in CallRec /\ Idle.op = "idle" /\ Idle.at = "idle" /\ Idle.old = {} /\ Idle.op \notin Ops
  BY SessionsAssumption DEF Idle, CallRec, Ops
<1>5. call \in [Call -> CallRec] /\ \A c \in Call : call[c] = Idle
  BY Zenon, <1>4 DEF Init
<1>6. TypeOK
  <2>1. /\ now \in 0..MaxNow /\ faults \in 0..MaxFaults /\ Len(session) <= MaxSessions
        /\ marker \in [Device -> 0..(MaxNow + AccessTtl)]
    BY <1>3, SessionsAssumption DEF Init
  <2>2. /\ row \in [Device -> {"none", "active", "inactive"}] /\ primary \in Device \cup {NoDevice}
        /\ refresh \subseteq DOMAIN session /\ index \subseteq DOMAIN session /\ blocked \subseteq DOMAIN session
    BY <1>3, SessionsAssumption DEF Init
  <2>3. ticket \subseteq Tickets /\ cooldown \in BOOLEAN /\ broken \in BOOLEAN /\ gone \subseteq Device
        /\ ended \subseteq Id /\ missed \subseteq Id
    BY Zenon DEF Init
  <2> QED  BY Zenon, <1>3, <1>5, <2>1, <2>2, <2>3 DEF TypeOK, SessionRec, CallRec
<1>7. CallsFit
  BY Zenon, <1>4, <1>5 DEF CallsFit, Fits
<1>8. TokensInv
  <2>1. \A s \in DOMAIN session : session[s].root <= s
    BY <1>1, <1>3
  <2>2. refresh = index /\ ended = {}
    BY Zenon DEF Init
  <2> QED  BY Zenon, <1>4, <1>5, <2>1, <2>2 DEF TokensInv
<1>9. SessionsNeverFork /\ LogoutAllEnds
  BY Zenon DEF Init, SessionsNeverFork, LogoutAllEnds
<1>10. RevocationsHold
  <2>1. primary # NoDevice /\ gone = {}
    BY Zenon, SessionsAssumption DEF Init
  <2>2. \A c \in Call : call[c].at \notin {"block", "user", "deact", "mark"}
    BY <1>4, <1>5
  <2> QED  BY Zenon, <2>1, <2>2 DEF RevocationsHold
<1>11. MarkersInv
  <2>1. \A s \in DOMAIN session : session[s].exp <= now + AccessTtl
    BY <1>1, <1>3, SessionsAssumption DEF Init
  <2>2. \A d \in Device : marker[d] <= now + AccessTtl
    BY SessionsAssumption DEF Init
  <2>3. gone = {}
    BY Zenon DEF Init
  <2> QED  BY Zenon, <2>1, <2>2, <2>3 DEF MarkersInv
<1>12. PrimaryInv
  <2>1. row[primary] = "active"
    BY Zenon, SessionsAssumption DEF Init
  <2>2. \A c \in Call : call[c].at # "deact"
    BY <1>4, <1>5
  <2> QED  BY Zenon, <2>1, <2>2 DEF PrimaryInv
<1> QED  BY Zenon, <1>6, <1>7, <1>8, <1>9, <1>10, <1>11, <1>12 DEF SessionsInv

\* Steps of no call, the clock's among them, change none of what the invariant relates.
LEMMA IdleSteps ==
    ASSUME SessionsInv, Tick \/ (Quiet /\ call' = call) \/ UNCHANGED vars
    PROVE  SessionsInv'
<1>1. /\ UNCHANGED << row, primary, marker, session, refresh, index, blocked, cooldown, call, broken, gone,
                      ended, missed >>
      /\ ticket' \subseteq Tickets
  BY Zenon DEF Tick, Quiet, vars, SessionsInv, TypeOK
<1>2. now' \in 0..MaxNow /\ faults' \in 0..MaxFaults /\ now <= now'
  BY SessionsAssumption DEF Tick, Quiet, vars, SessionsInv, TypeOK
<1>3. TypeOK'
  BY Zenon, <1>1, <1>2 DEF SessionsInv, TypeOK
<1>4. CallsFit' /\ TokensInv' /\ SessionsNeverFork' /\ LogoutAllEnds' /\ RevocationsHold' /\ PrimaryInv'
  BY Zenon, <1>1 DEF SessionsInv, CallsFit, Fits, TokensInv, SessionsNeverFork, LogoutAllEnds, RevocationsHold,
     PrimaryInv
<1>5. MarkersInv'
  <2>1. /\ now \in Nat /\ now' \in Nat /\ AccessTtl \in Nat
        /\ \A s \in DOMAIN session : session[s].exp \in Nat
        /\ \A d \in Device : marker[d] \in Nat
    <3>1. TypeOK
      BY Zenon DEF SessionsInv
    <3>2. \A s \in DOMAIN session : session[s].exp \in Nat
      BY Zenon, <3>1, SessionShape
    <3> QED  BY <1>2, <3>1, <3>2, SessionsAssumption DEF TypeOK
  <2>2. /\ \A s \in DOMAIN session : session[s].exp <= now' + AccessTtl
        /\ \A d \in Device : marker[d] <= now' + AccessTtl
    BY <1>2, <2>1 DEF SessionsInv, MarkersInv
  <2> QED  BY Zenon, <1>1, <2>2 DEF SessionsInv, MarkersInv
<1> QED  BY Zenon, <1>3, <1>4, <1>5 DEF SessionsInv

\* The invariant holds in every reachable state.
THEOREM SessionsAlways == Spec => []SessionsInv
<1>1. Init => SessionsInv
  BY Zenon, SessionsInit
<1>2. SessionsInv /\ [Next]_vars => SessionsInv'
  <2> SUFFICES ASSUME SessionsInv, [Next]_vars  PROVE SessionsInv'
    OBVIOUS
  <2>1. TypeOK /\ CallsFit
    BY Zenon DEF SessionsInv
  <2>2. ASSUME NEW c \in Call, Turn(c), Quiet \/ Works(c)  PROVE SessionsInv'
    BY Zenon, <2>1, <2>2, TypeStep, TokensStep, RevocationsStep, MarkersStep, PrimaryStep DEF SessionsInv
  <2> QED  BY Zenon, <2>1, <2>2, NextKinds, IdleSteps
<1> QED  BY <1>1, <1>2, PTL DEF Spec

\* A login has one live refresh token, whatever rotates it and whatever is lost.
THEOREM OneTokenPerLogin == Spec => []SessionsNeverFork
<1>1. SessionsInv => SessionsNeverFork
  BY Zenon DEF SessionsInv
<1> QED  BY <1>1, SessionsAlways, PTL

\* What a logout from all devices or a completed revocation ended stays ended: a token the
\* marker does not outlive has expired, or was minted when the device was out already.
THEOREM EndedForGood == Spec => []EndedStaysEnded
<1>1. SessionsInv => EndedStaysEnded
  <2> SUFFICES ASSUME SessionsInv, NEW s \in DOMAIN session, session[s].dev \in gone, ~session[s].late,
                      session[s].exp > now
               PROVE  ~(marker[session[s].dev] <= now)
    BY Zenon DEF SessionsInv, EndedStaysEnded, RevokedStaysOut, Admitted
  <2>1. session[s].exp <= marker[session[s].dev]
    BY Zenon DEF SessionsInv, MarkersInv
  <2>2. session[s].exp \in Nat /\ marker[session[s].dev] \in Nat /\ now \in Nat
    <3>1. TypeOK
      BY Zenon DEF SessionsInv
    <3>2. session[s].exp \in Nat /\ session[s].dev \in Device
      BY Zenon, <3>1, SessionShape
    <3> QED  BY <3>1, <3>2, SessionsAssumption DEF TypeOK
  <2> QED  BY <2>1, <2>2
<1> QED  BY <1>1, SessionsAlways, PTL

\* The device users.primary_device_id names is in service, outside of a recovery.
THEOREM PrimaryInService == Spec => []PrimaryStaysActive
<1>1. SessionsInv => PrimaryStaysActive
  BY Zenon DEF SessionsInv, PrimaryInv, PrimaryStaysActive
<1> QED  BY <1>1, SessionsAlways, PTL

=============================================================================
