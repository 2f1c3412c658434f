------------------------------ MODULE Sessions ------------------------------
(***************************************************************************)
(* The sessions of one account in the identity service.  A session is the  *)
(* pair of tokens minted by one call: an access token, good until it       *)
(* expires, and a refresh token, good while Redis holds its key.  Three    *)
(* stores say what a session is still worth and no transaction spans them: *)
(*   - the devices table and users.primary_device_id, in PostgreSQL;       *)
(*   - refresh_token:{jti} with the per-user index user_tokens:{user}, and *)
(*     the blocklist invalidated_token:{jti}, in Redis;                    *)
(*   - revoked_device:{device}, a Redis key with a time to live, which is  *)
(*     all that the messaging service reads.                               *)
(* Every handler is a sequence of single accesses to one store; between    *)
(* two of them other handlers run, the clock moves, or the call is dropped.*)
(* The queue mutex of the process makes each Redis helper one step.        *)
(***************************************************************************)
EXTENDS Integers, Sequences, FiniteSets

CONSTANTS Device,      \* device identifiers of the account, used and unused
          First,       \* the device that registered the account
          Linked,      \* a device linked and signed in when the behaviour starts
          NoDevice,    \* users.primary_device_id when the user row is gone
          Call,        \* bound: the calls made, each of them once
          MaxOpen,     \* bound: calls in progress at once
          AccessTtl,   \* lifetime of an access token, in ticks
          MaxNow,      \* bound: the clock
          MaxSessions, \* bound: sessions minted
          MaxFaults    \* bound: store errors and dropped calls

ASSUME SessionsAssumption ==
    /\ First \in Device /\ Linked \in Device /\ First # Linked
    /\ NoDevice \notin Device
    /\ AccessTtl \in Nat \ {0} /\ MaxNow \in Nat
    /\ MaxSessions \in Nat \ {0} /\ MaxFaults \in Nat /\ MaxOpen \in Nat

VARIABLES
    now,        \* the servers' clock
    row,        \* devices.is_active, "none" when there is no row
    primary,    \* users.primary_device_id
    marker,     \* when revoked_device:{d} expires; 0 when never set
    session,    \* every session minted, in order
    refresh,    \* sessions whose refresh_token key exists
    index,      \* members of user_tokens
    blocked,    \* sessions whose access token is in the blocklist
    ticket,     \* link tokens and join requests not yet consumed
    cooldown,   \* last_recovery_at is set: no recovery for seven days
    call,       \* the calls in progress
    broken,     \* history: a recovery took the devices out and has not named a new primary
    gone,       \* history: devices whose revocation was completed
    ended,      \* history: roots of the sessions a logout-all answered for
    missed,     \* history: roots whose revocation met a Redis error
    faults

vars == << now, row, primary, marker, session, refresh, index, blocked, ticket,
           cooldown, call, broken, gone, ended, missed, faults >>
db == << row, primary, cooldown >>
tokens == << refresh, index, blocked >>
history == << broken, gone, ended, missed >>

Tickets == {"link", "join"}
Ops == {"auth", "refresh", "logout", "logoutAll", "revoke", "recover", "link", "delete"}
Stages == {"store", "rotate", "block", "user", "deact", "mark", "own", "wipe",
           "markall", "endall", "create", "pointer", "used", "rows"}
Id == 1..MaxSessions
Idle == [op |-> "idle", at |-> "idle", by |-> 0, dev |-> NoDevice, did |-> FALSE,
         old |-> {}]

\* Every variable has the shape its declaration says.
TypeOK ==
    /\ now \in 0..MaxNow /\ faults \in 0..MaxFaults
    /\ row \in [Device -> {"none", "active", "inactive"}]
    /\ primary \in Device \cup {NoDevice}
    /\ marker \in [Device -> 0..(MaxNow + AccessTtl)]
    /\ session \in Seq([dev : Device, exp : 0..(MaxNow + AccessTtl), root : Id,
                        late : BOOLEAN, out : BOOLEAN])
    /\ Len(session) <= MaxSessions
    /\ refresh \subseteq DOMAIN session /\ index \subseteq DOMAIN session
    /\ blocked \subseteq DOMAIN session
    /\ ticket \subseteq Tickets /\ cooldown \in BOOLEAN
    /\ call \in [Call -> [op : Ops \cup {"idle", "done"}, at : Stages \cup {"idle"},
                          by : 0..MaxSessions, dev : Device \cup {NoDevice},
                          did : BOOLEAN, old : SUBSET Id]]
    /\ broken \in BOOLEAN /\ gone \subseteq Device
    /\ ended \subseteq Id /\ missed \subseteq Id

Init ==
    /\ now = 0 /\ faults = 0
    /\ row = [d \in Device |-> IF d \in {First, Linked} THEN "active" ELSE "none"]
    /\ primary = First
    /\ marker = [d \in Device |-> 0]
    /\ session = << [dev |-> Linked, exp |-> AccessTtl, root |-> 1, late |-> FALSE, out |-> TRUE] >>
    /\ refresh = {1} /\ index = {1} /\ blocked = {}
    /\ ticket = {} /\ cooldown = FALSE
    /\ call = [c \in Call |-> Idle]
    /\ broken = FALSE /\ gone = {} /\ ended = {} /\ missed = {}

-----------------------------------------------------------------------------
\* The sessions a client holds: their call answered with them.
Out == {s \in DOMAIN session : session[s].out}

\* What every service but messaging asks of a token that verifies.
Standing(s) ==
    /\ session[s].exp > now
    /\ s \notin blocked
    /\ row[session[s].dev] = "active"

\* What messaging asks: the blocklist and the marker, never the row.
Admitted(s) ==
    /\ session[s].exp > now
    /\ s \notin blocked
    /\ marker[session[s].dev] <= now

\* Identifiers a new device may present: generated by the client, unused.
Fresh == Device \ {First, Linked}

Roots(S) == {session[s].root : s \in S}

Begin(c, op, at, by, d) ==
    /\ call[c].op = "idle"
    /\ Cardinality({k \in Call : call[k].op \in Ops}) < MaxOpen
    /\ call' = [call EXCEPT ![c] = [op |-> op, at |-> at, by |-> by, dev |-> d,
                                    did |-> FALSE,
                                    old |-> IF op \in {"logoutAll", "recover"}
                                            THEN Roots(refresh) ELSE {}]]

Goto(c, at) == call' = [call EXCEPT ![c].at = at]
Return(c) == call' = [call EXCEPT ![c] = [Idle EXCEPT !.op = "done"]]
Fault == faults < MaxFaults /\ faults' = faults + 1

Tick ==
    /\ now < MaxNow
    /\ now' = now + 1
    /\ UNCHANGED << row, primary, marker, session, refresh, index, blocked, ticket, cooldown,
                    call, broken, gone, ended, missed, faults >>

\* The connection went away and the handler's future is dropped where it
\* waits, or PostgreSQL failed and the handler returns the error.
Drop(c) ==
    /\ call[c].op \in Ops
    /\ Fault /\ Return(c)
    /\ UNCHANGED << now, marker, session, ticket, db, tokens, history >>

-----------------------------------------------------------------------------
(* Getting a session: AuthenticateDevice, RefreshToken, and the end of the *)
(* calls that add a device.                                                *)

AuthLookup(c, d) ==
    /\ row[d] = "active"
    /\ Begin(c, "auth", "store", 0, d)
    /\ UNCHANGED << now, marker, session, ticket, db, tokens, history, faults >>

RefreshLookup(c, s) ==
    /\ s \in Out
    /\ row[session[s].dev] = "active"
    /\ Begin(c, "refresh", "rotate", s, session[s].dev)
    /\ UNCHANGED << now, marker, session, ticket, db, tokens, history, faults >>

\* Both tokens are signed in memory, from the clock and the device of the
\* request, just before Redis is written; late: the row is no longer active.
Minted(c, root, out) ==
    [dev |-> call[c].dev, exp |-> now + AccessTtl, root |-> root,
     late |-> row[call[c].dev] # "active", out |-> out]

New == Len(session) + 1
Mint(c, root, out) == New <= MaxSessions /\ session' = Append(session, Minted(c, root, out))

\* Mutant of Rotated: the script forgets the DEL of the old key.
RotatedKeepsOld(old, new) ==
    /\ refresh' = refresh \cup {new}
    /\ index' = index \cup {new}

\* The whole rotation is one script: the old key goes, the new key and its
\* index entry come.  Its answer may be lost after it ran.
Rotated(old, new) ==
    /\ refresh' = (refresh \ {old}) \cup {new}
    /\ index' = index \cup {new}

Rotate(c) ==
    LET old == call[c].by
        mint(out) == Mint(c, session[old].root, out)
    IN
    /\ call[c].at = "rotate"
    /\ Return(c)
    /\ \/ old \in refresh /\ Rotated(old, New) /\ mint(TRUE) /\ UNCHANGED faults
       \/ old \notin refresh /\ UNCHANGED << refresh, index, session, faults >>
       \/ Fault /\ UNCHANGED << refresh, index, session >>
       \/ Fault /\ old \in refresh /\ Rotated(old, New) /\ mint(FALSE)
    /\ UNCHANGED << now, marker, blocked, ticket, db, history >>

\* store_refresh_token sets the key, then the index.  The calls that log its
\* failure still hand the tokens out; linking a device answers with an error.
Store(c) ==
    LET failed == faults' # faults IN
    /\ call[c].at = "store"
    /\ \/ /\ refresh' = refresh \cup {New}
          /\ index' = index \cup {New}
          /\ UNCHANGED << missed, faults >>
       \/ /\ Fault
          /\ UNCHANGED << refresh, index, missed >>
       \/ /\ Fault
          /\ refresh' = refresh \cup {New}
          /\ missed' = missed \cup {New}
          /\ UNCHANGED index
    /\ Mint(c, New, call[c].op = "auth" \/ (call[c].op = "link" /\ ~failed))
    /\ IF call[c].op = "recover"
       THEN call' = [call EXCEPT ![c].at = "used", ![c].by = New]
       ELSE Return(c)
    /\ UNCHANGED << now, marker, blocked, ticket, db, broken, gone, ended >>

-----------------------------------------------------------------------------
(* Ending sessions: Logout and RevokeDevice.                               *)

\* The token in the request body is checked against its device's row.
LogoutStart(c, s, op) ==
    /\ s \in Out /\ session[s].exp > now /\ row[session[s].dev] = "active"
    /\ Begin(c, op, "block", s, session[s].dev)
    /\ UNCHANGED << now, marker, session, ticket, db, tokens, history, faults >>

\* The access token goes to the blocklist for the rest of its life, or the
\* logout fails.
LogoutBlock(c) ==
    /\ call[c].at = "block"
    /\ \/ /\ blocked' = blocked \cup (IF session[call[c].by].exp > now THEN {call[c].by} ELSE {})
          /\ Goto(c, IF call[c].op = "logoutAll" THEN "endall" ELSE "user")
          /\ UNCHANGED faults
       \/ Fault /\ Return(c) /\ UNCHANGED blocked
    /\ UNCHANGED << now, marker, session, refresh, index, ticket, db, history >>

AfterEndAll(c) ==
    CASE call[c].op = "logoutAll" -> Return(c)
      [] call[c].op = "recover" -> Goto(c, "create")
      [] call[c].op = "delete" -> Goto(c, "rows")

\* Reads the index, deletes each key, then the index.  An error of any of the
\* three is replaced by a default, and the answer is success all the same.
EndAll(c) ==
    /\ call[c].at = "endall"
    /\ ended' = IF call[c].op = "delete" THEN ended ELSE ended \cup call[c].old
    /\ \/ /\ refresh' = refresh \ index /\ index' = {}
          /\ UNCHANGED << missed, faults >>
       \/ \E kept \in SUBSET (refresh \cap index), left \in {{}, index} :
             /\ Fault
             /\ refresh' = (refresh \ index) \cup kept /\ index' = left
             /\ missed' = missed \cup Roots(kept)
    /\ AfterEndAll(c)
    /\ UNCHANGED << now, marker, session, blocked, ticket, db, broken, gone >>

\* The layer in front of identity has checked the caller's session; the row
\* named by the request exists and is the caller's.
RevokeStart(c, s, d) ==
    /\ s \in Out /\ Standing(s)
    /\ row[d] # "none"
    /\ Begin(c, "revoke", "user", s, d)
    /\ UNCHANGED << now, marker, session, ticket, db, tokens, history, faults >>

\* Mutant of ReadUser: the primary device is not refused.
ReadUserAnyDevice(c) ==
    /\ call[c].at = "user"
    /\ IF primary = NoDevice THEN Return(c) ELSE Goto(c, "deact")
    /\ UNCHANGED << now, marker, session, ticket, db, tokens, history, faults >>

\* deactivate_device_unless_primary: no user and the primary device are
\* answers of their own and change nothing.
ReadUser(c) ==
    /\ call[c].at = "user"
    /\ IF primary \in {NoDevice, call[c].dev} THEN Return(c) ELSE Goto(c, "deact")
    /\ UNCHANGED << now, marker, session, ticket, db, tokens, history, faults >>

Deactivate(c) ==
    LET d == call[c].dev IN
    /\ call[c].at = "deact"
    /\ row' = [row EXCEPT ![d] = IF @ = "active" THEN "inactive" ELSE @]
    /\ call' = [call EXCEPT ![c].at = "mark", ![c].did = (row[d] = "active")]
    /\ UNCHANGED << now, primary, marker, session, ticket, cooldown, tokens, history, faults >>

\* Mutant of Mark: a retry that finds the row inactive returns before it.
MarkFirstTimeOnly(c) ==
    LET d == call[c].dev IN
    /\ call[c].at = "mark"
    /\ \/ /\ marker' = IF call[c].did THEN [marker EXCEPT ![d] = now + AccessTtl] ELSE marker
          /\ gone' = gone \cup {d}
          /\ UNCHANGED faults
       \/ Fault /\ UNCHANGED << marker, gone >>
    /\ Return(c)
    /\ UNCHANGED << now, session, ticket, db, tokens, broken, ended, missed >>

\* The marker is set whether or not this call deactivated the row.  The
\* session: keys cleared after it are read by nothing modelled; an error there
\* ends the call as Drop does.
Mark(c) ==
    LET d == call[c].dev
        own == call[c].op = "revoke" /\ call[c].did /\ session[call[c].by].dev = d
    IN
    /\ call[c].at = "mark"
    /\ \/ /\ marker' = [marker EXCEPT ![d] = now + AccessTtl]
          /\ gone' = gone \cup {d}
          /\ IF own THEN Goto(c, "own") ELSE Return(c)
          /\ UNCHANGED faults
       \/ Fault /\ Return(c) /\ UNCHANGED << marker, gone >>
    /\ UNCHANGED << now, session, ticket, db, tokens, broken, ended, missed >>

\* A device that revoked itself also loses the token it called with.
OwnBlock(c) ==
    /\ call[c].at = "own"
    /\ \/ blocked' = blocked \cup {call[c].by} /\ UNCHANGED faults
       \/ Fault /\ UNCHANGED blocked
    /\ Return(c)
    /\ UNCHANGED << now, marker, session, refresh, index, ticket, db, history >>

-----------------------------------------------------------------------------
(* The account as a whole: RecoverAccount, DeleteAccount.                  *)

\* The claim is verified and the cooldown read.  Bound: one recovery at a
\* time, the holder of the phrase on one new device.
RecoverVerify(c, d) ==
    /\ ~cooldown /\ primary # NoDevice
    /\ \A k \in Call : call[k].op # "recover"
    /\ Begin(c, "recover", "wipe", 0, d)
    /\ UNCHANGED << now, marker, session, ticket, db, tokens, history, faults >>

RecoverWipe(c) ==
    /\ call[c].at = "wipe"
    /\ row' = [d \in Device |-> IF row[d] = "active" THEN "inactive" ELSE row[d]]
    /\ broken' = TRUE
    /\ Goto(c, "markall")
    /\ UNCHANGED << now, primary, marker, session, ticket, cooldown, tokens, gone, ended,
                    missed, faults >>

Listed == {d \in Device : row[d] # "none"}

\* A marker for every device of the account.  An error stops the loop:
\* recovery fails there, deletion logs it and goes on.
MarkAll(c) ==
    /\ call[c].at = "markall"
    /\ \E marked \in SUBSET Listed :
          /\ marker' = [d \in Device |-> IF d \in marked THEN now + AccessTtl ELSE marker[d]]
          /\ \/ marked = Listed /\ UNCHANGED faults
             \/ marked # Listed /\ Fault
          /\ gone' = IF call[c].op = "recover" /\ marked = Listed
                     THEN gone \cup {d \in Listed : row[d] = "inactive"} ELSE gone
          /\ IF call[c].op = "recover" /\ marked # Listed
             THEN Return(c) ELSE Goto(c, "endall")
    /\ UNCHANGED << now, session, ticket, db, tokens, broken, ended, missed >>

\* Only a device_id that has no row, of a user that has one; a signed prekey
\* that does not verify is refused here, after the revocations of a recovery.
CreateDevice(c) ==
    LET d == call[c].dev IN
    /\ call[c].at = "create"
    /\ \/ /\ row[d] = "none" /\ primary # NoDevice
          /\ row' = [row EXCEPT ![d] = "active"]
          /\ Goto(c, IF call[c].op = "recover" THEN "pointer" ELSE "store")
       \/ Return(c) /\ UNCHANGED row
    /\ UNCHANGED << now, primary, marker, session, ticket, cooldown, tokens, history, faults >>

\* The new primary is in service, and no call has already decided, on the old
\* pointer, to take it out.
NewPrimaryStands(c) ==
    /\ row[call[c].dev] = "active"
    /\ \A k \in Call : ~(call[k].at = "deact" /\ call[k].dev = call[c].dev)

SetPrimary(c) ==
    /\ call[c].at = "pointer"
    /\ primary' = IF primary = NoDevice THEN NoDevice ELSE call[c].dev
    /\ broken' = ~NewPrimaryStands(c)
    /\ Goto(c, "store")
    /\ UNCHANGED << now, row, marker, session, ticket, cooldown, tokens, gone, ended, missed,
                    faults >>

MarkUsed(c) ==
    /\ call[c].at = "used"
    /\ cooldown' = (primary # NoDevice)
    /\ session' = [session EXCEPT ![call[c].by].out = TRUE]
    /\ Return(c)
    /\ UNCHANGED << now, row, primary, marker, ticket, tokens, history, faults >>

DeleteStart(c, s) ==
    /\ s \in Out /\ Standing(s) /\ primary # NoDevice
    /\ Begin(c, "delete", "markall", s, NoDevice)
    /\ UNCHANGED << now, marker, session, ticket, db, tokens, history, faults >>

\* Devices anchored in the key-transparency log keep an inactive row.
DeleteRows(c) ==
    /\ call[c].at = "rows"
    /\ \E anchored \in {{}, Listed} :
          row' = [d \in Device |-> IF d \in anchored THEN "inactive" ELSE "none"]
    /\ primary' = NoDevice
    /\ Return(c)
    /\ UNCHANGED << now, marker, session, ticket, cooldown, tokens, history, faults >>

-----------------------------------------------------------------------------
(* Adding a device: by a QR code shown on a device, or by a join request.  *)
(* Bound: one of either waits at a time.  That it expires is a token nobody *)
(* uses any more.                                                          *)

InitiateDeviceLink(s) ==
    /\ s \in Out /\ Standing(s)
    /\ ticket = {} /\ ticket' = {"link"}
    /\ UNCHANGED << now, marker, session, call, db, tokens, history, faults >>

SubmitJoinRequest(d) ==
    /\ row[d] = "none"
    /\ ticket = {} /\ ticket' = {"join"}
    /\ UNCHANGED << now, marker, session, call, db, tokens, history, faults >>

\* Consuming the token is a GETDEL: what follows may fail, the token is spent.
ConfirmDeviceLink(c, d) ==
    /\ "link" \in ticket
    /\ ticket' = ticket \ {"link"}
    /\ Begin(c, "link", "create", 0, d)
    /\ UNCHANGED << now, marker, session, db, tokens, history, faults >>

ApproveJoinRequest(c, s, d) ==
    /\ s \in Out /\ Standing(s)
    /\ "join" \in ticket
    /\ ticket' = ticket \ {"join"}
    /\ Begin(c, "link", "create", s, d)
    /\ UNCHANGED << now, marker, session, db, tokens, history, faults >>

-----------------------------------------------------------------------------
Next ==
    \/ Tick
    \/ \E s \in Out : InitiateDeviceLink(s)
    \/ \E d \in Fresh : SubmitJoinRequest(d)
    \/ \E c \in Call :
          \/ Drop(c) \/ Rotate(c) \/ Store(c)
          \/ LogoutBlock(c) \/ EndAll(c) \/ ReadUser(c) \/ Deactivate(c) \/ Mark(c)
          \/ OwnBlock(c) \/ RecoverWipe(c) \/ MarkAll(c) \/ CreateDevice(c)
          \/ SetPrimary(c) \/ MarkUsed(c) \/ DeleteRows(c)
          \/ \E d \in Device : AuthLookup(c, d)
          \/ \E d \in Fresh : RecoverVerify(c, d) \/ ConfirmDeviceLink(c, d)
          \/ \E s \in Out : RefreshLookup(c, s) \/ DeleteStart(c, s)
          \/ \E s \in Out, op \in {"logout", "logoutAll"} : LogoutStart(c, s, op)
          \/ \E s \in Out, d \in Device : RevokeStart(c, s, d)
          \/ \E s \in Out, d \in Fresh : ApproveJoinRequest(c, s, d)

Spec == Init /\ [][Next]_vars

-----------------------------------------------------------------------------
(* Properties.                                                             *)

\* An account always has its primary device in service: nothing deactivates
\* the device that users.primary_device_id names, except a recovery that has
\* taken the devices out and not yet named the new one.
PrimaryStaysActive ==
    primary = NoDevice \/ broken \/ row[primary] = "active"

\* One login has one live refresh token: rotations of two devices, dropped
\* calls and lost answers never leave two keys of one chain in Redis.
SessionsNeverFork ==
    \A s, t \in refresh : session[s].root = session[t].root => s = t

\* A logout from all devices that answered with success ended every session
\* that was open when it was called, and what those were rotated into, unless
\* Redis failed in the middle of it or when the session was stored.
LogoutAllEnds ==
    \A s \in refresh : session[s].root \in ended => session[s].root \in missed

\* Messaging refuses a device whose revocation was completed: its marker
\* outlives every access token that was minted while the row was active.
RevokedStaysOut ==
    \A s \in DOMAIN session :
        (session[s].dev \in gone /\ ~session[s].late) => ~Admitted(s)

\* A session that was ended stays ended, whether by a logout from all devices or by
\* the revocation of its device, and whatever call was under way.
EndedStaysEnded == LogoutAllEnds /\ RevokedStaysOut

\* The marker of a revoked device outlives every access token the device could
\* hold, as the comment on access_token_ttl_secs says.  Violated: a call that
\* read the row before the revocation mints its token after the marker was set.
MarkerOutlivesTokens ==
    \A s \in DOMAIN session : session[s].dev \in gone => ~Admitted(s)

\* A logout from all devices that could not revoke the refresh tokens fails,
\* as its error path says.  Violated: revoke_all_user_tokens swallows every
\* Redis error and the logout answers with success.
LogoutAllFailsClosed ==
    \A s \in refresh : session[s].root \notin ended
=============================================================================
