------------------------------- MODULE Calls -------------------------------
(***************************************************************************)
(* signaling-service: calls between two accounts, kept in Redis and cached *)
(* by each instance, and the streams of the devices.                       *)
(*                                                                         *)
(* A frame of a stream is handled in steps, one for each read or write of  *)
(* the call in Redis; the instance's own maps are updated with the access  *)
(* next to them, and the removal of a call, memory and pipeline, is one    *)
(* step.  Time passes in units of half a minute, between handlers: a       *)
(* timestamp is an age, counted up to one past the limits it is compared   *)
(* with.  A healthy client pings in every unit.  Payloads, metrics, the    *)
(* cap on destinations and the token checks of a stream (a revoked device  *)
(* is one that goes) are left out.                                         *)
(***************************************************************************)
EXTENDS Integers, Sequences, FiniteSets

CONSTANTS
    CallUser,      \* accounts, mutual contacts
    CallDevice,    \* their devices
    CallUserOf,    \* CallUserOf[d]: whose device it is
    Instance,      \* instances of the service
    CallId,        \* bound: the calls initiated, each of them once
    CallScene,     \* bound: who calls whom, which frames the devices send and to which
                   \* instances, which devices have a stream, and which lose it
    CallNone,      \* no call, device, instance or copy
    MaxStreams,    \* bound: streams a device opens
    PeerMax,       \* calls to a peer in a window (RATE_LIMIT_PEER_MAX)
    OfferLimit,    \* an offer no device answered with ringing, 45 s
    RingLimit,     \* a ringing call, and the silence of both parties, 30 s
    AliveLimit,    \* the silence of one party, 60 s
    LifeLimit      \* a call, its keys and the presence of a device, 300 s

VARIABLES
    scene,        \* the scenario of this behaviour
    callHash,     \* Redis call:<id>
    userCall,     \* Redis user:<id>:active_call
    callSet,      \* Redis signaling:active_calls, and its age
    online,       \* Redis signaling:online: the age of the presence of a device
    cooldown,     \* Redis: pairs in cooldown after a decline
    peerCount,    \* Redis: calls of a user to a peer
    cache,        \* calls of an instance
    activeCalls,  \* active_calls of an instance
    channel,      \* user_channels: the stream a device is registered with
    streams,      \* the streams of a device, in the order they were opened
    handler,      \* the frame of a device in progress
    sent,         \* how many frames of the scenario a device has sent
    initiate,     \* InitiateCall of each call
    reaper,       \* the pass of cleanup_loop in progress
    pinged,       \* history: parties heard from in this unit of time
    silent,       \* history: calls a party of which let a unit pass
    racy,         \* history: calls two handlers of which overlapped
    signalled,    \* history: calls whose ringing or connected was recorded
    reaped,       \* history: calls cleanup_loop decided to end: why, and whether the
                  \* call was silent and whether it was signalled by then
    named,        \* history: the devices named as having answered
    unheard       \* history: calls that rang nobody and woke nobody

redisVars == <<callHash, userCall, callSet>>
limitVars == <<cooldown, peerCount>>
memVars == <<cache, activeCalls>>
streamVars == <<channel, streams>>
callHistory == <<pinged, silent, racy, signalled, reaped, named, unheard>>
callVars == <<scene, redisVars, online, limitVars, memVars, streamVars, handler, sent, initiate, reaper, callHistory>>

Home(d) == scene.home[d]
Older(n, limit) == IF n > limit THEN n ELSE n + 1
HandlerIdle == [at |-> "idle"]
ReaperIdle == [at |-> "idle"]
OneInstance == Cardinality(scene.up) = 1

----------------------------------------------------------------------------
(* The copies of a call.                                                   *)

\* CallState: parties, the device that answered, and the ages of the offer, of
\* ringing (-1: not yet) and of the last keepalive of each party.
NewCopy(c) ==
    [caller |-> CallUserOf[scene.calls[c].from], callee |-> scene.calls[c].to,
     device |-> scene.calls[c].from, accepted |-> CallNone, age |-> 0, rang |-> -1,
     answered |-> FALSE, alive |-> [caller |-> 0, callee |-> 0]]

RoleOf(copy, u) ==
    IF copy.caller = u THEN "caller" ELSE IF copy.callee = u THEN "callee" ELSE "none"

Exists(c) == callHash[c] # CallNone

\* load_call_state: the cached copy, else the one of Redis, unless the hash lacks
\* the fields create_call wrote.
Loaded(i, c) ==
    IF cache[i][c] # CallNone THEN cache[i][c]
    ELSE IF Exists(c) /\ callHash[c].full THEN callHash[c].copy ELSE CallNone

CacheLoaded(i, c) == cache' = [cache EXCEPT ![i][c] = Loaded(i, c)]

\* HSET and EXPIRE: on a hash that is gone they make one with these fields alone.
Hset(c, copy) ==
    callHash' = [callHash EXCEPT ![c] =
        IF @ = CallNone THEN [full |-> FALSE, copy |-> CallNone, ttl |-> 0]
        ELSE IF @.full THEN [@ EXCEPT !.copy = copy, !.ttl = 0]
        ELSE [@ EXCEPT !.ttl = 0]]

\* remove_call with the copy this instance has in memory: nothing if it has none.
RemoveCopy(i, c, copy) ==
    IF copy = CallNone THEN UNCHANGED <<memVars, redisVars>>
    ELSE LET parties == {copy.caller, copy.callee} IN
         /\ cache' = [cache EXCEPT ![i][c] = CallNone]
         /\ activeCalls' = [activeCalls EXCEPT ![i] =
                [u \in CallUser |-> IF u \in parties THEN CallNone ELSE @[u]]]
         /\ callHash' = [callHash EXCEPT ![c] = CallNone]
         /\ userCall' = [u \in CallUser |-> IF u \in parties THEN CallNone ELSE userCall[u]]
         /\ callSet' = [callSet EXCEPT !.ids = @ \ {c}]
RemoveCall(i, c) == RemoveCopy(i, c, cache[i][c])

\* Mutant: a call of the instance's memory is believed.
FoundCallUnasked(i, u) ==
    IF activeCalls[i][u] # CallNone THEN activeCalls[i][u]
    ELSE IF userCall[u] # CallNone /\ Exists(userCall[u].call) THEN userCall[u].call ELSE CallNone

\* get_user_call: the call of a user that Redis still has.
FoundCall(i, u) ==
    LET c == IF activeCalls[i][u] # CallNone THEN activeCalls[i][u]
             ELSE IF userCall[u] # CallNone THEN userCall[u].call ELSE CallNone IN
    IF c # CallNone /\ Exists(c) THEN c ELSE CallNone

\* What get_user_call changes, and the load_call_state that follows it, if one
\* does: a call is learned, or one that is gone is forgotten.
FindCall(i, u, load) ==
    LET c == FoundCall(i, u) IN
    IF c # CallNone THEN
        /\ activeCalls' = [activeCalls EXCEPT ![i][u] = c]
        /\ IF load THEN CacheLoaded(i, c) ELSE UNCHANGED cache
        /\ UNCHANGED redisVars
    ELSE IF activeCalls[i][u] # CallNone THEN RemoveCall(i, activeCalls[i][u])
    ELSE userCall' = [userCall EXCEPT ![u] = CallNone] /\ UNCHANGED <<memVars, callHash, callSet>>

----------------------------------------------------------------------------
(* Streams.                                                                *)

NewStream == [client |-> TRUE, inp |-> "open", out |-> "open", pending |-> FALSE]

\* register_user replaces the channel of the device; the stream that had it hears
\* that its sender is gone.
OpenStream(d) ==
    LET n == Len(streams[d]) + 1 IN
    /\ d \in scene.flaky /\ n <= MaxStreams
    /\ handler[d] = HandlerIdle
    /\ streams' = [streams EXCEPT ![d] =
            Append([k \in DOMAIN @ |-> IF channel[d] = k THEN [@[k] EXCEPT !.out = "closed"] ELSE @[k]],
                   NewStream)]
    /\ channel' = [channel EXCEPT ![d] = n]
    /\ online' = [online EXCEPT ![d] = 0]
    /\ UNCHANGED <<scene, redisVars, limitVars, memVars, handler, sent, initiate, reaper, callHistory>>

\* The client goes, and serve_inbound ends with its stream of frames.
ClientGoes(d, k) ==
    /\ d \in scene.flaky /\ k \in DOMAIN streams[d] /\ streams[d][k].client
    /\ k = Len(streams[d]) => handler[d] = HandlerIdle
    /\ streams' = [streams EXCEPT ![d][k].client = FALSE, ![d][k].inp = "closed"]
    /\ UNCHANGED <<scene, redisVars, online, limitVars, memVars, channel, handler, sent, initiate, reaper, callHistory>>

\* forward_signals waits for a signal; only sending one tells it that the client
\* is gone.
ForwardSignals(d, k) ==
    /\ k \in DOMAIN streams[d] /\ streams[d][k].out = "open" /\ streams[d][k].pending
    /\ streams' = [streams EXCEPT ![d][k].pending = FALSE,
                                  ![d][k].out = IF streams[d][k].client THEN "open" ELSE "closed"]
    /\ UNCHANGED <<scene, redisVars, online, limitVars, memVars, channel, handler, sent, initiate, reaper, callHistory>>

Registered(i, u) == {d \in CallDevice : CallUserOf[d] = u /\ Home(d) = i /\ channel[d] # 0}
Present(u) == {d \in CallDevice : CallUserOf[d] = u /\ online[d] # CallNone}

\* send_to_user: the devices a signal from instance i reaches, and the devices it
\* counts: those with a channel here, and those another instance has announced.
Counted(i, u, to) ==
    {d \in Registered(i, u) \cup {e \in Present(u) : Home(e) # i} : to = CallNone \/ d = to}
Reached(i, u, to) == {d \in Counted(i, u, to) : channel[d] # 0}
Deliver(devs) ==
    streams' = [d \in CallDevice |->
        IF d \in devs THEN [streams[d] EXCEPT ![channel[d]].pending = TRUE] ELSE streams[d]]

\* Both parties: the caller's device, and the one that answered or all of them.
Parties(i, copy) == Reached(i, copy.caller, copy.device) \cup Reached(i, copy.callee, copy.accepted)

\* The call that ends with a stream of device d, as call_ended_by_disconnect finds it.
EndedBy(d, copy) ==
    LET u == CallUserOf[d] IN
    /\ copy # CallNone
    /\ \/ copy.caller = u /\ copy.device = d
       \/ copy.callee = u /\ copy.accepted = d /\ Present(u) \ {d} = {}

\* Both halves of a stream are over: the device is unregistered, whatever stream it
\* is registered with by now, and the call it was in may end.
CloseStream(d, k) ==
    LET i == Home(d)  u == CallUserOf[d]
        c == FoundCall(i, u)
        copy == IF c = CallNone THEN CallNone ELSE Loaded(i, c)
        told == IF EndedBy(d, copy) THEN Parties(i, copy) \ {d} ELSE {} IN
    /\ k \in DOMAIN streams[d] /\ streams[d][k].inp = "closed" /\ streams[d][k].out = "closed"
    /\ channel' = [channel EXCEPT ![d] = 0]
    /\ online' = [online EXCEPT ![d] = IF Registered(i, u) # {} THEN CallNone ELSE @]
    /\ streams' = [e \in CallDevice |->
            IF e \in told THEN [streams[e] EXCEPT ![channel[e]].pending = TRUE]
            ELSE IF e = d THEN [j \in DOMAIN streams[d] |->
                IF j = k THEN [streams[d][j] EXCEPT !.inp = "over"]
                ELSE IF j = channel[d] THEN [streams[d][j] EXCEPT !.out = "closed"] ELSE streams[d][j]]
            ELSE streams[e]]
    /\ IF EndedBy(d, copy) THEN RemoveCopy(i, c, copy) ELSE FindCall(i, u, TRUE)
    /\ UNCHANGED <<scene, limitVars, handler, sent, initiate, reaper, callHistory>>

----------------------------------------------------------------------------
(* InitiateCall.                                                           *)

\* Below the rate of the pair, counting this call, and no recent decline.
Admitted(pair, count) == count <= PeerMax /\ pair \notin cooldown

\* Contacts, blocks and rates refuse the call; so does a recent decline.
CheckLimits(c) ==
    LET pair == <<CallUserOf[scene.calls[c].from], scene.calls[c].to>> IN
    /\ c \in DOMAIN scene.calls /\ initiate[c].at = "idle"
    /\ peerCount' = [peerCount EXCEPT ![pair] = @ + 1]
    /\ initiate' = [initiate EXCEPT ![c].at =
            IF Admitted(pair, peerCount'[pair]) THEN "busy" ELSE "done"]
    /\ UNCHANGED <<scene, redisVars, online, cooldown, memVars, streamVars, handler, sent, reaper, callHistory>>

CheckBusy(c) ==
    LET i == Home(scene.calls[c].from)  u == scene.calls[c].to IN
    /\ initiate[c].at = "busy"
    /\ initiate' = [initiate EXCEPT ![c].at = IF FoundCall(i, u) # CallNone THEN "done" ELSE "create"]
    /\ FindCall(i, u, FALSE)
    /\ UNCHANGED <<scene, online, limitVars, streamVars, handler, sent, reaper, callHistory>>

\* Whether the callee is online is read; the call goes to the maps of the instance.
CreateCall(c) ==
    LET i == Home(scene.calls[c].from)  copy == NewCopy(c) IN
    /\ initiate[c].at = "create"
    /\ initiate' = [initiate EXCEPT ![c] = [at |-> "store", listed |-> Present(copy.callee) # {}]]
    /\ cache' = [cache EXCEPT ![i][c] = copy]
    /\ activeCalls' = [activeCalls EXCEPT ![i] =
            [u \in CallUser |-> IF u \in {copy.caller, copy.callee} THEN c ELSE @[u]]]
    /\ racy' = IF \E b \in CallId \ {c} : Exists(b) \/ \E j \in Instance : cache[j][b] # CallNone
               THEN CallId ELSE racy
    /\ UNCHANGED <<scene, redisVars, online, limitVars, streamVars, handler, sent, reaper,
                   pinged, silent, signalled, reaped, named, unheard>>

\* Then to Redis, with the keys of both parties.
StoreCall(c) ==
    LET copy == NewCopy(c) IN
    /\ initiate[c].at = "store"
    /\ initiate' = [initiate EXCEPT ![c].at = "ring"]
    /\ callHash' = [callHash EXCEPT ![c] = [full |-> TRUE, copy |-> copy, ttl |-> 0]]
    /\ userCall' = [u \in CallUser |->
            IF u \in {copy.caller, copy.callee} THEN [call |-> c, ttl |-> 0] ELSE userCall[u]]
    /\ callSet' = [ids |-> callSet.ids \cup {c}, ttl |-> 0]
    /\ pinged' = pinged \cup {<<c, "caller">>, <<c, "callee">>}
    /\ UNCHANGED <<scene, online, limitVars, memVars, streamVars, handler, sent, reaper,
                   silent, racy, signalled, reaped, named, unheard>>

\* A callee listed as online is notified, and woken if nobody was reached; one that
\* is not listed is woken.
RingCallee(c) ==
    LET i == Home(scene.calls[c].from)  u == scene.calls[c].to  devs == Reached(i, u, CallNone)
        reached == initiate[c].listed /\ Counted(i, u, CallNone) # {}
        heard == \E d \in devs : streams[d][channel[d]].client IN
    /\ initiate[c].at = "ring"
    /\ initiate' = [initiate EXCEPT ![c] = [at |-> "done"]]
    /\ IF reached THEN Deliver(devs) ELSE UNCHANGED streams
    /\ unheard' = IF reached /\ ~heard THEN unheard \cup {c} ELSE unheard
    /\ UNCHANGED <<scene, redisVars, online, limitVars, memVars, channel, handler, sent, reaper,
                   pinged, silent, racy, signalled, reaped, named>>

\* The caller's request is refused earlier, or dropped.
DropInitiate(c) ==
    /\ initiate[c].at \in {"busy", "create", "store", "ring"}
    /\ initiate' = [initiate EXCEPT ![c] = [at |-> "done"]]
    /\ UNCHANGED <<scene, redisVars, online, limitVars, memVars, streamVars, handler, sent, reaper, callHistory>>

----------------------------------------------------------------------------
(* Frames: serve_inbound, note_keepalive, handle_outbound_signal.          *)

Step(d, at) == handler' = [handler EXCEPT ![d].at = at]
Ends(kind) == kind \in {"hangup", "decline", "busy"}
AfterKeepalive(sig) == IF sig.kind = "ping" THEN HandlerIdle ELSE [at |-> "signal", sig |-> sig]

\* The next frame of the newest stream, a signal once there is a call to signal about.
NextFrame(d) == scene.frames[d][sent[d] + 1]
HasFrame(d) ==
    /\ Len(streams[d]) > 0 /\ streams[d][Len(streams[d])].inp = "open"
    /\ handler[d] = HandlerIdle /\ sent[d] < Len(scene.frames[d])
    /\ NextFrame(d).kind # "ping" => initiate[NextFrame(d).call].at \in {"ring", "done"}

TakeFrame(d) ==
    /\ HasFrame(d)
    /\ sent' = [sent EXCEPT ![d] = @ + 1]
    /\ handler' = [handler EXCEPT ![d] = [at |-> "find", sig |-> NextFrame(d)]]
    /\ online' = [online EXCEPT ![d] = 0]
    /\ racy' = IF \E e \in CallDevice \ {d} : handler[e] # HandlerIdle THEN CallId ELSE racy
    /\ UNCHANGED <<scene, redisVars, limitVars, memVars, streamVars, initiate, reaper,
                   pinged, silent, signalled, reaped, named, unheard>>

\* The token bucket of the stream is empty: the signal is dropped.
RefuseFrame(d) ==
    /\ HasFrame(d) /\ NextFrame(d).kind # "ping"
    /\ sent' = [sent EXCEPT ![d] = @ + 1]
    /\ UNCHANGED <<scene, redisVars, online, limitVars, memVars, streamVars, handler, initiate, reaper, callHistory>>

\* note_keepalive reads the call the user is in.
ReadKeepalive(d) ==
    LET i == Home(d)  u == CallUserOf[d]  c == FoundCall(i, u)
        copy == IF c = CallNone THEN CallNone ELSE Loaded(i, c) IN
    /\ handler[d].at = "find"
    /\ FindCall(i, u, TRUE)
    /\ handler' = [handler EXCEPT ![d] =
            IF copy = CallNone \/ RoleOf(copy, u) = "none" THEN AfterKeepalive(@.sig)
            ELSE [at |-> "keepalive", sig |-> @.sig, call |-> c, copy |-> copy]]
    /\ UNCHANGED <<scene, online, limitVars, streamVars, sent, initiate, reaper, callHistory>>

\* Mutant: whoever sends it, it is the caller who is alive.
AliveForCaller(copy, role) == [copy EXCEPT !.alive["caller"] = 0]

AliveFor(copy, role) == [copy EXCEPT !.alive[role] = 0]

\* And writes the copy it read back, with the party's time.
WriteKeepalive(d) ==
    LET h == handler[d]  role == RoleOf(h.copy, CallUserOf[d])
        Touched(copy) == AliveFor(copy, role) IN
    /\ h.at = "keepalive"
    /\ Hset(h.call, Touched(callHash[h.call].copy))
    /\ cache' = [cache EXCEPT ![Home(d)][h.call] = Touched(h.copy)]
    /\ pinged' = pinged \cup {<<h.call, role>>}
    /\ handler' = [handler EXCEPT ![d] = AfterKeepalive(@.sig)]
    /\ UNCHANGED <<scene, userCall, callSet, online, limitVars, activeCalls, streamVars, sent, initiate,
                   reaper, silent, racy, signalled, reaped, named, unheard>>

\* note_connected: the first Connected of the callee names the device.
AnsweredBy(copy, role, d) ==
    [copy EXCEPT !.answered = TRUE, !.accepted = IF @ = CallNone /\ role = "callee" THEN d ELSE @]

\* The call of the signal is loaded, its parties alone may go on; ringing of the
\* callee and connected change it.
ReadSignal(d) ==
    LET sig == handler[d].sig  copy == Loaded(Home(d), sig.call)
        role == IF copy = CallNone THEN "none" ELSE RoleOf(copy, CallUserOf[d]) IN
    /\ handler[d].at = "signal"
    /\ CacheLoaded(Home(d), sig.call)
    /\ handler' = [handler EXCEPT ![d] =
            IF copy # CallNone /\ role = "none" THEN HandlerIdle
            ELSE IF sig.kind = "ringing" /\ role = "callee" /\ copy.rang = -1 THEN
                [at |-> "note", sig |-> sig, copy |-> [copy EXCEPT !.rang = 0]]
            ELSE IF sig.kind = "connected" /\ role # "none" /\ (role = "callee" \/ ~copy.answered) THEN
                [at |-> "note", sig |-> sig, copy |-> AnsweredBy(copy, role, d)]
            ELSE [at |-> "forward", sig |-> sig]]
    /\ UNCHANGED <<scene, redisVars, online, limitVars, activeCalls, streamVars, sent, initiate, reaper, callHistory>>

\* The fields are written to Redis, the copy to memory.
WriteSignal(d) ==
    LET h == handler[d]
        Noted(copy) == IF h.sig.kind = "ringing" THEN [copy EXCEPT !.rang = 0]
                       ELSE [copy EXCEPT !.answered = TRUE,
                                !.accepted = IF h.copy.accepted = CallNone THEN @ ELSE h.copy.accepted] IN
    /\ h.at = "note"
    /\ Hset(h.sig.call, Noted(callHash[h.sig.call].copy))
    /\ cache' = [cache EXCEPT ![Home(d)][h.sig.call] = h.copy]
    /\ signalled' = signalled \cup {h.sig.call}
    /\ named' = IF h.copy.accepted = CallNone THEN named ELSE named \cup {<<h.sig.call, h.copy.accepted>>}
    /\ handler' = [handler EXCEPT ![d] = [at |-> "forward", sig |-> h.sig]]
    /\ UNCHANGED <<scene, userCall, callSet, online, limitVars, activeCalls, streamVars, sent, initiate,
                   reaper, pinged, silent, racy, reaped, unheard>>

\* forward_signal: from the caller to the device that answered, or to all; from the
\* callee to the caller's device.  A decline starts the cooldown of the pair.
ForwardSignal(d) ==
    LET i == Home(d)  sig == handler[d].sig  copy == Loaded(i, sig.call)
        role == IF copy = CallNone THEN "none" ELSE RoleOf(copy, CallUserOf[d])
        devs == CASE role = "caller" -> Reached(i, copy.callee, copy.accepted)
                  [] role = "callee" -> Reached(i, copy.caller, copy.device)
                  [] OTHER -> {} IN
    /\ handler[d].at = "forward"
    /\ CacheLoaded(i, sig.call)
    /\ Deliver(devs)
    /\ cooldown' = IF sig.kind = "decline" /\ role = "callee"
                   THEN cooldown \cup {<<copy.caller, copy.callee>>} ELSE cooldown
    /\ IF Ends(sig.kind) THEN Step(d, "remove") ELSE handler' = [handler EXCEPT ![d] = HandlerIdle]
    /\ UNCHANGED <<scene, redisVars, online, peerCount, activeCalls, channel, sent, initiate, reaper, callHistory>>

RemoveSignalled(d) ==
    /\ handler[d].at = "remove"
    /\ RemoveCall(Home(d), handler[d].sig.call)
    /\ handler' = [handler EXCEPT ![d] = HandlerIdle]
    /\ UNCHANGED <<scene, online, limitVars, streamVars, sent, initiate, reaper, callHistory>>

----------------------------------------------------------------------------
(* cleanup_loop.                                                           *)

\* Why cleanup_loop ends a call: its age, no ringing, both parties silent while it
\* rings, or one party silent.
WhyReaped(copy) ==
    CASE copy.age > LifeLimit -> "life"
      [] copy.rang = -1 /\ ~copy.answered /\ copy.age > OfferLimit -> "offer"
      [] /\ copy.rang > RingLimit /\ ~copy.answered
         /\ copy.alive["caller"] > RingLimit /\ copy.alive["callee"] > RingLimit -> "ring"
      [] copy.alive["caller"] > AliveLimit \/ copy.alive["callee"] > AliveLimit -> "alive"
      [] OTHER -> "no"

\* The instance that has the lock reads a call of the set, from its own memory first.
ReadStale(i, c) ==
    LET copy == Loaded(i, c)  why == IF copy = CallNone THEN "no" ELSE WhyReaped(copy) IN
    /\ reaper = ReaperIdle /\ i \in scene.up /\ c \in callSet.ids /\ copy # CallNone
    /\ CacheLoaded(i, c)
    /\ why # "no" \/ cache' # cache
    /\ reaper' = IF why = "no" THEN ReaperIdle ELSE [at |-> "act", by |-> i, call |-> c, copy |-> copy, why |-> why]
    /\ reaped' = IF why = "no" THEN reaped
                 ELSE reaped \cup {[call |-> c, why |-> why, silent |-> c \in silent, signalled |-> c \in signalled]}
    /\ UNCHANGED <<scene, redisVars, online, limitVars, activeCalls, streamVars, handler, sent, initiate,
                   pinged, silent, racy, signalled, named, unheard>>

\* The parties are told, unless the call is merely old, and it is removed.
EndStale ==
    LET devs == CASE reaper.why = "life" -> {}
                  [] reaper.why = "offer" -> Reached(reaper.by, reaper.copy.caller, reaper.copy.device)
                  [] OTHER -> Parties(reaper.by, reaper.copy) IN
    /\ reaper.at = "act"
    /\ Deliver(devs)
    /\ RemoveCall(reaper.by, reaper.call)
    /\ reaper' = ReaperIdle
    /\ UNCHANGED <<scene, online, limitVars, channel, handler, sent, initiate, callHistory>>

----------------------------------------------------------------------------
(* Time.                                                                   *)

Aged(copy) ==
    IF copy = CallNone THEN CallNone
    ELSE [copy EXCEPT !.age = Older(@, LifeLimit), !.rang = IF @ = -1 THEN -1 ELSE Older(@, RingLimit),
                      !.alive = [r \in {"caller", "callee"} |-> Older(@[r], AliveLimit)]]

\* What Redis keeps for LifeLimit expires with the unit that passes it.
Expiring(rec) == IF rec = CallNone \/ rec.ttl >= LifeLimit THEN CallNone ELSE [rec EXCEPT !.ttl = @ + 1]

\* Time is counted from the first call.
Tick ==
    /\ \E c \in CallId : initiate[c].at = "done"
    /\ \A d \in CallDevice : handler[d] = HandlerIdle
    /\ \A c \in CallId : initiate[c].at \in {"idle", "done"}
    /\ reaper = ReaperIdle
    /\ callHash' = [c \in CallId |-> LET h == Expiring(callHash[c]) IN
                        IF h = CallNone THEN CallNone ELSE [h EXCEPT !.copy = Aged(@)]]
    /\ userCall' = [u \in CallUser |-> Expiring(userCall[u])]
    /\ callSet' = IF callSet.ttl >= LifeLimit THEN [ids |-> {}, ttl |-> 0]
                  ELSE [callSet EXCEPT !.ttl = IF callSet.ids = {} THEN 0 ELSE @ + 1]
    /\ online' = [d \in CallDevice |->
            IF online[d] = CallNone \/ online[d] >= LifeLimit THEN CallNone ELSE online[d] + 1]
    /\ cache' = [i \in Instance |-> [c \in CallId |-> Aged(cache[i][c])]]
    /\ silent' = silent \cup {c \in CallId : initiate[c].at = "done" /\ {<<c, "caller">>, <<c, "callee">>} \ pinged # {}}
    /\ pinged' = {}
    /\ UNCHANGED <<scene, limitVars, activeCalls, streamVars, handler, sent, initiate, reaper,
                   racy, signalled, reaped, named, unheard>>

----------------------------------------------------------------------------
CallsInit ==
    /\ scene \in CallScene
    /\ callHash = [c \in CallId |-> CallNone] /\ userCall = [u \in CallUser |-> CallNone]
    /\ callSet = [ids |-> {}, ttl |-> 0]
    /\ online = [d \in CallDevice |-> IF d \in scene.there THEN 0 ELSE CallNone]
    /\ cooldown = {} /\ peerCount = [p \in CallUser \X CallUser |-> 0]
    /\ cache = [i \in Instance |-> [c \in CallId |-> CallNone]]
    /\ activeCalls = [i \in Instance |-> [u \in CallUser |-> CallNone]]
    /\ channel = [d \in CallDevice |-> IF d \in scene.there THEN 1 ELSE 0]
    /\ streams = [d \in CallDevice |-> IF d \in scene.there THEN <<NewStream>> ELSE <<>>]
    /\ handler = [d \in CallDevice |-> HandlerIdle] /\ sent = [d \in CallDevice |-> 0]
    /\ initiate = [c \in CallId |-> [at |-> "idle"]] /\ reaper = ReaperIdle
    /\ pinged = {} /\ silent = {} /\ racy = {} /\ signalled = {} /\ reaped = {} /\ named = {} /\ unheard = {}

FrameStep(d) ==
    \/ ReadKeepalive(d) \/ WriteKeepalive(d) \/ ReadSignal(d) \/ WriteSignal(d)
    \/ ForwardSignal(d) \/ RemoveSignalled(d)
InitiateStep(c) == CheckBusy(c) \/ CreateCall(c) \/ StoreCall(c) \/ RingCallee(c)
ReaperStep == EndStale \/ \E i \in Instance, c \in CallId : ReadStale(i, c)

CallsNext ==
    \/ \E d \in CallDevice : \/ OpenStream(d) \/ TakeFrame(d) \/ RefuseFrame(d) \/ FrameStep(d)
                             \/ \E k \in 1..MaxStreams : ClientGoes(d, k) \/ ForwardSignals(d, k) \/ CloseStream(d, k)
    \/ \E c \in CallId : CheckLimits(c) \/ InitiateStep(c) \/ DropInitiate(c)
    \/ ReaperStep \/ Tick

CallsSpec == CallsInit /\ [][CallsNext]_callVars

\* A handler that has begun goes on, the clock does, and the clock of Redis with it.
CallsFairness ==
    /\ \A d \in CallDevice : WF_callVars(FrameStep(d))
    /\ \A c \in CallId : WF_callVars(InitiateStep(c))
    /\ WF_callVars(EndStale) /\ WF_callVars(Tick)
CallsFairSpec == CallsSpec /\ CallsFairness

----------------------------------------------------------------------------
(* Properties.                                                             *)

CallCopy == [caller : CallUser, callee : CallUser, device : CallDevice, accepted : CallDevice \cup {CallNone},
             age : 0..(LifeLimit + 1), rang : -1..(RingLimit + 1), answered : BOOLEAN,
             alive : [{"caller", "callee"} -> 0..(AliveLimit + 1)]]

\* Every copy of a call has the fields of CallState; a channel belongs to a stream
\* of its device.
CallsTypeOK ==
    /\ \A c \in CallId : /\ \A i \in Instance : cache[i][c] \in CallCopy \cup {CallNone}
                         /\ Exists(c) => /\ callHash[c].full => callHash[c].copy \in CallCopy
                                          /\ callHash[c].ttl \in 0..LifeLimit
    /\ \A i \in Instance, u \in CallUser : activeCalls[i][u] \in CallId \cup {CallNone}
    /\ callSet.ids \subseteq CallId
    /\ \A d \in CallDevice : channel[d] = 0 \/ channel[d] \in DOMAIN streams[d]

\* cleanup_loop ends no healthy call: one it ended as silent was silent, one it ended
\* as never ringing never rang.  This for devices served by one instance, whose
\* frames were handled one after the other, and users in one call.
HealthyCallKept ==
    OneInstance => \A r \in reaped :
        \/ r.call \in racy
        \/ /\ r.why \in {"ring", "alive"} => r.silent
           /\ r.why = "offer" => ~r.signalled

\* The same for any number of instances and handlers: registry.rs says that the limits
\* are there to end calls "without reaping a healthy call".
NoHealthyCallReaped ==
    \A r \in reaped : r.why \in {"ring", "alive"} => r.silent

\* The device that answered is one, and stays it, however many devices of the callee
\* and whichever party say Connected; one instance, one frame at a time.
AnsweredOnce ==
    OneInstance => \A n, m \in named : n[1] = m[1] /\ n[1] \notin racy => n = m

\* Only a device of the callee is ever named as having answered.
CalleeAnswers == \A n \in named : CallUserOf[n[2]] = scene.calls[n[1]].to

\* A call that works is left to its parties: the reaper does not end it, and the
\* device that answered it is the callee's and stays the one.
CallsKept == HealthyCallKept /\ AnsweredOnce /\ CalleeAnswers

\* Once frames stop arriving nobody stays busy: whatever instance is asked, whatever
\* handlers overlapped and whichever streams broke, the call a user is in ends.
NobodyStaysBusy == <>[](\A i \in Instance, u \in CallUser : FoundCall(i, u) = CallNone)

\* InitiateCall rings somebody or wakes the callee: service.rs says that a callee with
\* stale presence, whose "signal stream was already closed", is woken by a push.
RungOrWoken == unheard = {}

=============================================================================
