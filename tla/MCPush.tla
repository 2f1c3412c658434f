------------------------------- MODULE MCPush -------------------------------
(* Small scenarios for the pushes of one account with two devices.          *)
EXTENDS Push, TLC

\* Calls.  A token is asked for with the environment the client declares.
Message(own) == [op |-> "message", own |-> own]
PushRequest == [op |-> "request", own |-> FALSE]
Plain(o) == [op |-> o, own |-> FALSE]
OnDev(o, d) == [op |-> o, dev |-> d, own |-> FALSE]
OnTok(o, t) == [op |-> o, tok |-> t, own |-> FALSE]
Registers(o, d, t, e, f) ==
    [op |-> o, dev |-> d, tok |-> t, env |-> e, filter |-> f,
     provider |-> "apns", own |-> FALSE]
Prefers(t, f, on) == [op |-> "prefs", tok |-> t, filter |-> f, enabled |-> on,
                      own |-> FALSE]
RingFrom(f) == [op |-> "ring", from |-> f, own |-> FALSE]

\* Rows that exist before the first call.
Has(s, d, t, E, f) ==
    [seal |-> s, tok |-> t, dev |-> d, filter |-> f, env |-> E,
     provider |-> "apns", enabled |-> TRUE]
HasVoip(d, t, E) ==
    [id |-> d, seal |-> d, dev |-> d, tok |-> t, env |-> E, enabled |-> TRUE]

Scene(calls, rs, vs, callers, lost, outage, home) ==
    [calls |-> calls, rows |-> rs, voip |-> vs, callers |-> callers,
     lost |-> lost, outage |-> outage, home |-> home]

Home(a, b) == "ta" :> a @@ "tb" :> b
Phone(E) == Has("r1", "d1", "ta", E, "visible")
Tablet(E) == Has("r2", "d2", "tb", E, "visible")

MCPlans == {
    \* a burst of messages and a fetch that races it
    Scene("m1" :> Message(FALSE) @@ "m2" :> Message(FALSE)
            @@ "f1" :> OnDev("pending", "d1") @@ "f2" :> OnDev("poll", "d1"),
          {Phone({"production"})}, {}, {}, {}, FALSE, Home("production", "production")),
    \* two devices, an unknown environment, a poll of one of them
    Scene("m1" :> Message(FALSE) @@ "m2" :> Message(FALSE) @@ "f1" :> OnDev("poll", "d1"),
          {Phone(Ends), Tablet({"production"})}, {}, {}, {}, FALSE,
          Home("production", "production")),
    \* a restart in the middle, and Redis away for some calls
    Scene("m1" :> Message(FALSE) @@ "m2" :> Message(FALSE) @@ "k1" :> Plain("restart")
            @@ "f1" :> OnDev("pending", "d1"),
          {Phone({"production"})}, {}, {}, {}, TRUE, Home("production", "production")),
    \* a copy to one's own devices, a contact request, a silent device
    Scene("m1" :> Message(TRUE) @@ "m2" :> Message(FALSE) @@ "q1" :> PushRequest
            @@ "p1" :> Prefers("ta", "silent", TRUE),
          {Phone({"production"})}, {}, {}, {}, FALSE, Home("production", "production")),
    \* a token filed under the wrong endpoint, probed by three pushes
    Scene("m1" :> Message(FALSE) @@ "w1" :> Plain("wake") @@ "m2" :> Message(FALSE)
            @@ "g1" :> Registers("register", "d1", "ta", "production", "visible"),
          {Phone({"production"})}, {}, {}, {}, FALSE, Home("sandbox", "production")),
    \* an app uninstalled, its device back with another token
    Scene("m1" :> Message(FALSE) @@ "w1" :> Plain("wake") @@ "x1" :> OnTok("uninstall", "ta")
            @@ "g1" :> Registers("update", "d1", "tb", "unknown", "visible"),
          {Phone(Ends)}, {}, {}, {}, FALSE, Home("production", "production")),
    \* one token under no device id, claimed by two devices
    Scene("g1" :> Registers("register", "d1", "ta", "unknown", "visible")
            @@ "g2" :> Registers("register", "d2", "ta", "sandbox", "silent")
            @@ "g3" :> Registers("register", NoDev, "ta", "unknown", "visible")
            @@ "g4" :> Registers("update", "d1", "ta", "unknown", "visible")
            @@ "m1" :> Message(FALSE),
          {Has("r1", NoDev, "ta", Ends, "visible"), Has("r2", "d2", "tb", Ends, "silent")},
          {}, {}, {}, FALSE, Home("production", "production")),
    \* rows taken away while a push walks them
    Scene("m1" :> Message(FALSE) @@ "u1" :> OnTok("unregister", "ta")
            @@ "u2" :> OnDev("remove", "d2") @@ "p1" :> Prefers("tb", "visible", FALSE),
          {Phone(Ends), Tablet(Ends)}, {}, {}, {}, FALSE, Home("production", "dead")),
    \* calls, over a VoIP row that its device registers again
    Scene("k1" :> RingFrom("ann") @@ "k2" :> RingFrom("ann") @@ "k3" :> RingFrom("bob")
            @@ "v1" :> Registers("voip", "d1", "tb", "unknown", "visible"),
          {}, {HasVoip("d1", "ta", Ends)}, {"ann", "bob"}, {}, FALSE,
          Home("dead", "sandbox")),
    Scene("k1" :> RingFrom("ann") @@ "k2" :> RingFrom("bob")
            @@ "v2" :> OnDev("novoip", "d1") @@ "v3" :> Registers("voip", "d1", "ta", "sandbox", "visible"),
          {}, {HasVoip("d1", "ta", {"production"}), HasVoip("d2", "tb", Ends)},
          {"ann", "bob"}, {"d2"}, FALSE, Home("sandbox", "sandbox")),
    \* the key service's pushes, with a row nobody can decrypt
    Scene("n1" :> OnDev("nudge", "d1") @@ "n2" :> OnDev("nudge", "d1")
            @@ "w1" :> Plain("wake") @@ "w2" :> Plain("wake") @@ "l1" :> Plain("low"),
          {Phone({"production"}), [Tablet(Ends) EXCEPT !.provider = "fcm"]}, {}, {},
          {"r1"}, FALSE, Home("production", "production")) }
=============================================================================
