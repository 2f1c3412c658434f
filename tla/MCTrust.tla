------------------------------ MODULE MCTrust ------------------------------
EXTENDS Trust, TLC
CONSTANTS td1, td2, td3, e1, u1, u2, u3
MCUserOf == (td1 :> u1) @@ (e1 :> u1) @@ (td2 :> u2) @@ (td3 :> u3)
MCMsgLimit == [new |-> 2, trusted |-> 4, flagged |-> 1, banned |-> 0]
MCHourLimit == [new |-> 2, trusted |-> 3]
MCFanLimit == [new |-> 1]
T(kind, by, to) == [kind |-> kind, by |-> by, to |-> to, named |-> TRUE, brief |-> FALSE]
Sc(calls, errs, cuts) == [calls |-> calls, errors |-> errs, cuts |-> cuts]
Hi(a, b) == T("send", a, b)
\* Bans, lookups and unbans at once; blocks and the sends they stop; reports by one
\* and by several devices, cut short and across windows; sends at their limits.
MCTrustPlan == {
    Sc(<<T("ban", td2, td1), Hi(td1, td2), T("unban", td2, td1), T("status", td1, td1)>>, 0, 1),
    Sc(<<T("ban", td2, td1), Hi(td1, td2), T("month", td3, td3), Hi(td1, td2)>>, 0, 0),
    Sc(<<T("ban", td2, td1), T("check", td1, td2), Hi(td1, e1)>>, 1, 0),
    Sc(<<T("block", td2, td1), Hi(td1, td2), Hi(td1, td2)>>, 0, 1),
    Sc(<<T("block", td2, td3), Hi(td1, td2), T("block", td2, td1), Hi(td1, td2)>>, 0, 0),
    Sc(<<T("block", td2, td1), Hi(td1, td2), T("hour", td3, td3), Hi(td1, td2)>>, 0, 0),
    Sc(<<T("block", td2, td1), T("unblock", td2, td1), T("check", td1, td2)>>, 1, 0),
    Sc(<<T("report", td2, td1), T("report", td3, td1), T("report", e1, td1), T("unban", td2, td1)>>, 0, 0),
    Sc(<<T("report", td2, td1), T("report", td3, td1), T("report", td3, td1)>>, 0, 1),
    Sc(<<T("report", td2, td1), T("report", td2, td1), T("report", td2, td1)>>, 0, 0),
    Sc(<<T("report", td2, td1), T("month", td2, td2), T("report", td3, td1), T("report", e1, td1)>>, 0, 0),
    Sc(<<T("report", td2, td1), T("report", td3, td1), T("unflag", td2, td1), Hi(td1, e1)>>, 0, 0),
    Sc(<<Hi(td1, td2), Hi(td1, td3), Hi(td1, td2)>>, 0, 0),
    Sc(<<Hi(td1, td2), [Hi(e1, td2) EXCEPT !.named = FALSE], Hi(td1, td2)>>, 0, 0),
    Sc(<<Hi(td1, e1), Hi(td1, e1), Hi(td1, td2)>>, 1, 0)}
MCTemporary == {Sc(<<[T("ban", td2, td1) EXCEPT !.brief = TRUE], T("month", td3, td3)>>, 0, 0)}
=============================================================================
