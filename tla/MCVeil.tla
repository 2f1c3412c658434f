------------------------------- MODULE MCVeil -------------------------------
EXTENDS Veil
CONSTANTS una
VCallOf(kind, relay, pk, role, n) == [kind |-> kind, user |-> una, relay |-> relay, pk |-> pk, role |-> role, ticks |-> n]
Wants(relay) == VCallOf("issue", relay, "", 0, 0)
Bound(relay, pk, role) == VCallOf("issue", relay, pk, role, 0)
Voucher == VCallOf("voucher", "", "", 0, 0)
Later(n) == VCallOf("wait", "", "", 0, n)
Sweeps == VCallOf("sweep", "", "", 0, 0)
AtFront(a, scope) == [at |-> a, scope |-> scope, ok |-> TRUE]
MCSeed == [u \in {una} |-> {"a"}]
\* Two epochs' orders of the fronts: a hash's, so any.
MCAltRank == [x \in {una} \X (0..6) \X {"a", "b", "c", "d", "e"} |->
    LET order == IF x[2] % 2 = 0 THEN <<"b", "c", "a", "d", "e">> ELSE <<"e", "d", "c", "b", "a">>
    IN CHOOSE n \in 1..5 : order[n] = x[3]]
Five == <<AtFront("a", <<>>), AtFront("b", <<1>>), AtFront("c", <<1, 2>>), AtFront("d", <<>>), AtFront("e", <<1, 2, 3, 4>>)>>
Twice == <<AtFront("a", <<>>), [AtFront("b", <<1>>) EXCEPT !.ok = FALSE], AtFront("a", <<2>>)>>
Case(calls, spec, quota, errs) == [calls |-> calls, spec |-> spec, legacy |-> {AtFront("a", <<3>>)}, quota |-> quota, flag |-> "on", errors |-> errs]
\* Bundles asked for again and again; keys; one front and none; vouchers at once,
\* at the quota, across a day and after a sweep; failing accesses.
MCVeilPlan == {
    Case(<<Wants("known"), Wants("known"), Wants("known"), Voucher>>, Five, 0, 0),
    Case(<<Wants("known"), Later(2), Wants("known"), Later(3)>>, Five, 0, 0),
    Case(<<Bound("known", "key", 1), Bound("known", "short", 0), Bound("a", "key", 2), Wants("z")>>, Five, 0, 1),
    Case(<<Wants(""), Bound("", "key", 0), Voucher>>, Twice, 1, 0),
    Case(<<Wants(""), Voucher>>, <<>>, 60, 1),
    [Case(<<Wants(""), Voucher>>, <<>>, 60, 1) EXCEPT !.legacy = {}],
    [Case(<<Wants("known"), Voucher>>, Five, 1, 0) EXCEPT !.flag = "off"],
    Case(<<Voucher, Voucher, Voucher, Later(2), Later(3)>>, Five, 2, 0),
    Case(<<Voucher, Voucher, Later(1), Sweeps, Voucher>>, Five, 1, 1),
    Case(<<Voucher, Later(3), Voucher, Later(2), Voucher, Sweeps>>, Five, 1, 0)}
=============================================================================
