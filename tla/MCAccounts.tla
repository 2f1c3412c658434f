----------------------------- MODULE MCAccounts -----------------------------
EXTENDS Accounts
CONSTANTS n1, n2, ak1, ak2
Challenge == [kind |-> "challenge"]
Register(c, d, n) == [kind |-> "register", challenge |-> c, device |-> d, name |-> n]
Expire(c) == [kind |-> "expire", challenge |-> c]
Login(good, flaky) == [kind |-> "login", good |-> good, flaky |-> flaky]
Rename(n) == [kind |-> "rename", name |-> n]
Key(kind, k) == [kind |-> kind, key |-> k]
Backfill == [kind |-> "backfill"]
Hour == [kind |-> "hour"]
Newcomer(calls) == [known |-> TRUE, legacy |-> Nil, calls |-> calls]
Blind(calls) == [known |-> FALSE, legacy |-> Nil, calls |-> calls]
Old(calls) == [known |-> FALSE, legacy |-> ak1, calls |-> calls]
\* Registrations with one challenge and with several, for one name and one device;
\* limits reached and passed; a window that ends; wrong signatures at the same time,
\* lost counts, a login that succeeds among them; names and keys set by two calls.
AccountPlans == {
    Newcomer(<<Challenge, Register(1, "d1", n1), Register(1, "d2", n2), Register(1, "d1", Nil)>>),
    Newcomer(<<Challenge, Challenge, Register(1, "d1", n1), Register(2, "d2", n1), Expire(1)>>),
    Newcomer(<<Challenge, Challenge, Challenge, Register(1, "d1", Nil), Register(2, "d2", Nil), Register(3, "d3", Nil)>>),
    Blind(<<Challenge, Register(1, "d1", n1), Rename(n1), Rename(Nil), Hour>>),
    Blind(<<Login(FALSE, FALSE), Login(FALSE, TRUE), Login(FALSE, FALSE), Login(TRUE, FALSE), Hour>>),
    Blind(<<Login(FALSE, FALSE), Login(FALSE, FALSE), Login(FALSE, FALSE), Login(FALSE, FALSE)>>),
    Blind(<<Key("set key", ak1), Key("set key", ak2), Key("recover", ak1), Backfill>>),
    Old(<<Key("set key", ak1), Key("set key", ak2), Key("recover", ak1), Backfill>>)}
\* As the service calls the crate: three registrations, each with its challenge.
ServicePlans == {Blind(<<Challenge, Challenge, Challenge, Register(1, "d1", Nil), Register(2, "d2", Nil), Register(3, "d3", Nil)>>)}
=============================================================================
