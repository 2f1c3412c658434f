------------------------------ MODULE MCMedia ------------------------------
EXTENDS Media
CONSTANTS meg
Mint == [kind |-> "mint", user |-> meg, asked |-> [given |-> FALSE, size |-> 0]]
MintFor(n) == [kind |-> "mint", user |-> meg, asked |-> [given |-> TRUE, size |-> n]]
Up(t, d, sizes, h) == [kind |-> "upload", tok |-> t, data |-> d, sizes |-> sizes, hash |-> h]
Whole(t) == Up(t, "p", <<1, 1>>, "right")
Down(t) == [kind |-> "download", tok |-> t]
Info(t) == [kind |-> "info", tok |-> t]
Wait(n) == [kind |-> "wait", ticks |-> n]
Shelf(calls, errs, cuts) == [calls |-> calls, errors |-> errs, cuts |-> cuts]
\* One upload with everything that fails; retries over a dead or a living one;
\* three at once; wrong hashes, sizes and empty streams; downloads across the
\* expiry; the limiter at its bound, in its window and after a restart.
MCMediaPlan == {
    Shelf(<<Mint, Whole(1), Down(1), Info(1)>>, 1, 1),
    Shelf(<<Mint, Whole(1), Whole(1), Down(1)>>, 0, 1),
    Shelf(<<Mint, Up(1, "p", <<1>>, "right"), Up(1, "q", <<1, 1>>, "none")>>, 1, 0),
    Shelf(<<Mint, Up(1, "p", <<1>>, "wrong"), Up(1, "q", <<1>>, "none")>>, 1, 0),
    Shelf(<<Mint, Up(1, "p", <<1>>, "none"), Up(1, "q", <<1>>, "none"), Up(1, "r", <<1>>, "none")>>, 0, 0),
    Shelf(<<Mint, Whole(1), Wait(4), Down(1), Info(1)>>, 1, 0),
    Shelf(<<Mint, Whole(1), Down(1), Wait(3), Wait(1)>>, 1, 0),
    Shelf(<<Mint, Whole(1), Wait(3), Whole(1), Wait(3)>>, 0, 1),
    Shelf(<<Mint, Mint, Whole(1), Whole(2), Wait(4)>>, 1, 0),
    Shelf(<<Mint, MintFor(9), Mint, Wait(2), Mint, Mint>>, 0, 0),
    Shelf(<<MintFor(1), Whole(1), Up(1, "p", <<0>>, "none"), Up(1, "p", <<>>, "none"), Up(1, "p", <<1>>, "right")>>, 0, 1),
    Shelf(<<Mint, Wait(1), Whole(1), Mint, Wait(2), Whole(4)>>, 0, 1)}
=============================================================================
