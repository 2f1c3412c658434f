------------------------------- MODULE MCKeys -------------------------------
EXTENDS Keys, TLC
CONSTANTS phone, tablet, k1, k2, k3
FetchKeys(devs, who, wants) == [op |-> "fetch", devs |-> devs, who |-> who, wants |-> wants]
Upload(ids, kinds, replace, again, spk, hybrid) ==
    [op |-> "upload", dev |-> phone, ids |-> ids, kinds |-> kinds, replace |-> replace,
     again |-> again, spk |-> spk, hybrid |-> hybrid]
Rotate(spk, hybrid) == [op |-> "rotate", dev |-> phone, spk |-> spk, hybrid |-> hybrid]
FetchOne == FetchKeys({phone}, "peer", TRUE)
FetchTablet == FetchKeys({tablet}, "peer", TRUE)
FetchOwn == FetchKeys({phone, tablet}, "self", TRUE)
Add == Upload({4}, KeyKind, FALSE, FALSE, "none", "none")
Resend == Upload({4}, KeyKind, FALSE, TRUE, "none", "none")
ReplaceNew == Upload({4}, KeyKind, TRUE, FALSE, "none", "none")
Replace == Upload({1}, KeyKind, TRUE, FALSE, "none", "none")
Publish == Upload({}, {}, FALSE, FALSE, "both", "signed")
PublishAll == Upload({4}, KeyKind, TRUE, FALSE, "both", "signed")
PublishBad == Upload({}, {}, FALSE, FALSE, "refused", "none")
Rebind == Upload({}, {}, FALSE, FALSE, "none", "stale")

\* Three calls each: fetches that drain the account, fetches around an upload
\* and its repetition, and the ways a device changes its keys.
Plans == {[c \in KeyCall |-> p[CASE c = k1 -> 1 [] c = k2 -> 2 [] c = k3 -> 3]] : p \in
    {<<FetchTablet, FetchTablet, FetchTablet>>, <<FetchOwn, Publish, Rotate("classic", "none")>>, <<FetchOne, Rebind, FetchOne>>,
     <<ReplaceNew, FetchOne, Resend>>, <<FetchOne, Replace, Replace>>, <<PublishBad, PublishAll, Rotate("classic", "none")>>, <<Add, Replace, FetchOne>>,
     <<Publish, Rotate("both", "signed"), Rotate("classic", "none")>>,
     <<Rebind, Rotate("both", "signed"), Publish>>, <<Rotate("refused", "none"), Publish, Add>>}}
=============================================================================
