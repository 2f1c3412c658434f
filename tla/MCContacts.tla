----------------------------- MODULE MCContacts -----------------------------
EXTENDS Contacts
CONSTANTS ann, bob, cat
C(kind, by, peer) == [kind |-> kind, by |-> by, peer |-> peer]
Send == C("send", ann, bob)
\* Overlapping and repeated sends; two answers to one request; an answer and a
\* decline, with sends about; invites redeemed, revoked and redeemed again;
\* deletions in the middle of all of them; requests that go stale.
ContactPlans == {
    <<Send, Send, C("accept", bob, ann), C("ack", ann, bob)>>,
    <<Send, Send, C("decline", bob, ann), C("unblock", bob, ann)>>,
    <<Send, C("accept", bob, ann), C("decline", bob, ann), C("send", bob, ann)>>,
    <<Send, C("hide", bob, bob), C("show", bob, bob), C("block", bob, ann), Send>>,
    <<Send, C("accept", bob, ann), C("month", ann, ann), Send>>,
    <<C("redeem", bob, ann), C("redeem", cat, ann), C("revoke", ann, ann), C("delete me", bob, bob)>>,
    <<C("redeem", bob, ann), C("redeem", ann, bob), C("delete me", ann, ann), Send>>,
    <<Send, Send, C("decline", bob, ann), C("accept", bob, ann), Send>>,
    <<C("block", bob, ann), C("unblock", bob, ann), Send, C("decline", bob, ann), C("delete me", ann, ann)>>,
    <<Send, C("redeem", bob, ann), C("accept", bob, ann), C("delete me", bob, bob)>>}
=============================================================================
