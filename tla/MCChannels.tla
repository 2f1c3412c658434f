----------------------------- MODULE MCChannels -----------------------------
EXTENDS Channels
CONSTANTS ada, ben, cyd
X(kind, by, chan, ref, arg) == [kind |-> kind, by |-> by, chan |-> chan, ref |-> ref, arg |-> arg]
Create(private, cap, days) == X("create", ada, 0, 0, [private |-> private, cap |-> cap, days |-> days])
Open1 == Create(FALSE, 0, 2)
Enter(d, t) == X("subscribe", d, 1, t, <<>>)
Leave(d, rotate) == X("unsubscribe", d, 1, 0, [rotate |-> rotate])
PublishPost(d, thread) == X("publish", d, 1, 0, [thread |-> thread, msg |-> 0])
List(d, limit, thread, since, until) ==
    X("list", d, 1, 0, [limit |-> limit, thread |-> thread, since |-> since, until |-> until])
All(d) == List(d, 1, 0, 0, 0)
MySubs(d) == X("mine", d, 0, 0, [limit |-> 1])
Comment(d, p) == X("comment", d, 1, p, <<>>)
On1(kind, d, ref) == X(kind, d, 1, ref, <<>>)
Admin(kind, d, e) == X(kind, d, 1, 0, [dev |-> e])
Link(max, ttl) == X("link", ada, 1, 0, [max |-> max, ttl |-> ttl])
Shown(d, private) == X("visibility", d, 1, 0, [private |-> private])
Day == X("day", ada, 0, 0, <<>>)

\* The last place, and a device that comes, goes and comes back; a link with one
\* use, revoked or ended as it is used; posts published, deleted and expiring under
\* a listing; first comments that overlap; admins made and unmade; a channel
\* deleted under everything; requests beyond the limits, and of others than its owner.
MCChanPlans == {
    <<Create(FALSE, 2, 0), Enter(ben, 0), Enter(cyd, 0), Enter(ben, 0), Leave(ben, TRUE), Leave(ada, FALSE)>>,
    <<Create(TRUE, 0, 1), Link(1, 0), Enter(ben, 2), Enter(cyd, 2), On1("revoke", ada, 2)>>,
    <<Create(TRUE, 0, 1), Link(2, 1), Enter(ben, 2), Enter(cyd, 2), Day, Shown(ada, FALSE)>>,
    <<Create(TRUE, 2, 1), Link(0, 0), Enter(ben, 2), Enter(cyd, 2), On1("delete", ada, 0), Enter(cyd, 0)>>,
    <<Open1, PublishPost(ada, 1), PublishPost(ada, 0), PublishPost(ada, 1), All(ada)>>,
    <<Create(FALSE, 0, 1), PublishPost(ada, 0), PublishPost(ada, 0), Day, On1("unpost", ada, 2), All(ada)>>,
    <<Open1, PublishPost(ada, 1), PublishPost(ada, 2), List(ada, 0, 1, 1, 2), List(ada, 1, 1, 0, 0), List(ada, 1, 0, 2, 0)>>,
    <<Open1, PublishPost(ada, 0), Enter(ben, 0), Comment(ada, 2), Comment(ben, 2), Comment(ben, 2)>>,
    <<Open1, PublishPost(ada, 0), On1("get", ben, 2), On1("unpost", ben, 2), On1("delete", ada, 0), Comment(ada, 2)>>,
    <<Open1, Enter(ben, 0), Admin("add", ada, ben), PublishPost(ben, 0), Admin("remove", ada, ben), Admin("remove", ada, ada)>>,
    <<Open1, PublishPost(ada, 0), PublishPost(ada, 0), On1("delete", ada, 0), On1("update", ada, 0), All(ben)>>,
    <<Open1, Open1, Create(FALSE, 0, 9), MySubs(ada), Shown(ben, TRUE)>>,
    <<Open1, Open1, Open1, Enter(ben, 0), X("subscribe", ben, 2, 0, <<>>), MySubs(ben)>>,
    <<Open1, Open1, Open1, Open1>>,
    <<Open1, On1("update", ben, 0), On1("delete", ben, 0), Admin("add", ben, cyd), Admin("remove", ben, ada),
      X("link", ben, 1, 0, [max |-> 1, ttl |-> 0])>>}
\* Pages with an end and no start, which the passing run leaves out.
MCUntilPlans == {<<Open1, PublishPost(ada, 1), PublishPost(ada, 2), List(ada, 0, 1, 0, 1)>>}
=============================================================================
