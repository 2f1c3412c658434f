--------------------------- MODULE MCGroupStream ---------------------------
EXTENDS GroupStream, GroupPools
CONSTANTS ma, mb, adm, usr, kp1, kp2, kp3
G(kind, by, id) == [kind |-> kind, by |-> by, id |-> id]
Msg(by, id) == G("send", by, id)
Joins(d) == G("connect", d, 0)
\* Two sends and a retry under a stream that falls behind, loses its connection or
\* its process; a removal, a revocation and a return; an end; commits read late.
MCStreamPlans == {
    <<Msg(ma, 1), Msg(ma, 2), Msg(ma, 3), Joins(mb), Joins(mb)>>,
    <<Msg(ma, 1), Msg(ma, 1), Joins(mb), G("lose", mb, 0), Joins(mb)>>,
    <<Msg(ma, 1), Msg(mb, 2), Joins(mb), G("restart", ma, 0), Joins(mb)>>,
    <<Msg(ma, 1), G("remove", mb, 0), Joins(mb), Msg(mb, 2)>>,
    <<Msg(ma, 1), G("remove", mb, 0), G("rejoin", mb, 0), Joins(mb), Joins(mb)>>,
    <<Msg(ma, 1), Msg(ma, 2), G("revoke", mb, 0), Joins(mb)>>,
    <<Msg(ma, 1), G("dissolve", ma, 0), Joins(mb), G("remove", mb, 0)>>,
    <<Msg(ma, 1), G("age", ma, 0), Msg(ma, 2), Joins(mb), Joins(mb)>>,
    <<G("commit", ma, 0), G("commit", mb, 0), G("state", mb, 0), G("commits", mb, 0), Msg(ma, 1)>>,
    <<G("commit", ma, 0), G("age", ma, 0), G("state", mb, 0), G("state", mb, -1), G("dissolve", ma, 0), G("remove", mb, 0)>>}

\* Topics, links and key packages.
P(kind, by, arg) == [kind |-> kind, by |-> by, arg |-> arg]
Topic(d) == P("topic", d, 0)
Bring(s) == P("packages", usr, s)
Take == P("consume", adm, 0)
MCPoolPlans == {
    <<Topic(adm), Topic(adm), Topic(usr), P("archive", adm, 1), Topic(adm)>>,
    <<Topic(adm), P("dissolve", adm, 0), P("glink", adm, 0), P("archive", usr, 1)>>,
    <<P("glink", adm, 1), P("hour", adm, 0), P("unlink", adm, 1), P("resolve", usr, 1), P("unlink", usr, 1), P("glink", usr, 0)>>,
    <<Bring(<<kp1, kp2>>), Take, Take, Bring(<<kp1, kp2>>), Take>>,
    <<Bring(<<kp1, kp2, kp3>>), Take, Take, Bring(<<kp1>>), Take>>}
=============================================================================
