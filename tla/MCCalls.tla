------------------------------ MODULE MCCalls ------------------------------
EXTENDS Calls, TLC
CONSTANTS ann, bob, a1, b1, b2, i1, i2, c1, c2
UserOf == [d \in CallDevice |-> IF d = a1 THEN ann ELSE bob]
AtOne == [d \in CallDevice |-> i1]
AtTwo == [d \in CallDevice |-> IF d = a1 THEN i1 ELSE i2]
F(kind) == [kind |-> kind, call |-> c1]
G(kind) == [kind |-> kind, call |-> c2]
Frames(a, b, c) == [d \in CallDevice |-> IF d = a1 THEN a ELSE IF d = b1 THEN b ELSE c]
Ann == c1 :> [from |-> a1, to |-> bob]
Both == Ann @@ (c2 :> [from |-> b1, to |-> ann])
Again == Ann @@ (c2 :> [from |-> a1, to |-> bob])
Scene(up, home, calls, there, flaky, frames) ==
    [up |-> up, home |-> home, calls |-> calls, there |-> there, flaky |-> flaky, frames |-> frames]

\* An answered call kept alive, by one instance and by two; two devices that answer;
\* a declined call made again; two users who call each other; streams that break.
Scenes == {
    Scene({i1}, AtOne, Ann, {a1, b1}, {}, Frames(<<F("ping"), F("ping")>>, <<F("ringing"), F("connected")>>, <<>>)),
    Scene({i1, i2}, AtTwo, Ann, {a1, b1}, {}, Frames(<<F("ping"), F("connected")>>, <<F("connected")>>, <<>>)),
    Scene({i1}, AtOne, Ann, {a1, b1, b2}, {}, Frames(<<>>, <<F("connected")>>, <<F("connected")>>)),
    Scene({i1}, AtOne, Again, {a1, b1}, {}, Frames(<<>>, <<F("decline"), G("busy")>>, <<>>)),
    Scene({i1}, AtOne, Both, {a1, b1}, {}, Frames(<<F("hangup")>>, <<F("ping")>>, <<>>)),
    Scene({i1}, AtOne, Ann, {a1, b1}, {a1}, Frames(<<>>, <<F("ice")>>, <<>>)),
    Scene({i1, i2}, AtTwo, Ann, {a1, b1}, {b1}, Frames(<<>>, <<F("connected")>>, <<>>))}
=============================================================================
