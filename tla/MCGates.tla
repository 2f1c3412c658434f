------------------------------ MODULE MCGates ------------------------------
EXTENDS Gates
CONSTANTS eva, fay, ka, kb, ta, tb, ua
SealedSend(to, cred, token, spend) == [kind |-> "send", to |-> to, cred |-> cred, token |-> token, spend |-> spend]
PublishKey(gen, key, epochs) == [kind |-> "publish", to |-> eva, gen |-> gen, key |-> key, epochs |-> epochs]
Issue(n) == [kind |-> "issue", n |-> n]
Tick(kind) == [kind |-> kind]
G(policy, configured, full, errs, old, calls) ==
    [policy |-> policy, configured |-> configured, full |-> full, errors |-> errs, old |-> old, calls |-> calls]
Enforced(errs, calls) == G("enforce", TRUE, FALSE, errs, {}, calls)
\* The same token twice, for one unit and for two recipients; units that run out
\* and expire; sends about a rotation and a day's end; malformed fields; the door
\* with Redis failing; issuance with a race for the last tokens.
MCGatePlans == {
    Enforced(1, <<SealedSend(eva, NoCred, ta, NoSpend), SealedSend(fay, NoCred, ta, NoSpend), SealedSend(eva, NoCred, tb, ua)>>),
    Enforced(1, <<SealedSend(eva, NoCred, ta, ua), SealedSend(eva, NoCred, NoToken, ua), SealedSend(fay, NoCred, NoToken, ua), Tick("minute")>>),
    Enforced(0, <<SealedSend(eva, NoCred, ta, ua), SealedSend(eva, NoCred, tb, ua), SealedSend(eva, NoCred, NoToken, ua), Tick("hours")>>),
    Enforced(0, <<PublishKey(1, ka, <<1, 2>>), PublishKey(2, kb, <<1, 2>>), PublishKey(1, ka, <<1, 2, 3>>), SealedSend(eva, ka, NoToken, NoSpend)>>),
    Enforced(1, <<PublishKey(1, ka, <<0, 1>>), PublishKey(1, kb, <<1, 2>>), Tick("day"), SealedSend(eva, ka, ta, NoSpend)>>),
    G("enforce", TRUE, FALSE, 0, {ka}, <<PublishKey(0, kb, <<1, 2>>), PublishKey(1, kb, <<1>>), Tick("day"), SealedSend(eva, ka, BadToken, NoSpend)>>),
    G("warn", TRUE, FALSE, 1, {}, <<SealedSend(eva, ka, NoToken, BadSpend), SealedSend(Nobody, ka, ta, NoSpend), SealedSend(eva, Unopened, NoToken, ua)>>),
    G("enforce", FALSE, FALSE, 0, {}, <<SealedSend(eva, ka, ta, NoSpend), SealedSend(eva, Misfit, ta, NoSpend)>>),
    G("off", TRUE, FALSE, 1, {}, <<SealedSend(eva, Misfit, NoToken, NoSpend), SealedSend(Nobody, NoCred, NoToken, NoSpend)>>),
    G("off", TRUE, FALSE, 3, {}, <<SealedSend(eva, NoCred, NoToken, NoSpend), SealedSend(eva, NoCred, NoToken, NoSpend), SealedSend(eva, NoCred, NoToken, NoSpend), Tick("minute")>>),
    G("off", TRUE, TRUE, 2, {}, <<SealedSend(eva, NoCred, NoToken, NoSpend), SealedSend(eva, NoCred, NoToken, NoSpend), SealedSend(eva, Misfit, NoToken, NoSpend)>>),
    Enforced(0, <<Issue(2), Issue(1), Issue(1), Issue(3)>>),
    Enforced(1, <<Issue(0), Issue(2), Issue(3), Tick("grow"), Tick("hours")>>),
    Enforced(0, <<SealedSend(eva, Misfit, BadToken, NoSpend), SealedSend(eva, NoCred, BadToken, ua)>>),
    Enforced(1, <<PublishKey(1, ka, <<1, 2>>), SealedSend(eva, ka, NoToken, NoSpend)>>)}
=============================================================================
