------------------------------ MODULE Accounts ------------------------------
(***************************************************************************)
(* identity-service and construct-auth-service: proof-of-work challenges,  *)
(* registration, login and its lockout, usernames and recovery keys.       *)
(*                                                                         *)
(* The calls of a plan run at the same time, each in steps of one locked   *)
(* use of Redis or one database access; all come from one address, which   *)
(* the headers given to the auth service name or not: the handlers of      *)
(* identity-service give it empty headers, for which it counts nothing.  A *)
(* challenge is named after the call that asked for it, an account after   *)
(* the call that registered it; account 0 is there from the start.  The    *)
(* bytes of keys, hashes and signatures, and the tokens a login answers    *)
(* with (module Sessions), are left out.                                   *)
(***************************************************************************)
EXTENDS Integers, Sequences, FiniteSets

CONSTANTS
    AcctPlan,       \* bound: [known, legacy, calls]: whether the headers name an address, the
                    \* recovery key account 0 set before addresses and hybrid keys existed, if
                    \* any, and the calls
    MaxRegs,        \* max_registrations_per_hour
    MaxAsked,       \* max_pow_challenges_per_hour
    MaxFailed,      \* max_failed_login_attempts
    TierSize,       \* challenges of a tier of difficulty (TIER_SIZE)
    FreeRegs,       \* registrations before the difficulty rises (2)
    TopDifficulty,  \* MAX_DIFFICULTY, above a base of 0
    Nil             \* no name, key, address or challenge

VARIABLES
    acctPlan,   \* the plan of this behaviour
    challenge,  \* pow:ch:<c>: [used, difficulty], or Nil
    asked,      \* pow:ipch: the challenges asked for in the last hour
    registered, \* pow:ipreg: the challenges marked used in the last hour
    users,      \* users: accounts and their names
    keyOf,      \* users: recovery_public_key, its ML-DSA half, identity_public_key
    failed,     \* rate:login of the device of account 0: [count, expires]
    locked,     \* blocked:<device of account 0>
    step,       \* step[i]: the progress of call i
    made,       \* history: [call, challenge] of the registrations that made an account
    marked,     \* history: calls that had marked a challenge when a call read it
    crowd,      \* history: registrations, and logins, at work at the same time, at most
    tries,      \* history: wrong signatures checked since the counter was last new
    excused,    \* history: of those, the ones whose count was lost, in Redis or a crash
    stuck       \* history: a process died between INCR and EXPIRE

powVars == <<challenge, asked, registered>>
loginVars == <<failed, locked>>
acctHistory == <<made, marked, crowd, tries, excused, stuck>>
acctVars == <<acctPlan, powVars, users, keyOf, loginVars, step, acctHistory>>

Calls == DOMAIN acctPlan.calls
Ask(i) == acctPlan.calls[i]
Starts(i, kind) == step[i].at = "new" /\ Ask(i).kind = kind
On(i, at) == step[i].at = at
ToStep(i, at) == step' = [step EXCEPT ![i].at = at]
Over(i) == ToStep(i, "over")
AtWork(kind) == {i \in Calls : Ask(i).kind = kind /\ step[i].at \notin {"new", "over"}}

Least(a, b) == IF a < b THEN a ELSE b
Most(a, b) == IF a < b THEN b ELSE a

----------------------------------------------------------------------------
(* get_pow_challenge                                                       *)

\* extract_client_ip, hash_client_ip: "unknown" is not counted.
Known == acctPlan.known

\* count_pow_window
Counted(window) == IF Known THEN Cardinality(window) ELSE 0

\* adaptive_pow_params: two levels for every tier of challenges asked for.
AskedDifficulty(n) == Least(2 * (n \div TierSize), TopDifficulty)

\* adaptive_pow_params_registration: two for every registration past the free ones.
RegDifficulty(n) == Least(2 * Most(n - FreeRegs, 0), TopDifficulty)

\* The limit is read, and the registrations counted ...
CountChallenges(i) ==
    /\ Starts(i, "challenge")
    /\ IF Counted(asked) >= MaxAsked THEN Over(i)
       ELSE step' = [step EXCEPT ![i].at = "create", ![i].seen = asked, ![i].difficulty =
                         Most(AskedDifficulty(Counted(asked)), RegDifficulty(Counted(registered)))]
    /\ UNCHANGED <<acctPlan, powVars, users, keyOf, loginVars, acctHistory>>

\* ... and the challenge stored, in the window of its address.
CreateChallenge(i) ==
    /\ On(i, "create")
    /\ challenge' = [challenge EXCEPT ![i] = [used |-> FALSE, difficulty |-> step[i].difficulty]]
    /\ asked' = IF Known THEN asked \cup {i} ELSE asked
    /\ Over(i)
    /\ UNCHANGED <<acctPlan, registered, users, keyOf, loginVars, acctHistory>>

----------------------------------------------------------------------------
(* register_device_core                                                    *)

RegsFull == Counted(registered) >= MaxRegs

\* The limit, and the shape of the request.
CountRegistrations(i) ==
    /\ Starts(i, "register")
    /\ IF RegsFull THEN Over(i) /\ UNCHANGED crowd
       ELSE /\ ToStep(i, "device?")
            /\ crowd' = [crowd EXCEPT !.register = Most(@, Cardinality(AtWork("register")) + 1)]
    /\ UNCHANGED <<acctPlan, powVars, users, keyOf, loginVars, made, marked, tries, excused, stuck>>

DeviceTaken(i) == \E u \in users : u.device = Ask(i).device

\* device_exists
CheckDevice(i) ==
    /\ On(i, "device?")
    /\ IF DeviceTaken(i) THEN Over(i) ELSE ToStep(i, "challenge?")
    /\ UNCHANGED <<acctPlan, powVars, users, keyOf, loginVars, acctHistory>>

\* verify_pow_solution, of a client that solved what it was asked: a challenge is
\* solved at its own difficulty.
Solved(i) == challenge[Ask(i).challenge] # Nil

\* The challenge is there, not expired, not used, and solved.
CheckChallenge(i) ==
    LET c == Ask(i).challenge IN
    /\ On(i, "challenge?")
    /\ IF Solved(i) /\ ~challenge[c].used
       THEN /\ ToStep(i, "mark")
            /\ marked' = [marked EXCEPT ![i] = {j \in Calls : Ask(j).kind = "register"
                              /\ Ask(j).challenge = c /\ step[j].marked}]
       ELSE Over(i) /\ UNCHANGED marked
    /\ UNCHANGED <<acctPlan, powVars, users, keyOf, loginVars, made, crowd, tries, excused, stuck>>

\* Mutant: the challenge is counted but stays usable.
MarkChallengeCounts(i) ==
    /\ On(i, "mark")
    /\ registered' = IF challenge[Ask(i).challenge] = Nil \/ ~Known THEN registered ELSE registered \cup {Ask(i).challenge}
    /\ step' = [step EXCEPT ![i].at = "name?", ![i].marked = TRUE]
    /\ UNCHANGED <<acctPlan, challenge, asked, users, keyOf, loginVars, acctHistory>>

\* mark_pow_challenge_used; one that expired meanwhile is left alone.
MarkChallenge(i) ==
    LET c == Ask(i).challenge IN
    /\ On(i, "mark")
    /\ challenge' = [challenge EXCEPT ![c] = IF @ = Nil THEN Nil ELSE [@ EXCEPT !.used = TRUE]]
    /\ registered' = IF challenge[c] = Nil \/ ~Known THEN registered ELSE registered \cup {c}
    /\ step' = [step EXCEPT ![i].at = "name?", ![i].marked = TRUE]
    /\ UNCHANGED <<acctPlan, asked, users, keyOf, loginVars, acctHistory>>

NameTaken(n, u) == n # Nil /\ \E v \in users : v.id # u /\ v.name = n

\* get_user_by_username_hash
CheckName(i) ==
    /\ On(i, "name?")
    /\ IF NameTaken(Ask(i).name, i) THEN Over(i) ELSE ToStep(i, "insert user")
    /\ UNCHANGED <<acctPlan, powVars, users, keyOf, loginVars, acctHistory>>

\* idx_users_username_hash: a unique index.
NameFree(n, u) == ~NameTaken(n, u)

\* create_user_with_first_device: one transaction, refused by a unique index.
InsertUser(i) ==
    /\ On(i, "insert user")
    /\ IF DeviceTaken(i) \/ ~NameFree(Ask(i).name, i) THEN UNCHANGED <<users, made>>
       ELSE /\ users' = users \cup {[id |-> i, device |-> Ask(i).device, name |-> Ask(i).name]}
            /\ made' = made \cup {[call |-> i, challenge |-> Ask(i).challenge]}
    /\ Over(i)
    /\ UNCHANGED <<acctPlan, powVars, keyOf, loginVars, marked, crowd, tries, excused, stuck>>

----------------------------------------------------------------------------
(* authenticate_device_core, of the device of account 0                    *)

\* is_user_blocked; an error of Redis lets the attempt through.
CheckBlocked(i) ==
    /\ Starts(i, "login")
    /\ IF locked THEN Over(i) /\ UNCHANGED crowd
       ELSE /\ ToStep(i, "verify")
            /\ crowd' = [crowd EXCEPT !.login = Most(@, Cardinality(AtWork("login")) + 1)]
    /\ UNCHANGED <<acctPlan, powVars, users, keyOf, loginVars, made, marked, tries, excused, stuck>>

\* The signature: the counter is reset, or counts the failure.
VerifyLogin(i) ==
    /\ On(i, "verify")
    /\ IF Ask(i).good
       THEN /\ failed' = [count |-> 0, expires |-> FALSE]
            /\ tries' = 0 /\ excused' = 0
            /\ Over(i)
       ELSE /\ tries' = tries + 1
            /\ ToStep(i, "count failure")
            /\ UNCHANGED <<failed, excused>>
    /\ UNCHANGED <<acctPlan, powVars, users, keyOf, locked, made, marked, crowd, stuck>>

\* increment_failed_login_count: INCR, or an error that is logged.
CountFailure(i) ==
    /\ On(i, "count failure")
    /\ \/ /\ failed' = [failed EXCEPT !.count = @ + 1]
          /\ step' = [step EXCEPT ![i].at = "apply", ![i].count = failed.count + 1]
          /\ UNCHANGED excused
       \/ /\ Ask(i).flaky
          /\ excused' = excused + 1
          /\ Over(i) /\ UNCHANGED failed
    /\ UNCHANGED <<acctPlan, powVars, users, keyOf, locked, made, marked, crowd, tries, stuck>>

\* Mutant: the block comes one failure late.
ReachedLater(n) == n > MaxFailed

Reached(n) == n >= MaxFailed

\* EXPIRE, of the first failure of a window; a key that is gone takes none.
ExpirySet(n) == IF n = 1 THEN failed.count > 0 ELSE failed.expires

\* ... and block_user_temporarily at the limit.
ApplyBlock(i) ==
    /\ On(i, "apply")
    /\ failed' = [failed EXCEPT !.expires = ExpirySet(step[i].count)]
    /\ locked' = (locked \/ Reached(step[i].count))
    /\ Over(i)
    /\ UNCHANGED <<acctPlan, powVars, users, keyOf, made, marked, crowd, tries, excused, stuck>>

\* The process dies before it sets the expiry and the block.
DiesCounting(i) ==
    /\ On(i, "apply") /\ Ask(i).flaky
    /\ excused' = excused + 1
    /\ stuck' = (stuck \/ step[i].count = 1)
    /\ Over(i)
    /\ UNCHANGED <<acctPlan, powVars, users, keyOf, loginVars, made, marked, crowd, tries>>

----------------------------------------------------------------------------
(* update_user_profile                                                     *)

ReadName(i) ==
    /\ Starts(i, "rename")
    /\ IF NameTaken(Ask(i).name, 0) THEN Over(i) ELSE ToStep(i, "write name")
    /\ UNCHANGED <<acctPlan, powVars, users, keyOf, loginVars, acctHistory>>

\* update_user_username
WriteName(i) ==
    /\ On(i, "write name")
    /\ users' = IF NameFree(Ask(i).name, 0)
                THEN {IF u.id = 0 THEN [u EXCEPT !.name = Ask(i).name] ELSE u : u \in users}
                ELSE users
    /\ Over(i)
    /\ UNCHANGED <<acctPlan, powVars, keyOf, loginVars, acctHistory>>

----------------------------------------------------------------------------
(* set_recovery_key, recover_account's upgrade, backfill_account_addresses *)

\* The stored key decides: the same one is answered, its missing half is added,
\* another is refused, and an account without one gets it.
ReadKey(i) ==
    /\ Starts(i, "set key")
    /\ ToStep(i, CASE keyOf.ed = Nil -> "write key"
                   [] keyOf.ed = Ask(i).key /\ keyOf.mldsa = Nil -> "write half"
                   [] OTHER -> "over")
    /\ UNCHANGED <<acctPlan, powVars, users, keyOf, loginVars, acctHistory>>

\* check_recovery_key_immutable, a trigger.
KeyMayChange(k) == keyOf.ed \in {Nil, k}

\* UPDATE ... WHERE id: key, half and address in one statement.
WriteKey(i) ==
    LET k == Ask(i).key IN
    /\ On(i, "write key")
    /\ keyOf' = IF KeyMayChange(k) THEN [ed |-> k, mldsa |-> k, address |-> k] ELSE keyOf
    /\ Over(i)
    /\ UNCHANGED <<acctPlan, powVars, users, loginVars, acctHistory>>

\* UPDATE ... WHERE recovery_mldsa_public_key IS NULL: by a setup, or by a
\* recovery that presented the whole key.
WriteHalf(i) ==
    /\ On(i, "write half") \/ (Starts(i, "recover") /\ keyOf.ed = Ask(i).key)
    /\ keyOf' = IF keyOf.mldsa = Nil THEN [keyOf EXCEPT !.mldsa = Ask(i).key] ELSE keyOf
    /\ Over(i)
    /\ UNCHANGED <<acctPlan, powVars, users, loginVars, acctHistory>>

\* The accounts whose address is not their key are listed ...
ListBackfill(i) ==
    /\ Starts(i, "backfill")
    /\ IF keyOf.ed # Nil /\ keyOf.address # keyOf.ed
       THEN step' = [step EXCEPT ![i].at = "backfill", ![i].key = keyOf.ed] ELSE Over(i)
    /\ UNCHANGED <<acctPlan, powVars, users, keyOf, loginVars, acctHistory>>

\* ... and written, where the key is still the one read.
WriteBackfill(i) ==
    /\ On(i, "backfill")
    /\ keyOf' = IF keyOf.ed = step[i].key THEN [keyOf EXCEPT !.address = keyOf.ed] ELSE keyOf
    /\ Over(i)
    /\ UNCHANGED <<acctPlan, powVars, users, loginVars, acctHistory>>

----------------------------------------------------------------------------

\* An hour passes between calls: challenges, windows, counters and blocks expire; a
\* counter without an expiry stays.
HourPasses(i) ==
    /\ Starts(i, "hour")
    /\ \A k \in {"register", "login", "challenge"} : AtWork(k) = {}
    /\ challenge' = [c \in Calls |-> Nil]
    /\ asked' = {} /\ registered' = {}
    /\ failed' = IF failed.expires THEN [count |-> 0, expires |-> FALSE] ELSE failed
    /\ locked' = FALSE
    /\ crowd' = [register |-> 0, login |-> 0]
    /\ tries' = 0 /\ excused' = 0
    /\ Over(i)
    /\ UNCHANGED <<acctPlan, users, keyOf, made, marked, stuck>>

\* A challenge expires, ten minutes after it was made, while calls are at work.
ChallengeExpires(i) ==
    /\ Starts(i, "expire")
    /\ challenge' = [challenge EXCEPT ![Ask(i).challenge] = Nil]
    /\ Over(i)
    /\ UNCHANGED <<acctPlan, asked, registered, users, keyOf, loginVars, acctHistory>>

AccountsInit ==
    /\ acctPlan \in AcctPlan
    /\ challenge = [c \in Calls |-> Nil]
    /\ asked = {} /\ registered = {}
    /\ users = {[id |-> 0, device |-> "d0", name |-> Nil]}
    /\ keyOf = [ed |-> acctPlan.legacy, mldsa |-> Nil, address |-> Nil]
    /\ failed = [count |-> 0, expires |-> FALSE] /\ locked = FALSE
    /\ step = [i \in Calls |-> [at |-> "new", difficulty |-> 0, count |-> 0, marked |-> FALSE,
                             key |-> Nil, seen |-> {}]]
    /\ made = {} /\ marked = [i \in Calls |-> {}]
    /\ crowd = [register |-> 0, login |-> 0]
    /\ tries = 0 /\ excused = 0 /\ stuck = FALSE

RegisterStep(i) ==
    \/ CountChallenges(i) \/ CreateChallenge(i) \/ CountRegistrations(i) \/ CheckDevice(i)
    \/ CheckChallenge(i) \/ MarkChallenge(i) \/ CheckName(i) \/ InsertUser(i) \/ ChallengeExpires(i)

LoginStep(i) ==
    CheckBlocked(i) \/ VerifyLogin(i) \/ CountFailure(i) \/ ApplyBlock(i) \/ DiesCounting(i)

ProfileStep(i) ==
    \/ ReadName(i) \/ WriteName(i) \/ ReadKey(i) \/ WriteKey(i) \/ WriteHalf(i)
    \/ ListBackfill(i) \/ WriteBackfill(i)

AccountsNext ==
    \E i \in Calls : RegisterStep(i) \/ LoginStep(i) \/ ProfileStep(i) \/ HourPasses(i)

AccountsSpec == AccountsInit /\ [][AccountsNext]_acctVars

----------------------------------------------------------------------------
(* Properties                                                              *)

\* Redis and the rows have their shape; a counter of failures without an expiry is
\* one that counts nothing, is being counted, or lost its process before EXPIRE.
AccountsTypeOK ==
    /\ asked \subseteq Calls /\ registered \subseteq Calls
    /\ \A c \in Calls : challenge[c] = Nil \/ challenge[c].difficulty \in 0 .. TopDifficulty
    /\ failed.expires => failed.count > 0
    /\ failed.count > 0 /\ ~failed.expires => stuck \/ \E i \in Calls : On(i, "apply")

\* Two accounts come from one solved challenge only when each registration read it
\* before the other had marked it: register_device_core reads and marks in two uses
\* of Redis.
ChallengeSpentOnce ==
    \A m, n \in made : m.challenge = n.challenge /\ m # n => m.call \notin marked[n.call]

\* The counted registrations of an hour pass the limit by those at work at the same
\* time, and by no more: the window is counted before it is added to.
RegistrationsBounded == Cardinality(registered) <= Most(MaxRegs - 1 + crowd.register, MaxRegs)

\* What the limit is for: the accounts one address makes in an hour, whose calls the
\* handlers of identity-service pass on (register_device_core: "max {} registrations
\* per hour from this IP").
AccountsBounded == Cardinality(made) <= Most(MaxRegs - 1 + crowd.register, MaxRegs)

\* While an hour's windows grow, the work asked for does not fall: of two challenges
\* in the window, the one that was counted after the other is as hard or harder.
WorkNeverFalls ==
    \A c, d \in asked : challenge[c] # Nil /\ challenge[d] # Nil /\ c \in step[d].seen =>
        challenge[c].difficulty <= challenge[d].difficulty

\* A name belongs to one account, though registration and rename look first and
\* write later.
NamesUnique == \A u, v \in users : u.name = v.name /\ u.name # Nil => u = v

\* Lockout: the wrong signatures of a window pass the limit by the logins at work at
\* the same time, and those whose count was lost, and by no more.
LockoutHolds == tries <= Most(MaxFailed - 1 + crowd.login, MaxFailed) + excused

\* An account is addressed by its recovery key, once it has one, except where the
\* key was set before addresses existed and the backfill has not come to it.
AddressIsKey == keyOf.address # Nil => keyOf.address = keyOf.ed

\* A recovery key, and its ML-DSA half, never change once set, whichever of two
\* setups, a recovery and the backfill write in the end.
RecoveryKeyKept ==
    [][/\ keyOf.ed # Nil => keyOf'.ed = keyOf.ed
       /\ keyOf.mldsa # Nil => keyOf'.mldsa = keyOf.mldsa]_keyOf

\* What was claimed stays with its claimant: a challenge with its registration, a
\* name and an address with one account, a recovery key with the account it was
\* set for.
ClaimsStand == [](ChallengeSpentOnce /\ NamesUnique /\ AddressIsKey) /\ RecoveryKeyKept

\* The limits of an address are passed by the calls in progress at once and by no
\* more, and while they are approached the work asked for never falls.
AccountLimits == RegistrationsBounded /\ LockoutHolds /\ WorkNeverFalls

=============================================================================
