---------------------------- MODULE GroupPools ----------------------------
(***************************************************************************)
(* group-service: a group's topics and invite links, and the key packages  *)
(* devices leave for those who add them to groups.                         *)
(*                                                                         *)
(* The calls of a plan run at the same time, in steps of one database      *)
(* access.  Topics and links are named after the call that made them.      *)
(* Admin proofs, tokens, names and blobs are left out; an admin stays one,  *)
(* and packages do not expire.                                             *)
(***************************************************************************)
EXTENDS Integers, Sequences, FiniteSets

CONSTANTS
    PoolPlan,    \* bound: sequences of calls, [kind, by, arg]
    GroupAdmin,  \* devices that are creator or admin
    Package,     \* key packages, by their hash
    TopicMax,    \* active topics a group may have (50)
    LowMark,     \* packages below which the owner is nudged (20)
    MaxPoolCuts  \* bound: calls dropped half-way

VARIABLES
    poolPlan,   \* the calls of this behaviour
    ended,      \* dissolved_at is set
    topic,      \* group_topics: [id, archived]
    glink,      \* group_invite_links: [id, ends, revoked]
    pkg,        \* group_key_packages of one device: [ref, at]
    hour,       \* time
    pcall,      \* the progress of each call
    nudge,      \* background counts still to run, by the call that started them
    handedOut,      \* history: <<package, call>> for each package handed out
    again,      \* history: packages published again after they were handed out
    crowded,    \* history: topics counted while another creation was between its steps
    lateMade,   \* history: calls begun after the end that made something
    nudged,     \* history: the owner was nudged since the last package came
    takenSince, \* history: a package was taken since the last one came
    dropped         \* history: calls dropped half-way, nudges included

poolTables == <<ended, topic, glink, pkg, hour>>
poolHistory == <<handedOut, again, crowded, lateMade, nudged, takenSince, dropped>>
poolVars == <<poolPlan, poolTables, pcall, nudge, poolHistory>>

PCalls == DOMAIN poolPlan
PKind(i) == poolPlan[i].kind
PBy(i) == poolPlan[i].by
PArg(i) == poolPlan[i].arg
PAt(i, at) == pcall[i].at = at
PTo(i, at) == pcall' = [pcall EXCEPT ![i].at = at]
PDone(i, ok) == pcall' = [pcall EXCEPT ![i].at = "done", ![i].ok = ok]

PBegins(i) ==
    /\ PAt(i, "new")
    /\ PKind(i) \in {"archive", "unlink"} => PAt(PArg(i), "done")
    /\ pcall' = [pcall EXCEPT ![i].at = PKind(i), ![i].late = ended]
    /\ UNCHANGED <<poolPlan, poolTables, nudge, poolHistory>>

\* check_group_admin and the proof.
PAdmin(i, at) == IF PBy(i) \in GroupAdmin THEN PTo(i, at) ELSE PDone(i, FALSE)
NotesMade(i) == lateMade' = IF pcall[i].late THEN lateMade \cup {i} ELSE lateMade

----------------------------------------------------------------------------
(* create_topic, archive_topic                                             *)

\* get_group_dissolved_at
StillOpen == ~ended

TopicChecksGroup(i) ==
    /\ PAt(i, "topic")
    /\ IF StillOpen THEN PTo(i, "topic admin") ELSE PDone(i, FALSE)
    /\ UNCHANGED <<poolPlan, poolTables, nudge, poolHistory>>

TopicChecksAdmin(i) ==
    /\ PAt(i, "topic admin") /\ PAdmin(i, "topic count")
    /\ UNCHANGED <<poolPlan, poolTables, nudge, poolHistory>>

ActiveTopics == {t \in topic : ~t.archived}
\* count_active_topics against the maximum.
TopicRoom == Cardinality(ActiveTopics) < TopicMax

TopicCounts(i) ==
    LET others == {j \in PCalls \ {i} : PAt(j, "topic insert")} IN
    /\ PAt(i, "topic count")
    /\ IF TopicRoom THEN PTo(i, "topic insert") ELSE PDone(i, FALSE)
    /\ crowded' = IF TopicRoom /\ others # {} THEN crowded \cup {i} ELSE crowded
    /\ UNCHANGED <<poolPlan, poolTables, nudge, handedOut, again, lateMade, nudged, takenSince, dropped>>

\* create_topic_record
TopicInserts(i) ==
    /\ PAt(i, "topic insert")
    /\ topic' = topic \cup {[id |-> i, archived |-> FALSE]}
    /\ NotesMade(i)
    /\ PDone(i, TRUE)
    /\ UNCHANGED <<poolPlan, ended, glink, pkg, hour, nudge, handedOut, again, crowded, nudged, takenSince, dropped>>

ArchiveChecks(i) ==
    /\ PAt(i, "archive") /\ PAdmin(i, "archive row")
    /\ UNCHANGED <<poolPlan, poolTables, nudge, poolHistory>>

\* archive_topic_record
ArchiveMarks(i) ==
    LET hit == {t \in ActiveTopics : t.id = PArg(i)} IN
    /\ PAt(i, "archive row")
    /\ topic' = (topic \ hit) \cup {[t EXCEPT !.archived = TRUE] : t \in hit}
    /\ PDone(i, hit # {})
    /\ UNCHANGED <<poolPlan, ended, glink, pkg, hour, nudge, poolHistory>>

----------------------------------------------------------------------------
(* create_invite_link, revoke_invite_link, resolve_invite_link             *)

GLinkChecksGroup(i) ==
    /\ PAt(i, "glink")
    /\ IF StillOpen THEN PTo(i, "glink admin") ELSE PDone(i, FALSE)
    /\ UNCHANGED <<poolPlan, poolTables, nudge, poolHistory>>

GLinkChecksAdmin(i) ==
    /\ PAt(i, "glink admin") /\ PAdmin(i, "glink insert")
    /\ UNCHANGED <<poolPlan, poolTables, nudge, poolHistory>>

\* create_invite_link_record; 0 never ends.
GLinkInserts(i) ==
    /\ PAt(i, "glink insert")
    /\ glink' = glink \cup {[id |-> i, ends |-> IF PArg(i) = 0 THEN 0 ELSE hour + PArg(i), revoked |-> FALSE]}
    /\ NotesMade(i)
    /\ PDone(i, TRUE)
    /\ UNCHANGED <<poolPlan, ended, topic, pkg, hour, nudge, handedOut, again, crowded, nudged, takenSince, dropped>>

UnlinkChecks(i) ==
    /\ PAt(i, "unlink") /\ PAdmin(i, "unlink row")
    /\ UNCHANGED <<poolPlan, poolTables, nudge, poolHistory>>

\* revoke_invite_link_record
UnlinkMarks(i) ==
    LET hit == {t \in glink : t.id = PArg(i) /\ ~t.revoked} IN
    /\ PAt(i, "unlink row")
    /\ glink' = (glink \ hit) \cup {[t EXCEPT !.revoked = TRUE] : t \in hit}
    /\ PDone(i, hit # {})
    /\ UNCHANGED <<poolPlan, ended, topic, pkg, hour, nudge, poolHistory>>

\* resolve_invite_link's valid.  Nothing counts a use, so max_uses never ends one.
LinkValid(t) == ~t.revoked /\ (t.ends = 0 \/ t.ends > hour)

GLinkResolves(i) ==
    LET hit == {t \in glink : t.id = PArg(i)} IN
    /\ PAt(i, "resolve")
    /\ PDone(i, \E t \in hit : LinkValid(t))
    /\ UNCHANGED <<poolPlan, poolTables, nudge, poolHistory>>

----------------------------------------------------------------------------
(* publish_key_package, consume_key_package                                *)

\* ON CONFLICT (key_package_ref) DO NOTHING
NewRef(r) == \A p \in pkg : p.ref # r

\* insert_group_key_package, one statement for each package of the call.
PublishOne(i) ==
    LET refs == PArg(i)
        r == refs[pcall[i].k]
        new == NewRef(r)
    IN
    /\ PAt(i, "packages")
    /\ pkg' = IF new THEN pkg \cup {[ref |-> r, at |-> i]} ELSE pkg
    /\ again' = IF new /\ \E g \in handedOut : g[1] = r THEN again \cup {r} ELSE again
    /\ nudged' = (nudged /\ ~new)
    /\ takenSince' = (takenSince /\ ~new)
    /\ pcall' = [pcall EXCEPT ![i] = IF @.k = Len(refs) THEN [@ EXCEPT !.at = "done", !.ok = TRUE]
                                     ELSE [@ EXCEPT !.k = @ + 1]]
    /\ UNCHANGED <<poolPlan, ended, topic, glink, hour, nudge, handedOut, crowded, lateMade, dropped>>

\* Mutant: the row is read and stays.
TakenLeaves(p) == pkg
\* DELETE ... RETURNING
Taken(p) == pkg \ {p}

\* consume_key_package_for_user: the package published first, one of them if
\* several were; its row locked, so no two calls take it.  A count follows in the
\* background.
ConsumePackage(i) ==
    LET first == {p \in pkg : \A q \in pkg : p.at <= q.at} IN
    /\ PAt(i, "consume")
    /\ \/ /\ first = {} /\ PDone(i, FALSE)
          /\ UNCHANGED <<pkg, nudge, handedOut, takenSince>>
       \/ \E p \in first :
          /\ pkg' = Taken(p)
          /\ handedOut' = handedOut \cup {<<p.ref, i>>}
          /\ takenSince' = TRUE
          /\ nudge' = nudge \cup {i}
          /\ PDone(i, TRUE)
    /\ UNCHANGED <<poolPlan, ended, topic, glink, hour, again, crowded, lateMade, nudged, dropped>>

\* count_key_packages_for_device < 20
Low == Cardinality(pkg) < LowMark

NudgeCounts(i) ==
    /\ i \in nudge
    /\ nudge' = nudge \ {i}
    /\ nudged' = (nudged \/ Low)
    /\ UNCHANGED <<poolPlan, poolTables, pcall, handedOut, again, crowded, lateMade, takenSince, dropped>>

----------------------------------------------------------------------------

\* An hour passes: links may end.
PoolHour(i) ==
    /\ PAt(i, "hour")
    /\ hour' = hour + 1
    /\ PDone(i, TRUE)
    /\ UNCHANGED <<poolPlan, ended, topic, glink, pkg, nudge, poolHistory>>

\* dissolve_group, of Groups.
PoolEnds(i) ==
    /\ PAt(i, "dissolve")
    /\ ended' = TRUE
    /\ PDone(i, TRUE)
    /\ UNCHANGED <<poolPlan, topic, glink, pkg, hour, nudge, poolHistory>>

\* A call, or the count it left behind, is dropped half-way.
PoolCut(i) ==
    /\ Cardinality(dropped) < MaxPoolCuts
    /\ \/ pcall[i].at \notin {"new", "done", "hour", "dissolve"} /\ PDone(i, FALSE) /\ UNCHANGED nudge
       \/ i \in nudge /\ nudge' = nudge \ {i} /\ UNCHANGED pcall
    /\ dropped' = dropped \cup {i}
    /\ UNCHANGED <<poolPlan, poolTables, handedOut, again, crowded, lateMade, nudged, takenSince>>

PoolInit ==
    /\ poolPlan \in PoolPlan
    /\ ended = FALSE /\ topic = {} /\ glink = {} /\ pkg = {} /\ hour = 0
    /\ pcall = [i \in PCalls |-> [at |-> "new", ok |-> FALSE, late |-> FALSE, k |-> 1]]
    /\ nudge = {} /\ handedOut = {} /\ again = {} /\ crowded = {} /\ lateMade = {} /\ dropped = {}
    /\ nudged = FALSE /\ takenSince = FALSE

PoolNext == \E i \in PCalls :
    \/ PBegins(i) \/ TopicChecksGroup(i) \/ TopicChecksAdmin(i) \/ TopicCounts(i) \/ TopicInserts(i)
    \/ ArchiveChecks(i) \/ ArchiveMarks(i)
    \/ GLinkChecksGroup(i) \/ GLinkChecksAdmin(i) \/ GLinkInserts(i)
    \/ UnlinkChecks(i) \/ UnlinkMarks(i) \/ GLinkResolves(i)
    \/ PublishOne(i) \/ ConsumePackage(i) \/ NudgeCounts(i)
    \/ PoolHour(i) \/ PoolEnds(i) \/ PoolCut(i)

PoolSpec == PoolInit /\ [][PoolNext]_poolVars

----------------------------------------------------------------------------
(* Properties                                                              *)

\* Rows are named once; a package is a package.
PoolTypeOK ==
    /\ \A t, u \in topic : t.id = u.id => t = u
    /\ \A t, u \in glink : t.id = u.id => t = u
    /\ \A p, q \in pkg : p.ref = q.ref => p = q
    /\ \A p \in pkg : p.ref \in Package
    /\ nudge \subseteq PCalls

\* A group has no more active topics than the maximum and the creations that
\* counted while another was between its count and its insert (create_topic).
TopicsBounded == Cardinality(ActiveTopics) <= TopicMax + Cardinality(crowded)

\* Nothing is made in a group by a call that began after its end (create_topic,
\* create_invite_link).
EndedMakesNothing == lateMade = {}

\* A key package is handed to one caller only, unless its device published it again
\* after that, as the retry of a call cut in its loop does (publish_key_package).
PackageGivenOnce ==
    \A g, h \in handedOut : g[1] = h[1] /\ g # h => g[1] \in again

\* When packages were taken and too few are left, the owner has been nudged since
\* the last one came, or the count that does it is still to run or was lost with
\* its task (consume_key_package).
DrainedIsTold == takenSince /\ Cardinality(pkg) < LowMark => nudged \/ nudge # {} \/ \E i \in dropped : pcall[i].ok

\* The pools of a group hold what they may: a key package for one caller, and a
\* word to its owner before there is none; topics to their maximum, and nothing new
\* in a group that ended.
PoolsSound == PackageGivenOnce /\ DrainedIsTold /\ TopicsBounded /\ EndedMakesNothing

=============================================================================
