------------------------------- MODULE Groups -------------------------------
(***************************************************************************)
(* One MLS group in group-service: its epoch and commits, its members with *)
(* their leaves, its administrators and its invites.                       *)
(*                                                                         *)
(* A handler is a script of single accesses to PostgreSQL.  Most of them   *)
(* are checks, each a query of its own, and what the checks found may have *)
(* changed by the time the handler writes.  Only the commit of an epoch and *)
(* the transfer of ownership are transactions, which lock the row of the   *)
(* group.  Messages, key packages and topics are not modelled, and a       *)
(* behaviour is shorter than the 30 days a commit row is kept.             *)
(***************************************************************************)
EXTENDS Integers, Sequences, FiniteSets

CONSTANTS
    Device,       \* devices, inside the group and out
    Creator,      \* the device that called CreateGroup
    Founders,     \* the sets of members the group may have at the start
    Call,         \* bound: the calls made, each of them once
    NoCall,       \* stands for CreateGroup, and for no invite
    MaxOpen,      \* bound: calls in progress at once
    MaxMembers,   \* max_members of the group
    MaxEpoch      \* bound: commits

ASSUME NameAssumption ==
    /\ IsFiniteSet(Device) /\ Creator \in Device /\ NoCall \notin Call \cup Device
    /\ Call \cap Device = {}
    /\ Founders \subseteq {F \in SUBSET Device : Creator \in F}
ASSUME BoundAssumption ==
    /\ MaxOpen \in Nat /\ MaxMembers \in Nat \ {0} /\ MaxEpoch \in Nat \ {0}

VARIABLES
    epoch,      \* mls_groups.epoch
    tree,       \* mls_groups.ratchet_tree: the call that wrote it
    commits,    \* the rows of group_commits
    leaf,       \* leaf[d]: leaf_index of the group_members row, or NoRow
    admin,      \* admin[d]: role of the group_admins row, or NoRow
    owner,      \* devices whose group_admins row has is_creator
    invites,    \* the rows of group_invites
    dissolved,  \* whether dissolved_at is set
    call,       \* the calls in progress
    joined      \* history: members with the leaf their join advanced the epoch for

groupVars == <<epoch, tree, commits>>
memberVars == <<leaf, joined>>
adminVars == <<admin, owner>>
vars == <<groupVars, memberVars, adminVars, invites, dissolved, call>>

\* An invite is named after the call that made it, or after its device when it
\* was made before the behaviour starts.
InviteId == Call \cup Device

\* The epochs a request names: those the bound lets the group leave.
RequestEpoch == 0..(MaxEpoch - 1)

NoRow == -1
Full == 1
Moderator == 2

----------------------------------------------------------------------------
(* Calls and their scripts.                                                *)

\* What each handler asks and does, in the order of its queries.
Script ==
    [invite   |-> <<"admin", "live", "package", "outsider", "room", "uninvited", "putInvite">>,
     accept   |-> <<"invited", "epoch", "outsider", "leaf", "putMember", "join", "dropInvite">>,
     decline  |-> <<"target", "dropInvite">>,
     leave    |-> <<"live", "member", "notOwner", "delMember", "delAdmin">>,
     remove   |-> <<"admin", "live", "member", "notOwner", "delMember", "delAdmin">>,
     commit   |-> <<"member", "live", "commit">>,
     delegate |-> <<"admin", "live", "member", "notOwner", "putAdmin">>,
     transfer |-> <<"owner", "fullAdmin", "transfer">>,
     dissolve |-> <<"admin", "live", "dissolve">>]

\* by: the caller; dev: the device the call is about; epoch: of the request or
\* of the invite; invite: the row named by the request; leaf: as it was read;
\* late (history): whether the group was dissolved when the call began.
CallState == [op : DOMAIN Script, step : 1..7, by : Device, dev : Device,
              epoch : 0..MaxEpoch, invite : InviteId \cup {NoCall},
              role : {Full, Moderator}, leaf : Nat, late : BOOLEAN]
Idle == [op |-> "idle"]
Done == [op |-> "done"]

Open(c) == call[c] \notin {Idle, Done}
At(c, step) == Open(c) /\ Script[call[c].op][call[c].step] = step
Onward(c) ==
    IF call[c].step = Len(Script[call[c].op]) THEN Done
    ELSE [call[c] EXCEPT !.step = @ + 1]

Advance(c) == call' = [call EXCEPT ![c] = Onward(c)]
Return(c) == call' = [call EXCEPT ![c] = Done]

Begin(c, op, d, t, e, i, r) ==
    /\ call[c] = Idle
    /\ Cardinality({x \in Call : Open(x)}) < MaxOpen
    /\ call' = [call EXCEPT ![c] = [op |-> op, step |-> 1, by |-> d, dev |-> t,
                                    epoch |-> e, invite |-> i, role |-> r, leaf |-> 0,
                                    late |-> dissolved]]
    /\ UNCHANGED <<groupVars, memberVars, adminVars, invites, dissolved>>

\* The connection goes away and the handler's future is dropped where it waits,
\* or PostgreSQL fails and the handler returns the error; so do a rate limit and
\* a signature that does not verify, before the call has written anything.
Drop(c) ==
    /\ Open(c)
    /\ Return(c)
    /\ UNCHANGED <<groupVars, memberVars, adminVars, invites, dissolved>>

----------------------------------------------------------------------------
(* The requests.  The epoch of a request is what its client believes: the  *)
(* Welcome of an invite may be for an epoch the group is yet to enter.     *)

InviteToGroup(c, d, t, e) == d # t /\ Begin(c, "invite", d, t, e, NoCall, Full)

AcceptGroupInvite(c, i) == Begin(c, "accept", i.dev, i.dev, 0, i.id, Full)

DeclineGroupInvite(c, i) == Begin(c, "decline", i.dev, i.dev, 0, i.id, Full)

LeaveGroup(c, d) == Begin(c, "leave", d, d, 0, NoCall, Full)

RemoveMember(c, d, t) == Begin(c, "remove", d, t, 0, NoCall, Full)

SubmitCommit(c, d, e) == Begin(c, "commit", d, d, e, NoCall, Full)

DelegateAdmin(c, d, t, r) == Begin(c, "delegate", d, t, 0, NoCall, r)

TransferOwnership(c, d, t) == Begin(c, "transfer", d, t, 0, NoCall, Full)

DissolveGroup(c, d) == Begin(c, "dissolve", d, d, 0, NoCall, Full)

----------------------------------------------------------------------------
(* The checks.                                                             *)

Rows == {d \in Device : leaf[d] # NoRow}

\* What a check asks of the database at the moment of its query.
Passes(step, by, dev, e, i) ==
    CASE step = "admin"     -> by \in owner \/ admin[by] = Full
      [] step = "live"      -> ~dissolved
      [] step = "outsider"  -> leaf[dev] = NoRow
      [] step = "member"    -> leaf[dev] # NoRow
      [] step = "room"      -> Cardinality(Rows) < MaxMembers
      [] step = "uninvited" -> \A x \in invites : x.dev = dev => ~x.live
      [] step = "target"    -> \E x \in invites : x.id = i
      [] step = "epoch"     -> e = epoch
      [] step = "notOwner"  -> dev \notin owner
      [] step = "owner"     -> by \in owner
      [] step = "fullAdmin" -> dev \notin owner /\ admin[dev] = Full

Checks == {"admin", "live", "outsider", "member", "room", "uninvited", "target",
           "epoch", "notOwner", "owner", "fullAdmin"}

\* A check that fails is the answer of the call.
Check(c) ==
    /\ \E step \in Checks :
          /\ At(c, step)
          /\ IF Passes(step, call[c].by, call[c].dev, call[c].epoch, call[c].invite)
                THEN Advance(c) ELSE Return(c)
    /\ UNCHANGED <<groupVars, memberVars, adminVars, invites, dissolved>>

\* The KeyPackage of the request is in its table, and not expired, or is not.
ResolvePackage(c) ==
    /\ At(c, "package")
    /\ Advance(c) \/ Return(c)
    /\ UNCHANGED <<groupVars, memberVars, adminVars, invites, dissolved>>

\* get_group_invite_for_accept
LoadInvite(c) ==
    /\ At(c, "invited")
    /\ LET found == {x \in invites : x.id = call[c].invite /\ x.live} IN
          \/ found = {} /\ Return(c)
          \/ \E x \in found : call' = [call EXCEPT ![c] = [Onward(c) EXCEPT !.epoch = x.epoch]]
    /\ UNCHANGED <<groupVars, memberVars, adminVars, invites, dissolved>>

\* get_next_group_leaf_index
NextLeaf ==
    IF Rows = {} THEN 0
    ELSE 1 + CHOOSE n \in {leaf[d] : d \in Rows} : \A d \in Rows : leaf[d] <= n

ReadLeaf(c) ==
    /\ At(c, "leaf")
    /\ call' = [call EXCEPT ![c] = [Onward(c) EXCEPT !.leaf = NextLeaf]]
    /\ UNCHANGED <<groupVars, memberVars, adminVars, invites, dissolved>>

----------------------------------------------------------------------------
(* The writes.                                                             *)

\* One invite of a device at a time, an expired one that has not been cleaned
\* up included: the second INSERT is refused by the unique key.
PutInvite(c) ==
    /\ At(c, "putInvite")
    /\ invites' = IF \E x \in invites : x.dev = call[c].dev THEN invites
                  ELSE invites \cup {[id |-> c, dev |-> call[c].dev,
                                      epoch |-> call[c].epoch, live |-> TRUE]}
    /\ Return(c)
    /\ UNCHANGED <<groupVars, memberVars, adminVars, dissolved>>

\* The member row is inserted by itself, before the transaction.
PutMember(c) ==
    /\ At(c, "putMember")
    /\ IF leaf[call[c].dev] # NoRow THEN Return(c) /\ UNCHANGED leaf
       ELSE Advance(c) /\ leaf' = [leaf EXCEPT ![call[c].dev] = call[c].leaf]
    /\ UNCHANGED <<groupVars, joined, adminVars, invites, dissolved>>

\* Mutant: the epoch read before the lock is taken for the group's.
CommitStale(c, e) ==
    /\ e < MaxEpoch
    /\ commits' = commits \cup {[from |-> e, by |-> c, invite |-> call[c].invite,
                              late |-> call[c].late]}
    /\ epoch' = e + 1
    /\ tree' = c

\* Mutant: the epoch is not compared under the lock.
CommitUncompared(c, e) ==
    /\ epoch < MaxEpoch
    /\ commits' = commits \cup {[from |-> epoch, by |-> c, invite |-> call[c].invite,
                              late |-> call[c].late]}
    /\ epoch' = epoch + 1
    /\ tree' = c

\* The row of the group is locked, its epoch compared, the commit inserted and
\* the epoch advanced, in one transaction.
CommitEpoch(c, e) ==
    /\ e = epoch
    /\ epoch < MaxEpoch
    /\ commits' = commits \cup {[from |-> epoch, by |-> c, invite |-> call[c].invite,
                              late |-> call[c].late]}
    /\ epoch' = epoch + 1
    /\ tree' = c

Join(c) ==
    /\ At(c, "join")
    /\ \/ /\ CommitEpoch(c, call[c].epoch)
          /\ joined' = joined \cup {d \in {call[c].dev} : leaf[d] = call[c].leaf}
          /\ Advance(c)
       \/ call[c].epoch # epoch /\ Return(c) /\ UNCHANGED <<groupVars, joined>>
    /\ UNCHANGED <<leaf, adminVars, invites, dissolved>>

Commit(c) ==
    /\ At(c, "commit")
    /\ \/ CommitEpoch(c, call[c].epoch)
       \/ call[c].epoch # epoch /\ UNCHANGED groupVars
    /\ Return(c)
    /\ UNCHANGED <<memberVars, adminVars, invites, dissolved>>

DropInvite(c) ==
    /\ At(c, "dropInvite")
    /\ invites' = {x \in invites : x.id # call[c].invite}
    /\ Return(c)
    /\ UNCHANGED <<groupVars, memberVars, adminVars, dissolved>>

DelMember(c) ==
    /\ At(c, "delMember")
    /\ leaf' = [leaf EXCEPT ![call[c].dev] = NoRow]
    /\ joined' = joined \ {call[c].dev}
    /\ Advance(c)
    /\ UNCHANGED <<groupVars, adminVars, invites, dissolved>>

DelAdmin(c) ==
    /\ At(c, "delAdmin")
    /\ admin' = [admin EXCEPT ![call[c].dev] = NoRow]
    /\ owner' = owner \ {call[c].dev}
    /\ Return(c)
    /\ UNCHANGED <<groupVars, memberVars, invites, dissolved>>

\* An upsert that leaves is_creator of an existing row alone.
PutAdmin(c) ==
    /\ At(c, "putAdmin")
    /\ admin' = [admin EXCEPT ![call[c].dev] = call[c].role]
    /\ Return(c)
    /\ UNCHANGED <<groupVars, memberVars, owner, invites, dissolved>>

\* The directory is read again under the lock of the group, and the two updates
\* have to find the rows it promised.
Transfer(c) ==
    /\ At(c, "transfer")
    /\ owner' = IF call[c].by \in owner /\ admin[call[c].dev] = Full /\ call[c].by # call[c].dev
                THEN (owner \ {call[c].by}) \cup {call[c].dev} ELSE owner
    /\ Return(c)
    /\ UNCHANGED <<groupVars, memberVars, admin, invites, dissolved>>

Dissolve(c) ==
    /\ At(c, "dissolve")
    /\ dissolved' = TRUE
    /\ Return(c)
    /\ UNCHANGED <<groupVars, memberVars, adminVars, invites>>

\* An invite reaches its expires_at; cleanup_mls_expired deletes it later.  The
\* rows of a dissolved group are deleted after a day, when no call is left.
ExpireInvite(x) ==
    /\ x.live
    /\ invites' = (invites \ {x}) \cup {[x EXCEPT !.live = FALSE]}
    /\ UNCHANGED <<groupVars, memberVars, adminVars, dissolved, call>>

Cleanup ==
    /\ \E x \in invites : ~x.live
    /\ invites' = {x \in invites : x.live}
    /\ UNCHANGED <<groupVars, memberVars, adminVars, dissolved, call>>

----------------------------------------------------------------------------
\* What create_group_with_creator leaves, and a group some devices have joined
\* and been made full administrators of since, its epoch counted from there.
\* Devices outside it may hold an invite, for whatever epoch its maker named.
Init ==
    /\ epoch = 0 /\ tree = NoCall /\ commits = {}
    /\ \E F \in Founders :
          /\ leaf \in [Device -> NoRow..(Cardinality(F) - 1)]
          /\ \A d \in Device : leaf[d] = NoRow <=> d \notin F
          /\ \A d, e \in F : leaf[d] = leaf[e] => d = e
          /\ leaf[Creator] = 0
          /\ admin = [d \in Device |-> IF d \in F THEN Full ELSE NoRow]
          /\ joined = F
          /\ \E P \in {{}, Device \ F} : \E e \in [P -> RequestEpoch] :
                invites = {[id |-> d, dev |-> d, epoch |-> e[d], live |-> TRUE] : d \in P}
    /\ owner = {Creator}
    /\ dissolved = FALSE
    /\ call = [c \in Call |-> Idle]

Step(c) ==
    \/ Check(c) \/ ResolvePackage(c) \/ LoadInvite(c) \/ ReadLeaf(c)
    \/ PutInvite(c) \/ PutMember(c) \/ Join(c) \/ Commit(c) \/ DropInvite(c)
    \/ DelMember(c) \/ DelAdmin(c) \/ PutAdmin(c) \/ Transfer(c) \/ Dissolve(c)

Request(c) ==
    \/ \E d, t \in Device, e \in RequestEpoch : InviteToGroup(c, d, t, e)
    \/ \E i \in invites : AcceptGroupInvite(c, i) \/ DeclineGroupInvite(c, i)
    \/ \E d \in Device : LeaveGroup(c, d) \/ DissolveGroup(c, d)
    \/ \E d, t \in Device : RemoveMember(c, d, t) \/ TransferOwnership(c, d, t)
    \/ \E d \in Device, e \in RequestEpoch : SubmitCommit(c, d, e)
    \/ \E d, t \in Device, r \in {Full, Moderator} : DelegateAdmin(c, d, t, r)

Next ==
    \/ \E c \in Call : Request(c) \/ Step(c) \/ Drop(c)
    \/ \E x \in invites : ExpireInvite(x)
    \/ Cleanup

Spec == Init /\ [][Next]_vars

----------------------------------------------------------------------------
(* Properties.                                                             *)

\* The shape of every variable.
TypeOK ==
    /\ epoch \in 0..MaxEpoch /\ tree \in Call \cup {NoCall}
    /\ commits \subseteq [from : 0..MaxEpoch, by : Call, invite : InviteId \cup {NoCall},
                            late : BOOLEAN]
    /\ leaf \in [Device -> Nat \cup {NoRow}]
    /\ admin \in [Device -> {NoRow, Full, Moderator}]
    /\ owner \subseteq {d \in Device : admin[d] # NoRow}
    /\ invites \subseteq [id : InviteId, dev : Device, epoch : 0..MaxEpoch, live : BOOLEAN]
    /\ dissolved \in BOOLEAN
    /\ call \in [Call -> CallState \cup {Idle, Done}]
    /\ joined \subseteq Rows

\* The commits are one chain: every epoch before the current one was left by
\* exactly one commit, whichever of SubmitCommit and AcceptGroupInvite raced for
\* it, and the ratchet tree a client fetches is that of the last one.
CommitsChain ==
    /\ \A n \in 0..MaxEpoch : (n < epoch) <=> \E k \in commits : k.from = n
    /\ \A j, k \in commits : j.from = k.from => j = k
    /\ IF epoch = 0 THEN tree = NoCall
       ELSE \E k \in commits : k.from = epoch - 1 /\ k.by = tree

\* An invite admits once, however often its acceptance is repeated, dropped
\* before the invite is deleted, or followed by a departure.
InviteAdmitsOnce ==
    \A j, k \in commits : j.invite = k.invite /\ j.invite # NoCall => j = k

\* Members whose row has the leaf their join advanced the epoch for have leaves of
\* their own, though the leaf is read in one query and inserted in another, without
\* a lock.  A row that another acceptance of the device put there since is not
\* such a row, and may have the leaf of someone else.
JoinedLeavesDiffer ==
    \A d, e \in joined : leaf[d] = leaf[e] => d = e

\* Ownership is never held twice, whatever the checks of two transfers saw.
OneOwner == Cardinality(owner) <= 1

\* A group that was dissolved before a call began is committed to by that call
\* only if it accepts an invite: accept_group_invite alone does not ask.
DissolvedOnlyAdmits == \A k \in commits : k.late => k.invite # NoCall

\* Membership is sound: an invite admits once, to a leaf of its own, one member owns
\* the group, and after its end nothing but an acceptance still commits.
MembershipSound == InviteAdmitsOnce /\ JoinedLeavesDiffer /\ OneOwner /\ DissolvedOnlyAdmits

\* "Creator admin cannot be stripped (only self-resign)": a RemoveMember that got
\* as far as deleting its target's role, which it does without another look, is
\* not about to delete the role of the owner.
RemovalSparesOwner ==
    \A c \in Call : At(c, "delAdmin") /\ call[c].op = "remove" => call[c].dev \notin owner

=============================================================================
