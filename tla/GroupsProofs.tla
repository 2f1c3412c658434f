---------------------------- MODULE GroupsProofs ----------------------------
(***************************************************************************)
(* The commits of a group are one chain and its membership is sound, for   *)
(* any number of devices and of calls under way.                           *)
(*                                                                         *)
(* Neither is inductive.  An invite admits once because everything that    *)
(* ever says which epoch it is for agrees, its row, the acceptances that   *)
(* read the row and the commits of those that joined (OneEpoch), and the   *)
(* group leaves an epoch once.  The leaves of the joined differ because an *)
(* acceptance whose epoch is still the group's read its leaf after the     *)
(* last of them joined (LeavesAhead).                                      *)
(***************************************************************************)
EXTENDS Groups, FiniteSetTheorems, WellFoundedInduction, TLAPS

----------------------------------------------------------------------------
(* The inductive invariant.                                                *)

Accepting(c) == Open(c) /\ call[c].op = "accept"

\* A call that is under way is somewhere in its script.
Placed == \A c \in Call : Open(c) => call[c].step \in DOMAIN Script[call[c].op]

\* An invite that was made: before the behaviour, or by a call that has ended.
Known(i) == i \in Device \/ (i \in Call /\ call[i] = Done)

\* Who names an invite names one that was made; acceptances and refusals alone do.
InvitesKnown ==
    /\ \A x \in invites : Known(x.id)
    /\ \A k \in commits : k.invite # NoCall => Known(k.invite)
    /\ \A c \in Call : Open(c) =>
          IF call[c].op \in {"accept", "decline"} THEN Known(call[c].invite)
          ELSE call[c].invite = NoCall

\* The row of an invite, an acceptance that read it or the commit of one that joined
\* says that the invite is for epoch e.
Says(i, e) ==
    \/ \E x \in invites : x.id = i /\ x.epoch = e
    \/ \E c \in Call : Accepting(c) /\ call[c].step > 1 /\ call[c].invite = i /\ call[c].epoch = e
    \/ \E k \in commits : k.invite = i /\ k.from = e

OneEpoch == \A i \in InviteId : \A e, f \in 0..MaxEpoch : Says(i, e) /\ Says(i, f) => e = f

\* An acceptance past its check of the epoch is for an epoch the group has reached;
\* while the group is still in it, the leaf it read is ahead of those who joined.
LeavesAhead ==
    \A c \in Call : Accepting(c) =>
        /\ call[c].step > 2 => call[c].epoch <= epoch
        /\ call[c].step > 4 /\ call[c].epoch = epoch => \A d \in joined : leaf[d] < call[c].leaf

LeavesBounded == \E n \in Nat : \A d \in Device : leaf[d] <= n

AtMostOne == \A d, e \in owner : d = e

\* A call that began after the end of the group does not pass its check of that.
LateKnown ==
    \A c \in Call : Open(c) =>
        /\ call[c].late => dissolved
        /\ call[c].op = "commit" /\ call[c].step = 3 => ~call[c].late

GroupInv ==
    /\ TypeOK /\ Placed
    /\ CommitsChain
    /\ InvitesKnown /\ OneEpoch
    /\ LeavesAhead /\ LeavesBounded /\ JoinedLeavesDiffer
    /\ AtMostOne
    /\ LateKnown /\ DissolvedOnlyAdmits

----------------------------------------------------------------------------
(* Scripts and the calls that follow them.                                 *)

\* Where the steps that matter are: which handler takes them, and when.
LEMMA ScriptSteps ==
    ASSUME NEW op \in DOMAIN Script, NEW n \in DOMAIN Script[op]
    PROVE  /\ n \in 1..7 /\ n \in 1..Len(Script[op]) /\ 1 \in DOMAIN Script[op]
           /\ n # Len(Script[op]) => n + 1 \in DOMAIN Script[op]
           /\ Script[op][n] \in {"join", "putMember", "leaf", "invited"} => op = "accept"
           /\ Script[op][n] = "invited" <=> (op = "accept" /\ n = 1)
           /\ Script[op][n] = "epoch" <=> (op = "accept" /\ n = 2)
           /\ Script[op][n] = "leaf" <=> (op = "accept" /\ n = 4)
           /\ Script[op][n] = "putMember" <=> (op = "accept" /\ n = 5)
           /\ Script[op][n] = "join" <=> (op = "accept" /\ n = 6)
           /\ Script[op][n] = "commit" <=> (op = "commit" /\ n = 3)
           /\ op = "commit" /\ n = 2 => Script[op][n] = "live"
           /\ Script[op][n] = "putInvite" => op = "invite"
<1>0. op \in {"invite", "accept", "decline", "leave", "remove", "commit", "delegate", "transfer", "dissolve"}
  BY Zenon DEF Script
<1>1. CASE op = "invite"
  <2>1. Script[op] = <<"admin", "live", "package", "outsider", "room", "uninvited", "putInvite">>  BY Zenon, <1>1 DEF Script
  <2> QED  BY <1>1, <2>1
<1>2. CASE op = "accept"
  <2>1. Script[op] = <<"invited", "epoch", "outsider", "leaf", "putMember", "join", "dropInvite">>  BY Zenon, <1>2 DEF Script
  <2> QED  BY <1>2, <2>1
<1>3. CASE op = "decline"
  <2>1. Script[op] = <<"target", "dropInvite">>  BY Zenon, <1>3 DEF Script
  <2> QED  BY <1>3, <2>1
<1>4. CASE op = "leave"
  <2>1. Script[op] = <<"live", "member", "notOwner", "delMember", "delAdmin">>  BY Zenon, <1>4 DEF Script
  <2> QED  BY <1>4, <2>1
<1>5. CASE op = "remove"
  <2>1. Script[op] = <<"admin", "live", "member", "notOwner", "delMember", "delAdmin">>  BY Zenon, <1>5 DEF Script
  <2> QED  BY <1>5, <2>1
<1>6. CASE op = "commit"
  <2>1. Script[op] = <<"member", "live", "commit">>  BY Zenon, <1>6 DEF Script
  <2> QED  BY <1>6, <2>1
<1>7. CASE op = "delegate"
  <2>1. Script[op] = <<"admin", "live", "member", "notOwner", "putAdmin">>  BY Zenon, <1>7 DEF Script
  <2> QED  BY <1>7, <2>1
<1>8. CASE op = "transfer"
  <2>1. Script[op] = <<"owner", "fullAdmin", "transfer">>  BY Zenon, <1>8 DEF Script
  <2> QED  BY <1>8, <2>1
<1>9. CASE op = "dissolve"
  <2>1. Script[op] = <<"admin", "live", "dissolve">>  BY Zenon, <1>9 DEF Script
  <2> QED  BY <1>9, <2>1
<1> QED  BY Zenon, <1>0, <1>1, <1>2, <1>3, <1>4, <1>5, <1>6, <1>7, <1>8, <1>9

\* What a step leaves of the call that takes it: nothing, or the call one step on,
\* with the epoch of its invite or its leaf if that is what it read.
Ended(c) == call'[c] = Done
Moved(c) ==
    /\ call'[c] \in CallState
    /\ call'[c].step = call[c].step + 1 /\ call'[c].step \in DOMAIN Script[call'[c].op]
    /\ call'[c].op = call[c].op /\ call'[c].dev = call[c].dev /\ call'[c].by = call[c].by
    /\ call'[c].invite = call[c].invite /\ call'[c].late = call[c].late
    /\ At(c, "invited") \/ call'[c].epoch = call[c].epoch
    /\ At(c, "leaf") \/ call'[c].leaf = call[c].leaf
Began(c) ==
    /\ call[c] = Idle /\ call'[c] \in CallState
    /\ call'[c].step = 1 /\ call'[c].late = dissolved
    /\ IF call'[c].op \in {"accept", "decline"} THEN \E x \in invites : x.id = call'[c].invite
       ELSE call'[c].invite = NoCall

\* The records Idle and Done are not calls under way.
LEMMA CallShapes ==
    /\ Idle \notin CallState /\ Done \notin CallState /\ Idle # Done
    /\ \A c : Open(c) <=> call[c] # Idle /\ call[c] # Done
    /\ TypeOK => \A c \in Call : Open(c) <=> call[c] \in CallState
<1>1. Idle # Done
  BY Zenon DEF Idle, Done
<1>2. \A x \in CallState : x.op \in DOMAIN Script
  BY Zenon DEF CallState
<1>3. "idle" \notin DOMAIN Script /\ "done" \notin DOMAIN Script
  BY Zenon DEF Script
<1>4. Idle \notin CallState /\ Done \notin CallState
  BY Zenon, <1>2, <1>3 DEF Idle, Done
<1>5. \A c : Open(c) <=> call[c] # Idle /\ call[c] # Done
  BY Zenon DEF Open
<1>6. TypeOK => \A c \in Call : Open(c) <=> call[c] \in CallState
  BY Zenon, <1>4, <1>5 DEF TypeOK
<1> QED  BY Zenon, <1>1, <1>4, <1>5, <1>6

\* Going on moves a call, or ends it after the last step of its script.
LEMMA OnwardMoves ==
    ASSUME TypeOK, Placed, NEW c \in Call, Open(c)
    PROVE  /\ call[c] \in CallState
           /\ \/ Onward(c) = Done
              \/ /\ Onward(c) \in CallState
                 /\ Onward(c).step = call[c].step + 1
                 /\ Onward(c).step \in DOMAIN Script[Onward(c).op]
                 /\ Onward(c).op = call[c].op /\ Onward(c).dev = call[c].dev
                 /\ Onward(c).by = call[c].by
                 /\ Onward(c).invite = call[c].invite /\ Onward(c).late = call[c].late
                 /\ Onward(c).epoch = call[c].epoch /\ Onward(c).leaf = call[c].leaf
           /\ At(c, "invited") \/ At(c, "leaf") => Onward(c) # Done
<1>1. call[c] \in CallState
  BY Zenon, CallShapes
<1>2. call[c].op \in DOMAIN Script /\ call[c].step \in DOMAIN Script[call[c].op]
  BY Zenon, <1>1 DEF CallState, Placed
<1>3. /\ call[c].step \in 1..7
      /\ call[c].step # Len(Script[call[c].op]) => call[c].step + 1 \in DOMAIN Script[call[c].op]
      /\ At(c, "invited") => call[c].op = "accept" /\ call[c].step = 1
      /\ At(c, "leaf") => call[c].op = "accept" /\ call[c].step = 4
  <2>1. /\ call[c].step \in 1..7
        /\ call[c].step # Len(Script[call[c].op]) => call[c].step + 1 \in DOMAIN Script[call[c].op]
        /\ Script[call[c].op][call[c].step] = "invited" => call[c].op = "accept" /\ call[c].step = 1
        /\ Script[call[c].op][call[c].step] = "leaf" => call[c].op = "accept" /\ call[c].step = 4
    BY SMT, <1>2, ScriptSteps
  <2> QED  BY Zenon, <2>1 DEF At
<1>4. CASE call[c].step = Len(Script[call[c].op])
  <2>1. Len(Script["accept"]) = 7
    BY Zenon DEF Script
  <2>2. call[c].op = "accept" => call[c].step = 7
    BY Zenon, <1>4, <2>1
  <2>3. ~At(c, "invited") /\ ~At(c, "leaf")
    BY SMT, <1>3, <2>2
  <2> QED  BY Zenon, <1>1, <1>4, <2>3 DEF Onward
<1>5. CASE call[c].step # Len(Script[call[c].op])
  <2> DEFINE o == [call[c] EXCEPT !.step = @ + 1]
  <2>1. Onward(c) = o
    BY Zenon, <1>5 DEF Onward
  <2>2. call[c].step + 1 \in 1..7
    BY Zenon, <1>2, <1>3, <1>5, ScriptSteps
  <2>3. /\ o \in CallState
        /\ o.step = call[c].step + 1 /\ o.op = call[c].op /\ o.dev = call[c].dev /\ o.by = call[c].by
        /\ o.invite = call[c].invite /\ o.late = call[c].late
        /\ o.epoch = call[c].epoch /\ o.leaf = call[c].leaf
    BY Zenon, <1>1, <2>2 DEF CallState
  <2>4. o.step \in DOMAIN Script[o.op]
    BY Zenon, <1>3, <1>5, <2>3
  <2>5. Onward(c) # Done
    BY Zenon, <2>1, <2>3, CallShapes
  <2> HIDE DEF o
  <2> QED  BY Zenon, <1>1, <2>1, <2>3, <2>4, <2>5
<1> QED  BY Zenon, <1>4, <1>5
\* The largest leaf exists, so get_next_group_leaf_index returns one above every row.
LEMMA NextLeafIsAhead ==
    ASSUME TypeOK, LeavesBounded
    PROVE  NextLeaf \in Nat /\ \A d \in Rows : leaf[d] \in Nat /\ leaf[d] < NextLeaf
<1>1. \A d \in Rows : leaf[d] \in Nat
  BY Zenon DEF TypeOK, Rows
<1>2. CASE Rows = {}
  BY Zenon, <1>2 DEF NextLeaf
<1>3. CASE Rows # {}
  <2> DEFINE U == {n \in Nat : \A d \in Rows : leaf[d] <= n}
             R == OpToRel(<, Nat)
             L == {leaf[d] : d \in Rows}
             Greatest(n) == \A d \in Rows : leaf[d] <= n
  <2>1. U # {} /\ U \subseteq Nat
    BY Zenon DEF LeavesBounded, Rows
  <2>2. PICK x \in U : \A y \in U : ~(<<y, x>> \in R)
    <3> HIDE DEF U, R
    <3>1. IsWellFoundedOn(R, Nat)
      BY Zenon, NatLessThanWellFounded DEF R
    <3> QED  BY Zenon, <2>1, <3>1, WFMin
  <2>3. x \in Nat /\ \A y \in U : ~(y < x)
    BY Zenon, <2>1, <2>2 DEF OpToRel
  <2>4. \E d \in Rows : leaf[d] = x
    <3> SUFFICES ASSUME \A d \in Rows : leaf[d] # x  PROVE FALSE
      BY Zenon
    <3>1. PICK d \in Rows : TRUE
      BY Zenon, <1>3
    <3>2. \A e \in Rows : leaf[e] \in Nat /\ leaf[e] <= x /\ leaf[e] # x
      BY Zenon, <1>1, <2>2
    <3>3. x - 1 \in Nat /\ \A e \in Rows : leaf[e] <= x - 1
      BY SMT, <2>3, <3>1, <3>2
    <3>4. x - 1 \in U /\ x - 1 < x
      BY SMT, <2>3, <3>3
    <3> QED  BY Zenon, <2>3, <3>4
  <2>5. \E n \in L : Greatest(n)
    BY Zenon, <2>2, <2>4
  <2>6. (CHOOSE n \in L : Greatest(n)) \in L /\ Greatest(CHOOSE n \in L : Greatest(n))
    <3> HIDE DEF L, Greatest
    <3> QED  BY Zenon, <2>5
  <2>7. NextLeaf = 1 + (CHOOSE n \in L : Greatest(n))
    BY Zenon, <1>3 DEF NextLeaf
  <2> DEFINE m == CHOOSE n \in L : Greatest(n)
  <2>8. m \in Nat /\ (\A d \in Rows : leaf[d] <= m) /\ NextLeaf = 1 + m
    BY Zenon, <1>1, <2>6, <2>7
  <2> HIDE DEF m
  <2> QED  BY SMT, <1>1, <2>8
<1> QED  BY Zenon, <1>2, <1>3

\* The calls other than c are as they were.
OthersStay(c) == call' = [call EXCEPT ![c] = call'[c]]

\* Advance and Return change one call.
LEMMA TurnsOne ==
    ASSUME TypeOK, Placed, NEW c \in Call, Open(c), Advance(c) \/ Return(c)
    PROVE  OthersStay(c) /\ (Moved(c) \/ Ended(c))
<1>0. call[c] \in CallState /\ DOMAIN call = Call
  BY Zenon, OnwardMoves DEF TypeOK
<1>1. CASE Return(c)
  BY Zenon, <1>0, <1>1 DEF Return, OthersStay, Ended
<1>2. CASE Advance(c)
  <2>1. call'[c] = Onward(c) /\ OthersStay(c)
    BY Zenon, <1>0, <1>2 DEF Advance, OthersStay
  <2>2. CASE Onward(c) = Done
    BY Zenon, <2>1, <2>2 DEF Ended
  <2>3. CASE Onward(c) # Done
    BY Zenon, <2>1, <2>3, OnwardMoves DEF Moved
  <2> QED  BY Zenon, <2>1, <2>2, <2>3
<1> QED  BY Zenon, <1>1, <1>2

\* Every step of a handler moves its call or ends it, and touches no other.
LEMMA StepTurns ==
    ASSUME TypeOK, Placed, LeavesBounded, NEW c \in Call, Step(c) \/ Drop(c)
    PROVE  Open(c) /\ OthersStay(c) /\ (Moved(c) \/ Ended(c))
<1>1. CASE LoadInvite(c)
  <2>0. At(c, "invited") /\ Open(c) /\ call[c] \in CallState /\ DOMAIN call = Call
    BY Zenon, <1>1, OnwardMoves DEF LoadInvite, At, TypeOK
  <2>1. CASE Return(c)
    BY Zenon, <2>0, <2>1, TurnsOne
  <2>2. CASE \E x \in invites : call' = [call EXCEPT ![c] = [Onward(c) EXCEPT !.epoch = x.epoch]]
    <3>1. PICK x \in invites : call' = [call EXCEPT ![c] = [Onward(c) EXCEPT !.epoch = x.epoch]]
      BY Zenon, <2>2
    <3> DEFINE o == Onward(c)
    <3>2. /\ o \in CallState /\ o.step = call[c].step + 1 /\ o.step \in DOMAIN Script[o.op]
          /\ o.op = call[c].op /\ o.dev = call[c].dev /\ o.by = call[c].by
          /\ o.invite = call[c].invite /\ o.late = call[c].late /\ o.leaf = call[c].leaf
      BY Zenon, <2>0, OnwardMoves
    <3>3. call'[c] = [o EXCEPT !.epoch = x.epoch] /\ OthersStay(c)
      BY Zenon, <2>0, <3>1 DEF OthersStay
    <3>4. x.epoch \in 0..MaxEpoch
      BY Zenon DEF TypeOK
    <3> HIDE DEF o
    <3>5. /\ call'[c] \in CallState /\ call'[c].step = o.step /\ call'[c].op = o.op
          /\ call'[c].dev = o.dev /\ call'[c].by = o.by /\ call'[c].invite = o.invite
          /\ call'[c].late = o.late /\ call'[c].leaf = o.leaf
      BY SMT, <3>2, <3>3, <3>4 DEF CallState
    <3>6. Moved(c)
      BY Zenon, <2>0, <3>2, <3>5 DEF Moved
    <3> QED  BY Zenon, <2>0, <3>3, <3>6
  <2> QED  BY Zenon, <1>1, <2>1, <2>2 DEF LoadInvite
<1>2. CASE ReadLeaf(c)
  <2>0. At(c, "leaf") /\ Open(c) /\ call[c] \in CallState /\ DOMAIN call = Call
    BY Zenon, <1>2, OnwardMoves DEF ReadLeaf, At, TypeOK
  <2> DEFINE o == Onward(c)
  <2>2. /\ o \in CallState /\ o.step = call[c].step + 1 /\ o.step \in DOMAIN Script[o.op]
        /\ o.op = call[c].op /\ o.dev = call[c].dev /\ o.by = call[c].by
        /\ o.invite = call[c].invite /\ o.late = call[c].late /\ o.epoch = call[c].epoch
    BY Zenon, <2>0, OnwardMoves
  <2>3. call'[c] = [o EXCEPT !.leaf = NextLeaf] /\ OthersStay(c)
    BY Zenon, <1>2, <2>0 DEF OthersStay, ReadLeaf
  <2> HIDE DEF o
  <2>5. /\ call'[c] \in CallState /\ call'[c].step = o.step /\ call'[c].op = o.op
        /\ call'[c].dev = o.dev /\ call'[c].by = o.by /\ call'[c].invite = o.invite
        /\ call'[c].late = o.late /\ call'[c].epoch = o.epoch
    BY SMT, <2>2, <2>3, NextLeafIsAhead DEF CallState
  <2>6. Moved(c)
    BY Zenon, <2>0, <2>2, <2>5 DEF Moved
  <2> QED  BY Zenon, <2>0, <2>3, <2>6
<1>3. CASE Open(c) /\ (Advance(c) \/ Return(c))
  BY Zenon, <1>3, TurnsOne
<1>4. CASE Check(c)
  BY Zenon, <1>3, <1>4 DEF Check, At
<1>5. CASE ResolvePackage(c)
  BY Zenon, <1>3, <1>5 DEF ResolvePackage, At
<1>6. CASE PutInvite(c) \/ PutMember(c)
  BY Zenon, <1>3, <1>6 DEF PutInvite, PutMember, At
<1>7. CASE Join(c) \/ Commit(c) \/ DropInvite(c)
  BY Zenon, <1>3, <1>7 DEF Join, Commit, DropInvite, At
<1>8. CASE DelMember(c) \/ DelAdmin(c) \/ PutAdmin(c)
  BY Zenon, <1>3, <1>8 DEF DelMember, DelAdmin, PutAdmin, At
<1>9. CASE Transfer(c) \/ Dissolve(c) \/ Drop(c)
  BY Zenon, <1>3, <1>9 DEF Transfer, Dissolve, Drop, At
<1> QED  BY Zenon, <1>1, <1>2, <1>4, <1>5, <1>6, <1>7, <1>8, <1>9 DEF Step
\* A request is a new call, for an invite that has a row if it names one.
LEMMA RequestBegins ==
    ASSUME TypeOK, NEW c \in Call, Request(c)
    PROVE  /\ Began(c) /\ OthersStay(c)
           /\ UNCHANGED <<groupVars, memberVars, adminVars, invites, dissolved>>
<1> DEFINE Form(op, d, t, e, i, r) ==
        [op |-> op, step |-> 1, by |-> d, dev |-> t, epoch |-> e, invite |-> i, role |-> r,
         leaf |-> 0, late |-> dissolved]
<1>0. RequestEpoch \subseteq 0..MaxEpoch /\ 0 \in 0..MaxEpoch
  BY BoundAssumption DEF RequestEpoch
<1>1. \A x \in invites : x.dev \in Device /\ x.id \in InviteId
  BY Zenon DEF TypeOK
<1>2. \E op \in DOMAIN Script, d, t \in Device, e \in 0..MaxEpoch, i \in InviteId \cup {NoCall},
         r \in {Full, Moderator} :
         /\ Begin(c, op, d, t, e, i, r)
         /\ IF op \in {"accept", "decline"} THEN \E x \in invites : x.id = i ELSE i = NoCall
  <2>1. {"invite", "accept", "decline", "leave", "remove", "commit", "delegate", "transfer",
         "dissolve"} \subseteq DOMAIN Script
    BY Zenon DEF Script
  <2>2. CASE \E i \in invites : AcceptGroupInvite(c, i) \/ DeclineGroupInvite(c, i)
    <3>1. PICK x \in invites : AcceptGroupInvite(c, x) \/ DeclineGroupInvite(c, x)
      BY Zenon, <2>2
    <3>2. x.dev \in Device /\ x.id \in InviteId
      BY Zenon, <1>1
    <3>3. CASE AcceptGroupInvite(c, x)
      BY Zenon, <1>0, <2>1, <3>2, <3>3 DEF AcceptGroupInvite
    <3>4. CASE DeclineGroupInvite(c, x)
      BY Zenon, <1>0, <2>1, <3>2, <3>4 DEF DeclineGroupInvite
    <3> QED  BY Zenon, <3>1, <3>3, <3>4
  <2>3. CASE \E d, t \in Device, e \in RequestEpoch : InviteToGroup(c, d, t, e)
    BY Zenon, <1>0, <2>1, <2>3 DEF InviteToGroup
  <2>4. CASE \E d \in Device : LeaveGroup(c, d) \/ DissolveGroup(c, d)
    BY Zenon, <1>0, <2>1, <2>4 DEF LeaveGroup, DissolveGroup
  <2>5. CASE \E d, t \in Device : RemoveMember(c, d, t) \/ TransferOwnership(c, d, t)
    BY Zenon, <1>0, <2>1, <2>5 DEF RemoveMember, TransferOwnership
  <2>6. CASE \E d \in Device, e \in RequestEpoch : SubmitCommit(c, d, e)
    BY Zenon, <1>0, <2>1, <2>6 DEF SubmitCommit
  <2>7. CASE \E d, t \in Device, r \in {Full, Moderator} : DelegateAdmin(c, d, t, r)
    BY <1>0, <2>1, <2>7 DEF DelegateAdmin
  <2> QED  BY Zenon, <2>2, <2>3, <2>4, <2>5, <2>6, <2>7 DEF Request
<1>3. PICK op \in DOMAIN Script, d \in Device, t \in Device, e \in 0..MaxEpoch,
           i \in InviteId \cup {NoCall}, r \in {Full, Moderator} :
         /\ Begin(c, op, d, t, e, i, r)
         /\ IF op \in {"accept", "decline"} THEN \E x \in invites : x.id = i ELSE i = NoCall
  BY Zenon, <1>2
<1>4. call' = [call EXCEPT ![c] = Form(op, d, t, e, i, r)] /\ call[c] = Idle
  BY Zenon, <1>3 DEF Begin
<1>5. call'[c] = Form(op, d, t, e, i, r) /\ OthersStay(c)
  BY Zenon, <1>4 DEF OthersStay, TypeOK
<1>6. Form(op, d, t, e, i, r) \in CallState
  BY DEF CallState, TypeOK
<1>7. Began(c)
  BY <1>3, <1>4, <1>5, <1>6 DEF Began
<1> QED  BY Zenon, <1>3, <1>5, <1>7 DEF Begin

\* A call that begins, moves or ends leaves the calls well formed.
LEMMA CallsStayTyped ==
    ASSUME TypeOK, Placed, NEW c \in Call, OthersStay(c), Began(c) \/ Moved(c) \/ Ended(c)
    PROVE  /\ call' \in [Call -> CallState \cup {Idle, Done}] /\ Placed'
           /\ \A b \in Call : b # c => call'[b] = call[b] /\ (Open(b)' <=> Open(b))
           /\ Open(c)' <=> call'[c] \in CallState
<1>1. call'[c] \in CallState \cup {Done}
  BY Zenon DEF Began, Moved, Ended
<1>2. call' \in [Call -> CallState \cup {Idle, Done}]
  BY Zenon, <1>1 DEF OthersStay, TypeOK
<1>3. \A b \in Call : b # c => call'[b] = call[b]
  BY Zenon DEF OthersStay, TypeOK
<1>4. \A b \in Call : b # c => (Open(b)' <=> Open(b))
  BY Zenon, <1>3 DEF Open
<1>5. Open(c)' <=> call'[c] \in CallState
  BY Zenon, <1>1, CallShapes DEF Open
<1>6. Open(c)' => call'[c].step \in DOMAIN Script[call'[c].op]
  <2>1. CASE Began(c)
    <3>1. call'[c].op \in DOMAIN Script /\ call'[c].step = 1
      BY Zenon, <2>1 DEF Began, CallState
    <3>2. \A op \in DOMAIN Script : 1 \in DOMAIN Script[op]
      BY DEF Script
    <3> QED  BY Zenon, <3>1, <3>2
  <2>2. CASE Moved(c)
    BY Zenon, <2>2 DEF Moved
  <2>3. CASE Ended(c)
    BY Zenon, <2>3, <1>5, CallShapes DEF Ended
  <2> QED  BY Zenon, <2>1, <2>2, <2>3
<1>7. Placed'
  BY Zenon, <1>3, <1>4, <1>6 DEF Placed
<1> QED  BY Zenon, <1>2, <1>3, <1>4, <1>5, <1>7
----------------------------------------------------------------------------
(* What the steps do to the rows.                                          *)

Silent == UNCHANGED <<groupVars, memberVars, adminVars, invites, dissolved>>

Writes(c) ==
    \/ PutInvite(c) \/ PutMember(c) \/ Join(c) \/ Commit(c) \/ DropInvite(c)
    \/ DelMember(c) \/ DelAdmin(c) \/ PutAdmin(c) \/ Transfer(c) \/ Dissolve(c)

\* What a call knows that went on: the epoch of the row of its invite, that the group
\* was in that epoch, that it was not dissolved, or the next leaf.
Reads(c) ==
    Open(c) /\ Moved(c) =>
        /\ At(c, "invited") => \E x \in invites : x.id = call[c].invite /\ call'[c].epoch = x.epoch
        /\ At(c, "epoch") => call[c].epoch = epoch
        /\ At(c, "live") => ~dissolved
        /\ At(c, "leaf") => call'[c].leaf = NextLeaf

\* The turn of a call: it begins, goes on or ends.
Turn(c) ==
    /\ OthersStay(c) /\ Reads(c)
    /\ Began(c) \/ (Open(c) /\ (Moved(c) \/ Ended(c)))

\* A call goes on past its reads and its checks only with what they found.
LEMMA StepReads ==
    ASSUME TypeOK, Placed, NEW c \in Call, Step(c) \/ Drop(c)
    PROVE  Reads(c)
<1> SUFFICES ASSUME Open(c), Moved(c)
             PROVE  /\ At(c, "invited") =>
                           \E x \in invites : x.id = call[c].invite /\ call'[c].epoch = x.epoch
                    /\ At(c, "epoch") => call[c].epoch = epoch
                    /\ At(c, "live") => ~dissolved
                    /\ At(c, "leaf") => call'[c].leaf = NextLeaf
  BY Zenon DEF Reads
<1>0. ~Return(c) /\ DOMAIN call = Call /\ call[c] \in CallState
  BY Zenon, CallShapes DEF Moved, Return, TypeOK
<1>1. CASE At(c, "invited")
  <2>1. LoadInvite(c)
    BY Zenon, <1>0, <1>1 DEF Step, Drop, Check, Checks, ResolvePackage, ReadLeaf, PutInvite, PutMember, Join,
       Commit, DropInvite, DelMember, DelAdmin, PutAdmin, Transfer, Dissolve, At
  <2>2. PICK x \in invites : /\ x.id = call[c].invite
                             /\ call' = [call EXCEPT ![c] = [Onward(c) EXCEPT !.epoch = x.epoch]]
    BY Zenon, <1>0, <2>1 DEF LoadInvite
  <2>3. Onward(c) \in CallState
    BY Zenon, <1>1, OnwardMoves
  <2>4. call'[c] = [Onward(c) EXCEPT !.epoch = x.epoch]
    BY Zenon, <1>0, <2>2
  <2>5. call'[c].epoch = x.epoch
    BY Zenon, <2>3, <2>4 DEF CallState
  <2> QED  BY Zenon, <1>1, <2>2, <2>5 DEF At
<1>2. CASE At(c, "leaf")
  <2>1. ReadLeaf(c)
    BY Zenon, <1>0, <1>2 DEF Step, Drop, Check, Checks, ResolvePackage, LoadInvite, PutInvite, PutMember, Join,
       Commit, DropInvite, DelMember, DelAdmin, PutAdmin, Transfer, Dissolve, At
  <2>2. Onward(c) \in CallState
    BY Zenon, <1>2, OnwardMoves
  <2>3. call'[c] = [Onward(c) EXCEPT !.leaf = NextLeaf]
    BY Zenon, <1>0, <2>1 DEF ReadLeaf
  <2>4. call'[c].leaf = NextLeaf
    BY Zenon, <2>2, <2>3 DEF CallState
  <2> QED  BY Zenon, <1>2, <2>4 DEF At
<1>3. CASE At(c, "epoch") \/ At(c, "live")
  <2>1. Check(c)
    BY Zenon, <1>0, <1>3 DEF Step, Drop, ReadLeaf, ResolvePackage, LoadInvite, PutInvite, PutMember, Join,
       Commit, DropInvite, DelMember, DelAdmin, PutAdmin, Transfer, Dissolve, At
  <2>2. PICK step \in Checks : At(c, step)
                 /\ Passes(step, call[c].by, call[c].dev, call[c].epoch, call[c].invite)
    BY Zenon, <1>0, <2>1 DEF Check
  <2>3. CASE At(c, "epoch")
    <3>1. step = "epoch"
      BY Zenon, <2>2, <2>3 DEF At
    <3>2. call[c].epoch = epoch
      BY Zenon, <2>2, <3>1 DEF Passes
    <3> QED  BY Zenon, <2>3, <3>2 DEF At
  <2>4. CASE At(c, "live")
    <3>1. step = "live"
      BY Zenon, <2>2, <2>4 DEF At
    <3>2. ~dissolved
      BY Zenon, <2>2, <3>1 DEF Passes
    <3> QED  BY Zenon, <2>4, <3>2 DEF At
  <2> QED  BY ZenonT(60), <1>3, <2>3, <2>4
<1> QED  BY Zenon, <1>1, <1>2, <1>3

\* A step of the group is the turn of one call, which only a write follows to the
\* rows, or the end of an invite.
LEMMA NextKinds ==
    ASSUME TypeOK, Placed, LeavesBounded, Next
    PROVE  \/ \E c \in Call : Turn(c) /\ (Silent \/ Writes(c))
           \/ \E x \in invites : ExpireInvite(x)
           \/ Cleanup
<1>1. ASSUME NEW c \in Call, Request(c)  PROVE Turn(c) /\ Silent
  <2>1. ~Open(c)
    BY Zenon, <1>1, RequestBegins, CallShapes DEF Began
  <2> QED  BY Zenon, <1>1, <2>1, RequestBegins DEF Turn, Silent, Reads
<1>2. ASSUME NEW c \in Call, Step(c) \/ Drop(c)  PROVE Turn(c) /\ (Silent \/ Writes(c))
  <2>1. Turn(c)
    BY Zenon, <1>2, StepTurns, StepReads DEF Turn
  <2>2. CASE Drop(c) \/ Check(c) \/ ResolvePackage(c) \/ LoadInvite(c) \/ ReadLeaf(c)
    BY Zenon, <2>1, <2>2 DEF Drop, Check, ResolvePackage, LoadInvite, ReadLeaf, Silent
  <2> QED  BY Zenon, <1>2, <2>1, <2>2 DEF Step, Writes
<1> QED  BY Zenon, <1>1, <1>2 DEF Next

\* The transaction that advances the epoch adds one commit, from the epoch it leaves.
LEMMA ChainGrows ==
    ASSUME TypeOK, CommitsChain, NEW c \in Call, Open(c), CommitEpoch(c, call[c].epoch)
    PROVE  /\ CommitsChain'
           /\ epoch' = epoch + 1 /\ epoch' \in 0..MaxEpoch /\ tree' = c
           /\ commits' = commits \cup {[from |-> epoch, by |-> c, invite |-> call[c].invite,
                                        late |-> call[c].late]}
           /\ commits' \subseteq [from : 0..MaxEpoch, by : Call, invite : InviteId \cup {NoCall},
                                  late : BOOLEAN]
<1> DEFINE k == [from |-> epoch, by |-> c, invite |-> call[c].invite, late |-> call[c].late]
<1>1. call[c] \in CallState
  BY Zenon, CallShapes
<1>2. call[c].invite \in InviteId \cup {NoCall} /\ call[c].late \in BOOLEAN
  BY Zenon, <1>1 DEF CallState
<1>3. /\ epoch \in Nat /\ epoch < MaxEpoch /\ epoch' = epoch + 1 /\ tree' = c
      /\ commits' = commits \cup {k} /\ MaxEpoch \in Nat
  BY BoundAssumption DEF CommitEpoch, TypeOK
<1>4. k.from = epoch /\ k.by = c
      /\ k \in [from : 0..MaxEpoch, by : Call, invite : InviteId \cup {NoCall}, late : BOOLEAN]
  BY Zenon, <1>2 DEF TypeOK
<1> HIDE DEF k
<1>5. \A j \in commits : j.from \in 0..MaxEpoch /\ j.from < epoch
  BY Zenon DEF TypeOK, CommitsChain
<1>6. \A n \in 0..MaxEpoch : (n < epoch') <=> \E j \in commits' : j.from = n
  <2> TAKE n \in 0..MaxEpoch
  <2>1. (n < epoch) <=> \E j \in commits : j.from = n
    BY Zenon DEF CommitsChain
  <2>2. (n < epoch') <=> (n < epoch \/ n = epoch)
    BY SMT, <1>3
  <2> QED  BY Zenon, <1>3, <1>4, <2>1, <2>2
<1>7. \A i, j \in commits' : i.from = j.from => i = j
  <2>1. \A j \in commits : j.from # epoch
    BY <1>3, <1>5
  <2> QED  BY Zenon, <1>3, <1>4, <2>1 DEF CommitsChain
<1>8. epoch' # 0 /\ epoch' - 1 = epoch
  BY SMT, <1>3
<1>9. CommitsChain'
  BY Zenon, <1>3, <1>4, <1>6, <1>7, <1>8 DEF CommitsChain
<1>10. epoch' \in 0..MaxEpoch
  BY SMT, <1>3
<1> QED  BY Zenon, <1>3, <1>4, <1>9, <1>10 DEF k, TypeOK

\* The commits stay one chain.
LEMMA ChainStep ==
    ASSUME TypeOK, CommitsChain, NEW c \in Call, Turn(c), Silent \/ Writes(c)
    PROVE  CommitsChain'
<1>1. CASE UNCHANGED groupVars
  BY Zenon, <1>1 DEF CommitsChain, groupVars
<1>2. CASE CommitEpoch(c, call[c].epoch) /\ Open(c)
  BY Zenon, <1>2, ChainGrows
<1>3. CASE Join(c) \/ Commit(c)
  BY Zenon, <1>1, <1>2, <1>3 DEF Join, Commit, At, groupVars
<1> QED  BY Zenon, <1>1, <1>3 DEF Silent, Writes, PutInvite, PutMember, DropInvite, DelMember,
            DelAdmin, PutAdmin, Transfer, Dissolve
\* A step of a call keeps the shape of every variable and the place of every call.
LEMMA TypeStep ==
    ASSUME TypeOK, Placed, CommitsChain, NEW c \in Call, Turn(c), Silent \/ Writes(c)
    PROVE  TypeOK' /\ Placed'
<1>0. call' \in [Call -> CallState \cup {Idle, Done}] /\ Placed'
  BY Zenon, CallsStayTyped DEF Turn
<1>1. Open(c) => /\ call[c].dev \in Device /\ call[c].by \in Device /\ call[c].leaf \in Nat
                 /\ call[c].role \in {Full, Moderator} /\ call[c].epoch \in 0..MaxEpoch
  BY Zenon, CallShapes DEF CallState
<1>2. CASE UNCHANGED <<groupVars, memberVars, adminVars, dissolved>>
           /\ invites' \subseteq [id : InviteId, dev : Device, epoch : 0..MaxEpoch, live : BOOLEAN]
  BY Zenon, <1>0, <1>2 DEF TypeOK, Rows, groupVars, memberVars, adminVars
<1>3. CASE Silent
  BY Zenon, <1>2, <1>3 DEF Silent, TypeOK
<1>4. CASE PutInvite(c)
  <2>1. c \in InviteId
    BY Zenon DEF InviteId
  <2>2. invites' \subseteq [id : InviteId, dev : Device, epoch : 0..MaxEpoch, live : BOOLEAN]
    <3> DEFINE y == [id |-> c, dev |-> call[c].dev, epoch |-> call[c].epoch, live |-> TRUE]
    <3>1. y \in [id : InviteId, dev : Device, epoch : 0..MaxEpoch, live : BOOLEAN]
      BY Zenon, <1>1, <1>4, <2>1 DEF PutInvite, At
    <3>2. invites' = invites \/ invites' = invites \cup {y}
      BY Zenon, <1>4 DEF PutInvite
    <3> HIDE DEF y
    <3> QED  BY Zenon, <3>1, <3>2 DEF TypeOK
  <2> QED  BY Zenon, <1>2, <1>4, <2>2 DEF PutInvite
<1>5. CASE DropInvite(c)
  <2>1. invites' \subseteq invites
    BY Zenon, <1>5 DEF DropInvite
  <2> QED  BY Zenon, <1>2, <1>5, <2>1 DEF DropInvite, TypeOK
<1>6. CASE PutMember(c)
  <2>1. leaf' = leaf \/ leaf' = [leaf EXCEPT ![call[c].dev] = call[c].leaf]
    BY Zenon, <1>6 DEF PutMember
  <2>2. leaf' \in [Device -> Nat \cup {NoRow}] /\ \A d \in Device : leaf[d] # NoRow => leaf'[d] # NoRow
    BY Zenon, <1>1, <1>6, <2>1 DEF TypeOK, NoRow, PutMember, At
  <2>3. joined' \subseteq Rows'
    BY Zenon, <1>6, <2>2 DEF PutMember, TypeOK, Rows
  <2> QED  BY Zenon, <1>0, <1>6, <2>2, <2>3 DEF PutMember, TypeOK, groupVars, adminVars
<1>7. CASE UNCHANGED <<memberVars, adminVars, invites, dissolved>> /\ Open(c)
           /\ CommitEpoch(c, call[c].epoch)
  <2>1. /\ epoch' \in 0..MaxEpoch /\ tree' \in Call \cup {NoCall}
        /\ commits' \subseteq [from : 0..MaxEpoch, by : Call, invite : InviteId \cup {NoCall},
                               late : BOOLEAN]
    BY Zenon, <1>7, ChainGrows
  <2> QED  BY Zenon, <1>0, <1>7, <2>1 DEF TypeOK, Rows, memberVars, adminVars
<1>8. CASE Commit(c)
  BY Zenon, <1>3, <1>7, <1>8 DEF Commit, Silent, At, groupVars
<1>9. CASE Join(c)
  <2>1. CASE CommitEpoch(c, call[c].epoch)
    <3>1. /\ epoch' \in 0..MaxEpoch /\ tree' \in Call \cup {NoCall}
          /\ commits' \subseteq [from : 0..MaxEpoch, by : Call, invite : InviteId \cup {NoCall},
                                 late : BOOLEAN]
      BY Zenon, <1>9, <2>1, ChainGrows DEF Join, At
    <3>2. joined' \subseteq Rows' /\ UNCHANGED <<leaf, admin, owner, invites, dissolved>>
      BY <1>1, <1>9 DEF Join, At, Rows, TypeOK, NoRow, adminVars
    <3> QED  BY Zenon, <1>0, <3>1, <3>2 DEF TypeOK
  <2>2. CASE Silent
    BY Zenon, <1>3, <2>2
  <2> QED  BY Zenon, <1>9, <2>1, <2>2 DEF Join, Silent, memberVars
<1>10. CASE DelMember(c)
  <2>1. leaf' \in [Device -> Nat \cup {NoRow}]
    BY Zenon, <1>1, <1>10 DEF DelMember, TypeOK, At
  <2>2. joined' \subseteq Rows'
    BY Zenon, <1>1, <1>10 DEF DelMember, TypeOK, Rows, At
  <2> QED  BY Zenon, <1>0, <1>10, <2>1, <2>2 DEF DelMember, TypeOK, groupVars, adminVars
<1>11. CASE UNCHANGED <<groupVars, memberVars, invites>> /\ dissolved' \in BOOLEAN
            /\ admin' \in [Device -> {NoRow, Full, Moderator}]
            /\ owner' \subseteq {d \in Device : admin'[d] # NoRow}
  BY Zenon, <1>0, <1>11 DEF TypeOK, Rows, groupVars, memberVars
<1>12. CASE DelAdmin(c) \/ PutAdmin(c) \/ Transfer(c) \/ Dissolve(c)
  <2>1. dissolved' \in BOOLEAN /\ UNCHANGED <<groupVars, memberVars, invites>>
    BY Zenon, <1>12 DEF DelAdmin, PutAdmin, Transfer, Dissolve, TypeOK
  <2>2. admin' \in [Device -> {NoRow, Full, Moderator}]
    BY Zenon, <1>1, <1>12 DEF DelAdmin, PutAdmin, Transfer, Dissolve, TypeOK, At, adminVars
  <2>3. owner' \subseteq {d \in Device : admin'[d] # NoRow}
    BY <1>1, <1>12 DEF DelAdmin, PutAdmin, Transfer, Dissolve, TypeOK, At, adminVars, NoRow, Full,
       Moderator
  <2> QED  BY Zenon, <1>11, <2>1, <2>2, <2>3
<1> QED  BY Zenon, <1>0, <1>3, <1>4, <1>5, <1>6, <1>8, <1>9, <1>10, <1>12 DEF Writes

\* An invite that expires or is cleaned up leaves rows that were there, with their
\* device and epoch, and nothing else changed.
LEMMA InviteEnds ==
    ASSUME TypeOK, (\E x \in invites : ExpireInvite(x)) \/ Cleanup
    PROVE  /\ UNCHANGED <<groupVars, memberVars, adminVars, dissolved, call>>
           /\ invites' \subseteq [id : InviteId, dev : Device, epoch : 0..MaxEpoch, live : BOOLEAN]
           /\ \A y \in invites' : \E x \in invites : y.id = x.id /\ y.epoch = x.epoch
<1>1. CASE Cleanup
  BY Zenon, <1>1 DEF Cleanup, TypeOK
<1>2. ASSUME NEW x \in invites, ExpireInvite(x)
      PROVE  /\ UNCHANGED <<groupVars, memberVars, adminVars, dissolved, call>>
             /\ invites' \subseteq [id : InviteId, dev : Device, epoch : 0..MaxEpoch, live : BOOLEAN]
             /\ \A y \in invites' : \E z \in invites : y.id = z.id /\ y.epoch = z.epoch
  <2> DEFINE w == [x EXCEPT !.live = FALSE]
  <2>1. x \in [id : InviteId, dev : Device, epoch : 0..MaxEpoch, live : BOOLEAN]
    BY Zenon DEF TypeOK
  <2>2. /\ w \in [id : InviteId, dev : Device, epoch : 0..MaxEpoch, live : BOOLEAN]
        /\ w.id = x.id /\ w.epoch = x.epoch
    BY Zenon, <2>1
  <2> HIDE DEF w
  <2>3. invites' = (invites \ {x}) \cup {w}
    BY Zenon, <1>2 DEF ExpireInvite, w
  <2>4. UNCHANGED <<groupVars, memberVars, adminVars, dissolved, call>>
    BY Zenon, <1>2 DEF ExpireInvite
  <2>5. invites' \subseteq [id : InviteId, dev : Device, epoch : 0..MaxEpoch, live : BOOLEAN]
    BY Zenon, <2>2, <2>3 DEF TypeOK
  <2>6. \A y \in invites' : \E z \in invites : y.id = z.id /\ y.epoch = z.epoch
    BY Zenon, <2>2, <2>3
  <2> QED  BY Zenon, <2>4, <2>5, <2>6
<1> QED  BY Zenon, <1>1, <1>2
----------------------------------------------------------------------------
(* Invites.                                                                *)

\* Calls that ended stay ended: an invite that was made stays made.
LEMMA KnownStays ==
    ASSUME TypeOK, NEW c \in Call, Turn(c)
    PROVE  \A i : Known(i) => Known(i)'
<1>1. \A b \in Call : call[b] = Done => call'[b] = Done
  <2>1. \A b \in Call : b # c => call'[b] = call[b]
    BY Zenon DEF Turn, OthersStay, TypeOK
  <2>2. call[c] # Done \/ call'[c] = Done
    BY Zenon, CallShapes DEF Turn, Began
  <2> QED  BY Zenon, <2>1, <2>2
<1> QED  BY Zenon, <1>1 DEF Known

\* Whoever names an invite still names one that was made.
LEMMA InvitesKnownStep ==
    ASSUME TypeOK, Placed, CommitsChain, InvitesKnown, NEW c \in Call, Turn(c), Silent \/ Writes(c)
    PROVE  InvitesKnown'
<1>1. \A i : Known(i) => Known(i)'
  BY Zenon, KnownStays
<1>2. /\ \A b \in Call : b # c => call'[b] = call[b] /\ (Open(b)' <=> Open(b))
      /\ Open(c)' <=> call'[c] \in CallState
  BY Zenon, CallsStayTyped DEF Turn
<1>3. ASSUME Open(c)'
      PROVE  (IF call[c].op \in {"accept", "decline"} THEN Known(call[c].invite)
              ELSE call[c].invite = NoCall)'
  <2>1. CASE Began(c)
    BY Zenon, <1>1, <2>1 DEF Began, InvitesKnown
  <2>2. CASE Open(c) /\ Moved(c)
    BY Zenon, <1>1, <2>2 DEF Moved, InvitesKnown
  <2>3. ~Ended(c)
    BY Zenon, <1>2, <1>3, CallShapes DEF Ended
  <2> QED  BY Zenon, <2>1, <2>2, <2>3 DEF Turn
<1>4. \A b \in Call : Open(b)' =>
          (IF call[b].op \in {"accept", "decline"} THEN Known(call[b].invite)
           ELSE call[b].invite = NoCall)'
  BY Zenon, <1>1, <1>2, <1>3 DEF InvitesKnown
<1>5. \A x \in invites' : Known(x.id)'
  <2>1. CASE invites' \subseteq invites
    BY Zenon, <1>1, <2>1 DEF InvitesKnown
  <2>2. CASE PutInvite(c)
    <3>1. Known(c)'
      BY Zenon, <2>2 DEF PutInvite, Return, TypeOK, Known
    <3>2. \A x \in invites' : x \in invites \/ x.id = c
      BY <2>2 DEF PutInvite
    <3> QED  BY Zenon, <1>1, <3>1, <3>2 DEF InvitesKnown
  <2> QED  BY Zenon, <2>1, <2>2 DEF Silent, Writes, PutMember, Join, Commit, DropInvite, DelMember,
              DelAdmin, PutAdmin, Transfer, Dissolve
<1>6. \A k \in commits' : k.invite # NoCall => Known(k.invite)'
  <2>1. CASE UNCHANGED groupVars
    BY Zenon, <1>1, <2>1 DEF InvitesKnown, groupVars
  <2>2. CASE CommitEpoch(c, call[c].epoch) /\ Open(c)
    <3>1. \A k \in commits' : k \in commits \/ k.invite = call[c].invite
      BY <2>2 DEF CommitEpoch
    <3> QED  BY Zenon, <1>1, <2>2, <3>1 DEF InvitesKnown
  <2>3. CASE Join(c) \/ Commit(c)
    BY Zenon, <2>1, <2>2, <2>3 DEF Join, Commit, At, groupVars
  <2> QED  BY Zenon, <2>1, <2>3 DEF Silent, Writes, PutInvite, PutMember, DropInvite, DelMember,
              DelAdmin, PutAdmin, Transfer, Dissolve
<1> QED  BY Zenon, <1>4, <1>5, <1>6 DEF InvitesKnown

\* Nothing new is said of an invite, but by the call that makes it.
LEMMA SaysStays ==
    ASSUME TypeOK, Placed, LeavesBounded, CommitsChain, InvitesKnown, NEW c \in Call,
           Turn(c), Silent \/ Writes(c),
           NEW i \in InviteId, NEW e, Says(i, e)'
    PROVE  Says(i, e) \/ (PutInvite(c) /\ i = c /\ e = call[c].epoch)
<1>0. /\ \A b \in Call : b # c => call'[b] = call[b] /\ (Open(b)' <=> Open(b))
      /\ Open(c)' <=> call'[c] \in CallState
  BY Zenon, CallsStayTyped DEF Turn
<1>1. CASE \E x \in invites' : x.id = i /\ x.epoch = e
  <2>1. CASE PutInvite(c)
    <3>1. \A x \in invites' : x \in invites \/ (x.id = c /\ x.epoch = call[c].epoch)
      BY <2>1 DEF PutInvite
    <3> QED  BY Zenon, <1>1, <2>1, <3>1 DEF Says
  <2>2. CASE invites' \subseteq invites
    BY Zenon, <1>1, <2>2 DEF Says
  <2> QED  BY Zenon, <2>1, <2>2 DEF Silent, Writes, PutMember, Join, Commit, DropInvite, DelMember,
              DelAdmin, PutAdmin, Transfer, Dissolve
<1>2. CASE \E b \in Call : /\ Accepting(b)' /\ call'[b].step > 1
                           /\ call'[b].invite = i /\ call'[b].epoch = e
  <2>1. PICK b \in Call : /\ Accepting(b)' /\ call'[b].step > 1
                          /\ call'[b].invite = i /\ call'[b].epoch = e
    BY Zenon, <1>2
  <2>2. CASE b # c
    BY Zenon, <1>0, <2>1, <2>2 DEF Says, Accepting
  <2>3. CASE b = c
    <3>1. ~Ended(c) /\ ~Began(c)
      <4>1. ~Ended(c)
        BY Zenon, <1>0, <2>1, <2>3, CallShapes DEF Ended, Accepting
      <4>2. ~Began(c)
        BY <2>1, <2>3 DEF Began
      <4> QED  BY Zenon, <4>1, <4>2
    <3>2. /\ Open(c) /\ call[c].op = "accept" /\ call[c].invite = i
          /\ call'[c].step = call[c].step + 1 /\ call[c] \in CallState
          /\ At(c, "invited") \/ call[c].epoch = e
      BY Zenon, <2>1, <2>3, <3>1, CallShapes DEF Turn, Moved, Accepting
    <3>3. CASE At(c, "invited")
      <4>1. PICK x \in invites : x.id = call[c].invite /\ call'[c].epoch = x.epoch
        BY Zenon, <3>1, <3>2, <3>3 DEF Turn, Reads
      <4> QED  BY Zenon, <2>1, <2>3, <3>2, <4>1 DEF Says
    <3>4. CASE ~At(c, "invited")
      <4>1. call[c].step > 1
        <5>1. call[c].op \in DOMAIN Script /\ call[c].step \in DOMAIN Script[call[c].op]
          BY Zenon, <3>2 DEF CallState, Placed
        <5>2. call[c].step \in 1..7 /\ call[c].step # 1
          BY <3>2, <3>4, <5>1, ScriptSteps DEF At
        <5> QED  BY SMT, <5>2
      <4> QED  BY Zenon, <3>2, <3>4, <4>1 DEF Says, Accepting
    <3> QED  BY Zenon, <3>3, <3>4
  <2> QED  BY Zenon, <2>2, <2>3
<1>3. CASE \E k \in commits' : k.invite = i /\ k.from = e
  <2>1. CASE UNCHANGED groupVars
    BY Zenon, <1>3, <2>1 DEF Says, groupVars
  <2>2. CASE Commit(c) /\ CommitEpoch(c, call[c].epoch)
    <3>1. call[c] \in CallState /\ Open(c) /\ Script[call[c].op][call[c].step] = "commit"
      BY Zenon, <2>2, CallShapes DEF Commit, At
    <3>2. call[c].op \in DOMAIN Script /\ call[c].step \in DOMAIN Script[call[c].op]
      BY Zenon, <3>1 DEF CallState, Placed
    <3>3. call[c].op = "commit"
      BY SMT, <3>1, <3>2, ScriptSteps
    <3>4. call[c].invite = NoCall
      BY Zenon, <3>1, <3>3 DEF InvitesKnown
    <3>5. \A k \in commits' : k \in commits \/ k.invite = NoCall
      BY <2>2, <3>4 DEF CommitEpoch
    <3>6. i # NoCall
      BY Zenon, NameAssumption DEF InviteId
    <3> QED  BY Zenon, <1>3, <3>5, <3>6 DEF Says
  <2>3. CASE Join(c) /\ CommitEpoch(c, call[c].epoch)
    <3>1. call[c] \in CallState /\ Open(c) /\ Script[call[c].op][call[c].step] = "join"
      BY Zenon, <2>3, CallShapes DEF Join, At
    <3>2. call[c].op \in DOMAIN Script /\ call[c].step \in DOMAIN Script[call[c].op]
      BY Zenon, <3>1 DEF CallState, Placed
    <3>3. call[c].op = "accept" /\ call[c].step = 6
      BY SMT, <3>1, <3>2, ScriptSteps
    <3>4. \A k \in commits' : k \in commits \/ (k.invite = call[c].invite /\ k.from = call[c].epoch)
      BY <2>3 DEF CommitEpoch
    <3>5. call[c].step > 1
      BY SMT, <3>3
    <3> QED  BY Zenon, <1>3, <3>1, <3>3, <3>4, <3>5 DEF Says, Accepting
  <2>4. CASE Join(c) \/ Commit(c)
    BY Zenon, <2>1, <2>2, <2>3, <2>4 DEF Join, Commit, groupVars
  <2> QED  BY Zenon, <2>1, <2>4 DEF Silent, Writes, PutInvite, PutMember, DropInvite, DelMember,
              DelAdmin, PutAdmin, Transfer, Dissolve
<1> QED  BY Zenon, <1>1, <1>2, <1>3 DEF Says
\* Who says what epoch an invite is for agrees with everyone else who does.
LEMMA OneEpochStep ==
    ASSUME TypeOK, Placed, LeavesBounded, CommitsChain, InvitesKnown, OneEpoch,
           NEW c \in Call, Turn(c), Silent \/ Writes(c)
    PROVE  OneEpoch'
<1>1. ASSUME PutInvite(c), NEW e  PROVE ~Says(c, e)
  <2>1. call[c] # Done /\ c \notin Device /\ c # NoCall
    BY Zenon, <1>1, NameAssumption, CallShapes DEF PutInvite, At
  <2>2. ~Known(c)
    BY Zenon, <2>1 DEF Known
  <2> QED  BY Zenon, <2>1, <2>2 DEF Says, InvitesKnown, Accepting
<1>2. ASSUME NEW i \in InviteId, NEW e, NEW f, Says(i, e)', Says(i, f)', Says(i, e) /\ Says(i, f) => e = f
      PROVE  e = f
  <2>1. Says(i, e) \/ (PutInvite(c) /\ i = c /\ e = call[c].epoch)
    BY Zenon, <1>2, SaysStays
  <2>2. Says(i, f) \/ (PutInvite(c) /\ i = c /\ f = call[c].epoch)
    BY Zenon, <1>2, SaysStays
  <2> QED  BY Zenon, <1>1, <1>2, <2>1, <2>2
<1> QED  BY Zenon, <1>2 DEF OneEpoch

----------------------------------------------------------------------------
(* Leaves, ownership and the end of the group.                             *)

\* Where a call stands that takes a step of the given name.
LEMMA StandsAt ==
    ASSUME TypeOK, Placed, NEW c \in Call, Open(c)
    PROVE  /\ call[c] \in CallState /\ call[c].step \in 1..7
           /\ At(c, "invited") => call[c].step = 1
           /\ At(c, "epoch") <=> (call[c].op = "accept" /\ call[c].step = 2)
           /\ At(c, "leaf") <=> (call[c].op = "accept" /\ call[c].step = 4)
           /\ At(c, "join") => call[c].op = "accept" /\ call[c].step = 6
           /\ At(c, "commit") => call[c].op = "commit" /\ call[c].step = 3
           /\ call[c].op = "commit" /\ call[c].step = 2 => At(c, "live")
<1>1. call[c] \in CallState
  BY Zenon, CallShapes
<1>2. call[c].op \in DOMAIN Script /\ call[c].step \in DOMAIN Script[call[c].op]
  BY Zenon, <1>1 DEF CallState, Placed
<1> DEFINE op == call[c].op
           n == call[c].step
<1>3. /\ n \in 1..7
      /\ Script[op][n] = "invited" => n = 1
      /\ Script[op][n] = "epoch" <=> (op = "accept" /\ n = 2)
      /\ Script[op][n] = "leaf" <=> (op = "accept" /\ n = 4)
      /\ Script[op][n] = "join" => op = "accept" /\ n = 6
      /\ Script[op][n] = "commit" => op = "commit" /\ n = 3
      /\ op = "commit" /\ n = 2 => Script[op][n] = "live"
  <2>1. op \in DOMAIN Script /\ n \in DOMAIN Script[op]
    BY Zenon, <1>2
  <2> HIDE DEF op, n
  <2> QED  BY SMT, <2>1, ScriptSteps
<1> QED  BY Zenon, <1>1, <1>3 DEF At

\* Only the transaction of a commit advances the epoch, and only that of a join adds
\* to the joined; the leaves of the joined stay.
LEMMA LeafSteps ==
    ASSUME TypeOK, NEW c \in Call, Turn(c), Silent \/ Writes(c)
    PROVE  \/ /\ Open(c) /\ CommitEpoch(c, call[c].epoch) /\ leaf' = leaf
              /\ \/ joined' = joined
                 \/ At(c, "join") /\ joined' = joined \cup {d \in {call[c].dev} : leaf[d] = call[c].leaf}
           \/ /\ epoch' = epoch /\ joined' \subseteq joined
              /\ \A d \in joined' : leaf'[d] = leaf[d]
<1>1. CASE epoch' = epoch /\ UNCHANGED memberVars
  BY Zenon, <1>1 DEF memberVars
<1>2. CASE Join(c)
  BY Zenon, <1>1, <1>2 DEF Join, At, groupVars, memberVars
<1>3. CASE Commit(c)
  BY Zenon, <1>1, <1>3 DEF Commit, At, groupVars, memberVars
<1>4. CASE PutMember(c)
  <2>1. leaf' = leaf \/ (leaf[call[c].dev] = NoRow /\ leaf' = [leaf EXCEPT ![call[c].dev] = call[c].leaf])
    BY Zenon, <1>4 DEF PutMember
  <2>2. epoch' = epoch /\ joined' = joined
    BY Zenon, <1>4 DEF PutMember, groupVars
  <2>3. \A d \in joined : d \in Device /\ leaf[d] # NoRow
    BY Zenon DEF TypeOK, Rows
  <2>4. \A d \in joined' : leaf'[d] = leaf[d]
    BY Zenon, <2>1, <2>2, <2>3 DEF TypeOK
  <2> QED  BY Zenon, <2>2, <2>4
<1>5. CASE DelMember(c)
  <2>1. epoch' = epoch /\ joined' = joined \ {call[c].dev} /\ leaf' = [leaf EXCEPT ![call[c].dev] = NoRow]
    BY Zenon, <1>5 DEF DelMember, groupVars
  <2>2. \A d \in joined' : d \in Device /\ d # call[c].dev
    BY Zenon, <2>1 DEF TypeOK, Rows
  <2> QED  BY Zenon, <2>1, <2>2 DEF TypeOK
<1> QED  BY Zenon, <1>1, <1>2, <1>3, <1>4, <1>5 DEF Silent, Writes, PutInvite, DropInvite, DelAdmin,
            PutAdmin, Transfer, Dissolve, groupVars

\* The leaf an acceptance read stays ahead of the joined while the group is in the
\* epoch of its invite.
LEMMA LeavesAheadStep ==
    ASSUME TypeOK, Placed, LeavesBounded, LeavesAhead, NEW c \in Call, Turn(c), Silent \/ Writes(c)
    PROVE  LeavesAhead'
<1>0. /\ \A b \in Call : b # c => call'[b] = call[b] /\ (Open(b)' <=> Open(b))
      /\ Open(c)' <=> call'[c] \in CallState
  BY Zenon, CallsStayTyped DEF Turn
<1>1. epoch \in Nat /\ (epoch' = epoch \/ epoch' = epoch + 1)
  BY LeafSteps DEF TypeOK, CommitEpoch
<1>2. \A b \in Call : Open(b) => call[b].epoch \in Nat /\ call[b].step \in Nat /\ call[b].leaf \in Nat
  BY CallShapes DEF CallState
<1>3. ASSUME NEW b \in Call, Accepting(b)'
      PROVE  /\ call'[b].step > 2 => call'[b].epoch <= epoch /\ call'[b].epoch \in Nat
             /\ call'[b].step > 4 /\ call'[b].epoch = epoch =>
                    \A d \in joined : leaf[d] < call'[b].leaf
  <2>1. CASE b # c
    BY Zenon, <1>0, <1>2, <1>3, <2>1 DEF LeavesAhead, Accepting
  <2>2. CASE b = c /\ Began(c)
    BY SMT, <2>2 DEF Began
  <2>3. CASE b = c /\ Open(c) /\ Moved(c)
    <3>1. /\ Accepting(c) /\ call'[c].step = call[c].step + 1
          /\ At(c, "invited") \/ call'[c].epoch = call[c].epoch
          /\ At(c, "leaf") \/ call'[c].leaf = call[c].leaf
      BY Zenon, <1>3, <2>3 DEF Moved, Accepting
    <3>2. /\ At(c, "epoch") <=> call[c].step = 2
          /\ At(c, "leaf") <=> call[c].step = 4
          /\ At(c, "invited") => call[c].step = 1
      BY Zenon, <3>1, StandsAt DEF Accepting
    <3>3. call[c].step = 2 => call[c].epoch = epoch
      BY Zenon, <2>3, <3>2 DEF Turn, Reads
    <3>4. call[c].step = 4 => \A d \in joined : leaf[d] < call'[c].leaf
      <4>1. joined \subseteq Rows
        BY Zenon DEF TypeOK
      <4> QED  BY Zenon, <2>3, <3>2, <4>1, NextLeafIsAhead DEF Turn, Reads
    <3>5. /\ call[c].step > 2 => call[c].epoch <= epoch
          /\ call[c].step > 4 /\ call[c].epoch = epoch => \A d \in joined : leaf[d] < call[c].leaf
      BY Zenon, <3>1 DEF LeavesAhead
    <3>6. call[c].epoch \in Nat /\ call[c].step \in Nat
      BY Zenon, <1>2, <2>3
    <3>7. call'[c].step > 2 => call'[c].epoch <= epoch /\ call'[c].epoch \in Nat
      BY SMT, <1>1, <3>1, <3>2, <3>3, <3>5, <3>6
    <3>8. ASSUME call'[c].step > 4, call'[c].epoch = epoch
          PROVE  \A d \in joined : leaf[d] < call'[c].leaf
      <4>1. call[c].step = 4 \/ call[c].step > 4
        BY SMT, <3>1, <3>6, <3>8
      <4>2. CASE call[c].step > 4
        <5>1. ~At(c, "invited") /\ ~At(c, "leaf")
          BY SMT, <3>2, <4>2
        <5> QED  BY Zenon, <3>1, <3>5, <3>8, <4>2, <5>1
      <4> QED  BY Zenon, <3>4, <4>1, <4>2
    <3> QED  BY Zenon, <2>3, <3>7, <3>8
  <2>4. ~(b = c /\ Ended(c))
    BY Zenon, <1>0, <1>3, CallShapes DEF Ended, Accepting
  <2> QED  BY Zenon, <2>1, <2>2, <2>3, <2>4 DEF Turn
<1>4. CASE epoch' = epoch /\ joined' \subseteq joined /\ \A d \in joined' : leaf'[d] = leaf[d]
  BY Zenon, <1>3, <1>4 DEF LeavesAhead
<1>5. CASE epoch' = epoch + 1
  <2>1. ASSUME NEW b \in Call, Accepting(b)', call'[b].step > 2
        PROVE  call'[b].epoch <= epoch' /\ call'[b].epoch # epoch'
    <3>1. call'[b].epoch <= epoch /\ call'[b].epoch \in Nat
      BY Zenon, <1>3, <2>1
    <3> QED  BY SMT, <1>1, <1>5, <3>1
  <2>2. ASSUME NEW b \in Call, Accepting(b)', call'[b].step > 4  PROVE call'[b].step > 2
    <3>1. Open(b)' => call'[b].step \in Nat
      BY <1>0, <1>2 DEF CallState
    <3> QED  BY SMT, <2>2, <3>1 DEF Accepting
  <2> QED  BY Zenon, <2>1, <2>2 DEF LeavesAhead
<1> QED  BY Zenon, <1>1, <1>4, <1>5, LeafSteps DEF CommitEpoch
\* The leaves have a bound at every moment.
LEMMA BoundStep ==
    ASSUME TypeOK, LeavesBounded, NEW c \in Call, Turn(c), Silent \/ Writes(c)
    PROVE  LeavesBounded'
<1>1. CASE leaf' = leaf
  BY Zenon, <1>1 DEF LeavesBounded
<1>2. CASE Open(c) /\ leaf' = [leaf EXCEPT ![call[c].dev] = call[c].leaf]
  <2>1. call[c].leaf \in Nat /\ leaf \in [Device -> Nat \cup {NoRow}]
    BY Zenon, <1>2, CallShapes DEF CallState, TypeOK
  <2>2. PICK n \in Nat : \A d \in Device : leaf[d] <= n
    BY Zenon DEF LeavesBounded
  <2>3. \A d \in Device : leaf'[d] <= n + call[c].leaf
    BY <1>2, <2>1, <2>2 DEF NoRow
  <2>4. n + call[c].leaf \in Nat
    BY <2>1
  <2> QED  BY Zenon, <2>3, <2>4 DEF LeavesBounded
<1>3. CASE DelMember(c)
  <2>1. leaf' = [leaf EXCEPT ![call[c].dev] = NoRow] /\ leaf \in [Device -> Nat \cup {NoRow}]
    BY Zenon, <1>3 DEF DelMember, TypeOK
  <2>2. PICK n \in Nat : \A d \in Device : leaf[d] <= n
    BY Zenon DEF LeavesBounded
  <2>3. \A d \in Device : leaf'[d] <= n
    BY <2>1, <2>2 DEF NoRow
  <2> QED  BY Zenon, <2>3 DEF LeavesBounded
<1>4. CASE PutMember(c)
  BY Zenon, <1>1, <1>2, <1>4 DEF PutMember, At
<1> QED  BY Zenon, <1>1, <1>3, <1>4 DEF Silent, Writes, PutInvite, Join, Commit, DropInvite, DelAdmin,
            PutAdmin, Transfer, Dissolve, memberVars

\* A join adds a leaf that none of the joined has.
LEMMA DifferStep ==
    ASSUME TypeOK, Placed, LeavesAhead, JoinedLeavesDiffer, NEW c \in Call, Turn(c), Silent \/ Writes(c)
    PROVE  JoinedLeavesDiffer'
<1>1. CASE joined' \subseteq joined /\ \A d \in joined' : leaf'[d] = leaf[d]
  BY Zenon, <1>1 DEF JoinedLeavesDiffer
<1>2. CASE /\ Open(c) /\ CommitEpoch(c, call[c].epoch) /\ leaf' = leaf /\ At(c, "join")
           /\ joined' = joined \cup {d \in {call[c].dev} : leaf[d] = call[c].leaf}
  <2>1. call[c].op = "accept" /\ call[c].step = 6 /\ call[c] \in CallState
    BY ZenonT(60), <1>2, StandsAt
  <2>2. \A d \in joined : leaf[d] < call[c].leaf
    BY <1>2, <2>1 DEF LeavesAhead, Accepting, CommitEpoch
  <2>3. call[c].leaf \in Nat /\ \A d \in joined : leaf[d] \in Nat
    BY SMTT(60), <2>1 DEF CallState, TypeOK, Rows
  <2>4. \A d \in joined : leaf[d] # call[c].leaf
    BY SMT, <2>2, <2>3
  <2> QED  BY Zenon, <1>2, <2>4 DEF JoinedLeavesDiffer
<1> QED  BY Zenon, <1>1, <1>2, LeafSteps

\* A transfer takes the ownership from the one who has it.
LEMMA OwnerStep ==
    ASSUME TypeOK, AtMostOne, NEW c \in Call, Turn(c), Silent \/ Writes(c)
    PROVE  AtMostOne'
<1>1. CASE owner' \subseteq owner
  BY Zenon, <1>1 DEF AtMostOne
<1>2. CASE Transfer(c)
  <2>1. owner' = owner \/ (call[c].by \in owner /\ owner' = (owner \ {call[c].by}) \cup {call[c].dev})
    BY Zenon, <1>2 DEF Transfer
  <2> QED  BY Zenon, <2>1 DEF AtMostOne
<1> QED  BY Zenon, <1>1, <1>2 DEF Silent, Writes, PutInvite, PutMember, Join, Commit, DropInvite,
            DelMember, DelAdmin, PutAdmin, Dissolve, adminVars

\* Who asks whether the group is dissolved learns it, if it was when they began.
LEMMA LateStep ==
    ASSUME TypeOK, Placed, LateKnown, NEW c \in Call, Turn(c), Silent \/ Writes(c)
    PROVE  LateKnown'
<1>0. /\ \A b \in Call : b # c => call'[b] = call[b] /\ (Open(b)' <=> Open(b))
      /\ Open(c)' <=> call'[c] \in CallState
  BY Zenon, CallsStayTyped DEF Turn
<1>1. dissolved => dissolved'
  BY Zenon DEF Silent, Writes, PutInvite, PutMember, Join, Commit, DropInvite, DelMember, DelAdmin,
     PutAdmin, Transfer, Dissolve
<1>2. CASE Began(c)
  <2>1. call'[c].late = dissolved /\ call'[c].step # 3
    BY <1>2 DEF Began
  <2> QED  BY ZenonT(60), <1>0, <1>1, <2>1 DEF LateKnown
<1>3. CASE Open(c) /\ Moved(c)
  <2>1. /\ call'[c].step = call[c].step + 1 /\ call'[c].op = call[c].op /\ call'[c].late = call[c].late
        /\ call[c].step \in 1..7
        /\ call[c].op = "commit" /\ call[c].step = 2 => At(c, "live")
    BY Zenon, <1>3, StandsAt DEF Moved
  <2>2. call'[c].step = 3 => call[c].step = 2
    BY SMT, <2>1
  <2>3. call'[c].op = "commit" /\ call'[c].step = 3 => ~dissolved
    BY Zenon, <1>3, <2>1, <2>2 DEF Turn, Reads
  <2> QED  BY Zenon, <1>0, <1>1, <1>3, <2>1, <2>3 DEF LateKnown
<1>4. CASE Ended(c)
  BY Zenon, <1>0, <1>1, <1>4, CallShapes DEF Ended, LateKnown
<1> QED  BY Zenon, <1>2, <1>3, <1>4 DEF Turn

\* What commits after the end of the group accepts an invite.
LEMMA AdmitsStep ==
    ASSUME TypeOK, Placed, InvitesKnown, LateKnown, DissolvedOnlyAdmits,
           NEW c \in Call, Turn(c), Silent \/ Writes(c)
    PROVE  DissolvedOnlyAdmits'
<1>1. CASE UNCHANGED groupVars
  BY Zenon, <1>1 DEF DissolvedOnlyAdmits, groupVars
<1>2. CASE CommitEpoch(c, call[c].epoch) /\ Open(c) /\ (At(c, "join") \/ At(c, "commit"))
  <2>1. \A k \in commits' : k \in commits \/ (k.late = call[c].late /\ k.invite = call[c].invite)
    BY <1>2 DEF CommitEpoch
  <2>2. CASE At(c, "join")
    <3>1. call[c].op = "accept"
      BY Zenon, <1>2, <2>2, StandsAt
    <3>2. Known(call[c].invite)
      BY Zenon, <1>2, <3>1 DEF InvitesKnown
    <3>3. call[c].invite # NoCall
      BY Zenon, <3>2, NameAssumption DEF Known
    <3> QED  BY Zenon, <2>1, <3>3 DEF DissolvedOnlyAdmits
  <2>3. CASE At(c, "commit")
    <3>1. ~call[c].late
      BY Zenon, <1>2, <2>3, StandsAt DEF LateKnown
    <3> QED  BY Zenon, <2>1, <3>1 DEF DissolvedOnlyAdmits
  <2> QED  BY Zenon, <1>2, <2>2, <2>3
<1>3. CASE Join(c) \/ Commit(c)
  BY Zenon, <1>1, <1>2, <1>3 DEF Join, Commit, At, groupVars
<1> QED  BY Zenon, <1>1, <1>3 DEF Silent, Writes, PutInvite, PutMember, DropInvite, DelMember,
            DelAdmin, PutAdmin, Transfer, Dissolve

----------------------------------------------------------------------------
(* The theorems.                                                           *)

\* The invariant holds of a group some devices have joined.
LEMMA GroupInitially == Init => GroupInv
<1> SUFFICES ASSUME Init  PROVE GroupInv
  BY Zenon
<1>1. PICK F \in Founders :
          /\ leaf \in [Device -> NoRow..(Cardinality(F) - 1)]
          /\ \A d \in Device : leaf[d] = NoRow <=> d \notin F
          /\ \A d, e \in F : leaf[d] = leaf[e] => d = e
          /\ admin = [d \in Device |-> IF d \in F THEN Full ELSE NoRow]
          /\ joined = F
          /\ \E P \in {{}, Device \ F} : \E e \in [P -> RequestEpoch] :
                invites = {[id |-> d, dev |-> d, epoch |-> e[d], live |-> TRUE] : d \in P}
  BY Zenon DEF Init
<1>2. /\ epoch = 0 /\ tree = NoCall /\ commits = {} /\ owner = {Creator} /\ dissolved = FALSE
      /\ call = [c \in Call |-> Idle] /\ leaf[Creator] = 0
  BY Zenon DEF Init
<1>3. F \subseteq Device /\ Creator \in F /\ Creator \in Device
  BY Zenon, NameAssumption
<1>4. Cardinality(F) \in Nat
  BY Zenon, <1>3, NameAssumption, FS_Subset, FS_CardinalityType
<1>5. \A c \in Call : ~Open(c)
  BY Zenon, <1>2 DEF Open
<1>6. PICK P \in SUBSET Device : \E e \in [P -> RequestEpoch] :
          invites = {[id |-> d, dev |-> d, epoch |-> e[d], live |-> TRUE] : d \in P}
  BY Zenon, <1>1
<1>7. PICK ep \in [P -> RequestEpoch] :
          invites = {[id |-> d, dev |-> d, epoch |-> ep[d], live |-> TRUE] : d \in P}
  BY Zenon, <1>6
<1>8. /\ invites \subseteq [id : InviteId, dev : Device, epoch : 0..MaxEpoch, live : BOOLEAN]
      /\ \A x \in invites : x.id \in P /\ x.epoch = ep[x.id]
  <2>1. RequestEpoch \subseteq 0..MaxEpoch /\ P \subseteq Device /\ P \subseteq InviteId
    BY BoundAssumption DEF InviteId, RequestEpoch
  <2>2. \A d \in P : ep[d] \in 0..MaxEpoch
    BY Zenon, <2>1
  <2>3. ASSUME NEW d \in P, NEW x, x = [id |-> d, dev |-> d, epoch |-> ep[d], live |-> TRUE]
        PROVE  /\ x \in [id : InviteId, dev : Device, epoch : 0..MaxEpoch, live : BOOLEAN]
               /\ x.id \in P /\ x.epoch = ep[x.id]
    <3>1. d \in Device /\ d \in InviteId /\ ep[d] \in 0..MaxEpoch
      BY Zenon, <2>1, <2>2
    <3> QED  BY Zenon, <2>3, <3>1
  <2> QED  BY Zenon, <1>7, <2>3
<1>9. leaf \in [Device -> Nat \cup {NoRow}] /\ joined \subseteq Rows
  BY SMTT(60), <1>1, <1>3, <1>4 DEF NoRow, Rows
<1>10. /\ admin \in [Device -> {NoRow, Full, Moderator}]
       /\ owner \subseteq {d \in Device : admin[d] # NoRow}
  BY <1>1, <1>2, <1>3 DEF NoRow, Full
<1>11. TypeOK
  <2>1. epoch \in 0..MaxEpoch /\ tree \in Call \cup {NoCall} /\ dissolved \in BOOLEAN
    <3>1. 0 \in 0..MaxEpoch
      BY SMT, BoundAssumption
    <3> QED  BY Zenon, <1>2, <3>1
  <2>2. call \in [Call -> CallState \cup {Idle, Done}]
    <3>1. \A c \in Call : call[c] \in CallState \cup {Idle, Done}
      BY Zenon, <1>2
    <3> QED  BY SMT, <1>2, <3>1
  <2>3. commits \subseteq [from : 0..MaxEpoch, by : Call, invite : InviteId \cup {NoCall}, late : BOOLEAN]
    BY Zenon, <1>2
  <2> QED  BY Zenon, <1>8, <1>9, <1>10, <2>1, <2>2, <2>3 DEF TypeOK
<1>12. Placed /\ LateKnown /\ DissolvedOnlyAdmits /\ LeavesAhead /\ AtMostOne
  BY Zenon, <1>2, <1>5 DEF Placed, LateKnown, DissolvedOnlyAdmits, LeavesAhead, AtMostOne, Accepting
<1>13. CommitsChain
  BY <1>2 DEF CommitsChain
<1>14. InvitesKnown
  BY Zenon, <1>2, <1>5, <1>8 DEF InvitesKnown, Known
<1>15. OneEpoch
  <2>1. \A i, e : Says(i, e) => e = ep[i]
    <3>1. ASSUME NEW i, NEW e, Says(i, e)  PROVE \E x \in invites : x.id = i /\ x.epoch = e
      BY Zenon, <1>2, <1>5, <3>1 DEF Says, Accepting
    <3>2. ASSUME NEW i, NEW e, Says(i, e)  PROVE e = ep[i]
      <4>1. PICK x \in invites : x.id = i /\ x.epoch = e
        BY Zenon, <3>1, <3>2
      <4> QED  BY Zenon, <1>8, <4>1
    <3> QED  BY Zenon, <3>2
  <2> QED  BY Zenon, <2>1 DEF OneEpoch
<1>16. LeavesBounded
  <2>1. \A d \in Device : leaf[d] <= Cardinality(F)
    BY <1>1, <1>4 DEF NoRow
  <2> QED  BY Zenon, <1>4, <2>1 DEF LeavesBounded
<1>17. JoinedLeavesDiffer
  BY Zenon, <1>1 DEF JoinedLeavesDiffer
<1> QED  BY Zenon, <1>11, <1>12, <1>13, <1>14, <1>15, <1>16, <1>17 DEF GroupInv

\* Every step keeps the invariant.
LEMMA GroupStep == GroupInv /\ [Next]_vars => GroupInv'
<1> SUFFICES ASSUME GroupInv, [Next]_vars  PROVE GroupInv'
  BY Zenon
<1> USE DEF GroupInv
<1>1. CASE UNCHANGED vars
  <2>0. UNCHANGED <<epoch, tree, commits, leaf, joined, admin, owner, invites, dissolved, call>>
    BY Zenon, <1>1 DEF vars, groupVars, memberVars, adminVars
  <2>1. TypeOK' /\ Placed'
    BY Zenon, <2>0 DEF TypeOK, Rows, Placed, Open
  <2>2. CommitsChain' /\ InvitesKnown'
    BY Zenon, <2>0 DEF CommitsChain, InvitesKnown, Known, Open
  <2>3. OneEpoch'
    <3>1. \A i, e : Says(i, e)' => Says(i, e)
      BY Zenon, <2>0 DEF Says, Accepting, Open
    <3> QED  BY Zenon, <3>1 DEF OneEpoch
  <2>4. LeavesAhead' /\ LeavesBounded' /\ JoinedLeavesDiffer'
    BY Zenon, <2>0 DEF LeavesAhead, Accepting, Open, LeavesBounded, JoinedLeavesDiffer
  <2>5. AtMostOne' /\ LateKnown' /\ DissolvedOnlyAdmits'
    BY Zenon, <2>0 DEF AtMostOne, LateKnown, Open, DissolvedOnlyAdmits
  <2> QED  BY Zenon, <2>1, <2>2, <2>3, <2>4, <2>5
<1>2. ASSUME NEW c \in Call, Turn(c), Silent \/ Writes(c)  PROVE GroupInv'
  <2>1. TypeOK' /\ Placed' /\ CommitsChain'
    BY Zenon, <1>2, TypeStep, ChainStep
  <2>2. InvitesKnown' /\ OneEpoch'
    BY Zenon, <1>2, InvitesKnownStep, OneEpochStep
  <2>3. LeavesAhead' /\ LeavesBounded' /\ JoinedLeavesDiffer'
    BY Zenon, <1>2, LeavesAheadStep, BoundStep, DifferStep
  <2>4. AtMostOne' /\ LateKnown' /\ DissolvedOnlyAdmits'
    BY Zenon, <1>2, OwnerStep, LateStep, AdmitsStep
  <2> QED  BY Zenon, <2>1, <2>2, <2>3, <2>4
<1>3. CASE (\E x \in invites : ExpireInvite(x)) \/ Cleanup
  <2>1. /\ UNCHANGED <<groupVars, memberVars, adminVars, dissolved, call>>
        /\ invites' \subseteq [id : InviteId, dev : Device, epoch : 0..MaxEpoch, live : BOOLEAN]
        /\ \A y \in invites' : \E x \in invites : y.id = x.id /\ y.epoch = x.epoch
    BY Zenon, <1>3, InviteEnds
  <2>2. TypeOK' /\ Placed' /\ CommitsChain'
    BY Zenon, <2>1 DEF TypeOK, Rows, Placed, Open, CommitsChain, groupVars, memberVars, adminVars
  <2>3. InvitesKnown'
    BY Zenon, <2>1 DEF InvitesKnown, Known, Open, groupVars
  <2>4. \A i, e : Says(i, e)' => Says(i, e)
    BY ZenonT(60), <2>1 DEF Says, Accepting, Open, groupVars
  <2>5. OneEpoch'
    BY Zenon, <2>4 DEF OneEpoch
  <2>6. LeavesAhead' /\ LeavesBounded' /\ JoinedLeavesDiffer'
    BY Zenon, <2>1 DEF LeavesAhead, Accepting, Open, LeavesBounded, JoinedLeavesDiffer, groupVars,
       memberVars
  <2>7. AtMostOne' /\ LateKnown' /\ DissolvedOnlyAdmits'
    BY Zenon, <2>1 DEF AtMostOne, LateKnown, Open, DissolvedOnlyAdmits, groupVars, adminVars
  <2> QED  BY Zenon, <2>2, <2>3, <2>5, <2>6, <2>7
<1>4. ASSUME Next  PROVE GroupInv'
  BY Zenon, <1>2, <1>3, <1>4, NextKinds
<1> QED  BY Zenon, <1>1, <1>4

\* The invariant holds in every state of the group.
LEMMA GroupAlways == Spec => []GroupInv
BY GroupInitially, GroupStep, PTL DEF Spec

\* The commits of a group are one chain, however many calls race for an epoch: each
\* epoch it has left was left by one commit, and the tree it serves is the last one's.
THEOREM CommitsAreAChain == Spec => []CommitsChain
<1>1. GroupInv => CommitsChain
  BY Zenon DEF GroupInv
<1> QED  BY <1>1, GroupAlways, PTL

\* Membership is sound, whatever the checks of concurrent calls saw: an invite admits
\* once, the members who joined have leaves of their own, no two devices own the group,
\* and only an acceptance commits for a caller who came after its end.
THEOREM MembershipIsSound == Spec => []MembershipSound
<1>1. GroupInv => InviteAdmitsOnce
  <2> SUFFICES ASSUME GroupInv, NEW j \in commits, NEW k \in commits, j.invite = k.invite, j.invite # NoCall
               PROVE  j = k
    BY Zenon DEF InviteAdmitsOnce
  <2>1. j.invite \in InviteId /\ j.from \in 0..MaxEpoch /\ k.from \in 0..MaxEpoch
    BY Zenon DEF GroupInv, TypeOK
  <2>2. Says(j.invite, j.from) /\ Says(j.invite, k.from)
    BY Zenon DEF Says
  <2>3. j.from = k.from
    BY Zenon, <2>1, <2>2 DEF GroupInv, OneEpoch
  <2> QED  BY Zenon, <2>3 DEF GroupInv, CommitsChain
<1>2. GroupInv => OneOwner
  <2> SUFFICES ASSUME GroupInv  PROVE OneOwner
    BY Zenon
  <2>1. owner = {} \/ \E d : owner = {d}
    <3>1. CASE owner # {}
      <4>1. PICK d \in owner : TRUE
        BY Zenon, <3>1
      <4>2. owner = {d}
        BY SMT DEF GroupInv, AtMostOne
      <4> QED  BY Zenon, <4>2
    <3> QED  BY Zenon, <3>1
  <2>2. Cardinality(owner) = 0 \/ Cardinality(owner) = 1
    BY Zenon, <2>1, FS_EmptySet, FS_Singleton
  <2> QED  BY SMT, <2>2 DEF OneOwner
<1>3. GroupInv => MembershipSound
  BY Zenon, <1>1, <1>2 DEF GroupInv, MembershipSound
<1> QED  BY <1>3, GroupAlways, PTL

=============================================================================
