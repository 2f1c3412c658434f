--------------------------- MODULE DispatchProofs ---------------------------
(***************************************************************************)
(* The guards of the doors of messaging-service, for any envelopes, any    *)
(* number of requests at a time and any number of repeats and faults: what *)
(* was answered Ok was written, nothing is written twice, and a block      *)
(* holds, but for the faults that each property names.                     *)
(***************************************************************************)
EXTENDS Dispatch, TLAPS

\* A request of m at one of these stages.
In(s, m, stages) == req[s] # Idle /\ req[s].m = m /\ req[s].stage \in stages

\* The stages of a request that holds the federation claim or the delivery tag.
Claiming == {"token", "tag", "dedup", "block", "write", "mark", "unmark", "release"}
Tagging == {"write", "unmark"}

\* The doors go through the stages of their own kind, and mark what they wrote.
StagesFit ==
    \A s \in Slot : req[s] # Idle =>
        /\ req[s].stage \in {"token", "tag", "unmark"} => Sealed(req[s].m)
        /\ req[s].stage \in {"early", "early_block", "limits", "dedup", "block", "mark"} => ~Sealed(req[s].m)
        /\ req[s].stage \in {"early", "early_block", "limits"} => ~Federated(req[s].m)
        /\ req[s].stage \in {"inbound", "claim", "release"} => Federated(req[s].m)
        /\ req[s].stage = "mark" => writes[req[s].m] > 0

\* Each guard is of its own kind, and a dedup key is set by a write.
GuardsFit ==
    /\ \A m \in dedup : writes[m] > 0
    /\ \A m \in tagged : Sealed(m)
    /\ \A m \in claimed : Federated(m)

\* A sender that waits for its answers has one request at a time.
OneAtATime ==
    \A m \in Envelope : "overlap" \notin hit[m] =>
        \A s, t \in Slot : req[s] # Idle /\ req[t] # Idle /\ req[s].m = m /\ req[t].m = m => s = t

DispatchBase == DispatchTypeOK /\ StagesFit /\ GuardsFit /\ OneAtATime

\* An Ok for m may be given.
Safe(m) == Accounted(m) \/ hit[m] \cap LossCauses(m) # {}

\* An Ok is given for what is safe; a guard set before the write stands for what
\* is safe, or for a request that will write or take it back.
LossInv ==
    /\ \A s \in Slot : At(s, "ok") => Safe(req[s].m)
    /\ \A m \in Envelope : sender[m] = "acked" => Safe(m)
    /\ \A m \in tagged : Safe(m) \/ \E s \in Slot : In(s, m, Tagging)
    /\ \A m \in claimed : Safe(m) \/ \E s \in Slot : In(s, m, Claiming)

\* m may be written again.
Excused(m) == hit[m] \cap RepeatCauses(m) # {}

\* A regular envelope that was written has its dedup key, or is about to.
RegularOnce(m) ==
    /\ writes[m] > 0 => m \in dedup \/ \E s \in Slot : In(s, m, {"mark"})
    /\ \A s \in Slot : In(s, m, {"block", "write"}) => writes[m] = 0

\* A tag, or a claim, is held by one request, which has not written yet, and
\* stays once there was a write.
HeldOnce(m, guard, stages) ==
    /\ writes[m] > 0 => m \in guard
    /\ \A s \in Slot : In(s, m, stages) => m \in guard
    /\ \A s, t \in Slot : In(s, m, stages) /\ In(t, m, stages) => s = t
    /\ \A s \in Slot : In(s, m, stages \ {"mark"}) => writes[m] = 0

OnceOK(m) ==
    ~Excused(m) =>
        /\ writes[m] <= 1
        /\ kind[m] = "regular" => RegularOnce(m)
        /\ kind[m] = "sealed" => HeldOnce(m, tagged, Tagging)
        /\ Federated(m) => HeldOnce(m, claimed, Claiming)

OnceInv == \A m \in Envelope : OnceOK(m)

\* A request begun after a block gets past it only by a failed lookup; what the
\* purge has not found was written after it looked.
BlockInv ==
    /\ \A s \in Slot : req[s] # Idle /\ req[s].late =>
          /\ blocked
          /\ At(s, "write") => Sealed(req[s].m) \/ "db" \in hit[req[s].m]
    /\ \A c \in mailbox : Sealed(c.m) \/ ~c.late \/ "db" \in hit[c.m]
    /\ purge.stage = "delete" => \A c \in mailbox : Sealed(c.m) \/ c.missed \/ c \in purge.found
    /\ purge.stage = "done" => \A c \in mailbox : Sealed(c.m) \/ c.missed

Requests == [stage : Stages, m : Envelope, late : BOOLEAN]

-----------------------------------------------------------------------------
\* What a step of a request leaves of the requests.
LEMMA Moving ==
    ASSUME DispatchTypeOK, NEW s \in Slot, req[s] # Idle, NEW st \in Stages, Goto(s, st)
    PROVE  /\ req' \in [Slot -> {Idle} \cup Requests]
           /\ req[s] \in Requests /\ req[s].m \in Envelope
           /\ req'[s] # Idle /\ req'[s].stage = st
           /\ req'[s].m = req[s].m /\ req'[s].late = req[s].late
           /\ \A t \in Slot : t # s => req'[t] = req[t]
<1>1. req \in [Slot -> {Idle} \cup Requests] /\ req[s] \in Requests
    BY Zenon DEF DispatchTypeOK, Requests
<1>2. req' = [req EXCEPT ![s] = [req[s] EXCEPT !.stage = st]]
    BY Zenon, <1>1 DEF Goto
<1> DEFINE r == [req[s] EXCEPT !.stage = st]
<1>3. r \in Requests /\ r.stage = st /\ r.m = req[s].m /\ r.late = req[s].late
    BY Zenon, <1>1 DEF Requests
<1>4. r # Idle
    BY Zenon, <1>3 DEF Idle, Stages
<1> HIDE DEF r
<1>5. req'[s] = r /\ \A t \in Slot : t # s => req'[t] = req[t]
    BY Zenon, <1>1, <1>2 DEF r
<1>6. req' \in [Slot -> {Idle} \cup Requests]
    BY Zenon, <1>1, <1>2, <1>3 DEF r
<1> QED BY Zenon, <1>1, <1>3, <1>4, <1>5, <1>6 DEF Requests

\* What a request that ends, or begins, leaves of the requests.
LEMMA Placing ==
    ASSUME DispatchTypeOK, NEW s \in Slot, NEW r \in {Idle} \cup Requests, req' = [req EXCEPT ![s] = r]
    PROVE  /\ req' \in [Slot -> {Idle} \cup Requests]
           /\ req'[s] = r
           /\ \A t \in Slot : t # s => req'[t] = req[t]
BY Zenon DEF DispatchTypeOK, Requests

\* A fault is noted for its envelope, and for good.
LEMMA Meeting ==
    ASSUME DispatchTypeOK, NEW m \in Envelope, NEW f \in FaultKinds, Meets(m, f)
    PROVE  /\ hit' \in [Envelope -> SUBSET FaultKinds]
           /\ hit'[m] = hit[m] \cup {f}
           /\ \A n \in Envelope : n # m => hit'[n] = hit[n]
BY Zenon DEF DispatchTypeOK, Meets

\* A write that lands is counted for its envelope.
LEMMA Landing ==
    ASSUME DispatchTypeOK, NEW s \in Slot, req[s] \in Requests, Land(s)
    PROVE  /\ writes' \in [Envelope -> 0..2]
           /\ writes'[req[s].m] = IF writes[req[s].m] < 2 THEN writes[req[s].m] + 1 ELSE writes[req[s].m]
           /\ \A n \in Envelope : n # req[s].m => writes'[n] = writes[n]
           /\ mailbox' = mailbox \cup {Copy(s)} /\ Copy(s) \in Copies
<1> DEFINE m == req[s].m
<1>1. m \in Envelope /\ writes \in [Envelope -> 0..2] /\ req[s].late \in BOOLEAN
    BY Zenon DEF DispatchTypeOK, Requests
<1>2. writes' = [writes EXCEPT ![m] = IF writes[m] < 2 THEN writes[m] + 1 ELSE writes[m]]
    BY Zenon DEF Land
<1>3. Copy(s) \in Copies
    BY <1>1 DEF Copy, Copies
<1> QED BY <1>1, <1>2, <1>3 DEF Land

\* A step of slot s for envelope m: what it leaves alone, and what only grows.
StepOf(s, m) ==
    /\ DispatchTypeOK'
    /\ req[s] # Idle => req[s].m = m
    /\ req'[s] # Idle => req'[s].m = m
    /\ \A t \in Slot : t # s => req'[t] = req[t]
    /\ \A n \in Envelope : n # m =>
          /\ writes'[n] = writes[n] /\ hit'[n] = hit[n]
          /\ n \in dedup' <=> n \in dedup
          /\ n \in tagged' <=> n \in tagged
          /\ n \in claimed' <=> n \in claimed
          /\ n \in dropped' <=> n \in dropped
          /\ sender'[n] = sender[n]
    /\ writes[m] <= writes'[m] /\ hit[m] \subseteq hit'[m]
    /\ m \in dropped => m \in dropped'
    /\ UNCHANGED <<kind, blocked, purge>>
    /\ UNCHANGED mailbox \/ mailbox' = mailbox \cup {Copy(s)}

\* A request goes from one stage to another.
Moves(s, m, st) ==
    /\ req[s] # Idle /\ req[s].m = m /\ Goto(s, st)
    /\ hit' = hit \/ \E f \in FaultKinds : Meets(m, f)
    /\ dedup' \in {dedup, dedup \cup {m}}
    /\ tagged' \in {tagged, tagged \cup {m}, tagged \ {m}}
    /\ claimed' \in {claimed, claimed \cup {m}, claimed \ {m}}
    /\ dropped' \in {dropped, dropped \cup {m}}
    /\ UNCHANGED <<mailbox, writes>> \/ Land(s)
    /\ UNCHANGED <<kind, sender, blocked, purge>>

\* A move is a step for its envelope.
LEMMA MoveIsStep ==
    ASSUME DispatchTypeOK, NEW s \in Slot, NEW m, NEW st \in Stages, Moves(s, m, st)
    PROVE  /\ StepOf(s, m) /\ m \in Envelope /\ UNCHANGED sender
           /\ req[s] \in Requests
           /\ req'[s] # Idle /\ req'[s].stage = st
           /\ req'[s].m = m /\ req'[s].late = req[s].late
<1>1. /\ req' \in [Slot -> {Idle} \cup Requests]
      /\ req[s] \in Requests /\ m \in Envelope
      /\ req'[s] # Idle /\ req'[s].stage = st
      /\ req'[s].m = m /\ req'[s].late = req[s].late
      /\ \A t \in Slot : t # s => req'[t] = req[t]
    BY Zenon, Moving DEF Moves
<1>2. hit' \in [Envelope -> SUBSET FaultKinds] /\ hit[m] \subseteq hit'[m]
      /\ \A n \in Envelope : n # m => hit'[n] = hit[n]
  <2>1. CASE hit' = hit
      BY Zenon, <2>1 DEF DispatchTypeOK
  <2>2. ASSUME NEW f \in FaultKinds, Meets(m, f) 
        PROVE hit' \in [Envelope -> SUBSET FaultKinds] /\ hit[m] \subseteq hit'[m]
              /\ \A n \in Envelope : n # m => hit'[n] = hit[n]
      BY Zenon, <2>2, <1>1, Meeting
  <2> QED BY Zenon, <2>1, <2>2 DEF Moves
<1>3. /\ writes' \in [Envelope -> 0..2] /\ writes[m] <= writes'[m]
      /\ \A n \in Envelope : n # m => writes'[n] = writes[n]
      /\ mailbox' \in SUBSET Copies
      /\ UNCHANGED mailbox \/ mailbox' = mailbox \cup {Copy(s)}
  <2>1. CASE UNCHANGED <<mailbox, writes>>
      BY <2>1, <1>1 DEF DispatchTypeOK
  <2>2. CASE Land(s)
    <3>1. req[s].m = m
        BY Zenon DEF Moves
    <3>2. /\ writes' \in [Envelope -> 0..2]
          /\ writes'[m] = IF writes[m] < 2 THEN writes[m] + 1 ELSE writes[m]
          /\ \A n \in Envelope : n # m => writes'[n] = writes[n]
          /\ mailbox' = mailbox \cup {Copy(s)} /\ Copy(s) \in Copies
        BY Zenon, <2>2, <1>1, <3>1, Landing
    <3> QED BY <3>2, <1>1 DEF DispatchTypeOK
  <2> QED BY Zenon, <2>1, <2>2 DEF Moves
<1>4. DispatchTypeOK'
    BY <1>1, <1>2, <1>3 DEF DispatchTypeOK, Moves, Requests
<1> QED BY Zenon, <1>1, <1>2, <1>3, <1>4 DEF StepOf, Moves

\* The stages fit the kinds after a step, if they do for the request that took it.
FitsKind(s, m) ==
    req[s] # Idle =>
        /\ req[s].stage \in {"token", "tag", "unmark"} => Sealed(m)
        /\ req[s].stage \in {"early", "early_block", "limits", "dedup", "block", "mark"} => ~Sealed(m)
        /\ req[s].stage \in {"early", "early_block", "limits"} => ~Federated(m)
        /\ req[s].stage \in {"inbound", "claim", "release"} => Federated(m)
        /\ req[s].stage = "mark" => writes[m] > 0

\* The first invariants, from what a step does to its own envelope.
LEMMA BaseStep ==
    ASSUME DispatchBase, NEW s \in Slot, NEW m \in Envelope, StepOf(s, m),
           FitsKind(s, m)',
           m \in dedup' => m \in dedup \/ writes'[m] > 0,
           m \in tagged' => m \in tagged \/ Sealed(m),
           m \in claimed' => m \in claimed \/ Federated(m),
           req[s] # Idle \/ req'[s] = Idle \/ ~Running(m) \/ "overlap" \in hit'[m]
    PROVE  DispatchBase'
<1> USE DEF DispatchBase
<1>1. \A n \in Envelope : writes[n] <= writes'[n] /\ hit[n] \subseteq hit'[n]
    BY DEF StepOf, DispatchTypeOK
<1>2. \A n \in Envelope : (Sealed(n)' <=> Sealed(n)) /\ (Federated(n)' <=> Federated(n))
    BY Zenon DEF StepOf, Sealed, Federated
<1>3. \A t \in Slot : (req[t] # Idle => req[t].m \in Envelope) /\ (req'[t] # Idle => req'[t].m \in Envelope)
    BY Zenon DEF StepOf, DispatchTypeOK
<1>4. \A n \in Envelope : writes[n] \in Nat /\ writes'[n] \in Nat
    BY DEF StepOf, DispatchTypeOK
<1>5. StagesFit'
  <2> SUFFICES ASSUME NEW t \in Slot, req'[t] # Idle PROVE
        /\ req'[t].stage \in {"token", "tag", "unmark"} => Sealed(req[t].m)'
        /\ req'[t].stage \in {"early", "early_block", "limits", "dedup", "block", "mark"} => ~Sealed(req[t].m)'
        /\ req'[t].stage \in {"early", "early_block", "limits"} => ~Federated(req[t].m)'
        /\ req'[t].stage \in {"inbound", "claim", "release"} => Federated(req[t].m)'
        /\ req'[t].stage = "mark" => writes'[req'[t].m] > 0
      BY Zenon DEF StagesFit
  <2>1. CASE t = s
      BY Zenon, <2>1 DEF StepOf, FitsKind
  <2>2. CASE t # s
    <3>1. req'[t] = req[t]
        BY Zenon, <2>2 DEF StepOf
    <3> QED BY <3>1, <1>1, <1>3, <1>4 DEF StagesFit, StepOf, Sealed, Federated
  <2> QED BY Zenon, <2>1, <2>2
<1>6. GuardsFit'
  <2>1. \A n \in dedup' : writes'[n] > 0
      BY <1>1, <1>4 DEF GuardsFit, StepOf, DispatchTypeOK
  <2>2. \A n \in tagged' : Sealed(n)'
      BY Zenon, <1>2 DEF GuardsFit, StepOf, DispatchTypeOK
  <2>3. \A n \in claimed' : Federated(n)'
      BY Zenon, <1>2 DEF GuardsFit, StepOf, DispatchTypeOK
  <2> QED BY Zenon, <2>1, <2>2, <2>3 DEF GuardsFit
<1>7. OneAtATime'
  <2> SUFFICES ASSUME NEW n \in Envelope, "overlap" \notin hit'[n], NEW t \in Slot, NEW u \in Slot,
                      req'[t] # Idle, req'[u] # Idle, req'[t].m = n, req'[u].m = n
               PROVE  t = u
      BY DEF OneAtATime
  <2>1. "overlap" \notin hit[n]
      BY Zenon, <1>1
  <2>2. CASE req[s] # Idle
      BY <2>1, <2>2 DEF OneAtATime, StepOf
  <2>3. CASE req'[s] = Idle
      BY <2>1, <2>3 DEF OneAtATime, StepOf
  <2>4. CASE ~Running(m)
      BY <2>1, <2>4 DEF OneAtATime, StepOf, Running
  <2>5. CASE "overlap" \in hit'[m]
      BY <2>1, <2>5 DEF OneAtATime, StepOf
  <2> QED BY Zenon, <2>2, <2>3, <2>4, <2>5
<1>8. DispatchTypeOK'
    BY Zenon DEF StepOf
<1> QED BY Zenon, <1>5, <1>6, <1>7, <1>8

\* What is safe stays safe.
LEMMA SafeStays ==
    ASSUME DispatchTypeOK, NEW s \in Slot, NEW m \in Envelope, StepOf(s, m), NEW n \in Envelope, Safe(n)
    PROVE  Safe(n)'
<1>1. writes[n] <= writes'[n] /\ hit[n] \subseteq hit'[n] /\ writes[n] \in Nat /\ writes'[n] \in Nat
    BY DEF StepOf, DispatchTypeOK
<1>2. n \in dropped => n \in dropped'
    BY Zenon DEF StepOf
<1>3. LossCauses(n)' = LossCauses(n)
    BY Zenon DEF StepOf, LossCauses, Federated
<1> QED BY <1>1, <1>2, <1>3 DEF Safe, Accounted

\* The guards stand for safe envelopes after a step, if its own do.
LEMMA LossStep ==
    ASSUME DispatchBase, LossInv, NEW s \in Slot, NEW m \in Envelope, StepOf(s, m),
           req'[s].stage = "ok" => Safe(m)',
           sender'[m] = "acked" => sender[m] = "acked" \/ Safe(m)',
           m \in tagged' => Safe(m)' \/ In(s, m, Tagging)' \/ (m \in tagged /\ ~In(s, m, Tagging)),
           m \in claimed' => Safe(m)' \/ In(s, m, Claiming)' \/ (m \in claimed /\ ~In(s, m, Claiming))
    PROVE  LossInv'
<1> USE DEF DispatchBase
<1>1. \A n \in Envelope : Safe(n) => Safe(n)'
    BY Zenon, SafeStays
<1>2. \A t \in Slot : t # s => req'[t] = req[t]
    BY Zenon DEF StepOf
<1>3. ASSUME NEW t \in Slot, req'[t].stage = "ok" PROVE Safe(req[t].m)'
  <2>1. CASE t = s
    <3>1. req'[s].m = m
        BY <2>1, <1>3 DEF StepOf, Idle
    <3> QED BY Zenon, <2>1, <1>3, <3>1 DEF Safe, Accounted, LossCauses, Federated
  <2>2. CASE t # s
    <3>1. req'[t] = req[t] /\ req[t] # Idle
        BY <2>2, <1>2, <1>3 DEF Idle
    <3>2. PICK n : n = req[t].m
        BY Zenon
    <3>3. n \in Envelope /\ Safe(n)
        BY Zenon, <3>1, <3>2, <1>3 DEF DispatchTypeOK, LossInv, At
    <3> QED BY Zenon, <3>1, <3>2, <3>3, <1>1 DEF Safe, Accounted, LossCauses, Federated
  <2> QED BY Zenon, <2>1, <2>2
<1>4. \A n \in Envelope : sender'[n] = "acked" => Safe(n)'
    BY Zenon, <1>1 DEF LossInv, StepOf
<1>5. ASSUME NEW n \in tagged', ~Safe(n)' PROVE \E t \in Slot : In(t, n, Tagging)'
  <2>1. n \in Envelope
      BY Zenon, <1>5 DEF StepOf, DispatchTypeOK
  <2>2. CASE In(s, m, Tagging)' /\ n = m
      BY Zenon, <2>2
  <2>3. CASE n \in tagged /\ (n = m => ~In(s, m, Tagging))
    <3>1. PICK t \in Slot : In(t, n, Tagging)
        BY Zenon, <2>1, <2>3, <1>1, <1>5 DEF LossInv
    <3>2. t # s
        BY Zenon, <3>1, <2>3 DEF In, StepOf
    <3> QED BY Zenon, <3>1, <3>2, <1>2 DEF In
  <2> QED BY Zenon, <2>1, <2>2, <2>3, <1>5 DEF StepOf
<1>6. ASSUME NEW n \in claimed', ~Safe(n)' PROVE \E t \in Slot : In(t, n, Claiming)'
  <2>1. n \in Envelope
      BY Zenon, <1>6 DEF StepOf, DispatchTypeOK
  <2>2. CASE In(s, m, Claiming)' /\ n = m
      BY Zenon, <2>2
  <2>3. CASE n \in claimed /\ (n = m => ~In(s, m, Claiming))
    <3>1. PICK t \in Slot : In(t, n, Claiming)
        BY Zenon, <2>1, <2>3, <1>1, <1>6 DEF LossInv
    <3>2. t # s
        BY Zenon, <3>1, <2>3 DEF In, StepOf
    <3> QED BY Zenon, <3>1, <3>2, <1>2 DEF In
  <2> QED BY Zenon, <2>1, <2>2, <2>3, <1>6 DEF StepOf
<1> QED BY Zenon, <1>3, <1>4, <1>5, <1>6 DEF LossInv, At

\* A step for m leaves the writes of other envelopes as they were.
LEMMA OnceStep ==
    ASSUME DispatchBase, OnceInv, NEW s \in Slot, NEW m \in Envelope, StepOf(s, m), OnceOK(m)'
    PROVE  OnceInv'
<1> SUFFICES ASSUME NEW n \in Envelope, n # m PROVE OnceOK(n)'
    BY Zenon DEF OnceInv
<1>1. OnceOK(n)
    BY Zenon DEF OnceInv
<1>2. writes'[n] = writes[n] /\ hit'[n] = hit[n] /\ kind'[n] = kind[n]
      /\ (n \in dedup' <=> n \in dedup) /\ (n \in tagged' <=> n \in tagged) /\ (n \in claimed' <=> n \in claimed)
    BY Zenon DEF StepOf
<1>3. \A t \in Slot : \A stages : In(t, n, stages)' <=> In(t, n, stages)
    BY DEF StepOf, In
<1>4. (Excused(n)' <=> Excused(n)) /\ (Federated(n)' <=> Federated(n))
    BY Zenon, <1>2 DEF Excused, RepeatCauses, Federated
<1>5. RegularOnce(n) => RegularOnce(n)'
    BY Zenon, <1>2, <1>3 DEF RegularOnce
<1>6. HeldOnce(n, tagged, Tagging) => HeldOnce(n, tagged, Tagging)'
    BY Zenon, <1>2, <1>3 DEF HeldOnce, Tagging
<1>7. HeldOnce(n, claimed, Claiming) => HeldOnce(n, claimed, Claiming)'
    BY Zenon, <1>2, <1>3 DEF HeldOnce, Claiming
<1> QED BY Zenon, <1>1, <1>2, <1>4, <1>5, <1>6, <1>7 DEF OnceOK

\* The block holds after a step, if it does for the request that took it and what it wrote.
LEMMA BlockStep ==
    ASSUME DispatchBase, BlockInv, NEW s \in Slot, NEW m \in Envelope, StepOf(s, m),
           req'[s] # Idle /\ req'[s].late =>
               /\ blocked
               /\ req'[s].stage = "write" => Sealed(m) \/ "db" \in hit'[m],
           UNCHANGED mailbox \/ At(s, "write")
    PROVE  BlockInv'
<1> USE DEF DispatchBase
<1>1. \A n \in Envelope : (Sealed(n)' <=> Sealed(n)) /\ hit[n] \subseteq hit'[n]
    BY Zenon DEF StepOf, Sealed
<1>2. UNCHANGED <<blocked, purge>> /\ \A t \in Slot : t # s => req'[t] = req[t]
    BY Zenon DEF StepOf
<1>3. ASSUME NEW t \in Slot, req'[t] # Idle, req'[t].late
      PROVE  /\ blocked'
             /\ req'[t].stage = "write" => Sealed(req[t].m)' \/ "db" \in hit'[req'[t].m]
  <2>1. CASE t = s
      BY <2>1, <1>1, <1>2, <1>3 DEF StepOf, Sealed
  <2>2. CASE t # s
    <3>1. req'[t] = req[t] /\ req[t].m \in Envelope
        BY Zenon, <2>2, <1>2, <1>3 DEF DispatchTypeOK
    <3> QED BY <3>1, <1>1, <1>2, <1>3 DEF BlockInv, At, StepOf, Sealed
  <2> QED BY Zenon, <2>1, <2>2
<1>4. ASSUME NEW c \in mailbox'
      PROVE  /\ Sealed(c.m)' \/ ~c.late \/ "db" \in hit'[c.m]
             /\ purge.stage = "delete" => Sealed(c.m)' \/ c.missed \/ c \in purge.found
             /\ purge.stage = "done" => Sealed(c.m)' \/ c.missed
  <2>1. CASE c \in mailbox
    <3>1. c.m \in Envelope
        BY Zenon, <2>1 DEF DispatchTypeOK, Copies
    <3> QED BY Zenon, <2>1, <3>1, <1>1 DEF BlockInv
  <2>2. CASE c \notin mailbox
    <3>1. c = Copy(s) /\ At(s, "write")
        BY Zenon, <2>2, <1>4 DEF StepOf
    <3>2. req[s] # Idle /\ req[s].m = m
        BY <3>1 DEF At, Idle, StepOf
    <3>3. c.m = m /\ c.late = req[s].late /\ (c.missed <=> purge.stage \in {"delete", "done"})
        BY Zenon, <3>1, <3>2 DEF Copy
    <3> QED BY Zenon, <3>1, <3>2, <3>3, <1>1 DEF BlockInv
  <2> QED BY Zenon, <2>1, <2>2
<1> QED BY Zenon, <1>2, <1>3, <1>4 DEF BlockInv, At

DispatchInv == DispatchBase /\ LossInv /\ OnceInv /\ BlockInv

\* The invariant after a move, from what it does to its own envelope.
LEMMA MoveStep ==
    ASSUME DispatchInv, NEW s \in Slot, NEW m, NEW st \in Stages, Moves(s, m, st),
           FitsKind(s, m)',
           m \in dedup' => m \in dedup \/ writes'[m] > 0,
           m \in tagged' => m \in tagged \/ Sealed(m),
           m \in claimed' => m \in claimed \/ Federated(m),
           st = "ok" => Safe(m)',
           m \in tagged' => Safe(m)' \/ st \in Tagging \/ (m \in tagged /\ req[s].stage \notin Tagging),
           m \in claimed' => Safe(m)' \/ st \in Claiming \/ (m \in claimed /\ req[s].stage \notin Claiming),
           OnceOK(m)',
           st = "write" => Sealed(m) \/ ~req[s].late \/ "db" \in hit'[m],
           UNCHANGED mailbox \/ At(s, "write")
    PROVE  DispatchInv'
<1> USE DEF DispatchInv
<1>1. DispatchTypeOK
    BY Zenon DEF DispatchBase
<1>2. /\ StepOf(s, m) /\ m \in Envelope /\ UNCHANGED sender
      /\ req[s] \in Requests
      /\ req'[s] # Idle /\ req'[s].stage = st
      /\ req'[s].m = m /\ req'[s].late = req[s].late
    BY Zenon, <1>1, MoveIsStep
<1>3. req[s] # Idle /\ req[s].m = m
    BY Zenon DEF Moves
<1>4. DispatchBase'
    BY Zenon, <1>2, <1>3, BaseStep
<1>5. /\ In(s, m, Tagging)' <=> st \in Tagging
      /\ In(s, m, Claiming)' <=> st \in Claiming
      /\ In(s, m, Tagging) <=> req[s].stage \in Tagging
      /\ In(s, m, Claiming) <=> req[s].stage \in Claiming
    BY Zenon, <1>2, <1>3 DEF In, Tagging, Claiming
<1>6. LossInv'
    BY Zenon, <1>2, <1>5, LossStep
<1>7. OnceInv'
    BY Zenon, <1>2, OnceStep
<1>8. req[s].late => blocked
    BY Zenon, <1>3 DEF BlockInv
<1>9. BlockInv'
    BY Zenon, <1>2, <1>8, BlockStep
<1> QED BY Zenon, <1>4, <1>6, <1>7, <1>9

\* What is known of the envelope of a request that moves, at any stage.
LEMMA MoveFacts ==
    ASSUME DispatchInv, NEW s \in Slot, NEW m, NEW st \in Stages, Moves(s, m, st)
    PROVE  /\ m \in Envelope /\ req[s] \in Requests
           /\ req'[s] # Idle /\ req'[s].stage = st /\ req'[s].m = m
           /\ kind[m] \in Kinds /\ kind' = kind
           /\ \A t \in Slot : \A stages : In(t, m, stages)' <=> IF t = s THEN st \in stages ELSE In(t, m, stages)
           /\ \A stages : In(s, m, stages) <=> req[s].stage \in stages
           /\ FitsKind(s, m) /\ OnceOK(m)
           /\ Safe(m) => Safe(m)'
           /\ Excused(m) => Excused(m)'
           /\ hit[m] \subseteq hit'[m]
           /\ writes[m] \in 0..2 /\ writes'[m] \in 0..2 /\ writes[m] <= writes'[m]
           /\ (LossCauses(m)' = LossCauses(m)) /\ (RepeatCauses(m)' = RepeatCauses(m))
<1> USE DEF DispatchInv, DispatchBase
<1>1. /\ StepOf(s, m) /\ m \in Envelope
      /\ req[s] \in Requests
      /\ req'[s] # Idle /\ req'[s].stage = st
      /\ req'[s].m = m
    BY MoveIsStep
<1>2. req[s] # Idle /\ req[s].m = m
    BY Zenon DEF Moves
<1>3. kind' = kind /\ kind[m] \in Kinds /\ writes[m] \in 0..2 /\ writes'[m] \in 0..2 /\ writes[m] <= writes'[m]
      /\ hit[m] \subseteq hit'[m]
    BY Zenon, <1>1 DEF StepOf, DispatchTypeOK
<1>4. \A t \in Slot : \A stages : In(t, m, stages)' <=> IF t = s THEN st \in stages ELSE In(t, m, stages)
    BY Zenon, <1>1 DEF StepOf, In
<1>5. \A stages : In(s, m, stages) <=> req[s].stage \in stages
    BY Zenon, <1>2 DEF In
<1>6. FitsKind(s, m)
    BY Zenon, <1>2 DEF StagesFit, FitsKind
<1>7. OnceOK(m)
    BY Zenon, <1>1 DEF OnceInv
<1>8. Safe(m) => Safe(m)'
    BY Zenon, <1>1, SafeStays
<1>9. LossCauses(m)' = LossCauses(m) /\ RepeatCauses(m)' = RepeatCauses(m)
    BY Zenon, <1>3 DEF LossCauses, RepeatCauses, Federated
<1>10. Excused(m) => Excused(m)'
    BY Zenon, <1>3, <1>9 DEF Excused
<1> QED BY Zenon, <1>1, <1>3, <1>4, <1>5, <1>6, <1>7, <1>8, <1>9, <1>10

-----------------------------------------------------------------------------
\* A move that touches no guard and writes nothing.
LEMMA QuietMove ==
    ASSUME DispatchInv, NEW s \in Slot, NEW m, NEW st \in Stages, Moves(s, m, st),
           UNCHANGED <<dedup, tagged, claimed, mailbox, writes, dropped>>,
           FitsKind(s, m)',
           st = "ok" => Safe(m),
           req[s].stage \notin Tagging \cup {"mark"}, st \notin Tagging \cup {"mark"},
           Federated(m) /\ req[s].stage \in Claiming => st \in Claiming \cup {"ok"},
           Federated(m) /\ st \in Claiming => req[s].stage \in Claiming,
           st = "block" /\ kind[m] = "regular" => Excused(m)' \/ writes[m] = 0
    PROVE  DispatchInv'
<1>1. /\ m \in Envelope /\ req[s] \in Requests
      /\ req'[s] # Idle /\ req'[s].stage = st /\ req'[s].m = m
      /\ kind[m] \in Kinds /\ kind' = kind
      /\ \A t \in Slot : \A stages : In(t, m, stages)' <=> IF t = s THEN st \in stages ELSE In(t, m, stages)
      /\ \A stages : In(s, m, stages) <=> req[s].stage \in stages
      /\ OnceOK(m)
      /\ Safe(m) => Safe(m)'
      /\ Excused(m) => Excused(m)'
      /\ writes[m] \in 0..2
    BY Zenon, MoveFacts
<1>2. Federated(m)' <=> Federated(m)
    BY Zenon, <1>1 DEF Federated
<1>3. OnceOK(m)'
  <2> SUFFICES ASSUME ~Excused(m)'
      PROVE /\ writes[m] <= 1
            /\ kind[m] = "regular" => RegularOnce(m)'
            /\ kind[m] = "sealed" => HeldOnce(m, tagged, Tagging)'
            /\ Federated(m) => HeldOnce(m, claimed, Claiming)'
      BY Zenon, <1>1, <1>2 DEF OnceOK
  <2>1. writes[m] <= 1
      BY Zenon, <1>1 DEF OnceOK
  <2>2. ASSUME kind[m] = "regular" PROVE RegularOnce(m)'
      BY Zenon, <1>1, <2>2 DEF OnceOK, RegularOnce, Tagging
  <2>3. ASSUME kind[m] = "sealed" PROVE HeldOnce(m, tagged, Tagging)'
      BY <1>1, <2>3 DEF OnceOK, HeldOnce, Tagging
  <2>4. ASSUME Federated(m) PROVE HeldOnce(m, claimed, Claiming)'
    <3>1. HeldOnce(m, claimed, Claiming)
        BY Zenon, <1>1, <2>4 DEF OnceOK
    <3>2. CASE st \in Claiming
        BY Zenon, <1>1, <2>4, <3>1, <3>2 DEF HeldOnce, Claiming, Tagging
    <3>3. CASE st \notin Claiming
        BY <1>1, <2>4, <3>1, <3>3 DEF HeldOnce, Claiming, Tagging
    <3> QED BY Zenon, <3>2, <3>3
  <2> QED BY Zenon, <2>1, <2>2, <2>3, <2>4
<1>4. m \in claimed => Federated(m)
    BY Zenon DEF DispatchInv, DispatchBase, GuardsFit
<1>5. m \in claimed' => Safe(m)' \/ st \in Claiming \/ (m \in claimed /\ req[s].stage \notin Claiming)
    BY Zenon, <1>1, <1>4
<1>6. m \in tagged' => m \in tagged /\ req[s].stage \notin Tagging
    BY Zenon
<1>7. st # "write"
    BY Zenon DEF Tagging
<1> QED BY Zenon, <1>1, <1>3, <1>5, <1>6, <1>7, MoveStep

\* An envelope with a dedup key was written.
LEMMA DedupIsSafe ==
    ASSUME DispatchInv, NEW m \in dedup
    PROVE  Safe(m)
BY Zenon DEF DispatchInv, DispatchBase, GuardsFit, Safe, Accounted

\* SendMessage answers a repeat.
LEMMA EarlyDedupStep ==
    ASSUME DispatchInv, NEW s \in Slot, EarlyDedup(s)
    PROVE  DispatchInv'
<1>1. req[s] # Idle /\ req[s].stage = "early"
    BY DEF EarlyDedup, At, Idle
<1>2. PICK m : m = req[s].m
    BY Zenon
<1>3. PICK st \in {"ok", "early_block"} :
         /\ Goto(s, st)
         /\ st = "ok" => m \in dedup
         /\ hit' = hit \/ Meets(m, "check")
         /\ UNCHANGED <<kind, sender, guardVars, boxVars, blockVars>>
    BY Zenon, <1>2 DEF EarlyDedup
<1>4. Moves(s, m, st) /\ st \in Stages
    BY Zenon, <1>1, <1>2, <1>3 DEF Moves, FaultKinds, Stages, guardVars, boxVars, blockVars
<1>5. FitsKind(s, m) /\ m \in Envelope /\ req'[s].stage = st /\ kind' = kind /\ kind[m] \in Kinds
    BY Zenon, <1>4, MoveFacts
<1>6. FitsKind(s, m)'
    BY Zenon, <1>1, <1>3, <1>5 DEF FitsKind, Sealed, Federated
<1>7. st = "ok" => Safe(m)
    BY Zenon, <1>3, DedupIsSafe
<1>8. ~(Federated(m) /\ st \in Claiming) \/ req[s].stage \in Claiming
    BY Zenon, <1>1, <1>3, <1>5 DEF FitsKind, Claiming
<1>9. Federated(m) /\ req[s].stage \in Claiming => st \in Claiming \cup {"ok"}
    BY Zenon, <1>1, <1>3 DEF Claiming
<1> QED BY Zenon, <1>1, <1>3, <1>4, <1>6, <1>7, <1>8, <1>9, QuietMove DEF Tagging, guardVars, boxVars

\* SendMessage reports a block.
LEMMA EarlyBlockStep ==
    ASSUME DispatchInv, NEW s \in Slot, EarlyBlock(s)
    PROVE  DispatchInv'
<1>1. req[s] # Idle /\ req[s].stage = "early_block"
    BY DEF EarlyBlock, At, Idle
<1>2. PICK m : m = req[s].m
    BY Zenon
<1>3. PICK st \in {"refused", "limits", "err"} :
         /\ Goto(s, st)
         /\ hit' = hit \/ Meets(m, "db")
         /\ UNCHANGED <<kind, sender, guardVars, boxVars, blockVars>>
    BY Zenon, <1>2 DEF EarlyBlock
<1>4. Moves(s, m, st) /\ st \in Stages
    BY Zenon, <1>1, <1>2, <1>3 DEF Moves, FaultKinds, Stages, guardVars, boxVars, blockVars
<1>5. FitsKind(s, m) /\ m \in Envelope /\ req'[s].stage = st /\ kind' = kind /\ kind[m] \in Kinds
    BY Zenon, <1>4, MoveFacts
<1>6. FitsKind(s, m)'
    BY Zenon, <1>1, <1>3, <1>5 DEF FitsKind, Sealed, Federated
<1>7. st = "ok" => Safe(m)
    BY Zenon, <1>3, DedupIsSafe
<1>8. ~(Federated(m) /\ st \in Claiming) \/ req[s].stage \in Claiming
    BY Zenon, <1>1, <1>3, <1>5 DEF FitsKind, Claiming
<1>9. Federated(m) /\ req[s].stage \in Claiming => st \in Claiming \cup {"ok"}
    BY Zenon, <1>1, <1>3 DEF Claiming
<1> QED BY Zenon, <1>1, <1>3, <1>4, <1>6, <1>7, <1>8, <1>9, QuietMove DEF Tagging, guardVars, boxVars

\* The limits let a request on, or not.
LEMMA LimitsStep ==
    ASSUME DispatchInv, NEW s \in Slot, Limits(s)
    PROVE  DispatchInv'
<1>1. req[s] # Idle /\ req[s].stage = "limits"
    BY DEF Limits, At, Idle
<1>2. PICK m : m = req[s].m
    BY Zenon
<1>3. PICK st \in {"dedup", "err"} :
         /\ Goto(s, st)
         /\ hit' = hit
         /\ UNCHANGED <<kind, sender, guardVars, boxVars, blockVars>>
    BY Zenon, <1>2 DEF Limits
<1>4. Moves(s, m, st) /\ st \in Stages
    BY Zenon, <1>1, <1>2, <1>3 DEF Moves, FaultKinds, Stages, guardVars, boxVars, blockVars
<1>5. FitsKind(s, m) /\ m \in Envelope /\ req'[s].stage = st /\ kind' = kind /\ kind[m] \in Kinds
    BY Zenon, <1>4, MoveFacts
<1>6. FitsKind(s, m)'
    BY Zenon, <1>1, <1>3, <1>5 DEF FitsKind, Sealed, Federated
<1>7. st = "ok" => Safe(m)
    BY Zenon, <1>3, DedupIsSafe
<1>8. ~(Federated(m) /\ st \in Claiming) \/ req[s].stage \in Claiming
    BY Zenon, <1>1, <1>3, <1>5 DEF FitsKind, Claiming
<1>9. Federated(m) /\ req[s].stage \in Claiming => st \in Claiming \cup {"ok"}
    BY Zenon, <1>1, <1>3 DEF Claiming
<1> QED BY Zenon, <1>1, <1>3, <1>4, <1>6, <1>7, <1>8, <1>9, QuietMove DEF Tagging, guardVars, boxVars

\* The gate lets a sealed envelope on, or its claim is taken back.
LEMMA TokenStep ==
    ASSUME DispatchInv, NEW s \in Slot, Token(s)
    PROVE  DispatchInv'
<1>1. req[s] # Idle /\ req[s].stage = "token"
    BY DEF Token, At, Idle
<1>2. PICK m : m = req[s].m
    BY Zenon
<1>3. PICK st \in {"tag", "release", "err"} :
         /\ Goto(s, st)
         /\ st = "release" => Federated(m)
         /\ st = "err" => ~Federated(m)
         /\ hit' = hit
         /\ UNCHANGED <<kind, sender, guardVars, boxVars, blockVars>>
    BY Zenon, <1>2 DEF Token, Fail
<1>4. Moves(s, m, st) /\ st \in Stages
    BY Zenon, <1>1, <1>2, <1>3 DEF Moves, FaultKinds, Stages, guardVars, boxVars, blockVars
<1>5. FitsKind(s, m) /\ m \in Envelope /\ req'[s].stage = st /\ kind' = kind /\ kind[m] \in Kinds
    BY Zenon, <1>4, MoveFacts
<1>6. FitsKind(s, m)'
    BY Zenon, <1>1, <1>3, <1>5 DEF FitsKind, Sealed, Federated
<1>7. st = "ok" => Safe(m)
    BY Zenon, <1>3, DedupIsSafe
<1>8. ~(Federated(m) /\ st \in Claiming) \/ req[s].stage \in Claiming
    BY Zenon, <1>1, <1>3, <1>5 DEF FitsKind, Claiming
<1>9. Federated(m) /\ req[s].stage \in Claiming => st \in Claiming \cup {"ok"}
    BY Zenon, <1>1, <1>3 DEF Claiming
<1> QED BY Zenon, <1>1, <1>3, <1>4, <1>6, <1>7, <1>8, <1>9, QuietMove DEF Tagging, guardVars, boxVars

\* A federated envelope is checked.
LEMMA InboundStep ==
    ASSUME DispatchInv, NEW s \in Slot, Inbound(s)
    PROVE  DispatchInv'
<1>1. req[s] # Idle /\ req[s].stage = "inbound"
    BY DEF Inbound, At, Idle
<1>2. PICK m : m = req[s].m
    BY Zenon
<1>3. PICK st \in {"claim", "err"} :
         /\ Goto(s, st)
         /\ hit' = hit
         /\ UNCHANGED <<kind, sender, guardVars, boxVars, blockVars>>
    BY Zenon, <1>2 DEF Inbound
<1>4. Moves(s, m, st) /\ st \in Stages
    BY Zenon, <1>1, <1>2, <1>3 DEF Moves, FaultKinds, Stages, guardVars, boxVars, blockVars
<1>5. FitsKind(s, m) /\ m \in Envelope /\ req'[s].stage = st /\ kind' = kind /\ kind[m] \in Kinds
    BY Zenon, <1>4, MoveFacts
<1>6. FitsKind(s, m)'
    BY Zenon, <1>1, <1>3, <1>5 DEF FitsKind, Sealed, Federated
<1>7. st = "ok" => Safe(m)
    BY Zenon, <1>3, DedupIsSafe
<1>8. ~(Federated(m) /\ st \in Claiming) \/ req[s].stage \in Claiming
    BY Zenon, <1>1, <1>3, <1>5 DEF FitsKind, Claiming
<1>9. Federated(m) /\ req[s].stage \in Claiming => st \in Claiming \cup {"ok"}
    BY Zenon, <1>1, <1>3 DEF Claiming
<1> QED BY Zenon, <1>1, <1>3, <1>4, <1>6, <1>7, <1>8, <1>9, QuietMove DEF Tagging, guardVars, boxVars

\* dispatch_envelope answers a repeat.
LEMMA DedupCheckStep ==
    ASSUME DispatchInv, NEW s \in Slot, DedupCheck(s)
    PROVE  DispatchInv'
<1>1. req[s] # Idle /\ req[s].stage = "dedup"
    BY DEF DedupCheck, At, Idle
<1>2. PICK m : m = req[s].m
    BY Zenon
<1>3. PICK st \in {"ok", "block"} :
         /\ Goto(s, st)
         /\ st = "ok" => m \in dedup
         /\ ((st = "block" => m \notin dedup) /\ hit' = hit) \/ Meets(m, "check")
         /\ UNCHANGED <<kind, sender, guardVars, boxVars, blockVars>>
    BY Zenon, <1>2 DEF DedupCheck
<1>4. Moves(s, m, st) /\ st \in Stages
    BY Zenon, <1>1, <1>2, <1>3 DEF Moves, FaultKinds, Stages, guardVars, boxVars, blockVars
<1>5. /\ FitsKind(s, m) /\ m \in Envelope /\ req'[s].stage = st /\ kind' = kind /\ kind[m] \in Kinds
      /\ OnceOK(m) /\ (Excused(m) => Excused(m)') /\ hit[m] \subseteq hit'[m]
      /\ RepeatCauses(m)' = RepeatCauses(m) /\ writes[m] \in 0..2
    BY Zenon, <1>4, MoveFacts
<1>6. FitsKind(s, m)'
    BY Zenon, <1>1, <1>3, <1>5 DEF FitsKind, Sealed, Federated
<1>7. st = "ok" => Safe(m)
    BY Zenon, <1>3, DedupIsSafe
<1>8. req[s].stage \in Claiming /\ st \in Claiming \cup {"ok"}
    BY Zenon, <1>1, <1>3 DEF Claiming
<1>9. ASSUME st = "block", kind[m] = "regular", ~Excused(m)' PROVE writes[m] = 0
  <2>1. "check" \notin hit'[m] /\ "overlap" \notin hit[m]
      BY Zenon, <1>5, <1>9 DEF Excused, RepeatCauses, Federated
  <2>2. hit' = hit /\ m \notin dedup
    <3>1. Meets(m, "check") => "check" \in hit'[m]
        BY <1>5, Meeting DEF FaultKinds, DispatchInv, DispatchBase
    <3> QED BY Zenon, <3>1, <2>1, <1>3, <1>9
  <2>3. \A t \in Slot : ~In(t, m, {"mark"})
      BY Zenon, <2>1, <1>1, <1>2, <1>5 DEF DispatchInv, DispatchBase, OneAtATime, In
  <2> QED BY <2>2, <2>3, <1>5, <1>9 DEF OnceOK, RegularOnce
<1> QED BY Zenon, <1>1, <1>3, <1>4, <1>6, <1>7, <1>8, <1>9, QuietMove DEF Tagging, guardVars, boxVars

\* dispatch_envelope drops the envelope of a blocked sender.
LEMMA BlockCheckStep ==
    ASSUME DispatchInv, NEW s \in Slot, BlockCheck(s)
    PROVE  DispatchInv'
<1>1. req[s] # Idle /\ req[s].stage = "block"
    BY DEF BlockCheck, At, Idle
<1>2. PICK m : m = req[s].m
    BY Zenon
<1>3. PICK st \in {"ok", "write"} :
         /\ Goto(s, st)
         /\ \/ st = "ok" /\ dropped' = dropped \cup {m} /\ UNCHANGED hit
            \/ st = "write" /\ ~blocked /\ UNCHANGED <<dropped, hit>>
            \/ st = "write" /\ Meets(m, "db") /\ UNCHANGED dropped
         /\ UNCHANGED <<kind, sender, dedup, tagged, claimed, mailbox, writes, blocked, purge>>
    BY Zenon, <1>2 DEF BlockCheck, guardVars, blockVars
<1>4. Moves(s, m, st) /\ st \in Stages
    BY Zenon, <1>1, <1>2, <1>3 DEF Moves, FaultKinds, Stages
<1>5. /\ FitsKind(s, m) /\ m \in Envelope /\ req'[s].stage = st /\ kind' = kind /\ kind[m] \in Kinds
      /\ \A t \in Slot : \A stages : In(t, m, stages)' <=> IF t = s THEN st \in stages ELSE In(t, m, stages)
      /\ \A stages : In(s, m, stages) <=> req[s].stage \in stages
      /\ OnceOK(m) /\ (Excused(m) => Excused(m)') /\ writes[m] \in 0..2
      /\ (Safe(m) => Safe(m)')
    BY Zenon, <1>4, MoveFacts
<1>6. FitsKind(s, m)' /\ ~Sealed(m)
    BY Zenon, <1>1, <1>3, <1>5 DEF FitsKind, Sealed, Federated
<1>7. st = "ok" => Safe(m)'
    BY Zenon, <1>3 DEF Safe, Accounted
<1>8. OnceOK(m)'
  <2> SUFFICES ASSUME ~Excused(m)'
      PROVE /\ writes[m] <= 1
            /\ kind[m] = "regular" => RegularOnce(m)'
            /\ Federated(m) => HeldOnce(m, claimed, Claiming)'
      BY Zenon, <1>3, <1>5, <1>6 DEF OnceOK, Sealed, Federated
  <2>1. writes[m] <= 1 /\ (kind[m] = "regular" => RegularOnce(m)')
      BY <1>1, <1>3, <1>5 DEF OnceOK, RegularOnce
  <2>2. ASSUME Federated(m) PROVE HeldOnce(m, claimed, Claiming)'
    <3>1. HeldOnce(m, claimed, Claiming)
        BY Zenon, <1>5, <2>2 DEF OnceOK
    <3> QED BY Zenon, <1>1, <1>3, <1>5, <3>1 DEF HeldOnce, Claiming
  <2> QED BY Zenon, <2>1, <2>2
<1>9. m \notin tagged' /\ (st = "write" => st \in Claiming)
    BY Zenon, <1>3, <1>6 DEF DispatchInv, DispatchBase, GuardsFit, Claiming
<1>10. st = "write" => ~req[s].late \/ "db" \in hit'[m]
  <2>1. Meets(m, "db") => "db" \in hit'[m]
      BY Zenon, <1>5, Meeting DEF FaultKinds, DispatchInv, DispatchBase
  <2>2. req[s].late => blocked
      BY Zenon, <1>1 DEF DispatchInv, BlockInv
  <2> QED BY Zenon, <2>1, <2>2, <1>3
<1> QED BY Zenon, <1>3, <1>4, <1>5, <1>6, <1>7, <1>8, <1>9, <1>10, MoveStep

\* A sealed envelope is tagged, or answered as a repeat.
LEMMA TagStep ==
    ASSUME DispatchInv, NEW s \in Slot, Tag(s)
    PROVE  DispatchInv'
<1>1. req[s] # Idle /\ req[s].stage = "tag"
    BY DEF Tag, At, Idle
<1>2. PICK m : m = req[s].m
    BY Zenon
<1>3. PICK st \in {"ok", "write"} :
         /\ Goto(s, st)
         /\ \/ m \in tagged /\ st = "ok" /\ UNCHANGED <<tagged, hit>>
            \/ m \notin tagged /\ tagged' = tagged \cup {m} /\ st = "write" /\ UNCHANGED hit
            \/ Meets(m, "check") /\ tagged' \in {tagged, tagged \cup {m}} /\ st = "write"
         /\ UNCHANGED <<kind, sender, dedup, claimed, mailbox, writes, dropped, blocked, purge>>
    BY Zenon, <1>2 DEF Tag, boxVars, blockVars
<1>4. Moves(s, m, st) /\ st \in Stages
    BY Zenon, <1>1, <1>2, <1>3 DEF Moves, FaultKinds, Stages
<1>5. /\ FitsKind(s, m) /\ m \in Envelope /\ req'[s].stage = st /\ kind' = kind /\ kind[m] \in Kinds
      /\ \A t \in Slot : \A stages : In(t, m, stages)' <=> IF t = s THEN st \in stages ELSE In(t, m, stages)
      /\ \A stages : In(s, m, stages) <=> req[s].stage \in stages
      /\ OnceOK(m) /\ (Excused(m) => Excused(m)') /\ writes[m] \in 0..2
      /\ (Safe(m) => Safe(m)') /\ RepeatCauses(m)' = RepeatCauses(m)
    BY Zenon, <1>4, MoveFacts
<1>6. FitsKind(s, m)' /\ Sealed(m)
    BY Zenon, <1>1, <1>3, <1>5 DEF FitsKind, Sealed, Federated
<1>7. st = "ok" => Safe(m)'
  <2>1. SUFFICES ASSUME st = "ok", ~Safe(m) PROVE FALSE
      BY Zenon, <1>5
  <2>2. m \in tagged
      BY Zenon, <1>3, <2>1
  <2>3. PICK t \in Slot : In(t, m, Tagging)
      BY Zenon, <2>1, <2>2 DEF DispatchInv, LossInv
  <2>4. t # s
      BY Zenon, <2>3, <1>1 DEF In, Tagging
  <2>5. "overlap" \in hit[m]
      BY Zenon, <1>1, <1>2, <1>5, <2>3, <2>4 DEF DispatchInv, DispatchBase, OneAtATime, In
  <2>6. "overlap" \in LossCauses(m)
      BY Zenon, <1>5, <1>6 DEF LossCauses, Sealed, Federated, Kinds
  <2> QED BY Zenon, <2>1, <2>5, <2>6 DEF Safe
<1>8. OnceOK(m)'
  <2> SUFFICES ASSUME ~Excused(m)'
      PROVE /\ writes[m] <= 1
            /\ kind[m] = "sealed" => HeldOnce(m, tagged, Tagging)'
            /\ Federated(m) => HeldOnce(m, claimed, Claiming)'
      BY Zenon, <1>3, <1>5, <1>6 DEF OnceOK, Sealed, Federated
  <2>1. writes[m] <= 1
      BY Zenon, <1>5 DEF OnceOK
  <2>2. ASSUME kind[m] = "sealed" PROVE HeldOnce(m, tagged, Tagging)'
    <3>1. HeldOnce(m, tagged, Tagging)
        BY Zenon, <1>5, <2>2 DEF OnceOK
    <3>2. Meets(m, "check") => "check" \in hit'[m]
        BY <1>5, Meeting DEF FaultKinds, DispatchInv, DispatchBase
    <3>3. ~Meets(m, "check")
        BY Zenon, <2>2, <3>2, <1>5 DEF Excused, RepeatCauses, Federated
    <3>4. CASE st = "ok"
        BY Zenon, <1>1, <1>3, <1>5, <3>1, <3>4 DEF HeldOnce, Tagging
    <3>5. CASE st = "write"
      <4>1. m \notin tagged /\ m \in tagged'
          BY Zenon, <1>3, <3>3, <3>5
      <4>2. writes[m] = 0 /\ \A t \in Slot : ~In(t, m, Tagging)
          BY <3>1, <4>1, <1>5 DEF HeldOnce
      <4> QED BY Zenon, <1>3, <1>5, <3>5, <4>1, <4>2 DEF HeldOnce, Tagging
    <3> QED BY Zenon, <3>4, <3>5
  <2>3. ASSUME Federated(m) PROVE HeldOnce(m, claimed, Claiming)'
    <3>1. HeldOnce(m, claimed, Claiming)
        BY Zenon, <1>5, <2>3 DEF OnceOK
    <3> QED BY Zenon, <1>1, <1>3, <1>5, <3>1 DEF HeldOnce, Claiming
  <2> QED BY Zenon, <2>1, <2>2, <2>3
<1>9. (m \in tagged' => Safe(m)' \/ st \in Tagging) /\ (m \in claimed' => Safe(m)' \/ st \in Claiming)
    BY Zenon, <1>3, <1>7 DEF Tagging, Claiming
<1> QED BY Zenon, <1>3, <1>4, <1>5, <1>6, <1>7, <1>8, <1>9, MoveStep

\* A fault is among those its envelope has met.
LEMMA Met ==
    ASSUME DispatchInv, NEW m \in Envelope, NEW f \in FaultKinds, Meets(m, f)
    PROVE  f \in hit'[m]
BY Meeting DEF DispatchInv, DispatchBase

\* The federation claim is taken, or the envelope answered as a repeat.
LEMMA ClaimStep ==
    ASSUME DispatchInv, NEW s \in Slot, Claim(s)
    PROVE  DispatchInv'
<1>1. req[s] # Idle /\ req[s].stage = "claim"
    BY DEF Claim, At, Idle
<1>2. PICK m : m = req[s].m
    BY Zenon
<1>3. PICK st \in {"ok", "token", "dedup", "err"} :
         /\ Goto(s, st)
         /\ \/ m \in claimed /\ st = "ok" /\ UNCHANGED <<claimed, hit>>
            \/ m \notin claimed /\ claimed' = claimed \cup {m} /\ UNCHANGED hit
               /\ st = IF Sealed(m) THEN "token" ELSE "dedup"
            \/ Meets(m, "check") /\ claimed' \in {claimed, claimed \cup {m}} /\ st = "err"
         /\ UNCHANGED <<kind, sender, dedup, tagged, mailbox, writes, dropped, blocked, purge>>
    BY Zenon, <1>2 DEF Claim, boxVars, blockVars
<1>4. Moves(s, m, st) /\ st \in Stages
    BY Zenon, <1>1, <1>2, <1>3 DEF Moves, FaultKinds, Stages
<1>5. /\ FitsKind(s, m) /\ m \in Envelope /\ req'[s].stage = st /\ kind' = kind /\ kind[m] \in Kinds
      /\ \A t \in Slot : \A stages : In(t, m, stages)' <=> IF t = s THEN st \in stages ELSE In(t, m, stages)
      /\ \A stages : In(s, m, stages) <=> req[s].stage \in stages
      /\ OnceOK(m) /\ (Excused(m) => Excused(m)') /\ writes[m] \in 0..2
      /\ (Safe(m) => Safe(m)') /\ LossCauses(m)' = LossCauses(m) /\ RepeatCauses(m)' = RepeatCauses(m)
    BY Zenon, <1>4, MoveFacts
<1>6. FitsKind(s, m)' /\ Federated(m)
    BY Zenon, <1>1, <1>3, <1>5 DEF FitsKind, Sealed, Federated
<1>7. st = "ok" => Safe(m)'
  <2>1. SUFFICES ASSUME st = "ok", ~Safe(m) PROVE FALSE
      BY Zenon, <1>5
  <2>2. m \in claimed
      BY Zenon, <1>3, <2>1
  <2>3. PICK t \in Slot : In(t, m, Claiming)
      BY Zenon, <2>1, <2>2 DEF DispatchInv, LossInv
  <2>4. t # s
      BY Zenon, <2>3, <1>1 DEF In, Claiming
  <2>5. "overlap" \in hit[m]
      BY Zenon, <1>1, <1>2, <1>5, <2>3, <2>4 DEF DispatchInv, DispatchBase, OneAtATime, In
  <2>6. "overlap" \in LossCauses(m)
      BY Zenon, <1>5, <1>6 DEF LossCauses, Federated
  <2> QED BY Zenon, <2>1, <2>5, <2>6 DEF Safe
<1>8. OnceOK(m)'
  <2> SUFFICES ASSUME ~Excused(m)'
      PROVE writes[m] <= 1 /\ HeldOnce(m, claimed, Claiming)'
      BY Zenon, <1>3, <1>5, <1>6 DEF OnceOK, Federated
  <2>1. writes[m] <= 1 /\ HeldOnce(m, claimed, Claiming)
      BY Zenon, <1>5, <1>6 DEF OnceOK
  <2>2. CASE st \in {"ok", "err"}
      BY <1>1, <1>3, <1>5, <2>1, <2>2 DEF HeldOnce, Claiming
  <2>3. CASE st \in {"token", "dedup"}
    <3>1. m \notin claimed /\ m \in claimed'
        BY Zenon, <1>3, <2>3
    <3>2. writes[m] = 0 /\ \A t \in Slot : ~In(t, m, Claiming)
        BY <2>1, <3>1, <1>5 DEF HeldOnce
    <3> QED BY <1>3, <1>5, <2>3, <3>1, <3>2 DEF HeldOnce, Claiming
  <2> QED BY Zenon, <2>1, <2>2, <2>3
<1>9. st = "err" => Safe(m)'
  <2>1. st = "err" => "check" \in hit'[m]
      BY Zenon, <1>3, <1>5, Met DEF FaultKinds
  <2>2. "check" \in LossCauses(m)
      BY Zenon, <1>5, <1>6 DEF LossCauses, Federated
  <2> QED BY Zenon, <2>1, <2>2, <1>5 DEF Safe
<1>10. m \in claimed' => Safe(m)' \/ st \in Claiming
    BY Zenon, <1>3, <1>7, <1>9 DEF Claiming
<1>11. (m \in tagged' => m \in tagged /\ req[s].stage \notin Tagging) /\ st # "write"
    BY Zenon, <1>1, <1>3 DEF Tagging
<1> QED BY Zenon, <1>3, <1>4, <1>5, <1>6, <1>7, <1>8, <1>10, <1>11, MoveStep

\* The write to the mailbox: it lands, or it fails, or nobody knows.
LEMMA WriteBoxStep ==
    ASSUME DispatchInv, NEW s \in Slot, WriteBox(s)
    PROVE  DispatchInv'
<1>1. req[s] # Idle /\ req[s].stage = "write" /\ At(s, "write")
    BY DEF WriteBox, At, Idle
<1>2. PICK m : m = req[s].m
    BY Zenon
<1>3. PICK st \in {"ok", "mark", "unmark", "release", "err"} :
         /\ Goto(s, st)
         /\ st \in {"ok", "unmark"} <=> Sealed(m)
         /\ st = "release" => Federated(m)
         /\ st = "err" => ~Federated(m)
         /\ \/ Land(s) /\ st \in {"ok", "mark"} /\ UNCHANGED hit
            \/ Land(s) /\ st \notin {"ok", "mark"} /\ Meets(m, "reply")
            \/ Meets(m, "write") /\ st \notin {"ok", "mark"} /\ UNCHANGED <<mailbox, writes>>
         /\ UNCHANGED <<kind, sender, dedup, tagged, claimed, dropped, blocked, purge>>
    BY Zenon, <1>2 DEF WriteBox, guardVars, blockVars, Fail
<1>4. Moves(s, m, st) /\ st \in Stages
    BY Zenon, <1>1, <1>2, <1>3 DEF Moves, FaultKinds, Stages
<1>5. /\ FitsKind(s, m) /\ m \in Envelope /\ req'[s].stage = st /\ kind' = kind /\ kind[m] \in Kinds
      /\ \A t \in Slot : \A stages : In(t, m, stages)' <=> IF t = s THEN st \in stages ELSE In(t, m, stages)
      /\ \A stages : In(s, m, stages) <=> req[s].stage \in stages
      /\ OnceOK(m) /\ (Excused(m) => Excused(m)') /\ writes[m] \in 0..2
      /\ (Safe(m) => Safe(m)') /\ LossCauses(m)' = LossCauses(m) /\ RepeatCauses(m)' = RepeatCauses(m)
    BY Zenon, <1>4, MoveFacts
<1>6. Land(s) => writes'[m] = IF writes[m] < 2 THEN writes[m] + 1 ELSE writes[m]
  <2>1. req[s] \in Requests
      BY Zenon, <1>4, MoveFacts
  <2> QED BY Zenon, <2>1, <1>2, Landing DEF DispatchInv, DispatchBase
<1>7. Land(s) => writes'[m] > 0 /\ Safe(m)'
    BY <1>5, <1>6 DEF Safe, Accounted
<1>8. FitsKind(s, m)'
    BY Zenon, <1>1, <1>3, <1>5, <1>7 DEF FitsKind, Sealed, Federated
<1>9. Meets(m, "reply") => Excused(m)'
  <2>1. Meets(m, "reply") => "reply" \in hit'[m]
      BY Zenon, <1>5, Met DEF FaultKinds
  <2>2. "reply" \in RepeatCauses(m)
      BY Zenon, <1>5 DEF RepeatCauses, Federated, Kinds
  <2> QED BY Zenon, <2>1, <2>2, <1>5 DEF Excused
<1>10. OnceOK(m)'
  <2> SUFFICES ASSUME ~Excused(m)'
      PROVE /\ writes'[m] <= 1
            /\ kind[m] = "regular" => RegularOnce(m)'
            /\ kind[m] = "sealed" => HeldOnce(m, tagged, Tagging)'
            /\ Federated(m) => HeldOnce(m, claimed, Claiming)'
      BY Zenon, <1>5 DEF OnceOK, Federated
  <2>1. CASE UNCHANGED <<mailbox, writes>> /\ st \notin {"ok", "mark"}
    <3>1. writes'[m] <= 1
        BY Zenon, <1>5, <2>1 DEF OnceOK
    <3>2. ASSUME kind[m] = "regular" PROVE RegularOnce(m)'
        BY Zenon, <1>1, <1>3, <1>5, <2>1, <3>2 DEF OnceOK, RegularOnce, Sealed
    <3>3. ASSUME kind[m] = "sealed" PROVE HeldOnce(m, tagged, Tagging)'
      <4>1. st = "unmark" /\ HeldOnce(m, tagged, Tagging)
          BY Zenon, <1>3, <1>5, <2>1, <3>3 DEF OnceOK, Sealed
      <4> QED BY Zenon, <4>1, <1>1, <1>3, <1>5, <2>1 DEF HeldOnce, Tagging
    <3>4. ASSUME Federated(m) PROVE HeldOnce(m, claimed, Claiming)'
      <4>1. st \in {"unmark", "release"} /\ HeldOnce(m, claimed, Claiming)
          BY Zenon, <1>3, <1>5, <2>1, <3>4 DEF OnceOK
      <4> QED BY Zenon, <4>1, <1>1, <1>3, <1>5, <2>1 DEF HeldOnce, Claiming
    <3> QED BY Zenon, <3>1, <3>2, <3>3, <3>4
  <2>2. CASE Land(s) /\ st \in {"ok", "mark"}
    <3>1. writes[m] = 0
        BY Zenon, <1>1, <1>5 DEF OnceOK, RegularOnce, HeldOnce, Tagging, Claiming, Kinds, Federated
    <3>2. writes'[m] = 1
        BY <1>6, <2>2, <3>1
    <3>3. ASSUME kind[m] = "regular" PROVE RegularOnce(m)'
      <4>1. st = "mark"
          BY Zenon, <1>3, <2>2, <3>3 DEF Sealed
      <4>2. "overlap" \notin hit[m]
          BY Zenon, <1>5, <3>3 DEF Excused, RepeatCauses, Federated
      <4>3. \A t \in Slot : t # s => ~In(t, m, {"block", "write"})
          BY <4>2, <1>1, <1>2, <1>5 DEF DispatchInv, DispatchBase, OneAtATime, In
      <4> QED BY Zenon, <4>1, <4>3, <1>5 DEF RegularOnce
    <3>4. ASSUME kind[m] = "sealed" PROVE HeldOnce(m, tagged, Tagging)'
      <4>1. st = "ok" /\ HeldOnce(m, tagged, Tagging)
          BY Zenon, <1>3, <1>5, <2>2, <3>4 DEF OnceOK, Sealed
      <4>2. \A t \in Slot : ~In(t, m, Tagging)'
          BY Zenon, <4>1, <1>1, <1>5 DEF HeldOnce, Tagging
      <4>3. m \in tagged
          BY Zenon, <4>1, <1>1, <1>5 DEF HeldOnce, Tagging
      <4>4. \A t \in Slot : ~In(t, m, Tagging \ {"mark"})'
          BY Zenon, <4>2 DEF In
      <4> QED BY Zenon, <4>2, <4>3, <4>4, <1>3 DEF HeldOnce, Tagging
    <3>5. ASSUME Federated(m) PROVE HeldOnce(m, claimed, Claiming)'
      <4>1. HeldOnce(m, claimed, Claiming)
          BY Zenon, <1>5, <3>5 DEF OnceOK
      <4>2. \A t \in Slot : t # s => ~In(t, m, Claiming)'
          BY Zenon, <4>1, <1>1, <1>5 DEF HeldOnce, Claiming
      <4>3. m \in claimed
          BY Zenon, <4>1, <1>1, <1>5 DEF HeldOnce, Claiming
      <4>4. \A t \in Slot : ~In(t, m, Claiming \ {"mark"})'
          BY Zenon, <4>2, <2>2, <1>5 DEF In, Claiming
      <4> QED BY Zenon, <4>2, <4>3, <4>4, <1>3 DEF HeldOnce, Claiming
    <3> QED BY <3>2, <3>3, <3>4, <3>5
  <2> QED BY Zenon, <2>1, <2>2, <1>3, <1>9
<1>11. (m \in tagged => Sealed(m)) /\ (m \in claimed => Federated(m))
    BY Zenon DEF DispatchInv, DispatchBase, GuardsFit
<1>12. m \in tagged' => Safe(m)' \/ st \in Tagging
    BY Zenon, <1>3, <1>7, <1>11 DEF Tagging
<1>13. m \in claimed' => Safe(m)' \/ st \in Claiming
    BY Zenon, <1>3, <1>7, <1>11 DEF Claiming
<1>14. st = "ok" => Safe(m)'
    BY Zenon, <1>3, <1>7
<1> QED BY Zenon, <1>1, <1>3, <1>4, <1>8, <1>10, <1>12, <1>13, <1>14, MoveStep

\* The dedup key of what was written is set, or is not.
LEMMA MarkStep ==
    ASSUME DispatchInv, NEW s \in Slot, Mark(s)
    PROVE  DispatchInv'
<1>1. req[s] # Idle /\ req[s].stage = "mark"
    BY DEF Mark, At, Idle
<1>2. PICK m : m = req[s].m
    BY Zenon
<1>3. PICK st \in {"ok"} :
         /\ Goto(s, st)
         /\ \/ dedup' = dedup \cup {m} /\ UNCHANGED hit
            \/ UNCHANGED dedup /\ Meets(m, "mark")
         /\ UNCHANGED <<kind, sender, tagged, claimed, mailbox, writes, dropped, blocked, purge>>
    BY Zenon, <1>2 DEF Mark, boxVars, blockVars
<1>4. Moves(s, m, st) /\ st \in Stages
    BY Zenon, <1>1, <1>2, <1>3 DEF Moves, FaultKinds, Stages
<1>5. /\ FitsKind(s, m) /\ m \in Envelope /\ req'[s].stage = st /\ kind' = kind /\ kind[m] \in Kinds
      /\ \A t \in Slot : \A stages : In(t, m, stages)' <=> IF t = s THEN st \in stages ELSE In(t, m, stages)
      /\ \A stages : In(s, m, stages) <=> req[s].stage \in stages
      /\ OnceOK(m) /\ (Excused(m) => Excused(m)') /\ writes[m] \in 0..2
      /\ (Safe(m) => Safe(m)') /\ LossCauses(m)' = LossCauses(m) /\ RepeatCauses(m)' = RepeatCauses(m)
    BY Zenon, <1>4, MoveFacts
<1>6. FitsKind(s, m)' /\ writes[m] > 0 /\ ~Sealed(m)
    BY Zenon, <1>1, <1>3, <1>5 DEF FitsKind
<1>7. Safe(m)'
    BY Zenon, <1>3, <1>6 DEF Safe, Accounted
<1>8. OnceOK(m)'
  <2> SUFFICES ASSUME ~Excused(m)'
      PROVE /\ writes[m] <= 1
            /\ kind[m] = "regular" => RegularOnce(m)'
            /\ Federated(m) => HeldOnce(m, claimed, Claiming)'
      BY Zenon, <1>3, <1>5, <1>6 DEF OnceOK, Sealed, Federated
  <2>1. writes[m] <= 1
      BY Zenon, <1>5 DEF OnceOK
  <2>2. ASSUME kind[m] = "regular" PROVE RegularOnce(m)'
    <3>1. Meets(m, "mark") => "mark" \in hit'[m]
        BY Zenon, <1>5, Met DEF FaultKinds
    <3>2. m \in dedup'
        BY Zenon, <1>3, <1>5, <2>2, <3>1 DEF Excused, RepeatCauses, Federated
    <3>3. RegularOnce(m)
        BY Zenon, <1>5, <2>2 DEF OnceOK
    <3> QED BY Zenon, <1>3, <1>5, <3>2, <3>3 DEF RegularOnce
  <2>3. ASSUME Federated(m) PROVE HeldOnce(m, claimed, Claiming)'
    <3>1. HeldOnce(m, claimed, Claiming)
        BY Zenon, <1>5, <2>3 DEF OnceOK
    <3> QED BY Zenon, <1>1, <1>3, <1>5, <3>1 DEF HeldOnce, Claiming
  <2> QED BY Zenon, <2>1, <2>2, <2>3
<1> QED BY Zenon, <1>3, <1>4, <1>5, <1>6, <1>7, <1>8, MoveStep

\* The tag of a failed write is removed, or is not.
LEMMA UnmarkStep ==
    ASSUME DispatchInv, NEW s \in Slot, Unmark(s)
    PROVE  DispatchInv'
<1>1. req[s] # Idle /\ req[s].stage = "unmark"
    BY DEF Unmark, At, Idle
<1>2. PICK m : m = req[s].m
    BY Zenon
<1>3. PICK st \in {"release", "err"} :
         /\ Goto(s, st)
         /\ st = "release" <=> Federated(m)
         /\ \/ tagged' = tagged \ {m} /\ UNCHANGED hit
            \/ UNCHANGED tagged /\ Meets(m, "undo")
         /\ UNCHANGED <<kind, sender, dedup, claimed, mailbox, writes, dropped, blocked, purge>>
    BY Zenon, <1>2 DEF Unmark, boxVars, blockVars, Fail
<1>4. Moves(s, m, st) /\ st \in Stages
    BY Zenon, <1>1, <1>2, <1>3 DEF Moves, FaultKinds, Stages
<1>5. /\ FitsKind(s, m) /\ m \in Envelope /\ req'[s].stage = st /\ kind' = kind /\ kind[m] \in Kinds
      /\ \A t \in Slot : \A stages : In(t, m, stages)' <=> IF t = s THEN st \in stages ELSE In(t, m, stages)
      /\ \A stages : In(s, m, stages) <=> req[s].stage \in stages
      /\ OnceOK(m) /\ (Excused(m) => Excused(m)') /\ writes[m] \in 0..2
      /\ (Safe(m) => Safe(m)') /\ LossCauses(m)' = LossCauses(m) /\ RepeatCauses(m)' = RepeatCauses(m)
    BY Zenon, <1>4, MoveFacts
<1>6. FitsKind(s, m)' /\ Sealed(m)
    BY Zenon, <1>1, <1>3, <1>5 DEF FitsKind, Federated, Sealed
<1>7. OnceOK(m)'
  <2> SUFFICES ASSUME ~Excused(m)'
      PROVE /\ writes[m] <= 1
            /\ kind[m] = "sealed" => HeldOnce(m, tagged, Tagging)'
            /\ Federated(m) => HeldOnce(m, claimed, Claiming)'
      BY Zenon, <1>3, <1>5, <1>6 DEF OnceOK, Sealed, Federated
  <2>1. writes[m] <= 1
      BY Zenon, <1>5 DEF OnceOK
  <2>2. ASSUME kind[m] = "sealed" PROVE HeldOnce(m, tagged, Tagging)'
    <3>1. HeldOnce(m, tagged, Tagging) /\ st = "err"
        BY Zenon, <1>3, <1>5, <2>2 DEF OnceOK, Federated
    <3>2. writes[m] = 0 /\ \A t \in Slot : t # s => ~In(t, m, Tagging)
        BY Zenon, <3>1, <1>1, <1>5 DEF HeldOnce, Tagging
    <3>3. \A t \in Slot : ~In(t, m, Tagging)'
        BY Zenon, <3>1, <3>2, <1>5 DEF Tagging
    <3>4. \A t \in Slot : ~In(t, m, Tagging \ {"mark"})'
        BY Zenon, <3>3 DEF In
    <3> QED BY <1>3, <3>2, <3>3, <3>4 DEF HeldOnce, Tagging
  <2>3. ASSUME Federated(m) PROVE HeldOnce(m, claimed, Claiming)'
    <3>1. HeldOnce(m, claimed, Claiming) /\ st = "release"
        BY Zenon, <1>3, <1>5, <2>3 DEF OnceOK
    <3> QED BY Zenon, <1>1, <1>3, <1>5, <3>1 DEF HeldOnce, Claiming
  <2> QED BY Zenon, <2>1, <2>2, <2>3
<1>8. m \in tagged' => Safe(m)'
  <2>1. m \in tagged' => "undo" \in hit'[m]
      BY Zenon, <1>3, <1>5, Met DEF FaultKinds
  <2>2. "undo" \in LossCauses(m)
      BY Zenon, <1>6 DEF LossCauses, Sealed, Federated
  <2> QED BY Zenon, <2>1, <2>2, <1>5 DEF Safe
<1>9. m \in claimed' => Safe(m)' \/ st \in Claiming
    BY Zenon, <1>3 DEF DispatchInv, DispatchBase, GuardsFit, Claiming
<1> QED BY Zenon, <1>3, <1>4, <1>5, <1>6, <1>7, <1>8, <1>9, MoveStep

\* The claim of a failed dispatch is released, or is not.
LEMMA ReleaseStep ==
    ASSUME DispatchInv, NEW s \in Slot, Release(s)
    PROVE  DispatchInv'
<1>1. req[s] # Idle /\ req[s].stage = "release"
    BY DEF Release, At, Idle
<1>2. PICK m : m = req[s].m
    BY Zenon
<1>3. PICK st \in {"err"} :
         /\ Goto(s, st)
         /\ \/ claimed' = claimed \ {m} /\ UNCHANGED hit
            \/ UNCHANGED claimed /\ Meets(m, "undo")
         /\ UNCHANGED <<kind, sender, dedup, tagged, mailbox, writes, dropped, blocked, purge>>
    BY Zenon, <1>2 DEF Release, boxVars, blockVars
<1>4. Moves(s, m, st) /\ st \in Stages
    BY Zenon, <1>1, <1>2, <1>3 DEF Moves, FaultKinds, Stages
<1>5. /\ FitsKind(s, m) /\ m \in Envelope /\ req'[s].stage = st /\ kind' = kind /\ kind[m] \in Kinds
      /\ \A t \in Slot : \A stages : In(t, m, stages)' <=> IF t = s THEN st \in stages ELSE In(t, m, stages)
      /\ \A stages : In(s, m, stages) <=> req[s].stage \in stages
      /\ OnceOK(m) /\ (Excused(m) => Excused(m)') /\ writes[m] \in 0..2
      /\ (Safe(m) => Safe(m)') /\ LossCauses(m)' = LossCauses(m) /\ RepeatCauses(m)' = RepeatCauses(m)
    BY Zenon, <1>4, MoveFacts
<1>6. FitsKind(s, m)' /\ Federated(m)
    BY Zenon, <1>1, <1>3, <1>5 DEF FitsKind, Federated
<1>7. OnceOK(m)'
  <2> SUFFICES ASSUME ~Excused(m)'
      PROVE writes[m] <= 1 /\ HeldOnce(m, claimed, Claiming)'
      BY Zenon, <1>3, <1>5, <1>6 DEF OnceOK, Federated
  <2>1. writes[m] <= 1 /\ HeldOnce(m, claimed, Claiming)
      BY Zenon, <1>5, <1>6 DEF OnceOK
  <2>2. writes[m] = 0 /\ \A t \in Slot : t # s => ~In(t, m, Claiming)
      BY Zenon, <2>1, <1>1, <1>5 DEF HeldOnce, Claiming
  <2>3. \A t \in Slot : ~In(t, m, Claiming)'
      BY Zenon, <1>3, <2>2, <1>5 DEF Claiming
  <2>4. \A t \in Slot : ~In(t, m, Claiming \ {"mark"})'
      BY Zenon, <2>3 DEF In
  <2> QED BY <1>3, <2>1, <2>2, <2>3, <2>4 DEF HeldOnce, Claiming
<1>8. m \in claimed' => Safe(m)'
  <2>1. m \in claimed' => "undo" \in hit'[m]
      BY Zenon, <1>3, <1>5, Met DEF FaultKinds
  <2>2. "undo" \in LossCauses(m)
      BY Zenon, <1>6 DEF LossCauses, Federated
  <2> QED BY Zenon, <2>1, <2>2, <1>5 DEF Safe
<1>9. m \in tagged' => m \in tagged /\ req[s].stage \notin Tagging
    BY Zenon, <1>1, <1>3 DEF Tagging
<1> QED BY Zenon, <1>3, <1>4, <1>5, <1>6, <1>7, <1>8, <1>9, MoveStep

-----------------------------------------------------------------------------
\* A slot takes a request of m, or gives it up.
Places(s, m, r) ==
    /\ req[s] # Idle => req[s].m = m
    /\ r # Idle => r.m = m
    /\ req' = [req EXCEPT ![s] = r]
    /\ hit' = hit \/ \E f \in FaultKinds : Meets(m, f)
    /\ sender' = sender \/ \E a \in {"trying", "acked", "refused"} : sender' = [sender EXCEPT ![m] = a]
    /\ UNCHANGED <<kind, dedup, tagged, claimed, mailbox, writes, dropped, blocked, purge>>

\* Such a step leaves the guards, the mailbox and other envelopes as they are.
LEMMA PlaceFacts ==
    ASSUME DispatchInv, NEW s \in Slot, NEW m \in Envelope, NEW r \in {Idle} \cup Requests, Places(s, m, r)
    PROVE  /\ StepOf(s, m) /\ req'[s] = r
           /\ \A t \in Slot : \A stages :
                 In(t, m, stages)' <=> IF t = s THEN r # Idle /\ r.stage \in stages ELSE In(t, m, stages)
           /\ OnceOK(m)
           /\ Safe(m) => Safe(m)'
           /\ Excused(m) => Excused(m)'
           /\ LossCauses(m)' = LossCauses(m) /\ RepeatCauses(m)' = RepeatCauses(m)
<1> USE DEF DispatchInv, DispatchBase
<1>1. /\ req' \in [Slot -> {Idle} \cup Requests] /\ req'[s] = r
      /\ \A t \in Slot : t # s => req'[t] = req[t]
    BY Zenon, Placing DEF Places
<1>2. hit' \in [Envelope -> SUBSET FaultKinds] /\ hit[m] \subseteq hit'[m]
      /\ \A n \in Envelope : n # m => hit'[n] = hit[n]
  <2>1. CASE hit' = hit
      BY Zenon, <2>1 DEF DispatchTypeOK
  <2>2. ASSUME NEW f \in FaultKinds, Meets(m, f)
        PROVE hit' \in [Envelope -> SUBSET FaultKinds] /\ hit[m] \subseteq hit'[m]
              /\ \A n \in Envelope : n # m => hit'[n] = hit[n]
      BY Zenon, <2>2, Meeting
  <2> QED BY Zenon, <2>1, <2>2 DEF Places
<1>3. /\ sender' \in [Envelope -> {"trying", "acked", "refused"}]
      /\ \A n \in Envelope : n # m => sender'[n] = sender[n]
    BY Zenon DEF Places, DispatchTypeOK
<1>4. DispatchTypeOK'
    BY Zenon, <1>1, <1>2, <1>3 DEF DispatchTypeOK, Places, Requests
<1>5. writes[m] <= writes[m]
    BY DEF DispatchTypeOK
<1>6. StepOf(s, m)
    BY Zenon, <1>1, <1>2, <1>3, <1>4, <1>5 DEF StepOf, Places
<1>7. LossCauses(m)' = LossCauses(m) /\ RepeatCauses(m)' = RepeatCauses(m)
    BY Zenon DEF Places, LossCauses, RepeatCauses, Federated
<1>8. OnceOK(m) /\ (Excused(m) => Excused(m)')
    BY Zenon, <1>2, <1>7 DEF OnceInv, Excused
<1>9. Safe(m) => Safe(m)'
    BY Zenon, <1>6, SafeStays
<1>10. \A t \in Slot : \A stages :
          In(t, m, stages)' <=> IF t = s THEN r # Idle /\ r.stage \in stages ELSE In(t, m, stages)
    BY Zenon, <1>1 DEF Places, In
<1> QED BY Zenon, <1>1, <1>6, <1>7, <1>8, <1>9, <1>10

\* A request begins.
LEMMA SendStep ==
    ASSUME DispatchInv, NEW s \in Slot, NEW m \in Envelope, Send(s, m)
    PROVE  DispatchInv'
<1> USE DEF DispatchInv
<1>1. req[s] = Idle /\ kind[m] \in Kinds /\ blocked \in BOOLEAN
    BY Zenon DEF Send, DispatchBase, DispatchTypeOK
<1>2. PICK st \in FirstStages(m) : req' = [req EXCEPT ![s] = [stage |-> st, m |-> m, late |-> blocked]]
    BY Zenon DEF Send
<1>3. PICK r : r = [stage |-> st, m |-> m, late |-> blocked]
    BY Zenon
<1>4. /\ st \in {"early", "limits", "token", "inbound"}
      /\ st \in {"early", "limits"} => kind[m] = "regular"
      /\ st = "token" => kind[m] = "sealed"
      /\ st = "inbound" => Federated(m)
    BY Zenon, <1>1 DEF FirstStages, Kinds, Federated
<1>5. r \in Requests /\ r # Idle /\ r.stage = st /\ r.m = m /\ r.late = blocked
  <2>1. r \in Requests /\ r.stage = st /\ r.m = m /\ r.late = blocked
      BY Zenon, <1>1, <1>3, <1>4 DEF Requests, Stages
  <2> QED BY <2>1, <1>4 DEF Idle
<1>6. Places(s, m, r)
    BY Zenon, <1>1, <1>2, <1>3, <1>5 DEF Send, Places, guardVars, boxVars, blockVars, FaultKinds
<1>7. /\ StepOf(s, m) /\ req'[s] = r
      /\ \A t \in Slot : \A stages :
            In(t, m, stages)' <=> IF t = s THEN r # Idle /\ r.stage \in stages ELSE In(t, m, stages)
      /\ OnceOK(m) /\ (Safe(m) => Safe(m)') /\ (Excused(m) => Excused(m)')
      /\ LossCauses(m)' = LossCauses(m) /\ RepeatCauses(m)' = RepeatCauses(m)
    BY <1>5, <1>6, PlaceFacts
<1>8. UNCHANGED <<kind, sender, dedup, tagged, claimed, mailbox, writes, dropped, blocked, purge>>
    BY Zenon DEF Send, guardVars, boxVars, blockVars
<1>9. DispatchBase'
  <2>1. FitsKind(s, m)'
      BY Zenon, <1>4, <1>5, <1>7, <1>8 DEF FitsKind, Sealed, Federated
  <2>2. ~Running(m) \/ "overlap" \in hit'[m]
      BY Zenon, Met DEF Send, FaultKinds
  <2> QED BY Zenon, <2>1, <2>2, <1>7, <1>8, BaseStep
<1>10. LossInv'
    BY Zenon, <1>1, <1>4, <1>5, <1>7, <1>8, LossStep DEF In
<1>11. OnceOK(m)'
  <2> SUFFICES ASSUME ~Excused(m)'
      PROVE /\ writes[m] <= 1
            /\ kind[m] = "regular" => RegularOnce(m)'
            /\ kind[m] = "sealed" => HeldOnce(m, tagged, Tagging)'
            /\ Federated(m) => HeldOnce(m, claimed, Claiming)'
      BY Zenon, <1>8 DEF OnceOK, Federated
  <2>1. \A t \in Slot : In(t, m, {"mark"}) => t # s
      BY Zenon, <1>1 DEF In
  <2>2. writes[m] <= 1 /\ (kind[m] = "regular" => RegularOnce(m)')
      BY <1>4, <1>5, <1>7, <1>8, <2>1 DEF OnceOK, RegularOnce
  <2>3. ASSUME kind[m] = "sealed" PROVE HeldOnce(m, tagged, Tagging)'
    <3>1. HeldOnce(m, tagged, Tagging)
        BY Zenon, <1>7, <2>3 DEF OnceOK
    <3> QED BY <1>4, <1>5, <1>7, <1>8, <3>1 DEF HeldOnce, Tagging
  <2>4. ASSUME Federated(m) PROVE HeldOnce(m, claimed, Claiming)'
    <3>1. HeldOnce(m, claimed, Claiming) /\ st = "inbound"
        BY Zenon, <1>4, <1>7, <2>4 DEF OnceOK, Federated
    <3> QED BY <1>5, <1>7, <1>8, <3>1 DEF HeldOnce, Claiming
  <2> QED BY Zenon, <2>2, <2>3, <2>4
<1>12. OnceInv'
    BY Zenon, <1>7, <1>11, OnceStep
<1>13. BlockInv'
    BY Zenon, <1>4, <1>5, <1>7, <1>8, BlockStep
<1> QED BY Zenon, <1>9, <1>10, <1>12, <1>13

\* A request that ends holds no guard, or leaves it as it was.
LEMMA LeaveStep ==
    ASSUME DispatchInv, NEW s \in Slot, NEW m \in Envelope, req[s] # Idle, Places(s, m, Idle),
           sender'[m] = "acked" => sender[m] = "acked" \/ Safe(m)',
           req[s].stage \in {"ok", "err", "refused"} \/ "crash" \in hit'[m]
    PROVE  DispatchInv'
<1> USE DEF DispatchInv
<1>1. /\ StepOf(s, m) /\ req'[s] = Idle
      /\ \A t \in Slot : \A stages :
            In(t, m, stages)' <=> IF t = s THEN FALSE ELSE In(t, m, stages)
      /\ OnceOK(m) /\ (Safe(m) => Safe(m)') /\ (Excused(m) => Excused(m)')
      /\ LossCauses(m)' = LossCauses(m) /\ RepeatCauses(m)' = RepeatCauses(m)
    BY Zenon, PlaceFacts
<1>2. /\ UNCHANGED <<kind, dedup, tagged, claimed, mailbox, writes, dropped, blocked, purge>>
      /\ kind[m] \in Kinds /\ req[s].m = m
    BY Zenon DEF Places, DispatchBase, DispatchTypeOK
<1>3. DispatchBase'
  <2>1. FitsKind(s, m)'
      BY Zenon, <1>1 DEF FitsKind
  <2> QED BY Zenon, <2>1, <1>1, <1>2, BaseStep
<1>4. \A stages : In(s, m, stages) <=> req[s].stage \in stages
    BY Zenon, <1>2 DEF In
<1>5. (m \in tagged => Sealed(m)) /\ (m \in claimed => Federated(m))
    BY Zenon DEF DispatchBase, GuardsFit
<1>6. "crash" \in hit'[m] /\ (Sealed(m) \/ Federated(m)) => Safe(m)'
  <2>1. Sealed(m) \/ Federated(m) => "crash" \in LossCauses(m)
      BY Zenon DEF LossCauses, Sealed, Federated
  <2> QED BY Zenon, <2>1, <1>1 DEF Safe
<1>7. LossInv'
  <2>1. req'[s].stage # "ok"
      BY <1>1 DEF Idle
  <2>2. m \in tagged' => Safe(m)' \/ (m \in tagged /\ ~In(s, m, Tagging))
      BY <1>2, <1>4, <1>5, <1>6 DEF Tagging
  <2>3. m \in claimed' => Safe(m)' \/ (m \in claimed /\ ~In(s, m, Claiming))
      BY <1>2, <1>4, <1>5, <1>6 DEF Claiming
  <2> QED BY Zenon, <2>1, <2>2, <2>3, <1>1, LossStep
<1>8. OnceOK(m)'
  <2> SUFFICES ASSUME ~Excused(m)'
      PROVE /\ writes[m] <= 1
            /\ kind[m] = "regular" => RegularOnce(m)'
            /\ kind[m] = "sealed" => HeldOnce(m, tagged, Tagging)'
            /\ Federated(m) => HeldOnce(m, claimed, Claiming)'
      BY Zenon, <1>2 DEF OnceOK, Federated
  <2>1. writes[m] <= 1
      BY Zenon, <1>1 DEF OnceOK
  <2>2. ASSUME kind[m] = "regular" PROVE RegularOnce(m)'
    <3>1. "crash" \notin hit'[m]
        BY Zenon, <1>1, <1>2, <2>2 DEF Excused, RepeatCauses, Federated
    <3>2. RegularOnce(m) /\ ~In(s, m, {"mark"})
        BY <1>1, <1>4, <2>2, <3>1 DEF OnceOK
    <3> QED BY Zenon, <1>1, <1>2, <3>2 DEF RegularOnce
  <2>3. ASSUME kind[m] = "sealed" PROVE HeldOnce(m, tagged, Tagging)'
    <3>1. HeldOnce(m, tagged, Tagging)
        BY Zenon, <1>1, <2>3 DEF OnceOK
    <3> QED BY ZenonT(60), <1>1, <1>2, <3>1 DEF HeldOnce, Tagging
  <2>4. ASSUME Federated(m) PROVE HeldOnce(m, claimed, Claiming)'
    <3>1. HeldOnce(m, claimed, Claiming)
        BY Zenon, <1>1, <2>4 DEF OnceOK
    <3> QED BY Zenon, <1>1, <1>2, <3>1 DEF HeldOnce, Claiming
  <2> QED BY Zenon, <2>1, <2>2, <2>3, <2>4
<1>9. OnceInv'
    BY Zenon, <1>1, <1>8, OnceStep
<1>10. BlockInv'
    BY Zenon, <1>1, <1>2, BlockStep
<1> QED BY Zenon, <1>3, <1>7, <1>9, <1>10

\* The answer is heard, or is lost.
LEMMA AnswerStep ==
    ASSUME DispatchInv, NEW s \in Slot, Answer(s)
    PROVE  DispatchInv'
<1>1. req[s] # Idle /\ req[s].stage \in {"ok", "err", "refused"}
    BY DEF Answer, Idle
<1>2. PICK m : m = req[s].m
    BY Zenon
<1>3. m \in Envelope /\ sender \in [Envelope -> {"trying", "acked", "refused"}]
    BY Zenon, <1>1, <1>2 DEF DispatchInv, DispatchBase, DispatchTypeOK
<1>4. PICK a \in {"trying", "acked", "refused"} :
         /\ a = "acked" => At(s, "ok")
         /\ sender' = sender \/ sender' = [sender EXCEPT ![m] = a]
    BY Zenon, <1>1, <1>2 DEF Answer, At
<1>5. Places(s, m, Idle)
    BY Zenon, <1>2, <1>4 DEF Answer, Places, guardVars, boxVars, blockVars
<1>6. Safe(m) => Safe(m)'
    BY Zenon, <1>3, <1>5, PlaceFacts
<1>7. sender'[m] = "acked" => sender[m] = "acked" \/ Safe(m)'
    BY Zenon, <1>2, <1>3, <1>4, <1>6 DEF DispatchInv, LossInv
<1> QED BY Zenon, <1>1, <1>3, <1>5, <1>7, LeaveStep

\* A request stops where it is.
LEMMA StopStep ==
    ASSUME DispatchInv, NEW s \in Slot, Stop(s)
    PROVE  DispatchInv'
<1>1. PICK m : m = req[s].m
    BY Zenon
<1>2. req[s] # Idle /\ m \in Envelope
    BY Zenon, <1>1 DEF Stop, DispatchInv, DispatchBase, DispatchTypeOK
<1>3. Places(s, m, Idle) /\ sender' = sender
    BY Zenon, <1>1 DEF Stop, Places, guardVars, boxVars, blockVars, FaultKinds
<1>4. "crash" \in hit'[m]
    BY Zenon, <1>1, <1>2, Met DEF Stop, FaultKinds
<1> QED BY Zenon, <1>2, <1>3, <1>4, LeaveStep

-----------------------------------------------------------------------------
\* BlockUser, UnblockUser and the purge leave the guards and the writes alone.
LEMMA SideStep ==
    ASSUME DispatchInv, DispatchTypeOK',
           UNCHANGED <<kind, sender, dedup, tagged, claimed, writes, dropped, hit>>,
           \A s \in Slot : /\ req[s] = Idle <=> req'[s] = Idle
                           /\ req[s] # Idle => req'[s].stage = req[s].stage /\ req'[s].m = req[s].m
    PROVE  DispatchBase' /\ LossInv' /\ OnceInv'
<1> USE DEF DispatchInv
<1>1. \A s \in Slot : \A m, stages : In(s, m, stages)' <=> In(s, m, stages)
    BY Zenon DEF In
<1>2. \A m \in Envelope : /\ Safe(m)' <=> Safe(m)
                          /\ Excused(m)' <=> Excused(m)
                          /\ Sealed(m)' <=> Sealed(m)
                          /\ Federated(m)' <=> Federated(m)
    BY Zenon DEF Safe, Accounted, LossCauses, Excused, RepeatCauses, Sealed, Federated
<1>3. DispatchBase'
  <2>1. StagesFit'
      BY Zenon DEF DispatchBase, StagesFit, Sealed, Federated
  <2>2. GuardsFit' /\ OneAtATime'
      BY DEF DispatchBase, GuardsFit, OneAtATime, Sealed, Federated
  <2> QED BY Zenon, <2>1, <2>2 DEF DispatchBase
<1>4. LossInv'
  <2>1. ASSUME NEW s \in Slot, req'[s].stage = "ok" PROVE Safe(req[s].m)'
    <3>1. req[s] # Idle /\ req[s].stage = "ok" /\ req'[s].m = req[s].m
        BY <2>1 DEF Idle
    <3>2. PICK m : m = req[s].m
        BY Zenon
    <3>3. Safe(m) /\ m \in Envelope
        BY Zenon, <3>1, <3>2 DEF LossInv, At, DispatchBase, DispatchTypeOK
    <3> QED BY Zenon, <3>1, <3>2, <3>3, <1>2 DEF Safe, Accounted, LossCauses, Federated
  <2>2. \A m \in Envelope : sender'[m] = "acked" => Safe(m)'
      BY Zenon, <1>2 DEF LossInv
  <2>3. \A m \in tagged' : Safe(m)' \/ \E s \in Slot : In(s, m, Tagging)'
      BY Zenon, <1>1, <1>2 DEF LossInv, DispatchBase, DispatchTypeOK
  <2>4. \A m \in claimed' : Safe(m)' \/ \E s \in Slot : In(s, m, Claiming)'
      BY Zenon, <1>1, <1>2 DEF LossInv, DispatchBase, DispatchTypeOK
  <2> QED BY Zenon, <2>1, <2>2, <2>3, <2>4 DEF LossInv, At, Tagging, Claiming
<1>5. OnceInv'
  <2> SUFFICES ASSUME NEW m \in Envelope PROVE OnceOK(m)'
      BY Zenon DEF OnceInv
  <2>1. OnceOK(m)
      BY Zenon DEF OnceInv
  <2>2. RegularOnce(m) => RegularOnce(m)'
      BY Zenon, <1>1 DEF RegularOnce
  <2>3. HeldOnce(m, tagged, Tagging) => HeldOnce(m, tagged, Tagging)'
      BY Zenon, <1>1 DEF HeldOnce, Tagging
  <2>4. HeldOnce(m, claimed, Claiming) => HeldOnce(m, claimed, Claiming)'
      BY Zenon, <1>1 DEF HeldOnce, Claiming
  <2> QED BY Zenon, <2>1, <2>2, <2>3, <2>4, <1>2 DEF OnceOK
<1> QED BY Zenon, <1>3, <1>4, <1>5

\* The recipient blocks the sender, the purge runs, the block is lifted.
LEMMA BlockActionStep ==
    ASSUME DispatchInv, Block
    PROVE  DispatchInv'
<1> USE DEF DispatchInv
<1>0. DispatchTypeOK
    BY Zenon DEF DispatchBase
<1>1. CASE BlockUser
  <2>1. UNCHANGED <<kind, req, sender, dedup, tagged, claimed, mailbox, writes, dropped, hit>>
        /\ blocked' = TRUE /\ purge' = [stage |-> "scan"]
      BY Zenon, <1>1 DEF BlockUser, guardVars, boxVars
  <2>2. DispatchTypeOK'
      BY Zenon, <1>0, <2>1 DEF DispatchTypeOK
  <2>3. BlockInv'
      BY Zenon, <2>1 DEF BlockInv, At, Sealed
  <2> QED BY Zenon, <2>1, <2>2, <2>3, SideStep
<1>2. CASE PurgeScan
  <2>1. UNCHANGED <<kind, req, sender, dedup, tagged, claimed, mailbox, writes, dropped, blocked, hit>>
        /\ purge' = [stage |-> "delete", found |-> {c \in mailbox : ~Sealed(c.m)}]
      BY Zenon, <1>2 DEF PurgeScan, guardVars, boxVars
  <2>2. DispatchTypeOK'
      BY Zenon, <1>0, <2>1 DEF DispatchTypeOK
  <2>3. BlockInv'
      BY Zenon, <2>1 DEF BlockInv, At, Sealed
  <2> QED BY Zenon, <2>1, <2>2, <2>3, SideStep
<1>3. CASE PurgeDelete
  <2>1. UNCHANGED <<kind, req, sender, dedup, tagged, claimed, writes, dropped, blocked, hit>>
        /\ mailbox' = mailbox \ purge.found /\ purge' = [stage |-> "done"] /\ purge.stage = "delete"
      BY Zenon, <1>3 DEF PurgeDelete, guardVars
  <2>2. DispatchTypeOK'
      BY Zenon, <1>0, <2>1 DEF DispatchTypeOK
  <2>3. BlockInv'
      BY Zenon, <2>1 DEF BlockInv, At, Sealed
  <2> QED BY Zenon, <2>1, <2>2, <2>3, SideStep
<1>4. CASE UnblockUser
  <2>1. UNCHANGED <<kind, sender, dedup, tagged, claimed, mailbox, writes, dropped, purge, hit>>
        /\ blocked' = FALSE
        /\ req' = [s \in Slot |-> IF req[s] = Idle THEN Idle ELSE [req[s] EXCEPT !.late = FALSE]]
      BY Zenon, <1>4 DEF UnblockUser, guardVars, boxVars
  <2>2. \A s \in Slot : req[s] # Idle => req[s] \in Requests
      BY Zenon, <1>0 DEF DispatchTypeOK, Requests
  <2>3. ASSUME NEW s \in Slot, req[s] # Idle
        PROVE /\ req'[s] \in Requests /\ req'[s] # Idle
              /\ req'[s].stage = req[s].stage /\ req'[s].m = req[s].m /\ req'[s].late = FALSE
    <3>1. req'[s] = [req[s] EXCEPT !.late = FALSE]
        BY Zenon, <2>1, <2>3
    <3>2. req'[s] \in Requests /\ req'[s].stage = req[s].stage /\ req'[s].m = req[s].m /\ req'[s].late = FALSE
        BY Zenon, <3>1, <2>2, <2>3 DEF Requests
    <3> QED BY <3>2 DEF Idle, Requests, Stages
  <2>4. \A s \in Slot : req[s] = Idle => req'[s] = Idle
      BY Zenon, <2>1
  <2>5. req' \in [Slot -> {Idle} \cup Requests]
      BY Zenon, <2>1, <2>3, <2>4
  <2>6. DispatchTypeOK'
      BY Zenon, <1>0, <2>1, <2>5 DEF DispatchTypeOK, Requests
  <2>7. BlockInv'
      BY Zenon, <2>1, <2>3, <2>4 DEF BlockInv, At, Sealed
  <2>8. DispatchBase' /\ LossInv' /\ OnceInv'
      BY Zenon, <2>1, <2>3, <2>4, <2>6, SideStep
  <2> QED BY Zenon, <2>7, <2>8
<1> QED BY Zenon, <1>1, <1>2, <1>3, <1>4 DEF Block

\* The invariant holds before any request.
LEMMA DispatchInitially == DispatchInit => DispatchInv
<1> SUFFICES ASSUME DispatchInit PROVE DispatchInv
    BY Zenon
<1> USE DEF DispatchInit
<1>1. DispatchTypeOK
  <2>1. /\ req \in [Slot -> {Idle} \cup [stage : Stages, m : Envelope, late : BOOLEAN]]
        /\ sender \in [Envelope -> {"trying", "acked", "refused"}]
        /\ writes \in [Envelope -> 0..2] /\ hit \in [Envelope -> SUBSET FaultKinds]
      OBVIOUS
  <2>2. purge \in [stage : {"off", "scan", "done"}]
      BY Zenon DEF NoPurge
  <2> QED BY Zenon, <2>1, <2>2 DEF DispatchTypeOK
<1>2. StagesFit /\ GuardsFit /\ OneAtATime
    BY Zenon DEF StagesFit, GuardsFit, OneAtATime
<1>3. LossInv
    BY Zenon DEF LossInv, At, Idle
<1>4. \A s \in Slot : \A m, stages : ~In(s, m, stages)
    BY Zenon DEF In
<1>5. OnceInv
    BY <1>4 DEF OnceInv, OnceOK, RegularOnce, HeldOnce
<1>6. BlockInv
    BY Zenon DEF BlockInv, NoPurge
<1> QED BY Zenon, <1>1, <1>2, <1>3, <1>5, <1>6 DEF DispatchInv, DispatchBase

\* Every step keeps the invariant.
LEMMA DispatchStep == DispatchInv /\ [DispatchNext]_dispatchVars => DispatchInv'
<1> SUFFICES ASSUME DispatchInv, [DispatchNext]_dispatchVars PROVE DispatchInv'
    BY Zenon
<1>1. CASE UNCHANGED dispatchVars
  <2>1. UNCHANGED <<kind, req, sender, dedup, tagged, claimed, mailbox, writes, dropped, blocked, purge, hit>>
      BY Zenon, <1>1 DEF dispatchVars, guardVars, boxVars, blockVars
  <2>2. DispatchTypeOK' /\ BlockInv'
      BY Zenon, <2>1 DEF DispatchInv, DispatchBase, DispatchTypeOK, BlockInv, At, Sealed
  <2> QED BY Zenon, <2>1, <2>2, SideStep DEF DispatchInv
<1>2. ASSUME NEW s \in Slot, Request(s) PROVE DispatchInv'
    BY Zenon, <1>2, SendStep, EarlyDedupStep, EarlyBlockStep, LimitsStep, TokenStep, InboundStep, ClaimStep,
       TagStep, DedupCheckStep, BlockCheckStep, WriteBoxStep, MarkStep, UnmarkStep, ReleaseStep,
       AnswerStep, StopStep DEF Request
<1>3. CASE Block
    BY Zenon, <1>3, BlockActionStep
<1> QED BY Zenon, <1>1, <1>2, <1>3 DEF DispatchNext

\* Hence it holds throughout.
LEMMA DispatchAlways == DispatchSpec => []DispatchInv
BY DispatchInitially, DispatchStep, PTL DEF DispatchSpec

\* dispatch_envelope and its doors: an Ok means the envelope was written to the
\* mailbox, or dropped by a block, unless it met a fault its guard is exposed to -
\* whatever the number of envelopes, of requests at a time, of repeats and of faults.
THEOREM AcknowledgedIsWritten == DispatchSpec => []AnsweredIsWritten
<1>1. DispatchInv => AnsweredIsWritten
    BY Zenon DEF DispatchInv, LossInv, AnsweredIsWritten, Safe
<1> QED BY <1>1, DispatchAlways, PTL

\* The dedup key, the delivery tag and the federation claim: an envelope is written
\* once, unless it met a fault its guard is exposed to.
THEOREM RepeatsWriteOnce == DispatchSpec => []WrittenOnce
<1>1. DispatchInv => WrittenOnce
    BY Zenon DEF DispatchInv, OnceInv, OnceOK, WrittenOnce, Excused
<1> QED BY <1>1, DispatchAlways, PTL

\* BlockUser and its purge: what is left of a blocked sender was in flight across the
\* block, or got past a lookup that failed.
THEOREM BlocksHold == DispatchSpec => []BlockHolds
<1>1. DispatchInv => BlockHolds
    BY Zenon DEF DispatchInv, BlockInv, BlockHolds
<1> QED BY <1>1, DispatchAlways, PTL

=============================================================================
