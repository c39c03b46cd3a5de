--------------------------- MODULE GuidanceProofs ---------------------------
(***************************************************************************)
(* Proofs about AgentStore for all values of its constants: what becomes of *)
(* the guidance a parent sends to a running agent.                          *)
(*                                                                          *)
(* The invariant GuidanceInv ties the queue to the agents, leases to the    *)
(* generations handed out, and what a pump holds to the queue.  Most steps  *)
(* are quiet: they change rows in ways that leave all of it true.           *)
(***************************************************************************)
EXTENDS AgentStoreProofs

-----------------------------------------------------------------------------
(* The inductive invariant.                                                *)

Stopped == {"canceling", "canceled"}

MessageOK(m) ==
    /\ m.gen = agents[m.agent].gen
    /\ agents[m.agent].status \notin Stopped
    /\ agents[m.agent].conv # NoConversation

(* No lease is ahead of its agent, unless the agent is gone.               *)
LeaseOK(l) ==
    agents[l.agent].status # "deleted" => l.gen <= agents[l.agent].gen

(* The row of the queue that a delivery stands for.                        *)
RowOf(d) == [id |-> d.id, agent |-> d.lease.agent, gen |-> d.lease.gen,
             text |-> d.text]

(* The holder's claim is neither over nor being canceled.                  *)
Holding(l) ==
    /\ agents[l.agent].status \in Active
    /\ agents[l.agent].gen = l.gen
    /\ agents[l.agent].runtime = l.runtime

DeliveryOK(d) ==
    /\ d.lease \in leases
    /\ Holding(d.lease) => RowOf(d) \in steering

IdsAreUnique == \A m, n \in steering : m.id = n.id => m = n

OneDeliveryEach == \A d, e \in inflight : d.lease = e.lease => d = e

GuidanceInv ==
    /\ \A m \in steering : MessageOK(m)
    /\ \A l \in leases : LeaseOK(l)
    /\ \A d \in inflight : DeliveryOK(d)
    /\ IdsAreUnique
    /\ OneDeliveryEach

(* What GuidanceIsNotLost says of one step.                                *)
NotLost ==
    \A m \in steering :
        \/ Kept(m)
        \/ Acknowledged(m)
        \/ agents'[m.agent].status \in {"canceling", "canceled"}

-----------------------------------------------------------------------------
(* Quiet rows.                                                             *)

(* A row continues, is not canceled, and does not appear or disappear.     *)
Quiet(a) ==
    /\ Continues(a)
    /\ agents'[a].status \in Stopped => SettledAgents[a].status \in Stopped
    /\ agents'[a].status \in Absent => SettledAgents[a].status \in Absent
    /\ SettledAgents[a].status \in Absent => agents'[a] = SettledAgents[a]

LEMMA UntouchedQuiet ==
    ASSUME NEW a \in Agents, agents'[a] = SettledAgents[a]
    PROVE  Quiet(a)
BY UntouchedContinues DEF Quiet

LEMMA AbsentSettled ==
    ASSUME Inv, NEW a \in Agents, agents[a].status \in Absent
    PROVE  SettledAgents[a] = agents[a]
BY DEF SettledAgents, Expired, Claimed, Absent

(* A step that is quiet about an agent keeps what was said of each of its  *)
(* messages, of its leases and of the claims that are held.                *)
LEMMA QuietMessage ==
    ASSUME Inv, NEW m \in steering, MessageOK(m), Quiet(m.agent)
    PROVE  MessageOK(m)' /\ agents'[m.agent].gen = m.gen
<1> DEFINE a == m.agent
           row == SettledAgents[a]
           new == agents'[a]
<1>1. a \in Agents /\ m.gen \in Generations
  BY DEF Inv, TypeOK, SteeringRow
<1>2. /\ row.gen = m.gen /\ row.conv # NoConversation
      /\ row.status \notin Stopped
  BY <1>1, SettledKeeps DEF MessageOK, Stopped
<1>3. row.status \notin Absent
  <2>1. m.gen # 0
    BY <1>1 DEF Generations
  <2>2. agents[a].status \notin Absent
    BY <1>1, <2>1 DEF MessageOK, Inv, TablesAgree, RowAgrees
  <2>3. QED
    BY <1>1, <2>2, SettledKeeps
<1>4. new.status \notin Absent /\ new.status \notin Stopped
  BY <1>2, <1>3 DEF Quiet
<1>5. new.gen = row.gen /\ new.conv = row.conv
  BY <1>2, <1>4 DEF Quiet, Continues, Absent
<1>6. QED
  BY <1>2, <1>4, <1>5 DEF MessageOK

LEMMA QuietLease ==
    ASSUME Inv, NEW l \in leases, LeaseOK(l), Quiet(l.agent)
    PROVE  LeaseOK(l)'
<1> DEFINE a == l.agent
<1>1. a \in Agents
  BY DEF Inv, TypeOK, Lease
<1>2. CASE agents[a].status \in Absent
  BY <1>1, <1>2, AbsentSettled DEF Quiet, LeaseOK
<1>3. CASE agents[a].status \notin Absent
  <2>1. SettledAgents[a].gen = agents[a].gen
    BY <1>1, SettledKeeps
  <2>2. agents'[a].gen = agents[a].gen \/ agents'[a].status = "deleted"
    BY <2>1 DEF Quiet, Continues
  <2>3. agents[a].status # "deleted"
    BY <1>3 DEF Absent
  <2>4. QED
    BY <2>2, <2>3 DEF LeaseOK
<1>4. QED
  BY <1>2, <1>3

LEMMA ContinuesHolding ==
    ASSUME Inv, NEW l \in leases, Continues(l.agent), Holding(l)'
    PROVE  Holding(l)
<1> DEFINE a == l.agent
           row == SettledAgents[a]
           new == agents'[a]
<1>1. a \in Agents
  BY DEF Inv, TypeOK, Lease
<1>2. new.status \in Active /\ new.gen = l.gen /\ new.runtime = l.runtime
  BY DEF Holding
<1>3. row.status \in Active /\ new.runtime = row.runtime /\ new.gen = row.gen
  BY <1>2 DEF Continues, Active, Claimed
<1>4. row = agents[a]
  BY <1>1, <1>3, SettledKeeps DEF Active, Claimed
<1>5. QED
  BY <1>2, <1>3, <1>4 DEF Holding

(* A step that is quiet about all agents and leaves the rest alone.        *)
LEMMA QuietStep ==
    ASSUME Inv, GuidanceInv, \A b \in Agents : Quiet(b),
           UNCHANGED <<steering, leases, inflight>>
    PROVE  GuidanceInv' /\ NotLost
<1>1. /\ \A m \in steering : m.agent \in Agents
      /\ \A l \in leases : l.agent \in Agents
  BY DEF Inv, TypeOK, SteeringRow, Lease
<1>2. \A m \in steering : MessageOK(m)' /\ agents'[m.agent].gen = m.gen
  BY <1>1, QuietMessage DEF GuidanceInv
<1>3. \A l \in leases : LeaseOK(l)'
  BY <1>1, QuietLease DEF GuidanceInv
<1>4. \A d \in inflight : DeliveryOK(d)'
  <2>1. SUFFICES ASSUME NEW d \in inflight, Holding(d.lease)'
                 PROVE  d.lease \in leases /\ RowOf(d) \in steering
    BY DEF GuidanceInv, DeliveryOK, RowOf
  <2>2. d.lease \in leases /\ Continues(d.lease.agent)
    BY <1>1 DEF GuidanceInv, DeliveryOK, Quiet
  <2>3. Holding(d.lease)
    BY <2>1, <2>2, ContinuesHolding
  <2>4. QED
    BY <2>2, <2>3 DEF GuidanceInv, DeliveryOK
<1>5. NotLost
  BY <1>2 DEF NotLost, Kept
<1>6. QED
  BY <1>2, <1>3, <1>4, <1>5 DEF GuidanceInv, IdsAreUnique, OneDeliveryEach

(* An action that writes one agent's row is quiet if it is so about it.    *)
LEMMA OneQuiet ==
    ASSUME Inv, NEW a \in Agents, NEW new,
           agents' = [SettledAgents EXCEPT ![a] = new],
           \A b \in Agents : Continues(b),
           SettledAgents[a].status \notin Absent,
           new.status \notin Absent,
           new.status \in Stopped => SettledAgents[a].status \in Stopped
    PROVE  \A b \in Agents : Quiet(b)
<1>1. ASSUME NEW b \in Agents, b # a
      PROVE  Quiet(b)
  <2>1. agents'[b] = SettledAgents[b]
    BY <1>1 DEF SettledAgents
  <2>2. QED
    BY <2>1, UntouchedQuiet
<1>2. agents'[a] = new
  BY SettledType DEF Inv
<1>3. Quiet(a)
  BY <1>2 DEF Quiet
<1>4. QED
  BY <1>1, <1>3

(* What a worker writes, other than to withdraw its agent.                 *)
QuietWorkerStep(l) ==
    \/ \E conv \in Conversations :
          \/ AttachConversation(l, conv)
          \/ AttachCancelingConversation(l, conv)
          \/ MarkRunning(l, conv)
    \/ \E status \in DOMAIN RunStatusOf, report \in Reports,
          conv \in Conversations \cup {NoConversation} :
          Terminal(l, status, conv, report)
    \/ Heartbeat(l)
    \/ HeartbeatCanceling(l)
    \/ CompleteCancel(l)

LEMMA AttachQuiet ==
    ASSUME Inv, NEW l \in leases, NEW conv \in Conversations,
           AttachConversation(l, conv) \/ AttachCancelingConversation(l, conv)
    PROVE  \A b \in Agents : Quiet(b)
<1> DEFINE a == l.agent
           row == SettledAgents[a]
           new == WithConversation(row, conv)
<1>1. /\ LeaseOwned(l)
      /\ agents' = [SettledAgents EXCEPT ![a] = new]
  BY DEF AttachConversation, AttachCancelingConversation, Attach,
         ActiveLease, CancelingLease, PutAgent
<1>2. a \in Agents /\ row \in AgentRow /\ row.status \in Claimed
  BY <1>1, OwnedFacts DEF Lease
<1>3. new.status = row.status
  BY <1>2, WithConversationRow
<1> HIDE DEF new
<1>4. row.status \notin Absent
  BY <1>2 DEF Claimed, Absent
<1>5. QED
  BY <1>1, <1>2, <1>3, <1>4, AttachContinues, OneQuiet

LEMMA MarkRunningQuiet ==
    ASSUME Inv, NEW l \in leases, NEW conv \in Conversations,
           MarkRunning(l, conv)
    PROVE  \A b \in Agents : Quiet(b)
<1> DEFINE a == l.agent
           row == SettledAgents[a]
           new == Running(row, conv)
<1>1. /\ ActiveLease(l)
      /\ agents' = [SettledAgents EXCEPT ![a] = new]
  BY DEF MarkRunning, PutAgent
<1>2. /\ a \in Agents /\ row \in AgentRow /\ row.status \in Claimed
  BY <1>1, ActiveFacts, OwnedFacts DEF Lease
<1>3. new.status = "running"
  BY <1>2, RunningRow
<1> HIDE DEF new
<1>4. /\ row.status \notin Absent
      /\ new.status \notin Absent /\ new.status \notin Stopped
  BY <1>2, <1>3 DEF Claimed, Absent, Stopped
<1>5. QED
  BY <1>1, <1>2, <1>4, MarkRunningContinues, OneQuiet

LEMMA TerminalQuiet ==
    ASSUME Inv, NEW l \in leases, NEW status \in DOMAIN RunStatusOf,
           NEW conv \in Conversations \cup {NoConversation},
           NEW report \in Reports, Terminal(l, status, conv, report)
    PROVE  \A b \in Agents : Quiet(b)
<1> DEFINE a == l.agent
           row == SettledAgents[a]
           resolved == IF conv = NoConversation THEN row.conv ELSE conv
           new == WithConversation(Released(row, status), resolved)
<1>1. /\ ActiveLease(l)
      /\ agents' = [SettledAgents EXCEPT ![a] = new]
  BY DEF Terminal, PutAgent
<1>2. a \in Agents /\ row \in AgentRow /\ row.status \in Claimed
  BY <1>1, ActiveFacts, OwnedFacts DEF Lease
<1>3. status \in {"idle", "failed", "interrupted"}
  BY DEF RunStatusOf
<1>4. /\ resolved \in Conversations \cup {NoConversation}
      /\ status \in Claimable
  BY <1>2, <1>3 DEF AgentRow, Claimable
<1>5. new.status = status
  BY <1>2, <1>4, ReleasedRow, WithConversationRow
<1> HIDE DEF new
<1>6. /\ row.status \notin Absent
      /\ new.status \notin Absent /\ new.status \notin Stopped
  BY <1>2, <1>3, <1>5 DEF Claimed, Absent, Stopped
<1>7. QED
  BY <1>1, <1>2, <1>6, TerminalContinues, OneQuiet

LEMMA RenewQuiet ==
    ASSUME Inv, NEW l \in leases, Heartbeat(l) \/ HeartbeatCanceling(l)
    PROVE  \A b \in Agents : Quiet(b)
<1> DEFINE a == l.agent
           row == SettledAgents[a]
           new == Leased(row, l.runtime)
<1>1. /\ LeaseOwned(l)
      /\ agents' = [SettledAgents EXCEPT ![a] = new]
  BY DEF Heartbeat, HeartbeatCanceling, RenewLease, ActiveLease,
         CancelingLease, PutAgent
<1>2. /\ a \in Agents /\ row \in AgentRow /\ row.status \in Claimed
      /\ l.runtime \in Runtimes \cup {NoRuntime}
  BY <1>1, OwnedFacts DEF Lease
<1>3. new.status = row.status
  BY <1>2, LeasedRow DEF Inv
<1> HIDE DEF new
<1>4. row.status \notin Absent
  BY <1>2 DEF Claimed, Absent
<1>5. QED
  BY <1>1, <1>2, <1>3, <1>4, RenewContinues, OneQuiet

LEMMA CompleteCancelQuiet ==
    ASSUME Inv, NEW l \in leases, CompleteCancel(l)
    PROVE  \A b \in Agents : Quiet(b)
<1> DEFINE a == l.agent
           row == SettledAgents[a]
           new == Released(row, "canceled")
<1>1. /\ CancelingLease(l) /\ LeaseOwned(l) /\ row.status = "canceling"
      /\ agents' = [SettledAgents EXCEPT ![a] = new]
  BY DEF CompleteCancel, CancelingLease, CanceledRow, PutAgent
<1>2. a \in Agents /\ row \in AgentRow
  BY <1>1, OwnedFacts DEF Lease
<1>3. new.status = "canceled"
  BY <1>2, ReleasedRow DEF Claimable
<1> HIDE DEF new
<1>4. /\ row.status \notin Absent /\ row.status \in Stopped
      /\ new.status \notin Absent
  BY <1>1, <1>3 DEF Absent, Stopped
<1>5. QED
  BY <1>1, <1>2, <1>4, CompleteCancelContinues, OneQuiet

LEMMA InterruptRuntimeQuiet ==
    ASSUME Inv, NEW r \in Runtimes, NEW report \in Reports,
           InterruptRuntime(r, report)
    PROVE  \A b \in Agents : Quiet(b)
<1>1. SUFFICES ASSUME NEW b \in Agents PROVE Quiet(b)
  OBVIOUS
<1>2. SettledAgents[b] \in AgentRow /\ Continues(b)
  BY SettledKeeps, InterruptRuntimeContinues
<1>3. \/ agents'[b] = SettledAgents[b]
      \/ /\ SettledAgents[b].status \in Active
         /\ agents'[b] = Released(SettledAgents[b], "interrupted")
  BY DEF InterruptRuntime
<1>4. CASE /\ SettledAgents[b].status \in Active
           /\ agents'[b] = Released(SettledAgents[b], "interrupted")
  <2>1. agents'[b].status = "interrupted"
    BY <1>2, <1>4, ReleasedRow DEF Claimable
  <2>2. QED
    BY <1>2, <1>4, <2>1 DEF Quiet, Active, Absent, Stopped
<1>5. QED
  BY <1>3, <1>4, UntouchedQuiet

(* None of these touches the queue.                                        *)
LEMMA QuietWorkerGuidance ==
    ASSUME Inv, GuidanceInv, NEW l \in leases, QuietWorkerStep(l)
    PROVE  GuidanceInv' /\ NotLost
<1>1. \A b \in Agents : Quiet(b)
  BY AttachQuiet, MarkRunningQuiet, TerminalQuiet, RenewQuiet,
     CompleteCancelQuiet DEF QuietWorkerStep
<1>2. UNCHANGED <<steering, leases, inflight>>
  BY DEF QuietWorkerStep, AttachConversation, AttachCancelingConversation,
         Attach, MarkRunning, Terminal, Heartbeat, HeartbeatCanceling,
         RenewLease, CompleteCancel
<1>3. QED
  BY <1>1, <1>2, QuietStep

LEMMA QuietOtherGuidance ==
    ASSUME Inv, GuidanceInv,
           \/ Reconcile
           \/ \E r \in Runtimes, report \in Reports :
                 InterruptRuntime(r, report)
    PROVE  GuidanceInv' /\ NotLost
<1>1. CASE Reconcile
  BY <1>1, UntouchedQuiet, QuietStep DEF Reconcile, KeepAgents
<1>2. ASSUME NEW r \in Runtimes, NEW report \in Reports,
             InterruptRuntime(r, report)
      PROVE  GuidanceInv' /\ NotLost
  BY <1>2, InterruptRuntimeQuiet, QuietStep DEF InterruptRuntime
<1>3. QED
  BY <1>1, <1>2

-----------------------------------------------------------------------------
(* Cancellation and withdrawal: the agent's whole queue goes.              *)

LEMMA QueueIsAll ==
    ASSUME Inv, GuidanceInv, NEW a \in Agents
    PROVE  steering \ Queue(a, SettledAgents[a].gen)
             = {m \in steering : m.agent # a}
BY SettledKeeps DEF GuidanceInv, MessageOK, Queue

LEMMA StoppingStep ==
    ASSUME Inv, GuidanceInv, NEW a \in Agents, NEW new,
           agents' = [SettledAgents EXCEPT ![a] = new],
           \A b \in Agents : Continues(b),
           agents[a].status \notin Absent,
           new.status \notin Active,
           steering' = {m \in steering : m.agent # a},
           UNCHANGED <<leases, inflight>>,
           new.status \in Stopped \/ \A m \in steering : m.agent # a
    PROVE  GuidanceInv' /\ NotLost
<1>1. /\ \A m \in steering : m.agent \in Agents
      /\ \A l \in leases : l.agent \in Agents
  BY DEF Inv, TypeOK, SteeringRow, Lease
<1>2. agents'[a] = new
  BY SettledType DEF Inv
<1>3. \A b \in Agents : b # a => Quiet(b)
  <2>1. \A b \in Agents : b # a => agents'[b] = SettledAgents[b]
    BY DEF SettledAgents
  <2>2. QED
    BY <2>1, UntouchedQuiet
<1>4. \A m \in steering' :
        /\ m \in steering /\ MessageOK(m)' /\ agents'[m.agent].gen = m.gen
  BY <1>1, <1>3, QuietMessage DEF GuidanceInv
<1>5. ASSUME NEW l \in leases PROVE LeaseOK(l)'
  <2>1. l.agent \in Agents /\ LeaseOK(l)
    BY <1>1 DEF GuidanceInv
  <2>2. CASE l.agent # a
    BY <1>3, <2>1, <2>2, QuietLease
  <2>3. CASE l.agent = a
    <3>1. l.gen <= agents[a].gen
      BY <2>1, <2>3 DEF LeaseOK, Absent
    <3>2. agents'[a].gen = agents[a].gen \/ agents'[a].status = "deleted"
      BY SettledKeeps DEF Continues
    <3>3. QED
      BY <2>3, <3>1, <3>2 DEF LeaseOK
  <2>4. QED
    BY <2>2, <2>3
<1>6. ASSUME NEW d \in inflight PROVE DeliveryOK(d)'
  <2>1. d.lease \in leases /\ DeliveryOK(d)
    BY DEF GuidanceInv, DeliveryOK
  <2>2. SUFFICES ASSUME Holding(d.lease)' PROVE RowOf(d) \in steering'
    BY <2>1 DEF DeliveryOK, RowOf
  <2>3. d.lease.agent # a
    BY <1>2, <2>2 DEF Holding
  <2>4. Holding(d.lease)
    BY <1>1, <2>1, <2>2, ContinuesHolding
  <2>5. RowOf(d) \in steering /\ RowOf(d).agent = d.lease.agent
    BY <2>1, <2>4 DEF DeliveryOK, RowOf
  <2>6. QED
    BY <2>3, <2>5
<1>7. NotLost
  <2>1. SUFFICES ASSUME NEW m \in steering
                 PROVE  Kept(m) \/ agents'[m.agent].status \in Stopped
    BY DEF NotLost, Stopped
  <2>2. CASE m.agent = a
    BY <1>2, <2>2
  <2>3. CASE m.agent # a
    BY <1>4, <2>3 DEF Kept
  <2>4. QED
    BY <2>2, <2>3
<1>8. IdsAreUnique' /\ OneDeliveryEach'
  BY <1>4 DEF GuidanceInv, IdsAreUnique, OneDeliveryEach
<1>9. QED
  BY <1>4, <1>5, <1>6, <1>7, <1>8 DEF GuidanceInv

LEMMA CancelGuidance ==
    ASSUME Inv, GuidanceInv, NEW a \in Agents,
           CancelActive(a) \/ CancelInactive(a)
    PROVE  GuidanceInv' /\ NotLost
<1> DEFINE row == SettledAgents[a]
<1>1. /\ row \in AgentRow /\ row.runtime \in Runtimes \cup {NoRuntime}
      /\ row.status \in Absent <=> agents[a].status \in Absent
  BY SettledKeeps DEF AgentRow
<1>2. \A b \in Agents : Continues(b)
  BY CancelContinues
<1>3. /\ steering' = {m \in steering : m.agent # a}
      /\ UNCHANGED <<leases, inflight>>
  BY QueueIsAll DEF CancelActive, CancelInactive
<1>4. PICK new :
        /\ agents' = [SettledAgents EXCEPT ![a] = new]
        /\ new.status \in Stopped
        /\ row.status \notin Absent
  <2>1. CASE CancelActive(a)
    <3>1. /\ row.status \in Active
          /\ agents' = [SettledAgents EXCEPT
                          ![a] = Leased(Canceling(row), row.runtime)]
      BY <2>1 DEF CancelActive, PutAgent
    <3>2. Leased(Canceling(row), row.runtime).status = "canceling"
      BY <1>1, CancelingRow, LeasedRow DEF Inv
    <3>3. row.status \notin Absent
      BY <3>1 DEF Active, Absent
    <3>4. QED
      BY <3>1, <3>2, <3>3 DEF Stopped
  <2>2. CASE CancelInactive(a)
    <3>1. /\ row.status \in Claimable
          /\ agents' = [SettledAgents EXCEPT ![a] = Released(row, "canceled")]
      BY <2>2 DEF CancelInactive, PutAgent
    <3>2. Released(row, "canceled").status = "canceled"
      BY <1>1, ReleasedRow DEF Claimable
    <3>3. row.status \notin Absent
      BY <3>1 DEF Claimable, Absent
    <3>4. QED
      BY <3>1, <3>2, <3>3 DEF Stopped
  <2>3. QED
    BY <2>1, <2>2
<1>5. new.status \notin Active /\ agents[a].status \notin Absent
  BY <1>1, <1>4 DEF Stopped, Active
<1>6. QED
  BY <1>2, <1>3, <1>4, <1>5, StoppingStep

LEMMA AbortGuidance ==
    ASSUME Inv, GuidanceInv, NEW l \in leases, Abort(l)
    PROVE  GuidanceInv' /\ NotLost
<1> DEFINE a == l.agent
           row == SettledAgents[a]
<1>1. /\ LeaseOwned(l)
      /\ agents' = [SettledAgents EXCEPT ![a] = AbsentRow("deleted")]
      /\ row.conv = NoConversation
      /\ steering' = {m \in steering : m.agent # a}
      /\ UNCHANGED <<leases, inflight>>
  BY DEF Abort, ActiveLease, PutAgent
<1>2. a \in Agents /\ row.status \in Claimed
  BY <1>1, OwnedFacts DEF Lease
<1>3. agents[a].status \notin Absent /\ agents[a].conv = NoConversation
  BY <1>1, <1>2, SettledKeeps DEF Claimed, Absent
<1>4. \A m \in steering : m.agent # a
  BY <1>3 DEF GuidanceInv, MessageOK
<1>5. AbsentRow("deleted").status \notin Active
  BY DEF AbsentRow, Active
<1> HIDE DEF a
<1>6. QED
  BY <1>1, <1>2, <1>3, <1>4, <1>5, AbortContinues, StoppingStep

-----------------------------------------------------------------------------
(* Creation and follow-up.                                                 *)

LEMMA CreateGuidance ==
    ASSUME Inv, GuidanceInv, NEW r \in Runtimes, NEW owner \in Owners,
           NEW a \in Agents, Create(r, owner, a)
    PROVE  GuidanceInv' /\ NotLost
<1>1. /\ \A m \in steering : m.agent \in Agents /\ m.gen \in Generations
      /\ \A l \in leases : l.agent \in Agents /\ l.gen \in Generations
  BY DEF Inv, TypeOK, SteeringRow, Lease
<1>2. /\ agents[a].status = "unused"
      /\ steering' = steering /\ inflight' = inflight
      /\ leases' = leases \cup {[agent |-> a, gen |-> 1, runtime |-> r]}
  BY DEF Create
<1>3. agents[a].gen = 0
  BY <1>2 DEF Inv, TablesAgree, RowAgrees, Absent
<1>4. /\ \A m \in steering : m.agent # a
      /\ \A l \in leases : l.agent # a
  BY <1>1, <1>2, <1>3
  DEF GuidanceInv, MessageOK, LeaseOK, Generations
<1>5. agents'[a].gen = 1
  <2>1. SettledAgents[a].gen = 0
    BY <1>3, SettledKeeps
  <2>2. Claims(a)
    BY CreateClaims
  <2>3. agents'[a].gen = SettledAgents[a].gen + 1
    BY <2>2, Zenon DEF Claims
  <2>4. QED
    BY <2>1, <2>3
<1>6. \A b \in Agents : b # a => Quiet(b)
  BY CreateClaims, UntouchedQuiet
<1>7. \A m \in steering : MessageOK(m)' /\ agents'[m.agent].gen = m.gen
  BY <1>1, <1>4, <1>6, QuietMessage DEF GuidanceInv
<1>8. ASSUME NEW l \in leases' PROVE LeaseOK(l)'
  <2>1. CASE l \in leases
    BY <1>1, <1>4, <1>6, <2>1, QuietLease DEF GuidanceInv
  <2>2. CASE l = [agent |-> a, gen |-> 1, runtime |-> r]
    BY <1>5, <2>2 DEF LeaseOK
  <2>3. QED
    BY <1>2, <2>1, <2>2
<1>9. ASSUME NEW d \in inflight PROVE DeliveryOK(d)'
  <2>1. d.lease \in leases /\ DeliveryOK(d)
    BY DEF GuidanceInv, DeliveryOK
  <2>2. SUFFICES ASSUME Holding(d.lease)' PROVE RowOf(d) \in steering
    BY <1>2, <2>1 DEF DeliveryOK, RowOf
  <2>3. Continues(d.lease.agent)
    BY <1>1, <1>4, <1>6, <2>1 DEF Quiet
  <2>4. Holding(d.lease)
    BY <2>1, <2>2, <2>3, ContinuesHolding
  <2>5. QED
    BY <2>1, <2>4 DEF DeliveryOK
<1>10. NotLost
  BY <1>2, <1>7 DEF NotLost, Kept
<1>11. QED
  BY <1>2, <1>7, <1>8, <1>9, <1>10
  DEF GuidanceInv, IdsAreUnique, OneDeliveryEach

(* What Claim does to one message.                                         *)
Moved(m, a, gen) == IF m.agent = a THEN [m EXCEPT !.gen = gen] ELSE m

LEMMA MovedMessage ==
    ASSUME NEW m \in SteeringRow, NEW a \in Agents, NEW gen \in Generations
    PROVE  /\ Moved(m, a, gen) \in SteeringRow
           /\ Moved(m, a, gen).id = m.id
           /\ Moved(m, a, gen).agent = m.agent
           /\ Moved(m, a, gen).text = m.text
           /\ m.agent = a => Moved(m, a, gen).gen = gen
           /\ m.agent # a => Moved(m, a, gen) = m
BY DEF Moved, SteeringRow

LEMMA ClaimGuidance ==
    ASSUME Inv, GuidanceInv, NEW r \in Runtimes, NEW a \in Agents,
           Claim(r, a)
    PROVE  GuidanceInv' /\ NotLost
<1> DEFINE row == SettledAgents[a]
<1>0. PICK gen : gen = row.gen + 1
  OBVIOUS
<1> DEFINE lease == [agent |-> a, gen |-> gen, runtime |-> r]
<1>1. /\ \A m \in steering : m \in SteeringRow /\ m.agent \in Agents
      /\ \A l \in leases : l.agent \in Agents /\ l.gen \in Generations
  BY DEF Inv, TypeOK, SteeringRow, Lease
<1>2. /\ row.status \in Claimable /\ gen \in Generations
      /\ steering' = {Moved(m, a, gen) : m \in steering}
      /\ leases' = leases \cup {lease} /\ inflight' = inflight
  BY <1>0 DEF Claim, Rehomed, Moved
<1>3. row.gen = agents[a].gen /\ row.gen \in Nat /\ row.conv = agents[a].conv
      /\ agents[a].status \notin Absent
  BY <1>2, SettledKeeps DEF AgentRow, Claimable, Absent
<1>4. /\ agents'[a].status = "starting" /\ agents'[a].gen = gen
      /\ agents'[a].conv = agents[a].conv
  BY <1>0, <1>3, ClaimClaims DEF Claims
<1>5. \A b \in Agents : b # a => Quiet(b)
  BY ClaimClaims, UntouchedQuiet
<1>6. ASSUME NEW m \in steering
      PROVE  /\ MessageOK(Moved(m, a, gen))'
             /\ Moved(m, a, gen).gen = agents'[m.agent].gen
  <2>1. MessageOK(m)
    BY DEF GuidanceInv
  <2>2. CASE m.agent = a
    BY <1>1, <1>2, <1>4, <2>1, <2>2, MovedMessage DEF MessageOK, Stopped
  <2>3. CASE m.agent # a
    BY <1>1, <1>2, <1>5, <2>1, <2>3, MovedMessage, QuietMessage
  <2>4. QED
    BY <2>2, <2>3
<1>7. ASSUME NEW l \in leases' PROVE LeaseOK(l)'
  <2>1. CASE l \in leases /\ l.agent # a
    BY <1>1, <1>5, <2>1, QuietLease DEF GuidanceInv
  <2>2. CASE l \in leases /\ l.agent = a
    <3>1. l.gen <= agents[a].gen
      BY <1>3, <2>2 DEF GuidanceInv, LeaseOK, Absent
    <3>2. l.gen <= gen
      BY <1>0, <1>1, <1>3, <2>2, <3>1 DEF Generations
    <3>3. QED
      BY <1>4, <2>2, <3>2 DEF LeaseOK
  <2>3. CASE l = lease
    <3>1. gen <= gen
      BY <1>2 DEF Generations
    <3>2. QED
      BY <1>4, <2>3, <3>1 DEF LeaseOK
  <2>4. QED
    BY <1>2, <2>1, <2>2, <2>3
<1>8. ASSUME NEW d \in inflight PROVE DeliveryOK(d)'
  <2>1. d.lease \in leases /\ DeliveryOK(d)
    BY DEF GuidanceInv, DeliveryOK
  <2>2. SUFFICES ASSUME Holding(d.lease)' PROVE RowOf(d) \in steering'
    BY <1>2, <2>1 DEF DeliveryOK, RowOf
  <2>3. d.lease.agent # a
    <3>1. SUFFICES ASSUME d.lease.agent = a PROVE FALSE
      OBVIOUS
    <3>2. d.lease.gen = gen
      BY <1>4, <2>2, <3>1 DEF Holding
    <3>3. d.lease.gen <= agents[a].gen
      BY <1>3, <2>1, <3>1 DEF GuidanceInv, LeaseOK, Absent
    <3>4. QED
      BY <1>0, <1>3, <3>2, <3>3
  <2>4. Holding(d.lease)
    BY <1>1, <1>5, <2>1, <2>2, <2>3, ContinuesHolding DEF Quiet
  <2>5. RowOf(d) \in steering /\ RowOf(d).agent # a
    BY <2>1, <2>3, <2>4 DEF DeliveryOK, RowOf
  <2>6. Moved(RowOf(d), a, gen) = RowOf(d)
    BY <2>5 DEF Moved
  <2>7. QED
    BY <1>2, <2>5, <2>6
<1>9. NotLost
  <2>1. SUFFICES ASSUME NEW m \in steering PROVE Kept(m)
    BY DEF NotLost
  <2>2. Moved(m, a, gen) \in steering'
    BY <1>2
  <2>3. QED
    BY <1>1, <1>2, <1>6, <2>2, MovedMessage DEF Kept
<1>10. IdsAreUnique'
  BY <1>1, <1>2, MovedMessage DEF GuidanceInv, IdsAreUnique
<1>11. \A m \in steering' : MessageOK(m)'
  BY <1>2, <1>6
<1>12. QED
  BY <1>2, <1>7, <1>8, <1>9, <1>10, <1>11 DEF GuidanceInv, OneDeliveryEach

-----------------------------------------------------------------------------
(* The queue itself.                                                       *)

(* Enqueue's row id is larger than all, so no two rows share one.          *)
LEMMA EnqueueGuidance ==
    ASSUME Inv, GuidanceInv, NEW a \in Agents, NEW text \in Messages,
           EnqueueSteering(a, text)
    PROVE  GuidanceInv' /\ NotLost
<1> DEFINE row == SettledAgents[a]
<1>1. PICK id \in 1 .. MaxMessageId, gen \in {row.gen} :
        /\ IsNextRowId(id)
        /\ gen = row.gen
        /\ steering' = steering \cup
             {[id |-> id, agent |-> a, gen |-> gen, text |-> text]}
  BY DEF EnqueueSteering
<1> DEFINE sent == [id |-> id, agent |-> a, gen |-> gen, text |-> text]
<1>2. /\ row.status = "running" /\ row.conv # NoConversation
      /\ agents' = SettledAgents /\ leases' = leases /\ inflight' = inflight
  BY DEF EnqueueSteering, KeepAgents
<1>3. /\ \A m \in steering : m.agent \in Agents /\ m.id \in Nat
      /\ \A l \in leases : l.agent \in Agents
  BY DEF Inv, TypeOK, SteeringRow, Lease
<1>4. \A b \in Agents : Quiet(b)
  BY <1>2, UntouchedQuiet
<1>5. \A m \in steering : MessageOK(m)' /\ agents'[m.agent].gen = m.gen
  BY <1>3, <1>4, QuietMessage DEF GuidanceInv
<1>6. MessageOK(sent)'
  BY <1>1, <1>2 DEF MessageOK, Stopped
<1>7. \A l \in leases : LeaseOK(l)'
  BY <1>3, <1>4, QuietLease DEF GuidanceInv
<1>8. ASSUME NEW d \in inflight PROVE DeliveryOK(d)'
  <2>1. d.lease \in leases /\ DeliveryOK(d)
    BY DEF GuidanceInv, DeliveryOK
  <2>2. SUFFICES ASSUME Holding(d.lease)' PROVE RowOf(d) \in steering'
    BY <1>2, <2>1 DEF DeliveryOK, RowOf
  <2>3. Holding(d.lease)
    BY <1>3, <1>4, <2>1, <2>2, ContinuesHolding DEF Quiet
  <2>4. QED
    BY <1>1, <2>1, <2>3 DEF DeliveryOK
<1>9. \A m \in steering : m.id # sent.id
  BY <1>1, <1>3 DEF IsNextRowId
<1>10. IdsAreUnique'
  BY <1>1, <1>9 DEF GuidanceInv, IdsAreUnique
<1>11. NotLost
  BY <1>1, <1>5 DEF NotLost, Kept
<1>12. QED
  BY <1>1, <1>2, <1>5, <1>6, <1>7, <1>8, <1>10, <1>11
  DEF GuidanceInv, OneDeliveryEach

LEMMA NextSteeringGuidance ==
    ASSUME Inv, GuidanceInv, NEW l \in leases, NextSteering(l)
    PROVE  GuidanceInv' /\ NotLost
<1>1. PICK m \in Queue(l.agent, l.gen) :
        inflight' = {d \in inflight : d.lease # l} \cup
                      {[lease |-> l, id |-> m.id, text |-> m.text]}
  BY DEF NextSteering
<1> DEFINE got == [lease |-> l, id |-> m.id, text |-> m.text]
<1>2. agents' = SettledAgents /\ leases' = leases /\ steering' = steering
  BY DEF NextSteering, KeepAgents
<1>3. /\ m \in steering /\ m \in SteeringRow
      /\ m.agent = l.agent /\ m.gen = l.gen
  BY DEF Queue, Inv, TypeOK
<1>4. /\ \A n \in steering : n.agent \in Agents
      /\ \A k \in leases : k.agent \in Agents
  BY DEF Inv, TypeOK, SteeringRow, Lease
<1>5. \A b \in Agents : Quiet(b)
  BY <1>2, UntouchedQuiet
<1>6. \A n \in steering : MessageOK(n)' /\ agents'[n.agent].gen = n.gen
  BY <1>4, <1>5, QuietMessage DEF GuidanceInv
<1>7. \A k \in leases : LeaseOK(k)'
  BY <1>4, <1>5, QuietLease DEF GuidanceInv
<1>8. RowOf(got) = m
  BY <1>3 DEF RowOf, SteeringRow
<1>9. ASSUME NEW d \in inflight' PROVE DeliveryOK(d)'
  <2>1. CASE d = got
    BY <1>2, <1>3, <1>8, <2>1 DEF DeliveryOK, RowOf
  <2>2. CASE d \in inflight
    <3>1. d.lease \in leases /\ DeliveryOK(d)
      BY <2>2 DEF GuidanceInv, DeliveryOK
    <3>2. SUFFICES ASSUME Holding(d.lease)' PROVE RowOf(d) \in steering
      BY <1>2, <3>1 DEF DeliveryOK, RowOf
    <3>3. Holding(d.lease)
      BY <1>4, <1>5, <3>1, <3>2, ContinuesHolding DEF Quiet
    <3>4. QED
      BY <3>1, <3>3 DEF DeliveryOK
  <2>3. QED
    BY <1>1, <2>1, <2>2
<1>10. OneDeliveryEach'
  BY <1>1 DEF GuidanceInv, OneDeliveryEach
<1>11. NotLost
  BY <1>2, <1>6 DEF NotLost, Kept
<1>12. QED
  BY <1>2, <1>6, <1>7, <1>9, <1>10, <1>11 DEF GuidanceInv, IdsAreUnique

(* Only the very message that was accepted is deleted: under a live claim  *)
(* its row is the one with its id.                                         *)
LEMMA AcknowledgeGuidance ==
    ASSUME Inv, GuidanceInv, NEW l \in leases, AcknowledgeSteering(l)
    PROVE  GuidanceInv' /\ NotLost
<1>1. PICK d \in inflight :
        /\ d.lease = l
        /\ steering' = {m \in steering : ~ (/\ m.id = d.id
                                            /\ m.agent = l.agent
                                            /\ m.gen = l.gen)}
        /\ inflight' = inflight \ {d}
  BY DEF AcknowledgeSteering
<1>2. /\ ActiveLease(l)
      /\ agents' = SettledAgents /\ leases' = leases
  BY DEF AcknowledgeSteering, KeepAgents
<1>3. /\ \A n \in steering : n.agent \in Agents
      /\ \A k \in leases : k.agent \in Agents /\ k \in Lease
  BY DEF Inv, TypeOK, SteeringRow, Lease
<1>4. /\ Holding(l)'
      /\ Continues(l.agent)
  BY <1>2, <1>3, ActiveFacts, OwnedFacts, UntouchedContinues DEF Holding
<1>5. Holding(l)
  BY <1>4, ContinuesHolding
<1>6. RowOf(d) \in steering
  BY <1>1, <1>5 DEF GuidanceInv, DeliveryOK
<1>7. \A b \in Agents : Quiet(b)
  BY <1>2, UntouchedQuiet
<1>8. \A n \in steering : MessageOK(n)' /\ agents'[n.agent].gen = n.gen
  BY <1>3, <1>7, QuietMessage DEF GuidanceInv
<1>9. \A k \in leases : LeaseOK(k)'
  BY <1>3, <1>7, QuietLease DEF GuidanceInv
<1>10. ASSUME NEW e \in inflight' PROVE DeliveryOK(e)'
  <2>1. e \in inflight /\ e # d
    BY <1>1
  <2>2. e.lease \in leases /\ DeliveryOK(e)
    BY <2>1 DEF GuidanceInv, DeliveryOK
  <2>3. SUFFICES ASSUME Holding(e.lease)' PROVE RowOf(e) \in steering'
    BY <1>2, <2>2 DEF DeliveryOK, RowOf
  <2>4. Holding(e.lease)
    BY <1>3, <1>7, <2>2, <2>3, ContinuesHolding DEF Quiet
  <2>5. RowOf(e) \in steering
    BY <2>2, <2>4 DEF DeliveryOK
  <2>6. e.lease # l
    BY <1>1, <2>1 DEF GuidanceInv, OneDeliveryEach
  <2>7. ~ (e.lease.agent = l.agent /\ e.lease.gen = l.gen)
    <3>1. SUFFICES ASSUME e.lease.agent = l.agent, e.lease.gen = l.gen
                   PROVE  FALSE
      OBVIOUS
    <3>2. e.lease.runtime = l.runtime
      BY <1>5, <2>4, <3>1 DEF Holding
    <3>3. e.lease = l
      BY <1>3, <2>2, <3>1, <3>2 DEF Lease
    <3>4. QED
      BY <2>6, <3>3
  <2>8. RowOf(e).agent = e.lease.agent /\ RowOf(e).gen = e.lease.gen
    BY DEF RowOf
  <2>9. QED
    BY <1>1, <2>5, <2>7, <2>8
<1>11. ASSUME NEW m \in steering PROVE Kept(m) \/ Acknowledged(m)
  <2>1. CASE m \in steering'
    BY <1>8, <2>1 DEF Kept
  <2>2. CASE m \notin steering'
    <3>1. m.id = d.id /\ m.agent = l.agent /\ m.gen = l.gen
      BY <1>1, <2>2
    <3>2. RowOf(d).id = d.id /\ RowOf(d).text = d.text
      BY DEF RowOf
    <3>3. m = RowOf(d)
      BY <1>6, <3>1, <3>2 DEF GuidanceInv, IdsAreUnique
    <3>4. d \in inflight \ inflight'
      BY <1>1
    <3>5. QED
      BY <1>1, <3>1, <3>2, <3>3, <3>4 DEF Acknowledged
  <2>3. QED
    BY <2>1, <2>2
<1>12. \A m \in steering' : m \in steering
  BY <1>1
<1>13. \A e \in inflight' : e \in inflight
  BY <1>1
<1>14. QED
  BY <1>2, <1>8, <1>9, <1>10, <1>11, <1>12, <1>13
  DEF GuidanceInv, IdsAreUnique, OneDeliveryEach, NotLost

-----------------------------------------------------------------------------
(* The whole of it.                                                        *)

LEMMA InitGuidance == Init => GuidanceInv
BY DEF Init, GuidanceInv, IdsAreUnique, OneDeliveryEach

LEMMA ParentGuidance ==
    ASSUME Inv, GuidanceInv, NEW a \in Agents, ParentStep(a)
    PROVE  GuidanceInv' /\ NotLost
BY CreateGuidance, ClaimGuidance, CancelGuidance, EnqueueGuidance
DEF ParentStep

LEMMA WorkerGuidance ==
    ASSUME Inv, GuidanceInv, NEW l \in leases, WorkerStep(l)
    PROVE  GuidanceInv' /\ NotLost
BY AbortGuidance, QuietWorkerGuidance, NextSteeringGuidance,
   AcknowledgeGuidance DEF WorkerStep, QuietWorkerStep

LEMMA NextGuidance ==
    ASSUME Inv, GuidanceInv, [Next]_vars
    PROVE  GuidanceInv' /\ [NotLost]_vars
<1>1. CASE Next /\ ~SetClock
  BY <1>1, ParentGuidance, WorkerGuidance, QuietOtherGuidance DEF Next
<1>2. CASE SetClock \/ UNCHANGED vars
  <2>1. UNCHANGED <<agents, steering, leases, inflight>>
    BY <1>2 DEF SetClock, vars
  <2>2. GuidanceInv'
    BY <2>1 DEF GuidanceInv, MessageOK, LeaseOK, DeliveryOK, Holding, RowOf,
                IdsAreUnique, OneDeliveryEach
  <2>3. NotLost
    BY <2>1 DEF NotLost, Kept, GuidanceInv, MessageOK
  <2>4. QED
    BY <2>2, <2>3
<1>3. QED
  BY <1>1, <1>2

LEMMA GuidanceInvariant == Spec => [](Inv /\ GuidanceInv)
<1>1. Inv /\ GuidanceInv /\ [Next]_vars => Inv' /\ GuidanceInv'
  BY NextInv, NextGuidance
<1>2. QED
  BY <1>1, InitInv, InitGuidance, PTL DEF Spec

(* Queued guidance belongs to its agent's current run, none waits for a    *)
(* canceled agent, and row ids are unique in spite of their reuse: for any *)
(* numbers of agents, runs and messages.                                   *)
THEOREM GuidanceAlwaysFollows == Spec => []GuidanceFollowsTheAgent
<1>1. GuidanceInv => GuidanceFollowsTheAgent
  BY DEF GuidanceInv, MessageOK, Stopped, IdsAreUnique,
         GuidanceFollowsTheAgent
<1>2. QED
  BY <1>1, GuidanceInvariant, PTL

(* What a pump holds under a live lease is the row with that id: deleting  *)
(* by id, as AcknowledgeSteering does, is safe although ids come back.     *)
THEOREM HeldMessagesAreQueued == Spec => []HeldMessageIsQueued
<1>1. ASSUME Inv, GuidanceInv PROVE HeldMessageIsQueued
  <2>1. SUFFICES ASSUME NEW d \in inflight, ActiveLease(d.lease)
                 PROVE  RowOf(d) \in steering
    BY DEF HeldMessageIsQueued, RowOf
  <2>2. /\ d.lease \in leases /\ d.lease \in Lease
        /\ Holding(d.lease) => RowOf(d) \in steering
    BY <1>1 DEF GuidanceInv, DeliveryOK, Inv, TypeOK
  <2>3. d.lease.agent \in Agents
    BY <2>2 DEF Lease
  <2>4. /\ SettledAgents[d.lease.agent].status \in Active
        /\ SettledAgents[d.lease.agent].gen = d.lease.gen
        /\ SettledAgents[d.lease.agent].runtime = d.lease.runtime
    BY <1>1, <2>1, <2>2, ActiveFacts, OwnedFacts
  <2>5. SettledAgents[d.lease.agent] = agents[d.lease.agent]
    BY <1>1, <2>3, <2>4, SettledKeeps DEF Active, Claimed
  <2>6. QED
    BY <2>2, <2>4, <2>5 DEF Holding
<1>2. QED
  BY <1>1, GuidanceInvariant, PTL

(* Accepted guidance leaves the queue only acknowledged, message for       *)
(* message, or with the cancellation of its agent.                         *)
THEOREM GuidanceIsNeverLost == Spec => GuidanceIsNotLost
<1>1. Inv /\ GuidanceInv /\ [Next]_vars => [NotLost]_vars
  BY NextGuidance
<1>2. QED
  BY <1>1, GuidanceInvariant, PTL DEF Spec, GuidanceIsNotLost, NotLost
=============================================================================
