-------------------------- MODULE AgentStoreProofs --------------------------
(***************************************************************************)
(* Proofs about AgentStore for all values of its constants: the schema,     *)
(* the agreement of its tables, the finality of recorded outcomes, the      *)
(* limits on claims and the attachment of child conversations.              *)
(*                                                                          *)
(* Every action writes on top of the settled rows, so the proofs go in two  *)
(* steps: settling preserves what is claimed of each agent's rows, and      *)
(* then each action preserves it for the one agent it writes.  The second   *)
(* half rests on what a step may do to each agent: a claim is taken only    *)
(* within the limits, by Create or Claim, and all else that happens to an   *)
(* agent, in its own transaction or in another's, continues its row.        *)
(***************************************************************************)
EXTENDS AgentStore, FiniteSetTheorems, TLAPS

-----------------------------------------------------------------------------
(* The invariant, RowsAgree for whatever leases there may be: it holds     *)
(* also where rows were claimed before the behaviour begins, as in         *)
(* MailStore.                                                              *)

TablesAgree == \A a \in Agents : RowAgrees(a, agents[a], runs[a], Lease)

Inv == TypeOK /\ TablesAgree

-----------------------------------------------------------------------------
(* Settled rows.                                                           *)

(* Reconciliation writes rows that keep to the schema.                     *)
LEMMA SettledType ==
    ASSUME TypeOK
    PROVE  /\ SettledAgents \in [Agents -> AgentRow]
           /\ SettledRuns \in [Agents -> [Generations -> RunRow]]
<1>1. ASSUME NEW a \in Agents
      PROVE  SettledAgents[a] \in AgentRow
  BY DEF TypeOK, SettledAgents, ReapedRow, CanceledRow, Released, AgentRow,
         Claimable, Claimed
<1>2. ASSUME NEW a \in Agents
      PROVE  SettledRuns[a] \in [Generations -> RunRow]
  BY DEF TypeOK, SettledRuns, ReapedRun, InterruptedRun, RunRow, TerminalRun,
         StoreReports
<1>3. QED
  BY <1>1, <1>2 DEF SettledAgents, SettledRuns

(* A write to an agent and its current run keeps the rows in agreement if  *)
(* the two new rows agree with each other and the lease columns follow.    *)
LEMMA CurrentWriteAgrees ==
    ASSUME NEW a, NEW handed, NEW after,
           NEW row \in AgentRow, NEW old \in [Generations -> RunRow],
           RowAgrees(a, row, old, handed),
           NEW new \in AgentRow, NEW run \in RunRow,
           row.gen # 0, new.gen = row.gen,
           new.status \notin Absent,
           LeaseColumnsFollowStatus(a, new, after),
           CurrentRunFollowsStatus(new, run)
    PROVE  RowAgrees(a, new, [old EXCEPT ![row.gen] = run], after)
<1>1. row.gen \in Generations
  BY DEF AgentRow, Generations
<1>2. PICK hist : hist = [old EXCEPT ![row.gen] = run]
  OBVIOUS
<1>3. /\ hist[row.gen] = run
      /\ \A g \in Generations : g # row.gen => hist[g] = old[g]
  BY <1>1, <1>2
<1>4. OtherRunsAreOver(row, old)
  BY DEF RowAgrees
<1>5. OtherRunsAreOver(new, hist)
  <2>1. ASSUME NEW g \in Generations
        PROVE  /\ g < new.gen => hist[g].status \in TerminalRun
               /\ g > new.gen => hist[g] = NoRun
    <3>1. g # row.gen => hist[g] = old[g]
      BY <1>3
    <3>2. row.gen \in Int /\ g \in Int
      BY <1>1 DEF Generations
    <3>3. /\ g < row.gen => old[g].status \in TerminalRun
          /\ g > row.gen => old[g] = NoRun
      BY <1>4 DEF OtherRunsAreOver
    <3>4. QED
      BY <3>1, <3>2, <3>3
  <2>2. QED
    BY <2>1 DEF OtherRunsAreOver
<1>6. RowAgrees(a, new, hist, after)
  BY <1>3, <1>5 DEF RowAgrees
<1>7. QED
  BY <1>2, <1>6

(* Ending an expired claim keeps the agent's rows in agreement.            *)
LEMMA ReapedAgree ==
    ASSUME NEW a, NEW row \in AgentRow, NEW old \in [Generations -> RunRow],
           NEW handed, RowAgrees(a, row, old, handed), row.status \in Claimed
    PROVE  RowAgrees(a, ReapedRow(row, old[row.gen]),
                     [old EXCEPT ![row.gen] = ReapedRun(row, old[row.gen])],
                     handed)
<1> DEFINE new == ReapedRow(row, old[row.gen])
           run == ReapedRun(row, old[row.gen])
<1>1. row.gen \in Generations
  BY DEF RowAgrees, AgentRow, Claimed, Absent, Generations
<1>2. CurrentRunFollowsStatus(row, old[row.gen])
  BY <1>1 DEF RowAgrees, Generations
<1>3. new \in AgentRow /\ run \in RunRow /\ new.gen = row.gen
  BY <1>1 DEF ReapedRow, ReapedRun, CanceledRow, InterruptedRun, Released,
              AgentRow, RunRow, Claimable, StoreReports, TerminalRun
<1>4. \/ /\ row.status = "canceling" /\ run = old[row.gen]
         /\ run.status = "canceled" /\ new = Released(row, "canceled")
      \/ /\ row.status \in Active /\ run.status = "interrupted"
         /\ new = Released(row, "interrupted")
  BY <1>2 DEF ReapedRow, ReapedRun, CanceledRow, InterruptedRun, Claimed,
              Active, ActiveRun, CurrentRunFollowsStatus
<1>5. /\ new.status \in {"canceled", "interrupted"}
      /\ new.runtime = NoRuntime /\ new.expires = 0 /\ new.conv = row.conv
      /\ new.status = run.status
  BY <1>4 DEF Released, AgentRow
<1>6. LeaseColumnsFollowStatus(a, new, handed)
  BY <1>5 DEF LeaseColumnsFollowStatus, Claimed
<1>7. CurrentRunFollowsStatus(new, run)
  BY <1>5 DEF CurrentRunFollowsStatus, Active, TerminalRun
<1>8. row.gen # 0 /\ new.status \notin Absent
  BY <1>1, <1>5 DEF Absent, Generations
<1> HIDE DEF new, run
<1>9. RowAgrees(a, new, [old EXCEPT ![row.gen] = run], handed)
  BY <1>3, <1>6, <1>7, <1>8, CurrentWriteAgrees
<1>10. QED
  BY <1>9 DEF new, run

(* Reconciliation keeps each agent's rows in agreement.                    *)
LEMMA SettledAgree ==
    ASSUME TypeOK, TablesAgree, NEW a \in Agents
    PROVE  RowAgrees(a, SettledAgents[a], SettledRuns[a], Lease)
<1>1. /\ agents[a] \in AgentRow
      /\ runs[a] \in [Generations -> RunRow]
      /\ RowAgrees(a, agents[a], runs[a], Lease)
  BY DEF TypeOK, TablesAgree
<1>2. CASE ~Expired(agents[a])
  BY <1>1, <1>2 DEF SettledAgents, SettledRuns
<1>3. CASE Expired(agents[a])
  BY <1>1, <1>3, ReapedAgree DEF SettledAgents, SettledRuns, Expired
<1>4. QED
  BY <1>2, <1>3

-----------------------------------------------------------------------------
(* Writes.                                                                 *)

(* An action that writes one agent and that agent's history keeps all rows *)
(* to the schema and in agreement if it does so for the one agent.         *)
LEMMA OneAgentWrite ==
    ASSUME TypeOK, TablesAgree, NEW a \in Agents,
           NEW new \in AgentRow, NEW hist \in [Generations -> RunRow],
           agents' = [SettledAgents EXCEPT ![a] = new],
           runs' = [SettledRuns EXCEPT ![a] = hist],
           RowAgrees(a, new, hist, Lease)
    PROVE  /\ agents' \in [Agents -> AgentRow]
           /\ runs' \in [Agents -> [Generations -> RunRow]]
           /\ TablesAgree'
<1>1. /\ SettledAgents \in [Agents -> AgentRow]
      /\ SettledRuns \in [Agents -> [Generations -> RunRow]]
  BY SettledType
<1>2. ASSUME NEW b \in Agents
      PROVE  RowAgrees(b, agents'[b], runs'[b], Lease)
  <2>1. CASE b = a
    BY <1>1, <2>1
  <2>2. CASE b # a
    <3>1. agents'[b] = SettledAgents[b] /\ runs'[b] = SettledRuns[b]
      BY <1>1, <2>2
    <3>2. RowAgrees(b, SettledAgents[b], SettledRuns[b], Lease)
      BY SettledAgree
    <3>3. QED
      BY <3>1, <3>2
  <2>3. QED
    BY <2>1, <2>2
<1>3. TablesAgree'
  BY <1>2 DEF TablesAgree, RowAgrees, LeaseColumnsFollowStatus,
              CurrentRunFollowsStatus, OtherRunsAreOver, AbsentRow
<1>4. QED
  BY <1>1, <1>3

(* The same for a write to an agent and its current run only.              *)
LEMMA CurrentWrite ==
    ASSUME TypeOK, TablesAgree, NEW a \in Agents,
           NEW new \in AgentRow, NEW run \in RunRow,
           SettledAgents[a].gen # 0, new.gen = SettledAgents[a].gen,
           new.status \notin Absent,
           agents' = [SettledAgents EXCEPT ![a] = new],
           runs' = [SettledRuns EXCEPT ![a][new.gen] = run],
           leases' = leases,
           LeaseColumnsFollowStatus(a, new, Lease),
           CurrentRunFollowsStatus(new, run)
    PROVE  /\ agents' \in [Agents -> AgentRow]
           /\ runs' \in [Agents -> [Generations -> RunRow]]
           /\ TablesAgree'
<1>1. /\ SettledAgents[a] \in AgentRow
      /\ SettledRuns \in [Agents -> [Generations -> RunRow]]
      /\ SettledRuns[a] \in [Generations -> RunRow]
  BY SettledType
<1>2. PICK hist : hist = [SettledRuns[a] EXCEPT ![new.gen] = run]
  OBVIOUS
<1>3. RowAgrees(a, SettledAgents[a], SettledRuns[a], Lease)
  BY SettledAgree
<1>4. RowAgrees(a, new, hist, Lease)
  BY <1>1, <1>2, <1>3, CurrentWriteAgrees
<1>5. hist \in [Generations -> RunRow]
  BY <1>1, <1>2
<1>6. runs' = [SettledRuns EXCEPT ![a] = hist]
  BY <1>1, <1>2
<1>7. QED
  BY <1>4, <1>5, <1>6, OneAgentWrite

(* The same when the runs are kept.                                        *)
LEMMA AgentWrite ==
    ASSUME TypeOK, TablesAgree, NEW a \in Agents, NEW new \in AgentRow,
           SettledAgents[a].gen # 0, new.gen = SettledAgents[a].gen,
           new.status \notin Absent,
           agents' = [SettledAgents EXCEPT ![a] = new],
           runs' = SettledRuns,
           leases' = leases,
           LeaseColumnsFollowStatus(a, new, Lease),
           CurrentRunFollowsStatus(new, SettledRuns[a][new.gen])
    PROVE  /\ agents' \in [Agents -> AgentRow]
           /\ runs' \in [Agents -> [Generations -> RunRow]]
           /\ TablesAgree'
<1>1. /\ SettledAgents[a] \in AgentRow
      /\ SettledRuns \in [Agents -> [Generations -> RunRow]]
  BY SettledType
<1>2. new.gen \in Generations
  BY <1>1 DEF AgentRow, Generations
<1>3. SettledRuns[a][new.gen] \in RunRow
  BY <1>1, <1>2
<1>4. runs' = [SettledRuns EXCEPT ![a][new.gen] = SettledRuns[a][new.gen]]
  BY <1>1, <1>2
<1>5. QED
  BY <1>3, <1>4, CurrentWrite

-----------------------------------------------------------------------------
(* What a validated lease says of the settled rows.                        *)

LEMMA LeaseExpiry ==
    ASSUME TypeOK
    PROVE  now + LeaseDuration \in Nat /\ now + LeaseDuration > 0
BY LimitAssumption, BoundAssumption DEF TypeOK

(* Leasing and releasing a row touch nothing but what they name.           *)
LEMMA LeasedRow ==
    ASSUME TypeOK, NEW row \in AgentRow, NEW r \in Runtimes \cup {NoRuntime}
    PROVE  /\ Leased(row, r) \in AgentRow
           /\ Leased(row, r).status = row.status
           /\ Leased(row, r).gen = row.gen
           /\ Leased(row, r).owner = row.owner
           /\ Leased(row, r).conv = row.conv
           /\ Leased(row, r).runtime = r
           /\ Leased(row, r).expires = now + LeaseDuration
BY LeaseExpiry DEF Leased, AgentRow

LEMMA RestartedRow ==
    ASSUME NEW row \in AgentRow, NEW gen \in Generations
    PROVE  /\ Restarted(row, gen) \in AgentRow
           /\ Restarted(row, gen).status = "starting"
           /\ Restarted(row, gen).gen = gen
           /\ Restarted(row, gen).owner = row.owner
           /\ Restarted(row, gen).conv = row.conv
<1>1. gen \in 0 .. MaxGeneration
  BY DEF Generations
<1>2. QED
  BY <1>1 DEF Restarted, AgentRow, Claimed

LEMMA CancelingRow ==
    ASSUME NEW row \in AgentRow
    PROVE  /\ Canceling(row) \in AgentRow
           /\ Canceling(row).status = "canceling"
           /\ Canceling(row).gen = row.gen
           /\ Canceling(row).owner = row.owner
           /\ Canceling(row).conv = row.conv
BY DEF Canceling, AgentRow, Claimed

LEMMA ReleasedRow ==
    ASSUME NEW row \in AgentRow, NEW status \in Claimable
    PROVE  /\ Released(row, status) \in AgentRow
           /\ Released(row, status).status = status
           /\ Released(row, status).gen = row.gen
           /\ Released(row, status).owner = row.owner
           /\ Released(row, status).conv = row.conv
           /\ Released(row, status).runtime = NoRuntime
           /\ Released(row, status).expires = 0
BY DEF Released, AgentRow

LEMMA WithConversationRow ==
    ASSUME NEW row \in AgentRow, NEW conv \in Conversations \cup {NoConversation}
    PROVE  /\ WithConversation(row, conv) \in AgentRow
           /\ WithConversation(row, conv).status = row.status
           /\ WithConversation(row, conv).gen = row.gen
           /\ WithConversation(row, conv).owner = row.owner
           /\ WithConversation(row, conv).runtime = row.runtime
           /\ WithConversation(row, conv).expires = row.expires
           /\ WithConversation(row, conv).conv = conv
BY DEF WithConversation, AgentRow

LEMMA RunningRow ==
    ASSUME NEW row \in AgentRow, NEW conv \in Conversations
    PROVE  /\ Running(row, conv) \in AgentRow
           /\ Running(row, conv).status = "running"
           /\ Running(row, conv).gen = row.gen
           /\ Running(row, conv).owner = row.owner
           /\ Running(row, conv).runtime = row.runtime
           /\ Running(row, conv).expires = row.expires
           /\ Running(row, conv).conv = conv
BY DEF Running, AgentRow, Claimed

(* Any valid lease names the agent's current claim and its holder.         *)
LEMMA OwnedFacts ==
    ASSUME Inv, NEW l \in leases, LeaseOwned(l)
    PROVE  /\ l \in Lease
           /\ SettledAgents[l.agent] \in AgentRow
           /\ SettledAgents[l.agent].gen = l.gen
           /\ SettledAgents[l.agent].gen # 0
           /\ SettledAgents[l.agent].runtime = l.runtime
           /\ SettledAgents[l.agent].status \in Claimed
           /\ SettledRuns[l.agent][l.gen] \in RunRow
           /\ LeaseColumnsFollowStatus(l.agent, SettledAgents[l.agent], Lease)
           /\ CurrentRunFollowsStatus(SettledAgents[l.agent],
                                      SettledRuns[l.agent][l.gen])
<1>1. /\ l \in Lease /\ l.agent \in Agents /\ l.gen \in Generations
      /\ l.gen # 0 /\ l.runtime # NoRuntime
  BY NullAssumption DEF Inv, TypeOK, Lease, Generations
<1>2. /\ SettledAgents[l.agent] \in AgentRow
      /\ SettledRuns[l.agent][l.gen] \in RunRow
  BY <1>1, SettledType DEF Inv
<1>3. RowAgrees(l.agent, SettledAgents[l.agent], SettledRuns[l.agent], Lease)
  BY <1>1, SettledAgree DEF Inv
<1>4. /\ SettledAgents[l.agent].gen = l.gen
      /\ SettledAgents[l.agent].runtime = l.runtime
  BY DEF LeaseOwned
<1>5. QED
  BY <1>1, <1>2, <1>3, <1>4 DEF RowAgrees, LeaseColumnsFollowStatus

(* An active lease: the agent and its run are both starting or running.    *)
LEMMA ActiveFacts ==
    ASSUME Inv, NEW l \in leases, ActiveLease(l)
    PROVE  /\ LeaseOwned(l)
           /\ SettledAgents[l.agent].status \in Active
           /\ SettledRuns[l.agent][l.gen].status
                = SettledAgents[l.agent].status
BY OwnedFacts DEF ActiveLease, CurrentRunFollowsStatus

-----------------------------------------------------------------------------
(* Each action keeps the schema and the agreement of the rows.             *)

(* A transaction that writes no agent and no run of its own.               *)
LEMMA KeepRows ==
    ASSUME Inv, KeepAgents, KeepRuns, leases' = leases
    PROVE  /\ agents' \in [Agents -> AgentRow]
           /\ runs' \in [Agents -> [Generations -> RunRow]]
           /\ TablesAgree'
<1>1. TablesAgree'
  BY SettledAgree
  DEF Inv, KeepAgents, KeepRuns, TablesAgree, RowAgrees,
      LeaseColumnsFollowStatus, CurrentRunFollowsStatus, OtherRunsAreOver,
      AbsentRow
<1>2. QED
  BY <1>1, SettledType DEF Inv, KeepAgents, KeepRuns

(* Reconciliation alone, and queueing, reading and acknowledging guidance. *)
LEMMA ReconcileInv == ASSUME Inv, Reconcile PROVE Inv'
BY KeepRows DEF Inv, TypeOK, Reconcile

LEMMA EnqueueSteeringInv ==
    ASSUME Inv, NEW a \in Agents, NEW text \in Messages,
           EnqueueSteering(a, text)
    PROVE  Inv'
<1>1. /\ KeepAgents /\ KeepRuns
      /\ UNCHANGED <<now, leases, inflight>>
      /\ SettledAgents[a].status = "running"
  BY DEF EnqueueSteering
<1>2. PICK id \in 1 .. MaxMessageId :
        steering' = steering \cup {[id |-> id, agent |-> a,
                                    gen |-> SettledAgents[a].gen,
                                    text |-> text]}
  BY DEF EnqueueSteering
<1>3. SettledAgents[a].gen \in Generations
  <2>1. /\ SettledAgents[a] \in AgentRow
        /\ RowAgrees(a, SettledAgents[a], SettledRuns[a], Lease)
    BY SettledType, SettledAgree DEF Inv
  <2>2. SettledAgents[a].gen # 0
    BY <1>1, <2>1 DEF RowAgrees, Absent
  <2>3. QED
    BY <2>1, <2>2 DEF AgentRow, Generations
<1>4. steering' \subseteq SteeringRow
  BY <1>2, <1>3 DEF Inv, TypeOK, SteeringRow
<1>5. QED
  BY <1>1, <1>4, KeepRows DEF Inv, TypeOK

LEMMA NextSteeringInv ==
    ASSUME Inv, NEW l \in leases, NextSteering(l)
    PROVE  Inv'
<1>1. KeepAgents /\ KeepRuns /\ UNCHANGED <<now, steering, leases>>
  BY DEF NextSteering
<1>2. inflight' \subseteq Delivery
  <2>1. PICK m \in steering :
          inflight' = {d \in inflight : d.lease # l} \cup
                        {[lease |-> l, id |-> m.id, text |-> m.text]}
    BY DEF NextSteering, Queue
  <2>2. m \in SteeringRow /\ l \in Lease /\ inflight \subseteq Delivery
    BY DEF Inv, TypeOK
  <2>3. [lease |-> l, id |-> m.id, text |-> m.text] \in Delivery
    BY <2>2 DEF SteeringRow, Delivery
  <2>4. QED
    BY <2>1, <2>2, <2>3
<1>3. QED
  BY <1>1, <1>2, KeepRows DEF Inv, TypeOK

LEMMA AcknowledgeSteeringInv ==
    ASSUME Inv, NEW l \in leases, AcknowledgeSteering(l)
    PROVE  Inv'
<1>1. KeepAgents /\ KeepRuns /\ UNCHANGED <<now, leases>>
  BY DEF AcknowledgeSteering
<1>2. steering' \subseteq steering /\ inflight' \subseteq inflight
  BY DEF AcknowledgeSteering
<1>3. QED
  BY <1>1, <1>2, KeepRows DEF Inv, TypeOK

(* A new agent: one starting run under a fresh lease.                      *)
LEMMA CreateInv ==
    ASSUME Inv, NEW r \in Runtimes, NEW owner \in Owners, NEW a \in Agents,
           Create(r, owner, a)
    PROVE  Inv'
<1> DEFINE new == [owner |-> owner, status |-> "starting", gen |-> 1,
                   conv |-> NoConversation, runtime |-> r,
                   expires |-> now + LeaseDuration]
           run == [status |-> "starting", report |-> NoReport]
           lease == [agent |-> a, gen |-> 1, runtime |-> r]
<1>1. 1 \in Generations /\ lease \in Lease
  BY BoundAssumption DEF Generations, Lease
<1>2. new \in AgentRow
  BY <1>1, LeaseExpiry DEF Inv, AgentRow, Claimed, Generations
<1>3. /\ new.status = "starting" /\ new.gen = 1 /\ new.runtime = r
      /\ new.expires = now + LeaseDuration
  OBVIOUS
<1>4. /\ agents' = [SettledAgents EXCEPT ![a] = new]
      /\ runs' = [SettledRuns EXCEPT ![a][1] = run]
      /\ leases' = leases \cup {lease}
      /\ UNCHANGED <<now, steering, inflight>>
  BY DEF Create, PutAgent, PutRun
<1>5. SettledRuns[a] \in [Generations -> RunRow] /\ run \in RunRow
  BY SettledType DEF Inv, RunRow, ActiveRun
<1>6. PICK hist : hist = [SettledRuns[a] EXCEPT ![1] = run]
  OBVIOUS
<1>7. hist \in [Generations -> RunRow] /\ hist[1] = run
  BY <1>1, <1>5, <1>6
<1>8. runs' = [SettledRuns EXCEPT ![a] = hist]
  BY <1>4, <1>6, SettledType DEF Inv
<1>9. \A g \in Generations : g > 1 => hist[g] = NoRun
  <2>1. agents[a].status = "unused" /\ agents[a].gen = 0
    <3>1. agents[a].status = "unused"
      BY DEF Create
    <3>2. RowAgrees(a, agents[a], runs[a], Lease)
      BY DEF Inv, TablesAgree
    <3>3. QED
      BY <3>1, <3>2 DEF RowAgrees, Absent
  <2>2. SettledRuns[a] = runs[a]
    BY <2>1 DEF SettledRuns, Expired, Claimed
  <2>3. \A g \in Generations : g > 0 => runs[a][g] = NoRun
    BY <2>1 DEF Inv, TablesAgree, RowAgrees, OtherRunsAreOver
  <2>4. QED
    BY <1>1, <1>5, <1>6, <2>2, <2>3 DEF Generations
<1>10. LeaseColumnsFollowStatus(a, new, Lease)
  BY <1>1, <1>3, LeaseExpiry, NullAssumption
  DEF Inv, LeaseColumnsFollowStatus, Claimed
<1>11. CurrentRunFollowsStatus(new, run)
  BY <1>3 DEF CurrentRunFollowsStatus, Active
<1>12. OtherRunsAreOver(new, hist)
  BY <1>3, <1>9 DEF OtherRunsAreOver, Generations
<1>13. RowAgrees(a, new, hist, Lease)
  BY <1>3, <1>7, <1>10, <1>11, <1>12 DEF RowAgrees, Absent
<1> HIDE DEF new, run, lease
<1>14. /\ agents' \in [Agents -> AgentRow]
       /\ runs' \in [Agents -> [Generations -> RunRow]]
       /\ TablesAgree'
  BY <1>2, <1>4, <1>7, <1>8, <1>13, OneAgentWrite DEF Inv
<1>15. QED
  BY <1>1, <1>4, <1>14 DEF Inv, TypeOK

(* A follow-up: the history grows by one starting run.                     *)
LEMMA ClaimInv ==
    ASSUME Inv, NEW r \in Runtimes, NEW a \in Agents, Claim(r, a)
    PROVE  Inv'
<1> DEFINE row == SettledAgents[a]
           gen == row.gen + 1
           new == Leased(Restarted(row, gen), r)
           run == [status |-> "starting", report |-> NoReport]
           lease == [agent |-> a, gen |-> gen, runtime |-> r]
<1>1. /\ row.status \in Claimable
      /\ row.status = "idle" => row.conv # NoConversation
      /\ gen \in Generations
      /\ agents' = [SettledAgents EXCEPT ![a] = new]
      /\ runs' = [SettledRuns EXCEPT ![a][gen] = run]
      /\ steering' = Rehomed(a, gen)
      /\ leases' = leases \cup {lease}
      /\ UNCHANGED <<now, inflight>>
  BY DEF Claim, PutAgent, PutRun
<1>2. /\ row \in AgentRow
      /\ SettledRuns[a] \in [Generations -> RunRow]
      /\ RowAgrees(a, row, SettledRuns[a], Lease)
      /\ lease \in Lease /\ run \in RunRow
  BY <1>1, SettledType, SettledAgree DEF Inv, Lease, RunRow, ActiveRun
<1>3. row.gen \in Generations
  BY <1>1, <1>2 DEF RowAgrees, AgentRow, Absent, Claimable, Generations
<1>4. Restarted(row, gen) \in AgentRow
  BY <1>1, <1>2, RestartedRow
<1>5. /\ new \in AgentRow
      /\ new.status = "starting" /\ new.gen = gen /\ new.runtime = r
      /\ new.expires = now + LeaseDuration
  BY <1>1, <1>2, <1>4, RestartedRow, LeasedRow DEF Inv
<1>6. PICK hist : hist = [SettledRuns[a] EXCEPT ![gen] = run]
  OBVIOUS
<1>7. /\ hist \in [Generations -> RunRow]
      /\ hist[gen] = run
      /\ \A g \in Generations : g # gen => hist[g] = SettledRuns[a][g]
  BY <1>1, <1>2, <1>6
<1>8. runs' = [SettledRuns EXCEPT ![a] = hist]
  BY <1>1, <1>6, SettledType DEF Inv
<1>9. SettledRuns[a][row.gen].status \in TerminalRun
  BY <1>1, <1>2, <1>3
  DEF RowAgrees, CurrentRunFollowsStatus, Claimable, TerminalRun, Generations
<1>10. OtherRunsAreOver(new, hist)
  <2>1. ASSUME NEW g \in Generations
        PROVE  /\ g < gen => hist[g].status \in TerminalRun
               /\ g > gen => hist[g] = NoRun
    <3>1. g \in Int /\ row.gen \in Int
      BY <1>3 DEF Generations
    <3>2. /\ g < row.gen => SettledRuns[a][g].status \in TerminalRun
          /\ g > row.gen => SettledRuns[a][g] = NoRun
      BY <1>2 DEF RowAgrees, OtherRunsAreOver
    <3>3. CASE g = row.gen
      BY <1>7, <1>9, <3>1, <3>3
    <3>4. CASE g = gen
      BY <3>1, <3>4
    <3>5. CASE g # row.gen /\ g # gen
      BY <1>7, <3>1, <3>2, <3>5
    <3>6. QED
      BY <3>3, <3>4, <3>5
  <2>2. QED
    BY <1>5, <2>1 DEF OtherRunsAreOver
<1>11. LeaseColumnsFollowStatus(a, new, Lease)
  BY <1>2, <1>5, LeaseExpiry, NullAssumption
  DEF Inv, LeaseColumnsFollowStatus, Claimed
<1>12. CurrentRunFollowsStatus(new, run)
  BY <1>5 DEF CurrentRunFollowsStatus, Active
<1>13. new.gen # 0 /\ new.status \notin Absent
  BY <1>3, <1>5 DEF Absent, Generations
<1>14. RowAgrees(a, new, hist, Lease)
  BY <1>5, <1>7, <1>10, <1>11, <1>12, <1>13 DEF RowAgrees
<1>15. steering' \subseteq SteeringRow
  BY <1>1 DEF Inv, TypeOK, Rehomed, SteeringRow
<1> HIDE DEF new, run, lease, gen
<1>16. /\ agents' \in [Agents -> AgentRow]
       /\ runs' \in [Agents -> [Generations -> RunRow]]
       /\ TablesAgree'
  BY <1>1, <1>5, <1>7, <1>8, <1>14, OneAgentWrite DEF Inv
<1>17. QED
  BY <1>1, <1>2, <1>15, <1>16 DEF Inv, TypeOK

(* Cancellation of an active claim: agent and run change together, and the *)
(* claim stays with its runtime.                                           *)
LEMMA CancelActiveInv ==
    ASSUME Inv, NEW a \in Agents, CancelActive(a)
    PROVE  Inv'
<1> DEFINE row == SettledAgents[a]
           old == SettledRuns[a][row.gen]
           new == Leased(Canceling(row), row.runtime)
           run == IF old.status \in ActiveRun
                  THEN [status |-> "canceled",
                        report |-> "agent canceled by parent"]
                  ELSE old
<1>1. /\ row.status \in Active
      /\ steering' = steering \ Queue(a, row.gen)
      /\ agents' = [SettledAgents EXCEPT ![a] = new]
      /\ runs' = [SettledRuns EXCEPT ![a][row.gen] = run]
      /\ UNCHANGED <<now, leases, inflight>>
  BY DEF CancelActive, PutAgent, PutRun
<1>2. /\ row \in AgentRow
      /\ SettledRuns[a] \in [Generations -> RunRow]
      /\ RowAgrees(a, row, SettledRuns[a], Lease)
  BY SettledType, SettledAgree DEF Inv
<1>3. row.gen # 0 /\ row.gen \in Generations /\ row.runtime # NoRuntime
  <2>1. row.gen # 0
    BY <1>1, <1>2 DEF RowAgrees, Absent, Active
  <2>2. row.runtime # NoRuntime
    BY <1>1, <1>2 DEF RowAgrees, LeaseColumnsFollowStatus, Active, Claimed
  <2>3. QED
    BY <1>2, <2>1, <2>2 DEF AgentRow, Generations
<1>4. CurrentRunFollowsStatus(row, old)
  BY <1>2, <1>3 DEF RowAgrees
<1>5. run \in RunRow /\ run.status = "canceled"
  BY <1>1, <1>2, <1>3, <1>4
  DEF CurrentRunFollowsStatus, Active, ActiveRun, RunRow, TerminalRun,
      StoreReports
<1>6. Canceling(row) \in AgentRow /\ row.runtime \in Runtimes \cup {NoRuntime}
  BY <1>2, CancelingRow DEF AgentRow
<1>7. /\ new \in AgentRow /\ new.status = "canceling" /\ new.gen = row.gen
      /\ new.runtime = row.runtime /\ new.expires = now + LeaseDuration
  BY <1>2, <1>6, CancelingRow, LeasedRow DEF Inv
<1>8. LeaseColumnsFollowStatus(a, new, Lease)
  BY <1>1, <1>2, <1>3, <1>7, LeaseExpiry
  DEF Inv, RowAgrees, LeaseColumnsFollowStatus, Active, Claimed
<1>9. CurrentRunFollowsStatus(new, run)
  BY <1>5, <1>7 DEF CurrentRunFollowsStatus, Active
<1>10. new.status \notin Absent /\ steering' \subseteq SteeringRow
  BY <1>1, <1>7 DEF Absent, Inv, TypeOK
<1> HIDE DEF new, run, old
<1>11. /\ agents' \in [Agents -> AgentRow]
       /\ runs' \in [Agents -> [Generations -> RunRow]]
       /\ TablesAgree'
  BY <1>1, <1>3, <1>5, <1>7, <1>8, <1>9, <1>10, CurrentWrite DEF Inv
<1>12. QED
  BY <1>1, <1>10, <1>11 DEF Inv, TypeOK

(* Cancellation of an agent whose run is over.                             *)
LEMMA CancelInactiveInv ==
    ASSUME Inv, NEW a \in Agents, CancelInactive(a)
    PROVE  Inv'
<1> DEFINE row == SettledAgents[a]
           new == Released(row, "canceled")
<1>1. /\ row.status \in Claimable \ {"canceled"}
      /\ steering' = steering \ Queue(a, row.gen)
      /\ agents' = [SettledAgents EXCEPT ![a] = new]
      /\ runs' = SettledRuns
      /\ UNCHANGED <<now, leases, inflight>>
  BY DEF CancelInactive, PutAgent, KeepRuns
<1>2. row \in AgentRow /\ RowAgrees(a, row, SettledRuns[a], Lease)
  BY SettledType, SettledAgree DEF Inv
<1>3. row.gen # 0
  BY <1>1, <1>2 DEF RowAgrees, Absent, Claimable
<1>4. /\ new \in AgentRow /\ new.status = "canceled" /\ new.gen = row.gen
      /\ new.runtime = NoRuntime /\ new.expires = 0
  BY <1>2, ReleasedRow DEF Claimable
<1>5. LeaseColumnsFollowStatus(a, new, Lease)
  BY <1>4 DEF LeaseColumnsFollowStatus, Claimed
<1>6. CurrentRunFollowsStatus(row, SettledRuns[a][row.gen])
  BY <1>2, <1>3 DEF RowAgrees
<1>7. CurrentRunFollowsStatus(new, SettledRuns[a][new.gen])
  BY <1>1, <1>4, <1>6
  DEF CurrentRunFollowsStatus, Claimable, Active, TerminalRun
<1>8. new.status \notin Absent /\ steering' \subseteq SteeringRow
  BY <1>1, <1>4 DEF Absent, Inv, TypeOK
<1> HIDE DEF new
<1>9. /\ agents' \in [Agents -> AgentRow]
      /\ runs' \in [Agents -> [Generations -> RunRow]]
      /\ TablesAgree'
  BY <1>1, <1>3, <1>4, <1>5, <1>7, <1>8, AgentWrite DEF Inv
<1>10. QED
  BY <1>1, <1>8, <1>9 DEF Inv, TypeOK

(* The withdrawal of an unstarted first reservation leaves an absent row   *)
(* with no runs.                                                           *)
LEMMA AbortInv ==
    ASSUME Inv, NEW l \in leases, Abort(l)
    PROVE  Inv'
<1> DEFINE a == l.agent
           new == AbsentRow("deleted")
<1>1. /\ ActiveLease(l)
      /\ l.gen = 1
      /\ agents' = [SettledAgents EXCEPT ![a] = new]
      /\ runs' = [SettledRuns EXCEPT ![a][1] = NoRun]
      /\ steering' = {m \in steering : m.agent # l.agent}
      /\ UNCHANGED <<now, leases, inflight>>
  BY DEF Abort, PutAgent, PutRun
<1>2. a \in Agents /\ SettledAgents[a].gen = 1
  BY <1>1, ActiveFacts, OwnedFacts DEF Lease
<1>3. /\ SettledRuns[a] \in [Generations -> RunRow]
      /\ RowAgrees(a, SettledAgents[a], SettledRuns[a], Lease)
  BY <1>2, SettledType, SettledAgree DEF Inv
<1>4. new \in AgentRow /\ NoRun \in RunRow
  BY BoundAssumption DEF AbsentRow, AgentRow, Absent, NoRun, RunRow
<1>5. /\ new.status = "deleted" /\ new.gen = 0
      /\ new.runtime = NoRuntime /\ new.expires = 0
  BY DEF AbsentRow
<1>6. PICK hist : hist = [SettledRuns[a] EXCEPT ![1] = NoRun]
  OBVIOUS
<1>7. hist \in [Generations -> RunRow]
  BY <1>3, <1>4, <1>6
<1>8. runs' = [SettledRuns EXCEPT ![a] = hist]
  BY <1>1, <1>2, <1>6, SettledType DEF Inv
<1>9. \A g \in Generations : hist[g] = NoRun
  <2>1. \A g \in Generations : g > 1 => SettledRuns[a][g] = NoRun
    BY <1>2, <1>3 DEF RowAgrees, OtherRunsAreOver
  <2>2. 1 \in Generations
    BY BoundAssumption DEF Generations
  <2>3. /\ hist[1] = NoRun
        /\ \A g \in Generations : g # 1 => hist[g] = SettledRuns[a][g]
    BY <1>3, <1>6, <2>2
  <2>4. \A g \in Generations : g = 1 \/ g > 1
    BY DEF Generations
  <2>5. QED
    BY <2>1, <2>3, <2>4
<1>10. OtherRunsAreOver(new, hist)
  BY <1>5, <1>9 DEF OtherRunsAreOver, Generations
<1>11. LeaseColumnsFollowStatus(a, new, Lease)
  BY <1>5 DEF LeaseColumnsFollowStatus, Claimed
<1>12. new = AbsentRow(new.status)
  BY <1>5
<1> HIDE DEF new
<1>13. RowAgrees(a, new, hist, Lease)
  BY <1>5, <1>10, <1>11, <1>12 DEF RowAgrees, Absent
<1>14. /\ agents' \in [Agents -> AgentRow]
       /\ runs' \in [Agents -> [Generations -> RunRow]]
       /\ TablesAgree'
  BY <1>1, <1>2, <1>4, <1>7, <1>8, <1>13, OneAgentWrite DEF Inv
<1>15. QED
  BY <1>1, <1>14 DEF Inv, TypeOK

(* Attaching a conversation, in an active or a canceling claim.            *)
LEMMA AttachInv ==
    ASSUME Inv, NEW l \in leases, NEW conv \in Conversations,
           AttachConversation(l, conv) \/ AttachCancelingConversation(l, conv)
    PROVE  Inv'
<1> DEFINE a == l.agent
           row == SettledAgents[a]
           new == WithConversation(row, conv)
<1>1. /\ LeaseOwned(l)
      /\ agents' = [SettledAgents EXCEPT ![a] = new]
      /\ runs' = SettledRuns
      /\ UNCHANGED <<now, steering, leases, inflight>>
  BY DEF AttachConversation, AttachCancelingConversation, Attach,
         ActiveLease, CancelingLease, PutAgent, KeepRuns
<1>2. /\ a \in Agents /\ row \in AgentRow
      /\ row.gen # 0 /\ row.gen = l.gen
      /\ row.status \in Claimed
      /\ LeaseColumnsFollowStatus(a, row, Lease)
      /\ CurrentRunFollowsStatus(row, SettledRuns[a][row.gen])
  BY <1>1, OwnedFacts DEF Lease
<1>3. /\ new \in AgentRow /\ new.status = row.status /\ new.gen = row.gen
      /\ new.runtime = row.runtime /\ new.expires = row.expires
      /\ new.conv = conv
  BY <1>2, WithConversationRow
<1>4. LeaseColumnsFollowStatus(a, new, Lease)
  BY <1>2, <1>3 DEF LeaseColumnsFollowStatus
<1>5. CurrentRunFollowsStatus(new, SettledRuns[a][new.gen])
  BY <1>2, <1>3, NullAssumption DEF CurrentRunFollowsStatus
<1>6. new.status \notin Absent
  BY <1>2, <1>3 DEF Claimed, Absent
<1> HIDE DEF new
<1>7. /\ agents' \in [Agents -> AgentRow]
      /\ runs' \in [Agents -> [Generations -> RunRow]]
      /\ TablesAgree'
  BY <1>1, <1>2, <1>3, <1>4, <1>5, <1>6, AgentWrite DEF Inv
<1>8. QED
  BY <1>1, <1>7 DEF Inv, TypeOK

(* The run starts: agent and run move to running together.                 *)
LEMMA MarkRunningInv ==
    ASSUME Inv, NEW l \in leases, NEW conv \in Conversations,
           MarkRunning(l, conv)
    PROVE  Inv'
<1> DEFINE a == l.agent
           row == SettledAgents[a]
           new == Running(row, conv)
           run == [SettledRuns[a][l.gen] EXCEPT !.status = "running"]
<1>1. /\ ActiveLease(l)
      /\ agents' = [SettledAgents EXCEPT ![a] = new]
      /\ runs' = [SettledRuns EXCEPT ![a][l.gen] = run]
      /\ UNCHANGED <<now, steering, leases, inflight>>
  BY DEF MarkRunning, PutAgent, PutRun
<1>2. /\ a \in Agents /\ row \in AgentRow
      /\ row.gen # 0 /\ row.gen = l.gen
      /\ row.status \in Claimed
      /\ SettledRuns[a][l.gen] \in RunRow
      /\ LeaseColumnsFollowStatus(a, row, Lease)
  BY <1>1, ActiveFacts, OwnedFacts DEF Lease
<1>3. /\ new \in AgentRow /\ new.status = "running" /\ new.gen = row.gen
      /\ new.runtime = row.runtime /\ new.expires = row.expires
      /\ new.conv = conv
  BY <1>2, RunningRow
<1>4. run \in RunRow /\ run.status = "running"
  BY <1>2 DEF RunRow, ActiveRun
<1>5. LeaseColumnsFollowStatus(a, new, Lease)
  BY <1>2, <1>3 DEF LeaseColumnsFollowStatus, Claimed
<1>6. CurrentRunFollowsStatus(new, run)
  BY <1>3, <1>4, NullAssumption DEF CurrentRunFollowsStatus
<1>7. new.status \notin Absent
  BY <1>3 DEF Absent
<1> HIDE DEF new, run
<1>8. /\ agents' \in [Agents -> AgentRow]
      /\ runs' \in [Agents -> [Generations -> RunRow]]
      /\ TablesAgree'
  BY <1>1, <1>2, <1>3, <1>4, <1>5, <1>6, <1>7, CurrentWrite DEF Inv
<1>9. QED
  BY <1>1, <1>8 DEF Inv, TypeOK

(* The end of a run: agent and run end alike, and the lease goes.          *)
LEMMA TerminalInv ==
    ASSUME Inv, NEW l \in leases, NEW status \in DOMAIN RunStatusOf,
           NEW conv \in Conversations \cup {NoConversation},
           NEW report \in Reports, Terminal(l, status, conv, report)
    PROVE  Inv'
<1> DEFINE a == l.agent
           row == SettledAgents[a]
           resolved == IF conv = NoConversation THEN row.conv ELSE conv
           new == WithConversation(Released(row, status), resolved)
           run == [status |-> RunStatusOf[status], report |-> report]
<1>1. /\ ActiveLease(l)
      /\ status = "idle" => resolved # NoConversation
      /\ agents' = [SettledAgents EXCEPT ![a] = new]
      /\ runs' = [SettledRuns EXCEPT ![a][l.gen] = run]
      /\ UNCHANGED <<now, steering, leases, inflight>>
  BY DEF Terminal, PutAgent, PutRun
<1>2. /\ a \in Agents /\ row \in AgentRow
      /\ row.gen # 0 /\ row.gen = l.gen
  BY <1>1, ActiveFacts, OwnedFacts DEF Lease
<1>3. status \in {"idle", "failed", "interrupted"}
  BY DEF RunStatusOf
<1>4. /\ resolved \in Conversations \cup {NoConversation}
      /\ status \in Claimable
  BY <1>2, <1>3 DEF AgentRow, Claimable
<1>5. /\ new \in AgentRow /\ new.status = status /\ new.gen = row.gen
      /\ new.runtime = NoRuntime /\ new.expires = 0
      /\ new.conv = resolved
  BY <1>2, <1>4, ReleasedRow, WithConversationRow
<1>6. /\ run \in RunRow
      /\ status = "idle" => run.status = "completed"
      /\ status # "idle" => run.status = status
  BY <1>3 DEF RunRow, RunStatusOf, TerminalRun
<1>7. LeaseColumnsFollowStatus(a, new, Lease)
  BY <1>3, <1>5 DEF LeaseColumnsFollowStatus, Claimed
<1>8. CurrentRunFollowsStatus(new, run)
  BY <1>1, <1>3, <1>5, <1>6 DEF CurrentRunFollowsStatus, Active
<1>9. new.status \notin Absent
  BY <1>3, <1>5 DEF Absent
<1> HIDE DEF new, run
<1>10. /\ agents' \in [Agents -> AgentRow]
       /\ runs' \in [Agents -> [Generations -> RunRow]]
       /\ TablesAgree'
  BY <1>1, <1>2, <1>5, <1>6, <1>7, <1>8, <1>9, CurrentWrite DEF Inv
<1>11. QED
  BY <1>1, <1>10 DEF Inv, TypeOK

(* Renewal changes nothing but the expiry.                                 *)
LEMMA RenewInv ==
    ASSUME Inv, NEW l \in leases, Heartbeat(l) \/ HeartbeatCanceling(l)
    PROVE  Inv'
<1> DEFINE a == l.agent
           row == SettledAgents[a]
           new == Leased(row, l.runtime)
<1>1. /\ LeaseOwned(l)
      /\ agents' = [SettledAgents EXCEPT ![a] = new]
      /\ runs' = SettledRuns
      /\ UNCHANGED <<now, steering, leases, inflight>>
  BY DEF Heartbeat, HeartbeatCanceling, RenewLease, ActiveLease,
         CancelingLease, PutAgent, KeepRuns
<1>2. /\ a \in Agents /\ row \in AgentRow
      /\ l.runtime \in Runtimes \cup {NoRuntime}
      /\ row.gen # 0 /\ row.gen = l.gen /\ row.runtime = l.runtime
      /\ row.status \in Claimed
      /\ LeaseColumnsFollowStatus(a, row, Lease)
      /\ CurrentRunFollowsStatus(row, SettledRuns[a][row.gen])
  BY <1>1, OwnedFacts DEF Lease
<1>3. /\ new \in AgentRow /\ new.status = row.status /\ new.gen = row.gen
      /\ new.runtime = row.runtime /\ new.expires = now + LeaseDuration
      /\ new.conv = row.conv
  BY <1>2, LeasedRow DEF Inv
<1>4. LeaseColumnsFollowStatus(a, new, Lease)
  BY <1>2, <1>3, LeaseExpiry DEF Inv, LeaseColumnsFollowStatus
<1>5. CurrentRunFollowsStatus(new, SettledRuns[a][new.gen])
  BY <1>2, <1>3 DEF CurrentRunFollowsStatus
<1>6. new.status \notin Absent
  BY <1>2, <1>3 DEF Claimed, Absent
<1> HIDE DEF new
<1>7. /\ agents' \in [Agents -> AgentRow]
      /\ runs' \in [Agents -> [Generations -> RunRow]]
      /\ TablesAgree'
  BY <1>1, <1>2, <1>3, <1>4, <1>5, <1>6, AgentWrite DEF Inv
<1>8. QED
  BY <1>1, <1>7 DEF Inv, TypeOK

(* The canceled worker is gone: the claim ends.                            *)
LEMMA CompleteCancelInv ==
    ASSUME Inv, NEW l \in leases, CompleteCancel(l)
    PROVE  Inv'
<1> DEFINE a == l.agent
           row == SettledAgents[a]
           run == SettledRuns[a][l.gen]
           new == Released(row, "canceled")
<1>1. /\ CancelingLease(l)
      /\ agents' = [SettledAgents EXCEPT ![a] = CanceledRow(row, run)]
      /\ runs' = SettledRuns
      /\ UNCHANGED <<now, steering, leases, inflight>>
  BY DEF CompleteCancel, PutAgent, KeepRuns
<1>2. LeaseOwned(l) /\ run.status = "canceled"
  BY <1>1 DEF CancelingLease
<1>3. CanceledRow(row, run) = new
  BY <1>2 DEF CanceledRow
<1>4. /\ a \in Agents /\ row \in AgentRow
      /\ row.gen # 0 /\ row.gen = l.gen
  BY <1>2, OwnedFacts DEF Lease
<1>5. /\ new \in AgentRow /\ new.status = "canceled" /\ new.gen = row.gen
      /\ new.runtime = NoRuntime /\ new.expires = 0
  BY <1>4, ReleasedRow DEF Claimable
<1>6. LeaseColumnsFollowStatus(a, new, Lease)
  BY <1>5 DEF LeaseColumnsFollowStatus, Claimed
<1>7. CurrentRunFollowsStatus(new, SettledRuns[a][new.gen])
  BY <1>2, <1>4, <1>5 DEF CurrentRunFollowsStatus, Active, TerminalRun
<1>8. new.status \notin Absent
  BY <1>5 DEF Absent
<1>9. agents' = [SettledAgents EXCEPT ![a] = new]
  BY <1>1, <1>3
<1> HIDE DEF new
<1>10. /\ agents' \in [Agents -> AgentRow]
       /\ runs' \in [Agents -> [Generations -> RunRow]]
       /\ TablesAgree'
  BY <1>1, <1>4, <1>5, <1>6, <1>7, <1>8, <1>9, AgentWrite DEF Inv
<1>11. QED
  BY <1>1, <1>10 DEF Inv, TypeOK

(* A runtime ends all its own active claims at once.                       *)
LEMMA InterruptRuntimeInv ==
    ASSUME Inv, NEW r \in Runtimes, NEW report \in Reports,
           InterruptRuntime(r, report)
    PROVE  Inv'
<1> DEFINE mine == {a \in Agents : /\ SettledAgents[a].runtime = r
                                  /\ SettledAgents[a].status \in Active}
<1>1. /\ agents' = [a \in Agents |->
            IF a \in mine THEN Released(SettledAgents[a], "interrupted")
                          ELSE SettledAgents[a]]
      /\ runs' = [a \in Agents |->
            IF a \in mine
            THEN [SettledRuns[a] EXCEPT ![SettledAgents[a].gen] =
                    InterruptedRun(SettledRuns[a][SettledAgents[a].gen], report)]
            ELSE SettledRuns[a]]
      /\ UNCHANGED <<now, steering, leases, inflight>>
  BY DEF InterruptRuntime
<1>2. ASSUME NEW a \in Agents
      PROVE  /\ agents'[a] \in AgentRow
             /\ runs'[a] \in [Generations -> RunRow]
             /\ RowAgrees(a, agents'[a], runs'[a], Lease)
  <2> DEFINE row == SettledAgents[a]
             old == SettledRuns[a]
             new == Released(row, "interrupted")
             run == InterruptedRun(old[row.gen], report)
  <2>1. /\ row \in AgentRow
        /\ old \in [Generations -> RunRow]
        /\ RowAgrees(a, row, old, Lease)
    BY SettledType, SettledAgree DEF Inv
  <2>2. CASE a \notin mine
    BY <1>1, <2>1, <2>2
  <2>3. CASE a \in mine
    <3>1. row.status \in Active
      BY <2>3
    <3>2. row.gen # 0
      BY <2>1, <3>1 DEF RowAgrees, Active, Absent
    <3>3. row.gen \in Generations
      BY <2>1, <3>2 DEF AgentRow, Generations
    <3>4. CurrentRunFollowsStatus(row, old[row.gen])
      BY <2>1, <3>2 DEF RowAgrees
    <3>5. run \in RunRow /\ run.status = "interrupted"
      BY <2>1, <3>1, <3>3, <3>4
      DEF InterruptedRun, CurrentRunFollowsStatus, Active, ActiveRun, RunRow,
          TerminalRun
    <3>6. /\ new \in AgentRow /\ new.status = "interrupted"
          /\ new.gen = row.gen /\ new.runtime = NoRuntime /\ new.expires = 0
      BY <2>1, ReleasedRow DEF Claimable
    <3>7. LeaseColumnsFollowStatus(a, new, Lease)
      BY <3>6 DEF LeaseColumnsFollowStatus, Claimed
    <3>8. CurrentRunFollowsStatus(new, run)
      BY <3>5, <3>6 DEF CurrentRunFollowsStatus, Active
    <3>9. new.status \notin Absent
      BY <3>6 DEF Absent
    <3>10. /\ agents'[a] = new
           /\ runs'[a] = [old EXCEPT ![row.gen] = run]
      BY <1>1, <2>3
    <3> HIDE DEF row, old, new, run
    <3>11. RowAgrees(a, new, [old EXCEPT ![row.gen] = run], Lease)
      BY <2>1, <3>2, <3>5, <3>6, <3>7, <3>8, <3>9, CurrentWriteAgrees
    <3>12. [old EXCEPT ![row.gen] = run] \in [Generations -> RunRow]
      BY <2>1, <3>5
    <3>13. QED
      BY <3>6, <3>10, <3>11, <3>12
  <2>4. QED
    BY <2>2, <2>3
<1>3. /\ agents' \in [Agents -> AgentRow]
      /\ runs' \in [Agents -> [Generations -> RunRow]]
  BY <1>1, <1>2
<1>4. TablesAgree'
  BY <1>1, <1>2
  DEF TablesAgree, RowAgrees, LeaseColumnsFollowStatus, CurrentRunFollowsStatus,
      OtherRunsAreOver, AbsentRow
<1>5. QED
  BY <1>1, <1>3, <1>4 DEF Inv, TypeOK

-----------------------------------------------------------------------------
(* The inductive invariant of the store.                                   *)

LEMMA InitInv == Init => Inv
<1> SUFFICES ASSUME Init PROVE Inv
  OBVIOUS
<1>1. TypeOK
  BY BoundAssumption
  DEF Init, TypeOK, AbsentRow, AgentRow, Absent, NoRun, RunRow
<1>2. TablesAgree
  BY DEF Init, TablesAgree, RowAgrees, AbsentRow, Absent, Claimed,
         LeaseColumnsFollowStatus, OtherRunsAreOver, Generations
<1>3. QED
  BY <1>1, <1>2 DEF Inv

LEMMA NextInv ==
    ASSUME Inv, [Next]_vars
    PROVE  Inv'
<1>1. ASSUME NEW a \in Agents, ParentStep(a)
      PROVE  Inv'
  BY <1>1, CreateInv, ClaimInv, CancelActiveInv, CancelInactiveInv,
     EnqueueSteeringInv
  DEF ParentStep
<1>2. ASSUME NEW l \in leases, WorkerStep(l)
      PROVE  Inv'
  BY <1>2, AbortInv, AttachInv, MarkRunningInv, TerminalInv, RenewInv,
     CompleteCancelInv, NextSteeringInv, AcknowledgeSteeringInv
  DEF WorkerStep
<1>3. ASSUME NEW r \in Runtimes, NEW report \in Reports,
             InterruptRuntime(r, report)
      PROVE  Inv'
  BY <1>3, InterruptRuntimeInv
<1>4. CASE Reconcile
  BY <1>4, ReconcileInv
<1>5. CASE SetClock
  BY <1>5
  DEF SetClock, Inv, TypeOK, TablesAgree, RowAgrees, LeaseColumnsFollowStatus,
      CurrentRunFollowsStatus, OtherRunsAreOver, AbsentRow
<1>6. CASE UNCHANGED vars
  BY <1>6
  DEF vars, Inv, TypeOK, TablesAgree, RowAgrees, LeaseColumnsFollowStatus,
      CurrentRunFollowsStatus, OtherRunsAreOver, AbsentRow
<1>7. QED
  BY <1>1, <1>2, <1>3, <1>4, <1>5, <1>6 DEF Next

(* The tables keep to their schema, for any number of agents, runtimes,    *)
(* runs and messages.                                                      *)
THEOREM TypeCorrect == Spec => []TypeOK
<1>1. Inv => TypeOK
  BY DEF Inv
<1>2. QED
  BY <1>1, InitInv, NextInv, PTL DEF Spec

-----------------------------------------------------------------------------
(* Finality of recorded outcomes.                                          *)

Final == \A a \in Agents, g \in Generations :
            runs[a][g].status \in TerminalRun => runs'[a][g] = runs[a][g]

(* Reconciliation never touches a finished run.                            *)
LEMMA SettledFinal ==
    ASSUME Inv, NEW a \in Agents, NEW g \in Generations,
           runs[a][g].status \in TerminalRun
    PROVE  SettledRuns[a][g] = runs[a][g]
<1>1. runs[a] \in [Generations -> RunRow]
  BY DEF Inv, TypeOK
<1>2. CASE ~Expired(agents[a])
  BY <1>2 DEF SettledRuns
<1>3. CASE Expired(agents[a])
  <2> DEFINE gen == agents[a].gen
             run == ReapedRun(agents[a], runs[a][gen])
  <2>1. SettledRuns[a] = [runs[a] EXCEPT ![gen] = run]
    BY <1>3 DEF SettledRuns
  <2>2. CASE g # gen
    BY <1>1, <2>1, <2>2
  <2>3. CASE g = gen
    <3>1. run = runs[a][g]
      BY <2>3 DEF ReapedRun, InterruptedRun, TerminalRun, ActiveRun
    <3>2. QED
      BY <1>1, <2>1, <2>3, <3>1
  <2>4. QED
    BY <2>2, <2>3
<1>4. QED
  BY <1>2, <1>3

(* An action that writes one run writes an unfinished one, or leaves it as *)
(* it is.                                                                  *)
LEMMA OneRunFinal ==
    ASSUME Inv, NEW a \in Agents, NEW g \in Generations, NEW run,
           PutRun(a, g, run),
           SettledRuns[a][g].status \notin TerminalRun \/ run = SettledRuns[a][g]
    PROVE  Final
<1>1. SettledRuns \in [Agents -> [Generations -> RunRow]]
  BY SettledType DEF Inv
<1>2. ASSUME NEW b \in Agents, NEW h \in Generations,
             runs[b][h].status \in TerminalRun
      PROVE  runs'[b][h] = runs[b][h]
  <2>1. SettledRuns[b][h] = runs[b][h]
    BY <1>2, SettledFinal
  <2>2. CASE b = a /\ h = g
    BY <1>1, <1>2, <2>1, <2>2 DEF PutRun
  <2>3. CASE b # a \/ h # g
    BY <1>1, <2>1, <2>3 DEF PutRun
  <2>4. QED
    BY <2>2, <2>3
<1>3. QED
  BY <1>2 DEF Final

LEMMA KeepRunsFinal == ASSUME Inv, KeepRuns PROVE Final
BY SettledFinal DEF Final, KeepRuns

(* A worker writes the run of its own lease, and only while that is active.*)
LEMMA WorkerFinal ==
    ASSUME Inv, NEW l \in leases, NEW run,
           ActiveLease(l), PutRun(l.agent, l.gen, run)
    PROVE  Final
<1>1. l.agent \in Agents /\ l.gen \in Generations
  BY ActiveFacts, OwnedFacts DEF Lease
<1>2. SettledRuns[l.agent][l.gen].status \notin TerminalRun
  BY DEF ActiveLease, ActiveRun, TerminalRun
<1>3. QED
  BY <1>1, <1>2, OneRunFinal

LEMMA ClaimFinal ==
    ASSUME Inv, NEW r \in Runtimes, NEW a \in Agents,
           Claim(r, a) \/ \E owner \in Owners : Create(r, owner, a)
    PROVE  Final
<1>1. CASE Claim(r, a)
  <2> DEFINE gen == SettledAgents[a].gen + 1
  <2>1. /\ gen \in Generations
        /\ PutRun(a, gen, [status |-> "starting", report |-> NoReport])
    BY <1>1 DEF Claim
  <2>2. SettledAgents[a] \in AgentRow
    BY SettledType DEF Inv
  <2>3. RowAgrees(a, SettledAgents[a], SettledRuns[a], Lease)
    BY SettledAgree DEF Inv
  <2>4. gen > SettledAgents[a].gen
    BY <2>2 DEF AgentRow
  <2>5. SettledRuns[a][gen] = NoRun
    BY <2>1, <2>3, <2>4 DEF RowAgrees, OtherRunsAreOver
  <2>6. SettledRuns[a][gen].status \notin TerminalRun
    BY <2>5 DEF NoRun, TerminalRun
  <2> HIDE DEF gen
  <2>7. QED
    BY <2>1, <2>6, OneRunFinal
<1>2. CASE \E owner \in Owners : Create(r, owner, a)
  <2>1. /\ agents[a].status = "unused"
        /\ PutRun(a, 1, [status |-> "starting", report |-> NoReport])
    BY <1>2 DEF Create
  <2>2. SettledRuns[a] = runs[a]
    BY <2>1 DEF SettledRuns, Expired, Claimed
  <2>3. RowAgrees(a, agents[a], runs[a], Lease)
    BY DEF Inv, TablesAgree
  <2>4. agents[a].gen = 0
    BY <2>1, <2>3 DEF RowAgrees, Absent
  <2>5. 1 \in Generations
    BY BoundAssumption DEF Generations
  <2>6. runs[a][1] = NoRun
    BY <2>3, <2>4, <2>5 DEF RowAgrees, OtherRunsAreOver
  <2>7. SettledRuns[a][1].status \notin TerminalRun
    BY <2>2, <2>6 DEF NoRun, TerminalRun
  <2>8. QED
    BY <2>1, <2>5, <2>7, OneRunFinal
<1>3. QED
  BY <1>1, <1>2

LEMMA CancelFinal ==
    ASSUME Inv, NEW a \in Agents, CancelActive(a)
    PROVE  Final
<1> DEFINE gen == SettledAgents[a].gen
           old == SettledRuns[a][gen]
           run == IF old.status \in ActiveRun
                  THEN [status |-> "canceled",
                        report |-> "agent canceled by parent"]
                  ELSE old
<1>1. SettledAgents[a].status \in Active /\ PutRun(a, gen, run)
  BY DEF CancelActive
<1>2. /\ SettledAgents[a] \in AgentRow
      /\ RowAgrees(a, SettledAgents[a], SettledRuns[a], Lease)
  BY SettledType, SettledAgree DEF Inv
<1>3. gen # 0
  BY <1>1, <1>2 DEF RowAgrees, Absent, Active
<1>4. gen \in Generations
  BY <1>2, <1>3 DEF AgentRow, Generations
<1>5. old.status \notin TerminalRun \/ run = old
  BY DEF TerminalRun, ActiveRun
<1> HIDE DEF gen, run
<1>6. QED
  BY <1>1, <1>4, <1>5, OneRunFinal

LEMMA InterruptRuntimeFinal ==
    ASSUME Inv, NEW r \in Runtimes, NEW report \in Reports,
           InterruptRuntime(r, report)
    PROVE  Final
<1>1. ASSUME NEW a \in Agents, NEW g \in Generations,
             runs[a][g].status \in TerminalRun
      PROVE  runs'[a][g] = runs[a][g]
  <2> DEFINE gen == SettledAgents[a].gen
             run == InterruptedRun(SettledRuns[a][gen], report)
  <2>1. SettledRuns[a][g] = runs[a][g]
    BY <1>1, SettledFinal
  <2>2. SettledRuns[a] \in [Generations -> RunRow]
    BY SettledType DEF Inv
  <2>3. \/ runs'[a] = SettledRuns[a]
        \/ runs'[a] = [SettledRuns[a] EXCEPT ![gen] = run]
    BY DEF InterruptRuntime
  <2>4. g = gen => run = SettledRuns[a][g]
    BY <1>1, <2>1 DEF InterruptedRun, TerminalRun, ActiveRun
  <2> HIDE DEF gen, run
  <2>5. QED
    BY <2>1, <2>2, <2>3, <2>4
<1>2. QED
  BY <1>1 DEF Final

LEMMA NextFinal ==
    ASSUME Inv, [Next]_vars
    PROVE  Final
<1>1. ASSUME NEW a \in Agents, ParentStep(a)
      PROVE  Final
  BY <1>1, ClaimFinal, CancelFinal, KeepRunsFinal
  DEF ParentStep, CancelInactive, EnqueueSteering
<1>2. ASSUME NEW l \in leases, WorkerStep(l)
      PROVE  Final
  <2>1. CASE Abort(l)
    BY <2>1, WorkerFinal DEF Abort
  <2>2. ASSUME NEW conv \in Conversations, MarkRunning(l, conv)
        PROVE  Final
    BY <2>2, WorkerFinal DEF MarkRunning
  <2>3. ASSUME NEW status \in DOMAIN RunStatusOf, NEW report \in Reports,
               NEW conv \in Conversations \cup {NoConversation},
               Terminal(l, status, conv, report)
        PROVE  Final
    BY <2>3, WorkerFinal DEF Terminal
  <2>4. ASSUME KeepRuns PROVE Final
    BY <2>4, KeepRunsFinal
  <2>5. QED
    BY <1>2, <2>1, <2>2, <2>3, <2>4
    DEF WorkerStep, AttachConversation, AttachCancelingConversation, Attach,
        Heartbeat, HeartbeatCanceling, RenewLease, CompleteCancel,
        NextSteering, AcknowledgeSteering
<1>3. ASSUME NEW r \in Runtimes, NEW report \in Reports,
             InterruptRuntime(r, report)
      PROVE  Final
  BY <1>3, InterruptRuntimeFinal
<1>4. CASE Reconcile
  BY <1>4, KeepRunsFinal DEF Reconcile
<1>5. CASE SetClock \/ UNCHANGED vars
  BY <1>5 DEF SetClock, vars, Final
<1>6. QED
  BY <1>1, <1>2, <1>3, <1>4, <1>5 DEF Next

(* A finished run is never rewritten or deleted, whatever a late worker,   *)
(* an expiry, a shutdown or a cancellation does.                           *)
THEOREM OutcomesAreFinal == Spec => TerminalRunsAreFinal
<1>1. Inv /\ [Next]_vars => [Final]_vars
  BY NextFinal
<1>2. QED
  BY <1>1, InitInv, NextInv, PTL DEF Spec, TerminalRunsAreFinal, Final

-----------------------------------------------------------------------------
(* What a step does to each agent.                                         *)

(* Reconciliation ends expired claims and touches nothing else of a row.   *)
LEMMA SettledKeeps ==
    ASSUME Inv, NEW a \in Agents
    PROVE  /\ agents[a] \in AgentRow /\ SettledAgents[a] \in AgentRow
           /\ SettledAgents[a].owner = agents[a].owner
           /\ SettledAgents[a].gen = agents[a].gen
           /\ SettledAgents[a].conv = agents[a].conv
           /\ SettledAgents[a].status \in Claimed
                => SettledAgents[a] = agents[a]
           /\ SettledAgents[a].status \in Claimable /\ agents[a].status \notin Claimed
                => SettledAgents[a] = agents[a]
           /\ SettledAgents[a].status \in {"canceling", "canceled"}
                => agents[a].status \in {"canceling", "canceled"}
           /\ SettledAgents[a].status \in Absent <=> agents[a].status \in Absent
<1>1. agents[a] \in AgentRow /\ SettledAgents[a] \in AgentRow
  BY SettledType DEF Inv, TypeOK
<1>2. CASE ~Expired(agents[a])
  BY <1>1, <1>2 DEF SettledAgents, Claimed, Claimable, Absent
<1>3. CASE Expired(agents[a])
  <2>1. agents[a].status \in Claimed
    BY <1>3 DEF Expired
  <2>2. RowAgrees(a, agents[a], runs[a], Lease)
    BY DEF Inv, TablesAgree
  <2>3. agents[a].status = "canceling" => runs[a][agents[a].gen].status = "canceled"
    BY <1>1, <2>1, <2>2 DEF RowAgrees, CurrentRunFollowsStatus, Claimed, Absent
  <2>4. \/ /\ agents[a].status = "canceling"
           /\ SettledAgents[a] = Released(agents[a], "canceled")
        \/ /\ agents[a].status \in Active
           /\ SettledAgents[a] = Released(agents[a], "interrupted")
    BY <1>3, <2>1, <2>3
    DEF SettledAgents, ReapedRow, CanceledRow, Claimed, Active
  <2>5. PICK status \in {"canceled", "interrupted"} :
          /\ SettledAgents[a] = Released(agents[a], status)
          /\ status = "canceled" => agents[a].status = "canceling"
    BY <2>4
  <2>6. status \in Claimable
    BY DEF Claimable
  <2>7. /\ SettledAgents[a].status = status
        /\ SettledAgents[a].owner = agents[a].owner
        /\ SettledAgents[a].gen = agents[a].gen
        /\ SettledAgents[a].conv = agents[a].conv
    BY <1>1, <2>5, <2>6, ReleasedRow
  <2>8. QED
    BY <1>1, <2>1, <2>5, <2>7 DEF Claimed, Claimable, Absent
<1>4. QED
  BY <1>2, <1>3

(* A row goes on: it takes no claim, leaves its generation unless it is    *)
(* deleted, and keeps its conversation or attaches one nobody else has.    *)
Continues(a) ==
    LET row == SettledAgents[a]
        new == agents'[a]
    IN  /\ new.status \in Claimed =>
              /\ row.status \in Claimed
              /\ new.owner = row.owner
              /\ new.runtime = row.runtime
        /\ new.status \in Active => row.status \in Active
        /\ new.gen = row.gen \/ new.status = "deleted"
        /\ \/ new.conv = row.conv
           \/ /\ row.conv = NoConversation
              /\ \A b \in Agents \ {a} :
                    /\ SettledAgents[b].conv # new.conv
                    /\ agents'[b].conv = SettledAgents[b].conv

LEMMA UntouchedContinues ==
    ASSUME NEW a \in Agents, agents'[a] = SettledAgents[a]
    PROVE  Continues(a)
BY DEF Continues

(* An action that writes one agent's row does so to all if to that one.    *)
LEMMA OneContinues ==
    ASSUME Inv, NEW a \in Agents, NEW new,
           agents' = [SettledAgents EXCEPT ![a] = new],
           Continues(a)
    PROVE  \A b \in Agents : Continues(b)
<1>1. ASSUME NEW b \in Agents, b # a
      PROVE  Continues(b)
  <2>1. agents'[b] = SettledAgents[b]
    BY <1>1 DEF SettledAgents
  <2>2. QED
    BY <2>1, UntouchedContinues
<1>2. QED
  BY <1>1

(* A conversation that fits, for the one agent that a step writes.         *)
LEMMA FittingConversation ==
    ASSUME NEW a \in Agents, NEW new, NEW conv,
           agents' = [SettledAgents EXCEPT ![a] = new],
           ConversationFits(a, conv), new.conv = conv
    PROVE  \/ new.conv = SettledAgents[a].conv
           \/ /\ SettledAgents[a].conv = NoConversation
              /\ \A b \in Agents \ {a} :
                    /\ SettledAgents[b].conv # new.conv
                    /\ agents'[b].conv = SettledAgents[b].conv
<1>1. \A b \in Agents \ {a} : agents'[b] = SettledAgents[b]
  BY DEF SettledAgents
<1>2. QED
  BY <1>1 DEF ConversationFits

LEMMA AttachContinues ==
    ASSUME Inv, NEW l \in leases, NEW conv \in Conversations,
           AttachConversation(l, conv) \/ AttachCancelingConversation(l, conv)
    PROVE  \A b \in Agents : Continues(b)
<1> DEFINE a == l.agent
           row == SettledAgents[a]
           new == WithConversation(row, conv)
<1>1. /\ LeaseOwned(l)
      /\ ConversationFits(a, conv)
      /\ agents' = [SettledAgents EXCEPT ![a] = new]
  BY DEF AttachConversation, AttachCancelingConversation, Attach,
         ActiveLease, CancelingLease, PutAgent
<1>2. a \in Agents /\ row \in AgentRow /\ row.status \in Claimed
  BY <1>1, OwnedFacts DEF Lease
<1>3. /\ new.status = row.status /\ new.gen = row.gen
      /\ new.owner = row.owner /\ new.runtime = row.runtime
      /\ new.conv = conv
  BY <1>2, WithConversationRow
<1> HIDE DEF new
<1>4. agents'[a] = new
  BY <1>1, <1>2, SettledType DEF Inv
<1>5. Continues(a)
  BY <1>1, <1>2, <1>3, <1>4, FittingConversation DEF Continues
<1>6. QED
  BY <1>1, <1>2, <1>5, OneContinues

LEMMA MarkRunningContinues ==
    ASSUME Inv, NEW l \in leases, NEW conv \in Conversations,
           MarkRunning(l, conv)
    PROVE  \A b \in Agents : Continues(b)
<1> DEFINE a == l.agent
           row == SettledAgents[a]
           new == Running(row, conv)
<1>1. /\ ActiveLease(l)
      /\ ConversationFits(a, conv)
      /\ agents' = [SettledAgents EXCEPT ![a] = new]
  BY DEF MarkRunning, PutAgent
<1>2. /\ a \in Agents /\ row \in AgentRow /\ row.status \in Claimed
      /\ row.status \in Active
  BY <1>1, ActiveFacts, OwnedFacts DEF Lease
<1>3. /\ new.gen = row.gen /\ new.owner = row.owner
      /\ new.runtime = row.runtime /\ new.conv = conv
  BY <1>2, RunningRow
<1> HIDE DEF new
<1>4. agents'[a] = new
  BY <1>1, <1>2, SettledType DEF Inv
<1>5. Continues(a)
  BY <1>1, <1>2, <1>3, <1>4, FittingConversation DEF Continues
<1>6. QED
  BY <1>1, <1>2, <1>5, OneContinues

LEMMA TerminalContinues ==
    ASSUME Inv, NEW l \in leases, NEW status \in DOMAIN RunStatusOf,
           NEW conv \in Conversations \cup {NoConversation},
           NEW report \in Reports, Terminal(l, status, conv, report)
    PROVE  \A b \in Agents : Continues(b)
<1> DEFINE a == l.agent
           row == SettledAgents[a]
           resolved == IF conv = NoConversation THEN row.conv ELSE conv
           new == WithConversation(Released(row, status), resolved)
<1>1. /\ ActiveLease(l)
      /\ conv # NoConversation => ConversationFits(a, conv)
      /\ agents' = [SettledAgents EXCEPT ![a] = new]
  BY DEF Terminal, PutAgent
<1>2. a \in Agents /\ row \in AgentRow
  BY <1>1, ActiveFacts, OwnedFacts DEF Lease
<1>3. status \in {"idle", "failed", "interrupted"}
  BY DEF RunStatusOf
<1>4. /\ resolved \in Conversations \cup {NoConversation}
      /\ status \in Claimable
  BY <1>2, <1>3 DEF AgentRow, Claimable
<1>5. /\ new.status = status /\ new.gen = row.gen /\ new.conv = resolved
  BY <1>2, <1>4, ReleasedRow, WithConversationRow
<1> HIDE DEF new
<1>6. agents'[a] = new
  BY <1>1, <1>2, SettledType DEF Inv
<1>7. \/ new.conv = row.conv
      \/ /\ row.conv = NoConversation
         /\ \A b \in Agents \ {a} :
               /\ SettledAgents[b].conv # new.conv
               /\ agents'[b].conv = SettledAgents[b].conv
  BY <1>1, <1>2, <1>5, FittingConversation
<1>8. Continues(a)
  BY <1>3, <1>5, <1>6, <1>7 DEF Continues, Claimed, Active
<1>9. QED
  BY <1>1, <1>2, <1>8, OneContinues

LEMMA RenewContinues ==
    ASSUME Inv, NEW l \in leases, Heartbeat(l) \/ HeartbeatCanceling(l)
    PROVE  \A b \in Agents : Continues(b)
<1> DEFINE a == l.agent
           row == SettledAgents[a]
           new == Leased(row, l.runtime)
<1>1. /\ LeaseOwned(l)
      /\ agents' = [SettledAgents EXCEPT ![a] = new]
  BY DEF Heartbeat, HeartbeatCanceling, RenewLease, ActiveLease,
         CancelingLease, PutAgent
<1>2. /\ a \in Agents /\ row \in AgentRow /\ row.status \in Claimed
      /\ l.runtime \in Runtimes \cup {NoRuntime} /\ row.runtime = l.runtime
  BY <1>1, OwnedFacts DEF Lease
<1>3. /\ new.status = row.status /\ new.gen = row.gen
      /\ new.owner = row.owner /\ new.runtime = row.runtime
      /\ new.conv = row.conv
  BY <1>2, LeasedRow DEF Inv
<1> HIDE DEF new
<1>4. agents'[a] = new
  BY <1>1, <1>2, SettledType DEF Inv
<1>5. Continues(a)
  BY <1>2, <1>3, <1>4 DEF Continues
<1>6. QED
  BY <1>1, <1>2, <1>5, OneContinues

LEMMA CompleteCancelContinues ==
    ASSUME Inv, NEW l \in leases, CompleteCancel(l)
    PROVE  \A b \in Agents : Continues(b)
<1> DEFINE a == l.agent
           row == SettledAgents[a]
           new == Released(row, "canceled")
<1>1. /\ CancelingLease(l) /\ LeaseOwned(l)
      /\ agents' = [SettledAgents EXCEPT ![a] = new]
  BY DEF CompleteCancel, CancelingLease, CanceledRow, PutAgent
<1>2. a \in Agents /\ row \in AgentRow
  BY <1>1, OwnedFacts DEF Lease
<1>3. new.status = "canceled" /\ new.gen = row.gen /\ new.conv = row.conv
  BY <1>2, ReleasedRow DEF Claimable
<1> HIDE DEF new
<1>4. agents'[a] = new
  BY <1>1, <1>2, SettledType DEF Inv
<1>5. Continues(a)
  BY <1>3, <1>4 DEF Continues, Claimed, Active
<1>6. QED
  BY <1>1, <1>2, <1>5, OneContinues

LEMMA AbortContinues ==
    ASSUME Inv, NEW l \in leases, Abort(l)
    PROVE  \A b \in Agents : Continues(b)
<1> DEFINE a == l.agent
<1>1. /\ LeaseOwned(l)
      /\ agents' = [SettledAgents EXCEPT ![a] = AbsentRow("deleted")]
      /\ SettledAgents[a].conv = NoConversation
  BY DEF Abort, ActiveLease, PutAgent
<1>2. a \in Agents
  BY <1>1, OwnedFacts DEF Lease
<1>3. agents'[a] = AbsentRow("deleted")
  BY <1>1, <1>2, SettledType DEF Inv
<1>4. Continues(a)
  BY <1>1, <1>3 DEF Continues, AbsentRow, Claimed, Active
<1>5. QED
  BY <1>1, <1>2, <1>4, OneContinues

LEMMA CancelContinues ==
    ASSUME Inv, NEW a \in Agents, CancelActive(a) \/ CancelInactive(a)
    PROVE  \A b \in Agents : Continues(b)
<1> DEFINE row == SettledAgents[a]
<1>1. row \in AgentRow /\ row.runtime \in Runtimes \cup {NoRuntime}
  BY SettledKeeps DEF AgentRow
<1>2. CASE CancelActive(a)
  <2> DEFINE new == Leased(Canceling(row), row.runtime)
  <2>1. /\ row.status \in Active
        /\ agents' = [SettledAgents EXCEPT ![a] = new]
    BY <1>2 DEF CancelActive, PutAgent
  <2>2. /\ new.status = "canceling" /\ new.gen = row.gen
        /\ new.owner = row.owner /\ new.runtime = row.runtime
        /\ new.conv = row.conv
    BY <1>1, CancelingRow, LeasedRow DEF Inv
  <2> HIDE DEF new
  <2>3. agents'[a] = new
    BY <2>1, SettledType DEF Inv
  <2>4. Continues(a)
    BY <2>1, <2>2, <2>3 DEF Continues, Claimed, Active
  <2>5. QED
    BY <2>1, <2>4, OneContinues
<1>3. CASE CancelInactive(a)
  <2> DEFINE new == Released(row, "canceled")
  <2>1. agents' = [SettledAgents EXCEPT ![a] = new]
    BY <1>3 DEF CancelInactive, PutAgent
  <2>2. new.status = "canceled" /\ new.gen = row.gen /\ new.conv = row.conv
    BY <1>1, ReleasedRow DEF Claimable
  <2> HIDE DEF new
  <2>3. agents'[a] = new
    BY <2>1, SettledType DEF Inv
  <2>4. Continues(a)
    BY <2>2, <2>3 DEF Continues, Claimed, Active
  <2>5. QED
    BY <2>1, <2>4, OneContinues
<1>4. QED
  BY <1>2, <1>3

LEMMA InterruptRuntimeContinues ==
    ASSUME Inv, NEW r \in Runtimes, NEW report \in Reports,
           InterruptRuntime(r, report)
    PROVE  \A b \in Agents : Continues(b)
<1>1. SUFFICES ASSUME NEW b \in Agents PROVE Continues(b)
  OBVIOUS
<1>2. SettledAgents[b] \in AgentRow
  BY SettledKeeps
<1>3. \/ agents'[b] = SettledAgents[b]
      \/ agents'[b] = Released(SettledAgents[b], "interrupted")
  BY DEF InterruptRuntime
<1>4. CASE agents'[b] = Released(SettledAgents[b], "interrupted")
  <2>1. /\ agents'[b].status = "interrupted"
        /\ agents'[b].gen = SettledAgents[b].gen
        /\ agents'[b].conv = SettledAgents[b].conv
    BY <1>2, <1>4, ReleasedRow DEF Claimable
  <2>2. QED
    BY <2>1 DEF Continues, Claimed, Active
<1>5. QED
  BY <1>3, <1>4, UntouchedContinues

(* Whatever a worker does continues every agent's row.                     *)
LEMMA WorkerContinues ==
    ASSUME Inv, NEW l \in leases, WorkerStep(l)
    PROVE  \A b \in Agents : Continues(b)
<1>1. ASSUME KeepAgents PROVE \A b \in Agents : Continues(b)
  BY <1>1, UntouchedContinues DEF KeepAgents
<1>2. QED
  BY <1>1, AbortContinues, AttachContinues, MarkRunningContinues,
     TerminalContinues, RenewContinues, CompleteCancelContinues
  DEF WorkerStep, NextSteering, AcknowledgeSteering

(* A claim is taken within the limits, in a new generation, with a lease   *)
(* that is handed out.                                                     *)
Claims(a) ==
    LET row == SettledAgents[a]
        new == agents'[a]
    IN  /\ row.status \in Claimable \cup {"unused"}
        /\ WithinLimits(new.owner)
        /\ new.status = "starting" /\ new.gen = row.gen + 1
        /\ new.conv = row.conv
        /\ [agent |-> a, gen |-> new.gen, runtime |-> new.runtime] \in leases'

LEMMA CreateClaims ==
    ASSUME Inv, NEW r \in Runtimes, NEW owner \in Owners, NEW a \in Agents,
           Create(r, owner, a)
    PROVE  /\ Claims(a)
           /\ \A b \in Agents \ {a} : agents'[b] = SettledAgents[b]
<1>1. /\ agents[a].status = "unused" /\ WithinLimits(owner)
      /\ agents' = [SettledAgents EXCEPT ![a] =
           [owner |-> owner, status |-> "starting", gen |-> 1,
            conv |-> NoConversation, runtime |-> r,
            expires |-> now + LeaseDuration]]
      /\ [agent |-> a, gen |-> 1, runtime |-> r] \in leases'
  BY DEF Create, PutAgent
<1>2. SettledAgents[a] = agents[a]
  BY <1>1 DEF SettledAgents, Expired, Claimed
<1>3. agents[a] = AbsentRow("unused")
  BY <1>1 DEF Inv, TablesAgree, RowAgrees, Absent
<1>4. /\ agents'[a].owner = owner /\ agents'[a].status = "starting"
      /\ agents'[a].gen = 1 /\ agents'[a].conv = NoConversation
      /\ agents'[a].runtime = r
      /\ \A b \in Agents \ {a} : agents'[b] = SettledAgents[b]
  BY <1>1, SettledType DEF Inv
<1>5. QED
  BY <1>1, <1>2, <1>3, <1>4 DEF Claims, AbsentRow

LEMMA ClaimClaims ==
    ASSUME Inv, NEW r \in Runtimes, NEW a \in Agents, Claim(r, a)
    PROVE  /\ Claims(a)
           /\ \A b \in Agents \ {a} : agents'[b] = SettledAgents[b]
<1> DEFINE row == SettledAgents[a]
           gen == row.gen + 1
           new == Leased(Restarted(row, gen), r)
<1>1. /\ row.status \in Claimable /\ WithinLimits(row.owner)
      /\ gen \in Generations
      /\ agents' = [SettledAgents EXCEPT ![a] = new]
      /\ [agent |-> a, gen |-> gen, runtime |-> r] \in leases'
  BY DEF Claim, PutAgent
<1>2. row \in AgentRow /\ r \in Runtimes \cup {NoRuntime}
  BY SettledKeeps
<1>3. /\ new.status = "starting" /\ new.gen = gen /\ new.runtime = r
      /\ new.owner = row.owner /\ new.conv = row.conv
  BY <1>1, <1>2, RestartedRow, LeasedRow DEF Inv
<1> HIDE DEF new
<1>4. /\ agents'[a] = new
      /\ \A b \in Agents \ {a} : agents'[b] = SettledAgents[b]
  BY <1>1, SettledType DEF Inv
<1>5. QED
  BY <1>1, <1>3, <1>4 DEF Claims

(* The whole of it: a step changes no row, continues all, or claims one.   *)
LEMMA NextRows ==
    ASSUME Inv, [Next]_vars
    PROVE  \/ agents' = agents
           \/ \A b \in Agents : Continues(b)
           \/ \E a \in Agents :
                 /\ Claims(a)
                 /\ \A b \in Agents \ {a} : agents'[b] = SettledAgents[b]
<1>1. ASSUME KeepAgents PROVE \A b \in Agents : Continues(b)
  BY <1>1, UntouchedContinues DEF KeepAgents
<1>2. ASSUME NEW a \in Agents, ParentStep(a)
      PROVE  \/ \A b \in Agents : Continues(b)
             \/ /\ Claims(a)
                /\ \A b \in Agents \ {a} : agents'[b] = SettledAgents[b]
  BY <1>1, <1>2, CreateClaims, ClaimClaims, CancelContinues
  DEF ParentStep, EnqueueSteering
<1>3. CASE Reconcile
  BY <1>1, <1>3 DEF Reconcile
<1>4. CASE SetClock \/ UNCHANGED vars
  BY <1>4 DEF SetClock, vars
<1>5. QED
  BY <1>2, <1>3, <1>4, WorkerContinues, InterruptRuntimeContinues DEF Next

-----------------------------------------------------------------------------
(* The leases of the claims.                                               *)

LeasesAreHandedOut ==
    \A a \in Agents :
        agents[a].status \in Claimed =>
            [agent |-> a, gen |-> agents[a].gen, runtime |-> agents[a].runtime]
              \in leases

(* The store forgets no lease.                                             *)
LEMMA LeasesStay ==
    ASSUME [Next]_vars
    PROVE  leases \subseteq leases'
BY DEF Next, vars, ParentStep, Create, Claim, CancelActive, CancelInactive,
       EnqueueSteering, WorkerStep, Abort, AttachConversation,
       AttachCancelingConversation, Attach, MarkRunning, Terminal, Heartbeat,
       HeartbeatCanceling, RenewLease, CompleteCancel, NextSteering,
       AcknowledgeSteering, InterruptRuntime, Reconcile, SetClock

LEMMA NextHandedOut ==
    ASSUME Inv, LeasesAreHandedOut, [Next]_vars
    PROVE  LeasesAreHandedOut'
<1>1. leases \subseteq leases'
  BY LeasesStay
<1>2. ASSUME NEW a \in Agents, Continues(a), agents'[a].status \in Claimed
      PROVE  [agent |-> a, gen |-> agents'[a].gen,
              runtime |-> agents'[a].runtime] \in leases'
  <2>1. SettledAgents[a].status \in Claimed
    BY <1>2 DEF Continues
  <2>2. SettledAgents[a] = agents[a]
    BY <2>1, SettledKeeps
  <2>3. /\ agents'[a].gen = agents[a].gen
        /\ agents'[a].runtime = agents[a].runtime
    BY <1>2, <2>2 DEF Continues, Claimed
  <2>4. QED
    BY <1>1, <2>1, <2>2, <2>3 DEF LeasesAreHandedOut
<1>3. ASSUME NEW a \in Agents, agents'[a] = SettledAgents[a]
      PROVE  Continues(a)
  BY <1>3, UntouchedContinues
<1>4. CASE agents' = agents
  BY <1>1, <1>4 DEF LeasesAreHandedOut
<1>5. CASE \A b \in Agents : Continues(b)
  BY <1>2, <1>5 DEF LeasesAreHandedOut
<1>6. CASE \E a \in Agents :
              /\ Claims(a)
              /\ \A b \in Agents \ {a} : agents'[b] = SettledAgents[b]
  BY <1>2, <1>3, <1>6 DEF Claims, LeasesAreHandedOut
<1>7. QED
  BY <1>4, <1>5, <1>6, NextRows

LEMMA TablesAndLeases ==
    TablesAgree /\ LeasesAreHandedOut => RowsAgree
BY DEF TablesAgree, LeasesAreHandedOut, RowsAgree, RowAgrees,
       LeaseColumnsFollowStatus

(* Agent rows, run rows and leases tell one story after any sequence of    *)
(* calls: an agent is claimed exactly while it has a lease, its current    *)
(* run has the status its row says, and all earlier runs are over.         *)
THEOREM RowsAlwaysAgree == Spec => []RowsAgree
<1>1. Init => LeasesAreHandedOut
  BY DEF Init, LeasesAreHandedOut, AbsentRow, Claimed
<1>2. Inv /\ LeasesAreHandedOut => RowsAgree
  BY TablesAndLeases DEF Inv
<1>3. QED
  BY <1>1, <1>2, InitInv, NextInv, NextHandedOut, PTL DEF Spec

-----------------------------------------------------------------------------
(* The limits.                                                             *)

LEMMA SmallerSet ==
    ASSUME NEW S, IsFiniteSet(S), NEW T \in SUBSET S, NEW n \in Nat,
           Cardinality(S) <= n
    PROVE  Cardinality(T) <= n
<1>1. /\ IsFiniteSet(T) /\ Cardinality(T) <= Cardinality(S)
  BY FS_Subset
<1>2. Cardinality(T) \in Nat /\ Cardinality(S) \in Nat
  BY <1>1, FS_CardinalityType
<1>3. QED
  BY <1>1, <1>2

LEMMA OneMore ==
    ASSUME NEW S, IsFiniteSet(S), NEW a, NEW T \in SUBSET (S \cup {a}),
           NEW n \in Nat, Cardinality(S) < n
    PROVE  Cardinality(T) <= n
<1>1. /\ IsFiniteSet(S \cup {a})
      /\ Cardinality(S \cup {a}) =
           IF a \in S THEN Cardinality(S) ELSE Cardinality(S) + 1
  BY FS_AddElement
<1>2. Cardinality(S) \in Nat
  BY FS_CardinalityType
<1>3. Cardinality(S \cup {a}) <= n
  BY <1>1, <1>2
<1>4. QED
  BY <1>1, <1>3, SmallerSet

(* The claims of one owner, before and after reconciliation.               *)
ClaimsOf(owner) == {a \in ClaimedAgents : agents[a].owner = owner}
SettledClaims == {a \in Agents : SettledAgents[a].status \in Claimed}
SettledClaimsOf(owner) ==
    {a \in SettledClaims : SettledAgents[a].owner = owner}

LEMMA ClaimsAreFinite ==
    ASSUME NEW owner
    PROVE  /\ IsFiniteSet(ClaimedAgents) /\ IsFiniteSet(ClaimsOf(owner))
           /\ IsFiniteSet(SettledClaims)
           /\ IsFiniteSet(SettledClaimsOf(owner))
<1>1. /\ ClaimedAgents \in SUBSET Agents /\ ClaimsOf(owner) \in SUBSET Agents
      /\ SettledClaims \in SUBSET Agents
      /\ SettledClaimsOf(owner) \in SUBSET Agents
  BY DEF ClaimedAgents, ClaimsOf, SettledClaims, SettledClaimsOf
<1>2. IsFiniteSet(Agents)
  BY LimitAssumption
<1>3. QED
  BY <1>1, <1>2, FS_Subset

(* Reconciliation takes no claim.                                          *)
LEMMA SettledClaimsShrink ==
    ASSUME Inv, NEW owner
    PROVE  /\ SettledClaims \subseteq ClaimedAgents
           /\ SettledClaimsOf(owner) \subseteq ClaimsOf(owner)
BY SettledKeeps DEF SettledClaims, SettledClaimsOf, ClaimedAgents, ClaimsOf

(* A claimed row that continues was claimed before, for the same owner.    *)
LEMMA ContinuesClaims ==
    ASSUME Inv, NEW owner, \A b \in Agents : Continues(b)
    PROVE  /\ ClaimedAgents' \subseteq ClaimedAgents
           /\ ClaimsOf(owner)' \subseteq ClaimsOf(owner)
<1>1. ASSUME NEW b \in Agents, agents'[b].status \in Claimed
      PROVE  b \in SettledClaims /\ agents'[b].owner = SettledAgents[b].owner
  BY <1>1 DEF Continues, SettledClaims
<1>2. /\ ClaimedAgents' \subseteq SettledClaims
      /\ ClaimsOf(owner)' \subseteq SettledClaimsOf(owner)
  BY <1>1 DEF ClaimedAgents, ClaimsOf, SettledClaimsOf
<1>3. QED
  BY <1>2, SettledClaimsShrink

LEMMA NextLimits ==
    ASSUME Inv, LimitsHold, [Next]_vars
    PROVE  LimitsHold'
<1>1. /\ MaxActiveAgentsPerConversation \in Nat
      /\ MaxActiveAgentsTotal \in Nat
  BY LimitAssumption
<1>2. /\ Cardinality(ClaimedAgents) <= MaxActiveAgentsTotal
      /\ \A owner \in Owners :
            Cardinality(ClaimsOf(owner)) <= MaxActiveAgentsPerConversation
  BY DEF LimitsHold, ClaimsOf
<1>3. CASE agents' = agents
  BY <1>3 DEF LimitsHold, ClaimedAgents
<1>4. CASE \A b \in Agents : Continues(b)
  <2>1. Cardinality(ClaimedAgents') <= MaxActiveAgentsTotal
    BY <1>1, <1>2, <1>4, ContinuesClaims, ClaimsAreFinite, SmallerSet
  <2>2. ASSUME NEW owner \in Owners
        PROVE  Cardinality(ClaimsOf(owner)') <= MaxActiveAgentsPerConversation
    BY <1>1, <1>2, <1>4, ContinuesClaims, ClaimsAreFinite, SmallerSet
  <2>3. QED
    BY <2>1, <2>2 DEF LimitsHold, ClaimsOf
<1>5. ASSUME NEW a \in Agents, Claims(a),
             \A b \in Agents \ {a} : agents'[b] = SettledAgents[b]
      PROVE  LimitsHold'
  <2> DEFINE claimant == agents'[a].owner
  <2>1. /\ Cardinality(SettledClaimsOf(claimant))
             < MaxActiveAgentsPerConversation
        /\ Cardinality(SettledClaims) < MaxActiveAgentsTotal
    BY <1>5 DEF Claims, WithinLimits, SettledClaims, SettledClaimsOf
  <2>2. ClaimedAgents' \subseteq SettledClaims \cup {a}
    BY <1>5 DEF ClaimedAgents, SettledClaims
  <2>3. Cardinality(ClaimedAgents') <= MaxActiveAgentsTotal
    BY <1>1, <2>1, <2>2, ClaimsAreFinite, OneMore
  <2>4. ASSUME NEW owner \in Owners
        PROVE  Cardinality(ClaimsOf(owner)') <= MaxActiveAgentsPerConversation
    <3>1. ClaimsOf(owner)' \subseteq SettledClaimsOf(owner) \cup {a}
      BY <1>5 DEF ClaimsOf, ClaimedAgents, SettledClaims, SettledClaimsOf
    <3>2. CASE owner = claimant
      BY <1>1, <2>1, <3>1, <3>2, ClaimsAreFinite, OneMore
    <3>3. CASE owner # claimant
      <4>1. a \notin ClaimsOf(owner)'
        BY <3>3 DEF ClaimsOf
      <4>2. ClaimsOf(owner)' \subseteq ClaimsOf(owner)
        BY <3>1, <4>1, SettledClaimsShrink
      <4>3. QED
        BY <1>1, <1>2, <4>2, ClaimsAreFinite, SmallerSet
    <3>4. QED
      BY <3>2, <3>3
  <2>5. QED
    BY <2>3, <2>4 DEF LimitsHold, ClaimsOf
<1>6. QED
  BY <1>3, <1>4, <1>5, NextRows

LEMMA InitLimits == Init => LimitsHold
<1>1. SUFFICES ASSUME Init PROVE LimitsHold
  OBVIOUS
<1>2. ClaimedAgents = {}
  BY <1>1 DEF Init, ClaimedAgents, AbsentRow, Claimed
<1>3. \A owner \in Owners :
        {a \in ClaimedAgents : agents[a].owner = owner} = {}
  BY <1>2
<1>4. QED
  BY <1>2, <1>3, FS_EmptySet, LimitAssumption DEF LimitsHold

(* At no time do more agents of a conversation, or of all, hold claims     *)
(* than the limits allow, whatever their numbers: creations and follow-ups *)
(* of any processes, expiries and unfinished cancellations included        *)
(* (checkLimitsTx).                                                        *)
THEOREM LimitsAlwaysHold == Spec => []LimitsHold
<1>1. Inv /\ LimitsHold /\ [Next]_vars => LimitsHold'
  BY NextLimits
<1>2. QED
  BY <1>1, InitInv, NextInv, InitLimits, PTL DEF Spec

-----------------------------------------------------------------------------
(* Child conversations.                                                    *)

(* At most one agent's conversation changes in a step: it had none, and    *)
(* gets one that no other agent has.                                       *)
LEMMA NextConversations ==
    ASSUME Inv, [Next]_vars, NEW a \in Agents
    PROVE  \/ agents'[a].conv = agents[a].conv
           \/ /\ agents[a].conv = NoConversation
              /\ \A b \in Agents \ {a} :
                    /\ agents[b].conv # agents'[a].conv
                    /\ agents'[b].conv = agents[b].conv
<1>1. \A b \in Agents : SettledAgents[b].conv = agents[b].conv
  BY SettledKeeps
<1>2. CASE \A b \in Agents : Continues(b)
  BY <1>1, <1>2 DEF Continues
<1>3. ASSUME NEW c \in Agents, Claims(c),
             \A b \in Agents \ {c} : agents'[b] = SettledAgents[b]
      PROVE  agents'[a].conv = agents[a].conv
  BY <1>1, <1>3 DEF Claims
<1>4. QED
  BY <1>2, <1>3, NextRows

LEMMA NextDistinct ==
    ASSUME Inv, ConversationsAreDistinct, [Next]_vars
    PROVE  ConversationsAreDistinct'
<1>1. SUFFICES ASSUME NEW a \in Agents, NEW b \in Agents, a # b,
                      agents'[a].conv # NoConversation
               PROVE  agents'[a].conv # agents'[b].conv
  BY DEF ConversationsAreDistinct
<1>2. \/ agents'[a].conv = agents[a].conv
      \/ /\ agents[a].conv = NoConversation
         /\ agents[b].conv # agents'[a].conv
         /\ agents'[b].conv = agents[b].conv
  BY <1>1, NextConversations
<1>3. \/ agents'[b].conv = agents[b].conv
      \/ agents[a].conv # agents'[b].conv /\ agents'[a].conv = agents[a].conv
  BY <1>1, NextConversations
<1>4. QED
  BY <1>1, <1>2, <1>3 DEF ConversationsAreDistinct

(* Two agents never share a child conversation, for any numbers of them.   *)
THEOREM ConversationsStayDistinct == Spec => []ConversationsAreDistinct
<1>1. Init => ConversationsAreDistinct
  BY DEF Init, ConversationsAreDistinct, AbsentRow
<1>2. Inv /\ ConversationsAreDistinct /\ [Next]_vars
        => ConversationsAreDistinct'
  BY NextDistinct
<1>3. QED
  BY <1>1, <1>2, InitInv, NextInv, PTL DEF Spec

Sticking == \A a \in Agents : agents[a].conv # NoConversation
              => agents'[a].conv = agents[a].conv

(* An attached conversation is never changed or detached: a deleted agent  *)
(* had none.                                                               *)
THEOREM ConversationsNeverChange == Spec => ConversationsStick
<1>1. Inv /\ [Next]_vars => [Sticking]_vars
  BY NextConversations DEF Sticking
<1>2. QED
  BY <1>1, InitInv, NextInv, PTL DEF Spec, ConversationsStick, Sticking
=============================================================================
