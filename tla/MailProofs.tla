----------------------------- MODULE MailProofs -----------------------------
(***************************************************************************)
(* Proofs about MailStore for all values of its constants: completion mail *)
(* tells the outcome of a run that is over, exactly the transaction that   *)
(* ends a run reports it, to the team of that moment, and receipts of      *)
(* wait_agent cover exactly the mail they are for.                         *)
(*                                                                         *)
(* The argument has one hinge, Reported: in every transaction, the events   *)
(* it reconciles and those it adds of its own are exactly the runs that    *)
(* were not over before it and are over after it.                          *)
(*                                                                         *)
(* A database with agents from before is no initial state of AgentStore,   *)
(* but every step of the mailbox is one of its steps, or leaves its tables *)
(* alone: what its steps preserve is preserved here.                       *)
(***************************************************************************)
EXTENDS MailStore, FencedProofs

-----------------------------------------------------------------------------
(* Events.                                                                 *)

LEMMA EventFacts ==
    ASSUME NEW a \in Agents, NEW g \in Generations
    PROVE  /\ TerminalOf(a, g) \in Event /\ JoinedOf(a) \in Event
           /\ Subject(TerminalOf(a, g)) = a /\ Subject(JoinedOf(a)) = a
           /\ \A b, h : TerminalOf(b, h) = TerminalOf(a, g) <=> b = a /\ h = g
           /\ \A b : JoinedOf(b) = JoinedOf(a) <=> b = a
           /\ \A b, h : JoinedOf(a) # TerminalOf(b, h)
BY DEF TerminalOf, JoinedOf, Event, Subject

LEMMA EventCases ==
    ASSUME NEW e \in Event
    PROVE  /\ Subject(e) \in Agents
           /\ \/ \E a \in Agents : e = JoinedOf(a)
              \/ \E a \in Agents, g \in Generations : e = TerminalOf(a, g)
BY DEF TerminalOf, JoinedOf, Event, Subject

-----------------------------------------------------------------------------
(* Which runs a transaction ends.                                          *)

(* A run that is over once the expired claims are settled.                 *)
SettledOver(a, g) ==
    /\ SettledRuns[a][g].status \in TerminalRun
    /\ ~ (SettledAgents[a].gen = g /\ SettledAgents[a].status = "canceling")

(* What reconciliation ends, and it reports just that.                     *)
LEMMA ReapedRunsEnd ==
    ASSUME Inv, NEW a \in Agents, NEW g \in Generations
    PROVE  /\ Over(a, g) => SettledOver(a, g)
           /\ TerminalOf(a, g) \in ReapedNotices
                <=> ~Over(a, g) /\ SettledOver(a, g)
<1>1. /\ agents[a] \in AgentRow /\ runs[a] \in [Generations -> RunRow]
      /\ RowAgrees(a, agents[a], runs[a], Lease)
  BY DEF Inv, TypeOK, TablesAgree
<1>2. TerminalOf(a, g) \in ReapedNotices <=>
         /\ Expired(agents[a]) /\ agents[a].gen = g
         /\ agents[a].status \in Active \/ runs[a][g].status = "canceled"
  BY EventFacts DEF ReapedNotices, CurrentRun
<1>3. CASE ~Expired(agents[a])
  <2>1. SettledAgents[a] = agents[a] /\ SettledRuns[a] = runs[a]
    BY <1>3 DEF SettledAgents, SettledRuns
  <2>2. QED
    BY <1>2, <1>3, <2>1 DEF SettledOver, Over
<1>4. CASE Expired(agents[a]) /\ agents[a].gen # g
  <2>1. /\ SettledRuns[a][g] = runs[a][g]
        /\ SettledAgents[a].gen = agents[a].gen
    BY <1>1, <1>4, SettledKeeps DEF SettledRuns
  <2>2. QED
    BY <1>2, <1>4, <2>1 DEF SettledOver, Over
<1>5. CASE Expired(agents[a]) /\ agents[a].gen = g
  <2>1. agents[a].status \in Claimed /\ g # 0
    BY <1>5 DEF Expired, Generations
  <2>2. CurrentRunFollowsStatus(agents[a], runs[a][g])
    BY <1>1, <1>5, <2>1 DEF RowAgrees
  <2>3. SettledRuns[a][g] = ReapedRun(agents[a], runs[a][g])
    BY <1>1, <1>5 DEF SettledRuns
  <2>4. SettledAgents[a] = ReapedRow(agents[a], runs[a][g])
    BY <1>5 DEF SettledAgents
  <2>5. CASE agents[a].status = "canceling"
    <3>1. runs[a][g].status = "canceled"
      BY <2>2, <2>5 DEF CurrentRunFollowsStatus
    <3>2. SettledAgents[a].status = "canceled"
      BY <1>1, <2>4, <2>5, <3>1, ReleasedRow
      DEF ReapedRow, CanceledRow, Claimable
    <3>3. SettledRuns[a][g].status = "canceled"
      BY <2>3, <2>5, <3>1 DEF ReapedRun
    <3>4. QED
      BY <1>2, <1>5, <2>5, <3>1, <3>2, <3>3
      DEF SettledOver, Over, TerminalRun
  <2>6. CASE agents[a].status # "canceling"
    <3>1. agents[a].status \in Active
      BY <2>1, <2>6 DEF Claimed, Active
    <3>2. runs[a][g].status \in ActiveRun
      BY <2>2, <3>1 DEF CurrentRunFollowsStatus, Active, ActiveRun
    <3>3. SettledAgents[a].status = "interrupted"
      BY <1>1, <2>4, <2>6, ReleasedRow DEF ReapedRow, Claimable
    <3>4. SettledRuns[a][g].status = "interrupted"
      <4>1. ReapedRun(agents[a], runs[a][g])
              = [status |-> "interrupted", report |-> "agent lease expired"]
        BY <2>6, <3>2, Zenon DEF ReapedRun, InterruptedRun
      <4>2. SettledRuns[a][g]
              = [status |-> "interrupted", report |-> "agent lease expired"]
        BY <2>3, <4>1, Zenon
      <4>3. PICK report : report = "agent lease expired"
        OBVIOUS
      <4>4. SettledRuns[a][g] = [status |-> "interrupted", report |-> report]
        BY <4>2, <4>3
      <4>5. QED
        BY <4>4
    <3>5. QED
      BY <1>2, <1>5, <3>1, <3>2, <3>3, <3>4
      DEF SettledOver, Over, TerminalRun, ActiveRun
  <2>7. QED
    BY <2>5, <2>6
<1>6. QED
  BY <1>3, <1>4, <1>5

(* What the transaction itself ends, on top of the settled rows.           *)
Ends(own) ==
    \A a \in Agents, g \in Generations :
        /\ SettledOver(a, g) => Over(a, g)'
        /\ TerminalOf(a, g) \in own <=> ~SettledOver(a, g) /\ Over(a, g)'

Reported(own) ==
    \A a \in Agents, g \in Generations :
        /\ Over(a, g) => Over(a, g)'
        /\ TerminalOf(a, g) \in ReapedNotices \cup own
             <=> ~Over(a, g) /\ Over(a, g)'

LEMMA EndsAreReported ==
    ASSUME Inv, NEW own, Ends(own)
    PROVE  Reported(own)
BY ReapedRunsEnd DEF Ends, Reported

(* A run of an agent whose rows stay as they were settled.                 *)
LEMMA UntouchedOver ==
    ASSUME NEW a \in Agents, NEW g \in Generations,
           agents'[a] = SettledAgents[a], runs'[a] = SettledRuns[a]
    PROVE  SettledOver(a, g) <=> Over(a, g)'
BY DEF SettledOver, Over

(* A write to the rows of one agent ends no other agent's runs.            *)
LEMMA OneAgentEnds ==
    ASSUME NEW a \in Agents, NEW own, NEW ending,
           \A b \in Agents \ {a} : /\ agents'[b] = SettledAgents[b]
                                   /\ runs'[b] = SettledRuns[b],
           own = {TerminalOf(a, g) : g \in ending},
           \A g \in Generations :
              /\ SettledOver(a, g) => Over(a, g)'
              /\ g \in ending <=> ~SettledOver(a, g) /\ Over(a, g)'
    PROVE  Ends(own)
<1> SUFFICES ASSUME NEW b \in Agents, NEW g \in Generations
             PROVE  /\ SettledOver(b, g) => Over(b, g)'
                    /\ TerminalOf(b, g) \in own
                         <=> ~SettledOver(b, g) /\ Over(b, g)'
  BY DEF Ends
<1>1. TerminalOf(b, g) \in own <=> b = a /\ g \in ending
  BY EventFacts
<1>2. CASE b = a
  BY <1>1, <1>2
<1>3. CASE b # a
  BY <1>1, <1>3, UntouchedOver
<1>4. QED
  BY <1>2, <1>3

(* The transactions that end no run of their own.                          *)

LEMMA KeepRowsEnds ==
    ASSUME KeepAgents, KeepRuns
    PROVE  Ends({})
BY UntouchedOver DEF KeepAgents, KeepRuns, Ends

(* A write to one agent that keeps which of its runs are over.             *)
LEMMA QuietEnds ==
    ASSUME NEW a \in Agents,
           \A b \in Agents \ {a} : /\ agents'[b] = SettledAgents[b]
                                   /\ runs'[b] = SettledRuns[b],
           \A g \in Generations : SettledOver(a, g) <=> Over(a, g)'
    PROVE  Ends({})
<1>1. PICK ending : ending = {}
  OBVIOUS
<1>2. {} = {TerminalOf(a, g) : g \in ending}
  BY <1>1
<1>3. QED
  BY <1>1, <1>2, OneAgentEnds

(* The same, spelt out for the writes of one agent and one run of it.      *)
LEMMA OneRunQuiet ==
    ASSUME Inv, NEW a \in Agents, NEW g \in Generations, NEW row, NEW run,
           PutAgent(a, row), PutRun(a, g, run),
           SettledAgents[a].status # "canceling" \/ SettledAgents[a].gen = g,
           row.status # "canceling" \/ row.gen = g,
           run.status \notin TerminalRun \/ row.status = "canceling",
           \/ SettledRuns[a][g].status \notin TerminalRun
           \/ SettledAgents[a].status = "canceling"
    PROVE  Ends({})
<1>1. /\ SettledAgents \in [Agents -> AgentRow]
      /\ SettledRuns \in [Agents -> [Generations -> RunRow]]
  BY SettledType DEF Inv
<1>2. /\ agents' = [SettledAgents EXCEPT ![a] = row]
      /\ runs' = [SettledRuns EXCEPT ![a][g] = run]
  BY DEF PutAgent, PutRun
<1>3. /\ agents'[a] = row /\ runs'[a][g] = run
      /\ \A h \in Generations : h # g => runs'[a][h] = SettledRuns[a][h]
      /\ \A b \in Agents \ {a} : /\ agents'[b] = SettledAgents[b]
                                 /\ runs'[b] = SettledRuns[b]
  BY <1>1, <1>2
<1>4. ASSUME NEW h \in Generations
      PROVE  SettledOver(a, h) <=> Over(a, h)'
  <2>1. CASE h # g
    BY <1>3, <2>1 DEF SettledOver, Over
  <2>2. CASE h = g
    BY <1>3, <2>2 DEF SettledOver, Over
  <2>3. QED
    BY <2>1, <2>2
<1>5. QED
  BY <1>3, <1>4, QuietEnds

(* The same when the runs are kept.                                        *)
LEMMA OneRowQuiet ==
    ASSUME Inv, NEW a \in Agents, NEW row,
           PutAgent(a, row), KeepRuns,
           \/ /\ row.gen = SettledAgents[a].gen
              /\ row.status = "canceling"
                   <=> SettledAgents[a].status = "canceling"
           \/ /\ row.status # "canceling"
              /\ SettledAgents[a].status # "canceling"
    PROVE  Ends({})
<1>1. SettledAgents \in [Agents -> AgentRow]
  BY SettledType DEF Inv
<1>2. /\ agents'[a] = row
      /\ runs' = SettledRuns
      /\ \A b \in Agents \ {a} : agents'[b] = SettledAgents[b]
  BY <1>1 DEF PutAgent, KeepRuns
<1>3. \A g \in Generations : SettledOver(a, g) <=> Over(a, g)'
  BY <1>2 DEF SettledOver, Over
<1>4. QED
  BY <1>2, <1>3, QuietEnds

LEMMA CreateEnds ==
    ASSUME Inv, NEW r \in Runtimes, NEW owner \in Owners, NEW a \in Agents,
           Create(r, owner, a)
    PROVE  Ends({})
<1>1. agents[a].status = "unused" /\ agents[a].gen = 0
  BY DEF Create, Inv, TablesAgree, RowAgrees, Absent
<1>2. SettledAgents[a] = agents[a] /\ SettledRuns[a] = runs[a]
  BY <1>1 DEF SettledAgents, SettledRuns, Expired, Claimed
<1>3. 1 \in Generations
  BY BoundAssumption DEF Generations
<1>4. runs[a][1] = NoRun
  BY <1>1, <1>3 DEF Inv, TablesAgree, RowAgrees, OtherRunsAreOver
<1>5. PICK row, run :
        /\ PutAgent(a, row) /\ PutRun(a, 1, run)
        /\ row.status = "starting" /\ run.status = "starting"
  BY DEF Create
<1>6. QED
  BY <1>1, <1>2, <1>3, <1>4, <1>5, OneRunQuiet DEF NoRun, TerminalRun

LEMMA ClaimEnds ==
    ASSUME Inv, NEW r \in Runtimes, NEW a \in Agents, Claim(r, a)
    PROVE  Ends({})
<1> DEFINE row == SettledAgents[a]
           gen == row.gen + 1
           new == Leased(Restarted(row, gen), r)
<1>1. /\ row.status \in Claimable /\ gen \in Generations
      /\ PutAgent(a, new)
      /\ PutRun(a, gen, [status |-> "starting", report |-> NoReport])
  BY DEF Claim
<1>2. row \in AgentRow /\ RowAgrees(a, row, SettledRuns[a], Lease)
  BY SettledKeeps, SettledAgree DEF Inv
<1>3. new.status = "starting"
  BY <1>1, <1>2, RestartedRow, LeasedRow DEF Inv
<1>4. SettledRuns[a][gen] = NoRun
  BY <1>1, <1>2 DEF RowAgrees, OtherRunsAreOver, AgentRow
<1> HIDE DEF new, gen
<1>5. QED
  BY <1>1, <1>3, <1>4, OneRunQuiet DEF NoRun, TerminalRun, Claimable

LEMMA CancelEnds ==
    ASSUME Inv, NEW a \in Agents, CancelActive(a) \/ CancelInactive(a)
    PROVE  Ends({})
<1> DEFINE row == SettledAgents[a]
<1>1. row \in AgentRow /\ RowAgrees(a, row, SettledRuns[a], Lease)
  BY SettledKeeps, SettledAgree DEF Inv
<1>2. CASE CancelActive(a)
  <2>1. /\ row.status \in Active
        /\ PutAgent(a, Leased(Canceling(row), row.runtime))
    BY <1>2 DEF CancelActive
  <2>2. row.gen \in Generations
    BY <1>1, <2>1 DEF RowAgrees, AgentRow, Active, Absent, Generations
  <2>3. SettledRuns[a][row.gen].status \in ActiveRun
    BY <1>1, <2>1, <2>2
    DEF RowAgrees, CurrentRunFollowsStatus, Active, ActiveRun, Generations
  <2>4. PICK run : PutRun(a, row.gen, run)
    BY <1>2 DEF CancelActive
  <2>5. PICK new : /\ new = Leased(Canceling(row), row.runtime)
                   /\ new.status = "canceling" /\ new.gen = row.gen
    BY <1>1, CancelingRow, LeasedRow DEF Inv, AgentRow
  <2>6. QED
    BY <2>1, <2>2, <2>3, <2>4, <2>5, OneRunQuiet
    DEF Active, ActiveRun, TerminalRun
<1>3. CASE CancelInactive(a)
  <2>1. /\ row.status \in Claimable \ {"canceled"} /\ KeepRuns
        /\ PutAgent(a, Released(row, "canceled"))
    BY <1>3 DEF CancelInactive
  <2>2. Released(row, "canceled").status = "canceled"
    BY <1>1, ReleasedRow DEF Claimable
  <2>3. QED
    BY <2>1, <2>2, OneRowQuiet DEF Claimable
<1>4. QED
  BY <1>2, <1>3

LEMMA AbortEnds ==
    ASSUME Inv, NEW l \in leases, Abort(l)
    PROVE  Ends({})
<1>1. /\ ActiveLease(l) /\ l.gen = 1
      /\ SettledAgents[l.agent].status = "starting"
      /\ SettledRuns[l.agent][1].status = "starting"
      /\ PutAgent(l.agent, AbsentRow("deleted"))
      /\ PutRun(l.agent, 1, NoRun)
  BY DEF Abort
<1>2. l.agent \in Agents /\ 1 \in Generations
  BY BoundAssumption DEF Inv, TypeOK, Lease, Generations
<1>3. AbsentRow("deleted").status = "deleted" /\ NoRun.status = "none"
  BY DEF AbsentRow, NoRun
<1>4. QED
  BY <1>1, <1>2, <1>3, OneRunQuiet DEF TerminalRun

LEMMA AttachEnds ==
    ASSUME Inv, NEW l \in leases, NEW conv \in Conversations,
           AttachConversation(l, conv) \/ AttachCancelingConversation(l, conv)
    PROVE  Ends({})
<1>1. /\ PutAgent(l.agent, WithConversation(SettledAgents[l.agent], conv))
      /\ KeepRuns
  BY DEF AttachConversation, AttachCancelingConversation, Attach
<1>2. l.agent \in Agents
  BY DEF Inv, TypeOK, Lease
<1>3. SettledAgents[l.agent] \in AgentRow
  BY <1>2, SettledKeeps
<1>4. PICK row : /\ row = WithConversation(SettledAgents[l.agent], conv)
                 /\ row.status = SettledAgents[l.agent].status
                 /\ row.gen = SettledAgents[l.agent].gen
  BY <1>3, WithConversationRow
<1>5. QED
  BY <1>1, <1>2, <1>4, OneRowQuiet

LEMMA RenewEnds ==
    ASSUME Inv, NEW l \in leases, Heartbeat(l) \/ HeartbeatCanceling(l)
    PROVE  Ends({})
<1>1. /\ PutAgent(l.agent, Leased(SettledAgents[l.agent], l.runtime))
      /\ KeepRuns
  BY DEF Heartbeat, HeartbeatCanceling, RenewLease
<1>2. l.agent \in Agents /\ l.runtime \in Runtimes \cup {NoRuntime}
  BY DEF Inv, TypeOK, Lease
<1>3. SettledAgents[l.agent] \in AgentRow
  BY <1>2, SettledKeeps
<1>4. PICK row : /\ row = Leased(SettledAgents[l.agent], l.runtime)
                 /\ row.status = SettledAgents[l.agent].status
                 /\ row.gen = SettledAgents[l.agent].gen
  BY <1>2, <1>3, LeasedRow DEF Inv
<1>5. QED
  BY <1>1, <1>2, <1>4, OneRowQuiet

LEMMA MarkRunningEnds ==
    ASSUME Inv, NEW l \in leases, NEW conv \in Conversations,
           MarkRunning(l, conv)
    PROVE  Ends({})
<1> DEFINE row == SettledAgents[l.agent]
           run == [SettledRuns[l.agent][l.gen] EXCEPT !.status = "running"]
<1>1. /\ ActiveLease(l)
      /\ PutAgent(l.agent, Running(row, conv))
      /\ PutRun(l.agent, l.gen, run)
  BY DEF MarkRunning
<1>2. /\ l.agent \in Agents /\ l.gen \in Generations
      /\ row \in AgentRow /\ row.status \in Active
      /\ SettledRuns[l.agent][l.gen] \in RunRow
      /\ SettledRuns[l.agent][l.gen].status \in Active
  BY <1>1, ActiveFacts, OwnedFacts DEF Lease
<1>3. Running(row, conv).status = "running"
  BY <1>2, RunningRow
<1>4. run.status = "running"
  BY <1>2 DEF RunRow
<1> HIDE DEF run
<1>5. QED
  BY <1>1, <1>2, <1>3, <1>4, OneRunQuiet DEF Active, TerminalRun

-----------------------------------------------------------------------------
(* The transactions that end a run of their own.                           *)

LEMMA TerminalEnds ==
    ASSUME Inv, NEW l \in leases, NEW status \in DOMAIN RunStatusOf,
           NEW conv \in Conversations \cup {NoConversation},
           NEW report \in Reports, Terminal(l, status, conv, report)
    PROVE  Ends({TerminalOf(l.agent, l.gen)})
<1> DEFINE row == SettledAgents[l.agent]
           run == [status |-> RunStatusOf[status], report |-> report]
<1>1. PICK resolved \in Conversations \cup {NoConversation} :
        /\ ActiveLease(l)
        /\ PutRun(l.agent, l.gen, run)
        /\ PutAgent(l.agent, WithConversation(Released(row, status), resolved))
  <2>1. SettledAgents[l.agent] \in AgentRow
    BY SettledKeeps DEF Inv, TypeOK, Lease
  <2>2. PICK resolved : resolved = IF conv = NoConversation
                                   THEN row.conv ELSE conv
    OBVIOUS
  <2>3. resolved \in Conversations \cup {NoConversation}
    BY <2>1, <2>2 DEF AgentRow
  <2>4. QED
    BY <2>2, <2>3 DEF Terminal
<1>2. /\ l.agent \in Agents /\ l.gen \in Generations
      /\ row \in AgentRow /\ row.gen = l.gen /\ row.status \in Active
      /\ SettledRuns[l.agent][l.gen].status \in Active
  BY <1>1, ActiveFacts, OwnedFacts DEF Lease
<1>3. status \in Claimable /\ RunStatusOf[status] \in TerminalRun
  BY DEF RunStatusOf, Claimable, TerminalRun
<1>4. PICK new : /\ new = WithConversation(Released(row, status), resolved)
                 /\ new.status = status /\ new.gen = l.gen
  <2>1. /\ Released(row, status) \in AgentRow
        /\ Released(row, status).status = status
        /\ Released(row, status).gen = l.gen
    BY <1>2, <1>3, ReleasedRow
  <2>2. PICK released \in AgentRow :
          /\ released = Released(row, status)
          /\ released.status = status /\ released.gen = l.gen
    BY <2>1
  <2>3. /\ WithConversation(released, resolved).status = status
        /\ WithConversation(released, resolved).gen = l.gen
    BY <2>2, WithConversationRow
  <2>4. QED
    BY <2>2, <2>3
<1>5. run.status \in TerminalRun
  BY <1>3
<1> HIDE DEF run
<1>6. /\ agents' = [SettledAgents EXCEPT ![l.agent] = new]
      /\ runs' = [SettledRuns EXCEPT ![l.agent][l.gen] = run]
  BY <1>1, <1>4 DEF PutAgent, PutRun
<1>7. /\ SettledAgents \in [Agents -> AgentRow]
      /\ SettledRuns \in [Agents -> [Generations -> RunRow]]
  BY SettledType DEF Inv
<1>8. /\ agents'[l.agent] = new /\ runs'[l.agent][l.gen] = run
      /\ \A h \in Generations :
            h # l.gen => runs'[l.agent][h] = SettledRuns[l.agent][h]
      /\ \A b \in Agents \ {l.agent} : /\ agents'[b] = SettledAgents[b]
                                       /\ runs'[b] = SettledRuns[b]
  BY <1>2, <1>6, <1>7
<1>9. \A g \in Generations :
        /\ SettledOver(l.agent, g) => Over(l.agent, g)'
        /\ g \in {l.gen} <=> ~SettledOver(l.agent, g) /\ Over(l.agent, g)'
  <2>1. ~SettledOver(l.agent, l.gen) /\ Over(l.agent, l.gen)'
    BY <1>2, <1>3, <1>4, <1>5, <1>8
    DEF SettledOver, Over, Active, TerminalRun, Claimable
  <2>2. ASSUME NEW g \in Generations, g # l.gen
        PROVE  SettledOver(l.agent, g) <=> Over(l.agent, g)'
    BY <1>2, <1>4, <1>8, <2>2 DEF SettledOver, Over
  <2>3. QED
    BY <2>1, <2>2
<1>10. PICK ending : ending = {l.gen}
  OBVIOUS
<1>11. PICK own : own = {TerminalOf(l.agent, g) : g \in ending}
  OBVIOUS
<1>12. Ends(own)
  BY <1>2, <1>8, <1>9, <1>10, <1>11, OneAgentEnds
<1>13. own = {TerminalOf(l.agent, l.gen)}
  BY <1>10, <1>11
<1>14. QED
  BY <1>12, <1>13

LEMMA CompleteCancelEnds ==
    ASSUME Inv, NEW l \in leases, CompleteCancel(l)
    PROVE  Ends({TerminalOf(l.agent, l.gen)})
<1> DEFINE row == SettledAgents[l.agent]
<1>1. /\ LeaseOwned(l) /\ KeepRuns
      /\ row.status = "canceling"
      /\ SettledRuns[l.agent][l.gen].status = "canceled"
      /\ PutAgent(l.agent, Released(row, "canceled"))
  BY DEF CompleteCancel, CancelingLease, CanceledRow
<1>2. /\ l.agent \in Agents /\ l.gen \in Generations
      /\ row \in AgentRow /\ row.gen = l.gen
  BY <1>1, OwnedFacts DEF Lease
<1>3. PICK new : /\ new = Released(row, "canceled")
                 /\ new.status = "canceled" /\ new.gen = l.gen
  BY <1>2, ReleasedRow DEF Claimable
<1>4. /\ agents' = [SettledAgents EXCEPT ![l.agent] = new]
      /\ runs' = SettledRuns
  BY <1>1, <1>3 DEF PutAgent, KeepRuns
<1>5. SettledAgents \in [Agents -> AgentRow]
  BY SettledType DEF Inv
<1>6. /\ agents'[l.agent] = new
      /\ runs' = SettledRuns
      /\ \A b \in Agents \ {l.agent} : agents'[b] = SettledAgents[b]
  BY <1>2, <1>4, <1>5
<1>7. \A g \in Generations :
        /\ SettledOver(l.agent, g) => Over(l.agent, g)'
        /\ g \in {l.gen} <=> ~SettledOver(l.agent, g) /\ Over(l.agent, g)'
  BY <1>1, <1>2, <1>3, <1>6 DEF SettledOver, Over, TerminalRun
<1>8. PICK ending : ending = {l.gen}
  OBVIOUS
<1>9. PICK own : own = {TerminalOf(l.agent, g) : g \in ending}
  OBVIOUS
<1>10. Ends(own)
  BY <1>2, <1>6, <1>7, <1>8, <1>9, OneAgentEnds
<1>11. own = {TerminalOf(l.agent, l.gen)}
  BY <1>8, <1>9
<1>12. QED
  BY <1>10, <1>11

(* The agents a shutdown finds active, and their runs.                     *)
Mine(r) == {b \in Agents : /\ SettledAgents[b].runtime = r
                           /\ SettledAgents[b].status \in Active}

LEMMA InterruptEnds ==
    ASSUME Inv, NEW r \in Runtimes, NEW report \in Reports,
           InterruptRuntime(r, report)
    PROVE  Ends({CurrentRun(a) : a \in Mine(r)})
<1> SUFFICES ASSUME NEW a \in Agents, NEW g \in Generations
             PROVE  /\ SettledOver(a, g) => Over(a, g)'
                    /\ TerminalOf(a, g) \in {CurrentRun(b) : b \in Mine(r)}
                         <=> ~SettledOver(a, g) /\ Over(a, g)'
  BY DEF Ends
<1> DEFINE row == SettledAgents[a]
<1>1. /\ row \in AgentRow /\ row.gen = agents[a].gen
      /\ SettledRuns[a] \in [Generations -> RunRow]
      /\ RowAgrees(a, row, SettledRuns[a], Lease)
  BY SettledKeeps, SettledAgree, SettledType DEF Inv
<1>2. TerminalOf(a, g) \in {CurrentRun(b) : b \in Mine(r)}
        <=> a \in Mine(r) /\ row.gen = g
  BY <1>1, EventFacts DEF CurrentRun, Mine
<1>3. CASE a \notin Mine(r)
  <2>1. agents'[a] = row /\ runs'[a] = SettledRuns[a]
    BY <1>3 DEF InterruptRuntime, Mine
  <2>2. QED
    BY <1>2, <1>3, <2>1, UntouchedOver
<1>4. CASE a \in Mine(r)
  <2>1. row.status \in Active
    BY <1>4 DEF Mine
  <2>2. row.gen \in Generations
    BY <1>1, <2>1 DEF RowAgrees, AgentRow, Active, Absent, Generations
  <2>3. SettledRuns[a][row.gen].status \in ActiveRun
    BY <1>1, <2>1, <2>2
    DEF RowAgrees, CurrentRunFollowsStatus, Active, ActiveRun, Generations
  <2>4. /\ agents'[a] = Released(row, "interrupted")
        /\ runs'[a] = [SettledRuns[a] EXCEPT
                         ![row.gen] = InterruptedRun(@, report)]
    BY <1>4 DEF InterruptRuntime, Mine
  <2>5. InterruptedRun(SettledRuns[a][row.gen], report)
          = [status |-> "interrupted", report |-> report]
    BY <2>3, Zenon DEF InterruptedRun
  <2>6. /\ runs'[a][row.gen] = [status |-> "interrupted", report |-> report]
        /\ \A h \in Generations :
              h # row.gen => runs'[a][h] = SettledRuns[a][h]
    BY <1>1, <2>2, <2>4, <2>5
  <2>7. runs'[a][row.gen].status = "interrupted"
    BY <2>6
  <2>8. agents'[a].status = "interrupted" /\ agents'[a].gen = row.gen
    BY <1>1, <2>4, ReleasedRow DEF Claimable
  <2>9. CASE g = row.gen
    BY <1>2, <1>4, <2>1, <2>3, <2>7, <2>8, <2>9
    DEF SettledOver, Over, ActiveRun, TerminalRun
  <2>10. CASE g # row.gen
    BY <1>2, <2>6, <2>8, <2>10 DEF SettledOver, Over
  <2>11. QED
    BY <2>9, <2>10
<1>5. QED
  BY <1>3, <1>4

-----------------------------------------------------------------------------
(* The inductive invariant.  The mail and the waits refer to runs that are *)
(* over, which they stay, with the status they keep; so whatever is        *)
(* published later is about another run.                                   *)

ReportedRunsAreOver ==
    \A a \in Agents, g \in Generations :
        TerminalOf(a, g) \in events => Over(a, g)

MailTellsTheStatus ==
    \A m \in mails, a \in Agents, g \in Generations :
        m.about = TerminalOf(a, g) => m.kind = runs[a][g].status

WaitTells(w) ==
    /\ Over(w.agent, w.gen)
    /\ w.outcome = runs[w.agent][w.gen].status

WaitsTellTheStatus == \A w \in waits : WaitTells(w)

MailInv ==
    /\ TablesAgree
    /\ MailTypeOK
    /\ ReportedRunsAreOver
    /\ MailTellsTheStatus
    /\ WaitsTellTheStatus
    /\ WaitedOutcomesStayRead

(* What publication adds.                                                  *)
LEMMA ReapedAreEvents ==
    ASSUME Inv
    PROVE  ReapedNotices \subseteq Event
<1> SUFFICES ASSUME NEW b \in Agents, Expired(agents[b])
             PROVE  CurrentRun(b) \in Event
  BY DEF ReapedNotices
<1>1. agents[b].gen \in Generations
  BY DEF Inv, TypeOK, TablesAgree, RowAgrees, Expired, AgentRow, Claimed,
         Absent, Generations
<1>2. QED
  BY <1>1 DEF CurrentRun, Event

New(e) == e \in events' /\ e \notin events

LEMMA PublishedEvents ==
    ASSUME MailInv, NEW own \in SUBSET Event, Publish(own)
    PROVE  /\ events \subseteq events' /\ events' \subseteq Event
           /\ \A e \in Event :
                 New(e) <=> /\ e \in ReapedNotices \cup own
                            /\ e \notin events
                            /\ agents[Subject(e)].owner \in rooms
<1>1. ReapedNotices \subseteq Event /\ events \subseteq Event
  BY ReapedAreEvents DEF MailInv, MailTypeOK, Inv
<1>2. QED
  BY <1>1 DEF Publish, New

MailTo(e, c) ==
    [about |-> e, owner |-> agents[Subject(e)].owner, to |-> c,
     kind |-> Kind(e), read |-> FALSE]

LEMMA PublishedMail ==
    ASSUME MailInv, NEW own \in SUBSET Event, Publish(own)
    PROVE  /\ mails \subseteq mails'
           /\ \A m \in mails' \ mails :
                 \E e \in Event : \E c \in {"main"} \cup Peers(Subject(e)) :
                    New(e) /\ m = MailTo(e, c)
           /\ \A e \in Event : \A c \in {"main"} \cup Peers(Subject(e)) :
                 New(e) => MailTo(e, c) \in mails'
<1>1. PICK news : news = {e \in ReapedNotices \cup own :
                    e \notin events /\ agents[Subject(e)].owner \in rooms}
  OBVIOUS
<1>2. mails' = mails \cup UNION {Announcement(e) : e \in news}
  BY <1>1 DEF Publish
<1>3. news \subseteq Event /\ \A e \in Event : e \in news <=> New(e)
  BY <1>1, PublishedEvents, ReapedAreEvents DEF MailInv, MailTypeOK, Inv
<1>4. \A e : Announcement(e)
               = {MailTo(e, c) : c \in {"main"} \cup Peers(Subject(e))}
  BY DEF Announcement, MailTo
<1>5. QED
  BY <1>2, <1>3, <1>4

(* The columns of a new mail.                                              *)
LEMMA NewMail ==
    ASSUME MailInv, NEW own \in SUBSET Event, Reported(own),
           NEW e \in Event, NEW c \in {"main"} \cup Peers(Subject(e)),
           e \in ReapedNotices \cup own, agents[Subject(e)].owner \in rooms
    PROVE  /\ MailTo(e, c) \in Mail
           /\ MailTo(e, c).about = e /\ MailTo(e, c).to = c
           /\ ~MailTo(e, c).read
           /\ \A a \in Agents, g \in Generations :
                 e = TerminalOf(a, g)
                   => MailTo(e, c).kind = runs'[a][g].status
<1>1. PICK to, owner, kind :
        to = c /\ owner = agents[Subject(e)].owner /\ kind = Kind(e)
  OBVIOUS
<1>2. MailTo(e, c) = [about |-> e, owner |-> owner, to |-> to,
                      kind |-> kind, read |-> FALSE]
  BY <1>1 DEF MailTo
<1>3. owner \in Owners /\ to \in Contacts
  BY <1>1 DEF MailInv, MailTypeOK, Peers, Contacts
<1>4. ASSUME NEW a \in Agents, NEW g \in Generations, e = TerminalOf(a, g)
      PROVE  kind = runs'[a][g].status /\ kind \in TerminalRun
  <2>1. Over(a, g)'
    BY <1>4 DEF Reported
  <2>2. Kind(e) = runs'[a][g].status
    BY <1>4 DEF Kind, TerminalOf
  <2>3. QED
    BY <1>1, <2>1, <2>2 DEF Over
<1>5. ASSUME NEW a \in Agents, e = JoinedOf(a)
      PROVE  kind = "agent_joined"
  BY <1>1, <1>5 DEF Kind, JoinedOf
<1>6. kind \in TerminalRun \cup {"agent_joined"}
  BY <1>4, <1>5, EventCases
<1>7. QED
  BY <1>1, <1>2, <1>3, <1>4, <1>6 DEF Mail

-----------------------------------------------------------------------------
(* What a step is: a transaction that publishes, a receipt, or time.       *)

(* The agent starts for the first time.                                    *)
FirstStarted(a) ==
    /\ \A g \in Generations : <<a, g>> \notin started
    /\ \E g \in Generations : <<a, g>> \in started'

Transaction(own) ==
    /\ [Next]_vars
    /\ own \in SUBSET Event /\ Publish(own) /\ Reported(own)
    /\ \A a \in Agents : JoinedOf(a) \in own <=> FirstStarted(a)
    /\ rooms \subseteq rooms' /\ rooms' \subseteq Owners
    /\ started' \subseteq Agents \X Generations
    /\ waits \subseteq waits'
    /\ \A w \in waits' \ waits : w \in Wait /\ WaitTells(w)' /\ ~w.acked

LEMMA NoFirstStart ==
    ASSUME started' = started
    PROVE  \A a : ~FirstStarted(a)
BY DEF FirstStarted

(* Transactions that touch neither rooms nor starts nor waits.             *)
LEMMA PlainTransaction ==
    ASSUME MailInv, [Next]_vars, KeepMail,
           NEW own \in SUBSET {TerminalOf(a, g) : a \in Agents,
                                                 g \in Generations},
           Ends(own), Publish(own)
    PROVE  Transaction(own)
<1>1. own \in SUBSET Event
  BY DEF Event
<1>2. \A a \in Agents : JoinedOf(a) \notin own
  BY EventFacts
<1>3. Reported(own)
  BY EndsAreReported DEF MailInv, MailTypeOK, Inv
<1>4. rooms' = rooms /\ started' = started /\ waits' = waits
  BY DEF KeepMail
<1>5. \A a \in Agents : ~FirstStarted(a)
  BY <1>4, NoFirstStart
<1>6. QED
  BY <1>1, <1>2, <1>3, <1>4, <1>5 DEF Transaction, MailInv, MailTypeOK

LEMMA StartTransaction ==
    ASSUME MailInv, NEW l \in leases, NEW conv \in Conversations,
           Start(l, conv)
    PROVE  \E own : Transaction(own)
<1>1. /\ MarkRunning(l, conv) /\ l.agent \in Agents /\ l.gen \in Generations
      /\ Inv /\ started' = started \cup {<<l.agent, l.gen>>}
      /\ UNCHANGED <<rooms, waits>>
  BY DEF Start, MailInv, MailTypeOK, Inv, TypeOK, Lease
<1>2. PICK own : own = IF FirstStart(l) THEN {JoinedOf(l.agent)} ELSE {}
  OBVIOUS
<1>3. Publish(own) /\ own \in SUBSET Event
  BY <1>1, <1>2, EventFacts DEF Start
<1>4. Ends({})
  BY <1>1, MarkRunningEnds
<1>5. Ends(own)
  BY <1>1, <1>2, <1>4, EventFacts DEF Ends
<1>6. [Next]_vars
  BY <1>1 DEF Next, WorkerStep
<1>7. started \subseteq Agents \X Generations
  BY DEF MailInv, MailTypeOK
<1>8. FirstStart(l) <=> \A g \in Generations : <<l.agent, g>> \notin started
  <2>1. \A s \in started : \E a \in Agents, g \in Generations : s = <<a, g>>
    BY <1>7
  <2>2. \A a, g : <<a, g>>[1] = a
    OBVIOUS
  <2>3. QED
    BY <2>1, <2>2 DEF FirstStart
<1>9. \A a \in Agents : FirstStarted(a) <=> a = l.agent /\ FirstStart(l)
  BY <1>1, <1>8 DEF FirstStarted
<1>10. \A a \in Agents : JoinedOf(a) \in own <=> FirstStarted(a)
  BY <1>1, <1>2, <1>9, EventFacts
<1>11. Reported(own)
  BY <1>1, <1>5, EndsAreReported
<1>12. started' \subseteq Agents \X Generations
  BY <1>1, <1>7
<1>13. QED
  BY <1>1, <1>3, <1>6, <1>10, <1>11, <1>12
  DEF Transaction, MailInv, MailTypeOK

LEMMA SettlingTransaction ==
    ASSUME MailInv, Reconcile, Publish({}), started' = started,
           rooms \subseteq rooms', rooms' \subseteq Owners,
           waits \subseteq waits',
           \A w \in waits' \ waits : w \in Wait /\ WaitTells(w)' /\ ~w.acked
    PROVE  Transaction({})
<1>1. Inv
  BY DEF MailInv, MailTypeOK, Inv
<1>2. Reported({})
  BY <1>1, KeepRowsEnds, EndsAreReported DEF Reconcile
<1>3. \A a \in Agents : ~FirstStarted(a)
  BY NoFirstStart
<1>4. [Next]_vars
  BY DEF Next
<1>5. QED
  BY <1>2, <1>3, <1>4 DEF Transaction, MailInv, MailTypeOK

LEMMA WaitTransaction ==
    ASSUME MailInv, NEW a \in Agents, NEW g \in Generations,
           WaitReturns(a, g)
    PROVE  Transaction({})
<1> DEFINE run == SettledRuns[a][g]
<1>0. PICK w : w = [agent |-> a, gen |-> g, outcome |-> run.status,
                    acked |-> FALSE]
  OBVIOUS
<1>1. /\ run.status \in TerminalRun
      /\ ~ (SettledAgents[a].status = "canceling" /\ SettledAgents[a].gen = g)
      /\ waits' = waits \cup {w}
      /\ Reconcile /\ Publish({})
      /\ UNCHANGED <<rooms, started>>
  BY <1>0 DEF WaitReturns
<1>2. agents' = SettledAgents /\ runs' = SettledRuns
  BY <1>1 DEF Reconcile, KeepAgents, KeepRuns
<1>3. w \in Wait /\ ~w.acked /\ w.agent = a /\ w.gen = g
  BY <1>0, <1>1 DEF Wait
<1>4. Over(a, g)' /\ w.outcome = runs'[a][g].status
  BY <1>0, <1>1, <1>2 DEF Over
<1>5. WaitTells(w)'
  BY <1>3, <1>4 DEF WaitTells
<1>6. QED
  BY <1>1, <1>3, <1>5, SettlingTransaction DEF MailInv, MailTypeOK

LEMMA NextMail ==
    ASSUME MailInv, [MailNext]_allVars
    PROVE  \/ \E own : Transaction(own)
           \/ \E w \in waits : AckTerminalMail(w)
           \/ [Next]_vars /\ UNCHANGED <<agents, runs, mailVars>>
<1> DEFINE TerminalEvents ==
             {TerminalOf(a, g) : a \in Agents, g \in Generations}
<1>1. Inv
  BY DEF MailInv, MailTypeOK, Inv
<1>2. \A l \in leases : TerminalOf(l.agent, l.gen) \in TerminalEvents
  BY <1>1 DEF Inv, TypeOK, Lease
<1>3. CASE Settle
  <2>1. Reconcile /\ Publish({}) /\ UNCHANGED <<rooms, started, waits>>
    BY <1>3 DEF Settle, KeepMail
  <2>2. Transaction({})
    BY <2>1, SettlingTransaction DEF MailInv, MailTypeOK
  <2>3. QED
    BY <2>2
<1>4. ASSUME NEW a \in Agents, NEW r \in Runtimes,
             \/ \E owner \in Owners : Spawn(r, owner, a)
             \/ FollowUp(r, a)
      PROVE  \E own : Transaction(own)
  <2>1. Publish({}) /\ KeepMail
    BY <1>4 DEF Spawn, FollowUp
  <2>2. CASE \E owner \in Owners : Spawn(r, owner, a)
    <3>1. PICK owner \in Owners : Create(r, owner, a)
      BY <2>2 DEF Spawn
    <3>2. [Next]_vars /\ Ends({})
      BY <1>1, <3>1, CreateEnds DEF Next, ParentStep
    <3>3. Transaction({})
      BY <2>1, <3>2, PlainTransaction
    <3>4. QED
      BY <3>3
  <2>3. CASE FollowUp(r, a)
    <3>1. Claim(r, a)
      BY <2>3 DEF FollowUp
    <3>2. [Next]_vars /\ Ends({})
      BY <1>1, <3>1, ClaimEnds DEF Next, ParentStep
    <3>3. Transaction({})
      BY <2>1, <3>2, PlainTransaction
    <3>4. QED
      BY <3>3
  <2>4. QED
    BY <1>4, <2>2, <2>3
<1>5. ASSUME NEW l \in leases, Other(l)
      PROVE  \E own : Transaction(own)
  <2>1. Publish({}) /\ KeepMail
    BY <1>5 DEF Other
  <2>2. Ends({})
    BY <1>1, <1>5, AbortEnds, AttachEnds, RenewEnds DEF Other
  <2>3. [Next]_vars
    BY <1>5 DEF Other, Next, WorkerStep
  <2>4. Transaction({})
    BY <2>1, <2>2, <2>3, PlainTransaction
  <2>5. QED
    BY <2>4
<1>6. ASSUME NEW l \in leases, End(l)
      PROVE  \E own : Transaction(own)
  <2>1. PICK own : own = {TerminalOf(l.agent, l.gen)}
    OBVIOUS
  <2>2. Publish(own) /\ KeepMail
    BY <1>6, <2>1 DEF End
  <2>3. Ends(own)
    BY <1>1, <1>6, <2>1, TerminalEnds, CompleteCancelEnds DEF End
  <2>4. [Next]_vars
    BY <1>6 DEF End, Next, WorkerStep
  <2>5. own \in SUBSET TerminalEvents
    BY <1>2, <2>1
  <2>6. QED
    BY <2>2, <2>3, <2>4, <2>5, PlainTransaction
<1>7. ASSUME NEW r \in Runtimes, NEW report \in Reports, Interrupt(r, report)
      PROVE  \E own : Transaction(own)
  <2>1. PICK own : own = {CurrentRun(a) : a \in Mine(r)}
    OBVIOUS
  <2>2. Publish(own) /\ KeepMail /\ InterruptRuntime(r, report)
    BY <1>7, <2>1 DEF Interrupt, Mine
  <2>3. Ends(own)
    BY <1>1, <2>1, <2>2, InterruptEnds
  <2>4. [Next]_vars
    BY <2>2 DEF Next
  <2>5. ASSUME NEW a \in Mine(r)
        PROVE  CurrentRun(a) \in TerminalEvents
    <3>1. a \in Agents /\ SettledAgents[a].status \in Active
      BY DEF Mine
    <3>2. RowAgrees(a, SettledAgents[a], SettledRuns[a], Lease)
      BY <1>1, <3>1, SettledAgree DEF Inv
    <3>3. agents[a].gen \in Generations
      BY <1>1, <3>1, <3>2, SettledKeeps
      DEF RowAgrees, AgentRow, Active, Absent, Generations
    <3>4. QED
      BY <3>1, <3>3 DEF CurrentRun
  <2>6. own \in SUBSET TerminalEvents
    BY <2>1, <2>5
  <2>7. QED
    BY <2>2, <2>3, <2>4, <2>6, PlainTransaction
<1>8. ASSUME NEW owner \in Owners, OpenRoom(owner)
      PROVE  \E own : Transaction(own)
  <2>1. /\ Reconcile /\ Publish({}) /\ rooms' = rooms \cup {owner}
        /\ UNCHANGED <<started, waits>>
    BY <1>8 DEF OpenRoom
  <2>2. Transaction({})
    BY <2>1, SettlingTransaction DEF MailInv, MailTypeOK
  <2>3. QED
    BY <2>2
<1>9. CASE PassTime \/ UNCHANGED allVars
  <2>1. UNCHANGED <<agents, runs, mailVars>>
    BY <1>9 DEF PassTime, SetClock, allVars, vars, mailVars
  <2>2. [Next]_vars
    BY <1>9 DEF PassTime, Next, allVars, vars
  <2>3. QED
    BY <2>1, <2>2
<1>10. ASSUME NEW a \in Agents, NEW g \in Generations, WaitReturns(a, g)
       PROVE  \E own : Transaction(own)
  BY <1>10, WaitTransaction
<1>11. ASSUME NEW l \in leases, NEW conv \in Conversations, Start(l, conv)
       PROVE  \E own : Transaction(own)
  BY <1>11, StartTransaction
<1>12. ASSUME NEW a \in Agents, Cancel(a)
       PROVE  \E own : Transaction(own)
  <2>1. CancelActive(a) \/ CancelInactive(a)
    BY <1>12 DEF Cancel
  <2>2. [Next]_vars /\ Ends({}) /\ Publish({}) /\ KeepMail
    BY <1>1, <1>12, <2>1, CancelEnds DEF Cancel, Next, ParentStep
  <2>3. Transaction({})
    BY <2>2, PlainTransaction
  <2>4. QED
    BY <2>3
<1>13. QED
  BY <1>3, <1>4, <1>5, <1>6, <1>7, <1>8, <1>9, <1>10, <1>11, <1>12
  DEF MailNext

-----------------------------------------------------------------------------
(* The invariant is inductive.                                             *)

LEMMA OverStays ==
    ASSUME MailInv, [Next]_vars, NEW a \in Agents, NEW g \in Generations,
           Over(a, g)
    PROVE  runs'[a][g] = runs[a][g]
BY NextFinal DEF Over, Final, MailInv, MailTypeOK, Inv

(* New mail is about a run that was not over.                              *)
LEMMA NewMailIsNews ==
    ASSUME MailInv, NEW own, Transaction(own), NEW m \in mails' \ mails
    PROVE  /\ m \in Mail /\ m.about \in events' /\ m.about \notin events
           /\ ~m.read
           /\ \A a \in Agents, g \in Generations :
                 m.about = TerminalOf(a, g) =>
                    m.kind = runs'[a][g].status /\ ~Over(a, g)
<1>1. /\ own \in SUBSET Event /\ Publish(own) /\ Reported(own)
  BY DEF Transaction
<1>2. PICK e \in Event : \E c \in {"main"} \cup Peers(Subject(e)) :
        New(e) /\ m = MailTo(e, c)
  BY <1>1, PublishedMail
<1>3. PICK c \in {"main"} \cup Peers(Subject(e)) : New(e) /\ m = MailTo(e, c)
  BY <1>2
<1>4. /\ e \in ReapedNotices \cup own
      /\ agents[Subject(e)].owner \in rooms
  BY <1>1, <1>3, PublishedEvents
<1>5. /\ m \in Mail /\ m.about = e /\ ~m.read
      /\ \A a \in Agents, g \in Generations :
            e = TerminalOf(a, g) => m.kind = runs'[a][g].status
  BY <1>1, <1>3, <1>4, NewMail
<1>6. \A a \in Agents, g \in Generations :
        e = TerminalOf(a, g) => ~Over(a, g)
  BY <1>1, <1>4 DEF Reported
<1>7. QED
  BY <1>3, <1>5, <1>6 DEF New

LEMMA OneNewMailEach ==
    ASSUME MailInv, NEW own, Transaction(own),
           NEW m \in mails', NEW n \in mails',
           m.about = n.about, m.to = n.to
    PROVE  m = n
<1>1. own \in SUBSET Event /\ Publish(own) /\ Reported(own)
  BY DEF Transaction
<1>2. \A k \in mails : k.about \in events
  BY DEF MailInv, MailTypeOK
<1>3. CASE m \in mails /\ n \in mails
  BY <1>3 DEF MailInv, MailTypeOK
<1>4. CASE m \notin mails /\ n \notin mails
  <2>1. ASSUME NEW k \in mails' \ mails
        PROVE  k = MailTo(k.about, k.to)
    <3>1. PICK e \in Event : \E c \in {"main"} \cup Peers(Subject(e)) :
            New(e) /\ k = MailTo(e, c)
      BY <1>1, PublishedMail
    <3>2. PICK c \in {"main"} \cup Peers(Subject(e)) :
            New(e) /\ k = MailTo(e, c)
      BY <3>1
    <3>3. k.about = e /\ k.to = c
      BY <1>1, <3>2, PublishedEvents, NewMail
    <3>4. QED
      BY <3>2, <3>3
  <2>2. QED
    BY <1>4, <2>1
<1>5. CASE m \in mails /\ n \notin mails
  BY <1>2, <1>5, NewMailIsNews
<1>6. CASE m \notin mails /\ n \in mails
  BY <1>2, <1>6, NewMailIsNews
<1>7. QED
  BY <1>3, <1>4, <1>5, <1>6

LEMMA TransactionInv ==
    ASSUME MailInv, NEW own, Transaction(own)
    PROVE  MailInv'
<1>1. /\ [Next]_vars /\ Inv
      /\ own \in SUBSET Event /\ Publish(own) /\ Reported(own)
      /\ rooms' \subseteq Owners
      /\ started' \subseteq Agents \X Generations
      /\ waits \subseteq waits'
      /\ \A w \in waits' \ waits : w \in Wait /\ WaitTells(w)' /\ ~w.acked
  BY DEF Transaction, MailInv, MailTypeOK, Inv
<1>2. TypeOK' /\ TablesAgree'
  BY <1>1, NextInv DEF Inv
<1>3. events \subseteq events' /\ events' \subseteq Event
  BY <1>1, PublishedEvents
<1>4. mails \subseteq mails'
  BY <1>1, PublishedMail
<1>5. /\ events \subseteq Event /\ mails \subseteq Mail /\ waits \subseteq Wait
      /\ \A m \in mails : m.about \in events
  BY DEF MailInv, MailTypeOK
<1>6. MailTypeOK'
  <2>1. mails' \subseteq Mail /\ \A m \in mails' : m.about \in events'
    BY <1>3, <1>5, NewMailIsNews
  <2>2. waits' \subseteq Wait
    BY <1>1, <1>5
  <2>3. \A m, n \in mails' : m.about = n.about /\ m.to = n.to => m = n
    BY OneNewMailEach
  <2>4. QED
    BY <1>1, <1>2, <1>3, <2>1, <2>2, <2>3 DEF MailTypeOK
<1>7. ReportedRunsAreOver'
  <2>1. ASSUME NEW a \in Agents, NEW g \in Generations,
               TerminalOf(a, g) \in events'
        PROVE  Over(a, g)'
    <3>1. CASE TerminalOf(a, g) \in events
      BY <1>1, <3>1 DEF MailInv, ReportedRunsAreOver, Reported
    <3>2. CASE TerminalOf(a, g) \notin events
      BY <1>1, <2>1, <3>2, PublishedEvents, EventFacts DEF New, Reported
    <3>3. QED
      BY <3>1, <3>2
  <2>2. QED
    BY <2>1 DEF ReportedRunsAreOver, TerminalOf
<1>8. MailTellsTheStatus'
  <2>1. ASSUME NEW m \in mails', NEW a \in Agents, NEW g \in Generations,
               m.about = TerminalOf(a, g)
        PROVE  m.kind = runs'[a][g].status
    <3>1. CASE m \in mails
      <4>1. Over(a, g)
        BY <1>5, <2>1, <3>1 DEF MailInv, ReportedRunsAreOver
      <4>2. QED
        BY <1>1, <2>1, <3>1, <4>1, OverStays DEF MailInv, MailTellsTheStatus
    <3>2. CASE m \notin mails
      BY <2>1, <3>2, NewMailIsNews
    <3>3. QED
      BY <3>1, <3>2
  <2>2. QED
    BY <2>1 DEF MailTellsTheStatus, TerminalOf
<1>9. WaitsTellTheStatus'
  <2>1. ASSUME NEW w \in waits
        PROVE  WaitTells(w)'
    <3>1. w.agent \in Agents /\ w.gen \in Generations
      BY <1>5 DEF Wait
    <3>2. Over(w.agent, w.gen) /\ w.outcome = runs[w.agent][w.gen].status
      BY DEF MailInv, WaitsTellTheStatus, WaitTells
    <3>3. Over(w.agent, w.gen)'
      BY <1>1, <3>1, <3>2 DEF Reported
    <3>4. runs'[w.agent][w.gen] = runs[w.agent][w.gen]
      BY <1>1, <3>1, <3>2, OverStays
    <3>5. QED
      BY <3>2, <3>3, <3>4 DEF WaitTells
  <2>2. QED
    BY <1>1, <2>1 DEF WaitsTellTheStatus
<1>10. WaitedOutcomesStayRead'
  <2>1. ASSUME NEW w \in waits', NEW m \in mails',
               w.acked, m.to = "main", m.about = TerminalOf(w.agent, w.gen)
        PROVE  m.read
    <3>1. w \in waits
      BY <1>1, <2>1
    <3>2. w.agent \in Agents /\ w.gen \in Generations
      BY <1>5, <3>1 DEF Wait
    <3>3. Over(w.agent, w.gen)
      BY <3>1 DEF MailInv, WaitsTellTheStatus, WaitTells
    <3>4. m \in mails
      BY <2>1, <3>2, <3>3, NewMailIsNews
    <3>5. QED
      BY <2>1, <3>1, <3>4 DEF MailInv, WaitedOutcomesStayRead
  <2>2. QED
    BY <2>1 DEF WaitedOutcomesStayRead, TerminalOf
<1>11. QED
  BY <1>2, <1>6, <1>7, <1>8, <1>9, <1>10 DEF MailInv

(* A receipt marks mail of the run it is for, and nothing else.            *)
LEMMA ReceiptInv ==
    ASSUME MailInv, NEW w \in waits, AckTerminalMail(w)
    PROVE  MailInv'
<1> DEFINE After(m) == IF m \in ReceiptFor(w)
                       THEN [m EXCEPT !.read = TRUE] ELSE m
<1>1. PICK marked, done :
        /\ marked = {[m EXCEPT !.read = TRUE] : m \in ReceiptFor(w)}
        /\ done = [w EXCEPT !.acked = TRUE]
  OBVIOUS
<1>2. /\ mails' = (mails \ ReceiptFor(w)) \cup marked
      /\ UNCHANGED <<vars, rooms, started, events>>
      /\ waits' = (waits \ {w}) \cup {done}
  BY <1>1 DEF AckTerminalMail
<1>3. /\ rooms \subseteq Owners /\ started \subseteq Agents \X Generations
      /\ events \subseteq Event /\ mails \subseteq Mail /\ waits \subseteq Wait
      /\ \A m \in mails : m.about \in events
      /\ \A m, n \in mails : m.about = n.about /\ m.to = n.to => m = n
  BY DEF MailInv, MailTypeOK
<1>4. /\ done \in Wait /\ done.agent = w.agent /\ done.gen = w.gen
      /\ done.outcome = w.outcome /\ done.acked
  BY <1>1, <1>3 DEF Wait
<1>5. ASSUME NEW n \in mails'
      PROVE  /\ n \in Mail
             /\ \E m \in mails :
                  /\ n.about = m.about /\ n.to = m.to /\ n.kind = m.kind
                  /\ m.read => n.read
                  /\ n = After(m)
                  /\ m \in ReceiptFor(w) => n.read
  <2>1. CASE n \in mails /\ n \notin ReceiptFor(w)
    BY <1>3, <2>1
  <2>2. CASE n \in marked
    <3>1. PICK m \in ReceiptFor(w) : n = [m EXCEPT !.read = TRUE]
      BY <1>1, <2>2
    <3>2. m \in mails /\ m \in Mail
      BY <1>3 DEF ReceiptFor
    <3>3. /\ n \in Mail /\ n.about = m.about /\ n.to = m.to
          /\ n.kind = m.kind /\ n.read
      BY <3>1, <3>2 DEF Mail
    <3>4. QED
      BY <3>1, <3>2, <3>3
  <2>3. QED
    BY <1>2, <2>1, <2>2
<1>6. UNCHANGED <<now, agents, runs, steering, leases, inflight>>
  BY <1>2 DEF vars
<1>7. TypeOK' /\ TablesAgree'
  BY <1>6, NextInv DEF MailInv, MailTypeOK, Inv, vars
<1>8. MailTypeOK'
  <2>1. mails' \subseteq Mail /\ \A n \in mails' : n.about \in events
    BY <1>3, <1>5
  <2>2. ASSUME NEW n \in mails', NEW k \in mails',
               n.about = k.about, n.to = k.to
        PROVE  n = k
    <3>1. PICK m \in mails :
            n.about = m.about /\ n.to = m.to /\ n = After(m)
      BY <1>5
    <3>2. PICK h \in mails :
            k.about = h.about /\ k.to = h.to /\ k = After(h)
      BY <1>5
    <3>3. m = h
      BY <1>3, <2>2, <3>1, <3>2
    <3> HIDE DEF After
    <3>4. QED
      BY <3>1, <3>2, <3>3
  <2>3. QED
    BY <1>2, <1>3, <1>4, <1>7, <2>1, <2>2 DEF MailTypeOK
<1>9. \A a \in Agents, g \in Generations : Over(a, g)' <=> Over(a, g)
  BY <1>6 DEF Over
<1>10. ReportedRunsAreOver'
  BY <1>2, <1>9 DEF MailInv, ReportedRunsAreOver, TerminalOf
<1>11. MailTellsTheStatus'
  BY <1>5, <1>6 DEF MailInv, MailTellsTheStatus, TerminalOf
<1>12. WaitsTellTheStatus'
  <2>1. ASSUME NEW v \in waits' PROVE WaitTells(v)'
    <3>1. PICK u \in waits : /\ v.agent = u.agent /\ v.gen = u.gen
                             /\ v.outcome = u.outcome
      BY <1>2, <1>4
    <3>2. WaitTells(u)
      BY DEF MailInv, WaitsTellTheStatus
    <3>3. QED
      BY <1>6, <3>1, <3>2 DEF WaitTells, Over
  <2>2. QED
    BY <2>1 DEF WaitsTellTheStatus
<1>13. WaitedOutcomesStayRead'
  <2>1. ASSUME NEW v \in waits', NEW n \in mails',
               v.acked, n.to = "main", n.about = TerminalOf(v.agent, v.gen)
        PROVE  n.read
    <3>1. PICK m \in mails :
            /\ n.about = m.about /\ n.to = m.to
            /\ m.read => n.read
            /\ m \in ReceiptFor(w) => n.read
      BY <1>5
    <3>2. CASE v \in waits
      BY <2>1, <3>1, <3>2 DEF MailInv, WaitedOutcomesStayRead
    <3>3. CASE v = done
      BY <1>4, <2>1, <3>1, <3>3 DEF ReceiptFor
    <3>4. QED
      BY <1>2, <3>2, <3>3
  <2>2. QED
    BY <2>1 DEF WaitedOutcomesStayRead, TerminalOf
<1>14. QED
  BY <1>7, <1>8, <1>10, <1>11, <1>12, <1>13 DEF MailInv

LEMMA QuietInv ==
    ASSUME MailInv, [Next]_vars, UNCHANGED <<agents, runs, mailVars>>
    PROVE  MailInv'
<1>1. TypeOK' /\ TablesAgree'
  BY NextInv DEF MailInv, MailTypeOK, Inv
<1>2. /\ UNCHANGED <<agents, runs>>
      /\ UNCHANGED <<rooms, started, events, mails, waits>>
  BY DEF mailVars
<1>3. MailTypeOK'
  BY <1>1, <1>2 DEF MailInv, MailTypeOK
<1>4. QED
  BY <1>1, <1>2, <1>3
  DEF MailInv, ReportedRunsAreOver, MailTellsTheStatus, WaitsTellTheStatus,
      WaitTells, WaitedOutcomesStayRead, Over, TerminalOf

LEMMA NextMailInv ==
    ASSUME MailInv, [MailNext]_allVars
    PROVE  MailInv'
BY NextMail, TransactionInv, ReceiptInv, QuietInv

LEMMA InitMailInv == MailInit => MailInv
<1> SUFFICES ASSUME MailInit PROVE MailInv
  OBVIOUS
<1>1. PICK past \in [Agents -> {"idle", "running", "unused"}],
           owner \in Owners, r \in Runtimes,
           conv \in [Earlier -> Conversations] :
        /\ \A a \in Agents : past[a] # "unused" => a \in Earlier
        /\ agents = [a \in Agents |->
              IF past[a] = "unused" THEN AbsentRow("unused")
              ELSE EarlierRow(past[a], owner, r, conv[a])]
        /\ runs = [a \in Agents |-> [g \in Generations |->
              IF past[a] = "unused" \/ g # 1 THEN NoRun
              ELSE IF past[a] = "running"
              THEN [NoRun EXCEPT !.status = "running"]
              ELSE [NoRun EXCEPT !.status = "completed"]]]
        /\ started = {<<a, 1>> : a \in {b \in Agents : past[b] # "unused"}}
  BY DEF MailInit
<1>2. /\ now = 0 /\ steering = {} /\ leases = {} /\ inflight = {}
      /\ rooms = {} /\ events = {} /\ mails = {} /\ waits = {}
  BY DEF MailInit
<1>3. 1 \in Generations
  BY BoundAssumption DEF Generations
<1>4. ASSUME NEW a \in Agents
      PROVE  /\ agents[a] \in AgentRow
             /\ runs[a] \in [Generations -> RunRow]
             /\ RowAgrees(a, agents[a], runs[a], Lease)
  <2>1. \A g \in Generations : runs[a][g] =
              IF past[a] = "unused" \/ g # 1 THEN NoRun
              ELSE IF past[a] = "running"
              THEN [NoRun EXCEPT !.status = "running"]
              ELSE [NoRun EXCEPT !.status = "completed"]
    BY <1>1
  <2>2. NoRun \in RunRow /\ NoRun.status = "none"
    BY DEF NoRun, RunRow
  <2>3. \A g \in Generations :
          /\ runs[a][g] \in RunRow
          /\ past[a] = "unused" \/ g # 1 => runs[a][g] = NoRun
          /\ past[a] = "running" /\ g = 1 => runs[a][g].status = "running"
          /\ past[a] = "idle" /\ g = 1 => runs[a][g].status = "completed"
    BY <1>1, <2>1, <2>2 DEF RunRow, ActiveRun, TerminalRun
  <2>4. runs[a] \in [Generations -> RunRow]
    <3>1. runs[a] = [g \in Generations |-> runs[a][g]]
      BY <1>1
    <3>2. QED
      BY <2>3, <3>1
  <2>5. CASE past[a] = "unused"
    <3>1. agents[a] = AbsentRow("unused")
      BY <1>1, <2>5
    <3>2. agents[a] \in AgentRow
      BY <3>1, BoundAssumption DEF AbsentRow, AgentRow, Absent
    <3>3. RowAgrees(a, agents[a], runs[a], Lease)
      BY <2>3, <2>5, <3>1
      DEF RowAgrees, AbsentRow, Absent, Claimed, LeaseColumnsFollowStatus,
          OtherRunsAreOver, Generations
    <3>4. QED
      BY <2>4, <3>2, <3>3
  <2>6. CASE past[a] # "unused"
    <3>1. PICK status \in {"idle", "running"}, child \in Conversations :
            /\ status = past[a]
            /\ agents[a] = EarlierRow(status, owner, r, child)
      BY <1>1, <2>6
    <3>2. /\ agents[a].owner = owner /\ agents[a].status = status
          /\ agents[a].gen = 1 /\ agents[a].conv = child
          /\ agents[a].runtime = IF status = "running" THEN r ELSE NoRuntime
          /\ agents[a].expires =
                IF status = "running" THEN LeaseDuration ELSE 0
      BY <3>1 DEF EarlierRow
    <3>3. agents[a] \in AgentRow
      <4>1. PICK holder \in Runtimes \cup {NoRuntime}, until \in Nat :
              agents[a] = [owner |-> owner, status |-> status, gen |-> 1,
                           conv |-> child, runtime |-> holder,
                           expires |-> until]
        BY <3>1, LimitAssumption DEF EarlierRow
      <4>2. 1 \in 0 .. MaxGeneration
        BY BoundAssumption
      <4>3. status \in Claimed \cup Claimable \cup Absent
        BY DEF Claimed, Claimable
      <4>4. QED
        BY <4>1, <4>2, <4>3 DEF AgentRow
    <3>4. LeaseColumnsFollowStatus(a, agents[a], Lease)
      BY <1>3, <3>1, <3>2, NullAssumption, LimitAssumption
      DEF LeaseColumnsFollowStatus, Claimed, Lease
    <3>5. CurrentRunFollowsStatus(agents[a], runs[a][1])
      BY <1>3, <2>3, <3>1, <3>2, NullAssumption
      DEF CurrentRunFollowsStatus, Active, TerminalRun
    <3>6. OtherRunsAreOver(agents[a], runs[a])
      BY <2>3, <3>2 DEF OtherRunsAreOver, Generations
    <3>7. QED
      BY <2>4, <3>1, <3>2, <3>3, <3>4, <3>5, <3>6 DEF RowAgrees, Absent
  <2>7. QED
    BY <2>5, <2>6
<1>5. agents \in [Agents -> AgentRow] /\ runs \in [Agents -> [Generations -> RunRow]]
  <2>1. /\ agents = [a \in Agents |-> agents[a]]
        /\ runs = [a \in Agents |-> runs[a]]
    BY <1>1
  <2>2. QED
    BY <1>4, <2>1
<1>6. TypeOK /\ TablesAgree
  BY <1>2, <1>4, <1>5, BoundAssumption DEF TypeOK, TablesAgree
<1>7. started \subseteq Agents \X Generations
  BY <1>1, <1>3
<1>8. MailTypeOK
  BY <1>2, <1>6, <1>7 DEF MailTypeOK
<1>9. QED
  BY <1>2, <1>6, <1>8
  DEF MailInv, ReportedRunsAreOver, MailTellsTheStatus, WaitsTellTheStatus,
      WaitedOutcomesStayRead

-----------------------------------------------------------------------------
(* The theorems.                                                           *)

LEMMA MailInvariance == MailSpec => []MailInv
BY InitMailInv, NextMailInv, PTL DEF MailSpec

(* The mailbox tables keep to their schema: mail refers to its event, and  *)
(* there is one mail per event and recipient.                              *)
THEOREM MailTypeCorrect == MailSpec => []MailTypeOK
<1>1. MailInv => MailTypeOK
  BY DEF MailInv
<1>2. QED
  BY <1>1, MailInvariance, PTL

(* Completion mail is about runs that are over, and tells the outcome they *)
(* keep, whatever late worker, expiry or follow-up comes after it.         *)
THEOREM MailAlwaysTellsTheOutcome == MailSpec => []MailTellsTheOutcome
<1>1. MailInv => MailTellsTheOutcome
  BY DEF MailInv, MailTypeOK, ReportedRunsAreOver, MailTellsTheStatus,
         MailTellsTheOutcome
<1>2. QED
  BY <1>1, MailInvariance, PTL

(* An outcome that wait_agent delivered and acknowledged never shows up as *)
(* unread mail of main, in whatever order the receipt, the cleanup of a    *)
(* cancellation and a follow-up come.                                      *)
THEOREM AcknowledgedOutcomesStayRead == MailSpec => []WaitedOutcomesStayRead
<1>1. MailInv => WaitedOutcomesStayRead
  BY DEF MailInv
<1>2. QED
  BY <1>1, MailInvariance, PTL

(* Whoever ends a run - its worker, a shutdown, or any process whose       *)
(* transaction finds it expired - reports it in that very transaction, if  *)
(* the room is open, and at no other time.                                 *)
THEOREM EndedRunsAreAlwaysReported == MailSpec => EndedRunsAreReported
<1> DEFINE Report ==
      \A a \in Agents, g \in Generations :
          LET ends == ~Over(a, g) /\ Over(a, g)'
              open == agents[a].owner \in rooms
          IN  /\ TerminalOf(a, g) \in events' \ events => ends /\ open
              /\ ends /\ open => TerminalOf(a, g) \in events'
<1>1. ASSUME MailInv, [MailNext]_allVars, NEW a \in Agents,
             NEW g \in Generations
      PROVE  /\ TerminalOf(a, g) \in events' \ events
                  => ~Over(a, g) /\ Over(a, g)' /\ agents[a].owner \in rooms
             /\ ~Over(a, g) /\ Over(a, g)' /\ agents[a].owner \in rooms
                  => TerminalOf(a, g) \in events'
  <2>1. ASSUME NEW own, Transaction(own)
        PROVE  /\ New(TerminalOf(a, g))
                    => /\ ~Over(a, g) /\ Over(a, g)'
                       /\ agents[a].owner \in rooms
               /\ ~Over(a, g) /\ Over(a, g)' /\ agents[a].owner \in rooms
                    => TerminalOf(a, g) \in events'
    BY <1>1, <2>1, PublishedEvents, EventFacts
    DEF Transaction, Reported, New
  <2>2. ASSUME NEW w \in waits, AckTerminalMail(w)
        PROVE  events' = events /\ (Over(a, g)' <=> Over(a, g))
    BY <2>2 DEF AckTerminalMail, vars, Over
  <2>3. ASSUME UNCHANGED <<agents, runs, mailVars>>
        PROVE  events' = events /\ (Over(a, g)' <=> Over(a, g))
    BY <2>3 DEF mailVars, Over
  <2>4. QED
    BY <1>1, <2>1, <2>2, <2>3, NextMail DEF New
<1>2. MailInv /\ [MailNext]_allVars => [Report]_allVars
  BY <1>1
<1> HIDE DEF Report
<1>3. MailSpec => [][Report]_allVars
  BY <1>2, MailInvariance, PTL DEF MailSpec
<1>4. QED
  BY <1>3 DEF EndedRunsAreReported, Report

(* An agent joins when one of its runs is first started, in that           *)
(* transaction and never again, whether the start came before or after     *)
(* mail was enabled.                                                       *)
THEOREM FirstStartsAreAlwaysAnnounced == MailSpec => FirstStartsAreAnnounced
<1> DEFINE Announce ==
      \A a \in Agents :
          LET first == /\ \A g \in Generations : <<a, g>> \notin started
                       /\ \E g \in Generations : <<a, g>> \in started'
              open == agents[a].owner \in rooms
          IN  /\ JoinedOf(a) \in events' \ events => first /\ open
              /\ first /\ open => JoinedOf(a) \in events'
<1>1. ASSUME MailInv, [MailNext]_allVars, NEW a \in Agents
      PROVE  /\ JoinedOf(a) \in events' \ events
                  => FirstStarted(a) /\ agents[a].owner \in rooms
             /\ FirstStarted(a) /\ agents[a].owner \in rooms
                  => JoinedOf(a) \in events'
  <2>1. ASSUME NEW own, Transaction(own)
        PROVE  /\ New(JoinedOf(a))
                    => FirstStarted(a) /\ agents[a].owner \in rooms
               /\ FirstStarted(a) /\ agents[a].owner \in rooms
                    => JoinedOf(a) \in events'
    <3>1. JoinedOf(a) \notin ReapedNotices
      BY EventFacts DEF ReapedNotices, CurrentRun, JoinedOf, TerminalOf
    <3>2. /\ own \in SUBSET Event /\ Publish(own)
          /\ JoinedOf(a) \in own <=> FirstStarted(a)
      BY <2>1 DEF Transaction
    <3>3. Subject(JoinedOf(a)) = a /\ JoinedOf(a) \in Event
      BY BoundAssumption DEF Subject, JoinedOf, Event
    <3>4. QED
      BY <1>1, <3>1, <3>2, <3>3, PublishedEvents DEF New
  <2>2. ASSUME \/ \E w \in waits : AckTerminalMail(w)
               \/ UNCHANGED <<agents, runs, mailVars>>
        PROVE  events' = events /\ ~FirstStarted(a)
    <3>1. events' = events /\ started' = started
      BY <2>2 DEF AckTerminalMail, mailVars
    <3>2. QED
      BY <3>1, NoFirstStart
  <2>3. QED
    BY <1>1, <2>1, <2>2, NextMail DEF New
<1>2. MailInv /\ [MailNext]_allVars => [Announce]_allVars
  BY <1>1 DEF FirstStarted
<1> HIDE DEF Announce
<1>3. MailSpec => [][Announce]_allVars
  BY <1>2, MailInvariance, PTL DEF MailSpec
<1>4. QED
  BY <1>3 DEF FirstStartsAreAnnounced, Announce

(* An event is mailed once, when it is published: to main and to the       *)
(* agent's peers of that moment, nobody of another team, nobody later.     *)
THEOREM RecipientsAreAlwaysTheTeam == MailSpec => RecipientsAreTheTeam
<1> DEFINE Team(e) ==
             {"main"} \cup
                {b \in Agents :
                   /\ b # Subject(e) /\ Exists(b)
                   /\ agents[b].owner = agents[Subject(e)].owner}
           Address ==
             \A e \in Event :
                IF e \in events
                THEN Recipients(e)' = Recipients(e)
                ELSE Recipients(e)' =
                       IF e \in events'
                       THEN {"main"} \cup
                              {b \in Agents :
                                 /\ b # Subject(e) /\ Exists(b)
                                 /\ agents[b].owner
                                      = agents[Subject(e)].owner}
                       ELSE {}
<1>1. ASSUME MailInv, NEW own, Transaction(own), NEW e \in Event
      PROVE  IF e \in events
             THEN Recipients(e)' = Recipients(e)
             ELSE Recipients(e)' = IF e \in events' THEN Team(e) ELSE {}
  <2>1. /\ own \in SUBSET Event /\ Publish(own) /\ Reported(own)
        /\ \A m \in mails : m.about \in events
    BY <1>1 DEF Transaction, MailInv, MailTypeOK
  <2>2. /\ mails \subseteq mails' /\ events \subseteq events'
        /\ \A m \in mails' \ mails : New(m.about)
    BY <1>1, <2>1, PublishedMail, PublishedEvents, NewMailIsNews DEF New
  <2>3. CASE e \in events
    <3>1. {m \in mails' : m.about = e} = {m \in mails : m.about = e}
      BY <2>2, <2>3 DEF New
    <3>2. QED
      BY <2>3, <3>1 DEF Recipients
  <2>4. CASE e \notin events /\ e \notin events'
    <3>1. {m \in mails' : m.about = e} = {}
      BY <2>1, <2>2, <2>4 DEF New
    <3>2. QED
      BY <2>4, <3>1 DEF Recipients
  <2>5. CASE New(e)
    <3>1. Team(e) = {"main"} \cup Peers(Subject(e))
      BY DEF Peers
    <3>2. /\ e \in ReapedNotices \cup own
          /\ agents[Subject(e)].owner \in rooms
      BY <1>1, <2>1, <2>5, PublishedEvents
    <3>3. ASSUME NEW c \in {"main"} \cup Peers(Subject(e))
          PROVE  \E m \in mails' : m.about = e /\ m.to = c
      <4>1. MailTo(e, c) \in mails'
        BY <1>1, <2>1, <2>5, PublishedMail
      <4>2. MailTo(e, c).about = e /\ MailTo(e, c).to = c
        BY DEF MailTo
      <4>3. QED
        BY <4>1, <4>2
    <3>4. ASSUME NEW m \in mails', m.about = e
          PROVE  m.to \in {"main"} \cup Peers(Subject(e))
      <4>1. m \notin mails
        BY <2>1, <2>5, <3>4 DEF New
      <4>2. PICK f \in Event : \E c \in {"main"} \cup Peers(Subject(f)) :
              New(f) /\ m = MailTo(f, c)
        BY <1>1, <2>1, <4>1, PublishedMail
      <4>3. PICK c \in {"main"} \cup Peers(Subject(f)) :
              New(f) /\ m = MailTo(f, c)
        BY <4>2
      <4>4. m.about = f /\ m.to = c
        BY <1>1, <2>1, <4>3, PublishedEvents, NewMail
      <4>5. QED
        BY <3>4, <4>4
    <3>5. Recipients(e)' = {m.to : m \in {n \in mails' : n.about = e}}
      BY DEF Recipients
    <3>6. Recipients(e)' = {"main"} \cup Peers(Subject(e))
      BY <3>3, <3>4, <3>5
    <3>7. QED
      BY <2>5, <3>1, <3>6 DEF New
  <2>6. QED
    BY <2>3, <2>4, <2>5 DEF New
<1>2. ASSUME MailInv, NEW w \in waits, AckTerminalMail(w), NEW e \in Event
      PROVE  Recipients(e)' = Recipients(e) /\ events' = events
  <2>1. /\ mails' = (mails \ ReceiptFor(w)) \cup
                       {[m EXCEPT !.read = TRUE] : m \in ReceiptFor(w)}
        /\ events' = events
    BY <1>2 DEF AckTerminalMail
  <2>2. mails \subseteq Mail /\ ReceiptFor(w) \subseteq mails
    BY <1>2 DEF MailInv, MailTypeOK, ReceiptFor
  <2>3. ASSUME NEW m \in ReceiptFor(w)
        PROVE  /\ [m EXCEPT !.read = TRUE].about = m.about
               /\ [m EXCEPT !.read = TRUE].to = m.to
    BY <2>2 DEF Mail
  <2>4. ASSUME NEW m \in mails
        PROVE  \E n \in mails' : n.about = m.about /\ n.to = m.to
    BY <2>1, <2>3
  <2>5. ASSUME NEW n \in mails'
        PROVE  \E m \in mails : n.about = m.about /\ n.to = m.to
    BY <2>1, <2>2, <2>3
  <2>6. /\ Recipients(e) = {m.to : m \in {n \in mails : n.about = e}}
        /\ Recipients(e)' = {m.to : m \in {n \in mails' : n.about = e}}
    BY DEF Recipients
  <2>7. ASSUME NEW c PROVE c \in Recipients(e) <=> c \in Recipients(e)'
    BY <2>4, <2>5, <2>6
  <2>8. Recipients(e)' = Recipients(e)
    BY <2>6, <2>7
  <2>9. QED
    BY <2>1, <2>8
<1>3. ASSUME UNCHANGED <<agents, runs, mailVars>>, NEW e \in Event
      PROVE  Recipients(e)' = Recipients(e) /\ events' = events
  BY <1>3 DEF Recipients, mailVars
<1>4. ASSUME MailInv, NEW e \in Event, e \notin events
      PROVE  Recipients(e) = {}
  BY <1>4 DEF Recipients, MailInv, MailTypeOK
<1>5. ASSUME MailInv, [MailNext]_allVars, NEW e \in Event
      PROVE  IF e \in events
             THEN Recipients(e)' = Recipients(e)
             ELSE Recipients(e)' = IF e \in events' THEN Team(e) ELSE {}
  <2>1. CASE \E own : Transaction(own)
    BY <1>1, <1>5, <2>1
  <2>2. CASE Recipients(e)' = Recipients(e) /\ events' = events
    BY <1>4, <1>5, <2>2
  <2>3. QED
    BY <1>2, <1>3, <1>5, <2>1, <2>2, NextMail
<1>6. MailInv /\ [MailNext]_allVars => [Address]_allVars
  BY <1>5
<1> HIDE DEF Address
<1>7. MailSpec => [][Address]_allVars
  BY <1>6, MailInvariance, PTL DEF MailSpec
<1>8. QED
  BY <1>7, PTL DEF RecipientsAreTheTeam, Address

(* What a receipt marks is the mail of main that tells the very outcome    *)
(* the wait delivered.                                                     *)
THEOREM ReceiptsAreAlwaysExact == MailSpec => ReceiptsAreExact
<1> DEFINE Exact ==
      \A m \in mails, w \in waits :
          w \notin waits' /\ m \notin mails' =>
              /\ m.to = "main" /\ ~m.read
              /\ m.about = TerminalOf(w.agent, w.gen)
              /\ m.kind = w.outcome
<1>1. ASSUME MailInv, [MailNext]_allVars, NEW m \in mails, NEW w \in waits,
             w \notin waits', m \notin mails'
      PROVE  /\ m.to = "main" /\ ~m.read
             /\ m.about = TerminalOf(w.agent, w.gen)
             /\ m.kind = w.outcome
  <2>1. PICK v \in waits : AckTerminalMail(v)
    BY <1>1, NextMail DEF Transaction, mailVars
  <2>2. v = w /\ m \in ReceiptFor(v)
    BY <1>1, <2>1 DEF AckTerminalMail
  <2>3. /\ m.to = "main" /\ ~m.read
        /\ m.about = TerminalOf(w.agent, w.gen)
    BY <2>2 DEF ReceiptFor
  <2>4. w.agent \in Agents /\ w.gen \in Generations
    BY <1>1 DEF MailInv, MailTypeOK, Wait
  <2>5. m.kind = runs[w.agent][w.gen].status
    BY <1>1, <2>3, <2>4 DEF MailInv, MailTellsTheStatus
  <2>6. QED
    BY <1>1, <2>3, <2>5 DEF MailInv, WaitsTellTheStatus, WaitTells
<1>2. MailInv /\ [MailNext]_allVars => [Exact]_allVars
  BY <1>1
<1> HIDE DEF Exact
<1>3. MailSpec => [][Exact]_allVars
  BY <1>2, MailInvariance, PTL DEF MailSpec
<1>4. QED
  BY <1>3 DEF ReceiptsAreExact, Exact

-----------------------------------------------------------------------------
(* The store under the mailbox.                                            *)

LEMMA MailIsStore ==
    ASSUME MailInv, [MailNext]_allVars
    PROVE  [Next]_vars
<1>1. ASSUME NEW own, Transaction(own)
      PROVE  [Next]_vars
  BY <1>1 DEF Transaction
<1>2. ASSUME NEW w \in waits, AckTerminalMail(w)
      PROVE  [Next]_vars
  BY <1>2 DEF AckTerminalMail
<1>3. QED
  BY <1>1, <1>2, NextMail

(* On a database with earlier agents too, and with mail published in its   *)
(* transactions, the store does to claims only what a fenced store may do; *)
(* a finished run, earlier ones included, is never rewritten; and          *)
(* conversations stay apart and with their agent.                          *)
THEOREM MailKeepsTheStore ==
    MailSpec => /\ [][Fenced!Next]_(Fenced!claimVars)
                /\ TerminalRunsAreFinal
                /\ []ConversationsAreDistinct
                /\ ConversationsStick
<1>1. MailInv /\ [MailNext]_allVars
        => /\ [Fenced!Next]_(Fenced!claimVars)
           /\ [Final]_vars
           /\ [Sticking]_vars
  <2>1. SUFFICES ASSUME MailInv, [MailNext]_allVars
                 PROVE  /\ [Fenced!Next]_(Fenced!claimVars)
                        /\ [Final]_vars
                        /\ [Sticking]_vars
    OBVIOUS
  <2>2. Inv /\ [Next]_vars
    BY <2>1, MailIsStore DEF MailInv, MailTypeOK, Inv
  <2>3. Sticking
    BY <2>2, NextConversations DEF Sticking
  <2>4. QED
    BY <2>2, <2>3, NextFenced, NextFinal
<1>2. MailInit => ConversationsAreDistinct
  <2>1. SUFFICES ASSUME MailInit, NEW a \in Agents, NEW b \in Agents, a # b,
                        agents[a].conv # NoConversation
                 PROVE  agents[a].conv # agents[b].conv
    BY DEF ConversationsAreDistinct
  <2>2. QED
    BY <2>1 DEF MailInit, EarlierRow, AbsentRow
<1>3. MailInv /\ ConversationsAreDistinct /\ [MailNext]_allVars
        => ConversationsAreDistinct'
  BY MailIsStore, NextDistinct DEF MailInv, MailTypeOK, Inv
<1>4. QED
  BY <1>1, <1>2, <1>3, MailInvariance, PTL
  DEF MailSpec, TerminalRunsAreFinal, Final, ConversationsStick, Sticking

(* A database may come with more claims than the limits of this process    *)
(* allow, but once they are within the limits they stay there.             *)
THEOREM MailStaysWithinLimits == MailSpec => [](LimitsHold => []LimitsHold)
<1>1. MailInv /\ LimitsHold /\ [MailNext]_allVars => LimitsHold'
  BY MailIsStore, NextLimits DEF MailInv, MailTypeOK, Inv
<1>2. QED
  BY <1>1, MailInvariance, PTL DEF MailSpec
=============================================================================
