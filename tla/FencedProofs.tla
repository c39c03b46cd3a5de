---------------------------- MODULE FencedProofs ----------------------------
(***************************************************************************)
(* Proof that AgentStore implements FencedClaims, for all values of its     *)
(* constants: every transaction is, agent by agent, a claim kept, lapsed,   *)
(* extended, released by its holder or acquired.                            *)
(***************************************************************************)
EXTENDS AgentStoreProofs

-----------------------------------------------------------------------------
(* The refinement mapping, row by row.                                     *)

ClaimOf(row) ==
    [gen    |-> IF row.status = "deleted" THEN 1 ELSE row.gen,
     holder |-> row.runtime,
     until  |-> row.expires]

OutcomeAt(row, history, g) ==
    IF row.status = "deleted" /\ g = 1 THEN "withdrawn"
    ELSE IF history[g].status \in ActiveRun THEN "pending"
    ELSE history[g].status

OutcomeOf(row, history) == [g \in Generations |-> OutcomeAt(row, history, g)]

LEMMA KeepStep ==
    ASSUME NEW a \in Agents,
           ClaimOf(agents'[a]) = ClaimOf(agents[a]),
           OutcomeOf(agents'[a], runs'[a]) = OutcomeOf(agents[a], runs[a])
    PROVE  Fenced!Keep(a)
BY DEF Fenced!Keep, ClaimOf, OutcomeOf, OutcomeAt

(* A claimed row is a claim, live until it expires.                        *)
LEMMA ClaimedRow ==
    ASSUME Inv, NEW a \in Agents, agents[a].status \in Claimed
    PROVE  /\ ~Fenced!Free(a)
           /\ Fenced!Live(a) <=> ~Expired(agents[a])
           /\ agents[a].runtime \in Runtimes
           /\ agents[a].gen \in Generations
           /\ agents[a].status # "deleted"
<1>1. agents[a] \in AgentRow /\ now \in Nat
  BY BoundAssumption DEF Inv, TypeOK
<1>2. RowAgrees(a, agents[a], runs[a], Lease)
  BY DEF Inv, TablesAgree
<1>3. /\ agents[a].runtime # NoRuntime
      /\ agents[a].runtime \in Runtimes
      /\ agents[a].status # "deleted"
      /\ agents[a].gen # 0 /\ agents[a].expires \in Nat
      /\ agents[a].gen \in 0 .. MaxGeneration
  BY <1>1, <1>2
  DEF RowAgrees, LeaseColumnsFollowStatus, Claimed, Absent, AgentRow
<1>4. agents[a].gen \in Generations
  BY <1>3, BoundAssumption DEF Generations
<1>5. ~Fenced!Free(a)
  BY <1>3 DEF Fenced!Free
<1>6. Fenced!Live(a) <=> ~Expired(agents[a])
  BY <1>1, <1>3, <1>5 DEF Fenced!Live, Expired
<1>7. QED
  BY <1>3, <1>4, <1>5, <1>6

LEMMA FreedClaim ==
    ASSUME NEW gen, NEW holder, NEW until
    PROVE  Fenced!Freed([gen |-> gen, holder |-> holder, until |-> until])
             = [gen |-> gen, holder |-> NoRuntime, until |-> 0]
<1> DEFINE claim == [gen |-> gen, holder |-> holder, until |-> until]
<1>1. [claim EXCEPT !.holder = NoRuntime]
        = [gen |-> gen, holder |-> NoRuntime, until |-> until]
  OBVIOUS
<1>2. [[gen |-> gen, holder |-> NoRuntime, until |-> until] EXCEPT !.until = 0]
        = [gen |-> gen, holder |-> NoRuntime, until |-> 0]
  OBVIOUS
<1>3. QED
  BY <1>1, <1>2 DEF Fenced!Freed

(* What FencedClaims says of a latest outcome, for a claimed row.          *)
EndedOutcome(row, history, how) ==
    IF history[row.gen].status \in ActiveRun
    THEN [OutcomeOf(row, history) EXCEPT ![row.gen] = how]
    ELSE OutcomeOf(row, history)

LEMMA DecidesStep ==
    ASSUME Inv, NEW a \in Agents, NEW how, agents[a].status \in Claimed,
           OutcomeOf(agents'[a], runs'[a])
             = EndedOutcome(agents[a], runs[a], how)
    PROVE  Fenced!Decides(a, how)
<1>1. agents[a].gen \in Generations /\ agents[a].status # "deleted"
  BY ClaimedRow
<1>2. runs[a][agents[a].gen].status \in ActiveRun \cup TerminalRun \cup {"none"}
  BY <1>1 DEF Inv, TypeOK, RunRow
<1>3. Fenced!Latest(a) = IF runs[a][agents[a].gen].status \in ActiveRun
                         THEN "pending" ELSE runs[a][agents[a].gen].status
  BY <1>1 DEF Fenced!Latest
<1>4. Fenced!Latest(a) = "pending"
        <=> runs[a][agents[a].gen].status \in ActiveRun
  BY <1>2, <1>3 DEF ActiveRun, TerminalRun
<1>5. QED
  BY <1>1, <1>4 DEF Fenced!Decides, EndedOutcome, OutcomeOf, OutcomeAt

LEMMA LapseStep ==
    ASSUME Inv, NEW a \in Agents, Expired(agents[a]),
           ClaimOf(agents'[a]) = [gen |-> agents[a].gen,
                                  holder |-> NoRuntime, until |-> 0],
           OutcomeOf(agents'[a], runs'[a])
             = EndedOutcome(agents[a], runs[a], "interrupted")
    PROVE  Fenced!Lapse(a)
<1>1. agents[a].status \in Claimed
  BY DEF Expired
<1>2. /\ ~Fenced!Free(a) /\ ~Fenced!Live(a)
      /\ agents[a].status # "deleted"
  BY <1>1, ClaimedRow
<1>3. Fenced!Decides(a, "interrupted")
  BY <1>1, DecidesStep
<1>4. QED
  BY <1>2, <1>3, FreedClaim DEF Fenced!Lapse, ClaimOf

(* The holder's claim ends.                                                *)
LEMMA ReleaseStep ==
    ASSUME Inv, NEW a \in Agents, NEW how \in Fenced!Decided,
           NEW r, r = agents[a].runtime,
           agents[a].status \in Claimed, ~Expired(agents[a]),
           ClaimOf(agents'[a]) = [gen |-> agents[a].gen,
                                  holder |-> NoRuntime, until |-> 0],
           OutcomeOf(agents'[a], runs'[a])
             = EndedOutcome(agents[a], runs[a], how)
    PROVE  Fenced!Release(a, r)
<1>1. /\ Fenced!Live(a)
      /\ agents[a].status # "deleted"
  BY ClaimedRow
<1>2. Fenced!Decides(a, how)
  BY DecidesStep
<1>3. QED
  BY <1>1, <1>2, FreedClaim DEF Fenced!Release, ClaimOf

LEMMA ExtendStep ==
    ASSUME Inv, NEW a \in Agents,
           agents[a].status \in Claimed, ~Expired(agents[a]),
           ClaimOf(agents'[a]) = [gen |-> agents[a].gen,
                                  holder |-> agents[a].runtime,
                                  until |-> now + LeaseDuration],
           \/ OutcomeOf(agents'[a], runs'[a]) = OutcomeOf(agents[a], runs[a])
           \/ OutcomeOf(agents'[a], runs'[a])
                = EndedOutcome(agents[a], runs[a], "canceled")
    PROVE  Fenced!Extend(a)
<1>1. /\ Fenced!Live(a)
      /\ agents[a].status # "deleted"
  BY ClaimedRow
<1>2. CASE OutcomeOf(agents'[a], runs'[a])
             = EndedOutcome(agents[a], runs[a], "canceled")
  <2>1. Fenced!Decides(a, "canceled")
    BY <1>2, DecidesStep
  <2>2. QED
    BY <1>1, <2>1 DEF Fenced!Extend, ClaimOf
<1>3. CASE OutcomeOf(agents'[a], runs'[a]) = OutcomeOf(agents[a], runs[a])
  BY <1>1, <1>3 DEF Fenced!Extend, ClaimOf, OutcomeOf, OutcomeAt
<1>4. QED
  BY <1>2, <1>3

-----------------------------------------------------------------------------
(* What a transaction writes to the current run, as an outcome.            *)

LEMMA OutcomeWrite ==
    ASSUME NEW row \in AgentRow, NEW new, NEW run,
           NEW history \in [Generations -> RunRow],
           row.gen \in Generations,
           row.status # "deleted", new.status # "deleted"
    PROVE  LET after == [history EXCEPT ![row.gen] = run]
           IN  /\ history[row.gen].status \in ActiveRun
                    /\ run.status \notin ActiveRun
                  => OutcomeOf(new, after)
                       = EndedOutcome(row, history, run.status)
               /\ \/ history[row.gen].status \in ActiveRun
                       /\ run.status \in ActiveRun
                  \/ run = history[row.gen]
                  => OutcomeOf(new, after) = OutcomeOf(row, history)
<1> DEFINE after == [history EXCEPT ![row.gen] = run]
<1>1. /\ after[row.gen] = run
      /\ \A g \in Generations : g # row.gen => after[g] = history[g]
  OBVIOUS
<1> HIDE DEF after
<1>2. ASSUME history[row.gen].status \in ActiveRun,
             run.status \notin ActiveRun
      PROVE  OutcomeOf(new, after) = EndedOutcome(row, history, run.status)
  BY <1>1, <1>2 DEF OutcomeOf, OutcomeAt, EndedOutcome
<1>3. ASSUME \/ history[row.gen].status \in ActiveRun
                  /\ run.status \in ActiveRun
             \/ run = history[row.gen]
      PROVE  OutcomeOf(new, after) = OutcomeOf(row, history)
  BY <1>1, <1>3 DEF OutcomeOf, OutcomeAt
<1>4. QED
  BY <1>2, <1>3 DEF after

(* Reconciliation, for an agent whose claim has run out.                   *)
LEMMA ReapedFacts ==
    ASSUME Inv, NEW a \in Agents, Expired(agents[a])
    PROVE  /\ ClaimOf(SettledAgents[a]) = [gen |-> agents[a].gen,
                                           holder |-> NoRuntime, until |-> 0]
           /\ OutcomeOf(SettledAgents[a], SettledRuns[a])
                = EndedOutcome(agents[a], runs[a], "interrupted")
           /\ SettledAgents[a].status \notin Claimed
<1> DEFINE row == agents[a]
           run == runs[a][row.gen]
<1>1. /\ row \in AgentRow /\ runs[a] \in [Generations -> RunRow]
      /\ row.status \in Claimed
  BY DEF Inv, TypeOK, Expired
<1>2. row.gen \in Generations /\ row.status # "deleted"
  BY <1>1, ClaimedRow
<1>3. CurrentRunFollowsStatus(row, run)
  BY <1>2 DEF Inv, TablesAgree, RowAgrees, Generations
<1>4. SettledRuns[a] = [runs[a] EXCEPT ![row.gen] = ReapedRun(row, run)]
  BY DEF SettledRuns
<1>5. SettledAgents[a] = ReapedRow(row, run)
  BY DEF SettledAgents
<1>6. CASE row.status = "canceling"
  <2>1. run.status = "canceled"
    BY <1>3, <1>6 DEF CurrentRunFollowsStatus
  <2>2. SettledAgents[a] = Released(row, "canceled")
    BY <1>5, <1>6, <2>1 DEF ReapedRow, CanceledRow
  <2>3. /\ SettledAgents[a].status = "canceled"
        /\ SettledAgents[a].gen = row.gen
        /\ SettledAgents[a].runtime = NoRuntime
        /\ SettledAgents[a].expires = 0
    BY <1>1, <2>2, ReleasedRow DEF Claimable
  <2>4. ReapedRun(row, run) = run
    BY <1>6 DEF ReapedRun
  <2>5. OutcomeOf(SettledAgents[a], SettledRuns[a]) = OutcomeOf(row, runs[a])
    BY <1>1, <1>2, <1>4, <2>3, <2>4, OutcomeWrite
  <2>6. run.status \notin ActiveRun
    BY <2>1 DEF ActiveRun
  <2>7. QED
    BY <2>3, <2>5, <2>6 DEF ClaimOf, EndedOutcome, Claimed
<1>7. CASE row.status # "canceling"
  <2>1. row.status \in Active
    BY <1>1, <1>7 DEF Claimed, Active
  <2>2. run.status \in ActiveRun
    BY <1>3, <2>1 DEF CurrentRunFollowsStatus, Active, ActiveRun
  <2>3. SettledAgents[a] = Released(row, "interrupted")
    BY <1>5, <1>7 DEF ReapedRow
  <2>4. /\ SettledAgents[a].status = "interrupted"
        /\ SettledAgents[a].gen = row.gen
        /\ SettledAgents[a].runtime = NoRuntime
        /\ SettledAgents[a].expires = 0
    BY <1>1, <2>3, ReleasedRow DEF Claimable
  <2>5. ReapedRun(row, run).status = "interrupted"
    BY <1>7, <2>2 DEF ReapedRun, InterruptedRun
  <2>6. ReapedRun(row, run).status \notin ActiveRun
    BY <2>5 DEF ActiveRun
  <2>7. OutcomeOf(SettledAgents[a], SettledRuns[a])
          = EndedOutcome(row, runs[a], "interrupted")
    BY <1>1, <1>2, <1>4, <2>2, <2>4, <2>5, <2>6, OutcomeWrite
  <2>8. QED
    BY <2>4, <2>7 DEF ClaimOf, Claimed
<1>8. QED
  BY <1>6, <1>7

LEMMA UnexpiredFacts ==
    ASSUME Inv, NEW a \in Agents, ~Expired(agents[a])
    PROVE  SettledAgents[a] = agents[a] /\ SettledRuns[a] = runs[a]
BY DEF SettledAgents, SettledRuns

(* A claim that survives reconciliation is live, and as it was.            *)
LEMMA LiveFacts ==
    ASSUME Inv, NEW a \in Agents, SettledAgents[a].status \in Claimed
    PROVE  /\ ~Expired(agents[a])
           /\ SettledAgents[a] = agents[a] /\ SettledRuns[a] = runs[a]
           /\ agents[a] \in AgentRow
           /\ runs[a] \in [Generations -> RunRow]
           /\ agents[a].gen \in Generations
           /\ agents[a].runtime \in Runtimes
           /\ agents[a].status \in Claimed
           /\ CurrentRunFollowsStatus(agents[a], runs[a][agents[a].gen])
<1>1. ~Expired(agents[a])
  BY ReapedFacts
<1>2. SettledAgents[a] = agents[a] /\ SettledRuns[a] = runs[a]
  BY <1>1, UnexpiredFacts
<1>3. agents[a].gen \in Generations /\ agents[a].runtime \in Runtimes
  BY <1>2, ClaimedRow
<1>4. CurrentRunFollowsStatus(agents[a], runs[a][agents[a].gen])
  BY <1>3 DEF Inv, TablesAgree, RowAgrees, Generations
<1>5. QED
  BY <1>1, <1>2, <1>3, <1>4 DEF Inv, TypeOK

(* What a transaction does to an agent it only reconciles.                 *)
Reaps(a) == Fenced!Keep(a) \/ Fenced!Lapse(a)

LEMMA UnwrittenReaps ==
    ASSUME Inv, NEW a \in Agents,
           ClaimOf(agents'[a]) = ClaimOf(SettledAgents[a]),
           OutcomeOf(agents'[a], runs'[a])
             = OutcomeOf(SettledAgents[a], SettledRuns[a])
    PROVE  Reaps(a)
<1>1. CASE Expired(agents[a])
  <2>1. Fenced!Lapse(a)
    BY <1>1, ReapedFacts, LapseStep
  <2>2. QED
    BY <2>1 DEF Reaps
<1>2. CASE ~Expired(agents[a])
  <2>1. Fenced!Keep(a)
    BY <1>2, UnexpiredFacts, KeepStep
  <2>2. QED
    BY <2>1 DEF Reaps
<1>3. QED
  BY <1>1, <1>2

-----------------------------------------------------------------------------
(* One transaction of one runtime.                                         *)

Moves(a, r) ==
    \/ Reaps(a)
    \/ Fenced!Extend(a)
    \/ Fenced!Release(a, r)
    \/ Fenced!Acquire(a, r)

LEMMA TransactionStep ==
    ASSUME NEW r \in Runtimes, \A a \in Agents : Moves(a, r), now' = now
    PROVE  Fenced!Next
BY DEF Moves, Reaps, Fenced!Next, Fenced!Transact

(* A transaction that only reconciles is one of any holder it reaps.       *)
LEMMA ReapingStep ==
    ASSUME Inv, \A a \in Agents : Reaps(a), now' = now
    PROVE  [Fenced!Next]_(Fenced!claimVars)
<1>1. CASE \E a \in Agents : Fenced!Lapse(a)
  <2>1. PICK a \in Agents : Fenced!Lapse(a)
    BY <1>1
  <2>2. ~Fenced!Free(a)
    BY <2>1 DEF Fenced!Lapse
  <2>3. agents[a].runtime # NoRuntime
    BY <2>2 DEF Fenced!Free
  <2>4. agents[a].runtime \in Runtimes
    BY <2>3 DEF Inv, TypeOK, AgentRow
  <2>5. Fenced!Next
    BY <2>4, TransactionStep DEF Moves
  <2>6. QED
    BY <2>5
<1>2. CASE \A a \in Agents : Fenced!Keep(a)
  BY <1>2 DEF Fenced!Keep, Fenced!claimVars
<1>3. QED
  BY <1>1, <1>2 DEF Reaps

LEMMA OneWrite ==
    ASSUME Inv, NEW a \in Agents, NEW r \in Runtimes, Moves(a, r),
           \A b \in Agents \ {a} : /\ agents'[b] = SettledAgents[b]
                                   /\ runs'[b] = SettledRuns[b],
           now' = now
    PROVE  Fenced!Next
<1>1. \A b \in Agents \ {a} : Moves(b, r)
  BY UnwrittenReaps DEF Moves
<1>2. QED
  BY <1>1, TransactionStep

LEMMA PutOneAgent ==
    ASSUME Inv, NEW a \in Agents, NEW new, PutAgent(a, new)
    PROVE  /\ agents'[a] = new
           /\ \A b \in Agents \ {a} : agents'[b] = SettledAgents[b]
BY SettledType DEF Inv, PutAgent

LEMMA PutOneRun ==
    ASSUME Inv, NEW a \in Agents, NEW g \in Generations, NEW run,
           PutRun(a, g, run)
    PROVE  /\ runs'[a] = [SettledRuns[a] EXCEPT ![g] = run]
           /\ \A b \in Agents \ {a} : runs'[b] = SettledRuns[b]
BY SettledType DEF Inv, PutRun

LEMMA KeepOneRun ==
    ASSUME Inv, NEW a \in Agents, NEW g \in Generations, KeepRuns
    PROVE  /\ runs'[a] = [SettledRuns[a] EXCEPT ![g] = SettledRuns[a][g]]
           /\ \A b \in Agents \ {a} : runs'[b] = SettledRuns[b]
BY SettledType DEF Inv, KeepRuns

-----------------------------------------------------------------------------
(* What the holder of a live claim, or the parent that cancels it, writes. *)

LEMMA HolderKeeps ==
    ASSUME Inv, NEW a \in Agents, SettledAgents[a].status \in Claimed,
           NEW run, NEW r, r = agents[a].runtime,
           agents'[a].gen = agents[a].gen, agents'[a].status # "deleted",
           agents'[a].runtime = agents[a].runtime,
           agents'[a].expires = agents[a].expires,
           runs'[a] = [SettledRuns[a] EXCEPT ![agents[a].gen] = run],
           \/ /\ runs[a][agents[a].gen].status \in ActiveRun
              /\ run.status \in ActiveRun
           \/ run = runs[a][agents[a].gen]
    PROVE  Moves(a, r)
<1>1. /\ agents[a].status # "deleted"
      /\ SettledRuns[a] = runs[a]
  BY LiveFacts DEF Claimed
<1>2. ClaimOf(agents'[a]) = ClaimOf(agents[a])
  BY <1>1 DEF ClaimOf
<1>3. OutcomeOf(agents'[a], runs'[a]) = OutcomeOf(agents[a], runs[a])
  BY <1>1, LiveFacts, OutcomeWrite
<1>4. QED
  BY <1>2, <1>3, KeepStep DEF Moves, Reaps

LEMMA HolderExtends ==
    ASSUME Inv, NEW a \in Agents, SettledAgents[a].status \in Claimed,
           NEW run, NEW r, r = agents[a].runtime,
           agents'[a].gen = agents[a].gen, agents'[a].status # "deleted",
           agents'[a].runtime = agents[a].runtime,
           agents'[a].expires = now + LeaseDuration,
           runs'[a] = [SettledRuns[a] EXCEPT ![agents[a].gen] = run],
           \/ /\ runs[a][agents[a].gen].status \in ActiveRun
              /\ run.status = "canceled"
           \/ run = runs[a][agents[a].gen]
    PROVE  Moves(a, r)
<1>1. /\ agents[a].status # "deleted"
      /\ SettledRuns[a] = runs[a]
  BY LiveFacts DEF Claimed
<1>2. ClaimOf(agents'[a]) = [gen |-> agents[a].gen,
                             holder |-> agents[a].runtime,
                             until |-> now + LeaseDuration]
  BY <1>1 DEF ClaimOf
<1>3. "canceled" \notin ActiveRun
  BY DEF ActiveRun
<1>4. \/ OutcomeOf(agents'[a], runs'[a]) = OutcomeOf(agents[a], runs[a])
      \/ OutcomeOf(agents'[a], runs'[a])
           = EndedOutcome(agents[a], runs[a], "canceled")
  <2>1. /\ agents[a] \in AgentRow /\ runs[a] \in [Generations -> RunRow]
        /\ agents[a].gen \in Generations
    BY LiveFacts
  <2>2. PICK new, after : /\ new = agents'[a] /\ after = runs'[a]
    OBVIOUS
  <2>3. /\ new.status # "deleted"
        /\ after = [runs[a] EXCEPT ![agents[a].gen] = run]
    BY <1>1, <2>2
  <2>4. CASE /\ runs[a][agents[a].gen].status \in ActiveRun
             /\ run.status = "canceled"
    <3>1. OutcomeOf(new, after)
            = EndedOutcome(agents[a], runs[a], "canceled")
      BY <1>1, <1>3, <2>1, <2>3, <2>4, OutcomeWrite
    <3>2. QED
      BY <2>2, <3>1
  <2>5. CASE run = runs[a][agents[a].gen]
    <3>1. OutcomeOf(new, after) = OutcomeOf(agents[a], runs[a])
      BY <1>1, <2>1, <2>3, <2>5, OutcomeWrite
    <3>2. QED
      BY <2>2, <3>1
  <2>6. QED
    BY <2>4, <2>5
<1>5. Fenced!Extend(a)
  BY <1>2, <1>4, LiveFacts, ExtendStep
<1>6. QED
  BY <1>5 DEF Moves

LEMMA HolderReleases ==
    ASSUME Inv, NEW a \in Agents, SettledAgents[a].status \in Claimed,
           NEW run, NEW r, r = agents[a].runtime,
           agents'[a].gen = agents[a].gen, agents'[a].status # "deleted",
           agents'[a].runtime = NoRuntime,
           agents'[a].expires = 0,
           runs'[a] = [SettledRuns[a] EXCEPT ![agents[a].gen] = run],
           run.status \in TerminalRun,
           \/ runs[a][agents[a].gen].status \in ActiveRun
           \/ run = runs[a][agents[a].gen]
    PROVE  Moves(a, r)
<1>1. /\ agents[a].status # "deleted"
      /\ SettledRuns[a] = runs[a]
  BY LiveFacts DEF Claimed
<1>2. ClaimOf(agents'[a]) = [gen |-> agents[a].gen,
                             holder |-> NoRuntime, until |-> 0]
  BY <1>1 DEF ClaimOf
<1>3. run.status \in Fenced!Decided /\ run.status \notin ActiveRun
  BY DEF TerminalRun, Fenced!Decided, ActiveRun
<1>4. OutcomeOf(agents'[a], runs'[a])
        = EndedOutcome(agents[a], runs[a], run.status)
  <2>1. CASE runs[a][agents[a].gen].status \in ActiveRun
    BY <1>1, <1>3, <2>1, LiveFacts, OutcomeWrite
  <2>2. CASE run = runs[a][agents[a].gen]
    <3>1. OutcomeOf(agents'[a], runs'[a]) = OutcomeOf(agents[a], runs[a])
      BY <1>1, <2>2, LiveFacts, OutcomeWrite
    <3>2. QED
      BY <1>3, <2>2, <3>1 DEF EndedOutcome
  <2>3. QED
    BY <2>1, <2>2
<1>5. Fenced!Release(a, r)
  BY <1>2, <1>3, <1>4, LiveFacts, ReleaseStep
<1>6. QED
  BY <1>5 DEF Moves

-----------------------------------------------------------------------------
(* The operations.                                                         *)

(* What a lease that is honoured says of its agent.                        *)
LEMMA OwnerFacts ==
    ASSUME Inv, NEW l \in leases, LeaseOwned(l)
    PROVE  LET a == l.agent
           IN  /\ a \in Agents
               /\ SettledAgents[a] = agents[a] /\ SettledRuns[a] = runs[a]
               /\ SettledAgents[a].status \in Claimed
               /\ agents[a] \in AgentRow
               /\ agents[a].status \in Claimed
               /\ agents[a].gen = l.gen /\ l.gen \in Generations
               /\ agents[a].runtime = l.runtime /\ l.runtime \in Runtimes
               /\ runs[a] \in [Generations -> RunRow]
<1>1. l.agent \in Agents /\ SettledAgents[l.agent].status \in Claimed
  BY OwnedFacts DEF Lease
<1>2. SettledAgents[l.agent].gen = l.gen /\ SettledAgents[l.agent].runtime = l.runtime
  BY OwnedFacts
<1>3. QED
  BY <1>1, <1>2, LiveFacts

LEMMA HolderStep ==
    ASSUME Inv, NEW l \in leases, LeaseOwned(l), now' = now,
           Moves(l.agent, l.runtime),
           \A b \in Agents \ {l.agent} : /\ agents'[b] = SettledAgents[b]
                                         /\ runs'[b] = SettledRuns[b]
    PROVE  Fenced!Next
BY OwnerFacts, OneWrite

LEMMA AttachFenced ==
    ASSUME Inv, NEW l \in leases, NEW conv \in Conversations,
           AttachConversation(l, conv) \/ AttachCancelingConversation(l, conv)
    PROVE  Fenced!Next
<1> DEFINE a == l.agent
           new == WithConversation(SettledAgents[a], conv)
<1>1. /\ LeaseOwned(l) /\ PutAgent(a, new) /\ KeepRuns /\ now' = now
  BY DEF AttachConversation, AttachCancelingConversation, Attach,
         ActiveLease, CancelingLease
<1>2. /\ a \in Agents /\ SettledAgents[a] = agents[a]
      /\ SettledRuns[a] = runs[a]
      /\ SettledAgents[a].status \in Claimed
      /\ agents[a] \in AgentRow /\ agents[a].gen \in Generations
      /\ l.runtime = agents[a].runtime
  BY <1>1, OwnerFacts
<1>3. /\ new.gen = agents[a].gen /\ new.status = agents[a].status
      /\ new.runtime = agents[a].runtime /\ new.expires = agents[a].expires
  BY <1>2, WithConversationRow
<1> HIDE DEF new
<1>4. /\ agents'[a] = new
      /\ runs'[a] = [SettledRuns[a] EXCEPT
                       ![agents[a].gen] = runs[a][agents[a].gen]]
      /\ \A b \in Agents \ {a} : /\ agents'[b] = SettledAgents[b]
                                  /\ runs'[b] = SettledRuns[b]
  BY <1>1, <1>2, PutOneAgent, KeepOneRun
<1>5. new.status # "deleted"
  BY <1>2, <1>3 DEF Claimed
<1>6. Moves(a, l.runtime)
  BY <1>2, <1>3, <1>4, <1>5, HolderKeeps
<1>7. QED
  BY <1>1, <1>4, <1>6, HolderStep

LEMMA MarkRunningFenced ==
    ASSUME Inv, NEW l \in leases, NEW conv \in Conversations,
           MarkRunning(l, conv)
    PROVE  Fenced!Next
<1> DEFINE a == l.agent
           new == Running(SettledAgents[a], conv)
           run == [SettledRuns[a][l.gen] EXCEPT !.status = "running"]
<1>1. /\ ActiveLease(l) /\ PutAgent(a, new) /\ PutRun(a, l.gen, run)
      /\ now' = now
  BY DEF MarkRunning
<1>2. /\ a \in Agents /\ SettledAgents[a] = agents[a]
      /\ SettledRuns[a] = runs[a]
      /\ SettledAgents[a].status \in Claimed
      /\ agents[a] \in AgentRow /\ agents[a].gen \in Generations
      /\ agents[a].gen = l.gen /\ l.runtime = agents[a].runtime
      /\ LeaseOwned(l) /\ runs[a][l.gen].status \in ActiveRun
      /\ runs[a][l.gen] \in RunRow
  BY <1>1, OwnerFacts, ActiveFacts DEF ActiveLease
<1>3. /\ new.gen = agents[a].gen /\ new.status = "running"
      /\ new.runtime = agents[a].runtime /\ new.expires = agents[a].expires
  BY <1>2, RunningRow
<1>4. run.status \in ActiveRun
  BY <1>2 DEF RunRow, ActiveRun
<1> HIDE DEF new, run
<1>5. /\ agents'[a] = new
      /\ runs'[a] = [SettledRuns[a] EXCEPT ![agents[a].gen] = run]
      /\ \A b \in Agents \ {a} : /\ agents'[b] = SettledAgents[b]
                                  /\ runs'[b] = SettledRuns[b]
  BY <1>1, <1>2, PutOneAgent, PutOneRun
<1>6. Moves(a, l.runtime)
  BY <1>2, <1>3, <1>4, <1>5, HolderKeeps
<1>7. QED
  BY <1>1, <1>2, <1>5, <1>6, HolderStep

LEMMA TerminalFenced ==
    ASSUME Inv, NEW l \in leases, NEW status \in DOMAIN RunStatusOf,
           NEW conv \in Conversations \cup {NoConversation},
           NEW report \in Reports, Terminal(l, status, conv, report)
    PROVE  Fenced!Next
<1> DEFINE a == l.agent
           row == SettledAgents[a]
           resolved == IF conv = NoConversation THEN row.conv ELSE conv
           new == WithConversation(Released(row, status), resolved)
           run == [status |-> RunStatusOf[status], report |-> report]
<1>1. /\ ActiveLease(l) /\ PutAgent(a, new) /\ PutRun(a, l.gen, run)
      /\ now' = now
  BY DEF Terminal
<1>2. /\ a \in Agents /\ row = agents[a]
      /\ SettledRuns[a] = runs[a]
      /\ row.status \in Claimed
      /\ agents[a] \in AgentRow /\ agents[a].gen \in Generations
      /\ agents[a].gen = l.gen /\ l.runtime = agents[a].runtime
      /\ LeaseOwned(l) /\ runs[a][l.gen].status \in ActiveRun
  BY <1>1, OwnerFacts, ActiveFacts DEF ActiveLease
<1>3. status \in {"idle", "failed", "interrupted"}
  BY DEF RunStatusOf
<1>4. /\ resolved \in Conversations \cup {NoConversation}
      /\ status \in Claimable
  BY <1>2, <1>3 DEF AgentRow, Claimable
<1>5. /\ new.gen = agents[a].gen /\ new.status = status
      /\ new.runtime = NoRuntime /\ new.expires = 0
  BY <1>2, <1>4, ReleasedRow, WithConversationRow
<1>6. run.status \in TerminalRun
  BY <1>3 DEF RunStatusOf, TerminalRun
<1> HIDE DEF new, run
<1>7. /\ agents'[a] = new
      /\ runs'[a] = [SettledRuns[a] EXCEPT ![agents[a].gen] = run]
      /\ \A b \in Agents \ {a} : /\ agents'[b] = SettledAgents[b]
                                  /\ runs'[b] = SettledRuns[b]
  BY <1>1, <1>2, PutOneAgent, PutOneRun
<1>8. Moves(a, l.runtime)
  BY <1>2, <1>3, <1>5, <1>6, <1>7, HolderReleases
<1>9. QED
  BY <1>1, <1>2, <1>7, <1>8, HolderStep

LEMMA RenewFenced ==
    ASSUME Inv, NEW l \in leases, Heartbeat(l) \/ HeartbeatCanceling(l)
    PROVE  Fenced!Next
<1> DEFINE a == l.agent
           new == Leased(SettledAgents[a], l.runtime)
<1>1. /\ LeaseOwned(l) /\ PutAgent(a, new) /\ KeepRuns /\ now' = now
  BY DEF Heartbeat, HeartbeatCanceling, RenewLease, ActiveLease,
         CancelingLease
<1>2. /\ a \in Agents /\ SettledAgents[a] = agents[a]
      /\ SettledRuns[a] = runs[a]
      /\ SettledAgents[a].status \in Claimed
      /\ agents[a] \in AgentRow /\ agents[a].gen \in Generations
      /\ l.runtime \in Runtimes /\ agents[a].runtime = l.runtime
  BY <1>1, OwnerFacts
<1>3. /\ new.gen = agents[a].gen /\ new.status = agents[a].status
      /\ new.runtime = agents[a].runtime
      /\ new.expires = now + LeaseDuration
  BY <1>2, LeasedRow DEF Inv
<1> HIDE DEF new
<1>4. /\ agents'[a] = new
      /\ runs'[a] = [SettledRuns[a] EXCEPT
                       ![agents[a].gen] = runs[a][agents[a].gen]]
      /\ \A b \in Agents \ {a} : /\ agents'[b] = SettledAgents[b]
                                  /\ runs'[b] = SettledRuns[b]
  BY <1>1, <1>2, PutOneAgent, KeepOneRun
<1>5. new.status # "deleted"
  BY <1>2, <1>3 DEF Claimed
<1>6. Moves(a, l.runtime)
  BY <1>2, <1>3, <1>4, <1>5, HolderExtends
<1>7. QED
  BY <1>1, <1>4, <1>6, HolderStep

LEMMA CompleteCancelFenced ==
    ASSUME Inv, NEW l \in leases, CompleteCancel(l)
    PROVE  Fenced!Next
<1> DEFINE a == l.agent
           new == Released(SettledAgents[a], "canceled")
<1>1. /\ CancelingLease(l) /\ LeaseOwned(l)
      /\ PutAgent(a, new) /\ KeepRuns /\ now' = now
  BY DEF CompleteCancel, CancelingLease, CanceledRow
<1>2. /\ a \in Agents /\ SettledAgents[a] = agents[a]
      /\ SettledRuns[a] = runs[a]
      /\ SettledAgents[a].status \in Claimed
      /\ agents[a] \in AgentRow /\ agents[a].gen \in Generations
      /\ agents[a].gen = l.gen /\ l.runtime = agents[a].runtime
  BY <1>1, OwnerFacts
<1>3. /\ new.gen = agents[a].gen /\ new.status = "canceled"
      /\ new.runtime = NoRuntime /\ new.expires = 0
  BY <1>2, ReleasedRow DEF Claimable
<1> HIDE DEF new
<1>4. /\ agents'[a] = new
      /\ runs'[a] = [SettledRuns[a] EXCEPT
                       ![agents[a].gen] = runs[a][agents[a].gen]]
      /\ \A b \in Agents \ {a} : /\ agents'[b] = SettledAgents[b]
                                  /\ runs'[b] = SettledRuns[b]
  BY <1>1, <1>2, PutOneAgent, KeepOneRun
<1>5. runs[a][agents[a].gen].status \in TerminalRun
  BY <1>1, <1>2 DEF CancelingLease, TerminalRun
<1>6. Moves(a, l.runtime)
  BY <1>2, <1>3, <1>4, <1>5, HolderReleases
<1>7. QED
  BY <1>1, <1>4, <1>6, HolderStep

LEMMA AbortFenced ==
    ASSUME Inv, NEW l \in leases, Abort(l)
    PROVE  Fenced!Next
<1> DEFINE a == l.agent
<1>1. /\ ActiveLease(l) /\ l.gen = 1 /\ PutAgent(a, AbsentRow("deleted"))
      /\ PutRun(a, 1, NoRun) /\ now' = now
  BY DEF Abort
<1>2. /\ a \in Agents /\ SettledRuns[a] = runs[a]
      /\ SettledAgents[a].status \in Claimed
      /\ agents[a].gen = 1 /\ 1 \in Generations
      /\ agents[a].status # "deleted"
      /\ l.runtime = agents[a].runtime
      /\ LeaseOwned(l) /\ runs[a][1].status \in ActiveRun
      /\ runs[a] \in [Generations -> RunRow]
  BY <1>1, OwnerFacts, ActiveFacts DEF ActiveLease, Claimed
<1>3. /\ agents'[a] = AbsentRow("deleted")
      /\ runs'[a] = [runs[a] EXCEPT ![1] = NoRun]
      /\ \A b \in Agents \ {a} : /\ agents'[b] = SettledAgents[b]
                                  /\ runs'[b] = SettledRuns[b]
  BY <1>1, <1>2, PutOneAgent, PutOneRun
<1>4. ClaimOf(agents'[a]) = [gen |-> agents[a].gen,
                             holder |-> NoRuntime, until |-> 0]
  BY <1>2, <1>3 DEF ClaimOf, AbsentRow
<1>5. \A g \in Generations : g # 1 => runs'[a][g] = runs[a][g]
  BY <1>2, <1>3
<1>6. OutcomeOf(agents'[a], runs'[a])
        = EndedOutcome(agents[a], runs[a], "withdrawn")
  <2>1. agents'[a].status = "deleted"
    BY <1>3 DEF AbsentRow
  <2>2. \A g \in Generations :
          OutcomeAt(agents'[a], runs'[a], g)
            = [OutcomeOf(agents[a], runs[a]) EXCEPT ![1] = "withdrawn"][g]
    BY <1>2, <1>5, <2>1 DEF OutcomeOf, OutcomeAt
  <2>3. QED
    BY <1>2, <2>2 DEF OutcomeOf, EndedOutcome
<1>7. "withdrawn" \in Fenced!Decided
  BY DEF Fenced!Decided
<1>8. Fenced!Release(a, l.runtime)
  BY <1>2, <1>4, <1>6, <1>7, LiveFacts, ReleaseStep
<1>9. Moves(a, l.runtime)
  BY <1>8 DEF Moves
<1>10. QED
  BY <1>1, <1>2, <1>3, <1>9, HolderStep

LEMMA CancelActiveFenced ==
    ASSUME Inv, NEW a \in Agents, CancelActive(a)
    PROVE  Fenced!Next
<1> DEFINE row == SettledAgents[a]
           new == Leased(Canceling(row), row.runtime)
<1>1. row.status \in Active /\ PutAgent(a, new) /\ now' = now
  BY DEF CancelActive
<1>2. /\ row = agents[a] /\ SettledRuns[a] = runs[a]
      /\ row.status \in Claimed
      /\ agents[a] \in AgentRow /\ agents[a].gen \in Generations
      /\ agents[a].runtime \in Runtimes
      /\ CurrentRunFollowsStatus(agents[a], runs[a][agents[a].gen])
  BY <1>1, LiveFacts DEF Active, Claimed
<1>3. runs[a][agents[a].gen].status \in ActiveRun
  BY <1>1, <1>2 DEF CurrentRunFollowsStatus, Active, ActiveRun
<1>4. PICK run : run.status = "canceled" /\ PutRun(a, row.gen, run)
  BY <1>2, <1>3 DEF CancelActive
<1>5. /\ new.gen = agents[a].gen /\ new.status = "canceling"
      /\ new.runtime = agents[a].runtime
      /\ new.expires = now + LeaseDuration
  BY <1>2, CancelingRow, LeasedRow DEF Inv
<1> HIDE DEF new
<1>6. /\ agents'[a] = new
      /\ runs'[a] = [SettledRuns[a] EXCEPT ![agents[a].gen] = run]
      /\ \A b \in Agents \ {a} : /\ agents'[b] = SettledAgents[b]
                                  /\ runs'[b] = SettledRuns[b]
  <2>1. PICK g \in Generations : g = agents[a].gen
    BY <1>2
  <2>2. PutRun(a, g, run)
    BY <1>2, <1>4, <2>1 DEF PutRun
  <2>3. QED
    BY <1>1, <2>1, <2>2, PutOneAgent, PutOneRun
<1>7. PICK r \in Runtimes : r = agents[a].runtime
  BY <1>2
<1>8. Moves(a, r)
  BY <1>2, <1>3, <1>4, <1>5, <1>6, <1>7, HolderExtends
<1>9. QED
  BY <1>1, <1>6, <1>8, OneWrite

(* No claim is live: a row that is only relabelled.                        *)
LEMMA CancelInactiveFenced ==
    ASSUME Inv, NEW a \in Agents, CancelInactive(a)
    PROVE  [Fenced!Next]_(Fenced!claimVars)
<1> DEFINE row == SettledAgents[a]
           new == Released(row, "canceled")
<1>1. /\ row.status \in Claimable /\ PutAgent(a, new) /\ KeepRuns
      /\ now' = now
  BY DEF CancelInactive
<1>2. row \in AgentRow /\ row.status \notin Claimed
  BY <1>1, SettledKeeps DEF Claimable, Claimed
<1>3. RowAgrees(a, row, SettledRuns[a], Lease)
  BY SettledAgree DEF Inv
<1>4. row.runtime = NoRuntime /\ row.expires = 0 /\ row.status # "deleted"
  BY <1>1, <1>2, <1>3
  DEF RowAgrees, LeaseColumnsFollowStatus, AgentRow, Claimable
<1>5. /\ new.gen = row.gen /\ new.status = "canceled"
      /\ new.runtime = NoRuntime /\ new.expires = 0
  BY <1>2, ReleasedRow DEF Claimable
<1> HIDE DEF new
<1>6. /\ agents'[a] = new
      /\ \A b \in Agents \ {a} : agents'[b] = SettledAgents[b]
      /\ runs' = SettledRuns
  BY <1>1, PutOneAgent DEF KeepRuns
<1>7. /\ ClaimOf(agents'[a]) = ClaimOf(row)
      /\ OutcomeOf(agents'[a], runs'[a]) = OutcomeOf(row, SettledRuns[a])
  BY <1>4, <1>5, <1>6 DEF ClaimOf, OutcomeOf, OutcomeAt
<1>8. \A b \in Agents : Reaps(b)
  BY <1>6, <1>7, UnwrittenReaps
<1>9. QED
  BY <1>1, <1>8, ReapingStep

LEMMA InterruptRuntimeFenced ==
    ASSUME Inv, NEW r \in Runtimes, NEW report \in Reports,
           InterruptRuntime(r, report)
    PROVE  Fenced!Next
<1>1. SUFFICES ASSUME NEW a \in Agents PROVE Moves(a, r)
  BY TransactionStep DEF InterruptRuntime
<1> DEFINE row == SettledAgents[a]
<1>2. CASE ~ (row.runtime = r /\ row.status \in Active)
  <2>1. agents'[a] = row /\ runs'[a] = SettledRuns[a]
    BY <1>2 DEF InterruptRuntime
  <2>2. QED
    BY <2>1, UnwrittenReaps DEF Moves
<1>3. CASE row.runtime = r /\ row.status \in Active
  <2>1. /\ row = agents[a] /\ SettledRuns[a] = runs[a]
        /\ row.status \in Claimed
        /\ agents[a] \in AgentRow /\ agents[a].gen \in Generations
        /\ CurrentRunFollowsStatus(agents[a], runs[a][agents[a].gen])
    BY <1>3, LiveFacts DEF Active, Claimed
  <2>2. runs[a][agents[a].gen].status \in ActiveRun
    BY <1>3, <2>1 DEF CurrentRunFollowsStatus, Active, ActiveRun
  <2>3. PICK run : /\ run.status = "interrupted"
                   /\ runs'[a] = [SettledRuns[a] EXCEPT ![row.gen] = run]
    <3>1. runs'[a] = [SettledRuns[a] EXCEPT
                        ![row.gen] = InterruptedRun(@, report)]
      BY <1>3 DEF InterruptRuntime
    <3>2. InterruptedRun(SettledRuns[a][row.gen], report).status
            = "interrupted"
      BY <2>1, <2>2 DEF InterruptedRun
    <3>3. QED
      BY <3>1, <3>2
  <2>4. agents'[a] = Released(row, "interrupted")
    BY <1>3 DEF InterruptRuntime
  <2>5. /\ agents'[a].gen = agents[a].gen
        /\ agents'[a].status = "interrupted"
        /\ agents'[a].runtime = NoRuntime /\ agents'[a].expires = 0
    BY <2>1, <2>4, ReleasedRow DEF Claimable
  <2>6. run.status \in TerminalRun
    BY <2>3 DEF TerminalRun
  <2>7. QED
    BY <1>3, <2>1, <2>2, <2>3, <2>5, <2>6, HolderReleases
<1>4. QED
  BY <1>2, <1>3

-----------------------------------------------------------------------------
(* New claims.                                                             *)

LEMMA AcquireStep ==
    ASSUME Inv, NEW a \in Agents, NEW r, NEW gen \in Generations,
           gen = agents[a].gen + 1,
           agents[a].status # "deleted",
           agents[a].status \in Claimed => Expired(agents[a]),
           ClaimOf(agents'[a]) = [gen |-> gen, holder |-> r,
                                  until |-> now + LeaseDuration],
           runs[a][gen] = NoRun,
           \A g \in Generations :
              OutcomeAt(agents'[a], runs'[a], g) =
                IF g = gen THEN "pending"
                ELSE IF g = agents[a].gen
                          /\ OutcomeAt(agents[a], runs[a], g) = "pending"
                THEN "interrupted"
                ELSE OutcomeAt(agents[a], runs[a], g)
    PROVE  Fenced!Acquire(a, r)
<1>1. /\ agents[a] \in AgentRow
      /\ runs[a] \in [Generations -> RunRow]
      /\ RowAgrees(a, agents[a], runs[a], Lease)
  BY DEF Inv, TypeOK, TablesAgree
<1>2. ~Fenced!Live(a)
  <2>1. CASE agents[a].status \in Claimed
    BY <2>1, ClaimedRow
  <2>2. CASE agents[a].status \notin Claimed
    <3>1. agents[a].runtime = NoRuntime
      BY <1>1, <2>2 DEF RowAgrees, LeaseColumnsFollowStatus
    <3>2. Fenced!Free(a)
      BY <3>1 DEF Fenced!Free
    <3>3. QED
      BY <3>2 DEF Fenced!Live
  <2>3. QED
    BY <2>1, <2>2
<1>3. agents[a].gen # 0 => Fenced!Latest(a) # "withdrawn"
  <2>1. SUFFICES ASSUME agents[a].gen # 0
                 PROVE  Fenced!Latest(a) # "withdrawn"
    OBVIOUS
  <2>2. agents[a].gen \in Generations
    BY <1>1, <2>1, BoundAssumption DEF AgentRow, Generations
  <2>3. /\ runs[a][agents[a].gen].status
             \in ActiveRun \cup TerminalRun \cup {"none"}
        /\ Fenced!Latest(a) = OutcomeAt(agents[a], runs[a], agents[a].gen)
    BY <1>1, <2>2 DEF Fenced!Latest, OutcomeAt, RunRow
  <2>4. QED
    BY <2>3 DEF OutcomeAt, ActiveRun, TerminalRun
<1>4. OutcomeAt(agents[a], runs[a], gen) = "none"
  BY DEF OutcomeAt, NoRun, ActiveRun
<1>5. \A g \in Generations :
        OutcomeOf(agents'[a], runs'[a])[g] =
          IF g = gen THEN "pending"
          ELSE IF g = agents[a].gen
                    /\ OutcomeOf(agents[a], runs[a])[g] = "pending"
          THEN "interrupted"
          ELSE OutcomeOf(agents[a], runs[a])[g]
  BY DEF OutcomeOf
<1>6. QED
  BY <1>2, <1>3, <1>4, <1>5
  DEF Fenced!Acquire, ClaimOf, OutcomeOf, OutcomeAt

(* The outcomes that an agent without a live claim has after               *)
(* reconciliation.                                                         *)
LEMMA SettledOutcome ==
    ASSUME Inv, NEW a \in Agents, SettledAgents[a].status \notin Claimed,
           agents[a].gen \in Generations, agents[a].status # "deleted",
           NEW g \in Generations
    PROVE  OutcomeAt(SettledAgents[a], SettledRuns[a], g) =
             IF g = agents[a].gen
                  /\ OutcomeAt(agents[a], runs[a], g) = "pending"
             THEN "interrupted"
             ELSE OutcomeAt(agents[a], runs[a], g)
<1>1. CASE Expired(agents[a])
  <2>1. OutcomeAt(SettledAgents[a], SettledRuns[a], g)
          = EndedOutcome(agents[a], runs[a], "interrupted")[g]
    BY <1>1, ReapedFacts DEF OutcomeOf
  <2>2. runs[a][agents[a].gen].status
          \in ActiveRun \cup TerminalRun \cup {"none"}
    BY DEF Inv, TypeOK, RunRow
  <2>3. OutcomeAt(agents[a], runs[a], agents[a].gen) = "pending"
          <=> runs[a][agents[a].gen].status \in ActiveRun
    BY <2>2 DEF OutcomeAt, ActiveRun, TerminalRun
  <2>4. QED
    BY <2>1, <2>3 DEF EndedOutcome, OutcomeOf
<1>2. CASE ~Expired(agents[a])
  <2>1. SettledAgents[a] = agents[a] /\ SettledRuns[a] = runs[a]
    BY <1>2, UnexpiredFacts
  <2>2. agents[a].status \in Claimable
    <3>1. agents[a] \in AgentRow /\ RowAgrees(a, agents[a], runs[a], Lease)
      BY DEF Inv, TypeOK, TablesAgree
    <3>2. agents[a].status \notin Absent
      BY <3>1 DEF RowAgrees, Generations
    <3>3. QED
      BY <2>1, <3>1, <3>2 DEF AgentRow
  <2>3. CurrentRunFollowsStatus(agents[a], runs[a][agents[a].gen])
    BY DEF Inv, TablesAgree, RowAgrees, Generations
  <2>4. runs[a][agents[a].gen].status \in TerminalRun
    BY <2>2, <2>3 DEF CurrentRunFollowsStatus, Claimable, TerminalRun
  <2>5. OutcomeAt(agents[a], runs[a], agents[a].gen) # "pending"
    BY <2>4 DEF OutcomeAt, TerminalRun, ActiveRun
  <2>6. QED
    BY <2>1, <2>5
<1>3. QED
  BY <1>1, <1>2

LEMMA ClaimFenced ==
    ASSUME Inv, NEW r \in Runtimes, NEW a \in Agents, Claim(r, a)
    PROVE  Fenced!Next
<1> DEFINE row == SettledAgents[a]
<1>1. PICK gen \in Generations : gen = row.gen + 1
  BY DEF Claim
<1> DEFINE new == Leased(Restarted(row, gen), r)
           run == [status |-> "starting", report |-> NoReport]
<1>2. /\ row.status \in Claimable /\ PutAgent(a, new)
      /\ PutRun(a, gen, run) /\ now' = now
  BY <1>1 DEF Claim
<1>3. /\ agents[a] \in AgentRow /\ row \in AgentRow
      /\ row.gen = agents[a].gen
      /\ r \in Runtimes \cup {NoRuntime}
      /\ row.status \notin Absent /\ agents[a].status \notin Absent
      /\ row.status \notin Claimed
  BY <1>2, SettledKeeps DEF Claimable, Claimed, Absent
<1>4. /\ agents[a].gen \in Generations
      /\ agents[a].status # "deleted" /\ row.status # "deleted"
      /\ RowAgrees(a, agents[a], runs[a], Lease)
  <2>1. RowAgrees(a, agents[a], runs[a], Lease)
    BY DEF Inv, TablesAgree
  <2>2. agents[a].gen # 0
    BY <1>3, <2>1 DEF RowAgrees
  <2>3. QED
    BY <1>3, <2>1, <2>2, BoundAssumption DEF AgentRow, Generations, Absent
<1>5. agents[a].status \in Claimed => Expired(agents[a])
  BY <1>3, UnexpiredFacts
<1>6. /\ new.gen = gen /\ new.status = "starting"
      /\ new.runtime = r /\ new.expires = now + LeaseDuration
  BY <1>3, RestartedRow, LeasedRow DEF Inv
<1> HIDE DEF new
<1>7. /\ agents'[a] = new
      /\ runs'[a] = [SettledRuns[a] EXCEPT ![gen] = run]
      /\ \A b \in Agents \ {a} : /\ agents'[b] = SettledAgents[b]
                                  /\ runs'[b] = SettledRuns[b]
  BY <1>2, PutOneAgent, PutOneRun
<1>8. ClaimOf(agents'[a]) = [gen |-> gen, holder |-> r,
                             until |-> now + LeaseDuration]
  BY <1>6, <1>7 DEF ClaimOf
<1>9. SettledRuns[a] \in [Generations -> RunRow]
  BY SettledType DEF Inv
<1>10. ASSUME NEW g \in Generations
       PROVE  OutcomeAt(agents'[a], runs'[a], g) =
                IF g = gen THEN "pending"
                ELSE IF g = agents[a].gen
                          /\ OutcomeAt(agents[a], runs[a], g) = "pending"
                THEN "interrupted"
                ELSE OutcomeAt(agents[a], runs[a], g)
  <2>1. CASE g = gen
    BY <1>6, <1>7, <1>9, <2>1 DEF OutcomeAt, ActiveRun
  <2>2. CASE g # gen
    <3>1. runs'[a][g] = SettledRuns[a][g]
      BY <1>7, <1>9, <2>2
    <3>2. OutcomeAt(agents'[a], runs'[a], g)
            = OutcomeAt(row, SettledRuns[a], g)
      BY <1>4, <1>6, <1>7, <3>1 DEF OutcomeAt
    <3>3. QED
      BY <1>3, <1>4, <2>2, <3>2, SettledOutcome
  <2>3. QED
    BY <2>1, <2>2
<1>11. runs[a][gen] = NoRun
  <2>1. gen > agents[a].gen
    BY <1>1, <1>3, <1>4 DEF Generations
  <2>2. QED
    BY <1>4, <2>1 DEF RowAgrees, OtherRunsAreOver
<1>12. Fenced!Acquire(a, r)
  BY <1>1, <1>3, <1>4, <1>5, <1>8, <1>10, <1>11, AcquireStep
<1>13. Moves(a, r)
  BY <1>12 DEF Moves
<1>14. QED
  BY <1>2, <1>7, <1>13, OneWrite

LEMMA CreateFenced ==
    ASSUME Inv, NEW r \in Runtimes, NEW owner \in Owners, NEW a \in Agents,
           Create(r, owner, a)
    PROVE  Fenced!Next
<1> DEFINE new == [owner |-> owner, status |-> "starting", gen |-> 1,
                   conv |-> NoConversation, runtime |-> r,
                   expires |-> now + LeaseDuration]
           run == [status |-> "starting", report |-> NoReport]
<1>1. /\ agents[a].status = "unused" /\ PutAgent(a, new)
      /\ PutRun(a, 1, run) /\ now' = now
  BY DEF Create
<1>2. /\ agents[a].gen = 0 /\ agents[a].status \notin Claimed
      /\ OtherRunsAreOver(agents[a], runs[a])
  BY <1>1 DEF Inv, TablesAgree, RowAgrees, Absent, Claimed
<1>3. 1 \in Generations
  BY BoundAssumption DEF Generations
<1>4. ~Expired(agents[a])
  BY <1>2 DEF Expired
<1>5. SettledRuns[a] = runs[a] /\ runs[a] \in [Generations -> RunRow]
  BY <1>4, UnexpiredFacts DEF Inv, TypeOK
<1>6. /\ agents'[a] = new
      /\ runs'[a] = [runs[a] EXCEPT ![1] = run]
      /\ \A b \in Agents \ {a} : /\ agents'[b] = SettledAgents[b]
                                  /\ runs'[b] = SettledRuns[b]
  BY <1>1, <1>3, <1>5, PutOneAgent, PutOneRun
<1>7. ClaimOf(agents'[a]) = [gen |-> 1, holder |-> r,
                             until |-> now + LeaseDuration]
  BY <1>6 DEF ClaimOf
<1>8. ASSUME NEW g \in Generations
      PROVE  OutcomeAt(agents'[a], runs'[a], g) =
               IF g = 1 THEN "pending"
               ELSE IF g = agents[a].gen
                         /\ OutcomeAt(agents[a], runs[a], g) = "pending"
               THEN "interrupted"
               ELSE OutcomeAt(agents[a], runs[a], g)
  <2>1. CASE g = 1
    BY <1>5, <1>6, <2>1 DEF OutcomeAt, ActiveRun
  <2>2. CASE g # 1
    <3>1. runs'[a][g] = runs[a][g] /\ g # agents[a].gen
      BY <1>2, <1>5, <1>6, <2>2 DEF Generations
    <3>2. agents[a].status # "deleted" /\ agents'[a].status # "deleted"
      BY <1>1, <1>6
    <3>3. QED
      BY <2>2, <3>1, <3>2 DEF OutcomeAt
  <2>3. QED
    BY <2>1, <2>2
<1>9. runs[a][1] = NoRun
  BY <1>2, <1>3 DEF OtherRunsAreOver
<1>10. 1 = agents[a].gen + 1 /\ agents[a].status # "deleted"
  BY <1>1, <1>2
<1>11. Fenced!Acquire(a, r)
  BY <1>2, <1>3, <1>7, <1>8, <1>9, <1>10, AcquireStep
<1>12. Moves(a, r)
  BY <1>11 DEF Moves
<1>13. QED
  BY <1>1, <1>6, <1>12, OneWrite

-----------------------------------------------------------------------------
(* The whole of it.                                                        *)

LEMMA UnclaimedStep ==
    ASSUME Inv, KeepAgents, KeepRuns, now' = now
    PROVE  [Fenced!Next]_(Fenced!claimVars)
BY UnwrittenReaps, ReapingStep DEF KeepAgents, KeepRuns

LEMMA WorkerFenced ==
    ASSUME Inv, NEW l \in leases, WorkerStep(l)
    PROVE  [Fenced!Next]_(Fenced!claimVars)
<1>1. CASE NextSteering(l) \/ AcknowledgeSteering(l)
  BY <1>1, UnclaimedStep DEF NextSteering, AcknowledgeSteering
<1>2. CASE ~ (NextSteering(l) \/ AcknowledgeSteering(l))
  <2>1. Fenced!Next
    BY <1>2, AbortFenced, AttachFenced, MarkRunningFenced, TerminalFenced,
       RenewFenced, CompleteCancelFenced DEF WorkerStep
  <2>2. QED
    BY <2>1
<1>3. QED
  BY <1>1, <1>2

LEMMA ParentFenced ==
    ASSUME Inv, NEW a \in Agents, ParentStep(a)
    PROVE  [Fenced!Next]_(Fenced!claimVars)
<1>1. ASSUME NEW text \in Messages, EnqueueSteering(a, text)
      PROVE  [Fenced!Next]_(Fenced!claimVars)
  BY <1>1, UnclaimedStep DEF EnqueueSteering
<1>2. QED
  BY <1>1, CreateFenced, ClaimFenced, CancelActiveFenced,
     CancelInactiveFenced DEF ParentStep

LEMMA ClockFenced ==
    ASSUME SetClock
    PROVE  Fenced!SetClock
<1>1. now' \in Nat
  BY BoundAssumption DEF SetClock
<1>2. QED
  BY <1>1 DEF SetClock, Fenced!SetClock

LEMMA NextFenced ==
    ASSUME Inv, [Next]_vars
    PROVE  [Fenced!Next]_(Fenced!claimVars)
<1>1. CASE Reconcile
  BY <1>1, UnclaimedStep DEF Reconcile
<1>2. CASE SetClock
  BY <1>2, ClockFenced DEF Fenced!Next
<1>3. CASE UNCHANGED vars
  BY <1>3 DEF vars, Fenced!claimVars
<1>4. ASSUME NEW r \in Runtimes, NEW report \in Reports,
             InterruptRuntime(r, report)
      PROVE  [Fenced!Next]_(Fenced!claimVars)
  BY <1>4, InterruptRuntimeFenced
<1>5. QED
  BY <1>1, <1>2, <1>3, <1>4, WorkerFenced, ParentFenced DEF Next

LEMMA InitFenced == Init => Fenced!Init
BY DEF Init, Fenced!Init, AbsentRow, NoRun, ActiveRun

(* Every behaviour of the tables, for all values of the constants, is one  *)
(* of fenced claims.                                                       *)
THEOREM ClaimsAreFenced == Spec => FencedSpec
<1>1. Inv /\ [Next]_vars => [Fenced!Next]_(Fenced!claimVars)
  BY NextFenced
<1>2. QED
  BY <1>1, InitInv, NextInv, InitFenced, PTL
  DEF Spec, FencedSpec, Fenced!Spec
=============================================================================
