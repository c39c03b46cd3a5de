----------------------------- MODULE AgentStore -----------------------------
(***************************************************************************)
(* The durable agent store of internal/db: the agents, runs and            *)
(* steering_messages tables and every operation of *Store on them, with    *)
(* the mailbox disabled (its default).                                     *)
(*                                                                         *)
(* Each operation is one BEGIN IMMEDIATE transaction, so one action.       *)
(* Every transaction first reconciles expired leases, and an operation     *)
(* that returns an error rolls that back too: a failing call is a          *)
(* stuttering step.  The operators Settled... are the rows as the rest of  *)
(* the transaction sees them, after reconcileExpiredTx.                    *)
(*                                                                         *)
(* Random run ids and lease tokens are abstracted to the pair (agent,      *)
(* generation) they are unique to, and a NULL lease expiry to 0, which is  *)
(* at or before every clock reading, as the code treats it.  A lease, once *)
(* issued, may be presented at any later time, any number of times: this   *)
(* covers slow, retrying, stale and crashed workers.                       *)
(*                                                                         *)
(* A definition marked "Slip" is not part of the specification: it is a    *)
(* plausible mistake in the definition after it, which some property has   *)
(* to catch.                                                               *)
(***************************************************************************)
EXTENDS Integers, FiniteSets

CONSTANTS
    Agents,          \* agent ids (random in the code, never reused)
    Owners,          \* owner (parent) conversation ids
    Runtimes,        \* runtime ids, one per extension process
    Conversations,   \* child conversation ids
    Reports,         \* (result, error) pairs a worker or a shutdown may record
    Messages,        \* steering texts
    NoOwner, NoRuntime, NoConversation, NoReport,      \* NULL columns
    LeaseDuration,                                     \* LeaseDurationSeconds
    MaxActiveAgentsPerConversation, MaxActiveAgentsTotal,
    MaxGeneration,   \* bound: runs of one agent
    MaxTime,         \* bound: clock readings
    MaxMessageId     \* bound: steering row ids

ASSUME NullAssumption ==
    /\ NoOwner \notin Owners
    /\ NoRuntime \notin Runtimes
    /\ NoConversation \notin Conversations
    /\ NoReport \notin Reports

ASSUME LimitAssumption ==
    /\ IsFiniteSet(Agents)
    /\ LeaseDuration \in Nat \ {0}
    /\ MaxActiveAgentsPerConversation \in Nat
    /\ MaxActiveAgentsTotal \in Nat

ASSUME BoundAssumption ==
    /\ MaxGeneration \in Nat \ {0}
    /\ MaxTime \in Nat
    /\ MaxMessageId \in Nat

VARIABLES
    now,        \* the wall clock, as read inside a transaction
    agents,     \* the agents table, by id
    runs,       \* the runs table, by agent id and generation
    steering,   \* the steering_messages table
    leases,     \* every lease the store has handed out
    inflight    \* what each worker's pump got from NextSteering and still holds

vars == <<now, agents, runs, steering, leases, inflight>>

-----------------------------------------------------------------------------
(* Statuses and rows.                                                      *)

Active    == {"starting", "running"}
Claimed   == {"starting", "running", "canceling"}
(* Slip: a canceling agent may be claimed before its worker is gone.       *)
ClaimableEarly == {"idle", "failed", "interrupted", "canceled", "canceling"}
Claimable == {"idle", "failed", "interrupted", "canceled"}
Absent    == {"unused", "deleted"}      \* no row: not created yet, or aborted

ActiveRun   == {"starting", "running"}
TerminalRun == {"completed", "failed", "interrupted", "canceled"}

(* Errors the store itself records with a run.                             *)
StoreReports == {"agent lease expired", "agent canceled by parent"}

Generations == 1 .. MaxGeneration

AgentRow == [owner   : Owners \cup {NoOwner},
             status  : Claimed \cup Claimable \cup Absent,
             gen     : 0 .. MaxGeneration,
             conv    : Conversations \cup {NoConversation},
             runtime : Runtimes \cup {NoRuntime},
             expires : Nat]

RunRow == [status : ActiveRun \cup TerminalRun \cup {"none"},
           report : Reports \cup StoreReports \cup {NoReport}]

SteeringRow == [id : 1 .. MaxMessageId, agent : Agents, gen : Generations,
                text : Messages]

Lease == [agent : Agents, gen : Generations, runtime : Runtimes]

Delivery == [lease : Lease, id : 1 .. MaxMessageId, text : Messages]

NoRun == [status |-> "none", report |-> NoReport]

AbsentRow(status) ==
    [owner |-> NoOwner, status |-> status, gen |-> 0, conv |-> NoConversation,
     runtime |-> NoRuntime, expires |-> 0]

(* A row whose claim ends with the given status: the lease columns go NULL. *)
Released(row, status) ==
    [row EXCEPT !.status = status, !.runtime = NoRuntime, !.expires = 0]

-----------------------------------------------------------------------------
(* reconcileExpiredTx: what every transaction does first.                  *)

Expired(row) == row.status \in Claimed /\ row.expires <= now

InterruptedRun(run, report) ==
    IF run.status \in ActiveRun
    THEN [status |-> "interrupted", report |-> report]
    ELSE run

(* completeCancelRowTx: only when the current run was canceled.            *)
CanceledRow(row, run) ==
    IF run.status = "canceled" THEN Released(row, "canceled") ELSE row

ReapedRow(row, run) ==
    IF row.status = "canceling" THEN CanceledRow(row, run)
                                ELSE Released(row, "interrupted")

(* Slip: reconciliation updates the agent row and forgets its run.         *)
ReapedRunForgotten(row, run) == run

ReapedRun(row, run) ==
    IF row.status = "canceling" THEN run
                                ELSE InterruptedRun(run, "agent lease expired")

SettledAgents ==
    [a \in Agents |-> IF Expired(agents[a])
                      THEN ReapedRow(agents[a], runs[a][agents[a].gen])
                      ELSE agents[a]]

SettledRuns ==
    [a \in Agents |-> IF Expired(agents[a])
                      THEN [runs[a] EXCEPT ![agents[a].gen] =
                              ReapedRun(agents[a], runs[a][agents[a].gen])]
                      ELSE runs[a]]

-----------------------------------------------------------------------------
(* Validation of a lease against the settled rows.                         *)

(* validateLeaseOwnership; the row lookups fail for an absent agent.  The  *)
(* generation stands for the active run id and the lease token as well.    *)
LeaseOwned(l) ==
    LET row == SettledAgents[l.agent]
    IN  /\ row.gen = l.gen
        /\ row.runtime = l.runtime
        /\ row.expires > now

(* Slip: the lease is checked, but not what became of the claim.           *)
ActiveLeaseOwnedOnly(l) == LeaseOwned(l)

ActiveLease(l) ==
    /\ LeaseOwned(l)
    /\ SettledAgents[l.agent].status \in Active
    /\ SettledRuns[l.agent][l.gen].status \in ActiveRun

CancelingLease(l) ==
    /\ LeaseOwned(l)
    /\ SettledAgents[l.agent].status = "canceling"
    /\ SettledRuns[l.agent][l.gen].status = "canceled"

(* Slip: workers still cleaning up after a cancellation are not counted.   *)
WithinLimitsActiveOnly(owner) ==
    LET active == {a \in Agents : SettledAgents[a].status \in Active}
    IN  /\ Cardinality({a \in active : SettledAgents[a].owner = owner})
             < MaxActiveAgentsPerConversation
        /\ Cardinality(active) < MaxActiveAgentsTotal

(* checkLimitsTx, counted after reconciliation.                            *)
WithinLimits(owner) ==
    LET claimed == {a \in Agents : SettledAgents[a].status \in Claimed}
    IN  /\ Cardinality({a \in claimed : SettledAgents[a].owner = owner})
             < MaxActiveAgentsPerConversation
        /\ Cardinality(claimed) < MaxActiveAgentsTotal

(* Slips: another agent's conversation is accepted; so is a new one.       *)
ConversationFitsShared(a, conv) ==
    SettledAgents[a].conv \in {NoConversation, conv}

ConversationFitsAnew(a, conv) ==
    \A b \in Agents \ {a} : SettledAgents[b].conv # conv

(* The UNIQUE constraint on child_conversation_id, and the rule that an    *)
(* attached conversation cannot change.                                    *)
ConversationFits(a, conv) ==
    /\ SettledAgents[a].conv \in {NoConversation, conv}
    /\ \A b \in Agents \ {a} : SettledAgents[b].conv # conv

-----------------------------------------------------------------------------
(* Writes: each is on top of the settled rows.                             *)

PutAgent(a, row)  == agents' = [SettledAgents EXCEPT ![a] = row]
PutRun(a, g, run) == runs' = [SettledRuns EXCEPT ![a][g] = run]
KeepAgents        == agents' = SettledAgents
KeepRuns          == runs' = SettledRuns

Leased(row, runtime) ==
    [row EXCEPT !.runtime = runtime, !.expires = now + LeaseDuration]

-----------------------------------------------------------------------------
(* Operations of a parent conversation, through some runtime's store.      *)

(* A transaction that changes nothing but what it reconciles:              *)
(* ReconcileExpired, Initialize, Get, List, Cancel of a canceling or       *)
(* canceled agent, Abort of an absent agent, a repeated identical          *)
(* Terminal, CompleteCancel of a claim that is not canceling, NextSteering *)
(* on an empty queue.                                                      *)
Reconcile ==
    /\ KeepAgents
    /\ KeepRuns
    /\ UNCHANGED <<now, steering, leases, inflight>>

Create(runtime, owner, a) ==
    /\ agents[a].status = "unused"
    /\ WithinLimits(owner)
    /\ PutAgent(a, [owner |-> owner, status |-> "starting", gen |-> 1,
                    conv |-> NoConversation, runtime |-> runtime,
                    expires |-> now + LeaseDuration])
    /\ PutRun(a, 1, [status |-> "starting", report |-> NoReport])
    /\ leases' = leases \cup {[agent |-> a, gen |-> 1, runtime |-> runtime]}
    /\ UNCHANGED <<now, steering, inflight>>

(* Slip: guidance stays addressed to the run it was sent to.               *)
RehomedNot(a, gen) == steering

(* The follow-up run takes over whatever guidance is still queued.         *)
Rehomed(a, gen) ==
    {IF m.agent = a THEN [m EXCEPT !.gen = gen] ELSE m : m \in steering}

Restarted(row, gen) == [row EXCEPT !.status = "starting", !.gen = gen]

Claim(runtime, a) ==
    LET row == SettledAgents[a]
        gen == row.gen + 1
    IN  /\ row.status \in Claimable
        /\ row.status = "idle" => row.conv # NoConversation
        /\ WithinLimits(row.owner)
        /\ gen \in Generations
        /\ PutAgent(a, Leased(Restarted(row, gen), runtime))
        /\ PutRun(a, gen, [status |-> "starting", report |-> NoReport])
        /\ steering' = Rehomed(a, gen)
        /\ leases' = leases \cup
                       {[agent |-> a, gen |-> gen, runtime |-> runtime]}
        /\ UNCHANGED <<now, inflight>>

Queue(a, gen) == {m \in steering : m.agent = a /\ m.gen = gen}

Canceling(row) == [row EXCEPT !.status = "canceling"]

(* An active claim is not released: its owner gets a fresh lease to clean  *)
(* up under.                                                               *)
CancelActive(a) ==
    LET row == SettledAgents[a]
    IN  /\ row.status \in Active
        /\ steering' = steering \ Queue(a, row.gen)
        /\ PutRun(a, row.gen,
                  IF SettledRuns[a][row.gen].status \in ActiveRun
                  THEN [status |-> "canceled",
                        report |-> "agent canceled by parent"]
                  ELSE SettledRuns[a][row.gen])
        /\ PutAgent(a, Leased(Canceling(row), row.runtime))
        /\ UNCHANGED <<now, leases, inflight>>

CancelInactive(a) ==
    LET row == SettledAgents[a]
    IN  /\ row.status \in Claimable \ {"canceled"}
        /\ steering' = steering \ Queue(a, row.gen)
        /\ PutAgent(a, Released(row, "canceled"))
        /\ KeepRuns
        /\ UNCHANGED <<now, leases, inflight>>

(* An INTEGER PRIMARY KEY without AUTOINCREMENT: one more than the largest *)
(* id in the table, so the ids of deleted rows come back.                  *)
IsNextRowId(id) ==
    /\ \A m \in steering : m.id < id
    /\ id = 1 \/ \E m \in steering : m.id = id - 1

(* Slip: a new message replaces those already pending.                     *)
EnqueueSteeringLatest(a, text) ==
    LET row == SettledAgents[a]
    IN  /\ row.status = "running"
        /\ row.expires > now
        /\ \E id \in 1 .. MaxMessageId :
              /\ IsNextRowId(id)
              /\ steering' = (steering \ Queue(a, row.gen)) \cup
                   {[id |-> id, agent |-> a, gen |-> row.gen, text |-> text]}
        /\ KeepAgents
        /\ KeepRuns
        /\ UNCHANGED <<now, leases, inflight>>

EnqueueSteering(a, text) ==
    LET row == SettledAgents[a]
    IN  /\ row.status = "running"
        /\ SettledRuns[a][row.gen].status = "running"
        /\ row.conv # NoConversation
        /\ row.expires > now
        /\ \E id \in 1 .. MaxMessageId :
              /\ IsNextRowId(id)
              /\ steering' = steering \cup
                   {[id |-> id, agent |-> a, gen |-> row.gen, text |-> text]}
        /\ KeepAgents
        /\ KeepRuns
        /\ UNCHANGED <<now, leases, inflight>>

-----------------------------------------------------------------------------
(* Operations of the worker that holds a lease.                            *)

Abort(l) ==
    /\ ActiveLease(l)
    /\ l.gen = 1
    /\ SettledAgents[l.agent].status = "starting"
    /\ SettledRuns[l.agent][1].status = "starting"
    /\ SettledAgents[l.agent].conv = NoConversation
    /\ PutAgent(l.agent, AbsentRow("deleted"))
    /\ PutRun(l.agent, 1, NoRun)
    /\ steering' = {m \in steering : m.agent # l.agent}
    /\ UNCHANGED <<now, leases, inflight>>

WithConversation(row, conv) == [row EXCEPT !.conv = conv]

(* AttachConversation and AttachCancelingConversation.                     *)
Attach(l, conv) ==
    /\ ConversationFits(l.agent, conv)
    /\ PutAgent(l.agent, WithConversation(SettledAgents[l.agent], conv))
    /\ KeepRuns
    /\ UNCHANGED <<now, steering, leases, inflight>>

AttachConversation(l, conv) == ActiveLease(l) /\ Attach(l, conv)

AttachCancelingConversation(l, conv) == CancelingLease(l) /\ Attach(l, conv)

Running(row, conv) == [row EXCEPT !.status = "running", !.conv = conv]

MarkRunning(l, conv) ==
    /\ ActiveLease(l)
    /\ ConversationFits(l.agent, conv)
    /\ PutAgent(l.agent, Running(SettledAgents[l.agent], conv))
    /\ PutRun(l.agent, l.gen,
              [SettledRuns[l.agent][l.gen] EXCEPT !.status = "running"])
    /\ UNCHANGED <<now, steering, leases, inflight>>

(* Slip: the agent's status is written to the run row as it is.            *)
RunStatusOfAgent == [idle |-> "idle", failed |-> "failed",
                     interrupted |-> "interrupted"]

RunStatusOf == [idle |-> "completed", failed |-> "failed",
                interrupted |-> "interrupted"]

Terminal(l, status, conv, report) ==
    LET row == SettledAgents[l.agent]
        resolved == IF conv = NoConversation THEN row.conv ELSE conv
    IN  /\ ActiveLease(l)
        /\ status = "idle" => row.status = "running"
        /\ conv # NoConversation => ConversationFits(l.agent, conv)
        /\ status = "idle" => resolved # NoConversation
        /\ PutRun(l.agent, l.gen,
                  [status |-> RunStatusOf[status], report |-> report])
        /\ PutAgent(l.agent, WithConversation(Released(row, status), resolved))
        /\ UNCHANGED <<now, steering, leases, inflight>>

(* Heartbeat and HeartbeatCanceling.                                       *)
RenewLease(l) ==
    /\ PutAgent(l.agent, Leased(SettledAgents[l.agent], l.runtime))
    /\ KeepRuns
    /\ UNCHANGED <<now, steering, leases, inflight>>

Heartbeat(l) == ActiveLease(l) /\ RenewLease(l)

HeartbeatCanceling(l) == CancelingLease(l) /\ RenewLease(l)

CompleteCancel(l) ==
    /\ CancelingLease(l)
    /\ PutAgent(l.agent, CanceledRow(SettledAgents[l.agent],
                                     SettledRuns[l.agent][l.gen]))
    /\ KeepRuns
    /\ UNCHANGED <<now, steering, leases, inflight>>

(* Slip: the newest message is delivered first.                            *)
NextSteeringNewest(l) ==
    /\ ActiveLease(l)
    /\ \E m \in Queue(l.agent, l.gen) :
          /\ \A n \in Queue(l.agent, l.gen) : n.id <= m.id
          /\ inflight' = {d \in inflight : d.lease # l} \cup
                           {[lease |-> l, id |-> m.id, text |-> m.text]}
    /\ KeepAgents
    /\ KeepRuns
    /\ UNCHANGED <<now, steering, leases>>

(* The pump holds one message at a time.                                   *)
NextSteering(l) ==
    /\ ActiveLease(l)
    /\ SettledAgents[l.agent].status = "running"
    /\ SettledRuns[l.agent][l.gen].status = "running"
    /\ \E m \in Queue(l.agent, l.gen) :
          /\ \A n \in Queue(l.agent, l.gen) : m.id <= n.id
          /\ inflight' = {d \in inflight : d.lease # l} \cup
                           {[lease |-> l, id |-> m.id, text |-> m.text]}
    /\ KeepAgents
    /\ KeepRuns
    /\ UNCHANGED <<now, steering, leases>>

(* Slip: acknowledging one message clears the run's whole queue.           *)
AcknowledgeSteeringAll(l) ==
    /\ ActiveLease(l)
    /\ \E d \in inflight :
          /\ d.lease = l
          /\ steering' = steering \ Queue(l.agent, l.gen)
          /\ inflight' = inflight \ {d}
    /\ KeepAgents
    /\ KeepRuns
    /\ UNCHANGED <<now, leases>>

(* Called with the message the session accepted; deletes by row id.        *)
AcknowledgeSteering(l) ==
    /\ ActiveLease(l)
    /\ \E d \in inflight :
          /\ d.lease = l
          /\ steering' = {m \in steering : ~ (/\ m.id = d.id
                                              /\ m.agent = l.agent
                                              /\ m.gen = l.gen)}
          /\ inflight' = inflight \ {d}
    /\ KeepAgents
    /\ KeepRuns
    /\ UNCHANGED <<now, leases>>

-----------------------------------------------------------------------------
(* Shutdown of a runtime, the clock, and the specification.                *)

InterruptRuntime(runtime, report) ==
    LET mine == {a \in Agents : /\ SettledAgents[a].runtime = runtime
                                /\ SettledAgents[a].status \in Active}
    IN  /\ agents' = [a \in Agents |->
              IF a \in mine THEN Released(SettledAgents[a], "interrupted")
                            ELSE SettledAgents[a]]
        /\ runs' = [a \in Agents |->
              IF a \in mine
              THEN [SettledRuns[a] EXCEPT ![SettledAgents[a].gen] =
                                            InterruptedRun(@, report)]
              ELSE SettledRuns[a]]
        /\ UNCHANGED <<now, steering, leases, inflight>>

(* SystemClock reads the wall clock, which may also be set back.           *)
SetClock ==
    /\ now' \in 0 .. MaxTime
    /\ UNCHANGED <<agents, runs, steering, leases, inflight>>

Init ==
    /\ now = 0
    /\ agents = [a \in Agents |-> AbsentRow("unused")]
    /\ runs = [a \in Agents |-> [g \in Generations |-> NoRun]]
    /\ steering = {}
    /\ leases = {}
    /\ inflight = {}

WorkerStep(l) ==
    \/ Abort(l)
    \/ \E conv \in Conversations :
          \/ AttachConversation(l, conv)
          \/ AttachCancelingConversation(l, conv)
          \/ MarkRunning(l, conv)
    \/ \E status \in DOMAIN RunStatusOf, report \in Reports,
          conv \in Conversations \cup {NoConversation} :
          Terminal(l, status, conv, report)
    \/ Heartbeat(l)
    \/ HeartbeatCanceling(l)
    \/ CompleteCancel(l)
    \/ NextSteering(l)
    \/ AcknowledgeSteering(l)

ParentStep(a) ==
    \/ \E runtime \in Runtimes, owner \in Owners : Create(runtime, owner, a)
    \/ \E runtime \in Runtimes : Claim(runtime, a)
    \/ CancelActive(a)
    \/ CancelInactive(a)
    \/ \E text \in Messages : EnqueueSteering(a, text)

Next ==
    \/ \E a \in Agents : ParentStep(a)
    \/ \E l \in leases : WorkerStep(l)
    \/ \E runtime \in Runtimes, report \in Reports :
          InterruptRuntime(runtime, report)
    \/ Reconcile
    \/ SetClock

Spec == Init /\ [][Next]_vars

-----------------------------------------------------------------------------
(* Properties.                                                             *)

(* Every table keeps to its schema (types.go, migrations/0001-0002).       *)
TypeOK ==
    /\ now \in 0 .. MaxTime
    /\ agents \in [Agents -> AgentRow]
    /\ runs \in [Agents -> [Generations -> RunRow]]
    /\ steering \subseteq SteeringRow
    /\ leases \subseteq Lease
    /\ inflight \subseteq Delivery

(* The lease columns are set exactly while the agent is claimed, and then  *)
(* some worker was handed the matching lease.                              *)
LeaseColumnsFollowStatus(a, row, handed) ==
    /\ row.status \in Claimed <=> row.runtime # NoRuntime
    /\ row.status \in Claimed <=> row.expires > 0
    /\ row.status \in Claimed =>
          [agent |-> a, gen |-> row.gen, runtime |-> row.runtime] \in handed

(* An agent row and its current run row, which separate statements of each *)
(* transaction write, always agree.                                        *)
CurrentRunFollowsStatus(row, run) ==
    /\ row.status \in Active => run.status = row.status
    /\ row.status = "canceling" => run.status = "canceled"
    /\ row.status = "idle" => run.status = "completed"
    /\ row.status \in {"failed", "interrupted"} => run.status = row.status
    /\ row.status = "canceled" => run.status \in TerminalRun
    /\ row.status \in {"running", "idle"} => row.conv # NoConversation

(* Earlier runs are over and later ones do not exist: at most one run of   *)
(* an agent is ever active, and it is the current one.                     *)
OtherRunsAreOver(row, history) ==
    \A g \in Generations :
        /\ g < row.gen => history[g].status \in TerminalRun
        /\ g > row.gen => history[g] = NoRun

RowAgrees(a, row, history, handed) ==
    /\ row.status \in Absent <=> row.gen = 0
    /\ row.status \in Absent => row = AbsentRow(row.status)
    /\ LeaseColumnsFollowStatus(a, row, handed)
    /\ row.gen # 0 => CurrentRunFollowsStatus(row, history[row.gen])
    /\ OtherRunsAreOver(row, history)

(* Agent rows, run rows and leases tell one story after any sequence of    *)
(* calls, however late, repeated or stale (store_agents.go,                *)
(* store_worker.go).                                                       *)
RowsAgree == \A a \in Agents : RowAgrees(a, agents[a], runs[a], leases)

ClaimedAgents == {a \in Agents : agents[a].status \in Claimed}

(* No interleaving of creations, follow-ups, cancellations and expiries    *)
(* exceeds the per-conversation and total limits (checkLimitsTx), counting *)
(* canceled workers that have not finished cleaning up.                    *)
LimitsHold ==
    /\ \A owner \in Owners :
          Cardinality({a \in ClaimedAgents : agents[a].owner = owner})
            <= MaxActiveAgentsPerConversation
    /\ Cardinality(ClaimedAgents) <= MaxActiveAgentsTotal

(* Two agents never share a child conversation (attachChildConversationTx, *)
(* MarkRunning, Terminal against uq_agents_child_conversation_id).         *)
ConversationsAreDistinct ==
    \A a, b \in Agents :
        a # b /\ agents[a].conv # NoConversation => agents[a].conv # agents[b].conv

(* Queued guidance always belongs to the agent's current run, also across  *)
(* a follow-up (Claim re-homes it), and never outlives a cancellation or   *)
(* its agent; row ids are unique in spite of their reuse.                  *)
GuidanceFollowsTheAgent ==
    /\ \A m \in steering :
          /\ m.gen = agents[m.agent].gen
          /\ agents[m.agent].status \notin {"canceling", "canceled"}
    /\ \A m, n \in steering : m.id = n.id => m = n

(* While a lease is live, the message its pump holds is still the row with *)
(* that id: a late acknowledgement cannot delete a newer message that      *)
(* reuses the id (NextSteering, AcknowledgeSteering).                      *)
HeldMessageIsQueued ==
    \A d \in inflight :
        ActiveLease(d.lease) =>
            [id |-> d.id, agent |-> d.lease.agent, gen |-> d.lease.gen,
             text |-> d.text] \in steering

(* A recorded outcome is final: no late worker, expiry, shutdown or        *)
(* cancellation rewrites or deletes a finished run.                        *)
TerminalRunsAreFinal ==
    [][\A a \in Agents, g \in Generations :
          runs[a][g].status \in TerminalRun => runs'[a][g] = runs[a][g]]_vars

(* Once attached, an agent's child conversation never changes.             *)
ConversationsStick ==
    [][\A a \in Agents : agents[a].conv # NoConversation
          => agents'[a].conv = agents[a].conv]_vars

Kept(m) ==
    \E n \in steering' : /\ n.id = m.id /\ n.agent = m.agent
                         /\ n.text = m.text
                         /\ n.gen = agents'[m.agent].gen

Acknowledged(m) ==
    \E d \in inflight \ inflight' :
        /\ d.id = m.id /\ d.text = m.text
        /\ d.lease.agent = m.agent /\ d.lease.gen = m.gen

(* Accepted guidance leaves the queue only when a worker acknowledges that *)
(* very message or the agent is canceled: expiry, a failed or finished     *)
(* run, a shutdown and a follow-up all keep it.                            *)
GuidanceIsNotLost ==
    [][\A m \in steering :
          \/ Kept(m)
          \/ Acknowledged(m)
          \/ agents'[m.agent].status \in {"canceling", "canceled"}]_vars

(* Every history of the tables is one of fenced claims: a live claim is    *)
(* extended or released, never replaced, a follow-up is a new generation,  *)
(* and each generation is decided once, under its own claim.               *)
Fenced == INSTANCE FencedClaims WITH
    clock   <- now,
    claim   <- [a \in Agents |->
                  [gen    |-> IF agents[a].status = "deleted"
                              THEN 1 ELSE agents[a].gen,
                   holder |-> agents[a].runtime,
                   until  |-> agents[a].expires]],
    outcome <- [a \in Agents |-> [g \in Generations |->
                  IF agents[a].status = "deleted" /\ g = 1 THEN "withdrawn"
                  ELSE IF runs[a][g].status \in ActiveRun THEN "pending"
                  ELSE runs[a][g].status]]

FencedSpec == Fenced!Spec
=============================================================================
