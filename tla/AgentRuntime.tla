---------------------------- MODULE AgentRuntime ----------------------------
(***************************************************************************)
(* The extension process of internal/subagent around the agent store: tool *)
(* calls that reserve and prepare a run, the goroutine that sets it up and *)
(* then runs it in a child session, its heartbeat, its cleanup, the        *)
(* delivery of a cancellation, and the shutdown of the session.            *)
(*                                                                         *)
(* Every step on the tables is an action of AgentStore; this module adds   *)
(* the memory of each process (live, session).  A store call made with a   *)
(* canceled context reports that before its transaction begins, so it has  *)
(* no effect.  A busy database is a step that is not taken yet; StoreFails *)
(* lets any other error hit every call.                                    *)
(* Several extension processes share the database; the tools of any of     *)
(* them may cancel an agent that another one runs.                         *)
(*                                                                         *)
(* Left out: widgets, progress and host background leases, which no store  *)
(* step depends on, and steering (module SteeringPump).                    *)
(***************************************************************************)
EXTENDS AgentStore

CONSTANTS
    ForkAgents,         \* agents created with context_mode "fork"
    MayCrash,           \* runtimes whose process may die
    MayShutDown,        \* runtimes whose session may end
    EarlyInitialize,    \* may a host initialize before a shutdown is over?
    StoreFails,         \* may a store call fail though its lease is good?
    ClockGoesBack,      \* may the wall clock be set back?
    LastRenewal         \* bound: last clock reading at which a lease is issued

ASSUME RuntimeAssumption ==
    /\ ForkAgents \subseteq Agents
    /\ MayCrash \subseteq Runtimes
    /\ MayShutDown \subseteq Runtimes
    /\ EarlyInitialize \in BOOLEAN
    /\ StoreFails \in BOOLEAN
    /\ ClockGoesBack \in BOOLEAN
    /\ LastRenewal \in Nat

VARIABLES
    live,       \* the LiveRun behind each lease this or another process got
    session     \* what each process keeps in its Runtime

runtimeVars == <<live, session>>
allVars == <<vars, runtimeVars>>

-----------------------------------------------------------------------------
(* The goroutine that owns a run goes through these phases.                *)

Reservation == {"reserved", "abandoning"}
Setup       == {"acquiring", "attaching", "confirming", "launching"}
Runner      == {"starting", "creating", "joining", "marking", "running",
                "completing"}
Cleanup     == {"closing", "recording", "salvaging", "settling", "releasing"}
Owned       == Setup \cup Runner \cup Cleanup

(* setup tells a run whose worker was never launched; stopped is its       *)
(* owner's context, and pending a cancel call on its way there.            *)
LiveRun ==
    [phase          : Reservation \cup {"prepared"} \cup Owned
                        \cup {"abandoned", "gone"},
     setup          : BOOLEAN,
     conv           : Conversations \cup {NoConversation},
     client         : BOOLEAN,
     heartbeat      : {"off", "claim", "cleanup"},
     failure        : {"none", "failed", "interrupted"},
     stopped        : BOOLEAN,
     pending        : BOOLEAN,
     lost           : BOOLEAN,
     terminalizing  : BOOLEAN,
     parentCanceled : BOOLEAN]

NewLiveRun(conv) ==
    [phase |-> "reserved", setup |-> TRUE, conv |-> conv, client |-> FALSE,
     heartbeat |-> "off", failure |-> "none",
     stopped |-> FALSE, pending |-> FALSE, lost |-> FALSE,
     terminalizing |-> FALSE, parentCanceled |-> FALSE]

(* What is left of a run that its process has forgotten, after setting it  *)
(* up or before.                                                           *)
Forgotten == [NewLiveRun(NoConversation) EXCEPT !.phase = "gone"]
Abandoned == [NewLiveRun(NoConversation) EXCEPT !.phase = "abandoned"]

Passes == {"first", "second"}

Session ==
    [up           : BOOLEAN,
     shuttingDown : BOOLEAN,
     reserving    : SUBSET Agents,
     pc           : {"idle", "collect", "cancel", "await", "reservations",
                     "draining", "cleanups", "interrupt", "done", "failed"},
     pass         : Passes,
     tasks        : SUBSET (Lease \X {"setup", "runner"}),
     drained      : SUBSET Agents]

NewSession == [up |-> TRUE, shuttingDown |-> FALSE, reserving |-> {},
               pc |-> "idle", pass |-> "first", tasks |-> {}, drained |-> {}]

Alive(l) == session[l.runtime].up
At(l, phase) == Alive(l) /\ live[l].phase = phase
In(l, phases) == Alive(l) /\ live[l].phase \in phases

Put(l, run) == live' = [live EXCEPT ![l] = run]
Goto(l, phase) == Put(l, [live[l] EXCEPT !.phase = phase])

(* A step of the process alone; a step of the store alone.                 *)
NoStore == UNCHANGED vars
StoreOnly == UNCHANGED runtimeVars

(* Bound: so that leases do expire while the clock stays within MaxTime.   *)
MayRenew == now <= LastRenewal

(* Child conversation ids are random: never one that is in use.            *)
NewConversations ==
    (Conversations \ {agents[a].conv : a \in Agents})
        \ {live[l].conv : l \in DOMAIN live}

-----------------------------------------------------------------------------
(* reserveClaim, abandonUnlaunchedClaim.                                   *)

BeginReserve(r, a) ==
    /\ session[r].up /\ ~session[r].shuttingDown
    /\ session' = [session EXCEPT ![r].reserving = @ \cup {a}]
    /\ NoStore /\ UNCHANGED live

ReserveFails(r, a) ==
    /\ session[r].up /\ a \in session[r].reserving
    /\ session' = [session EXCEPT ![r].reserving = @ \ {a}]
    /\ NoStore /\ UNCHANGED live

(* The committed claim of spawn or followup; the reservation stays         *)
(* registered until reserveClaim returns.                                  *)
ReserveCommits(r, a) ==
    /\ session[r].up /\ a \in session[r].reserving
    /\ MayRenew
    /\ \/ \E owner \in Owners : Create(r, owner, a)
       \/ Claim(r, a)
    /\ live' = [l \in leases' |->
                  IF l \in leases THEN live[l]
                  ELSE NewLiveRun(agents'[a].conv)]
    /\ session' = [session EXCEPT ![r].reserving = @ \ {a}]

(* The caller may be gone by now, or the session shutting down.            *)
ReserveReturns(l) ==
    /\ At(l, "reserved") /\ ~session[l.runtime].shuttingDown
    /\ Goto(l, "prepared")
    /\ NoStore /\ UNCHANGED session

BeginAbandon(l) ==
    /\ At(l, "reserved")
    /\ Put(l, [live[l] EXCEPT !.phase = "abandoning", !.terminalizing = TRUE,
                              !.heartbeat = "claim"])
    /\ NoStore /\ UNCHANGED session

(* Slip: an agent without a conversation is deleted even if it ran.        *)
WithdrawUnattached(l, status) ==
    IF l.gen = 1 /\ live[l].conv = NoConversation
    THEN Abort(l)
    ELSE \E report \in Reports : Terminal(l, status, live[l].conv, report)

(* An initial reservation is deleted, any other claim gets an outcome.     *)
Withdraw(l, status) ==
    IF l.gen = 1 /\ live[l].setup /\ live[l].conv = NoConversation
    THEN Abort(l)
    ELSE \E report \in Reports : Terminal(l, status, live[l].conv, report)

(* retryWorkerUpdate gives up: the lease is lost, or an unexpected error.  *)
GivesUp(l) == (StoreFails \/ ~ActiveLease(l)) /\ NoStore

AbandonUnlaunchedClaim(l) ==
    /\ At(l, "abandoning")
    /\ Withdraw(l, "interrupted") \/ GivesUp(l)
    /\ Put(l, Abandoned)
    /\ UNCHANGED session

-----------------------------------------------------------------------------
(* prepareClaim and setupLiveRun, on the goroutine of the tool call.       *)

PrepareClaim(l) ==
    /\ At(l, "prepared")
    /\ Put(l, IF session[l.runtime].shuttingDown THEN Abandoned
              ELSE [live[l] EXCEPT !.phase = "acquiring", !.heartbeat = "claim"])
    /\ NoStore /\ UNCHANGED session

(* startLiveRunCleanup: the claim's heartbeat gives way to the cleanup's.  *)
(* What else the run remembers is not read again.                          *)
Cleaning(run, failure) ==
    [run EXCEPT !.phase = "closing", !.heartbeat = "cleanup",
                !.failure = failure, !.stopped = FALSE, !.pending = FALSE,
                !.lost = FALSE, !.terminalizing = FALSE]

SetupFails(l) ==
    /\ In(l, Setup)
    /\ Put(l, Cleaning(live[l], IF live[l].stopped THEN "interrupted"
                                                   ELSE "failed"))
    /\ NoStore /\ UNCHANGED session

(* The tool call ends before its setup does.                               *)
CallerCancels(l) ==
    /\ In(l, Setup) /\ ~live[l].stopped
    /\ Put(l, [live[l] EXCEPT !.stopped = TRUE])
    /\ NoStore /\ UNCHANGED session

(* AcquireBackgroundTask and, for an unattached fork, ForkConversation.    *)
Acquire(l) ==
    /\ At(l, "acquiring") /\ ~live[l].stopped
    /\ IF l.agent \in ForkAgents /\ live[l].conv = NoConversation
       THEN \E conv \in NewConversations :
              Put(l, [live[l] EXCEPT !.phase = "attaching", !.conv = conv])
       ELSE Goto(l, "confirming")
    /\ NoStore /\ UNCHANGED session

AttachFork(l) ==
    /\ At(l, "attaching") /\ ~live[l].stopped /\ ~live[l].lost
    /\ AttachConversation(l, live[l].conv)
    /\ Goto(l, "confirming")
    /\ UNCHANGED session

Confirm(l) ==
    /\ At(l, "confirming") /\ ~live[l].stopped
    /\ ~session[l.runtime].shuttingDown
    /\ MayRenew /\ Heartbeat(l)
    /\ Goto(l, "launching")
    /\ UNCHANGED session

(* launchLiveRunLocked: the worker has a context of its own, so a cancel   *)
(* call on its way to the setup no longer reaches the run.                 *)
Launch(l) ==
    /\ At(l, "launching") /\ ~live[l].stopped
    /\ Put(l, [live[l] EXCEPT !.phase = "starting", !.setup = FALSE,
                              !.pending = FALSE])
    /\ NoStore /\ UNCHANGED session

-----------------------------------------------------------------------------
(* runAgentJob.                                                            *)

(* Slip: what the heartbeat of the setup found is not looked at.           *)
OpenClientAnyway(l) ==
    /\ At(l, "starting")
    /\ Put(l, [live[l] EXCEPT !.phase = "creating", !.client = TRUE])
    /\ NoStore /\ UNCHANGED session

OpenClient(l) ==
    /\ At(l, "starting") /\ ~live[l].lost
    /\ Put(l, [live[l] EXCEPT !.phase = "creating", !.client = TRUE])
    /\ NoStore /\ UNCHANGED session

(* CreateSession resumes the agent's conversation or starts a new one.     *)
CreateSession(l) ==
    /\ At(l, "creating") /\ ~live[l].stopped
    /\ IF live[l].conv = NoConversation
       THEN \E conv \in NewConversations :
              Put(l, [live[l] EXCEPT !.phase = "joining", !.conv = conv])
       ELSE Goto(l, "marking")
    /\ NoStore /\ UNCHANGED session

AttachSession(l) ==
    /\ At(l, "joining") /\ ~live[l].stopped
    /\ AttachConversation(l, live[l].conv)
    /\ Goto(l, "marking")
    /\ UNCHANGED session

StartRunning(l) ==
    /\ At(l, "marking") /\ ~live[l].stopped
    /\ MarkRunning(l, live[l].conv)
    /\ Goto(l, "running")
    /\ UNCHANGED session

(* RunAndWait answered.                                                    *)
Answer(l) ==
    /\ At(l, "running") /\ ~live[l].stopped
    /\ Put(l, [live[l] EXCEPT !.phase = "completing", !.terminalizing = TRUE])
    /\ NoStore /\ UNCHANGED session

(* RunAndWait answered that kodelet canceled the turn.                     *)
AnswerCanceled(l) ==
    /\ At(l, "running") /\ ~live[l].stopped
    /\ Put(l, Cleaning(live[l], "interrupted"))
    /\ NoStore /\ UNCHANGED session

(* completeAgentRun: a result makes the agent idle, an empty answer fails  *)
(* it.  The client is still open.                                          *)
Complete(l) ==
    /\ At(l, "completing") /\ ~live[l].stopped
    /\ \E status \in {"idle", "failed"}, report \in Reports :
          Terminal(l, status, live[l].conv, report)
    /\ Put(l, Cleaning(live[l], "none"))
    /\ UNCHANGED session

(* The worker leaves the outcome to whoever holds the row now.             *)
CompleteGivesUp(l) ==
    /\ At(l, "completing") /\ ~live[l].stopped
    /\ GivesUp(l)
    /\ Put(l, Cleaning(live[l], "none"))
    /\ UNCHANGED session

(* Any call before completion fails or times out, or the worker's context  *)
(* ends.                                                                   *)
WorkerFails(l) ==
    /\ \/ In(l, Runner \ {"completing"})
       \/ At(l, "completing") /\ live[l].stopped
    /\ Put(l, Cleaning(live[l],
                IF ~live[l].stopped THEN "failed"
                ELSE IF ~live[l].parentCanceled THEN "interrupted"
                ELSE "none"))
    /\ NoStore /\ UNCHANGED session

-----------------------------------------------------------------------------
(* cleanupLiveRun.                                                         *)

(* Slip: the failure is recorded before the client has closed.             *)
CloseClientLater(l) ==
    /\ At(l, "closing")
    /\ Goto(l, "recording")
    /\ NoStore /\ UNCHANGED session

CloseClient(l) ==
    /\ At(l, "closing")
    /\ Put(l, [live[l] EXCEPT !.phase = "recording", !.client = FALSE])
    /\ NoStore /\ UNCHANGED session

RecordFailure(l) ==
    /\ At(l, "recording")
    /\ IF live[l].failure = "none" \/ live[l].parentCanceled
       THEN NoStore
       ELSE Withdraw(l, live[l].failure) \/ GivesUp(l)
    /\ Goto(l, "salvaging")
    /\ UNCHANGED session

(* safeAttachCancelingConversation: nothing to do without a conversation;  *)
(* if it fails, the cancellation is not completed here.                    *)
Salvage(l) ==
    /\ At(l, "salvaging")
    /\ \/ /\ live[l].conv = NoConversation
          /\ NoStore /\ Goto(l, "settling")
       \/ /\ live[l].conv # NoConversation
          /\ AttachCancelingConversation(l, live[l].conv)
          /\ Goto(l, "settling")
       \/ /\ live[l].conv # NoConversation
          /\ StoreFails \/ ~CancelingLease(l)
          /\ NoStore /\ Goto(l, "releasing")
    /\ UNCHANGED session

(* Slip: completing the cancellation is left to the lease.                 *)
SettleNot(l) == At(l, "settling") /\ NoStore /\ Goto(l, "releasing") /\ UNCHANGED session

(* CompleteCancel of a claim that is not canceling has no effect.          *)
Settle(l) ==
    /\ At(l, "settling")
    /\ \/ CompleteCancel(l)
       \/ (StoreFails \/ ~CancelingLease(l)) /\ NoStore
    /\ Goto(l, "releasing")
    /\ UNCHANGED session

(* The cleanup's heartbeat stops, the host lease closes, releaseLiveRun.   *)
Release(l) ==
    /\ At(l, "releasing")
    /\ Put(l, Forgotten)
    /\ NoStore /\ UNCHANGED session

-----------------------------------------------------------------------------
(* heartbeatAgent, stopLiveRunForError, heartbeatCleanup.                  *)

HeartbeatRenews(l) ==
    /\ Alive(l) /\ live[l].heartbeat = "claim"
    /\ MayRenew /\ Heartbeat(l)
    /\ UNCHANGED runtimeVars

(* Slip: the run learns of it, but its owner is not canceled.              *)
StoppingNot(run) == [run EXCEPT !.heartbeat = "off", !.lost = TRUE]

Stopping(run) ==
    [run EXCEPT !.heartbeat = "off", !.lost = TRUE,
                !.pending = run.phase \in Setup \cup Runner]

(* A lost lease stops the run unless its outcome is being recorded; any    *)
(* other error that outlasts the lease stops it in any case.               *)
HeartbeatEnds(l) ==
    /\ Alive(l) /\ live[l].heartbeat = "claim"
    /\ \/ /\ live[l].terminalizing /\ ~ActiveLease(l)
          /\ Put(l, [live[l] EXCEPT !.heartbeat = "off"])
       \/ /\ StoreFails \/ (~live[l].terminalizing /\ ~ActiveLease(l))
          /\ Put(l, Stopping(live[l]))
    /\ NoStore /\ UNCHANGED session

CleanupHeartbeatRenews(l) ==
    /\ Alive(l) /\ live[l].heartbeat = "cleanup"
    /\ MayRenew /\ (Heartbeat(l) \/ HeartbeatCanceling(l))
    /\ UNCHANGED runtimeVars

CleanupHeartbeatEnds(l) ==
    /\ Alive(l) /\ live[l].heartbeat = "cleanup"
    /\ StoreFails \/ ~(ActiveLease(l) \/ CancelingLease(l))
    /\ Put(l, [live[l] EXCEPT !.heartbeat = "off"])
    /\ NoStore /\ UNCHANGED session

(* The cancel call reaches the context of the owner it was meant for.      *)
CancelArrives(l) ==
    /\ In(l, Setup \cup Runner) /\ live[l].pending
    /\ Put(l, [live[l] EXCEPT !.pending = FALSE, !.stopped = TRUE])
    /\ NoStore /\ UNCHANGED session

(* cancelLiveRun, at any time after the cancellation was persisted; never, *)
(* if another process persisted it.                                        *)
CancelLiveRun(l) ==
    /\ In(l, Owned) /\ ~live[l].parentCanceled
    /\ runs[l.agent][l.gen].status = "canceled"
    /\ Put(l, [live[l] EXCEPT !.parentCanceled = TRUE,
                              !.pending = live[l].phase \in Setup \cup Runner])
    /\ NoStore /\ UNCHANGED session

-----------------------------------------------------------------------------
(* shutdown, initialize, and the end of a process.                         *)

Mine(r, phases) == {l \in DOMAIN live : l.runtime = r /\ live[l].phase \in phases}

SetupTasks(r) == {l \in Mine(r, Setup \cup Cleanup) : live[l].setup}
RunnerTasks(r) == {l \in Mine(r, Runner \cup Cleanup) : ~live[l].setup}

Tasks(r) == (SetupTasks(r) \X {"setup"}) \cup (RunnerTasks(r) \X {"runner"})

Reservations(r) ==
    session[r].reserving \cup {l.agent : l \in Mine(r, Reservation)}

ShutdownAt(r, pc) == session[r].up /\ session[r].pc = pc

(* The shutdown of r changes nothing but its own session.                  *)
Shut(r, s) ==
    /\ session' = [session EXCEPT ![r] = s]
    /\ NoStore /\ UNCHANGED live

(* Concurrent calls share a shutdown that has not finished.                *)
BeginShutdown(r) ==
    /\ r \in MayShutDown
    /\ session[r].up /\ session[r].pc \in {"idle", "done", "failed"}
    /\ Shut(r, [session[r] EXCEPT !.shuttingDown = TRUE, !.pc = "collect",
                                  !.pass = "first"])

CollectTasks(r) ==
    /\ ShutdownAt(r, "collect")
    /\ Shut(r, [session[r] EXCEPT !.tasks = Tasks(r), !.pc = "cancel"])

(* Slip: running agents are awaited without being canceled.                *)
CancelTasksSetupOnly(r) ==
    /\ ShutdownAt(r, "cancel")
    /\ live' = [l \in DOMAIN live |->
                  IF l \in Mine(r, Setup) /\ <<l, "setup">> \in session[r].tasks
                  THEN [live[l] EXCEPT !.stopped = TRUE]
                  ELSE live[l]]
    /\ session' = [session EXCEPT ![r].pc = "await"]
    /\ NoStore

CancelTasks(r) ==
    /\ ShutdownAt(r, "cancel")
    /\ live' = [l \in DOMAIN live |->
                  IF \/ l \in Mine(r, Setup) /\ <<l, "setup">> \in session[r].tasks
                     \/ l \in Mine(r, Runner) /\ <<l, "runner">> \in session[r].tasks
                  THEN [live[l] EXCEPT !.stopped = TRUE]
                  ELSE live[l]]
    /\ session' = [session EXCEPT ![r].pc = "await"]
    /\ NoStore

AwaitTasks(r) ==
    /\ ShutdownAt(r, "await")
    /\ session[r].tasks \cap Tasks(r) = {}
    /\ Shut(r, [session[r] EXCEPT !.tasks = {},
                  !.pc = IF session[r].pass = "first" THEN "reservations"
                                                      ELSE "cleanups"])

CollectReservations(r) ==
    /\ ShutdownAt(r, "reservations")
    /\ Shut(r, [session[r] EXCEPT !.drained = Reservations(r), !.pc = "draining"])

(* Slip: one pass over the owned tasks is taken to be enough.              *)
AwaitReservationsOnce(r) ==
    /\ ShutdownAt(r, "draining")
    /\ session[r].drained \cap Reservations(r) = {}
    /\ Shut(r, [session[r] EXCEPT !.drained = {}, !.pc = "cleanups"])

AwaitReservations(r) ==
    /\ ShutdownAt(r, "draining")
    /\ session[r].drained \cap Reservations(r) = {}
    /\ Shut(r, [session[r] EXCEPT !.drained = {}, !.pc = "collect",
                                  !.pass = "second"])

AwaitCleanups(r) ==
    /\ ShutdownAt(r, "cleanups")
    /\ Mine(r, Cleanup) = {}
    /\ Shut(r, [session[r] EXCEPT !.pc = "interrupt"])

(* The error of InterruptRuntime is dropped.                               *)
Interrupt(r) ==
    /\ ShutdownAt(r, "interrupt")
    /\ \/ /\ \E report \in Reports : InterruptRuntime(r, report)
          /\ session' = [session EXCEPT ![r].pc = "done"]
       \/ /\ StoreFails /\ NoStore
          /\ session' = [session EXCEPT ![r].pc = "failed"]
    /\ UNCHANGED live

(* initialize: a new session of the same process.                          *)
Initialize(r) ==
    /\ session[r].up /\ session[r].shuttingDown
    /\ EarlyInitialize \/ session[r].pc \in {"done", "failed"}
    /\ Shut(r, [session[r] EXCEPT !.shuttingDown = FALSE,
                  !.pc = IF @ \in {"done", "failed"} THEN "idle" ELSE @])

Crash(r) ==
    /\ r \in MayCrash /\ session[r].up
    /\ session' = [session EXCEPT ![r] = [NewSession EXCEPT !.up = FALSE]]
    /\ live' = [l \in DOMAIN live |-> IF l.runtime = r THEN Forgotten ELSE live[l]]
    /\ NoStore

-----------------------------------------------------------------------------
(* The specification.                                                      *)

(* Tool calls that only touch the store, and the clock.                    *)
StoreStep ==
    /\ \/ MayRenew /\ \E a \in Agents : CancelActive(a)
       \/ \E a \in Agents : CancelInactive(a)
       \/ Reconcile
    /\ StoreOnly

Tick ==
    /\ SetClock
    /\ ClockGoesBack \/ now' = now + 1
    /\ StoreOnly

OwnerStep(l) ==
    \/ ReserveReturns(l) \/ BeginAbandon(l) \/ AbandonUnlaunchedClaim(l)
    \/ PrepareClaim(l)
    \/ SetupFails(l) \/ Acquire(l) \/ AttachFork(l) \/ Confirm(l) \/ Launch(l)
    \/ OpenClient(l) \/ CreateSession(l) \/ AttachSession(l) \/ StartRunning(l)
    \/ Answer(l) \/ AnswerCanceled(l) \/ Complete(l) \/ CompleteGivesUp(l)
    \/ WorkerFails(l)
    \/ CloseClient(l) \/ RecordFailure(l) \/ Salvage(l) \/ Settle(l) \/ Release(l)

HeartbeatStep(l) ==
    \/ HeartbeatRenews(l) \/ HeartbeatEnds(l)
    \/ CleanupHeartbeatRenews(l) \/ CleanupHeartbeatEnds(l)

ShutdownStep(r) ==
    \/ CollectTasks(r) \/ CancelTasks(r) \/ AwaitTasks(r)
    \/ CollectReservations(r) \/ AwaitReservations(r)
    \/ AwaitCleanups(r) \/ Interrupt(r)

HostStep(r) ==
    \/ \E a \in Agents :
          BeginReserve(r, a) \/ ReserveFails(r, a) \/ ReserveCommits(r, a)
    \/ BeginShutdown(r) \/ Initialize(r) \/ Crash(r)

RuntimeInit ==
    /\ Init
    /\ live = [l \in {} |-> Forgotten]
    /\ session = [r \in Runtimes |-> NewSession]

RuntimeNext ==
    \/ \E r \in Runtimes : HostStep(r) \/ ShutdownStep(r)
    \/ \E l \in leases :
          \/ OwnerStep(l) \/ HeartbeatStep(l)
          \/ CallerCancels(l) \/ CancelArrives(l) \/ CancelLiveRun(l)
    \/ StoreStep
    \/ Tick

RuntimeSpec == RuntimeInit /\ [][RuntimeNext]_allVars

(* A child session may work on for as long as it likes.                    *)
Working(l) == live[l].phase = "running" /\ ~live[l].stopped

(* Goroutines are scheduled and the other calls they make return: kodelet  *)
(* and the host answer or time out, and a client closes in the end.        *)
RuntimeFairness ==
    /\ \A l \in Lease :
          /\ WF_allVars(l \in leases /\ ~Working(l) /\ OwnerStep(l))
          /\ WF_allVars(l \in leases /\ ~ActiveLease(l) /\ HeartbeatEnds(l))
          /\ WF_allVars(l \in leases /\ CancelArrives(l))
    /\ \A r \in Runtimes :
          /\ WF_allVars(ShutdownStep(r))
          /\ \A a \in Agents : WF_allVars(ReserveFails(r, a) \/ ReserveCommits(r, a))

FairRuntimeSpec == RuntimeSpec /\ RuntimeFairness

-----------------------------------------------------------------------------
(* Properties.                                                             *)

(* Every committed claim has a LiveRun, and each process a Runtime.        *)
RuntimeTypeOK ==
    /\ TypeOK
    /\ live \in [leases -> LiveRun]
    /\ session \in [Runtimes -> Session]

HoldsClaim(l) ==
    /\ agents[l.agent].status \in Claimed
    /\ agents[l.agent].gen = l.gen

(* Failure and cancellation keep the claim until the client has closed     *)
(* (cleanup.go): a claim that has not expired ends while the run's client  *)
(* is open only when the run itself records its answer.                    *)
ClaimOutlivesClient ==
    [][\A l \in leases :
          live[l].client /\ HoldsClaim(l) /\ ~HoldsClaim(l)'
            => \/ live[l].phase = "completing"
               \/ agents[l.agent].expires <= now]_allVars

(* When a shutdown is over, until the next initialize, the process runs    *)
(* nothing, renews nothing and has no client open; and if it could         *)
(* interrupt its rows, only a canceling one may still name it              *)
(* (Runtime.Shutdown).                                                     *)
ShutdownLeavesNothing ==
    \A r \in Runtimes :
        session[r].pc \in {"done", "failed"} =>
          /\ \A l \in leases : l.runtime = r =>
                /\ live[l].phase \in {"prepared", "abandoned", "gone"}
                /\ live[l].heartbeat = "off" /\ ~live[l].client
          /\ session[r].pc = "done" =>
                \A a \in Agents :
                   agents[a].status \in Active => agents[a].runtime # r

(* Rows are interrupted only once every owned run and its cleanup have     *)
(* been awaited (Runtime.Shutdown's comment).                              *)
ShutdownAwaitsEveryRun ==
    \A r \in Runtimes : session[r].pc = "interrupt" => Mine(r, Owned) = {}

(* A shutdown waits for no task that it has not told to stop: not for one  *)
(* that was launched after it had collected its setup, nor for one that    *)
(* it passed over (cancelOwnedTasks).                                      *)
ShutdownStopsWhatItAwaits ==
    \A r \in Runtimes : session[r].pc = "await" =>
        \A task \in session[r].tasks \cap Tasks(r) :
            live[task[1]].phase \in Cleanup \/ live[task[1]].stopped

(* No goroutine works on a claim unwatched (heartbeatAgent): its heartbeat *)
(* still renews the claim, or it has been told to stop, or it is recording *)
(* its answer, which the store refuses without the claim.  A worker that   *)
(* is launched while its setup is being told to stop looks at what the     *)
(* heartbeat found before it opens a client (worker.go:72).                *)
WorkersAreWatched ==
    \A l \in leases : In(l, Setup \cup Runner) =>
        \/ live[l].heartbeat = "claim"
        \/ live[l].pending \/ live[l].stopped
        \/ live[l].phase = "completing"
        \/ live[l].phase = "starting" /\ live[l].lost

(* An agent whose worker was launched is never deleted, whatever befalls   *)
(* the worker: spawn_agent reported it (setupLiveRun, cleanupLiveRun).     *)
LaunchedAgentsStay ==
    \A l \in leases :
        live[l].phase \in Owned /\ ~live[l].setup
          => agents[l.agent].status # "deleted"

(* When no store call fails and the clock is never set back, a process     *)
(* that forgets a run it set up has given its claim back, also if it was   *)
(* canceled at any moment.  (A clock that is set back revives a lease that *)
(* had expired, and whose owner has rightly left it alone.)  A run let go  *)
(* before its setup may leave a claim for the shutdown to interrupt, or,   *)
(* if it was canceled just then, for the lease to expire (prepareClaim,    *)
(* abandonUnlaunchedClaim, cleanupLiveRun).                                *)
ForgottenClaimsAreReleased ==
    \A l \in leases :
        Alive(l) /\ HoldsClaim(l) /\ agents[l.agent].expires > now =>
          /\ live[l].phase # "gone"
          /\ live[l].phase = "abandoned" =>
                \/ agents[l.agent].status = "canceling"
                \/ session[l.runtime].shuttingDown
                     /\ session[l.runtime].pc \notin {"done", "failed"}

(* ... and a cancellation of a run that its process has set up finishes,   *)
(* or its lease runs out, which any later store call acts on.  Once the    *)
(* run is releasing, the cancellation is finished or its lease has run out *)
(* already; a clock that is set back then leaves it to run out again.      *)
CancellationFinishes ==
    \A l \in Lease :
        (l \in leases /\ In(l, Owned \ {"releasing"}) /\ HoldsClaim(l)
            /\ agents[l.agent].status = "canceling")
          ~> \/ ~(HoldsClaim(l) /\ agents[l.agent].status = "canceling")
             \/ agents[l.agent].expires <= now

(* A worker that lost its claim, to an expiry, a cancellation, or another  *)
(* process, stops (heartbeatAgent, stopLiveRunForError).                   *)
StaleWorkersStop ==
    \A l \in Lease :
        (l \in leases /\ In(l, Setup \cup Runner) /\ ~HoldsClaim(l))
          ~> ~(l \in leases /\ In(l, Setup \cup Runner))

(* No shutdown waits forever: neither for a task that waits for it, nor    *)
(* for one that was launched while it collected its tasks.                 *)
ShutdownFinishes ==
    \A r \in Runtimes :
        session[r].pc # "idle" ~> session[r].pc \in {"idle", "done", "failed"}

=============================================================================
