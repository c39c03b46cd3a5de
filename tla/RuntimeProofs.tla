---------------------------- MODULE RuntimeProofs ----------------------------
(***************************************************************************)
(* Proofs about AgentRuntime for all values of its constants, so for any   *)
(* number of extension processes that share the database: what a shutdown  *)
(* leaves behind and what it waits for, which claims end under an open     *)
(* client, who watches a worker, what becomes of the claim of a run that   *)
(* its process forgets, and that all of it refines the store.              *)
(*                                                                         *)
(* The store's part is AgentStoreProofs, GuidanceProofs and FencedProofs.  *)
(* Most steps are those of one run (RunStep); the shutdown's argument      *)
(* rests on where runs may come from once it has begun (RunsShrink), the   *)
(* claims' on what a step may make of a claim (the lemmas about LiveClaim) *)
(* and the watching on where a run may go from where it is (Course).       *)
(***************************************************************************)
EXTENDS AgentRuntime, GuidanceProofs, FencedProofs

-----------------------------------------------------------------------------
(* Where a run is.                                                         *)

(* Its process still has to set it up; to run it or clean up after it.     *)
IsSetup(run) == run.setup /\ run.phase \in Setup \cup Cleanup
IsRunner(run) == ~run.setup /\ run.phase \in Runner \cup Cleanup

(* Its worker was not launched, and will not be.                           *)
NeverLaunched(run) ==
    run.setup /\ run.phase \in Cleanup \cup {"abandoned", "gone"}

(* What holds of a run whatever the tables say.                            *)
RunOK(run) ==
    /\ run.phase \in Reservation \cup {"prepared", "abandoned", "gone"}
         \cup Setup => run.setup
    /\ run.phase \in Runner => ~run.setup
    /\ run.client => run.phase \in (Runner \ {"starting"}) \cup {"closing"}
    /\ run.phase \in {"reserved", "prepared", "abandoned", "gone"}
         => run.heartbeat = "off"
    /\ run.phase \in {"attaching", "joining", "marking"}
         => run.conv # NoConversation

(* A run is set up only before a shutdown begins, launched only from its   *)
(* setup, and never reserved again.                                        *)
Proceeds(l, new) ==
    /\ session[l.runtime].shuttingDown /\ IsSetup(new) => IsSetup(live[l])
    /\ IsRunner(new) => IsRunner(live[l]) \/ IsSetup(live[l])
    /\ new.phase \in Reservation => live[l].phase \in Reservation
    /\ NeverLaunched(live[l]) => NeverLaunched(new)

(* A step of the goroutines of one run.                                    *)
RunStep(l) ==
    \E new \in LiveRun :
        /\ Put(l, new) /\ RunOK(new) /\ Proceeds(l, new)
        /\ session' = session /\ leases' = leases

-----------------------------------------------------------------------------
(* The steps of one run.                                                   *)

LEMMA ForgottenRuns ==
    /\ Forgotten \in LiveRun /\ RunOK(Forgotten) /\ NeverLaunched(Forgotten)
    /\ Abandoned \in LiveRun /\ RunOK(Abandoned) /\ NeverLaunched(Abandoned)
    /\ ~IsSetup(Forgotten) /\ ~IsSetup(Abandoned)
    /\ Forgotten.phase = "gone" /\ Abandoned.phase = "abandoned"
BY DEF Forgotten, Abandoned, NewLiveRun, LiveRun, RunOK, NeverLaunched,
       IsSetup, Setup, Runner, Cleanup, Owned, Reservation

LEMMA WithdrawLeases ==
    ASSUME NEW l, NEW status, Withdraw(l, status) \/ GivesUp(l)
    PROVE  leases' = leases
BY DEF Withdraw, Abort, Terminal, GivesUp, NoStore, vars

(* A run that goes to another phase and changes nothing else that matters. *)
LEMMA PhaseStep ==
    ASSUME NEW l \in leases, live \in [leases -> LiveRun], RunOK(live[l]),
           NEW next \in Setup \cup Runner \cup Cleanup \cup {"prepared"},
           Goto(l, next),
           next = "prepared" => live[l].phase = "reserved",
           next \in Setup => live[l].phase \in Setup,
           next \in Runner => live[l].phase \in Runner,
           next \in Cleanup => live[l].phase \in Cleanup,
           next = "starting" => ~live[l].client,
           next \in Cleanup => ~live[l].client,
           next \in {"attaching", "joining", "marking"}
             => live[l].conv # NoConversation,
           session' = session, leases' = leases
    PROVE  RunStep(l)
<1> DEFINE new == [live[l] EXCEPT !.phase = next]
<1>1. live[l] \in LiveRun
  OBVIOUS
<1>2. new \in LiveRun
  BY <1>1 DEF LiveRun, Owned
<1>3. /\ new.phase = next /\ new.setup = live[l].setup
      /\ new.client = live[l].client /\ new.heartbeat = live[l].heartbeat
      /\ new.conv = live[l].conv
  BY <1>1 DEF LiveRun
<1>4. Put(l, new)
  BY DEF Goto
<1> HIDE DEF new
<1>5. RunOK(new)
  BY <1>3 DEF RunOK, Setup, Runner, Cleanup, Reservation
<1>6. Proceeds(l, new)
  BY <1>3 DEF Proceeds, RunOK, IsSetup, IsRunner, NeverLaunched, Setup,
              Runner, Cleanup, Reservation
<1>7. QED
  BY <1>2, <1>4, <1>5, <1>6 DEF RunStep

(* A run that stays where it is.                                           *)
LEMMA StayStep ==
    ASSUME NEW l \in leases, live \in [leases -> LiveRun], RunOK(live[l]),
           NEW new \in LiveRun, Put(l, new),
           new.phase = live[l].phase, new.setup = live[l].setup,
           new.client = live[l].client, new.conv = live[l].conv,
           new.heartbeat \in {live[l].heartbeat, "off"},
           session' = session, leases' = leases
    PROVE  RunStep(l)
<1>1. RunOK(new)
  BY DEF RunOK
<1>2. Proceeds(l, new)
  BY DEF Proceeds, IsSetup, IsRunner, NeverLaunched
<1>3. QED
  BY <1>1, <1>2 DEF RunStep

LEMMA CleaningStep ==
    ASSUME NEW l \in leases, live \in [leases -> LiveRun], RunOK(live[l]),
           live[l].phase \in Setup \cup Runner,
           NEW failure \in {"none", "failed", "interrupted"},
           Put(l, Cleaning(live[l], failure)),
           session' = session, leases' = leases
    PROVE  RunStep(l)
<1> DEFINE new == Cleaning(live[l], failure)
<1>1. live[l] \in LiveRun
  OBVIOUS
<1>2. new \in LiveRun
  BY <1>1 DEF Cleaning, LiveRun, Owned, Cleanup
<1>3. /\ new.phase = "closing" /\ new.setup = live[l].setup
      /\ new.heartbeat = "cleanup"
  BY <1>1 DEF Cleaning, LiveRun
<1> HIDE DEF new
<1>4. RunOK(new)
  BY <1>3 DEF RunOK, Setup, Runner, Reservation
<1>5. Proceeds(l, new)
  BY <1>3 DEF Proceeds, RunOK, IsSetup, IsRunner, NeverLaunched, Setup,
              Runner, Cleanup, Reservation
<1>6. QED
  BY <1>2, <1>4, <1>5 DEF RunStep, new

(* A run that its process forgets.                                         *)
LEMMA ForgetStep ==
    ASSUME NEW l \in leases, live \in [leases -> LiveRun],
           Put(l, Abandoned) \/ Put(l, Forgotten),
           session' = session, leases' = leases
    PROVE  RunStep(l)
<1>1. ASSUME NEW new \in {Abandoned, Forgotten}
      PROVE  new \in LiveRun /\ RunOK(new) /\ Proceeds(l, new)
  <2>1. new \in LiveRun /\ RunOK(new) /\ NeverLaunched(new) /\ ~IsSetup(new)
    BY <1>1, ForgottenRuns
  <2>2. new.setup /\ new.phase \in {"abandoned", "gone"}
    BY <1>1, <2>1, ForgottenRuns DEF NeverLaunched
  <2>3. ~IsRunner(new) /\ new.phase \notin Reservation
    BY <2>2 DEF IsRunner, Reservation
  <2>4. QED
    BY <2>1, <2>3 DEF Proceeds
<1>2. QED
  BY <1>1 DEF RunStep

LEMMA NoStoreLeases ==
    ASSUME NoStore
    PROVE  leases' = leases
BY DEF NoStore, vars

LEMMA ReservationStep ==
    ASSUME NEW l \in leases, live \in [leases -> LiveRun], RunOK(live[l]),
           \/ ReserveReturns(l) \/ BeginAbandon(l)
           \/ AbandonUnlaunchedClaim(l) \/ PrepareClaim(l)
    PROVE  RunStep(l)
<1>1. live[l] \in LiveRun
  OBVIOUS
<1>2. CASE ReserveReturns(l)
  BY <1>2, NoStoreLeases, PhaseStep
  DEF ReserveReturns, At, Setup, Runner, Cleanup
<1>3. CASE BeginAbandon(l)
  <2> DEFINE new == [live[l] EXCEPT !.phase = "abandoning",
                        !.terminalizing = TRUE, !.heartbeat = "claim"]
  <2>1. new \in LiveRun
    BY <1>1 DEF LiveRun, Reservation
  <2>2. /\ new.phase = "abandoning" /\ new.setup = live[l].setup
        /\ new.client = live[l].client
    BY <1>1 DEF LiveRun
  <2>3. Put(l, new) /\ session' = session /\ live[l].phase = "reserved"
    BY <1>3 DEF BeginAbandon, At
  <2> HIDE DEF new
  <2>4. RunOK(new)
    BY <2>2, <2>3 DEF RunOK, Setup, Runner, Reservation
  <2>5. Proceeds(l, new)
    BY <2>2, <2>3 DEF Proceeds, IsSetup, IsRunner, NeverLaunched, Setup,
                      Runner, Cleanup, Reservation
  <2>6. leases' = leases
    BY <1>3, NoStoreLeases DEF BeginAbandon
  <2>7. QED
    BY <2>1, <2>3, <2>4, <2>5, <2>6 DEF RunStep
<1>4. CASE AbandonUnlaunchedClaim(l)
  BY <1>4, WithdrawLeases, ForgetStep DEF AbandonUnlaunchedClaim
<1>5. CASE PrepareClaim(l) /\ session[l.runtime].shuttingDown
  BY <1>5, NoStoreLeases, ForgetStep DEF PrepareClaim
<1>6. CASE PrepareClaim(l) /\ ~session[l.runtime].shuttingDown
  <2> DEFINE new == [live[l] EXCEPT !.phase = "acquiring",
                                    !.heartbeat = "claim"]
  <2>1. new \in LiveRun
    BY <1>1 DEF LiveRun, Owned, Setup
  <2>2. /\ new.phase = "acquiring" /\ new.setup = live[l].setup
        /\ new.client = live[l].client
    BY <1>1 DEF LiveRun
  <2>3. Put(l, new) /\ session' = session /\ live[l].phase = "prepared"
    BY <1>6 DEF PrepareClaim, At
  <2> HIDE DEF new
  <2>4. RunOK(new)
    BY <2>2, <2>3 DEF RunOK, Setup, Runner, Reservation
  <2>5. Proceeds(l, new)
    BY <1>6, <2>2, <2>3 DEF Proceeds, RunOK, IsSetup, IsRunner,
                   NeverLaunched, Setup, Runner, Cleanup, Reservation
  <2>6. leases' = leases
    BY <1>6, NoStoreLeases DEF PrepareClaim
  <2>7. QED
    BY <2>1, <2>3, <2>4, <2>5, <2>6 DEF RunStep
<1>7. QED
  BY <1>2, <1>3, <1>4, <1>5, <1>6

(* A child conversation is made for the run as it goes on.                 *)
LEMMA ConversationStep ==
    ASSUME NEW l \in leases, live \in [leases -> LiveRun], RunOK(live[l]),
           NEW conv \in Conversations,
           \/ Put(l, [live[l] EXCEPT !.phase = "attaching", !.conv = conv])
              /\ live[l].phase = "acquiring"
           \/ Put(l, [live[l] EXCEPT !.phase = "joining", !.conv = conv])
              /\ live[l].phase = "creating",
           session' = session, leases' = leases
    PROVE  RunStep(l)
<1>1. PICK next \in {"attaching", "joining"} :
        /\ Put(l, [live[l] EXCEPT !.phase = next, !.conv = conv])
        /\ next = "attaching" => live[l].phase = "acquiring"
        /\ next = "joining" => live[l].phase = "creating"
  OBVIOUS
<1> DEFINE new == [live[l] EXCEPT !.phase = next, !.conv = conv]
<1>2. live[l] \in LiveRun
  OBVIOUS
<1>3. new \in LiveRun
  BY <1>2 DEF LiveRun, Owned, Setup, Runner
<1>4. /\ new.phase = next /\ new.setup = live[l].setup
      /\ new.client = live[l].client /\ new.heartbeat = live[l].heartbeat
      /\ new.conv = conv
  BY <1>2 DEF LiveRun
<1>5. Put(l, new)
  BY <1>1
<1> HIDE DEF new
<1>6. RunOK(new)
  BY <1>1, <1>4, NullAssumption DEF RunOK, Setup, Runner, Reservation
<1>7. Proceeds(l, new)
  BY <1>1, <1>4 DEF Proceeds, RunOK, IsSetup, IsRunner, NeverLaunched,
                    Setup, Runner, Cleanup, Reservation
<1>8. QED
  BY <1>3, <1>5, <1>6, <1>7 DEF RunStep

LEMMA SetupStep ==
    ASSUME NEW l \in leases, live \in [leases -> LiveRun], RunOK(live[l]),
           \/ SetupFails(l) \/ CallerCancels(l) \/ Acquire(l)
           \/ AttachFork(l) \/ Confirm(l) \/ Launch(l)
    PROVE  RunStep(l)
<1>1. live[l] \in LiveRun
  OBVIOUS
<1>2. CASE SetupFails(l)
  BY <1>2, NoStoreLeases, CleaningStep DEF SetupFails, In
<1>3. CASE CallerCancels(l)
  <2> DEFINE new == [live[l] EXCEPT !.stopped = TRUE]
  <2>1. /\ new \in LiveRun /\ new.phase = live[l].phase
        /\ new.setup = live[l].setup /\ new.client = live[l].client
        /\ new.heartbeat = live[l].heartbeat
        /\ new.conv = live[l].conv
    BY <1>1 DEF LiveRun
  <2>2. Put(l, new) /\ session' = session /\ leases' = leases
    BY <1>3, NoStoreLeases DEF CallerCancels
  <2> HIDE DEF new
  <2>3. QED
    BY <2>1, <2>2, StayStep
<1>4. CASE Acquire(l)
  <2>1. live[l].phase = "acquiring" /\ session' = session /\ leases' = leases
    BY <1>4, NoStoreLeases DEF Acquire, At
  <2>2. CASE Goto(l, "confirming")
    BY <2>1, <2>2, PhaseStep DEF Setup, Runner, Cleanup
  <2>3. CASE ~Goto(l, "confirming")
    BY <1>4, <2>1, <2>3, ConversationStep DEF Acquire, NewConversations
  <2>4. QED
    BY <2>2, <2>3
<1>5. CASE AttachFork(l)
  <2>1. /\ live[l].phase = "attaching" /\ session' = session
        /\ leases' = leases /\ Goto(l, "confirming")
    BY <1>5 DEF AttachFork, At, AttachConversation, Attach
  <2>2. QED
    BY <2>1, PhaseStep DEF Setup, Runner, Cleanup
<1>6. CASE Confirm(l)
  <2>1. /\ live[l].phase = "confirming" /\ session' = session
        /\ leases' = leases /\ Goto(l, "launching")
    BY <1>6 DEF Confirm, At, Heartbeat, RenewLease
  <2>2. QED
    BY <2>1, PhaseStep DEF Setup, Runner, Cleanup
<1>7. CASE Launch(l)
  <2> DEFINE new == [live[l] EXCEPT !.phase = "starting", !.setup = FALSE,
                                    !.pending = FALSE]
  <2>1. new \in LiveRun
    BY <1>1 DEF LiveRun, Owned, Runner
  <2>2. /\ new.phase = "starting" /\ new.setup = FALSE
        /\ new.client = live[l].client
    BY <1>1 DEF LiveRun
  <2>3. Put(l, new) /\ session' = session /\ live[l].phase = "launching"
    BY <1>7 DEF Launch, At
  <2> HIDE DEF new
  <2>4. RunOK(new)
    BY <2>2, <2>3 DEF RunOK, Setup, Runner, Reservation
  <2>5. Proceeds(l, new)
    BY <2>2, <2>3 DEF Proceeds, RunOK, IsSetup, IsRunner, NeverLaunched,
                      Setup, Runner, Cleanup, Reservation
  <2>6. leases' = leases
    BY <1>7, NoStoreLeases DEF Launch
  <2>7. QED
    BY <2>1, <2>3, <2>4, <2>5, <2>6 DEF RunStep
<1>8. QED
  BY <1>2, <1>3, <1>4, <1>5, <1>6, <1>7

LEMMA AgentJobStep ==
    ASSUME NEW l \in leases, live \in [leases -> LiveRun], RunOK(live[l]),
           \/ OpenClient(l) \/ CreateSession(l) \/ AttachSession(l)
           \/ StartRunning(l) \/ Answer(l) \/ AnswerCanceled(l)
           \/ Complete(l) \/ CompleteGivesUp(l) \/ WorkerFails(l)
    PROVE  RunStep(l)
<1>1. live[l] \in LiveRun
  OBVIOUS
<1>2. CASE OpenClient(l)
  <2> DEFINE new == [live[l] EXCEPT !.phase = "creating", !.client = TRUE]
  <2>1. new \in LiveRun
    BY <1>1 DEF LiveRun, Owned, Runner
  <2>2. new.phase = "creating" /\ new.setup = live[l].setup
    BY <1>1 DEF LiveRun
  <2>3. Put(l, new) /\ session' = session /\ live[l].phase = "starting"
    BY <1>2 DEF OpenClient, At
  <2> HIDE DEF new
  <2>4. RunOK(new)
    BY <2>2, <2>3 DEF RunOK, Setup, Runner, Reservation
  <2>5. Proceeds(l, new)
    BY <2>2, <2>3 DEF Proceeds, RunOK, IsSetup, IsRunner, NeverLaunched,
                      Setup, Runner, Cleanup, Reservation
  <2>6. leases' = leases
    BY <1>2, NoStoreLeases DEF OpenClient
  <2>7. QED
    BY <2>1, <2>3, <2>4, <2>5, <2>6 DEF RunStep
<1>3. CASE CreateSession(l)
  <2>1. live[l].phase = "creating" /\ session' = session /\ leases' = leases
    BY <1>3, NoStoreLeases DEF CreateSession, At
  <2>2. CASE live[l].conv # NoConversation
    BY <1>3, <2>1, <2>2, PhaseStep DEF CreateSession, Setup, Runner, Cleanup
  <2>3. CASE live[l].conv = NoConversation
    BY <1>3, <2>1, <2>3, ConversationStep DEF CreateSession, NewConversations
  <2>4. QED
    BY <2>2, <2>3
<1>4. CASE AttachSession(l)
  <2>1. /\ live[l].phase = "joining" /\ session' = session
        /\ leases' = leases /\ Goto(l, "marking")
    BY <1>4 DEF AttachSession, At, AttachConversation, Attach
  <2>2. live[l].conv # NoConversation
    BY <2>1 DEF RunOK
  <2>3. QED
    BY <2>1, <2>2, PhaseStep DEF Setup, Runner, Cleanup
<1>5. CASE StartRunning(l)
  <2>1. /\ live[l].phase = "marking" /\ session' = session
        /\ leases' = leases /\ Goto(l, "running")
    BY <1>5 DEF StartRunning, At, MarkRunning
  <2>2. QED
    BY <2>1, PhaseStep DEF Setup, Runner, Cleanup
<1>6. CASE Answer(l)
  <2> DEFINE new == [live[l] EXCEPT !.phase = "completing",
                                    !.terminalizing = TRUE]
  <2>1. new \in LiveRun
    BY <1>1 DEF LiveRun, Owned, Runner
  <2>2. /\ new.phase = "completing" /\ new.setup = live[l].setup
        /\ new.client = live[l].client
    BY <1>1 DEF LiveRun
  <2>3. Put(l, new) /\ session' = session /\ live[l].phase = "running"
    BY <1>6 DEF Answer, At
  <2> HIDE DEF new
  <2>4. RunOK(new)
    BY <2>2, <2>3 DEF RunOK, Setup, Runner, Reservation
  <2>5. Proceeds(l, new)
    BY <2>2, <2>3 DEF Proceeds, RunOK, IsSetup, IsRunner, NeverLaunched,
                      Setup, Runner, Cleanup, Reservation
  <2>6. leases' = leases
    BY <1>6, NoStoreLeases DEF Answer
  <2>7. QED
    BY <2>1, <2>3, <2>4, <2>5, <2>6 DEF RunStep
<1>7. CASE AnswerCanceled(l)
  BY <1>7, NoStoreLeases, CleaningStep DEF AnswerCanceled, At, Runner
<1>8. CASE Complete(l)
  <2>1. /\ live[l].phase = "completing" /\ session' = session
        /\ leases' = leases /\ Put(l, Cleaning(live[l], "none"))
    BY <1>8 DEF Complete, At, Terminal
  <2>2. QED
    BY <2>1, CleaningStep DEF Runner
<1>9. CASE CompleteGivesUp(l)
  <2>1. /\ live[l].phase = "completing" /\ session' = session
        /\ leases' = leases /\ Put(l, Cleaning(live[l], "none"))
    BY <1>9, WithdrawLeases DEF CompleteGivesUp, At
  <2>2. QED
    BY <2>1, CleaningStep DEF Runner
<1>10. CASE WorkerFails(l)
  <2>1. /\ live[l].phase \in Runner /\ session' = session
        /\ leases' = leases
    BY <1>10, NoStoreLeases DEF WorkerFails, At, In, Runner
  <2>2. QED
    BY <1>10, <2>1, CleaningStep DEF WorkerFails
<1>11. QED
  BY <1>2, <1>3, <1>4, <1>5, <1>6, <1>7, <1>8, <1>9, <1>10

LEMMA CleanupStep ==
    ASSUME NEW l \in leases, live \in [leases -> LiveRun], RunOK(live[l]),
           \/ CloseClient(l) \/ RecordFailure(l) \/ Salvage(l) \/ Settle(l)
           \/ Release(l)
    PROVE  RunStep(l)
<1>1. live[l] \in LiveRun
  OBVIOUS
<1>2. CASE CloseClient(l)
  <2> DEFINE new == [live[l] EXCEPT !.phase = "recording", !.client = FALSE]
  <2>1. new \in LiveRun
    BY <1>1 DEF LiveRun, Owned, Cleanup
  <2>2. /\ new.phase = "recording" /\ new.setup = live[l].setup
        /\ new.client = FALSE
    BY <1>1 DEF LiveRun
  <2>3. Put(l, new) /\ session' = session /\ live[l].phase = "closing"
    BY <1>2 DEF CloseClient, At
  <2> HIDE DEF new
  <2>4. RunOK(new)
    BY <2>2, <2>3 DEF RunOK, Setup, Runner, Reservation
  <2>5. Proceeds(l, new)
    BY <2>2, <2>3 DEF Proceeds, RunOK, IsSetup, IsRunner, NeverLaunched,
                      Setup, Runner, Cleanup, Reservation
  <2>6. leases' = leases
    BY <1>2, NoStoreLeases DEF CloseClient
  <2>7. QED
    BY <2>1, <2>3, <2>4, <2>5, <2>6 DEF RunStep
<1>3. CASE RecordFailure(l)
  <2>1. /\ live[l].phase = "recording" /\ session' = session
        /\ leases' = leases /\ Goto(l, "salvaging")
    BY <1>3, NoStoreLeases, WithdrawLeases DEF RecordFailure, At
  <2>2. QED
    BY <2>1, PhaseStep DEF RunOK, Setup, Runner, Cleanup
<1>4. CASE Salvage(l)
  <2>1. /\ live[l].phase = "salvaging" /\ session' = session
        /\ leases' = leases
        /\ Goto(l, "settling") \/ Goto(l, "releasing")
    BY <1>4, NoStoreLeases
    DEF Salvage, At, AttachCancelingConversation, Attach
  <2>2. QED
    BY <2>1, PhaseStep DEF RunOK, Setup, Runner, Cleanup
<1>5. CASE Settle(l)
  <2>1. /\ live[l].phase = "settling" /\ session' = session
        /\ leases' = leases /\ Goto(l, "releasing")
    BY <1>5, NoStoreLeases DEF Settle, At, CompleteCancel
  <2>2. QED
    BY <2>1, PhaseStep DEF RunOK, Setup, Runner, Cleanup
<1>6. CASE Release(l)
  BY <1>6, NoStoreLeases, ForgetStep DEF Release
<1>7. QED
  BY <1>2, <1>3, <1>4, <1>5, <1>6

LEMMA SignalStep ==
    ASSUME NEW l \in leases, live \in [leases -> LiveRun], RunOK(live[l]),
           HeartbeatStep(l) \/ CancelArrives(l) \/ CancelLiveRun(l)
    PROVE  RunStep(l)
<1>1. live[l] \in LiveRun
  OBVIOUS
<1>2. CASE HeartbeatRenews(l) \/ CleanupHeartbeatRenews(l)
  <2> DEFINE new == live[l]
  <2>1. live' = live /\ session' = session /\ leases' = leases
    BY <1>2 DEF HeartbeatRenews, CleanupHeartbeatRenews, runtimeVars,
                Heartbeat, HeartbeatCanceling, RenewLease
  <2>2. Put(l, new)
    BY <2>1 DEF Put
  <2>3. QED
    BY <2>1, <2>2, StayStep
<1>3. CASE \/ HeartbeatEnds(l) \/ CleanupHeartbeatEnds(l)
           \/ CancelArrives(l) \/ CancelLiveRun(l)
  <2>1. session' = session /\ leases' = leases
    BY <1>3, NoStoreLeases
    DEF HeartbeatEnds, CleanupHeartbeatEnds, CancelArrives, CancelLiveRun
  <2>2. PICK new :
          /\ Put(l, new)
          /\ \/ new = [live[l] EXCEPT !.heartbeat = "off"]
             \/ new = Stopping(live[l])
             \/ new = [live[l] EXCEPT !.pending = FALSE, !.stopped = TRUE]
             \/ new = [live[l] EXCEPT !.parentCanceled = TRUE,
                         !.pending = live[l].phase \in Setup \cup Runner]
    BY <1>3
    DEF HeartbeatEnds, CleanupHeartbeatEnds, CancelArrives, CancelLiveRun
  <2>3. /\ new \in LiveRun /\ new.phase = live[l].phase
        /\ new.setup = live[l].setup /\ new.client = live[l].client
        /\ new.heartbeat \in {live[l].heartbeat, "off"}
        /\ new.conv = live[l].conv
    <3>1. CASE new = [live[l] EXCEPT !.heartbeat = "off"]
      BY <1>1, <3>1 DEF LiveRun
    <3>2. CASE new = Stopping(live[l])
      <4>1. (live[l].phase \in Setup \cup Runner) \in BOOLEAN
        OBVIOUS
      <4>2. QED
        BY <1>1, <3>2, <4>1 DEF LiveRun, Stopping
    <3>3. CASE new = [live[l] EXCEPT !.pending = FALSE, !.stopped = TRUE]
      BY <1>1, <3>3 DEF LiveRun
    <3>4. CASE new = [live[l] EXCEPT !.parentCanceled = TRUE,
                         !.pending = live[l].phase \in Setup \cup Runner]
      <4>1. (live[l].phase \in Setup \cup Runner) \in BOOLEAN
        OBVIOUS
      <4>2. QED
        BY <1>1, <3>4, <4>1 DEF LiveRun
    <3>5. QED
      BY <2>2, <3>1, <3>2, <3>3, <3>4
  <2>4. QED
    BY <2>1, <2>2, <2>3, StayStep
<1>4. QED
  BY <1>2, <1>3 DEF HeartbeatStep

LEMMA OneRunStep ==
    ASSUME NEW l \in leases, live \in [leases -> LiveRun], RunOK(live[l]),
           \/ OwnerStep(l) \/ HeartbeatStep(l)
           \/ CallerCancels(l) \/ CancelArrives(l) \/ CancelLiveRun(l)
    PROVE  RunStep(l)
BY ReservationStep, SetupStep, AgentJobStep, CleanupStep, SignalStep
DEF OwnerStep

-----------------------------------------------------------------------------
(* What the step of a run is to the store.                                 *)

OneRun(l) ==
    \/ OwnerStep(l) \/ HeartbeatStep(l)
    \/ CallerCancels(l) \/ CancelArrives(l) \/ CancelLiveRun(l)

(* Its agent is deleted only if it was never launched.                     *)
LEMMA WithdrawStep ==
    ASSUME NEW l \in leases, live \in [leases -> LiveRun],
           NEW status \in {"failed", "interrupted"}, Withdraw(l, status)
    PROVE  QuietWorkerStep(l) \/ (Abort(l) /\ live[l].setup)
<1>1. live[l].conv \in Conversations \cup {NoConversation}
  BY DEF LiveRun
<1>2. status \in DOMAIN RunStatusOf
  BY DEF RunStatusOf
<1>3. QED
  BY <1>1, <1>2 DEF Withdraw, QuietWorkerStep

(* What a worker writes without ending its claim.                          *)
Keeping(l) ==
    \/ \E conv \in Conversations :
          \/ AttachConversation(l, conv)
          \/ AttachCancelingConversation(l, conv)
          \/ MarkRunning(l, conv)
    \/ Heartbeat(l)
    \/ HeartbeatCanceling(l)

(* Only four steps of a run may end its claim.                             *)
LEMMA OneRunEffects ==
    ASSUME NEW l \in leases, live \in [leases -> LiveRun], RunOK(live[l]),
           OneRun(l)
    PROVE  \/ UNCHANGED vars
           \/ Keeping(l)
           \/ AbandonUnlaunchedClaim(l) \/ RecordFailure(l) \/ Complete(l)
           \/ Settle(l)
<1>1. live[l] \in LiveRun
  OBVIOUS
<1>2. live[l].conv \in Conversations \cup {NoConversation}
  BY <1>1 DEF LiveRun
<1>3. CASE AttachFork(l) \/ AttachSession(l) \/ StartRunning(l)
  <2>1. live[l].phase \in {"attaching", "joining", "marking"}
    BY <1>3 DEF AttachFork, AttachSession, StartRunning, At
  <2>2. live[l].conv \in Conversations
    BY <1>2, <2>1 DEF RunOK
  <2>3. QED
    BY <1>3, <2>2
    DEF AttachFork, AttachSession, StartRunning, Keeping
<1>4. CASE Salvage(l)
  <2>1. \/ UNCHANGED vars
        \/ /\ live[l].conv # NoConversation
           /\ AttachCancelingConversation(l, live[l].conv)
    BY <1>4 DEF Salvage, NoStore
  <2>2. QED
    BY <1>2, <2>1 DEF Keeping
<1>5. CASE \/ Confirm(l)
           \/ HeartbeatRenews(l) \/ CleanupHeartbeatRenews(l)
  BY <1>5 DEF Confirm, HeartbeatRenews, CleanupHeartbeatRenews,
              NoStore, Keeping
<1>6. CASE \/ ReserveReturns(l) \/ BeginAbandon(l) \/ PrepareClaim(l)
           \/ SetupFails(l) \/ CallerCancels(l) \/ Acquire(l) \/ Launch(l)
           \/ OpenClient(l) \/ CreateSession(l) \/ Answer(l)
           \/ AnswerCanceled(l) \/ CompleteGivesUp(l) \/ WorkerFails(l)
           \/ CloseClient(l) \/ Release(l)
           \/ HeartbeatEnds(l) \/ CleanupHeartbeatEnds(l)
           \/ CancelArrives(l) \/ CancelLiveRun(l)
  BY <1>6
  DEF ReserveReturns, BeginAbandon, PrepareClaim, SetupFails, CallerCancels,
      Acquire, Launch, OpenClient, CreateSession, Answer, AnswerCanceled,
      CompleteGivesUp, GivesUp, WorkerFails, CloseClient, Release,
      HeartbeatEnds, CleanupHeartbeatEnds, CancelArrives, CancelLiveRun,
      NoStore
<1>7. QED
  BY <1>3, <1>4, <1>5, <1>6 DEF OneRun, OwnerStep, HeartbeatStep

LEMMA OneRunStore ==
    ASSUME NEW l \in leases, live \in [leases -> LiveRun], RunOK(live[l]),
           OneRun(l)
    PROVE  \/ UNCHANGED vars
           \/ QuietWorkerStep(l)
           \/ Abort(l) /\ NeverLaunched(live'[l])
<1>1. live[l] \in LiveRun
  OBVIOUS
<1>2. live[l].conv \in Conversations \cup {NoConversation}
  BY <1>1 DEF LiveRun
<1>3. CASE AbandonUnlaunchedClaim(l)
  <2>1. live'[l] = Abandoned
    BY <1>3 DEF AbandonUnlaunchedClaim, Put
  <2>2. Withdraw(l, "interrupted") \/ UNCHANGED vars
    BY <1>3 DEF AbandonUnlaunchedClaim, GivesUp, NoStore
  <2>3. QED
    BY <2>1, <2>2, WithdrawStep, ForgottenRuns
<1>4. CASE RecordFailure(l)
  <2>1. CASE UNCHANGED vars
    BY <2>1
  <2>2. CASE ~(UNCHANGED vars)
    <3>1. /\ Withdraw(l, live[l].failure) /\ live[l].failure # "none"
          /\ Goto(l, "salvaging")
      BY <1>4, <2>2 DEF RecordFailure, GivesUp, NoStore
    <3>2. live[l].failure \in {"failed", "interrupted"}
      BY <1>1, <3>1 DEF LiveRun
    <3>3. QuietWorkerStep(l) \/ (Abort(l) /\ live[l].setup)
      BY <3>1, <3>2, WithdrawStep
    <3>4. live'[l].phase = "salvaging" /\ live'[l].setup = live[l].setup
      BY <1>1, <3>1 DEF Goto, Put, LiveRun
    <3>5. QED
      BY <3>3, <3>4 DEF NeverLaunched, Cleanup
  <2>3. QED
    BY <2>1, <2>2
<1>5. CASE Complete(l)
  <2>1. {"idle", "failed"} \subseteq DOMAIN RunStatusOf
    BY DEF RunStatusOf
  <2>2. QED
    BY <1>2, <1>5, <2>1 DEF Complete, QuietWorkerStep
<1>6. CASE Settle(l)
  BY <1>6 DEF Settle, NoStore, QuietWorkerStep
<1>7. CASE Keeping(l)
  BY <1>7 DEF Keeping, QuietWorkerStep
<1>8. QED
  BY <1>3, <1>4, <1>5, <1>6, <1>7, OneRunEffects

-----------------------------------------------------------------------------
(* The other steps.                                                        *)

(* A step of another kind that leaves every run where it is.               *)
LEMMA ShutStep ==
    ASSUME RuntimeTypeOK, NEW r \in Runtimes,
           \/ BeginShutdown(r) \/ CollectTasks(r) \/ AwaitTasks(r)
           \/ CollectReservations(r) \/ AwaitReservations(r)
           \/ AwaitCleanups(r) \/ Initialize(r)
           \/ \E a \in Agents : BeginReserve(r, a) \/ ReserveFails(r, a)
    PROVE  /\ UNCHANGED <<vars, live>>
           /\ session' \in [Runtimes -> Session]
<1>1. session \in [Runtimes -> Session] /\ session[r] \in Session
  BY DEF RuntimeTypeOK
<1>2. live \in [leases -> LiveRun] /\ leases \subseteq Lease
  BY DEF RuntimeTypeOK, TypeOK
<1>3. UNCHANGED <<vars, live>>
  BY DEF BeginShutdown, CollectTasks, AwaitTasks, CollectReservations,
         AwaitReservations, AwaitCleanups, Initialize, BeginReserve,
         ReserveFails, Shut, NoStore
<1>4. PICK new \in Session : session' = [session EXCEPT ![r] = new]
  <2>1. CASE BeginShutdown(r)
    BY <1>1, <2>1 DEF BeginShutdown, Shut, Session, Passes
  <2>2. CASE CollectTasks(r)
    <3>1. Tasks(r) \subseteq Lease \X {"setup", "runner"}
      BY <1>2 DEF Tasks, SetupTasks, RunnerTasks, Mine
    <3>2. QED
      BY <1>1, <2>2, <3>1 DEF CollectTasks, Shut, Session
  <2>3. CASE AwaitTasks(r)
    BY <1>1, <2>3 DEF AwaitTasks, Shut, Session
  <2>4. CASE CollectReservations(r)
    <3>1. Reservations(r) \subseteq Agents
      BY <1>1, <1>2 DEF Reservations, Mine, Session, Lease
    <3>2. QED
      BY <1>1, <2>4, <3>1 DEF CollectReservations, Shut, Session
  <2>5. CASE AwaitReservations(r) \/ AwaitCleanups(r)
    BY <1>1, <2>5
    DEF AwaitReservations, AwaitCleanups, Shut, Session, Passes
  <2>6. CASE Initialize(r)
    BY <1>1, <2>6 DEF Initialize, Shut, Session
  <2>7. CASE \E a \in Agents : BeginReserve(r, a) \/ ReserveFails(r, a)
    <3>1. PICK set \in SUBSET Agents :
            session' = [session EXCEPT ![r].reserving = set]
      BY <1>1, <2>7 DEF BeginReserve, ReserveFails, Session
    <3>2. QED
      BY <1>1, <3>1 DEF Session
  <2>8. QED
    BY <2>1, <2>2, <2>3, <2>4, <2>5, <2>6, <2>7
<1>5. QED
  BY <1>1, <1>3, <1>4

(* A claim is committed for a run that starts.                             *)
LEMMA ReserveStep ==
    ASSUME RuntimeTypeOK, NEW r \in Runtimes, NEW a \in Agents,
           ReserveCommits(r, a)
    PROVE  /\ \/ \E owner \in Owners : Create(r, owner, a)
              \/ Claim(r, a)
           /\ \E g \in Generations :
                 leases' = leases \cup {[agent |-> a, gen |-> g, runtime |-> r]}
           /\ \A l \in leases : live'[l] = live[l]
           /\ \A l \in leases' \ leases :
                 \E conv : live'[l] = NewLiveRun(conv)
           /\ DOMAIN live' = leases'
           /\ session' = [session EXCEPT ![r].reserving = @ \ {a}]
           /\ a \in session[r].reserving
<1>1. \/ \E owner \in Owners : Create(r, owner, a)
      \/ Claim(r, a)
  BY DEF ReserveCommits
<1>2. \E g \in Generations :
         leases' = leases \cup {[agent |-> a, gen |-> g, runtime |-> r]}
  <2>1. 1 \in Generations
    BY BoundAssumption DEF Generations
  <2>2. CASE \E owner \in Owners : Create(r, owner, a)
    BY <2>1, <2>2 DEF Create
  <2>3. CASE Claim(r, a)
    BY <2>3 DEF Claim
  <2>4. QED
    BY <1>1, <2>2, <2>3
<1>3. live' = [l \in leases' |-> IF l \in leases THEN live[l]
                                 ELSE NewLiveRun(agents'[a].conv)]
  BY DEF ReserveCommits
<1>4. leases \subseteq leases'
  BY <1>2
<1>5. /\ session' = [session EXCEPT ![r].reserving = @ \ {a}]
      /\ a \in session[r].reserving
  BY DEF ReserveCommits
<1>6. QED
  BY <1>1, <1>2, <1>3, <1>4, <1>5

LEMMA NewRuns ==
    ASSUME NEW conv \in Conversations \cup {NoConversation}
    PROVE  /\ NewLiveRun(conv) \in LiveRun /\ RunOK(NewLiveRun(conv))
           /\ NewLiveRun(conv).phase = "reserved"
           /\ NewLiveRun(conv).setup /\ ~NewLiveRun(conv).parentCanceled
BY DEF NewLiveRun, LiveRun, RunOK, Reservation, Setup, Runner, Cleanup, Owned

(* The runs that a shutdown stops go on where they are.                    *)
LEMMA CancelTasksStep ==
    ASSUME RuntimeTypeOK, \A l \in leases : RunOK(live[l]),
           NEW r \in Runtimes, CancelTasks(r)
    PROVE  /\ UNCHANGED vars
           /\ live' \in [leases -> LiveRun]
           /\ \A l \in leases :
                 /\ RunOK(live'[l])
                 /\ live'[l] \in {live[l], [live[l] EXCEPT !.stopped = TRUE]}
           /\ session' = [session EXCEPT ![r].pc = "await"]
           /\ session' \in [Runtimes -> Session]
<1>1. /\ live \in [leases -> LiveRun] /\ session \in [Runtimes -> Session]
  BY DEF RuntimeTypeOK
<1>2. /\ UNCHANGED vars
      /\ session' = [session EXCEPT ![r].pc = "await"]
  BY DEF CancelTasks, NoStore
<1>3. /\ DOMAIN live' = leases
      /\ \A l \in leases :
            live'[l] \in {live[l], [live[l] EXCEPT !.stopped = TRUE]}
  BY <1>1 DEF CancelTasks
<1>4. ASSUME NEW l \in leases
      PROVE  live'[l] \in LiveRun /\ RunOK(live'[l])
  <2>1. live[l] \in LiveRun /\ RunOK(live[l])
    BY <1>1
  <2>2. PICK new : new = live'[l]
    OBVIOUS
  <2>3. CASE new = [live[l] EXCEPT !.stopped = TRUE]
    <3>1. /\ new \in LiveRun /\ new.phase = live[l].phase
          /\ new.setup = live[l].setup /\ new.client = live[l].client
          /\ new.heartbeat = live[l].heartbeat /\ new.conv = live[l].conv
      BY <2>1, <2>3 DEF LiveRun
    <3>2. RunOK(new)
      BY <2>1, <3>1 DEF RunOK
    <3>3. QED
      BY <2>2, <3>1, <3>2 DEF RunOK
  <2>4. CASE new = live[l]
    BY <2>1, <2>2, <2>4 DEF RunOK
  <2>5. QED
    BY <1>3, <2>2, <2>3, <2>4
<1>5. live' = [l \in leases |-> live'[l]]
  BY <1>1 DEF CancelTasks
<1>6. live' \in [leases -> LiveRun]
  BY <1>4, <1>5
<1>7. session' \in [Runtimes -> Session]
  BY <1>1, <1>2 DEF Session
<1>8. QED
  BY <1>2, <1>3, <1>4, <1>6, <1>7

LEMMA CrashStep ==
    ASSUME RuntimeTypeOK, \A l \in leases : RunOK(live[l]),
           NEW r \in Runtimes, Crash(r)
    PROVE  /\ UNCHANGED vars
           /\ live' \in [leases -> LiveRun]
           /\ \A l \in leases :
                 /\ RunOK(live'[l])
                 /\ live'[l] = IF l.runtime = r THEN Forgotten ELSE live[l]
           /\ session' = [session EXCEPT
                            ![r] = [NewSession EXCEPT !.up = FALSE]]
           /\ session' \in [Runtimes -> Session]
<1>1. /\ live \in [leases -> LiveRun] /\ session \in [Runtimes -> Session]
  BY DEF RuntimeTypeOK
<1>2. live' = [l \in leases |->
                 IF l.runtime = r THEN Forgotten ELSE live[l]]
  BY <1>1 DEF Crash
<1>3. /\ UNCHANGED vars
      /\ session' = [session EXCEPT ![r] = [NewSession EXCEPT !.up = FALSE]]
  BY DEF Crash, NoStore
<1>4. [NewSession EXCEPT !.up = FALSE] \in Session
  BY DEF NewSession, Session, Passes
<1>5. live' \in [leases -> LiveRun]
  BY <1>1, <1>2, ForgottenRuns
<1>6. ASSUME NEW l \in leases
      PROVE  RunOK(live'[l])
  <2>1. live'[l] = Forgotten \/ live'[l] = live[l]
    BY <1>2
  <2>2. QED
    BY <2>1, ForgottenRuns DEF RunOK
<1>7. QED
  BY <1>1, <1>2, <1>3, <1>4, <1>5, <1>6

LEMMA InterruptStep ==
    ASSUME RuntimeTypeOK, NEW r \in Runtimes, Interrupt(r)
    PROVE  /\ UNCHANGED <<leases, live>>
           /\ \/ \E report \in Reports : InterruptRuntime(r, report)
              \/ UNCHANGED vars
           /\ session' \in [Runtimes -> Session]
<1>1. session \in [Runtimes -> Session]
  BY DEF RuntimeTypeOK
<1>2. PICK pc \in {"done", "failed"} :
        session' = [session EXCEPT ![r].pc = pc]
  BY DEF Interrupt
<1>3. session' \in [Runtimes -> Session]
  BY <1>1, <1>2 DEF Session
<1>4. QED
  BY <1>3 DEF Interrupt, InterruptRuntime, NoStore, vars

LEMMA StoreStepStep ==
    ASSUME StoreStep \/ Tick
    PROVE  /\ UNCHANGED <<leases, live, session>>
           /\ \/ \E a \in Agents : CancelActive(a) \/ CancelInactive(a)
              \/ Reconcile
              \/ Tick
BY DEF StoreStep, Tick, SetClock, StoreOnly, runtimeVars, CancelActive,
       CancelInactive, Reconcile

-----------------------------------------------------------------------------
(* The runs and the tables.                                                *)

(* Every step of the processes is one of the store's, or none of it.       *)
LEMMA RuntimeIsStore ==
    ASSUME RuntimeTypeOK, \A l \in leases : RunOK(live[l]),
           [RuntimeNext]_allVars
    PROVE  [Next]_vars /\ (~ClockGoesBack => now' >= now)
<1>1. live \in [leases -> LiveRun] /\ now \in Int
  BY DEF RuntimeTypeOK, TypeOK
<1>2. ASSUME NEW l \in leases, QuietWorkerStep(l) \/ Abort(l)
      PROVE  Next /\ now' = now
  BY <1>2 DEF Next, WorkerStep, QuietWorkerStep, AttachConversation,
     AttachCancelingConversation, Attach, MarkRunning, Terminal, Heartbeat,
     HeartbeatCanceling, RenewLease, CompleteCancel, Abort
<1>3. CASE \E l \in leases : OneRun(l)
  BY <1>1, <1>2, <1>3, OneRunStore DEF vars
<1>4. ASSUME NEW r \in Runtimes, HostStep(r) \/ ShutdownStep(r)
      PROVE  [Next]_vars /\ now' = now
  <2>1. CASE \E a \in Agents : ReserveCommits(r, a)
    BY <2>1 DEF ReserveCommits, Next, ParentStep, Create, Claim
  <2>2. CASE Interrupt(r)
    BY <2>2, InterruptStep DEF Next, InterruptRuntime, vars
  <2>3. CASE CancelTasks(r) \/ Crash(r)
    BY <2>3 DEF CancelTasks, Crash, NoStore, vars
  <2>4. QED
    BY <1>4, <2>1, <2>2, <2>3, ShutStep DEF HostStep, ShutdownStep, vars
<1>5. CASE StoreStep
  <2>1. \/ \E a \in Agents : CancelActive(a) \/ CancelInactive(a)
        \/ Reconcile
    BY <1>5 DEF StoreStep
  <2>2. Next
    BY <2>1 DEF Next, ParentStep
  <2>3. now' = now
    BY <2>1 DEF Reconcile, CancelActive, CancelInactive
  <2>4. QED
    BY <1>1, <2>2, <2>3
<1>6. CASE Tick
  <2>1. ~ClockGoesBack => now' >= now
    BY <1>1, <1>6 DEF Tick
  <2>2. QED
    BY <1>6, <2>1 DEF Tick, Next
<1>7. CASE UNCHANGED allVars
  BY <1>1, <1>7 DEF allVars, vars
<1>8. now' = now => now' >= now
  BY <1>1
<1>9. RuntimeNext \/ UNCHANGED allVars
  OBVIOUS
<1>10. \/ \E l \in leases : OneRun(l)
       \/ \E r \in Runtimes : HostStep(r) \/ ShutdownStep(r)
       \/ StoreStep \/ Tick \/ UNCHANGED allVars
  BY <1>9 DEF RuntimeNext, OneRun
<1>11. CASE \E r \in Runtimes : HostStep(r) \/ ShutdownStep(r)
  BY <1>4, <1>8, <1>11
<1>12. QED
  BY <1>3, <1>5, <1>6, <1>7, <1>10, <1>11

LEMMA RunStepRuns ==
    ASSUME RuntimeTypeOK, \A l \in leases : RunOK(live[l]),
           NEW l \in leases, RunStep(l)
    PROVE  /\ live' \in [leases -> LiveRun] /\ leases' = leases
           /\ session' = session
           /\ \A k \in leases : RunOK(live'[k])
           /\ \A k \in leases \ {l} : live'[k] = live[k]
           /\ Proceeds(l, live'[l])
<1>1. live \in [leases -> LiveRun]
  BY DEF RuntimeTypeOK
<1>2. PICK new \in LiveRun :
        /\ Put(l, new) /\ RunOK(new) /\ Proceeds(l, new)
        /\ session' = session /\ leases' = leases
  BY DEF RunStep
<1>3. /\ live'[l] = new /\ live' \in [leases -> LiveRun]
      /\ \A k \in leases \ {l} : live'[k] = live[k]
  BY <1>1, <1>2 DEF Put
<1>4. ASSUME NEW k \in leases
      PROVE  RunOK(live'[k])
  BY <1>2, <1>3 DEF RunOK
<1>5. Proceeds(l, live'[l])
  BY <1>2, <1>3 DEF Proceeds, IsSetup, IsRunner, NeverLaunched
<1>6. QED
  BY <1>2, <1>3, <1>4, <1>5

LEMMA NextRuns ==
    ASSUME Inv, RuntimeTypeOK, \A l \in leases : RunOK(live[l]),
           [RuntimeNext]_allVars
    PROVE  RuntimeTypeOK' /\ \A l \in leases' : RunOK(live'[l])
<1>1. TypeOK'
  BY RuntimeIsStore, NextInv DEF Inv
<1>2. /\ live \in [leases -> LiveRun]
      /\ session \in [Runtimes -> Session]
  BY DEF RuntimeTypeOK
<1>3. ASSUME NEW l \in leases, OneRun(l)
      PROVE  /\ live' \in [leases' -> LiveRun]
             /\ session' \in [Runtimes -> Session]
             /\ \A k \in leases' : RunOK(live'[k])
  <2>1. RunStep(l)
    BY <1>2, <1>3, OneRunStep DEF OneRun
  <2>2. QED
    BY <1>2, <2>1, RunStepRuns
<1>4. ASSUME NEW r \in Runtimes, HostStep(r) \/ ShutdownStep(r)
      PROVE  /\ live' \in [leases' -> LiveRun]
             /\ session' \in [Runtimes -> Session]
             /\ \A k \in leases' : RunOK(live'[k])
  <2>1. ASSUME NEW a \in Agents, ReserveCommits(r, a)
        PROVE  /\ live' \in [leases' -> LiveRun]
               /\ session' \in [Runtimes -> Session]
               /\ \A k \in leases' : RunOK(live'[k])
    <3>1. PICK conv : live' = [l \in leases' |->
                         IF l \in leases THEN live[l] ELSE NewLiveRun(conv)]
                      /\ conv = agents'[a].conv
      BY <2>1 DEF ReserveCommits
    <3>2. conv \in Conversations \cup {NoConversation}
      BY <1>1, <3>1 DEF TypeOK, AgentRow
    <3>3. NewLiveRun(conv) \in LiveRun /\ RunOK(NewLiveRun(conv))
      BY <3>2, NewRuns
    <3>4. live' \in [leases' -> LiveRun]
      BY <1>2, <3>1, <3>3
    <3>5. ASSUME NEW l \in leases'
          PROVE  RunOK(live'[l])
      <4>1. live'[l] = NewLiveRun(conv) \/ (l \in leases /\ live'[l] = live[l])
        BY <3>1
      <4>2. QED
        BY <3>3, <4>1 DEF RunOK
    <3>6. session' \in [Runtimes -> Session]
      <4>1. session' = [session EXCEPT ![r].reserving = @ \ {a}]
        BY <2>1, ReserveStep
      <4>2. QED
        BY <1>2, <4>1 DEF Session
    <3>7. QED
      BY <3>4, <3>5, <3>6
  <2>2. CASE Interrupt(r)
    BY <1>2, <2>2, InterruptStep DEF RunOK
  <2>3. CASE CancelTasks(r)
    BY <2>3, CancelTasksStep DEF vars
  <2>4. CASE Crash(r)
    BY <2>4, CrashStep DEF vars
  <2>5. CASE \/ BeginShutdown(r) \/ CollectTasks(r) \/ AwaitTasks(r)
             \/ CollectReservations(r) \/ AwaitReservations(r)
             \/ AwaitCleanups(r) \/ Initialize(r)
             \/ \E a \in Agents : BeginReserve(r, a) \/ ReserveFails(r, a)
    BY <1>2, <2>5, ShutStep DEF vars
  <2>6. QED
    BY <1>4, <2>1, <2>2, <2>3, <2>4, <2>5 DEF HostStep, ShutdownStep
<1>5. CASE StoreStep \/ Tick
  BY <1>1, <1>2, <1>5, StoreStepStep DEF RuntimeTypeOK
<1>6. CASE UNCHANGED allVars
  BY <1>1, <1>2, <1>6 DEF RuntimeTypeOK, allVars, vars, runtimeVars
<1>7. CASE RuntimeNext
  <2>1. \/ \E l \in leases : OneRun(l)
        \/ \E r \in Runtimes : HostStep(r) \/ ShutdownStep(r)
        \/ StoreStep \/ Tick
    BY <1>7 DEF RuntimeNext, OneRun
  <2>2. CASE \E r \in Runtimes : HostStep(r) \/ ShutdownStep(r)
    BY <1>1, <1>4, <2>2 DEF RuntimeTypeOK
  <2>3. CASE \E l \in leases : OneRun(l)
    BY <1>1, <1>3, <2>3 DEF RuntimeTypeOK
  <2>4. QED
    BY <1>5, <2>1, <2>2, <2>3
<1>8. QED
  BY <1>6, <1>7

(* A claim is newer than every lease of its agent before it.               *)
LEMMA NewLease ==
    ASSUME Inv, GuidanceInv, NEW r \in Runtimes, NEW a \in Agents,
           (\E owner \in Owners : Create(r, owner, a)) \/ Claim(r, a)
    PROVE  \E g \in Generations :
              /\ leases' = leases \cup {[agent |-> a, gen |-> g, runtime |-> r]}
              /\ \A l \in leases : l.agent = a => l.gen < g
              /\ agents'[a].gen = g
<1>1. Claims(a)
  BY CreateClaims, ClaimClaims
<1>2. SettledAgents[a].gen = agents[a].gen /\ agents[a].gen \in Nat
  BY SettledKeeps, BoundAssumption DEF AgentRow
<1>3. agents'[a].gen = agents[a].gen + 1
  BY <1>1, <1>2, Zenon DEF Claims
<1>4. \E g \in Generations :
         leases' = leases \cup {[agent |-> a, gen |-> g, runtime |-> r]}
         /\ g = agents[a].gen + 1
  <2>1. 1 \in Generations
    BY BoundAssumption DEF Generations
  <2>2. CASE \E owner \in Owners : Create(r, owner, a)
    <3>1. agents[a].gen = 0
      BY <2>2 DEF Create, Inv, TablesAgree, RowAgrees, Absent
    <3>2. QED
      BY <2>1, <2>2, <3>1 DEF Create
  <2>3. CASE Claim(r, a)
    BY <1>2, <2>3 DEF Claim
  <2>4. QED
    BY <2>2, <2>3
<1>5. agents[a].status # "deleted"
  <2>1. SettledAgents[a].status \in Claimable \cup {"unused"}
    BY <1>1 DEF Claims
  <2>2. QED
    BY <2>1, AbsentSettled DEF Absent, Claimable
<1>6. \A l \in leases : l.agent = a => l.gen <= agents[a].gen
                                       /\ l.gen \in Nat
  BY <1>5 DEF GuidanceInv, LeaseOK, Inv, TypeOK, Lease, Generations
<1>7. \A l \in leases : l.agent = a => l.gen < agents[a].gen + 1
  BY <1>2, <1>6
<1>8. QED
  BY <1>3, <1>4, <1>7

(* The lease of a generation is unique.                                    *)
LeasesAreUnique ==
    \A l, k \in leases : l.agent = k.agent /\ l.gen = k.gen => l = k

LEMMA NextUnique ==
    ASSUME Inv, GuidanceInv, LeasesAreUnique, [Next]_vars
    PROVE  LeasesAreUnique'
<1>1. ASSUME NEW r \in Runtimes, NEW a \in Agents,
             (\E owner \in Owners : Create(r, owner, a)) \/ Claim(r, a)
      PROVE  LeasesAreUnique'
  <2>1. PICK g \in Generations :
          /\ leases' = leases \cup {[agent |-> a, gen |-> g, runtime |-> r]}
          /\ \A l \in leases : l.agent = a => l.gen < g
    BY <1>1, NewLease
  <2>2. \A l \in leases : l.gen \in Int
    BY DEF Inv, TypeOK, Lease, Generations
  <2>3. \A l \in leases : ~(l.agent = a /\ l.gen = g)
    BY <2>1, <2>2 DEF Generations
  <2>4. QED
    BY <2>1, <2>3 DEF LeasesAreUnique
<1>2. ASSUME leases' = leases
      PROVE  LeasesAreUnique'
  BY <1>2 DEF LeasesAreUnique
<1>3. \/ leases' = leases
      \/ \E r \in Runtimes, a \in Agents :
            (\E owner \in Owners : Create(r, owner, a)) \/ Claim(r, a)
  BY DEF Next, vars, ParentStep, CancelActive, CancelInactive,
       EnqueueSteering, WorkerStep, Abort, AttachConversation,
       AttachCancelingConversation, Attach, MarkRunning, Terminal, Heartbeat,
       HeartbeatCanceling, RenewLease, CompleteCancel, NextSteering,
       AcknowledgeSteering, InterruptRuntime, Reconcile, SetClock
<1>4. QED
  BY <1>1, <1>2, <1>3

(* The agent of a run that was or may be launched is not deleted.          *)
DeletedOK(l) ==
    agents[l.agent].status = "deleted" => NeverLaunched(live[l])

LEMMA QuietStays ==
    ASSUME Inv, NEW a \in Agents, Quiet(a), agents'[a].status = "deleted"
    PROVE  agents[a].status = "deleted"
<1>1. SettledAgents[a].status \in Absent
  BY DEF Quiet, Absent
<1>2. agents[a].status \in Absent
  BY <1>1, SettledKeeps
<1>3. SettledAgents[a] = agents[a]
  BY <1>2, AbsentSettled
<1>4. QED
  BY <1>1, <1>3 DEF Quiet

LEMMA QuietWorkers ==
    ASSUME Inv, NEW l \in leases, QuietWorkerStep(l)
    PROVE  \A b \in Agents : Quiet(b)
BY AttachQuiet, MarkRunningQuiet, TerminalQuiet, RenewQuiet,
   CompleteCancelQuiet DEF QuietWorkerStep

(* A run step deletes only its own agent.                                  *)
LEMMA AbortDeletes ==
    ASSUME Inv, GuidanceInv, LeasesAreUnique, NEW k \in leases, Abort(k),
           NEW l \in leases, agents'[l.agent].status = "deleted"
    PROVE  agents[l.agent].status = "deleted" \/ l = k
<1>1. /\ l.agent \in Agents /\ k.agent \in Agents
      /\ l.gen \in Generations /\ k.gen \in Generations
  BY DEF Inv, TypeOK, Lease
<1>2. /\ LeaseOwned(k) /\ k.gen = 1
      /\ agents' = [SettledAgents EXCEPT ![k.agent] = AbsentRow("deleted")]
      /\ SettledAgents[k.agent].status = "starting"
  BY DEF Abort, ActiveLease, PutAgent
<1>3. CASE l.agent # k.agent
  <2>1. agents'[l.agent] = SettledAgents[l.agent]
    BY <1>1, <1>2, <1>3 DEF SettledAgents
  <2>2. QED
    BY <1>1, <2>1, UntouchedQuiet, QuietStays
<1>4. CASE l.agent = k.agent
  <2>1. agents[k.agent].gen = 1 /\ agents[k.agent].status # "deleted"
    BY <1>1, <1>2, SettledKeeps DEF LeaseOwned, Absent
  <2>2. l.gen <= 1
    BY <1>4, <2>1 DEF GuidanceInv, LeaseOK
  <2>3. l.gen = 1
    BY <1>1, <2>2, BoundAssumption DEF Generations
  <2>4. QED
    BY <1>2, <1>4, <2>3 DEF LeasesAreUnique
<1>5. QED
  BY <1>3, <1>4

RuntimeInv ==
    /\ Inv /\ GuidanceInv /\ LeasesAreHandedOut /\ LeasesAreUnique
    /\ RuntimeTypeOK
    /\ \A l \in leases : RunOK(live[l])
    /\ \A l \in leases : DeletedOK(l)

LEMMA NextDeleted ==
    ASSUME RuntimeInv, [RuntimeNext]_allVars
    PROVE  \A l \in leases' : DeletedOK(l)'
<1>1. SUFFICES ASSUME NEW l \in leases',
                      agents'[l.agent].status = "deleted"
               PROVE  NeverLaunched(live'[l])
  BY DEF DeletedOK, NeverLaunched
<1>2. /\ Inv /\ GuidanceInv /\ LeasesAreUnique
      /\ live \in [leases -> LiveRun]
      /\ \A k \in leases : RunOK(live[k])
      /\ \A k \in leases :
            agents[k.agent].status = "deleted" => NeverLaunched(live[k])
      /\ \A k \in leases : k.agent \in Agents
  BY DEF RuntimeInv, DeletedOK, RuntimeTypeOK, Inv, TypeOK, Lease
<1>3. ASSUME NEW k \in leases, OneRun(k)
      PROVE  NeverLaunched(live'[l])
  <2>1. RunStep(k)
    BY <1>2, <1>3, OneRunStep DEF OneRun
  <2>2. /\ leases' = leases
        /\ l # k => live'[l] = live[l]
        /\ NeverLaunched(live[k]) => NeverLaunched(live'[k])
    BY <2>1, RunStepRuns DEF RuntimeInv, Proceeds
  <2>3. CASE agents[l.agent].status = "deleted"
    BY <1>2, <2>2, <2>3 DEF NeverLaunched
  <2>4. CASE agents[l.agent].status # "deleted"
    <3>1. ~(UNCHANGED vars)
      BY <1>1, <2>4 DEF vars
    <3>2. ~QuietWorkerStep(k)
      BY <1>1, <1>2, <2>2, <2>4, QuietWorkers, QuietStays
    <3>3. Abort(k) /\ NeverLaunched(live'[k])
      BY <1>2, <1>3, <3>1, <3>2, OneRunStore
    <3>4. l = k
      BY <1>1, <1>2, <2>2, <2>4, <3>3, AbortDeletes
    <3>5. QED
      BY <3>3, <3>4
  <2>5. QED
    BY <2>3, <2>4
<1>4. ASSUME NEW r \in Runtimes, NEW a \in Agents, ReserveCommits(r, a)
      PROVE  NeverLaunched(live'[l])
  <2>1. /\ (\E owner \in Owners : Create(r, owner, a)) \/ Claim(r, a)
        /\ \A k \in leases : live'[k] = live[k]
        /\ \E g \in Generations :
              leases' = leases \cup {[agent |-> a, gen |-> g, runtime |-> r]}
    BY <1>2, <1>4, ReserveStep DEF RuntimeInv
  <2>2. /\ Claims(a)
        /\ \A b \in Agents \ {a} : agents'[b] = SettledAgents[b]
    BY <1>2, <2>1, CreateClaims, ClaimClaims
  <2>3. l.agent # a
    BY <1>1, <2>2 DEF Claims
  <2>4. l \in leases /\ l.agent \in Agents
    BY <1>2, <2>1, <2>3
  <2>5. agents[l.agent].status = "deleted"
    BY <1>1, <1>2, <2>2, <2>3, <2>4, UntouchedQuiet, QuietStays
  <2>6. QED
    BY <1>2, <2>1, <2>4, <2>5 DEF NeverLaunched
<1>5. ASSUME leases' = leases, live'[l].setup = live[l].setup,
             live'[l].phase = live[l].phase,
             agents'[l.agent].status = "deleted"
               => agents[l.agent].status = "deleted"
      PROVE  NeverLaunched(live'[l])
  BY <1>1, <1>2, <1>5 DEF NeverLaunched
<1>6. ASSUME NEW r \in Runtimes, Crash(r) \/ CancelTasks(r)
      PROVE  NeverLaunched(live'[l])
  <2>1. CASE Crash(r)
    <3>1. /\ UNCHANGED vars
          /\ live'[l] = Forgotten \/ live'[l] = live[l]
      BY <1>2, <2>1, CrashStep DEF RuntimeInv, vars
    <3>2. QED
      BY <1>1, <1>2, <3>1, ForgottenRuns DEF NeverLaunched, vars
  <2>2. CASE CancelTasks(r)
    <3>1. /\ UNCHANGED vars
          /\ live'[l] \in {live[l], [live[l] EXCEPT !.stopped = TRUE]}
      BY <1>2, <2>2, CancelTasksStep DEF RuntimeInv, vars
    <3>2. live[l] \in LiveRun
      BY <1>2, <3>1 DEF vars
    <3>3. live'[l].setup = live[l].setup /\ live'[l].phase = live[l].phase
      BY <3>1, <3>2 DEF LiveRun
    <3>4. QED
      BY <1>5, <3>1, <3>3 DEF vars
  <2>3. QED
    BY <1>6, <2>1, <2>2
<1>7. ASSUME NEW r \in Runtimes, Interrupt(r)
      PROVE  NeverLaunched(live'[l])
  <2>1. leases' = leases /\ live' = live
    BY <1>7, InterruptStep DEF RuntimeInv
  <2>2. agents' = agents \/ \A b \in Agents : Quiet(b)
    BY <1>2, <1>7, InterruptStep, InterruptRuntimeQuiet DEF RuntimeInv, vars
  <2>3. QED
    BY <1>2, <1>5, <2>1, <2>2, QuietStays
<1>8. CASE StoreStep \/ Tick
  <2>1. /\ leases' = leases /\ live' = live
        /\ \/ \E a \in Agents : CancelActive(a) \/ CancelInactive(a)
           \/ Reconcile \/ agents' = agents
    BY <1>8, StoreStepStep DEF Tick, SetClock
  <2>2. ASSUME NEW a \in Agents, CancelActive(a) \/ CancelInactive(a)
        PROVE  agents'[l.agent].status = "deleted"
                 => agents[l.agent].status = "deleted"
    <3>1. PICK new : /\ agents' = [SettledAgents EXCEPT ![a] = new]
                     /\ \/ new = Leased(Canceling(SettledAgents[a]),
                                        SettledAgents[a].runtime)
                        \/ new = Released(SettledAgents[a], "canceled")
      BY <2>2 DEF CancelActive, CancelInactive, PutAgent
    <3>2. new.status # "deleted"
      BY <1>2, <3>1, SettledKeeps
      DEF Leased, Canceling, Released, AgentRow
    <3>3. l.agent # a => agents'[l.agent] = SettledAgents[l.agent]
      BY <1>2, <2>1, <3>1 DEF SettledAgents
    <3>4. agents'[a] = new
      BY <1>2, <3>1 DEF SettledAgents
    <3>5. QED
      BY <1>2, <2>1, <3>2, <3>3, <3>4, UntouchedQuiet, QuietStays
  <2>3. CASE Reconcile
    BY <1>2, <1>5, <2>1, <2>3, UntouchedQuiet, QuietStays
    DEF Reconcile, KeepAgents
  <2>4. QED
    BY <1>5, <2>1, <2>2, <2>3
<1>9. ASSUME NEW r \in Runtimes, HostStep(r) \/ ShutdownStep(r)
      PROVE  NeverLaunched(live'[l])
  <2>1. CASE \/ BeginShutdown(r) \/ CollectTasks(r) \/ AwaitTasks(r)
             \/ CollectReservations(r) \/ AwaitReservations(r)
             \/ AwaitCleanups(r) \/ Initialize(r)
             \/ \E a \in Agents : BeginReserve(r, a) \/ ReserveFails(r, a)
    BY <1>5, <2>1, ShutStep DEF RuntimeInv, vars
  <2>2. QED
    BY <1>4, <1>6, <1>7, <1>9, <2>1 DEF HostStep, ShutdownStep
<1>10. CASE UNCHANGED allVars
  BY <1>5, <1>10 DEF allVars, vars, runtimeVars
<1>11. RuntimeNext \/ UNCHANGED allVars
  BY DEF RuntimeInv
<1>12. \/ \E k \in leases : OneRun(k)
       \/ \E r \in Runtimes : HostStep(r) \/ ShutdownStep(r)
       \/ StoreStep \/ Tick \/ UNCHANGED allVars
  BY <1>11 DEF RuntimeNext, OneRun
<1>13. CASE \E k \in leases : OneRun(k)
  BY <1>3, <1>13
<1>14. CASE \E r \in Runtimes : HostStep(r) \/ ShutdownStep(r)
  BY <1>9, <1>14
<1>15. QED
  BY <1>8, <1>10, <1>12, <1>13, <1>14

LEMMA RuntimeInvariant == RuntimeSpec => []RuntimeInv
<1>1. RuntimeInit => RuntimeInv
  <2>1. SUFFICES ASSUME RuntimeInit PROVE RuntimeInv
    OBVIOUS
  <2>2. Init /\ leases = {} /\ live = [l \in {} |-> Forgotten]
    BY <2>1 DEF RuntimeInit, Init
  <2>3. LeasesAreHandedOut
    BY <2>2 DEF Init, LeasesAreHandedOut, AbsentRow, Claimed
  <2>4. session \in [Runtimes -> Session]
    <3>1. NewSession \in Session
      BY DEF NewSession, Session, Passes
    <3>2. QED
      BY <2>1, <3>1 DEF RuntimeInit
  <2>5. live \in [leases -> LiveRun]
    BY <2>2
  <2>6. QED
    BY <2>2, <2>3, <2>4, <2>5, InitInv, InitGuidance
    DEF RuntimeInv, RuntimeTypeOK, Inv, LeasesAreUnique
<1>2. ASSUME RuntimeInv, [RuntimeNext]_allVars
      PROVE  RuntimeInv'
  <2>1. [Next]_vars
    BY <1>2, RuntimeIsStore DEF RuntimeInv
  <2>2. Inv' /\ GuidanceInv' /\ LeasesAreHandedOut' /\ LeasesAreUnique'
    BY <1>2, <2>1, NextInv, NextGuidance, NextHandedOut, NextUnique
    DEF RuntimeInv
  <2>3. RuntimeTypeOK' /\ \A l \in leases' : RunOK(live'[l])
    BY <1>2, NextRuns DEF RuntimeInv
  <2>4. \A l \in leases' : DeletedOK(l)'
    BY <1>2, NextDeleted
  <2>5. QED
    BY <2>2, <2>3, <2>4 DEF RuntimeInv, RunOK
<1>3. QED
  BY <1>1, <1>2, PTL DEF RuntimeSpec

(* Every lease that was committed has a run in its process's memory, and   *)
(* each process a session, of the types the code gives them.               *)
THEOREM RuntimeTypeCorrect == RuntimeSpec => []RuntimeTypeOK
<1>1. RuntimeInv => RuntimeTypeOK
  BY DEF RuntimeInv
<1>2. QED
  BY <1>1, RuntimeInvariant, PTL

(* An agent whose worker was launched is never deleted, whatever becomes   *)
(* of the worker, its process or its claim: spawn_agent reported it.       *)
THEOREM LaunchedAgentsAlwaysStay == RuntimeSpec => []LaunchedAgentsStay
<1>1. RuntimeInv => LaunchedAgentsStay
  BY DEF RuntimeInv, DeletedOK, NeverLaunched, LaunchedAgentsStay
<1>2. QED
  BY <1>1, RuntimeInvariant, PTL

-----------------------------------------------------------------------------
(* Steps, by what they do to claims and to sessions.                       *)

(* A step of one of its own or of the host for the shutdown of r.          *)
ShutdownMoves(r) ==
    \/ BeginShutdown(r) \/ Initialize(r) \/ Crash(r)
    \/ CollectTasks(r) \/ CancelTasks(r) \/ AwaitTasks(r)
    \/ CollectReservations(r) \/ AwaitReservations(r)
    \/ AwaitCleanups(r) \/ Interrupt(r)

(* The shutdown of r stays where it is, and lets no new reservation in.    *)
Resting(r) ==
    /\ session'[r].up = session[r].up
    /\ session'[r].shuttingDown = session[r].shuttingDown
    /\ session'[r].pc = session[r].pc
    /\ session'[r].pass = session[r].pass
    /\ session'[r].tasks = session[r].tasks
    /\ session'[r].drained = session[r].drained
    /\ session[r].shuttingDown =>
          session'[r].reserving \subseteq session[r].reserving

LEMMA RuntimeCases ==
    ASSUME RuntimeInv, [RuntimeNext]_allVars
    PROVE  \/ \E l \in leases : OneRun(l) /\ RunStep(l)
           \/ \E r \in Runtimes, a \in Agents : ReserveCommits(r, a)
           \/ \E r \in Runtimes, a \in Agents :
                 BeginReserve(r, a) \/ ReserveFails(r, a)
           \/ \E r \in Runtimes : ShutdownMoves(r)
           \/ StoreStep \/ Tick
           \/ UNCHANGED allVars
<1>1. ASSUME NEW l \in leases, OneRun(l)
      PROVE  RunStep(l)
  BY <1>1, OneRunStep DEF RuntimeInv, RuntimeTypeOK, OneRun
<1>2. RuntimeNext \/ UNCHANGED allVars
  OBVIOUS
<1>3. \/ \E l \in leases : OneRun(l)
      \/ \E r \in Runtimes : HostStep(r) \/ ShutdownStep(r)
      \/ StoreStep \/ Tick \/ UNCHANGED allVars
  BY <1>2 DEF RuntimeNext, OneRun
<1>4. ASSUME NEW r \in Runtimes, HostStep(r) \/ ShutdownStep(r)
      PROVE  \/ \E a \in Agents : ReserveCommits(r, a)
             \/ \E a \in Agents : BeginReserve(r, a) \/ ReserveFails(r, a)
             \/ ShutdownMoves(r)
  BY <1>4 DEF HostStep, ShutdownStep, ShutdownMoves
<1>5. QED
  BY <1>1, <1>3, <1>4

LEMMA ShutdownMovesLive ==
    ASSUME RuntimeInv, NEW r \in Runtimes, ShutdownMoves(r)
    PROVE  /\ leases' = leases
           /\ \/ Crash(r)
              \/ \A l \in leases :
                    /\ live'[l].phase = live[l].phase
                    /\ live'[l].setup = live[l].setup
<1>1. /\ live \in [leases -> LiveRun]
  BY DEF RuntimeInv, RuntimeTypeOK
<1>2. CASE Crash(r)
  BY <1>2 DEF Crash, NoStore, vars
<1>3. CASE CancelTasks(r)
  <2>1. /\ leases' = leases
        /\ \A l \in leases :
              live'[l] \in {live[l], [live[l] EXCEPT !.stopped = TRUE]}
    BY <1>3, CancelTasksStep DEF RuntimeInv, vars
  <2>2. \A l \in leases : live[l] \in LiveRun
    BY <1>1
  <2>3. QED
    BY <2>1, <2>2 DEF LiveRun
<1>4. CASE Interrupt(r)
  BY <1>4, InterruptStep DEF RuntimeInv
<1>5. QED
  BY <1>2, <1>3, <1>4, ShutStep DEF RuntimeInv, ShutdownMoves, vars

LEMMA RuntimeLeases ==
    ASSUME RuntimeInv, [RuntimeNext]_allVars
    PROVE  \/ leases' = leases
           \/ \E r \in Runtimes, a \in Agents : ReserveCommits(r, a)
<1>1. ASSUME NEW l \in leases, RunStep(l)
      PROVE  leases' = leases
  BY <1>1 DEF RunStep
<1>2. ASSUME NEW r \in Runtimes, NEW a \in Agents,
             BeginReserve(r, a) \/ ReserveFails(r, a)
      PROVE  leases' = leases
  BY <1>2 DEF BeginReserve, ReserveFails, NoStore, vars
<1>3. CASE StoreStep \/ Tick
  BY <1>3, StoreStepStep
<1>4. CASE UNCHANGED allVars
  BY <1>4 DEF allVars, vars
<1>5. QED
  BY <1>1, <1>2, <1>3, <1>4, RuntimeCases, ShutdownMovesLive

(* The session of one process changes at a time.                           *)
LEMMA SessionMoves ==
    ASSUME RuntimeInv, [RuntimeNext]_allVars, NEW r \in Runtimes
    PROVE  Resting(r) \/ ShutdownMoves(r)
<1>1. session \in [Runtimes -> Session] /\ session[r] \in Session
  BY DEF RuntimeInv, RuntimeTypeOK
<1>2. ASSUME session'[r] = session[r]
      PROVE  Resting(r)
  BY <1>2 DEF Resting
<1>3. ASSUME NEW set, session'[r] = [session[r] EXCEPT !.reserving = set],
             session[r].shuttingDown => set \subseteq session[r].reserving
      PROVE  Resting(r)
  BY <1>1, <1>3 DEF Resting, Session
<1>4. ASSUME NEW q \in Runtimes, NEW a \in Agents,
             \/ ReserveCommits(q, a) \/ BeginReserve(q, a)
             \/ ReserveFails(q, a)
      PROVE  Resting(r)
  <2>1. CASE q # r
    <3>1. session'[r] = session[r]
      BY <1>1, <1>4, <2>1 DEF ReserveCommits, BeginReserve, ReserveFails
    <3>2. QED
      BY <1>2, <3>1
  <2>2. CASE q = r
    <3>1. \/ session'[r] = [session[r] EXCEPT !.reserving = @ \ {a}]
          \/ /\ session'[r] = [session[r] EXCEPT !.reserving = @ \cup {a}]
             /\ ~session[r].shuttingDown
      BY <1>1, <1>4, <2>2 DEF ReserveCommits, BeginReserve, ReserveFails
    <3>2. PICK set : /\ session'[r] = [session[r] EXCEPT !.reserving = set]
                     /\ session[r].shuttingDown
                          => set \subseteq session[r].reserving
      BY <3>1
    <3>3. QED
      BY <1>3, <3>2
  <2>3. QED
    BY <2>1, <2>2
<1>5. ASSUME NEW q \in Runtimes, ShutdownMoves(q), q # r
      PROVE  session'[r] = session[r]
  BY <1>1, <1>5
  DEF ShutdownMoves, BeginShutdown, Initialize, Crash, CollectTasks,
      CancelTasks, AwaitTasks, CollectReservations, AwaitReservations,
      AwaitCleanups, Interrupt, Shut
<1>6. ASSUME NEW l \in leases, RunStep(l)
      PROVE  session' = session
  BY <1>6 DEF RunStep
<1>7. CASE StoreStep \/ Tick
  BY <1>2, <1>7, StoreStepStep
<1>8. CASE UNCHANGED allVars
  BY <1>2, <1>8 DEF allVars, runtimeVars
<1>9. QED
  BY <1>2, <1>4, <1>5, <1>6, <1>7, <1>8, RuntimeCases

-----------------------------------------------------------------------------
(* Where the runs of a process come from.                                  *)

LEMMA TaskFacts ==
    ASSUME RuntimeInv, NEW r
    PROVE  /\ \A l : l \in SetupTasks(r) <=>
                        l \in leases /\ l.runtime = r /\ IsSetup(live[l])
           /\ \A l : l \in RunnerTasks(r) <=>
                        l \in leases /\ l.runtime = r /\ IsRunner(live[l])
<1>1. DOMAIN live = leases
  BY DEF RuntimeInv, RuntimeTypeOK
<1>2. QED
  BY <1>1 DEF SetupTasks, RunnerTasks, Mine, IsSetup, IsRunner

LEMMA ReservingShrinks ==
    ASSUME RuntimeInv, [RuntimeNext]_allVars, NEW r \in Runtimes,
           session[r].shuttingDown
    PROVE  session'[r].reserving \subseteq session[r].reserving
<1>1. session \in [Runtimes -> Session] /\ session[r] \in Session
  BY DEF RuntimeInv, RuntimeTypeOK
<1>2. CASE Crash(r)
  <2>1. session'[r] = [NewSession EXCEPT !.up = FALSE]
    BY <1>1, <1>2 DEF Crash
  <2>2. session'[r].reserving = {}
    BY <2>1 DEF NewSession
  <2>3. QED
    BY <2>2
<1>3. CASE ShutdownMoves(r) /\ ~Crash(r)
  <2>1. CASE BeginShutdown(r)
    BY <1>1, <2>1 DEF BeginShutdown, Shut, Session
  <2>2. CASE Initialize(r)
    BY <1>1, <2>2 DEF Initialize, Shut, Session
  <2>3. CASE CollectTasks(r)
    BY <1>1, <2>3 DEF CollectTasks, Shut, Session
  <2>4. CASE CancelTasks(r)
    BY <1>1, <2>4 DEF CancelTasks, Session
  <2>5. CASE AwaitTasks(r)
    BY <1>1, <2>5 DEF AwaitTasks, Shut, Session
  <2>6. CASE CollectReservations(r)
    BY <1>1, <2>6 DEF CollectReservations, Shut, Session
  <2>7. CASE AwaitReservations(r)
    BY <1>1, <2>7 DEF AwaitReservations, Shut, Session
  <2>8. CASE AwaitCleanups(r)
    BY <1>1, <2>8 DEF AwaitCleanups, Shut, Session
  <2>9. CASE Interrupt(r)
    BY <1>1, <2>9 DEF Interrupt, Session
  <2>10. QED
    BY <1>3, <2>1, <2>2, <2>3, <2>4, <2>5, <2>6, <2>7, <2>8, <2>9
    DEF ShutdownMoves
<1>4. QED
  BY <1>2, <1>3, SessionMoves DEF Resting

(* Once a shutdown of r has begun no run is set up, none is launched but   *)
(* from a setup, and no reservation begins.                                *)
LEMMA RunsShrink ==
    ASSUME RuntimeInv, [RuntimeNext]_allVars, NEW r \in Runtimes,
           session[r].shuttingDown
    PROVE  /\ SetupTasks(r)' \subseteq SetupTasks(r)
           /\ RunnerTasks(r)' \subseteq RunnerTasks(r) \cup SetupTasks(r)
           /\ Reservations(r)' \subseteq Reservations(r)
<1>1. /\ live \in [leases -> LiveRun]
      /\ \A l \in leases : RunOK(live[l])
  BY DEF RuntimeInv, RuntimeTypeOK
<1>2. DOMAIN live' = leases'
  BY NextRuns DEF RuntimeInv, RuntimeTypeOK
<1>3. session'[r].reserving \subseteq session[r].reserving
  BY ReservingShrinks
<1>4. SUFFICES ASSUME NEW l \in leases', l.runtime = r
               PROVE  /\ IsSetup(live'[l])
                           => l \in leases /\ IsSetup(live[l])
                      /\ IsRunner(live'[l])
                           => /\ l \in leases
                              /\ IsRunner(live[l]) \/ IsSetup(live[l])
                      /\ live'[l].phase \in Reservation
                           => l.agent \in Reservations(r)
  <2>1. SetupTasks(r)' \subseteq SetupTasks(r)
    BY <1>1, <1>2, <1>4 DEF SetupTasks, Mine, IsSetup
  <2>2. RunnerTasks(r)' \subseteq RunnerTasks(r) \cup SetupTasks(r)
    BY <1>1, <1>2, <1>4 DEF SetupTasks, RunnerTasks, Mine, IsSetup, IsRunner
  <2>3. Reservations(r)' \subseteq Reservations(r)
    <3>1. session[r].reserving \subseteq Reservations(r)
      BY DEF Reservations
    <3>2. {k.agent : k \in Mine(r, Reservation)'} \subseteq Reservations(r)
      BY <1>2, <1>4 DEF Mine
    <3>3. QED
      BY <1>3, <3>1, <3>2 DEF Reservations
  <2>4. QED
    BY <2>1, <2>2, <2>3
<1>5. ASSUME l \in leases, live'[l].phase = live[l].phase,
             live'[l].setup = live[l].setup
      PROVE  /\ IsSetup(live'[l]) => IsSetup(live[l])
             /\ IsRunner(live'[l]) => IsRunner(live[l])
             /\ live'[l].phase \in Reservation => l.agent \in Reservations(r)
  BY <1>1, <1>4, <1>5 DEF IsSetup, IsRunner, Reservations, Mine
<1>6. ASSUME NEW k \in leases, RunStep(k)
      PROVE  /\ l \in leases
             /\ IsSetup(live'[l]) => IsSetup(live[l])
             /\ IsRunner(live'[l]) => IsRunner(live[l]) \/ IsSetup(live[l])
             /\ live'[l].phase \in Reservation => l.agent \in Reservations(r)
  <2>1. /\ leases' = leases /\ Proceeds(k, live'[k])
        /\ l # k => live'[l] = live[l]
    BY <1>1, <1>6, RunStepRuns DEF RuntimeInv
  <2>2. CASE l # k
    BY <1>5, <2>1, <2>2
  <2>3. CASE l = k
    BY <1>1, <1>4, <2>1, <2>3 DEF Proceeds, Reservations, Mine
  <2>4. QED
    BY <2>2, <2>3
<1>7. ASSUME NEW q \in Runtimes, NEW a \in Agents, ReserveCommits(q, a)
      PROVE  /\ IsSetup(live'[l]) => l \in leases /\ IsSetup(live[l])
             /\ IsRunner(live'[l]) => l \in leases /\ IsRunner(live[l])
             /\ live'[l].phase \in Reservation => l.agent \in Reservations(r)
  <2>1. /\ \E g \in Generations :
              leases' = leases \cup {[agent |-> a, gen |-> g, runtime |-> q]}
        /\ \A k \in leases : live'[k] = live[k]
        /\ \A k \in leases' \ leases :
              \E conv : live'[k] = NewLiveRun(conv)
        /\ a \in session[q].reserving
    BY <1>7, ReserveStep DEF RuntimeInv
  <2>2. CASE l \in leases
    BY <1>5, <2>1, <2>2
  <2>3. CASE l \notin leases
    <3>1. PICK conv : live'[l] = NewLiveRun(conv)
      BY <1>4, <2>1, <2>3
    <3>2. live'[l].phase = "reserved"
      BY <3>1 DEF NewLiveRun
    <3>3. l.agent = a /\ q = r
      BY <1>4, <2>1, <2>3
    <3>4. QED
      BY <2>1, <3>2, <3>3
      DEF IsSetup, IsRunner, Setup, Runner, Cleanup, Reservations
  <2>4. QED
    BY <2>2, <2>3
<1>8. ASSUME NEW q \in Runtimes, ShutdownMoves(q)
      PROVE  /\ l \in leases
             /\ IsSetup(live'[l]) => IsSetup(live[l])
             /\ IsRunner(live'[l]) => IsRunner(live[l])
             /\ live'[l].phase \in Reservation => l.agent \in Reservations(r)
  <2>1. leases' = leases
    BY <1>8, ShutdownMovesLive
  <2>2. CASE Crash(q)
    <3>1. live'[l] = Forgotten \/ live'[l] = live[l]
      BY <1>4, <2>1, <2>2, CrashStep DEF RuntimeInv
    <3>2. CASE live'[l] = Forgotten
      BY <2>1, <1>4, <3>2, ForgottenRuns
      DEF IsSetup, IsRunner, NeverLaunched, Reservation
    <3>3. QED
      BY <1>4, <1>5, <2>1, <3>1, <3>2
  <2>3. CASE ~Crash(q)
    <3>1. live'[l].phase = live[l].phase /\ live'[l].setup = live[l].setup
      BY <1>4, <1>8, <2>1, <2>3, ShutdownMovesLive
    <3>2. QED
      BY <1>4, <1>5, <2>1, <3>1
  <2>4. QED
    BY <2>2, <2>3
<1>9. CASE \/ \E q \in Runtimes, a \in Agents :
                 BeginReserve(q, a) \/ ReserveFails(q, a)
           \/ StoreStep \/ Tick \/ UNCHANGED allVars
  <2>1. leases' = leases /\ live' = live
    BY <1>9, StoreStepStep
    DEF BeginReserve, ReserveFails, NoStore, vars, allVars, runtimeVars
  <2>2. QED
    BY <1>4, <1>5, <2>1
<1>10. QED
  BY <1>6, <1>7, <1>8, <1>9, RuntimeCases

-----------------------------------------------------------------------------
(* Who comes to name a process in an active row.                           *)

NamesActive(r, a) ==
    agents[a].status \in Active /\ agents[a].runtime = r

LEMMA ClaimsMeanLeases ==
    ASSUME Inv, GuidanceInv, NEW a \in Agents, Claims(a)
    PROVE  leases' # leases
<1>1. SettledAgents[a].gen = agents[a].gen /\ agents[a].gen \in Nat
  BY SettledKeeps, BoundAssumption DEF AgentRow
<1>2. agents'[a].gen = agents[a].gen + 1
  BY <1>1, Zenon DEF Claims
<1>3. agents[a].status # "deleted"
  <2>1. SettledAgents[a].status \in Claimable \cup {"unused"}
    BY DEF Claims
  <2>2. QED
    BY <2>1, AbsentSettled DEF Absent, Claimable
<1>4. [agent |-> a, gen |-> agents'[a].gen, runtime |-> agents'[a].runtime]
        \in leases'
  BY DEF Claims
<1>5. \A l \in leases : l.agent = a => l.gen <= agents[a].gen
  BY <1>3 DEF GuidanceInv, LeaseOK
<1>6. ASSUME leases' = leases PROVE FALSE
  BY <1>1, <1>2, <1>4, <1>5, <1>6
<1>7. QED
  BY <1>6

LEMMA NewNames ==
    ASSUME RuntimeInv, [RuntimeNext]_allVars,
           NEW r \in Runtimes, NEW a \in Agents, NamesActive(r, a)'
    PROVE  NamesActive(r, a) \/ ReserveCommits(r, a)
<1>1. Inv /\ GuidanceInv /\ [Next]_vars
  BY RuntimeIsStore DEF RuntimeInv
<1>2. ASSUME Continues(a)
      PROVE  NamesActive(r, a)
  <2>1. agents'[a].status \in Active /\ agents'[a].runtime = r
    BY DEF NamesActive
  <2>2. SettledAgents[a].status \in Active /\ SettledAgents[a].runtime = r
    BY <1>2, <2>1 DEF Continues, Active, Claimed
  <2>3. SettledAgents[a] = agents[a]
    BY <1>1, <2>2, SettledKeeps DEF Active, Claimed
  <2>4. QED
    BY <2>2, <2>3 DEF NamesActive
<1>3. CASE leases' = leases
  <2>1. agents' = agents \/ \A b \in Agents : Continues(b)
    BY <1>1, <1>3, NextRows, ClaimsMeanLeases
  <2>2. QED
    BY <1>2, <2>1 DEF NamesActive
<1>4. ASSUME NEW q \in Runtimes, NEW b \in Agents, ReserveCommits(q, b)
      PROVE  NamesActive(r, a) \/ ReserveCommits(r, a)
  <2>1. (\E owner \in Owners : Create(q, owner, b)) \/ Claim(q, b)
    BY <1>4, ReserveStep DEF RuntimeInv
  <2>2. /\ Claims(b)
        /\ \A c \in Agents \ {b} : agents'[c] = SettledAgents[c]
    BY <1>1, <2>1, CreateClaims, ClaimClaims
  <2>3. CASE a # b
    BY <1>2, <2>2, <2>3, UntouchedContinues
  <2>4. CASE a = b
    <3>1. PICK g \in Generations :
            /\ leases' = leases \cup
                 {[agent |-> a, gen |-> g, runtime |-> q]}
            /\ \A l \in leases : l.agent = a => l.gen < g
            /\ agents'[a].gen = g
      BY <1>1, <2>1, <2>4, NewLease
    <3>2. [agent |-> a, gen |-> g, runtime |-> agents'[a].runtime] \in leases'
      BY <2>2, <2>4, <3>1 DEF Claims
    <3>3. [agent |-> a, gen |-> g, runtime |-> agents'[a].runtime]
            \notin leases
      BY <3>1 DEF Generations
    <3>4. agents'[a].runtime = q
      BY <3>1, <3>2, <3>3
    <3>5. q = r
      BY <3>4 DEF NamesActive
    <3>6. QED
      BY <1>4, <2>4, <3>5
  <2>5. QED
    BY <2>3, <2>4
<1>5. QED
  BY <1>3, <1>4, RuntimeLeases

-----------------------------------------------------------------------------
(* The phases of a shutdown, and what it has achieved in each.             *)

Awaiting(r, pass) ==
    session[r].pass = pass /\ session[r].pc \in {"cancel", "await"}

AllAwaited == {"cleanups", "interrupt", "done", "failed"}

Drained(r) ==
    \/ session[r].pass = "second"
         /\ session[r].pc \in {"collect", "cancel", "await"}
    \/ session[r].pc \in AllAwaited

SetupsOver(r) == session[r].pc \in {"reservations", "draining"} \/ Drained(r)

ShutdownOK(r) ==
    /\ session[r].pc = "idle" <=> ~session[r].shuttingDown
    /\ session[r].pc = "failed" => StoreFails
    /\ Awaiting(r, "first") =>
          SetupTasks(r) \X {"setup"} \subseteq session[r].tasks
    /\ SetupsOver(r) => SetupTasks(r) = {}
    /\ session[r].pc = "draining" => Reservations(r) \subseteq session[r].drained
    /\ Drained(r) => Reservations(r) = {}
    /\ Awaiting(r, "second") =>
          RunnerTasks(r) \X {"runner"} \subseteq session[r].tasks
    /\ session[r].pc \in AllAwaited => RunnerTasks(r) = {}
    /\ session[r].pc = "done" => \A a \in Agents : ~NamesActive(r, a)

LEMMA RestingShutdown ==
    ASSUME RuntimeInv, [RuntimeNext]_allVars, NEW r \in Runtimes,
           ShutdownOK(r), Resting(r)
    PROVE  ShutdownOK(r)'
<1>1. CASE ~session[r].shuttingDown
  <2>1. session'[r].pc = "idle" /\ ~session'[r].shuttingDown
    BY <1>1 DEF ShutdownOK, Resting
  <2>2. QED
    BY <2>1 DEF ShutdownOK, Awaiting, SetupsOver, Drained, AllAwaited
<1>2. CASE session[r].shuttingDown
  <2>1. /\ SetupTasks(r)' \subseteq SetupTasks(r)
        /\ RunnerTasks(r)' \subseteq RunnerTasks(r) \cup SetupTasks(r)
        /\ Reservations(r)' \subseteq Reservations(r)
    BY <1>2, RunsShrink
  <2>2. /\ session'[r].pc = session[r].pc
        /\ session'[r].pass = session[r].pass
        /\ session'[r].tasks = session[r].tasks
        /\ session'[r].drained = session[r].drained
        /\ session'[r].shuttingDown = session[r].shuttingDown
    BY DEF Resting
  <2>3. /\ \A pass : Awaiting(r, pass)' <=> Awaiting(r, pass)
        /\ Drained(r)' <=> Drained(r)
        /\ SetupsOver(r)' <=> SetupsOver(r)
    BY <2>2 DEF Awaiting, Drained, SetupsOver
  <2>4. (SetupsOver(r) => SetupTasks(r)' = {})
    BY <2>1 DEF ShutdownOK
  <2>5. Drained(r) => Reservations(r)' = {}
    BY <2>1 DEF ShutdownOK
  <2>6. Awaiting(r, "first") =>
           SetupTasks(r)' \X {"setup"} \subseteq session[r].tasks
    BY <2>1 DEF ShutdownOK
  <2>7. Awaiting(r, "second") =>
           RunnerTasks(r)' \X {"runner"} \subseteq session[r].tasks
    <3>1. Awaiting(r, "second") => SetupTasks(r) = {}
      BY DEF ShutdownOK, Awaiting, SetupsOver, Drained
    <3>2. QED
      BY <2>1, <3>1 DEF ShutdownOK
  <2>8. session[r].pc \in AllAwaited => RunnerTasks(r)' = {}
    BY <2>1 DEF ShutdownOK, SetupsOver, Drained
  <2>9. session[r].pc = "draining" =>
           Reservations(r)' \subseteq session[r].drained
    BY <2>1 DEF ShutdownOK
  <2>10. ASSUME session[r].pc = "done", NEW a \in Agents
         PROVE  ~NamesActive(r, a)'
    <3>1. ~NamesActive(r, a) /\ Reservations(r) = {}
      BY <2>10 DEF ShutdownOK, Drained, AllAwaited
    <3>2. ~ReserveCommits(r, a)
      BY <3>1 DEF ReserveCommits, Reservations
    <3>3. QED
      BY <3>1, <3>2, NewNames
  <2>11. QED
    BY <2>2, <2>3, <2>4, <2>5, <2>6, <2>7, <2>8, <2>9, <2>10 DEF ShutdownOK
<1>3. QED
  BY <1>1, <1>2

(* What the steps of the shutdown leave to look at.                        *)
LEMMA SameTasks ==
    ASSUME RuntimeInv, NEW r \in Runtimes, ShutdownMoves(r), ~Crash(r)
    PROVE  /\ SetupTasks(r)' = SetupTasks(r)
           /\ RunnerTasks(r)' = RunnerTasks(r)
           /\ Mine(r, Reservation)' = Mine(r, Reservation)
<1>1. live \in [leases -> LiveRun]
  BY DEF RuntimeInv, RuntimeTypeOK
<1>2. DOMAIN live' = leases
  <2>1. CASE CancelTasks(r)
    BY <1>1, <2>1 DEF CancelTasks
  <2>2. CASE ~CancelTasks(r)
    BY <1>1, <2>2
    DEF ShutdownMoves, BeginShutdown, Initialize, CollectTasks, AwaitTasks,
        CollectReservations, AwaitReservations, AwaitCleanups, Interrupt, Shut
  <2>3. QED
    BY <2>1, <2>2
<1>3. \A l \in leases : /\ live'[l].phase = live[l].phase
                        /\ live'[l].setup = live[l].setup
  BY ShutdownMovesLive
<1>4. \A phases : Mine(r, phases)' = Mine(r, phases)
  BY <1>1, <1>2, <1>3 DEF Mine
<1>5. QED
  BY <1>1, <1>2, <1>3 DEF SetupTasks, RunnerTasks, Mine

LEMMA NotACrash ==
    ASSUME RuntimeInv, NEW r \in Runtimes, ShutdownStep(r)
    PROVE  ~Crash(r) /\ ShutdownMoves(r)
<1>1. session \in [Runtimes -> Session] /\ session[r] \in Session
  BY DEF RuntimeInv, RuntimeTypeOK
<1>2. session'[r].up
  <2>1. CASE CollectTasks(r)
    BY <1>1, <2>1 DEF CollectTasks, ShutdownAt, Shut, Session
  <2>2. CASE CancelTasks(r)
    BY <1>1, <2>2 DEF CancelTasks, ShutdownAt, Session
  <2>3. CASE AwaitTasks(r)
    BY <1>1, <2>3 DEF AwaitTasks, ShutdownAt, Shut, Session
  <2>4. CASE CollectReservations(r)
    BY <1>1, <2>4 DEF CollectReservations, ShutdownAt, Shut, Session
  <2>5. CASE AwaitReservations(r)
    BY <1>1, <2>5 DEF AwaitReservations, ShutdownAt, Shut, Session
  <2>6. CASE AwaitCleanups(r)
    BY <1>1, <2>6 DEF AwaitCleanups, ShutdownAt, Shut, Session
  <2>7. CASE Interrupt(r)
    BY <1>1, <2>7 DEF Interrupt, ShutdownAt, Session
  <2>8. QED
    BY <2>1, <2>2, <2>3, <2>4, <2>5, <2>6, <2>7 DEF ShutdownStep
<1>3. ~[NewSession EXCEPT !.up = FALSE].up
  BY DEF NewSession
<1>4. QED
  BY <1>1, <1>2, <1>3 DEF Crash, ShutdownStep, ShutdownMoves

(* The session after each of these steps.                                  *)
LEMMA MovesTo ==
    ASSUME RuntimeInv, NEW r \in Runtimes, NEW new,
           session' = [session EXCEPT ![r] = new],
           ShutdownMoves(r), ~Crash(r),
           new.reserving = session[r].reserving
    PROVE  /\ session'[r] = new
           /\ SetupTasks(r)' = SetupTasks(r)
           /\ RunnerTasks(r)' = RunnerTasks(r)
           /\ Reservations(r)' = Reservations(r)
<1>1. session'[r] = new
  BY DEF RuntimeInv, RuntimeTypeOK
<1>2. /\ SetupTasks(r)' = SetupTasks(r)
      /\ RunnerTasks(r)' = RunnerTasks(r)
      /\ Mine(r, Reservation)' = Mine(r, Reservation)
  BY SameTasks
<1>3. Reservations(r)' = Reservations(r)
  BY <1>1, <1>2 DEF Reservations
<1>4. QED
  BY <1>1, <1>2, <1>3

LEMMA IdleShutdown ==
    ASSUME NEW r \in Runtimes, session'[r].pc = "idle",
           ~session'[r].shuttingDown
    PROVE  ShutdownOK(r)'
BY DEF ShutdownOK, Awaiting, SetupsOver, Drained, AllAwaited

LEMMA HostShutdown ==
    ASSUME RuntimeInv, ~EarlyInitialize, NEW r \in Runtimes, ShutdownOK(r),
           BeginShutdown(r) \/ Initialize(r) \/ Crash(r)
    PROVE  ShutdownOK(r)'
<1>1. session \in [Runtimes -> Session] /\ session[r] \in Session
  BY DEF RuntimeInv, RuntimeTypeOK
<1>2. CASE Crash(r)
  <2>1. session'[r] = [NewSession EXCEPT !.up = FALSE]
    BY <1>1, <1>2 DEF Crash
  <2>2. session'[r].pc = "idle" /\ ~session'[r].shuttingDown
    BY <2>1 DEF NewSession
  <2>3. QED
    BY <2>2, IdleShutdown
<1>3. CASE Initialize(r)
  <2>1. session'[r].pc = "idle" /\ ~session'[r].shuttingDown
    BY <1>1, <1>3 DEF Initialize, Shut, Session
  <2>2. QED
    BY <2>1, IdleShutdown
<1>4. CASE BeginShutdown(r)
  <2>1. /\ session'[r].pc = "collect" /\ session'[r].shuttingDown
        /\ session'[r].pass = "first"
    BY <1>1, <1>4 DEF BeginShutdown, Shut, Session
  <2>2. QED
    BY <2>1 DEF ShutdownOK, Awaiting, SetupsOver, Drained, AllAwaited
<1>5. QED
  BY <1>2, <1>3, <1>4

LEMMA CollectAndCancelShutdown ==
    ASSUME RuntimeInv, NEW r \in Runtimes, ShutdownOK(r),
           CollectTasks(r) \/ CancelTasks(r)
    PROVE  ShutdownOK(r)'
<1>1. session \in [Runtimes -> Session] /\ session[r] \in Session
  BY DEF RuntimeInv, RuntimeTypeOK
<1>2. ~Crash(r) /\ ShutdownMoves(r)
  BY NotACrash DEF ShutdownStep
<1>3. CASE CollectTasks(r)
  <2> DEFINE new == [session[r] EXCEPT !.tasks = Tasks(r), !.pc = "cancel"]
  <2>1. /\ new.pc = "cancel" /\ new.tasks = Tasks(r)
        /\ new.pass = session[r].pass
        /\ new.shuttingDown = session[r].shuttingDown
        /\ new.reserving = session[r].reserving
    BY <1>1 DEF Session
  <2>2. session[r].pc = "collect" /\ session' = [session EXCEPT ![r] = new]
    BY <1>3 DEF CollectTasks, Shut, ShutdownAt
  <2> HIDE DEF new
  <2>3. /\ session'[r] = new
        /\ SetupTasks(r)' = SetupTasks(r)
        /\ RunnerTasks(r)' = RunnerTasks(r)
        /\ Reservations(r)' = Reservations(r)
    BY <1>2, <2>1, <2>2, MovesTo
  <2>4. /\ SetupTasks(r) \X {"setup"} \subseteq Tasks(r)
        /\ RunnerTasks(r) \X {"runner"} \subseteq Tasks(r)
    BY DEF Tasks
  <2>5. Drained(r)' <=> session[r].pass = "second"
    BY <2>1, <2>3 DEF Drained, AllAwaited
  <2>6. session[r].pass = "second" => Drained(r) /\ SetupsOver(r)
    BY <2>2 DEF Drained, SetupsOver
  <2>7. QED
    BY <2>1, <2>2, <2>3, <2>4, <2>5, <2>6
    DEF ShutdownOK, Awaiting, SetupsOver, AllAwaited
<1>4. CASE CancelTasks(r)
  <2> DEFINE new == [session[r] EXCEPT !.pc = "await"]
  <2>1. /\ new.pc = "await" /\ new.tasks = session[r].tasks
        /\ new.pass = session[r].pass
        /\ new.shuttingDown = session[r].shuttingDown
        /\ new.reserving = session[r].reserving
    BY <1>1 DEF Session
  <2>2. session[r].pc = "cancel" /\ session' = [session EXCEPT ![r] = new]
    BY <1>4 DEF CancelTasks, ShutdownAt
  <2> HIDE DEF new
  <2>3. /\ session'[r] = new
        /\ SetupTasks(r)' = SetupTasks(r)
        /\ RunnerTasks(r)' = RunnerTasks(r)
        /\ Reservations(r)' = Reservations(r)
    BY <1>2, <2>1, <2>2, MovesTo
  <2>4. /\ \A pass : Awaiting(r, pass)' <=> Awaiting(r, pass)
        /\ Drained(r)' <=> Drained(r)
        /\ SetupsOver(r)' <=> SetupsOver(r)
    BY <2>1, <2>2, <2>3 DEF Awaiting, Drained, SetupsOver, AllAwaited
  <2>5. QED
    BY <2>1, <2>2, <2>3, <2>4 DEF ShutdownOK, AllAwaited
<1>5. QED
  BY <1>3, <1>4

LEMMA AwaitShutdown ==
    ASSUME RuntimeInv, NEW r \in Runtimes, ShutdownOK(r), AwaitTasks(r)
    PROVE  ShutdownOK(r)'
<1>1. session \in [Runtimes -> Session] /\ session[r] \in Session
  BY DEF RuntimeInv, RuntimeTypeOK
<1>2. ~Crash(r) /\ ShutdownMoves(r)
  BY NotACrash DEF ShutdownStep
<1> DEFINE next == IF session[r].pass = "first" THEN "reservations"
                                                ELSE "cleanups"
           new == [session[r] EXCEPT !.tasks = {}, !.pc = next]
<1>3. /\ new.pc = next /\ new.pass = session[r].pass
      /\ new.shuttingDown = session[r].shuttingDown
      /\ new.reserving = session[r].reserving
  BY <1>1 DEF Session
<1>4. /\ session[r].pc = "await" /\ session' = [session EXCEPT ![r] = new]
      /\ session[r].tasks \cap Tasks(r) = {}
  BY DEF AwaitTasks, Shut, ShutdownAt
<1> HIDE DEF new
<1>5. /\ session'[r] = new
      /\ SetupTasks(r)' = SetupTasks(r)
      /\ RunnerTasks(r)' = RunnerTasks(r)
      /\ Reservations(r)' = Reservations(r)
  BY <1>2, <1>3, <1>4, MovesTo
<1>6. session[r].pass \in {"first", "second"}
  BY <1>1 DEF Session, Passes
<1>7. CASE session[r].pass = "first"
  <2>1. SetupTasks(r) \X {"setup"} \subseteq session[r].tasks
    BY <1>4, <1>7 DEF ShutdownOK, Awaiting
  <2>2. \A l \in SetupTasks(r) :
           <<l, "setup">> \in SetupTasks(r) \X {"setup"}
    OBVIOUS
  <2>3. SetupTasks(r) = {}
    BY <1>4, <2>1, <2>2 DEF Tasks
  <2>4. session'[r].pc = "reservations" /\ session'[r].pass = "first"
    BY <1>3, <1>5, <1>7
  <2>5. QED
    BY <1>3, <1>4, <1>5, <2>3, <2>4
    DEF ShutdownOK, Awaiting, Drained, AllAwaited
<1>8. CASE session[r].pass = "second"
  <2>1. /\ RunnerTasks(r) \X {"runner"} \subseteq session[r].tasks
        /\ Drained(r) /\ SetupsOver(r)
    BY <1>4, <1>8 DEF ShutdownOK, Awaiting, Drained, SetupsOver
  <2>2. \A l \in RunnerTasks(r) :
           <<l, "runner">> \in RunnerTasks(r) \X {"runner"}
    OBVIOUS
  <2>3. RunnerTasks(r) = {}
    BY <1>4, <2>1, <2>2 DEF Tasks
  <2>4. session'[r].pc = "cleanups" /\ session'[r].pass = "second"
    BY <1>3, <1>5, <1>8
  <2>5. SetupTasks(r) = {} /\ Reservations(r) = {}
    BY <2>1 DEF ShutdownOK
  <2>6. QED
    BY <1>3, <1>4, <1>5, <2>3, <2>4, <2>5 DEF ShutdownOK, Awaiting
<1>9. QED
  BY <1>6, <1>7, <1>8

LEMMA DrainShutdown ==
    ASSUME RuntimeInv, NEW r \in Runtimes, ShutdownOK(r),
           CollectReservations(r) \/ AwaitReservations(r)
    PROVE  ShutdownOK(r)'
<1>1. session \in [Runtimes -> Session] /\ session[r] \in Session
  BY DEF RuntimeInv, RuntimeTypeOK
<1>2. ~Crash(r) /\ ShutdownMoves(r)
  BY NotACrash DEF ShutdownStep
<1>3. CASE CollectReservations(r)
  <2> DEFINE new == [session[r] EXCEPT !.drained = Reservations(r),
                                       !.pc = "draining"]
  <2>1. /\ new.pc = "draining" /\ new.drained = Reservations(r)
        /\ new.shuttingDown = session[r].shuttingDown
        /\ new.reserving = session[r].reserving
    BY <1>1 DEF Session
  <2>2. session[r].pc = "reservations"
        /\ session' = [session EXCEPT ![r] = new]
    BY <1>3 DEF CollectReservations, Shut, ShutdownAt
  <2> HIDE DEF new
  <2>3. /\ session'[r] = new
        /\ SetupTasks(r)' = SetupTasks(r)
        /\ Reservations(r)' = Reservations(r)
    BY <1>2, <2>1, <2>2, MovesTo
  <2>4. SetupTasks(r) = {}
    BY <2>2 DEF ShutdownOK, SetupsOver
  <2>5. QED
    BY <2>1, <2>2, <2>3, <2>4
    DEF ShutdownOK, Awaiting, Drained, AllAwaited
<1>4. CASE AwaitReservations(r)
  <2> DEFINE new == [session[r] EXCEPT !.drained = {}, !.pc = "collect",
                                       !.pass = "second"]
  <2>1. /\ new.pc = "collect" /\ new.pass = "second"
        /\ new.shuttingDown = session[r].shuttingDown
        /\ new.reserving = session[r].reserving
    BY <1>1 DEF Session
  <2>2. /\ session[r].pc = "draining" /\ session' = [session EXCEPT ![r] = new]
        /\ session[r].drained \cap Reservations(r) = {}
    BY <1>4 DEF AwaitReservations, Shut, ShutdownAt
  <2> HIDE DEF new
  <2>3. /\ session'[r] = new
        /\ SetupTasks(r)' = SetupTasks(r)
        /\ Reservations(r)' = Reservations(r)
    BY <1>2, <2>1, <2>2, MovesTo
  <2>4. SetupTasks(r) = {}
    BY <2>2 DEF ShutdownOK, SetupsOver
  <2>5. Reservations(r) = {}
    BY <2>2 DEF ShutdownOK
  <2>6. QED
    BY <2>1, <2>2, <2>3, <2>4, <2>5 DEF ShutdownOK, Awaiting, AllAwaited
<1>5. QED
  BY <1>3, <1>4

LEMMA EndShutdown ==
    ASSUME RuntimeInv, NEW r \in Runtimes, ShutdownOK(r),
           AwaitCleanups(r) \/ Interrupt(r)
    PROVE  ShutdownOK(r)'
<1>1. session \in [Runtimes -> Session] /\ session[r] \in Session
  BY DEF RuntimeInv, RuntimeTypeOK
<1>2. ~Crash(r) /\ ShutdownMoves(r)
  BY NotACrash DEF ShutdownStep
<1>3. PICK pc \in {"interrupt", "done", "failed"} :
        /\ session' = [session EXCEPT ![r] = [session[r] EXCEPT !.pc = pc]]
        /\ pc = "failed" => StoreFails
        /\ pc = "done" =>
              \E report \in Reports : InterruptRuntime(r, report)
  BY DEF AwaitCleanups, Interrupt, Shut
<1> DEFINE new == [session[r] EXCEPT !.pc = pc]
<1>4. /\ new.pc = pc /\ new.shuttingDown = session[r].shuttingDown
      /\ new.reserving = session[r].reserving
  BY <1>1 DEF Session
<1>5. session[r].pc \in {"cleanups", "interrupt"}
  BY DEF AwaitCleanups, Interrupt, ShutdownAt
<1>6. session' = [session EXCEPT ![r] = new]
  BY <1>3
<1> HIDE DEF new
<1>7. /\ session'[r] = new
      /\ SetupTasks(r)' = SetupTasks(r)
      /\ RunnerTasks(r)' = RunnerTasks(r)
      /\ Reservations(r)' = Reservations(r)
  BY <1>2, <1>4, <1>6, MovesTo
<1>8. /\ SetupTasks(r) = {} /\ RunnerTasks(r) = {} /\ Reservations(r) = {}
      /\ session[r].shuttingDown
  BY <1>5 DEF ShutdownOK, SetupsOver, Drained, AllAwaited
<1>9. ASSUME pc = "done", NEW a \in Agents
      PROVE  ~NamesActive(r, a)'
  <2>1. PICK report \in Reports : InterruptRuntime(r, report)
    BY <1>3, <1>9
  <2>2. SettledAgents[a] \in AgentRow
    BY SettledKeeps DEF RuntimeInv
  <2>3. CASE SettledAgents[a].runtime = r /\ SettledAgents[a].status \in Active
    <3>1. agents'[a] = Released(SettledAgents[a], "interrupted")
      BY <2>1, <2>3 DEF InterruptRuntime
    <3>2. agents'[a].status = "interrupted"
      BY <2>2, <3>1, ReleasedRow DEF Claimable
    <3>3. QED
      BY <3>2 DEF NamesActive, Active
  <2>4. CASE ~(SettledAgents[a].runtime = r
                 /\ SettledAgents[a].status \in Active)
    <3>1. agents'[a] = SettledAgents[a]
      BY <2>1, <2>4 DEF InterruptRuntime
    <3>2. QED
      BY <2>4, <3>1 DEF NamesActive
  <2>5. QED
    BY <2>3, <2>4
<1>10. session'[r].pc = pc /\ session'[r].shuttingDown
  BY <1>4, <1>7, <1>8
<1>11. QED
  BY <1>3, <1>7, <1>8, <1>9, <1>10 DEF ShutdownOK, Awaiting

ShutdownsOK == \A r \in Runtimes : ShutdownOK(r)

LEMMA NextShutdowns ==
    ASSUME RuntimeInv, [RuntimeNext]_allVars, ~EarlyInitialize, ShutdownsOK
    PROVE  ShutdownsOK'
<1>1. SUFFICES ASSUME NEW r \in Runtimes PROVE ShutdownOK(r)'
  BY DEF ShutdownsOK
<1>2. ShutdownOK(r)
  BY DEF ShutdownsOK
<1>3. QED
  BY <1>2, SessionMoves, RestingShutdown, HostShutdown,
     CollectAndCancelShutdown, AwaitShutdown, DrainShutdown, EndShutdown
  DEF ShutdownMoves

LEMMA ShutdownInvariant ==
    ASSUME ~EarlyInitialize
    PROVE  RuntimeSpec => [](RuntimeInv /\ ShutdownsOK)
<1>1. RuntimeInit => ShutdownsOK
  <2>1. SUFFICES ASSUME RuntimeInit, NEW r \in Runtimes
                 PROVE  ShutdownOK(r)
    BY DEF ShutdownsOK
  <2>2. session[r] = NewSession
    BY <2>1 DEF RuntimeInit
  <2>3. QED
    BY <2>2 DEF ShutdownOK, NewSession, Awaiting, SetupsOver, Drained,
                AllAwaited
<1>2. RuntimeInv /\ ShutdownsOK /\ [RuntimeNext]_allVars => ShutdownsOK'
  BY NextShutdowns
<1>3. QED
  BY <1>1, <1>2, RuntimeInvariant, PTL DEF RuntimeSpec

(* A process runs nothing once it has awaited all of its tasks.            *)
LEMMA NothingOwned ==
    ASSUME RuntimeInv, NEW r \in Runtimes, ShutdownOK(r),
           session[r].pc \in AllAwaited
    PROVE  Mine(r, Owned) = {} /\ Mine(r, Reservation) = {}
<1>1. /\ SetupTasks(r) = {} /\ RunnerTasks(r) = {} /\ Reservations(r) = {}
  BY DEF ShutdownOK, SetupsOver, Drained
<1>2. ASSUME NEW l \in Mine(r, Owned)
      PROVE  FALSE
  <2>1. /\ l \in leases /\ l.runtime = r /\ live[l].phase \in Owned
        /\ RunOK(live[l]) /\ live[l].setup \in BOOLEAN
    BY DEF Mine, RuntimeInv, RuntimeTypeOK, LiveRun
  <2>2. IsSetup(live[l]) \/ IsRunner(live[l])
    BY <2>1 DEF RunOK, IsSetup, IsRunner, Owned
  <2>3. QED
    BY <1>1, <2>1, <2>2, TaskFacts
<1>3. Mine(r, Reservation) = {}
  BY <1>1 DEF Reservations
<1>4. QED
  BY <1>2, <1>3

(* No row of a process is interrupted while a run of it goes on, however   *)
(* late the run was launched: a shutdown that collects its tasks twice,    *)
(* around the reservations, misses none.  It needs the host not to         *)
(* initialize a session before the shutdown of the one before is over.     *)
THEOREM ShutdownAlwaysAwaitsEveryRun ==
    ASSUME ~EarlyInitialize
    PROVE  RuntimeSpec => []ShutdownAwaitsEveryRun
<1>1. RuntimeInv /\ ShutdownsOK => ShutdownAwaitsEveryRun
  BY NothingOwned DEF ShutdownsOK, ShutdownAwaitsEveryRun, AllAwaited
<1>2. QED
  BY <1>1, ShutdownInvariant, PTL

(* After a shutdown the process runs nothing, renews nothing, has no       *)
(* client open and, if its last call succeeded, is named by no active row. *)
THEOREM ShutdownAlwaysLeavesNothing ==
    ASSUME ~EarlyInitialize
    PROVE  RuntimeSpec => []ShutdownLeavesNothing
<1>1. ASSUME RuntimeInv, ShutdownsOK, NEW r \in Runtimes,
             session[r].pc \in {"done", "failed"}
      PROVE  /\ \A l \in leases : l.runtime = r =>
                   /\ live[l].phase \in {"prepared", "abandoned", "gone"}
                   /\ live[l].heartbeat = "off" /\ ~live[l].client
             /\ session[r].pc = "done" =>
                   \A a \in Agents :
                      agents[a].status \in Active => agents[a].runtime # r
  <2>1. Mine(r, Owned) = {} /\ Mine(r, Reservation) = {}
    BY <1>1, NothingOwned DEF ShutdownsOK, AllAwaited
  <2>2. ASSUME NEW l \in leases, l.runtime = r
        PROVE  /\ live[l].phase \in {"prepared", "abandoned", "gone"}
               /\ live[l].heartbeat = "off" /\ ~live[l].client
    <3>1. /\ live[l] \in LiveRun /\ DOMAIN live = leases /\ RunOK(live[l])
      BY <1>1 DEF RuntimeInv, RuntimeTypeOK
    <3>2. live[l].phase \notin Owned /\ live[l].phase \notin Reservation
      BY <2>1, <2>2, <3>1 DEF Mine
    <3>3. live[l].phase \in {"prepared", "abandoned", "gone"}
      BY <3>1, <3>2 DEF LiveRun
    <3>4. QED
      BY <3>1, <3>3 DEF RunOK, Runner
  <2>3. QED
    BY <1>1, <2>2 DEF ShutdownsOK, ShutdownOK, NamesActive
<1>2. RuntimeInv /\ ShutdownsOK => ShutdownLeavesNothing
  BY <1>1 DEF ShutdownLeavesNothing
<1>3. QED
  BY <1>2, ShutdownInvariant, PTL

-----------------------------------------------------------------------------
(* What ends a claim that has not expired.                                 *)

LiveClaim(l) == HoldsClaim(l) /\ agents[l.agent].expires > now

LEMMA LiveClaimSettled ==
    ASSUME Inv, NEW l \in leases, LiveClaim(l)
    PROVE  /\ l \in Lease /\ l.agent \in Agents
           /\ SettledAgents[l.agent] = agents[l.agent]
           /\ SettledRuns[l.agent] = runs[l.agent]
<1>1. l \in Lease /\ l.agent \in Agents
  BY DEF Inv, TypeOK, Lease
<1>2. agents[l.agent].expires \in Nat /\ now \in Int
  BY <1>1 DEF Inv, TypeOK, AgentRow
<1>3. ~Expired(agents[l.agent])
  BY <1>2 DEF LiveClaim, Expired
<1>4. QED
  BY <1>1, <1>3 DEF SettledAgents, SettledRuns

LEMMA WorkerWrites ==
    ASSUME NEW k \in leases, QuietWorkerStep(k) \/ Abort(k)
    PROVE  /\ LeaseOwned(k)
           /\ \E new : agents' = [SettledAgents EXCEPT ![k.agent] = new]
BY DEF QuietWorkerStep, AttachConversation, AttachCancelingConversation,
       Attach, MarkRunning, Terminal, Heartbeat, HeartbeatCanceling,
       RenewLease, CompleteCancel, Abort, ActiveLease, CancelingLease,
       PutAgent

(* The holder's own steps.                                                 *)
LEMMA EndsOwnClaim ==
    ASSUME Inv, LeasesAreUnique, NEW k \in leases,
           QuietWorkerStep(k) \/ Abort(k),
           NEW l \in leases, LiveClaim(l), ~HoldsClaim(l)'
    PROVE  l = k
<1>1. /\ LeaseOwned(k)
      /\ \E new : agents' = [SettledAgents EXCEPT ![k.agent] = new]
  BY WorkerWrites
<1>2. l.agent \in Agents /\ SettledAgents[l.agent] = agents[l.agent]
  BY LiveClaimSettled
<1>3. l.agent = k.agent
  <2>1. SUFFICES ASSUME l.agent # k.agent PROVE FALSE
    OBVIOUS
  <2>2. agents'[l.agent] = agents[l.agent]
    BY <1>1, <1>2, <2>1 DEF SettledAgents
  <2>3. QED
    BY <2>2 DEF HoldsClaim, LiveClaim
<1>4. l.gen = k.gen
  BY <1>1, <1>2, <1>3 DEF LeaseOwned, LiveClaim, HoldsClaim
<1>5. QED
  BY <1>3, <1>4 DEF LeasesAreUnique

LEMMA KeepingHolds ==
    ASSUME Inv, NEW k \in leases, Keeping(k), NEW l \in leases, LiveClaim(l)
    PROVE  HoldsClaim(l)'
<1> DEFINE row == SettledAgents[k.agent]
<1>1. l.agent \in Agents /\ SettledAgents[l.agent] = agents[l.agent]
  BY LiveClaimSettled
<1>2. LeaseOwned(k)
  BY DEF Keeping, AttachConversation, AttachCancelingConversation,
         MarkRunning, Heartbeat, HeartbeatCanceling, ActiveLease,
         CancelingLease
<1>3. /\ k.agent \in Agents /\ row \in AgentRow /\ row.status \in Claimed
      /\ k.runtime \in Runtimes \cup {NoRuntime}
  BY <1>2, OwnedFacts DEF Lease
<1>4. PICK new : /\ agents' = [SettledAgents EXCEPT ![k.agent] = new]
                 /\ new.status \in Claimed /\ new.gen = row.gen
  <2>1. ASSUME NEW conv \in Conversations,
               \/ AttachConversation(k, conv)
               \/ AttachCancelingConversation(k, conv)
        PROVE  \E new : /\ agents' = [SettledAgents EXCEPT ![k.agent] = new]
                        /\ new.status \in Claimed /\ new.gen = row.gen
    <3>1. agents' = [SettledAgents EXCEPT
                       ![k.agent] = WithConversation(row, conv)]
      BY <2>1 DEF AttachConversation, AttachCancelingConversation, Attach,
                  PutAgent
    <3>2. /\ WithConversation(row, conv).status = row.status
          /\ WithConversation(row, conv).gen = row.gen
      BY <1>3, WithConversationRow
    <3>3. QED
      BY <1>3, <3>1, <3>2
  <2>2. ASSUME NEW conv \in Conversations, MarkRunning(k, conv)
        PROVE  \E new : /\ agents' = [SettledAgents EXCEPT ![k.agent] = new]
                        /\ new.status \in Claimed /\ new.gen = row.gen
    <3>1. agents' = [SettledAgents EXCEPT ![k.agent] = Running(row, conv)]
      BY <2>2 DEF MarkRunning, PutAgent
    <3>2. /\ Running(row, conv).status = "running"
          /\ Running(row, conv).gen = row.gen
      BY <1>3, RunningRow
    <3>3. QED
      BY <3>1, <3>2 DEF Claimed
  <2>3. CASE Heartbeat(k) \/ HeartbeatCanceling(k)
    <3>1. agents' = [SettledAgents EXCEPT
                       ![k.agent] = Leased(row, k.runtime)]
      BY <2>3 DEF Heartbeat, HeartbeatCanceling, RenewLease, PutAgent
    <3>2. /\ Leased(row, k.runtime).status = row.status
          /\ Leased(row, k.runtime).gen = row.gen
      BY <1>3, LeasedRow DEF Inv
    <3>3. QED
      BY <1>3, <3>1, <3>2
  <2>4. QED
    BY <2>1, <2>2, <2>3 DEF Keeping
<1>5. agents'[l.agent] = IF l.agent = k.agent THEN new ELSE agents[l.agent]
  BY <1>1, <1>4 DEF SettledAgents
<1>6. QED
  BY <1>1, <1>4, <1>5 DEF HoldsClaim, LiveClaim

LEMMA OneRunEnds ==
    ASSUME RuntimeInv, NEW k \in leases, OneRun(k),
           NEW l \in leases, LiveClaim(l), ~HoldsClaim(l)'
    PROVE  /\ l = k
           /\ live[l].phase \in {"abandoning", "completing", "recording",
                                 "settling"}
<1>1. /\ Inv /\ LeasesAreUnique /\ live \in [leases -> LiveRun]
      /\ RunOK(live[k])
  BY DEF RuntimeInv, RuntimeTypeOK
<1>2. agents' # agents
  BY DEF LiveClaim, HoldsClaim
<1>3. ~(UNCHANGED vars) /\ ~Keeping(k)
  BY <1>1, <1>2, KeepingHolds DEF vars
<1>4. \/ AbandonUnlaunchedClaim(k) \/ RecordFailure(k) \/ Complete(k)
      \/ Settle(k)
  BY <1>1, <1>3, OneRunEffects
<1>5. live[k].phase \in {"abandoning", "completing", "recording", "settling"}
  BY <1>4 DEF AbandonUnlaunchedClaim, RecordFailure, Complete, Settle, At
<1>6. QuietWorkerStep(k) \/ Abort(k)
  BY <1>1, <1>3, OneRunStore
<1>7. QED
  BY <1>1, <1>5, <1>6, EndsOwnClaim

(* The steps of others, among which only an interruption ends claims.      *)
LEMMA ClaimHolder ==
    ASSUME LeasesAreHandedOut, LeasesAreUnique, Inv,
           NEW l \in leases, HoldsClaim(l)
    PROVE  agents[l.agent].runtime = l.runtime
<1>1. l.agent \in Agents
  BY DEF Inv, TypeOK, Lease
<1>2. [agent |-> l.agent, gen |-> l.gen, runtime |-> agents[l.agent].runtime]
        \in leases
  BY <1>1 DEF LeasesAreHandedOut, HoldsClaim
<1>3. QED
  BY <1>2 DEF LeasesAreUnique

LEMMA OthersKeepClaims ==
    ASSUME RuntimeInv, NEW l \in leases, LiveClaim(l),
           \/ \E r \in Runtimes, a \in Agents : ReserveCommits(r, a)
           \/ \E a \in Agents : CancelActive(a) \/ CancelInactive(a)
           \/ Reconcile
    PROVE  HoldsClaim(l)'
<1>1. /\ Inv /\ l.agent \in Agents
      /\ SettledAgents[l.agent] = agents[l.agent]
  BY LiveClaimSettled DEF RuntimeInv
<1>2. ASSUME agents'[l.agent] = SettledAgents[l.agent]
      PROVE  HoldsClaim(l)'
  BY <1>1, <1>2 DEF HoldsClaim, LiveClaim
<1>3. ASSUME NEW r \in Runtimes, NEW a \in Agents, ReserveCommits(r, a)
      PROVE  HoldsClaim(l)'
  <2>1. (\E owner \in Owners : Create(r, owner, a)) \/ Claim(r, a)
    BY <1>3 DEF ReserveCommits
  <2>2. /\ Claims(a)
        /\ \A b \in Agents \ {a} : agents'[b] = SettledAgents[b]
    BY <1>1, <2>1, CreateClaims, ClaimClaims
  <2>3. l.agent # a
    BY <1>1, <2>2 DEF Claims, Claimable, Claimed, LiveClaim, HoldsClaim
  <2>4. QED
    BY <1>1, <1>2, <2>2, <2>3
<1>4. ASSUME NEW a \in Agents, CancelActive(a)
      PROVE  HoldsClaim(l)'
  <2> DEFINE row == SettledAgents[a]
             new == Leased(Canceling(row), row.runtime)
  <2>1. agents' = [SettledAgents EXCEPT ![a] = new] /\ row.status \in Active
    BY <1>4 DEF CancelActive, PutAgent
  <2>2. row \in AgentRow /\ row.runtime \in Runtimes \cup {NoRuntime}
    BY <1>1, SettledKeeps DEF AgentRow
  <2>3. new.status = "canceling" /\ new.gen = row.gen
    BY <1>1, <2>2, CancelingRow, LeasedRow DEF Inv
  <2> HIDE DEF new
  <2>4. agents'[l.agent] = IF l.agent = a THEN new
                           ELSE SettledAgents[l.agent]
    BY <1>1, <2>1 DEF SettledAgents
  <2>5. QED
    BY <1>1, <1>2, <2>3, <2>4 DEF HoldsClaim, LiveClaim, Claimed
<1>5. ASSUME NEW a \in Agents, CancelInactive(a)
      PROVE  HoldsClaim(l)'
  <2>1. /\ SettledAgents[a].status \in Claimable
        /\ \E new : agents' = [SettledAgents EXCEPT ![a] = new]
    BY <1>5 DEF CancelInactive, PutAgent
  <2>2. l.agent # a
    BY <1>1, <2>1 DEF Claimable, Claimed, LiveClaim, HoldsClaim
  <2>3. agents'[l.agent] = SettledAgents[l.agent]
    BY <1>1, <2>1, <2>2 DEF SettledAgents
  <2>4. QED
    BY <1>2, <2>3
<1>6. CASE Reconcile
  BY <1>2, <1>6 DEF Reconcile, KeepAgents
<1>7. QED
  BY <1>3, <1>4, <1>5, <1>6

LEMMA InterruptEnds ==
    ASSUME RuntimeInv, NEW r \in Runtimes, Interrupt(r),
           NEW l \in leases, LiveClaim(l), ~HoldsClaim(l)'
    PROVE  l.runtime = r
<1>1. /\ Inv /\ l.agent \in Agents /\ LeasesAreHandedOut /\ LeasesAreUnique
      /\ SettledAgents[l.agent] = agents[l.agent]
  BY LiveClaimSettled DEF RuntimeInv
<1>2. agents'[l.agent] # agents[l.agent]
  BY DEF LiveClaim, HoldsClaim
<1>3. PICK report \in Reports : InterruptRuntime(r, report)
  BY <1>2, InterruptStep DEF RuntimeInv, vars
<1>4. agents[l.agent].runtime = r
  BY <1>1, <1>2, <1>3 DEF InterruptRuntime
<1>5. QED
  BY <1>1, <1>4, ClaimHolder DEF LiveClaim

LEMMA ClientKeepsClaim ==
    ASSUME RuntimeInv, ShutdownsOK, [RuntimeNext]_allVars,
           NEW l \in leases, live[l].client, LiveClaim(l), ~HoldsClaim(l)'
    PROVE  live[l].phase = "completing"
<1>1. /\ RunOK(live[l]) /\ DOMAIN live = leases
      /\ l.runtime \in Runtimes
  BY DEF RuntimeInv, RuntimeTypeOK, Inv, TypeOK, Lease
<1>2. live[l].phase \in (Runner \ {"starting"}) \cup {"closing"}
  BY <1>1 DEF RunOK
<1>3. agents' # agents
  BY DEF LiveClaim, HoldsClaim
<1>4. ASSUME NEW k \in leases, OneRun(k)
      PROVE  live[l].phase = "completing"
  BY <1>2, <1>4, OneRunEnds DEF Runner
<1>5. ASSUME NEW r \in Runtimes, ShutdownMoves(r)
      PROVE  FALSE
  <2>1. Interrupt(r)
    BY <1>3, <1>5, ShutStep
    DEF RuntimeInv, ShutdownMoves, CancelTasks, Crash, NoStore, vars
  <2>2. l.runtime = r /\ session[r].pc = "interrupt"
    BY <2>1, InterruptEnds DEF Interrupt, ShutdownAt
  <2>3. Mine(r, Owned) = {}
    BY <2>2, NothingOwned DEF ShutdownsOK, AllAwaited
  <2>4. l \in Mine(r, Owned)
    BY <1>1, <1>2, <2>2 DEF Mine, Owned, Cleanup
  <2>5. QED
    BY <2>3, <2>4
<1>6. ~\E r \in Runtimes, a \in Agents : ReserveCommits(r, a)
  BY OthersKeepClaims
<1>7. ~(StoreStep \/ Tick)
  BY <1>3, StoreStepStep, OthersKeepClaims DEF Tick, SetClock
<1>8. ~\E r \in Runtimes, a \in Agents :
          BeginReserve(r, a) \/ ReserveFails(r, a)
  BY <1>3 DEF BeginReserve, ReserveFails, NoStore, vars
<1>9. ~(UNCHANGED allVars)
  BY <1>3 DEF allVars, vars
<1>10. QED
  BY <1>4, <1>5, <1>6, <1>7, <1>8, <1>9, RuntimeCases

(* No failure, cancellation or shutdown ends a claim that has not expired  *)
(* while a client is open on its conversation: only the run itself does,   *)
(* with its answer.  So no follow-up starts beside a worker that has not   *)
(* let go.                                                                 *)
THEOREM ClaimsOutliveClients ==
    ASSUME ~EarlyInitialize
    PROVE  RuntimeSpec => ClaimOutlivesClient
<1> DEFINE A == \A l \in leases :
                   live[l].client /\ HoldsClaim(l) /\ ~HoldsClaim(l)'
                     => \/ live[l].phase = "completing"
                        \/ agents[l.agent].expires <= now
<1>1. ASSUME RuntimeInv, ShutdownsOK, [RuntimeNext]_allVars
      PROVE  A
  <2>1. SUFFICES ASSUME NEW l \in leases, live[l].client, HoldsClaim(l),
                        ~HoldsClaim(l)',
                        ~(agents[l.agent].expires <= now)
                 PROVE  live[l].phase = "completing"
    OBVIOUS
  <2>2. agents[l.agent].expires \in Nat /\ now \in Int
    BY <1>1 DEF RuntimeInv, Inv, TypeOK, Lease, AgentRow
  <2>3. LiveClaim(l)
    BY <2>1, <2>2 DEF LiveClaim
  <2>4. QED
    BY <1>1, <2>1, <2>3, ClientKeepsClaim
<1>2. RuntimeInv /\ ShutdownsOK /\ [RuntimeNext]_allVars => [A]_allVars
  BY <1>1
<1>3. QED
  BY <1>2, ShutdownInvariant, PTL DEF RuntimeSpec, ClaimOutlivesClient, A

-----------------------------------------------------------------------------
(* Live claims are old, and their leases good.                             *)

ActiveClaim(l) == LiveClaim(l) /\ agents[l.agent].status \in Active

LEMMA SettledClaimLives ==
    ASSUME Inv, NEW a \in Agents, SettledAgents[a].status \in Claimed
    PROVE  agents[a].expires > now
<1>1. /\ agents[a] \in AgentRow /\ now \in Int
      /\ RowAgrees(a, agents[a], runs[a], Lease)
  BY SettledKeeps DEF Inv, TypeOK, TablesAgree
<1>2. ASSUME Expired(agents[a]) PROVE FALSE
  <2>1. agents[a].status \in Claimed /\ agents[a].gen # 0
    BY <1>1, <1>2 DEF Expired, RowAgrees, Claimed, Absent
  <2>2. agents[a].status = "canceling" =>
           runs[a][agents[a].gen].status = "canceled"
    BY <1>1, <2>1 DEF RowAgrees, CurrentRunFollowsStatus
  <2>3. PICK status \in {"canceled", "interrupted"} :
           SettledAgents[a] = Released(agents[a], status)
    BY <1>2, <2>2 DEF SettledAgents, ReapedRow, CanceledRow
  <2>4. SettledAgents[a].status = status
    BY <1>1, <2>3, ReleasedRow DEF Claimable
  <2>5. QED
    BY <2>4 DEF Claimed
<1>3. agents[a].status \in Claimed
  BY SettledKeeps
<1>4. agents[a].expires \in Nat
  BY <1>1 DEF AgentRow
<1>5. QED
  BY <1>1, <1>2, <1>3, <1>4 DEF Expired

LEMMA LiveClaimIsOld ==
    ASSUME RuntimeInv, ~ClockGoesBack, [RuntimeNext]_allVars,
           NEW l \in leases, LiveClaim(l)'
    PROVE  /\ LiveClaim(l)
           /\ agents'[l.agent].status \in Active =>
                 agents[l.agent].status \in Active
           /\ agents'[l.agent].runtime = agents[l.agent].runtime
<1> DEFINE a == l.agent
<1>1. Inv /\ GuidanceInv /\ [Next]_vars /\ now' >= now
  BY RuntimeIsStore DEF RuntimeInv
<1>2. /\ a \in Agents /\ l.gen \in Int /\ now \in Int
      /\ agents[a].expires \in Int /\ agents[a].gen \in Int
  BY <1>1, BoundAssumption
  DEF Inv, TypeOK, Lease, Generations, AgentRow
<1>3. /\ agents'[a].status \in Claimed /\ agents'[a].gen = l.gen
      /\ agents'[a].expires > now'
  BY DEF LiveClaim, HoldsClaim
<1>4. now' \in Int
  BY <1>1, NextInv DEF Inv, TypeOK
<1>5. CASE agents' = agents
  BY <1>1, <1>2, <1>3, <1>4, <1>5 DEF LiveClaim, HoldsClaim
<1>6. CASE Continues(a)
  <2>1. /\ SettledAgents[a].status \in Claimed
        /\ agents'[a].runtime = SettledAgents[a].runtime
        /\ agents'[a].status \in Active => SettledAgents[a].status \in Active
        /\ agents'[a].gen = SettledAgents[a].gen
    BY <1>3, <1>6 DEF Continues, Claimed
  <2>2. SettledAgents[a] = agents[a]
    BY <1>1, <1>2, <2>1, SettledKeeps
  <2>3. agents[a].expires > now
    BY <1>1, <1>2, <2>1, SettledClaimLives
  <2>4. QED
    BY <1>3, <2>1, <2>2, <2>3 DEF LiveClaim, HoldsClaim
<1>7. CASE Claims(a)
  <2>1. SettledAgents[a].status \in Claimable \cup {"unused"}
    BY <1>7 DEF Claims
  <2>2. agents[a].status # "deleted"
    BY <1>1, <1>2, <2>1, AbsentSettled DEF Absent, Claimable
  <2>3. agents'[a].gen = agents[a].gen + 1
    <3>1. SettledAgents[a].gen = agents[a].gen
      BY <1>1, <1>2, SettledKeeps
    <3>2. QED
      BY <1>7, <3>1, Zenon DEF Claims
  <2>4. l.gen <= agents[a].gen
    BY <1>1, <2>2 DEF GuidanceInv, LeaseOK
  <2>5. QED
    BY <1>2, <1>3, <2>3, <2>4
<1>8. agents' = agents \/ Continues(a) \/ Claims(a)
  <2>1. CASE \E b \in Agents :
                /\ Claims(b)
                /\ \A c \in Agents \ {b} : agents'[c] = SettledAgents[c]
    BY <1>2, <2>1, UntouchedContinues
  <2>2. QED
    BY <1>1, <1>2, <2>1, NextRows
<1>9. QED
  BY <1>5, <1>6, <1>7, <1>8

(* The worker of a live claim presents a good lease.                       *)
LEMMA ClaimLease ==
    ASSUME RuntimeInv, NEW l \in leases, LiveClaim(l)
    PROVE  /\ agents[l.agent].status \in Active => ActiveLease(l)
           /\ agents[l.agent].status = "canceling" => CancelingLease(l)
<1> DEFINE a == l.agent
<1>1. /\ Inv /\ LeasesAreHandedOut /\ LeasesAreUnique
      /\ SettledAgents[a] = agents[a] /\ SettledRuns[a] = runs[a]
      /\ a \in Agents /\ l \in Lease
  BY LiveClaimSettled DEF RuntimeInv
<1>2. agents[a].runtime = l.runtime /\ agents[a].gen = l.gen
  BY <1>1, ClaimHolder DEF LiveClaim, HoldsClaim
<1>3. LeaseOwned(l)
  BY <1>1, <1>2 DEF LeaseOwned, LiveClaim
<1>4. l.gen # 0
  BY <1>1 DEF Lease, Generations
<1>5. CurrentRunFollowsStatus(agents[a], runs[a][l.gen])
  BY <1>1, <1>2, <1>4 DEF Inv, TablesAgree, RowAgrees
<1>6. QED
  BY <1>1, <1>3, <1>5
  DEF ActiveLease, CancelingLease, CurrentRunFollowsStatus, Active, ActiveRun

-----------------------------------------------------------------------------
(* Claims are handed back on the way out of a run.                         *)

Leaving == {"closing", "recording", "salvaging", "settling", "releasing",
            "gone"}

GivenBack(l) ==
    /\ live[l].parentCanceled => ~ActiveClaim(l)
    /\ live[l].phase \in {"closing", "recording"} /\ live[l].failure = "none"
         => ~ActiveClaim(l)
    /\ live[l].phase \in {"salvaging", "settling"} => ~ActiveClaim(l)
    /\ live[l].phase \in {"releasing", "gone"} => ~LiveClaim(l)

(* A claim let go before its setup is one the shutdown will interrupt.     *)
LetGo(l) ==
    live[l].phase = "abandoned" /\ ActiveClaim(l) =>
       /\ session[l.runtime].shuttingDown
       /\ session[l.runtime].pc # "done"

ClaimsStayOver(l) ==
    /\ ~LiveClaim(l) => ~LiveClaim(l)'
    /\ ~ActiveClaim(l) => ~ActiveClaim(l)'

LEMMA ClaimsStay ==
    ASSUME RuntimeInv, ~ClockGoesBack, [RuntimeNext]_allVars,
           NEW l \in leases
    PROVE  ClaimsStayOver(l)
BY LiveClaimIsOld DEF ClaimsStayOver, ActiveClaim

(* A run that is not on its way out, or stays where it is.                 *)
LEMMA ForwardStep ==
    ASSUME NEW l \in leases, GivenBack(l), ClaimsStayOver(l),
           live'[l].parentCanceled => live[l].parentCanceled,
           \/ live'[l].phase \notin Leaving
           \/ /\ live'[l].phase = live[l].phase
              /\ live'[l].failure = live[l].failure
    PROVE  GivenBack(l)'
BY DEF GivenBack, ClaimsStayOver, ActiveClaim, Leaving

(* What ends the claim of its lease.                                       *)
LEMMA WorkerEnds ==
    ASSUME Inv, NEW l \in leases,
           \/ Abort(l) \/ CompleteCancel(l)
           \/ \E status \in {"idle", "failed", "interrupted"},
                 conv \in Conversations \cup {NoConversation},
                 report \in Reports : Terminal(l, status, conv, report)
    PROVE  ~LiveClaim(l)'
<1> DEFINE a == l.agent
           row == SettledAgents[a]
<1>1. LeaseOwned(l)
  BY DEF Abort, CompleteCancel, Terminal, ActiveLease, CancelingLease
<1>2. a \in Agents /\ row \in AgentRow
  BY <1>1, OwnedFacts DEF Lease
<1>3. PICK new : agents' = [SettledAgents EXCEPT ![a] = new]
                 /\ new.status \notin Claimed
  <2>1. CASE Abort(l)
    <3>1. agents' = [SettledAgents EXCEPT ![a] = AbsentRow("deleted")]
      BY <2>1 DEF Abort, PutAgent
    <3>2. AbsentRow("deleted").status = "deleted"
      BY DEF AbsentRow
    <3>3. QED
      BY <3>1, <3>2 DEF Claimed
  <2>2. CASE CompleteCancel(l)
    <3>1. agents' = [SettledAgents EXCEPT ![a] = Released(row, "canceled")]
      BY <2>2 DEF CompleteCancel, CancelingLease, CanceledRow, PutAgent
    <3>2. Released(row, "canceled").status = "canceled"
      BY <1>2, ReleasedRow DEF Claimable
    <3>3. QED
      BY <3>1, <3>2 DEF Claimed
  <2>3. ASSUME NEW status \in {"idle", "failed", "interrupted"},
               NEW conv \in Conversations \cup {NoConversation},
               NEW report \in Reports, Terminal(l, status, conv, report)
        PROVE  \E new : agents' = [SettledAgents EXCEPT ![a] = new]
                        /\ new.status \notin Claimed
    <3> DEFINE resolved == IF conv = NoConversation THEN row.conv ELSE conv
               new == WithConversation(Released(row, status), resolved)
    <3>1. agents' = [SettledAgents EXCEPT ![a] = new]
      BY <2>3 DEF Terminal, PutAgent
    <3>2. /\ resolved \in Conversations \cup {NoConversation}
          /\ status \in Claimable
      BY <1>2 DEF AgentRow, Claimable
    <3>3. new.status = status
      BY <1>2, <3>2, ReleasedRow, WithConversationRow
    <3> HIDE DEF new
    <3>4. QED
      BY <3>1, <3>3 DEF Claimed
  <2>4. QED
    BY <2>1, <2>2, <2>3
<1>4. agents'[a] = new
  BY <1>2, <1>3 DEF SettledAgents
<1>5. QED
  BY <1>3, <1>4 DEF LiveClaim, HoldsClaim

LEMMA WithdrawEnds ==
    ASSUME RuntimeInv, NEW l \in leases,
           NEW status \in {"failed", "interrupted"}, Withdraw(l, status)
    PROVE  ~LiveClaim(l)'
<1>1. live[l] \in LiveRun /\ Inv
  BY DEF RuntimeInv, RuntimeTypeOK
<1>2. live[l].conv \in Conversations \cup {NoConversation}
  BY <1>1 DEF LiveRun
<1>3. QED
  BY <1>1, <1>2, WorkerEnds DEF Withdraw

LEMMA GivesUpEnds ==
    ASSUME RuntimeInv, ~StoreFails, ~ClockGoesBack, [RuntimeNext]_allVars,
           NEW l \in leases, GivesUp(l)
    PROVE  ~ActiveClaim(l) /\ ~ActiveClaim(l)'
<1>1. ~ActiveClaim(l)
  BY ClaimLease DEF GivesUp, ActiveClaim
<1>2. QED
  BY <1>1, ClaimsStay DEF ClaimsStayOver

(* The steps by which a run goes on.                                       *)
LEMMA ForwardRuns ==
    ASSUME NEW l \in leases, live \in [leases -> LiveRun],
           \/ ReserveReturns(l) \/ BeginAbandon(l) \/ PrepareClaim(l)
           \/ CallerCancels(l) \/ Acquire(l) \/ AttachFork(l) \/ Confirm(l)
           \/ Launch(l) \/ OpenClient(l) \/ CreateSession(l)
           \/ AttachSession(l) \/ StartRunning(l) \/ Answer(l)
           \/ HeartbeatRenews(l) \/ HeartbeatEnds(l)
           \/ CleanupHeartbeatRenews(l) \/ CleanupHeartbeatEnds(l)
           \/ CancelArrives(l)
    PROVE  /\ live'[l].parentCanceled => live[l].parentCanceled
           /\ \/ live'[l].phase \notin Leaving
              \/ /\ live'[l].phase = live[l].phase
                 /\ live'[l].failure = live[l].failure
           /\ live'[l].phase = "abandoned" =>
                 \/ live[l].phase = "abandoned"
                 \/ session[l.runtime].shuttingDown
                    /\ live[l].phase = "prepared"
                    /\ session' = session
<1> DEFINE Goes(new) ==
             /\ new.parentCanceled = live[l].parentCanceled
             /\ new.failure = live[l].failure
             /\ \/ new.phase = live[l].phase
                \/ new.phase \notin Leaving /\ new.phase # "abandoned"
<1>1. live[l] \in LiveRun
  OBVIOUS
<1>2. ASSUME NEW new, Put(l, new), Goes(new)
      PROVE  /\ live'[l].parentCanceled => live[l].parentCanceled
             /\ \/ live'[l].phase \notin Leaving
                \/ /\ live'[l].phase = live[l].phase
                   /\ live'[l].failure = live[l].failure
             /\ live'[l].phase = "abandoned" => live[l].phase = "abandoned"
  <2>1. live'[l] = new
    BY <1>2 DEF Put
  <2>2. QED
    BY <1>2, <2>1
<1>3. ASSUME NEW next \in {"prepared", "attaching", "confirming", "launching",
                           "marking", "running"},
             Goto(l, next)
      PROVE  \E new : Put(l, new) /\ Goes(new)
  <2> DEFINE new == [live[l] EXCEPT !.phase = next]
  <2>1. Goes(new)
    BY <1>1 DEF LiveRun, Leaving
  <2>2. Put(l, new)
    BY <1>3 DEF Goto
  <2>3. QED
    BY <2>1, <2>2
<1>4. CASE \/ ReserveReturns(l) \/ AttachFork(l) \/ Confirm(l)
           \/ AttachSession(l) \/ StartRunning(l)
  BY <1>2, <1>3, <1>4
  DEF ReserveReturns, AttachFork, Confirm, AttachSession, StartRunning
<1>5. ASSUME NEW next \in {"attaching", "joining"}, NEW conv,
             Put(l, [live[l] EXCEPT !.phase = next, !.conv = conv])
      PROVE  \E new : Put(l, new) /\ Goes(new)
  <2> DEFINE new == [live[l] EXCEPT !.phase = next, !.conv = conv]
  <2>1. Goes(new)
    BY <1>1 DEF LiveRun, Leaving
  <2>2. QED
    BY <1>5, <2>1
<1>6. CASE Acquire(l) \/ CreateSession(l)
  <2>1. \/ Goto(l, "confirming") \/ Goto(l, "marking")
        \/ \E next \in {"attaching", "joining"}, conv \in NewConversations :
              Put(l, [live[l] EXCEPT !.phase = next, !.conv = conv])
    BY <1>6 DEF Acquire, CreateSession
  <2>2. QED
    BY <1>2, <1>3, <1>5, <2>1
<1>7. CASE PrepareClaim(l)
  <2>1. /\ live[l].phase = "prepared" /\ session' = session
        /\ \/ session[l.runtime].shuttingDown /\ Put(l, Abandoned)
           \/ Put(l, [live[l] EXCEPT !.phase = "acquiring",
                                     !.heartbeat = "claim"])
    BY <1>7 DEF PrepareClaim, At
  <2>2. CASE Put(l, Abandoned) /\ session[l.runtime].shuttingDown
    <3>1. live'[l] = Abandoned
      BY <2>2 DEF Put
    <3>2. live'[l].phase = "abandoned" /\ ~live'[l].parentCanceled
      BY <3>1 DEF Abandoned, NewLiveRun
    <3>3. QED
      BY <2>1, <2>2, <3>2 DEF Leaving
  <2>3. CASE Put(l, [live[l] EXCEPT !.phase = "acquiring",
                                    !.heartbeat = "claim"])
    <3> DEFINE new == [live[l] EXCEPT !.phase = "acquiring",
                                      !.heartbeat = "claim"]
    <3>1. Goes(new)
      BY <1>1 DEF LiveRun, Leaving
    <3>2. QED
      BY <1>2, <2>3, <3>1
  <2>4. QED
    BY <2>1, <2>2, <2>3
<1>8. CASE BeginAbandon(l)
  <2> DEFINE new == [live[l] EXCEPT !.phase = "abandoning",
                        !.terminalizing = TRUE, !.heartbeat = "claim"]
  <2>1. Goes(new)
    BY <1>1 DEF LiveRun, Leaving
  <2>2. Put(l, new)
    BY <1>8 DEF BeginAbandon
  <2>3. QED
    BY <1>2, <2>1, <2>2
<1>9. CASE CallerCancels(l)
  <2> DEFINE new == [live[l] EXCEPT !.stopped = TRUE]
  <2>1. Goes(new)
    BY <1>1 DEF LiveRun
  <2>2. Put(l, new)
    BY <1>9 DEF CallerCancels
  <2>3. QED
    BY <1>2, <2>1, <2>2
<1>10. CASE Launch(l)
  <2> DEFINE new == [live[l] EXCEPT !.phase = "starting", !.setup = FALSE,
                                    !.pending = FALSE]
  <2>1. Goes(new)
    BY <1>1 DEF LiveRun, Leaving
  <2>2. Put(l, new)
    BY <1>10 DEF Launch
  <2>3. QED
    BY <1>2, <2>1, <2>2
<1>11. CASE OpenClient(l)
  <2> DEFINE new == [live[l] EXCEPT !.phase = "creating", !.client = TRUE]
  <2>1. Goes(new)
    BY <1>1 DEF LiveRun, Leaving
  <2>2. Put(l, new)
    BY <1>11 DEF OpenClient
  <2>3. QED
    BY <1>2, <2>1, <2>2
<1>12. CASE Answer(l)
  <2> DEFINE new == [live[l] EXCEPT !.phase = "completing",
                                    !.terminalizing = TRUE]
  <2>1. Goes(new)
    BY <1>1 DEF LiveRun, Leaving
  <2>2. Put(l, new)
    BY <1>12 DEF Answer
  <2>3. QED
    BY <1>2, <2>1, <2>2
<1>13. CASE HeartbeatRenews(l) \/ CleanupHeartbeatRenews(l)
  BY <1>13 DEF HeartbeatRenews, CleanupHeartbeatRenews, runtimeVars
<1>14. CASE HeartbeatEnds(l) \/ CleanupHeartbeatEnds(l) \/ CancelArrives(l)
  <2>1. PICK new :
          /\ Put(l, new)
          /\ \/ new = [live[l] EXCEPT !.heartbeat = "off"]
             \/ new = Stopping(live[l])
             \/ new = [live[l] EXCEPT !.pending = FALSE, !.stopped = TRUE]
    BY <1>14 DEF HeartbeatEnds, CleanupHeartbeatEnds, CancelArrives
  <2>2. Goes(new)
    <3>1. CASE new = [live[l] EXCEPT !.heartbeat = "off"]
      BY <1>1, <3>1 DEF LiveRun
    <3>2. CASE new = Stopping(live[l])
      BY <1>1, <3>2 DEF LiveRun, Stopping
    <3>3. CASE new = [live[l] EXCEPT !.pending = FALSE, !.stopped = TRUE]
      BY <1>1, <3>3 DEF LiveRun
    <3>4. QED
      BY <2>1, <3>1, <3>2, <3>3
  <2>3. QED
    BY <1>2, <2>1, <2>2
<1>15. QED
  BY <1>4, <1>6, <1>7, <1>8, <1>9, <1>10, <1>11, <1>12, <1>13, <1>14

LEMMA CleaningFields ==
    ASSUME NEW l \in leases, live \in [leases -> LiveRun], NEW failure,
           Put(l, Cleaning(live[l], failure))
    PROVE  /\ live'[l].phase = "closing" /\ live'[l].failure = failure
           /\ live'[l].parentCanceled = live[l].parentCanceled
<1>1. live[l] \in LiveRun /\ live'[l] = Cleaning(live[l], failure)
  BY DEF Put
<1>2. QED
  BY <1>1 DEF Cleaning, LiveRun

LEMMA GotoFields ==
    ASSUME NEW l \in leases, live \in [leases -> LiveRun], NEW next,
           Goto(l, next)
    PROVE  /\ live'[l].phase = next /\ live'[l].failure = live[l].failure
           /\ live'[l].parentCanceled = live[l].parentCanceled
<1>1. live[l] \in LiveRun /\ live'[l] = [live[l] EXCEPT !.phase = next]
  BY DEF Goto, Put
<1>2. QED
  BY <1>1 DEF LiveRun

(* The steps by which a run is on its way out, from its failure to its     *)
(* end.                                                                    *)
LEMMA LeavingRuns ==
    ASSUME RuntimeInv, ~StoreFails, ~ClockGoesBack, [RuntimeNext]_allVars,
           NEW l \in leases,
           GivenBack(l),
           \/ SetupFails(l) \/ AnswerCanceled(l) \/ Complete(l)
           \/ CompleteGivesUp(l) \/ WorkerFails(l) \/ CloseClient(l)
           \/ RecordFailure(l) \/ Salvage(l) \/ Settle(l) \/ Release(l)
           \/ CancelLiveRun(l)
    PROVE  /\ GivenBack(l)'
           /\ live'[l].phase = "abandoned" => live[l].phase = "abandoned"
<1>1. /\ live \in [leases -> LiveRun] /\ live[l] \in LiveRun /\ Inv
  BY DEF RuntimeInv, RuntimeTypeOK
<1>2. ClaimsStayOver(l)
  BY ClaimsStay
<1>3. /\ ActiveClaim(l)' => LiveClaim(l)'
      /\ ActiveClaim(l) => LiveClaim(l)
      /\ ~LiveClaim(l) => ~LiveClaim(l)' /\ ~ActiveClaim(l)'
      /\ ~ActiveClaim(l) => ~ActiveClaim(l)'
      /\ live[l].parentCanceled => ~ActiveClaim(l)
  BY <1>2 DEF ActiveClaim, ClaimsStayOver, GivenBack
<1>4. ASSUME NEW failure, Put(l, Cleaning(live[l], failure)),
             failure = "none" => ~ActiveClaim(l)'
      PROVE  GivenBack(l)' /\ live'[l].phase # "abandoned"
  <2>1. /\ live'[l].phase = "closing" /\ live'[l].failure = failure
        /\ live'[l].parentCanceled = live[l].parentCanceled
    BY <1>1, <1>4, CleaningFields
  <2>2. QED
    BY <1>3, <1>4, <2>1 DEF GivenBack
<1>5. CASE SetupFails(l) \/ AnswerCanceled(l)
  <2>1. \E failure \in {"failed", "interrupted"} :
           Put(l, Cleaning(live[l], failure))
    BY <1>5 DEF SetupFails, AnswerCanceled
  <2>2. QED
    BY <1>4, <2>1
<1>6. CASE Complete(l) \/ CompleteGivesUp(l)
  <2>1. Put(l, Cleaning(live[l], "none"))
    BY <1>6 DEF Complete, CompleteGivesUp
  <2>2. CASE Complete(l)
    <3>1. live[l].conv \in Conversations \cup {NoConversation}
      BY <1>1 DEF LiveRun
    <3>2. ~LiveClaim(l)'
      BY <1>1, <2>2, <3>1, WorkerEnds DEF Complete
    <3>3. QED
      BY <1>3, <1>4, <2>1, <3>2
  <2>3. CASE CompleteGivesUp(l)
    BY <1>4, <2>1, <2>3, GivesUpEnds DEF CompleteGivesUp
  <2>4. QED
    BY <1>6, <2>2, <2>3
<1>7. CASE WorkerFails(l)
  <2>1. \E failure \in {"failed", "interrupted", "none"} :
           /\ Put(l, Cleaning(live[l], failure))
           /\ failure = "none" => live[l].parentCanceled
    BY <1>7 DEF WorkerFails
  <2>2. QED
    BY <1>3, <1>4, <2>1
<1>8. CASE CloseClient(l)
  <2>1. /\ live[l].phase = "closing"
        /\ live'[l] = [live[l] EXCEPT !.phase = "recording",
                                      !.client = FALSE]
    BY <1>1, <1>8 DEF CloseClient, At, Put
  <2>2. /\ live'[l].phase = "recording" /\ live'[l].failure = live[l].failure
        /\ live'[l].parentCanceled = live[l].parentCanceled
    BY <1>1, <2>1 DEF LiveRun
  <2>3. QED
    BY <1>3, <2>1, <2>2 DEF GivenBack
<1>9. CASE RecordFailure(l)
  <2>1. /\ live[l].phase = "recording"
        /\ live'[l].phase = "salvaging"
        /\ live'[l].parentCanceled = live[l].parentCanceled
    BY <1>1, <1>9, GotoFields DEF RecordFailure, At
  <2>2. ~ActiveClaim(l)'
    <3>1. CASE live[l].failure = "none" \/ live[l].parentCanceled
      BY <1>3, <2>1, <3>1 DEF GivenBack
    <3>2. CASE ~(live[l].failure = "none" \/ live[l].parentCanceled)
      <4>1. live[l].failure \in {"failed", "interrupted"}
        BY <1>1, <3>2 DEF LiveRun
      <4>2. Withdraw(l, live[l].failure) \/ GivesUp(l)
        BY <1>9, <3>2 DEF RecordFailure
      <4>3. QED
        BY <1>3, <4>1, <4>2, WithdrawEnds, GivesUpEnds
    <3>3. QED
      BY <3>1, <3>2
  <2>3. QED
    BY <2>1, <2>2, <1>3 DEF GivenBack
<1>10. CASE Salvage(l)
  <2>1. /\ live[l].phase = "salvaging"
        /\ \/ Goto(l, "settling")
           \/ Goto(l, "releasing") /\ ~CancelingLease(l)
    BY <1>10 DEF Salvage, At
  <2>2. ~ActiveClaim(l)
    BY <2>1 DEF GivenBack
  <2>3. CASE Goto(l, "settling")
    <3>1. /\ live'[l].phase = "settling"
          /\ live'[l].parentCanceled = live[l].parentCanceled
      BY <1>1, <2>3, GotoFields
    <3>2. QED
      BY <1>3, <2>2, <3>1 DEF GivenBack
  <2>4. CASE Goto(l, "releasing") /\ ~CancelingLease(l)
    <3>1. /\ live'[l].phase = "releasing"
          /\ live'[l].parentCanceled = live[l].parentCanceled
      BY <1>1, <2>4, GotoFields
    <3>2. ~LiveClaim(l)
      BY <2>2, <2>4, ClaimLease
      DEF ActiveClaim, LiveClaim, HoldsClaim, Claimed, Active
    <3>3. QED
      BY <1>3, <3>1, <3>2 DEF GivenBack
  <2>5. QED
    BY <2>1, <2>3, <2>4
<1>11. CASE Settle(l)
  <2>1. /\ live[l].phase = "settling" /\ live'[l].phase = "releasing"
        /\ live'[l].parentCanceled = live[l].parentCanceled
        /\ CompleteCancel(l) \/ ~CancelingLease(l)
    BY <1>1, <1>11, GotoFields DEF Settle, At
  <2>2. ~LiveClaim(l)'
    <3>1. CASE CompleteCancel(l)
      BY <1>1, <3>1, WorkerEnds
    <3>2. CASE ~CancelingLease(l)
      <4>1. ~ActiveClaim(l)
        BY <2>1 DEF GivenBack
      <4>2. ~LiveClaim(l)
        BY <3>2, <4>1, ClaimLease
        DEF ActiveClaim, LiveClaim, HoldsClaim, Claimed, Active
      <4>3. QED
        BY <1>3, <4>2
    <3>3. QED
      BY <2>1, <3>1, <3>2
  <2>3. QED
    BY <1>3, <2>1, <2>2 DEF GivenBack
<1>12. CASE Release(l)
  <2>1. live[l].phase = "releasing" /\ live'[l] = Forgotten
    BY <1>1, <1>12 DEF Release, At, Put
  <2>2. live'[l].phase = "gone" /\ ~live'[l].parentCanceled
    BY <2>1 DEF Forgotten, NewLiveRun
  <2>3. ~LiveClaim(l)'
    BY <1>3, <2>1 DEF GivenBack
  <2>4. QED
    BY <2>2, <2>3 DEF GivenBack
<1>13. CASE CancelLiveRun(l)
  <2>1. /\ runs[l.agent][l.gen].status = "canceled"
        /\ live'[l] = [live[l] EXCEPT !.parentCanceled = TRUE,
                         !.pending = live[l].phase \in Setup \cup Runner]
    BY <1>1, <1>13 DEF CancelLiveRun, Put
  <2>2. /\ live'[l].phase = live[l].phase
        /\ live'[l].failure = live[l].failure
    BY <1>1, <2>1 DEF LiveRun
  <2>3. ~ActiveClaim(l)
    <3>1. SUFFICES ASSUME ActiveClaim(l) PROVE FALSE
      OBVIOUS
    <3>2. SettledRuns[l.agent] = runs[l.agent] /\ ActiveLease(l)
      BY <1>1, <3>1, LiveClaimSettled, ClaimLease DEF ActiveClaim
    <3>3. QED
      BY <2>1, <3>2 DEF ActiveLease, ActiveRun
  <2>4. QED
    BY <1>3, <2>2, <2>3 DEF GivenBack
<1>14. QED
  BY <1>5, <1>6, <1>7, <1>8, <1>9, <1>10, <1>11, <1>12, <1>13

(* A reservation whose caller is gone ends its own claim.                  *)
LEMMA AbandonRuns ==
    ASSUME RuntimeInv, ~StoreFails, ~ClockGoesBack, [RuntimeNext]_allVars,
           NEW l \in leases,
           AbandonUnlaunchedClaim(l)
    PROVE  GivenBack(l)' /\ LetGo(l)'
<1>1. live \in [leases -> LiveRun]
  BY DEF RuntimeInv, RuntimeTypeOK
<1>2. live'[l] = Abandoned
  BY <1>1 DEF AbandonUnlaunchedClaim, Put
<1>3. live'[l].phase = "abandoned" /\ ~live'[l].parentCanceled
  BY <1>2 DEF Abandoned, NewLiveRun
<1>4. ~ActiveClaim(l)'
  BY WithdrawEnds, GivesUpEnds DEF AbandonUnlaunchedClaim, ActiveClaim
<1>5. QED
  BY <1>3, <1>4 DEF GivenBack, LetGo

(* A run takes a step of its own, or goes on where it is, until its        *)
(* process ends.                                                           *)
LEMMA OldRuns ==
    ASSUME RuntimeInv, [RuntimeNext]_allVars, NEW l \in leases, Alive(l)'
    PROVE  /\ Alive(l)
           /\ \/ OneRun(l)
              \/ /\ live'[l].phase = live[l].phase
                 /\ live'[l].failure = live[l].failure
                 /\ live'[l].parentCanceled = live[l].parentCanceled
<1>1. /\ live \in [leases -> LiveRun] /\ live[l] \in LiveRun
      /\ session \in [Runtimes -> Session] /\ l.runtime \in Runtimes
      /\ RuntimeTypeOK /\ \A k \in leases : RunOK(live[k])
  BY DEF RuntimeInv, RuntimeTypeOK, TypeOK, Lease
<1>2. Alive(l)
  <2>1. CASE Resting(l.runtime)
    BY <2>1 DEF Resting, Alive
  <2>2. CASE ShutdownMoves(l.runtime)
    BY <2>2 DEF ShutdownMoves, BeginShutdown, Initialize, Crash, CollectTasks,
                CancelTasks, AwaitTasks, CollectReservations,
                AwaitReservations, AwaitCleanups, Interrupt, ShutdownAt, Alive
  <2>3. QED
    BY <1>1, <2>1, <2>2, SessionMoves
<1>3. ASSUME NEW r \in Runtimes, ShutdownMoves(r)
      PROVE  live'[l] \in {live[l], [live[l] EXCEPT !.stopped = TRUE]}
  <2>1. CASE Crash(r)
    <3>1. session'[r] = [NewSession EXCEPT !.up = FALSE]
      BY <1>1, <2>1 DEF Crash
    <3>2. ~session'[r].up
      BY <3>1 DEF NewSession
    <3>3. l.runtime # r
      BY <3>2 DEF Alive
    <3>4. QED
      BY <1>1, <2>1, <3>3, CrashStep
  <2>2. CASE CancelTasks(r)
    BY <1>1, <2>2, CancelTasksStep
  <2>3. CASE Interrupt(r)
    BY <1>1, <2>3, InterruptStep
  <2>4. QED
    BY <1>3, <2>1, <2>2, <2>3, ShutStep DEF RuntimeInv, ShutdownMoves
<1>4. ASSUME NEW k \in leases, OneRun(k), RunStep(k)
      PROVE  OneRun(l) \/ live'[l] = live[l]
  BY <1>1, <1>4 DEF RunStep, Put
<1>5. ASSUME NEW r \in Runtimes, NEW a \in Agents,
             \/ ReserveCommits(r, a) \/ BeginReserve(r, a)
             \/ ReserveFails(r, a)
      PROVE  live'[l] = live[l]
  BY <1>1, <1>5, ReserveStep DEF BeginReserve, ReserveFails
<1>6. CASE StoreStep \/ Tick \/ UNCHANGED allVars
  BY <1>2, <1>6, StoreStepStep DEF allVars, runtimeVars
<1>7. OneRun(l) \/ live'[l] \in {live[l], [live[l] EXCEPT !.stopped = TRUE]}
  BY <1>3, <1>4, <1>5, <1>6, RuntimeCases, StoreStepStep
  DEF allVars, runtimeVars
<1>8. CASE live'[l] \in {live[l], [live[l] EXCEPT !.stopped = TRUE]}
  BY <1>1, <1>2, <1>8 DEF LiveRun
<1>9. QED
  BY <1>2, <1>7, <1>8

(* The claim of a run that was let go keeps its process from being done:   *)
(* it is an active row, which the shutdown interrupts.                     *)
LEMMA LetGoStays ==
    ASSUME RuntimeInv, ShutdownsOK, [RuntimeNext]_allVars,
           ~EarlyInitialize, ~StoreFails, ~ClockGoesBack,
           NEW l \in leases, Alive(l)',
           live'[l].phase = "abandoned" =>
              \/ live[l].phase = "abandoned"
              \/ session[l.runtime].shuttingDown /\ session' = session,
           LetGo(l)
    PROVE  LetGo(l)'
<1> DEFINE r == l.runtime
<1>1. SUFFICES ASSUME live'[l].phase = "abandoned", ActiveClaim(l)'
               PROVE  session'[r].shuttingDown /\ session'[r].pc # "done"
  BY DEF LetGo
<1>2. /\ session \in [Runtimes -> Session] /\ r \in Runtimes
      /\ session[r] \in Session /\ l.agent \in Agents
      /\ Inv /\ LeasesAreHandedOut /\ LeasesAreUnique
  BY DEF RuntimeInv, RuntimeTypeOK, TypeOK, Lease
<1>3. ActiveClaim(l) /\ agents'[l.agent].runtime = agents[l.agent].runtime
  BY <1>1, LiveClaimIsOld DEF ActiveClaim
<1>4. agents[l.agent].runtime = r
  BY <1>2, <1>3, ClaimHolder DEF ActiveClaim, LiveClaim
<1>5. NamesActive(r, l.agent) /\ NamesActive(r, l.agent)'
  BY <1>1, <1>3, <1>4 DEF NamesActive, ActiveClaim
<1>6. session[r].pc # "done" /\ session'[r].pc # "done"
  <2>1. ShutdownOK(r) /\ ShutdownOK(r)'
    BY <1>2, NextShutdowns DEF ShutdownsOK
  <2>2. QED
    BY <1>2, <1>5, <2>1 DEF ShutdownOK
<1>7. session[r].shuttingDown
  BY <1>1, <1>3 DEF LetGo
<1>8. session'[r].shuttingDown
  <2>1. CASE Resting(r)
    BY <1>7, <2>1 DEF Resting
  <2>2. CASE BeginShutdown(r)
    BY <1>2, <2>2 DEF BeginShutdown, Shut, Session
  <2>3. CASE Initialize(r)
    <3>1. session[r].pc = "failed"
      BY <1>6, <2>3 DEF Initialize
    <3>2. StoreFails
      BY <1>2, <3>1 DEF ShutdownsOK, ShutdownOK
    <3>3. QED
      BY <3>2
  <2>4. CASE Crash(r)
    <3>1. session'[r] = [NewSession EXCEPT !.up = FALSE]
      BY <1>2, <2>4 DEF Crash
    <3>2. ~session'[r].up
      BY <3>1 DEF NewSession
    <3>3. QED
      BY <3>2 DEF Alive
  <2>5. CASE CollectTasks(r)
    BY <1>2, <1>7, <2>5 DEF CollectTasks, Shut, Session
  <2>6. CASE CancelTasks(r)
    BY <1>2, <1>7, <2>6 DEF CancelTasks, Session
  <2>7. CASE AwaitTasks(r)
    BY <1>2, <1>7, <2>7 DEF AwaitTasks, Shut, Session
  <2>8. CASE CollectReservations(r)
    BY <1>2, <1>7, <2>8 DEF CollectReservations, Shut, Session
  <2>9. CASE AwaitReservations(r)
    BY <1>2, <1>7, <2>9 DEF AwaitReservations, Shut, Session
  <2>10. CASE AwaitCleanups(r)
    BY <1>2, <1>7, <2>10 DEF AwaitCleanups, Shut, Session
  <2>11. CASE Interrupt(r)
    BY <1>2, <1>7, <2>11 DEF Interrupt, Session
  <2>12. QED
    BY <1>2, <2>1, <2>2, <2>3, <2>4, <2>5, <2>6, <2>7, <2>8, <2>9, <2>10,
       <2>11, SessionMoves
    DEF ShutdownMoves
<1>9. QED
  BY <1>6, <1>8

HandedBack(l) == Alive(l) => GivenBack(l) /\ LetGo(l)

LEMMA OldHandedBack ==
    ASSUME RuntimeInv, ShutdownsOK, [RuntimeNext]_allVars,
           ~EarlyInitialize, ~StoreFails, ~ClockGoesBack,
           NEW l \in leases, HandedBack(l)
    PROVE  HandedBack(l)'
<1>1. SUFFICES ASSUME Alive(l)' PROVE GivenBack(l)' /\ LetGo(l)'
  BY DEF HandedBack
<1>2. Alive(l) /\ GivenBack(l) /\ LetGo(l) /\ ClaimsStayOver(l)
  BY <1>1, OldRuns, ClaimsStay DEF HandedBack
<1>3. live \in [leases -> LiveRun]
  BY DEF RuntimeInv, RuntimeTypeOK
<1>4. CASE /\ live'[l].phase = live[l].phase
           /\ live'[l].failure = live[l].failure
           /\ live'[l].parentCanceled = live[l].parentCanceled
  BY <1>1, <1>2, <1>4, ForwardStep, LetGoStays
<1>5. CASE AbandonUnlaunchedClaim(l)
  BY <1>5, AbandonRuns
<1>6. CASE \/ ReserveReturns(l) \/ BeginAbandon(l) \/ PrepareClaim(l)
           \/ CallerCancels(l) \/ Acquire(l) \/ AttachFork(l) \/ Confirm(l)
           \/ Launch(l) \/ OpenClient(l) \/ CreateSession(l)
           \/ AttachSession(l) \/ StartRunning(l) \/ Answer(l)
           \/ HeartbeatRenews(l) \/ HeartbeatEnds(l)
           \/ CleanupHeartbeatRenews(l) \/ CleanupHeartbeatEnds(l)
           \/ CancelArrives(l)
  <2>1. /\ live'[l].parentCanceled => live[l].parentCanceled
        /\ \/ live'[l].phase \notin Leaving
           \/ /\ live'[l].phase = live[l].phase
              /\ live'[l].failure = live[l].failure
        /\ live'[l].phase = "abandoned" =>
              \/ live[l].phase = "abandoned"
              \/ session[l.runtime].shuttingDown /\ session' = session
    BY <1>3, <1>6, ForwardRuns
  <2>2. QED
    BY <1>1, <1>2, <2>1, ForwardStep, LetGoStays
<1>7. CASE \/ SetupFails(l) \/ AnswerCanceled(l) \/ Complete(l)
           \/ CompleteGivesUp(l) \/ WorkerFails(l) \/ CloseClient(l)
           \/ RecordFailure(l) \/ Salvage(l) \/ Settle(l) \/ Release(l)
           \/ CancelLiveRun(l)
  <2>1. /\ GivenBack(l)'
        /\ live'[l].phase = "abandoned" => live[l].phase = "abandoned"
    BY <1>2, <1>7, LeavingRuns
  <2>2. QED
    BY <1>1, <1>2, <2>1, LetGoStays
<1>8. QED
  BY <1>1, <1>4, <1>5, <1>6, <1>7, OldRuns
  DEF OneRun, OwnerStep, HeartbeatStep

HandedBacksOK == \A l \in leases : HandedBack(l)

LEMMA NextHandedBacks ==
    ASSUME RuntimeInv, ShutdownsOK, HandedBacksOK, [RuntimeNext]_allVars,
           ~EarlyInitialize, ~StoreFails, ~ClockGoesBack
    PROVE  HandedBacksOK'
<1>1. ASSUME NEW l \in leases
      PROVE  HandedBack(l)'
  BY OldHandedBack DEF HandedBacksOK
<1>2. ASSUME NEW l \in leases', l \notin leases
      PROVE  HandedBack(l)'
  <2>1. PICK r \in Runtimes, a \in Agents : ReserveCommits(r, a)
    BY <1>2, RuntimeLeases
  <2>2. PICK conv : live'[l] = NewLiveRun(conv)
    BY <1>2, <2>1, ReserveStep DEF RuntimeInv
  <2>3. live'[l].phase = "reserved" /\ ~live'[l].parentCanceled
    BY <2>2 DEF NewLiveRun
  <2>4. QED
    BY <2>3 DEF HandedBack, GivenBack, LetGo
<1>3. QED
  BY <1>1, <1>2 DEF HandedBacksOK

(* A process that lets go of a run has given its claim back, by an         *)
(* outcome, by the end of its cancellation, or by a deletion; only a run   *)
(* let go before its setup leaves its claim to the shutdown under way.  It *)
(* needs a store that takes every call made with a good lease, a host that *)
(* awaits the end of a shutdown, and a clock that is not set back: a claim *)
(* its owner saw expire and gave up would be live again.                   *)
THEOREM ForgottenClaimsAreAlwaysReleased ==
    ASSUME ~EarlyInitialize, ~StoreFails, ~ClockGoesBack
    PROVE  RuntimeSpec => []ForgottenClaimsAreReleased
<1>1. RuntimeInit => HandedBacksOK
  BY DEF RuntimeInit, Init, HandedBacksOK
<1>2. RuntimeInv /\ ShutdownsOK /\ HandedBacksOK /\ [RuntimeNext]_allVars
        => HandedBacksOK'
  BY NextHandedBacks
<1>3. RuntimeInv /\ ShutdownsOK /\ HandedBacksOK
        => ForgottenClaimsAreReleased
  <2>1. SUFFICES ASSUME RuntimeInv, ShutdownsOK, HandedBacksOK,
                        NEW l \in leases, Alive(l), LiveClaim(l)
                 PROVE  /\ live[l].phase # "gone"
                        /\ live[l].phase = "abandoned" =>
                              \/ agents[l.agent].status = "canceling"
                              \/ session[l.runtime].shuttingDown
                                   /\ session[l.runtime].pc
                                        \notin {"done", "failed"}
    BY DEF ForgottenClaimsAreReleased, LiveClaim
  <2>2. GivenBack(l) /\ LetGo(l) /\ l.runtime \in Runtimes
    BY <2>1 DEF HandedBacksOK, HandedBack, RuntimeInv, RuntimeTypeOK,
                TypeOK, Lease
  <2>3. session[l.runtime].pc # "failed"
    BY <2>1, <2>2 DEF ShutdownsOK, ShutdownOK
  <2>4. agents[l.agent].status = "canceling" \/ ActiveClaim(l)
    BY <2>1 DEF ActiveClaim, LiveClaim, HoldsClaim, Claimed, Active
  <2>5. QED
    BY <2>1, <2>2, <2>3, <2>4 DEF GivenBack, LetGo
<1>4. QED
  BY <1>1, <1>2, <1>3, ShutdownInvariant, PTL DEF RuntimeSpec

-----------------------------------------------------------------------------
(* Where a run goes from where it is, and who watches it.                  *)

(* A run records its outcome only while it abandons or completes.  A setup *)
(* whose heartbeat has ended knows what it found, and everything else that *)
(* works on a claim unwatched has been told, or will see, that it is over. *)
Watched(run) ==
    /\ run.terminalizing => run.phase \in {"abandoning", "completing"}
    /\ run.phase \in Setup /\ run.heartbeat # "claim" => run.lost
    /\ run.phase \in Setup \cup Runner =>
          \/ run.heartbeat = "claim"
          \/ run.pending \/ run.stopped
          \/ run.phase = "completing"
          \/ run.phase = "starting" /\ run.lost

(* An owned run is owned until it is forgotten and cleans up to its end;   *)
(* once launched it is not set up again; told to stop, it goes nowhere but *)
(* to its cleanup.                                                         *)
Course(old, new) ==
    /\ old.phase \in Owned \cup {"gone"}
         => new.phase \in Owned \cup {"gone"}
    /\ old.phase = "gone" => new.phase = "gone"
    /\ old.phase \in Cleanup => new.phase \in Cleanup \cup {"gone"}
    /\ old.phase \in Owned /\ ~old.setup => ~new.setup \/ new.phase = "gone"
    /\ old.phase \in Setup \cup Runner /\ old.stopped
         => new.stopped \/ new.phase \in Cleanup \cup {"gone"}
    /\ Watched(old) => Watched(new)

LEMMA GotoCourse ==
    ASSUME NEW l \in leases, live \in [leases -> LiveRun], NEW next,
           Goto(l, next),
           \/ live[l].phase = "reserved" /\ next = "prepared"
           \/ live[l].phase \in Setup /\ next \in Setup
           \/ live[l].phase \in Runner \ {"starting", "completing"}
                /\ next \in Runner \ {"starting", "completing"}
           \/ live[l].phase \in Cleanup /\ next \in Cleanup
    PROVE  Course(live[l], live'[l])
<1>1. live[l] \in LiveRun /\ live'[l] = [live[l] EXCEPT !.phase = next]
  BY DEF Goto, Put
<1>2. PICK new : new = live'[l]
  OBVIOUS
<1>3. /\ new.phase = next /\ new.setup = live[l].setup
      /\ new.heartbeat = live[l].heartbeat /\ new.lost = live[l].lost
      /\ new.pending = live[l].pending /\ new.stopped = live[l].stopped
      /\ new.terminalizing = live[l].terminalizing
  BY <1>1, <1>2 DEF LiveRun
<1>4. Course(live[l], new)
  BY <1>3 DEF Course, Watched, Owned, Setup, Runner, Cleanup
<1>5. QED
  BY <1>2, <1>4

(* A child conversation is made for a run that goes on to the next phase.  *)
Conversing(l, phase, next) ==
    /\ live[l].phase = phase
    /\ \E conv \in NewConversations :
          Put(l, [live[l] EXCEPT !.phase = next, !.conv = conv])

LEMMA ConversingCourse ==
    ASSUME NEW l \in leases, live \in [leases -> LiveRun],
           NEW phase, NEW next, Conversing(l, phase, next),
           \/ phase = "acquiring" /\ next = "attaching"
           \/ phase = "creating" /\ next = "joining"
    PROVE  Course(live[l], live'[l])
<1>1. PICK conv \in NewConversations :
        Put(l, [live[l] EXCEPT !.phase = next, !.conv = conv])
  BY Zenon DEF Conversing
<1>2. live'[l] = [live[l] EXCEPT !.phase = next, !.conv = conv]
  BY <1>1 DEF Put
<1>3. PICK new : new = live'[l]
  OBVIOUS
<1>4. live[l] \in LiveRun /\ live[l].phase = phase
  BY DEF Conversing
<1>5. /\ new.phase = next /\ new.setup = live[l].setup
      /\ new.heartbeat = live[l].heartbeat /\ new.lost = live[l].lost
      /\ new.pending = live[l].pending /\ new.stopped = live[l].stopped
      /\ new.terminalizing = live[l].terminalizing
  BY <1>2, <1>3, <1>4 DEF LiveRun
<1>6. Course(live[l], new)
  BY <1>4, <1>5 DEF Course, Watched, Owned, Setup, Runner, Cleanup
<1>7. QED
  BY <1>3, <1>6

LEMMA CleaningCourse ==
    ASSUME NEW l \in leases, live \in [leases -> LiveRun], NEW failure,
           Put(l, Cleaning(live[l], failure)),
           live[l].phase \in Setup \cup Runner
    PROVE  Course(live[l], live'[l])
<1>1. live[l] \in LiveRun /\ live'[l] = Cleaning(live[l], failure)
  BY DEF Put
<1>2. PICK new : new = live'[l]
  OBVIOUS
<1>3. /\ new.phase = "closing" /\ new.setup = live[l].setup
      /\ ~new.terminalizing
  BY <1>1, <1>2 DEF Cleaning, LiveRun
<1>4. Course(live[l], new)
  BY <1>3 DEF Course, Watched, Owned, Setup, Runner, Cleanup
<1>5. QED
  BY <1>2, <1>4

(* A run that its process forgets is watched by nobody and needs it not.   *)
LEMMA ForgottenCourse ==
    ASSUME NEW old, NEW new \in {Forgotten, Abandoned},
           new = Abandoned => old.phase \notin Owned \cup {"gone"}
    PROVE  Course(old, new)
<1>1. /\ ~new.terminalizing /\ new.phase \in {"gone", "abandoned"}
      /\ new = Forgotten => new.phase = "gone"
  BY DEF Forgotten, Abandoned, NewLiveRun
<1>2. CASE new = Abandoned
  BY <1>1, <1>2 DEF Course, Watched, Owned, Setup, Runner, Cleanup
<1>3. CASE new = Forgotten
  BY <1>1, <1>3 DEF Course, Watched, Setup, Runner
<1>4. QED
  BY <1>2, <1>3

(* Everything else that happens to a run while it stays where it is.  Its  *)
(* claim's heartbeat ends to record an outcome or by telling the run.      *)
Signaled(old, new) ==
    /\ new.phase = old.phase /\ new.setup = old.setup
    /\ new.terminalizing = old.terminalizing
    /\ old.stopped => new.stopped
    /\ old.lost => new.lost
    /\ old.phase \in Setup \cup Runner /\ (old.pending \/ old.stopped)
         => new.pending \/ new.stopped
    /\ \/ new.heartbeat = old.heartbeat
       \/ old.heartbeat = "cleanup" \/ old.terminalizing
       \/ new.lost /\ (old.phase \in Setup \cup Runner => new.pending)

LEMMA SignalCourse ==
    ASSUME NEW old, NEW new, Signaled(old, new)
    PROVE  Course(old, new)
<1>1. /\ new.phase = old.phase /\ new.setup = old.setup
      /\ old.stopped => new.stopped
  BY DEF Signaled
<1>2. ASSUME Watched(old)
      PROVE  Watched(new)
  <2>1. new.terminalizing => new.phase \in {"abandoning", "completing"}
    BY <1>2 DEF Signaled, Watched
  <2>2. new.phase \in Setup /\ new.heartbeat # "claim" => new.lost
    <3>1. old.phase \in Setup => ~old.terminalizing
      BY <1>2 DEF Watched, Setup
    <3>2. QED
      BY <1>2, <3>1 DEF Signaled, Watched
  <2>3. new.phase \in Setup \cup Runner =>
           \/ new.heartbeat = "claim"
           \/ new.pending \/ new.stopped
           \/ new.phase = "completing"
           \/ new.phase = "starting" /\ new.lost
    <3>1. old.terminalizing /\ old.phase \in Setup \cup Runner
            => old.phase = "completing"
      BY <1>2 DEF Watched, Setup, Runner
    <3>2. QED
      BY <1>2, <3>1 DEF Signaled, Watched
  <2>4. QED
    BY <2>1, <2>2, <2>3 DEF Watched
<1>3. QED
  BY <1>1, <1>2 DEF Course

LEMMA StoppedIsSignaled ==
    ASSUME NEW old \in LiveRun
    PROVE  /\ Signaled(old, old)
           /\ Signaled(old, [old EXCEPT !.stopped = TRUE])
BY DEF Signaled, LiveRun

(* What the goroutines around a run tell it.                               *)
LEMMA SignalsAreSignaled ==
    ASSUME NEW l \in leases, live \in [leases -> LiveRun],
           \/ CallerCancels(l) \/ HeartbeatStep(l) \/ CancelArrives(l)
           \/ CancelLiveRun(l)
    PROVE  Signaled(live[l], live'[l])
<1>1. live[l] \in LiveRun
  OBVIOUS
<1>2. PICK new : new = live'[l]
  OBVIOUS
<1>3. CASE CallerCancels(l)
  <2>1. new = [live[l] EXCEPT !.stopped = TRUE]
    BY <1>2, <1>3 DEF CallerCancels, Put
  <2>2. QED
    BY <1>1, <1>2, <2>1, StoppedIsSignaled
<1>4. CASE HeartbeatRenews(l) \/ CleanupHeartbeatRenews(l)
  <2>1. live'[l] = live[l]
    BY <1>4 DEF HeartbeatRenews, CleanupHeartbeatRenews, runtimeVars
  <2>2. QED
    BY <1>1, <2>1, StoppedIsSignaled
<1>5. CASE HeartbeatEnds(l)
  <2>1. \/ /\ live[l].terminalizing
           /\ new = [live[l] EXCEPT !.heartbeat = "off"]
        \/ new = Stopping(live[l])
    BY <1>2, <1>5 DEF HeartbeatEnds, Put
  <2>2. CASE /\ live[l].terminalizing
             /\ new = [live[l] EXCEPT !.heartbeat = "off"]
    <3>1. Signaled(live[l], new)
      BY <1>1, <2>2 DEF Signaled, LiveRun
    <3>2. QED
      BY <1>2, <3>1
  <2>3. CASE new = Stopping(live[l])
    <3>1. Signaled(live[l], new)
      BY <1>1, <2>3 DEF Signaled, Stopping, LiveRun
    <3>2. QED
      BY <1>2, <3>1
  <2>4. QED
    BY <2>1, <2>2, <2>3
<1>6. CASE CleanupHeartbeatEnds(l)
  <2>1. /\ live[l].heartbeat = "cleanup"
        /\ new = [live[l] EXCEPT !.heartbeat = "off"]
    BY <1>2, <1>6 DEF CleanupHeartbeatEnds, Put
  <2>2. Signaled(live[l], new)
    BY <1>1, <2>1 DEF Signaled, LiveRun
  <2>3. QED
    BY <1>2, <2>2
<1>7. CASE CancelArrives(l)
  <2>1. new = [live[l] EXCEPT !.pending = FALSE, !.stopped = TRUE]
    BY <1>2, <1>7 DEF CancelArrives, Put
  <2>2. Signaled(live[l], new)
    BY <1>1, <2>1 DEF Signaled, LiveRun
  <2>3. QED
    BY <1>2, <2>2
<1>8. CASE CancelLiveRun(l)
  <2>1. new = [live[l] EXCEPT !.parentCanceled = TRUE,
                  !.pending = live[l].phase \in Setup \cup Runner]
    BY <1>2, <1>8 DEF CancelLiveRun, Put
  <2>2. Signaled(live[l], new)
    BY <1>1, <2>1 DEF Signaled, LiveRun
  <2>3. QED
    BY <1>2, <2>2
<1>9. QED
  BY <1>3, <1>4, <1>5, <1>6, <1>7, <1>8 DEF HeartbeatStep

LEMMA RunCourse ==
    ASSUME NEW l \in leases, live \in [leases -> LiveRun], OneRun(l)
    PROVE  Course(live[l], live'[l])
<1>1. live[l] \in LiveRun
  OBVIOUS
<1>2. CASE BeginAbandon(l)
  <2>1. PICK new : new = live'[l]
    OBVIOUS
  <2>2. /\ live[l].phase = "reserved"
        /\ new = [live[l] EXCEPT !.phase = "abandoning",
                    !.terminalizing = TRUE, !.heartbeat = "claim"]
    BY <1>2, <2>1 DEF BeginAbandon, At, Put
  <2>3. new.phase = "abandoning"
    BY <1>1, <2>2 DEF LiveRun
  <2>4. Course(live[l], new)
    BY <2>2, <2>3 DEF Course, Watched, Owned, Setup, Runner, Cleanup
  <2>5. QED
    BY <2>1, <2>4
<1>3. CASE AbandonUnlaunchedClaim(l)
  <2>1. live[l].phase = "abandoning" /\ live'[l] = Abandoned
    BY <1>3 DEF AbandonUnlaunchedClaim, At, Put
  <2>2. live[l].phase \notin Owned \cup {"gone"}
    BY <2>1 DEF Owned, Setup, Runner, Cleanup
  <2>3. QED
    BY <2>1, <2>2, ForgottenCourse
<1>4. CASE PrepareClaim(l)
  <2>1. PICK new : new = live'[l]
    OBVIOUS
  <2>2. /\ live[l].phase = "prepared"
        /\ \/ new = Abandoned
           \/ new = [live[l] EXCEPT !.phase = "acquiring",
                                    !.heartbeat = "claim"]
    BY <1>4, <2>1 DEF PrepareClaim, At, Put
  <2>3. live[l].phase \notin Owned \cup {"gone"}
    BY <2>2 DEF Owned, Setup, Runner, Cleanup
  <2>4. CASE new = Abandoned
    BY <2>1, <2>3, <2>4, ForgottenCourse
  <2>5. CASE new # Abandoned
    <3>1. /\ new.phase = "acquiring" /\ new.heartbeat = "claim"
          /\ new.terminalizing = live[l].terminalizing
      BY <1>1, <2>2, <2>5 DEF LiveRun
    <3>2. Course(live[l], new)
      BY <2>2, <2>3, <3>1 DEF Course, Watched, Setup, Runner, Cleanup, Owned
    <3>3. QED
      BY <2>1, <3>2
  <2>6. QED
    BY <2>4, <2>5
<1>5. CASE \/ SetupFails(l) \/ AnswerCanceled(l) \/ Complete(l)
           \/ CompleteGivesUp(l) \/ WorkerFails(l)
  <2>1. /\ \E failure : Put(l, Cleaning(live[l], failure))
        /\ live[l].phase \in Setup \cup Runner
    BY <1>5 DEF SetupFails, AnswerCanceled, Complete, CompleteGivesUp,
                WorkerFails, At, In, Runner
  <2>2. QED
    BY <2>1, CleaningCourse
<1>6. CASE \/ ReserveReturns(l) \/ AttachFork(l) \/ Confirm(l)
           \/ AttachSession(l) \/ StartRunning(l)
           \/ RecordFailure(l) \/ Salvage(l) \/ Settle(l)
  <2>1. CASE ReserveReturns(l)
    BY <2>1, GotoCourse DEF ReserveReturns, At
  <2>2. CASE AttachFork(l) \/ Confirm(l)
    BY <2>2, GotoCourse DEF AttachFork, Confirm, At, Setup
  <2>3. CASE AttachSession(l) \/ StartRunning(l)
    BY <2>3, GotoCourse DEF AttachSession, StartRunning, At, Runner
  <2>4. CASE RecordFailure(l) \/ Salvage(l) \/ Settle(l)
    BY <2>4, GotoCourse DEF RecordFailure, Salvage, Settle, At, Cleanup
  <2>5. QED
    BY <1>6, <2>1, <2>2, <2>3, <2>4
<1>7. CASE Acquire(l) \/ CreateSession(l)
  <2>1. CASE \/ live[l].phase = "acquiring" /\ Goto(l, "confirming")
             \/ live[l].phase = "creating" /\ Goto(l, "marking")
    BY <2>1, GotoCourse DEF Setup, Runner
  <2>2. CASE \/ Conversing(l, "acquiring", "attaching")
             \/ Conversing(l, "creating", "joining")
    BY <2>2, ConversingCourse
  <2>3. CASE Acquire(l)
    BY <2>1, <2>2, <2>3, Zenon DEF Acquire, At, Conversing
  <2>4. CASE CreateSession(l)
    BY <2>1, <2>2, <2>4, Zenon DEF CreateSession, At, Conversing
  <2>5. QED
    BY <1>7, <2>3, <2>4
<1>8. CASE Launch(l)
  <2>1. PICK new : new = live'[l]
    OBVIOUS
  <2>2. /\ live[l].phase = "launching" /\ ~live[l].stopped
        /\ new = [live[l] EXCEPT !.phase = "starting", !.setup = FALSE,
                                 !.pending = FALSE]
    BY <1>8, <2>1 DEF Launch, At, Put
  <2>3. /\ new.phase = "starting" /\ ~new.setup
        /\ new.heartbeat = live[l].heartbeat /\ new.lost = live[l].lost
        /\ new.terminalizing = live[l].terminalizing
    BY <1>1, <2>2 DEF LiveRun
  <2>4. Course(live[l], new)
    BY <2>2, <2>3 DEF Course, Watched, Owned, Setup, Runner, Cleanup
  <2>5. QED
    BY <2>1, <2>4
<1>9. CASE OpenClient(l)
  <2>1. PICK new : new = live'[l]
    OBVIOUS
  <2>2. /\ live[l].phase = "starting" /\ ~live[l].lost
        /\ new = [live[l] EXCEPT !.phase = "creating", !.client = TRUE]
    BY <1>9, <2>1 DEF OpenClient, At, Put
  <2>3. /\ new.phase = "creating" /\ new.setup = live[l].setup
        /\ new.heartbeat = live[l].heartbeat
        /\ new.pending = live[l].pending /\ new.stopped = live[l].stopped
        /\ new.terminalizing = live[l].terminalizing
    BY <1>1, <2>2 DEF LiveRun
  <2>4. Course(live[l], new)
    BY <2>2, <2>3 DEF Course, Watched, Owned, Setup, Runner, Cleanup
  <2>5. QED
    BY <2>1, <2>4
<1>10. CASE Answer(l)
  <2>1. PICK new : new = live'[l]
    OBVIOUS
  <2>2. /\ live[l].phase = "running" /\ ~live[l].stopped
        /\ new = [live[l] EXCEPT !.phase = "completing",
                                 !.terminalizing = TRUE]
    BY <1>10, <2>1 DEF Answer, At, Put
  <2>3. new.phase = "completing" /\ new.setup = live[l].setup
    BY <1>1, <2>2 DEF LiveRun
  <2>4. Course(live[l], new)
    BY <2>2, <2>3 DEF Course, Watched, Owned, Setup, Runner, Cleanup
  <2>5. QED
    BY <2>1, <2>4
<1>11. CASE CloseClient(l)
  <2>1. PICK new : new = live'[l]
    OBVIOUS
  <2>2. /\ live[l].phase = "closing"
        /\ new = [live[l] EXCEPT !.phase = "recording", !.client = FALSE]
    BY <1>11, <2>1 DEF CloseClient, At, Put
  <2>3. /\ new.phase = "recording" /\ new.setup = live[l].setup
        /\ new.terminalizing = live[l].terminalizing
    BY <1>1, <2>2 DEF LiveRun
  <2>4. Course(live[l], new)
    BY <2>2, <2>3 DEF Course, Watched, Owned, Setup, Runner, Cleanup
  <2>5. QED
    BY <2>1, <2>4
<1>12. CASE Release(l)
  <2>1. live'[l] = Forgotten
    BY <1>12 DEF Release, Put
  <2>2. QED
    BY <2>1, ForgottenCourse, ForgottenRuns
<1>13. CASE \/ CallerCancels(l) \/ HeartbeatStep(l) \/ CancelArrives(l)
            \/ CancelLiveRun(l)
  <2>1. PICK new : new = live'[l]
    OBVIOUS
  <2>2. Signaled(live[l], new)
    BY <1>13, <2>1, SignalsAreSignaled
  <2>3. QED
    BY <2>1, <2>2, SignalCourse
<1>14. QED
  BY <1>2, <1>3, <1>4, <1>5, <1>6, <1>7, <1>8, <1>9, <1>10, <1>11, <1>12,
     <1>13 DEF OneRun, OwnerStep

(* Whatever happens, an old run goes its course.                           *)
LEMMA RunsGoTheirCourse ==
    ASSUME RuntimeInv, [RuntimeNext]_allVars, NEW l \in leases
    PROVE  Course(live[l], live'[l])
<1>1. /\ live \in [leases -> LiveRun] /\ live[l] \in LiveRun
      /\ RuntimeTypeOK /\ \A k \in leases : RunOK(live[k])
  BY DEF RuntimeInv, RuntimeTypeOK
<1>2. ASSUME NEW r \in Runtimes, ShutdownMoves(r)
      PROVE  live'[l] \in {live[l], [live[l] EXCEPT !.stopped = TRUE],
                           Forgotten}
  <2>1. CASE Crash(r)
    BY <1>1, <2>1, CrashStep
  <2>2. CASE CancelTasks(r)
    BY <1>1, <2>2, CancelTasksStep
  <2>3. CASE Interrupt(r)
    BY <1>1, <2>3, InterruptStep
  <2>4. QED
    BY <1>1, <1>2, <2>1, <2>2, <2>3, ShutStep DEF ShutdownMoves
<1>3. ASSUME NEW k \in leases, OneRun(k), RunStep(k)
      PROVE  OneRun(l) \/ live'[l] = live[l]
  BY <1>1, <1>3 DEF RunStep, Put
<1>4. ASSUME NEW r \in Runtimes, NEW a \in Agents,
             \/ ReserveCommits(r, a) \/ BeginReserve(r, a)
             \/ ReserveFails(r, a)
      PROVE  live'[l] = live[l]
  BY <1>1, <1>4, ReserveStep DEF BeginReserve, ReserveFails
<1>5. ASSUME StoreStep \/ Tick
      PROVE  live'[l] = live[l]
  BY <1>5, StoreStepStep
<1>6. ASSUME UNCHANGED allVars
      PROVE  live'[l] = live[l]
  BY <1>6 DEF allVars, runtimeVars
<1>7. \/ OneRun(l)
      \/ live'[l] \in {live[l], [live[l] EXCEPT !.stopped = TRUE], Forgotten}
  BY <1>2, <1>3, <1>4, <1>5, <1>6, RuntimeCases
<1>8. PICK new : new = live'[l]
  OBVIOUS
<1>9. CASE new \in {live[l], [live[l] EXCEPT !.stopped = TRUE]}
  <2>1. Signaled(live[l], new)
    BY <1>1, <1>9, StoppedIsSignaled
  <2>2. QED
    BY <1>8, <2>1, SignalCourse
<1>10. CASE new = Forgotten
  BY <1>8, <1>10, ForgottenCourse, ForgottenRuns
<1>11. CASE OneRun(l)
  BY <1>1, <1>11, RunCourse
<1>12. QED
  BY <1>7, <1>8, <1>9, <1>10, <1>11

(* A process never works on a claim that nothing watches: the heartbeat    *)
(* renews it, or the worker has been told that it is over.                 *)
THEOREM WorkersAreAlwaysWatched == RuntimeSpec => []WorkersAreWatched
<1> DEFINE AllWatched == \A l \in leases : Watched(live[l])
<1>1. RuntimeInit => AllWatched
  BY DEF RuntimeInit, Init
<1>2. ASSUME RuntimeInv, AllWatched, [RuntimeNext]_allVars
      PROVE  AllWatched'
  <2>1. SUFFICES ASSUME NEW l \in leases' PROVE Watched(live'[l])
    BY DEF Watched
  <2>2. CASE l \in leases
    BY <1>2, <2>2, RunsGoTheirCourse DEF Course
  <2>3. CASE l \notin leases
    <3>1. PICK conv : live'[l] = NewLiveRun(conv)
      BY <1>2, <2>3, RuntimeLeases, ReserveStep DEF RuntimeInv
    <3>2. Watched(NewLiveRun(conv))
      BY DEF Watched, NewLiveRun, Setup, Runner
    <3>3. QED
      BY <3>1, <3>2
  <2>4. QED
    BY <2>2, <2>3
<1>3. AllWatched => WorkersAreWatched
  BY DEF Watched, WorkersAreWatched, In
<1>4. QED
  BY <1>1, <1>2, <1>3, RuntimeInvariant, PTL DEF RuntimeSpec

(* Whoever does this run has been told to stop, or is cleaning up.         *)
Stops(run) == run.phase \in Cleanup \/ run.stopped

(* The tasks that a shutdown has collected are owned runs, or were.  A     *)
(* worker among them is not set up again.  Once the shutdown waits, the    *)
(* tasks that go on have been told to stop.                                *)
TaskStops(r, l) ==
    LET collected(kind) == <<l, kind>> \in session[r].tasks
    IN  /\ collected("setup") \/ collected("runner") =>
              /\ l \in leases /\ l.runtime = r
              /\ live[l].phase \in Owned \cup {"gone"}
        /\ collected("runner") => ~IsSetup(live[l])
        /\ session[r].pc = "await" =>
              /\ collected("setup") /\ IsSetup(live[l]) => Stops(live[l])
              /\ collected("runner") /\ IsRunner(live[l]) => Stops(live[l])

TasksStop(r) ==
    session[r].pc \in {"cancel", "await"} => \A l \in Lease : TaskStops(r, l)

(* As long as the shutdown is where it is and no task is added.            *)
LEMMA TasksGoOn ==
    ASSUME RuntimeInv, [RuntimeNext]_allVars, NEW r \in Runtimes,
           TasksStop(r), session'[r].pc = session[r].pc,
           session'[r].tasks = session[r].tasks
    PROVE  TasksStop(r)'
<1>1. SUFFICES ASSUME session[r].pc \in {"cancel", "await"}, NEW l \in Lease
               PROVE  TaskStops(r, l)'
  BY DEF TasksStop
<1>2. CASE ~(\/ <<l, "setup">> \in session[r].tasks
             \/ <<l, "runner">> \in session[r].tasks)
  BY <1>2 DEF TaskStops
<1>3. CASE \/ <<l, "setup">> \in session[r].tasks
           \/ <<l, "runner">> \in session[r].tasks
  <2>1. TaskStops(r, l) /\ l \in leases /\ l.runtime = r
    BY <1>1, <1>3 DEF TasksStop, TaskStops
  <2>2. /\ RunOK(live[l]) /\ live[l] \in LiveRun
        /\ live[l].phase \in Owned \cup {"gone"}
    BY <1>3, <2>1 DEF RuntimeInv, RuntimeTypeOK, TaskStops
  <2>3. PICK new : new = live'[l]
    OBVIOUS
  <2>4. Course(live[l], new)
    BY <2>1, <2>3, RunsGoTheirCourse
  <2>5. l \in leases'
    BY <2>1, RuntimeLeases, ReserveStep DEF RuntimeInv
  <2>6. new \in LiveRun
    BY <2>3, <2>5, NextRuns DEF RuntimeInv, RuntimeTypeOK
  <2>7. new.phase \in Owned \cup {"gone"}
    BY <2>2, <2>4 DEF Course
  <2>8. IsSetup(new) => IsSetup(live[l])
    BY <2>2, <2>4
    DEF IsSetup, Course, RunOK, Owned, Setup, Runner, Cleanup
  <2>9. IsRunner(new) => IsRunner(live[l]) \/ IsSetup(live[l])
    BY <2>2, <2>4
    DEF IsSetup, IsRunner, Course, RunOK, Owned, Setup, Runner, Cleanup
  <2>10. Stops(live[l]) => Stops(new) \/ new.phase = "gone"
    BY <2>2, <2>4 DEF Stops, Course, Owned
  <2>11. new.phase = "gone" => ~IsSetup(new) /\ ~IsRunner(new)
    BY DEF IsSetup, IsRunner, Setup, Runner, Cleanup
  <2>12. /\ IsSetup(new) = IsSetup(live'[l])
         /\ IsRunner(new) = IsRunner(live'[l])
         /\ Stops(new) = Stops(live'[l])
    BY <2>3
  <2>13. QED
    BY <2>1, <2>3, <2>5, <2>7, <2>8, <2>9, <2>10, <2>11, <2>12
    DEF TaskStops, IsSetup, IsRunner, Stops
<1>4. QED
  BY <1>2, <1>3

LEMMA CollectedTasks ==
    ASSUME RuntimeInv, NEW r \in Runtimes, NEW l
    PROVE  /\ <<l, "setup">> \in Tasks(r) <=>
                 l \in leases /\ l.runtime = r /\ IsSetup(live[l])
           /\ <<l, "runner">> \in Tasks(r) <=>
                 l \in leases /\ l.runtime = r /\ IsRunner(live[l])
<1>1. /\ <<l, "setup">> \in Tasks(r) <=> l \in SetupTasks(r)
      /\ <<l, "runner">> \in Tasks(r) <=> l \in RunnerTasks(r)
  BY DEF Tasks
<1>2. QED
  BY <1>1, TaskFacts

LEMMA CollectStops ==
    ASSUME RuntimeInv, NEW r \in Runtimes, CollectTasks(r)
    PROVE  TasksStop(r)'
<1>1. /\ session[r] \in Session /\ session \in [Runtimes -> Session]
      /\ live' = live /\ leases' = leases
  BY DEF RuntimeInv, RuntimeTypeOK, CollectTasks, Shut, NoStore, vars
<1>2. /\ session'[r].tasks = Tasks(r)
      /\ session'[r].pc = "cancel"
  BY <1>1 DEF CollectTasks, Shut, Session
<1>3. SUFFICES ASSUME NEW l \in Lease PROVE TaskStops(r, l)'
  BY DEF TasksStop
<1>4. IsSetup(live[l]) \/ IsRunner(live[l]) => live[l].phase \in Owned
  BY DEF IsSetup, IsRunner, Owned
<1>5. IsRunner(live[l]) => ~IsSetup(live[l])
  BY DEF IsSetup, IsRunner
<1>6. QED
  BY <1>1, <1>2, <1>4, <1>5, CollectedTasks
  DEF TaskStops, IsSetup, IsRunner, Stops

LEMMA CancelStops ==
    ASSUME RuntimeInv, NEW r \in Runtimes, TasksStop(r), CancelTasks(r)
    PROVE  TasksStop(r)'
<1>1. /\ session[r] \in Session /\ session \in [Runtimes -> Session]
      /\ live \in [leases -> LiveRun] /\ leases' = leases
  BY DEF RuntimeInv, RuntimeTypeOK, CancelTasks, NoStore, vars
<1>2. /\ session[r].pc = "cancel" /\ session'[r].pc = "await"
      /\ session'[r].tasks = session[r].tasks
  BY <1>1 DEF CancelTasks, ShutdownAt, Session
<1>3. SUFFICES ASSUME NEW l \in Lease PROVE TaskStops(r, l)'
  BY DEF TasksStop
<1>4. TaskStops(r, l)
  BY <1>2 DEF TasksStop
<1>5. CASE ~(\/ <<l, "setup">> \in session[r].tasks
             \/ <<l, "runner">> \in session[r].tasks)
  BY <1>2, <1>5 DEF TaskStops
<1>6. CASE \/ <<l, "setup">> \in session[r].tasks
           \/ <<l, "runner">> \in session[r].tasks
  <2>1. /\ l \in leases /\ l.runtime = r
        /\ live[l].phase \in Owned \cup {"gone"}
        /\ live[l] \in LiveRun
    BY <1>1, <1>4, <1>6 DEF TaskStops
  <2>2. PICK new : new = live'[l]
    OBVIOUS
  <2>3. new = IF \/ live[l].phase \in Setup
                    /\ <<l, "setup">> \in session[r].tasks
                 \/ live[l].phase \in Runner
                    /\ <<l, "runner">> \in session[r].tasks
              THEN [live[l] EXCEPT !.stopped = TRUE]
              ELSE live[l]
    BY <1>1, <2>1, <2>2 DEF CancelTasks, Mine
  <2>4. /\ new.phase = live[l].phase /\ new.setup = live[l].setup
        /\ \/ live[l].phase \in Setup /\ <<l, "setup">> \in session[r].tasks
           \/ live[l].phase \in Runner /\ <<l, "runner">> \in session[r].tasks
           => new.stopped
    BY <2>1, <2>3 DEF LiveRun
  <2>5. QED
    BY <1>1, <1>2, <1>4, <2>1, <2>2, <2>4
    DEF TaskStops, Stops, IsSetup, IsRunner
<1>7. QED
  BY <1>5, <1>6

LEMMA NextTasksStop ==
    ASSUME RuntimeInv, [RuntimeNext]_allVars, NEW r \in Runtimes, TasksStop(r)
    PROVE  TasksStop(r)'
<1>1. session[r] \in Session /\ session \in [Runtimes -> Session]
  BY DEF RuntimeInv, RuntimeTypeOK
<1>2. ASSUME session'[r].pc \notin {"cancel", "await"}
      PROVE  TasksStop(r)'
  BY <1>2 DEF TasksStop
<1>3. CASE Resting(r)
  BY <1>3, TasksGoOn DEF Resting
<1>4. CASE Initialize(r)
  <2>1. /\ session'[r].tasks = session[r].tasks
        /\ session'[r].pc \in {"idle", session[r].pc}
    BY <1>1, <1>4 DEF Initialize, Shut, Session
  <2>2. QED
    BY <1>2, <2>1, TasksGoOn
<1>5. CASE Crash(r)
  <2>1. session'[r] = [NewSession EXCEPT !.up = FALSE]
    BY <1>1, <1>5 DEF Crash
  <2>2. session'[r].pc = "idle"
    BY <2>1 DEF NewSession
  <2>3. QED
    BY <1>2, <2>2
<1>6. CASE BeginShutdown(r)
  BY <1>1, <1>2, <1>6 DEF BeginShutdown, Shut, Session
<1>7. CASE AwaitTasks(r)
  <2>1. PICK pc \in {"reservations", "cleanups"} :
          session'[r] = [session[r] EXCEPT !.tasks = {}, !.pc = pc]
    BY <1>1, <1>7 DEF AwaitTasks, Shut
  <2>2. session'[r].pc = pc
    BY <1>1, <2>1 DEF Session
  <2>3. QED
    BY <1>2, <2>2
<1>8. CASE CollectReservations(r)
  BY <1>1, <1>2, <1>8 DEF CollectReservations, Shut, Session
<1>9. CASE AwaitReservations(r)
  BY <1>1, <1>2, <1>9 DEF AwaitReservations, Shut, Session
<1>10. CASE AwaitCleanups(r) \/ Interrupt(r)
  BY <1>1, <1>2, <1>10 DEF AwaitCleanups, Interrupt, Shut, Session
<1>11. QED
  BY <1>3, <1>4, <1>5, <1>6, <1>7, <1>8, <1>9, <1>10, SessionMoves,
     CollectStops, CancelStops DEF ShutdownMoves

(* A shutdown never waits for a run that it has not told to stop, nor for  *)
(* one that was launched behind its back: the other half of why it ends,   *)
(* also when the host initializes a session before it is over.             *)
THEOREM ShutdownAlwaysStopsWhatItAwaits ==
    RuntimeSpec => []ShutdownStopsWhatItAwaits
<1> DEFINE AllStop == \A r \in Runtimes : TasksStop(r)
<1>1. RuntimeInit => AllStop
  BY DEF RuntimeInit, NewSession, TasksStop
<1>2. ASSUME RuntimeInv, AllStop, [RuntimeNext]_allVars
      PROVE  AllStop'
  BY <1>2, NextTasksStop
<1>3. ASSUME RuntimeInv, AllStop
      PROVE  ShutdownStopsWhatItAwaits
  <2>1. SUFFICES ASSUME NEW r \in Runtimes, session[r].pc = "await",
                        NEW task \in session[r].tasks \cap Tasks(r)
                 PROVE  Stops(live[task[1]])
    BY DEF ShutdownStopsWhatItAwaits, Stops
  <2>2. PICK l \in SetupTasks(r) \cup RunnerTasks(r) :
          task \in {<<l, "setup">>, <<l, "runner">>}
    BY DEF Tasks
  <2>3. task[1] = l /\ l \in leases /\ l \in Lease
    BY <1>3, <2>2, TaskFacts DEF RuntimeInv, Inv, TypeOK
  <2>4. TaskStops(r, l)
    BY <1>3, <2>1, <2>3 DEF TasksStop
  <2>5. QED
    BY <1>3, <2>1, <2>2, <2>3, <2>4, CollectedTasks DEF TaskStops
<1>4. QED
  BY <1>1, <1>2, <1>3, RuntimeInvariant, PTL DEF RuntimeSpec

-----------------------------------------------------------------------------
(* The processes and the store.                                            *)

(* Any number of processes, whatever dies or is canceled, do to the tables *)
(* only what the store's operations do: all that holds of AgentStore holds *)
(* of them.                                                                *)
THEOREM ProcessesRefineTheStore == RuntimeSpec => Spec
<1>1. RuntimeInit => Init
  BY DEF RuntimeInit
<1>2. RuntimeInv /\ [RuntimeNext]_allVars => [Next]_vars
  BY RuntimeIsStore DEF RuntimeInv
<1>3. QED
  BY <1>1, <1>2, RuntimeInvariant, PTL DEF RuntimeSpec, Spec

(* So the claims that processes race for are fenced, a run that is over    *)
(* stays as it was recorded, a team stays within its limits, and no two    *)
(* agents share a conversation, whichever goroutine is where.              *)
THEOREM ProcessesAreFenced ==
    RuntimeSpec => /\ FencedSpec
                   /\ TerminalRunsAreFinal
                   /\ []LimitsHold
                   /\ []ConversationsAreDistinct
BY ProcessesRefineTheStore, ClaimsAreFenced, OutcomesAreFinal,
   LimitsAlwaysHold, ConversationsStayDistinct, PTL
=============================================================================
