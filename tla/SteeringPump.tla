---------------------------- MODULE SteeringPump ----------------------------
(***************************************************************************)
(* Delivery of guidance: steer_agent puts a message on the run's queue in  *)
(* the store, and the run's steeringPump (internal/subagent/steering.go)   *)
(* hands it to the child session and takes it off the queue.  The pump is  *)
(* told to stop when the session answers or the run fails, and the worker  *)
(* records the outcome only after the pump has returned.                   *)
(*                                                                         *)
(* The store is AgentStore; of the worker, only what bears on its pump is  *)
(* here (module AgentRuntime has the rest).  A pump whose process died is  *)
(* one that takes no further step.  Each message is sent once, so that its *)
(* text identifies it.                                                     *)
(***************************************************************************)
EXTENDS AgentStore, Sequences

CONSTANTS
    Busy,           \* may the database stay busy while one acknowledges?
    MaxLostReplies  \* bound: Steers that fail although the session took the
                    \* message

ASSUME PumpAssumption == Busy \in BOOLEAN /\ MaxLostReplies \in Nat

VARIABLES
    pump,       \* the pump of each lease
    sent,       \* the messages steer_agent has queued, in order
    accepted,   \* what the session of each lease has accepted, in order
    unheard     \* the messages a session accepted in a reply that was lost

pumpVars == <<pump, sent, accepted, unheard>>
allVars == <<vars, pumpVars>>

-----------------------------------------------------------------------------
(* "replied": Steer has returned but its result was not looked at yet;     *)
(* "declined": the pump returned because the message requires a prompt.    *)
Pumping == {"polling", "delivering", "replied", "acknowledging"}
Returned == {"declined", "ended"}

Pump == [phase : {"off"} \cup Pumping \cup Returned, stopping : BOOLEAN]

NewPump == [phase |-> "off", stopping |-> FALSE]

At(l, phase) == pump[l].phase = phase
In(l, phases) == pump[l].phase \in phases
Goto(l, phase) == pump' = [pump EXCEPT ![l].phase = phase]

StoreOnly == UNCHANGED pumpVars
PumpOnly == UNCHANGED <<vars, sent, accepted, unheard>>

Held(l) == CHOOSE d \in inflight : d.lease = l

-----------------------------------------------------------------------------
(* steeringPump.                                                           *)

(* The worker starts the pump as soon as its run is marked running.        *)
StartPump(l) ==
    /\ At(l, "off")
    /\ \E conv \in Conversations : MarkRunning(l, conv)
    /\ Goto(l, "polling")
    /\ UNCHANGED <<sent, accepted, unheard>>

(* stopTask(steering), by the worker whose session answered or failed.     *)
Stop(l) ==
    /\ In(l, Pumping) /\ ~pump[l].stopping
    /\ pump' = [pump EXCEPT ![l].stopping = TRUE]
    /\ PumpOnly

(* waitForSteeringMessage; an empty queue is polled again.                 *)
Fetch(l) ==
    /\ At(l, "polling") /\ ~pump[l].stopping
    /\ NextSteering(l)
    /\ Goto(l, "delivering")
    /\ UNCHANGED <<sent, accepted, unheard>>

(* The session injects the message or starts a turn with it.  The call may *)
(* be under way when the pump is stopped.                                  *)
SessionAccepts(l) ==
    /\ At(l, "delivering")
    /\ accepted' = [accepted EXCEPT ![l] = Append(@, Held(l).text)]
    /\ Goto(l, "replied")
    /\ UNCHANGED <<vars, sent, unheard>>

(* A call that fails is repeated, also when only its reply was lost.       *)
ReplyLost(l) ==
    /\ At(l, "delivering")
    /\ Held(l) \notin unheard /\ Cardinality(unheard) < MaxLostReplies
    /\ accepted' = [accepted EXCEPT ![l] = Append(@, Held(l).text)]
    /\ unheard' = unheard \cup {Held(l)}
    /\ UNCHANGED <<vars, sent, pump>>

(* Slip: a message that requires a prompt is taken to be delivered.        *)
PromptRequiredDelivers(l) ==
    /\ At(l, "delivering") /\ ~pump[l].stopping
    /\ Goto(l, "acknowledging")
    /\ PumpOnly

PromptRequired(l) ==
    /\ At(l, "delivering") /\ ~pump[l].stopping
    /\ Goto(l, "declined")
    /\ PumpOnly

(* deliverSteeringMessage: the outcome counts unless the pump is stopping. *)
Delivered(l) ==
    /\ At(l, "replied") /\ ~pump[l].stopping
    /\ Goto(l, "acknowledging")
    /\ PumpOnly

(* Slip: a pump that is told to stop while it delivers does not notice.    *)
EndStoppedWhilePolling(l) ==
    /\ At(l, "polling") /\ pump[l].stopping
    /\ Goto(l, "ended")
    /\ PumpOnly

(* Every wait of a stopping pump, and every reply it gets, ends it.        *)
EndStopped(l) ==
    /\ In(l, {"polling", "delivering", "replied"})
    /\ pump[l].stopping
    /\ Goto(l, "ended")
    /\ PumpOnly

(* Slip: an acknowledgement that found the database busy is given up.      *)
AcknowledgeOnce(l) ==
    /\ At(l, "acknowledging")
    /\ AcknowledgeSteering(l) \/ UNCHANGED vars
    /\ Goto(l, "polling")
    /\ UNCHANGED <<sent, accepted, unheard>>

(* acknowledgeSteeringMessage tries at least once, stopping or not.        *)
Acknowledge(l) ==
    /\ At(l, "acknowledging")
    /\ AcknowledgeSteering(l)
    /\ Goto(l, "polling")
    /\ UNCHANGED <<sent, accepted, unheard>>

(* A busy database is tried again unless the pump is stopping.             *)
AcknowledgeGivesUp(l) ==
    /\ At(l, "acknowledging")
    /\ Busy /\ pump[l].stopping
    /\ Goto(l, "ended")
    /\ PumpOnly

(* Slip: only a follow-up is noticed, not an expiry or a cancellation.     *)
EndLostToFollowup(l) ==
    /\ In(l, {"polling", "acknowledging"})
    /\ agents[l.agent].gen # l.gen
    /\ Goto(l, "ended")
    /\ PumpOnly

(* handleSteeringStoreError: the lease is lost.                            *)
EndLost(l) ==
    /\ In(l, {"polling", "acknowledging"})
    /\ ~ActiveLease(l)
    /\ Goto(l, "ended")
    /\ PumpOnly

-----------------------------------------------------------------------------
(* The rest of the system, as far as the pump can tell.                    *)

(* EnqueueSteering, for a text that was not sent before.                   *)
Steer(a, text) ==
    /\ text \notin {sent[i] : i \in DOMAIN sent}
    /\ EnqueueSteering(a, text)
    /\ sent' = Append(sent, text)
    /\ UNCHANGED <<pump, accepted, unheard>>

(* spawn and followup: a new lease, whose pump has not started.            *)
NewRun ==
    /\ \E a \in Agents, runtime \in Runtimes :
          \/ \E owner \in Owners : Create(runtime, owner, a)
          \/ Claim(runtime, a)
    /\ pump' = [l \in leases' |-> IF l \in leases THEN pump[l] ELSE NewPump]
    /\ accepted' = [l \in leases' |-> IF l \in leases THEN accepted[l] ELSE <<>>]
    /\ UNCHANGED <<sent, unheard>>

(* The worker, or its cleanup, ends the run when the pump has returned.    *)
RunEnds(l) ==
    /\ In(l, {"off"} \cup Returned)
    /\ \/ \E status \in DOMAIN RunStatusOf, report \in Reports :
             Terminal(l, status, NoConversation, report)
       \/ CompleteCancel(l)
    /\ StoreOnly

(* Heartbeats, cancellations, shutdowns and expiries come at any time.     *)
StoreStep ==
    /\ \/ \E l \in leases : Heartbeat(l) \/ HeartbeatCanceling(l)
       \/ \E a \in Agents : CancelActive(a) \/ CancelInactive(a)
       \/ \E runtime \in Runtimes, report \in Reports :
             InterruptRuntime(runtime, report)
       \/ Reconcile
       \/ SetClock
    /\ StoreOnly

-----------------------------------------------------------------------------
(* The specification.                                                      *)

PumpInit ==
    /\ Init
    /\ pump = [l \in {} |-> NewPump]
    /\ sent = <<>>
    /\ accepted = [l \in {} |-> <<>>]
    /\ unheard = {}

(* What the pump does by itself, and the session's reply.                  *)
PumpStep(l) ==
    \/ Fetch(l) \/ Delivered(l) \/ EndStopped(l)
    \/ Acknowledge(l) \/ AcknowledgeGivesUp(l) \/ EndLost(l)
    \/ SessionAccepts(l) \/ PromptRequired(l)

PumpNext ==
    \/ \E l \in leases :
          PumpStep(l) \/ StartPump(l) \/ Stop(l) \/ ReplyLost(l) \/ RunEnds(l)
    \/ \E a \in Agents, text \in Messages : Steer(a, text)
    \/ NewRun
    \/ StoreStep

PumpSpec == PumpInit /\ [][PumpNext]_allVars

(* The pump's goroutine is scheduled and Steer returns in the end.         *)
PumpFairness ==
    \A l \in Lease : WF_allVars(l \in leases /\ PumpStep(l))

FairPumpSpec == PumpSpec /\ PumpFairness

-----------------------------------------------------------------------------
(* Properties.                                                             *)

(* Every lease has a pump and a record of what its session accepted.       *)
PumpTypeOK ==
    /\ TypeOK
    /\ pump \in [leases -> Pump]
    /\ sent \in Seq(Messages)
    /\ accepted \in [leases -> Seq(Messages)]
    /\ unheard \subseteq Delivery

Accepted(l, text) == \E i \in DOMAIN accepted[l] : accepted[l][i] = text

(* "deleting each message only after the session accepts it"               *)
(* (steering.go:12-13): whatever races with the delivery, a message leaves *)
(* the queue only if some run's session accepted it or the agent was       *)
(* canceled.                                                               *)
DeletedOnlyIfAccepted ==
    [][\A m \in steering :
          \/ \E n \in steering' : n.agent = m.agent /\ n.text = m.text
          \/ \E l \in leases : l.agent = m.agent /\ Accepted(l, m.text)
          \/ agents'[m.agent].status \in {"canceling", "canceled"}]_allVars

Position(text) == CHOOSE i \in DOMAIN sent : sent[i] = text

(* A session is given its guidance in the order it was sent, also what a   *)
(* follow-up inherits, whatever is retried, repeated or reuses a row id.   *)
DeliveredInOrder ==
    \A l \in leases : \A i, j \in DOMAIN accepted[l] :
        i <= j => Position(accepted[l][i]) <= Position(accepted[l][j])

(* A session is given a message again only when its reply to it was lost,  *)
(* and then at once: what comes in between was never sent to it.  (A       *)
(* follow-up may repeat a message in the session of its own run.)          *)
DeliveredOnce ==
    \A l \in leases : \A i, j \in DOMAIN accepted[l] :
        i < j /\ accepted[l][i] = accepted[l][j] =>
            j = i + 1 /\ \E d \in unheard : d.lease = l /\ d.text = accepted[l][i]

QueuedFor(l, text) ==
    l \in leases /\ \E m \in Queue(l.agent, l.gen) : m.text = text

(* Guidance for a run whose pump works reaches its session, unless the     *)
(* pump returns or the message is canceled or left to a follow-up first.   *)
GuidanceArrives ==
    \A l \in Lease, text \in Messages :
        (QueuedFor(l, text) /\ In(l, Pumping))
          ~> (QueuedFor(l, text) => Accepted(l, text) \/ In(l, Returned))

(* A pump that is told to stop returns, so that stopTask does.             *)
StoppedPumpsReturn ==
    \A l \in Lease :
        (l \in leases /\ pump[l].stopping) ~> (l \in leases /\ In(l, Returned))

(* "The message was delivered, so record that even if the pump stops"      *)
(* (steering.go:88): once the pump has returned, no message its session    *)
(* accepted is still queued for the run, provided the claim still stands.  *)
DeliveryIsRecorded ==
    \A l \in leases :
        At(l, "ended") /\ ActiveLease(l) =>
            \A m \in Queue(l.agent, l.gen) : ~Accepted(l, m.text)
=============================================================================
