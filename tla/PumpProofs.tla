----------------------------- MODULE PumpProofs -----------------------------
(***************************************************************************)
(* Proofs about SteeringPump for all values of its constants: a session is *)
(* given its guidance in the order it was sent, each message once but for  *)
(* replies that were lost, and none is deleted that was not accepted.      *)
(*                                                                         *)
(* The store's part is GuidanceProofs.  Here the order in which messages   *)
(* were sent, Before, is followed through the queue, the message a pump    *)
(* holds and what its session has accepted: while the claim is held, what  *)
(* was accepted was sent before what is held, and that before the rest of  *)
(* the queue.                                                              *)
(***************************************************************************)
EXTENDS SteeringPump, GuidanceProofs, FencedProofs

-----------------------------------------------------------------------------
(* The order in which messages were sent.                                  *)

Sent == {sent[i] : i \in DOMAIN sent}

Before(t, u) ==
    \E i, j \in DOMAIN sent : i < j /\ sent[i] = t /\ sent[j] = u

SentOnce == \A i, j \in DOMAIN sent : sent[i] = sent[j] => i = j

LEMMA Positions ==
    ASSUME sent \in Seq(Messages)
    PROVE  \A i \in DOMAIN sent : i \in Nat /\ sent[i] \in Messages
OBVIOUS

LEMMA BeforeIsStrict ==
    ASSUME sent \in Seq(Messages), SentOnce, NEW t, Before(t, t)
    PROVE  FALSE
<1>1. PICK i, j \in DOMAIN sent : i < j /\ sent[i] = t /\ sent[j] = t
  BY DEF Before
<1>2. i = j
  BY <1>1 DEF SentOnce
<1>3. QED
  BY <1>1, <1>2, Positions

LEMMA BeforeIsTransitive ==
    ASSUME sent \in Seq(Messages), SentOnce, NEW t, NEW u, NEW v,
           Before(t, u), Before(u, v)
    PROVE  Before(t, v)
<1>1. PICK i, j \in DOMAIN sent : i < j /\ sent[i] = t /\ sent[j] = u
  BY DEF Before
<1>2. PICK k, n \in DOMAIN sent : k < n /\ sent[k] = u /\ sent[n] = v
  BY DEF Before
<1>3. j = k
  BY <1>1, <1>2 DEF SentOnce
<1>4. i < n
  BY <1>1, <1>2, <1>3, Positions
<1>5. QED
  BY <1>1, <1>2, <1>4 DEF Before

(* What a step may do to the order: no message changes its place.          *)
OrderKept == \A t, u : Before(t, u) => Before(t, u)'

LEMMA NoneSent ==
    ASSUME sent' = sent
    PROVE  /\ OrderKept /\ Sent' = Sent
           /\ SentOnce => SentOnce'
BY DEF OrderKept, Before, Sent, SentOnce

(* A new message comes after all others.                                   *)
LEMMA OneSent ==
    ASSUME sent \in Seq(Messages), SentOnce, NEW text \in Messages,
           text \notin Sent, sent' = Append(sent, text)
    PROVE  /\ sent' \in Seq(Messages)
           /\ OrderKept /\ Sent \subseteq Sent' /\ text \in Sent' /\ SentOnce'
           /\ \A t \in Sent : Before(t, text)'
<1> DEFINE n == Len(sent) + 1
<1>1. /\ sent' \in Seq(Messages)
      /\ Len(sent) \in Nat
      /\ DOMAIN sent = 1 .. Len(sent) /\ DOMAIN sent' = 1 .. n
      /\ sent'[n] = text
      /\ \A i \in 1 .. Len(sent) : sent'[i] = sent[i]
  OBVIOUS
<1>2. /\ DOMAIN sent \subseteq DOMAIN sent' /\ n \in DOMAIN sent'
      /\ \A i \in DOMAIN sent : i < n /\ sent'[i] = sent[i]
      /\ \A i \in DOMAIN sent' : i # n => i \in DOMAIN sent
  BY <1>1
<1> HIDE DEF n
<1>3. OrderKept
  BY <1>2 DEF OrderKept, Before
<1>4. Sent \subseteq Sent' /\ text \in Sent'
  BY <1>1, <1>2 DEF Sent
<1>5. SentOnce'
  <2>1. SUFFICES ASSUME NEW i \in DOMAIN sent', NEW j \in DOMAIN sent',
                        sent'[i] = sent'[j]
                 PROVE  i = j
    BY DEF SentOnce
  <2>2. \A k \in DOMAIN sent : sent'[k] # text
    BY <1>2 DEF Sent
  <2>3. i = n <=> j = n
    BY <1>1, <1>2, <2>1, <2>2
  <2>4. QED
    BY <1>2, <2>1, <2>3 DEF SentOnce
<1>6. \A t \in Sent : Before(t, text)'
  BY <1>1, <1>2 DEF Sent, Before
<1>7. QED
  BY <1>1, <1>3, <1>4, <1>5, <1>6

LEMMA PositionOf ==
    ASSUME SentOnce, NEW i \in DOMAIN sent
    PROVE  Position(sent[i]) = i
BY DEF SentOnce, Position

LEMMA BeforePositions ==
    ASSUME sent \in Seq(Messages), SentOnce, NEW t, NEW u, Before(t, u)
    PROVE  Position(t) <= Position(u)
<1>1. PICK i, j \in DOMAIN sent : i < j /\ sent[i] = t /\ sent[j] = u
  BY DEF Before
<1>2. i \in Nat /\ j \in Nat
  BY Positions
<1>3. Position(t) = i /\ Position(u) = j
  BY <1>1, PositionOf
<1>4. QED
  BY <1>1, <1>2, <1>3

LEMMA SamePosition ==
    ASSUME sent \in Seq(Messages), SentOnce, NEW t \in Sent
    PROVE  Position(t) <= Position(t)
<1>1. PICK i \in DOMAIN sent : sent[i] = t
  BY DEF Sent
<1>2. i \in Nat /\ Position(t) = i
  BY <1>1, Positions, PositionOf
<1>3. QED
  BY <1>2

-----------------------------------------------------------------------------
(* The inductive invariant.                                                *)

AllSent ==
    /\ \A m \in steering : m.text \in Sent
    /\ \A d \in inflight : d.text \in Sent
    /\ \A l \in leases : \A i \in DOMAIN accepted[l] : accepted[l][i] \in Sent

(* Row ids come back, but only those of rows after all that are queued.    *)
QueuedInOrder ==
    \A m, n \in steering : m.id < n.id => Before(m.text, n.text)

(* A repetition of what a session accepted in a reply that was lost.       *)
Repeats(l, text) == \E d \in unheard : d.lease = l /\ d.text = text

(* The pump holds d, the first of its queue, and the session has been      *)
(* given what was sent before d, and d itself last.                        *)
Carries(l, d) ==
    /\ d.lease = l
    /\ Holding(l) => \A m \in Queue(l.agent, l.gen) : d.id <= m.id
    /\ At(l, "delivering") =>
          \A i \in DOMAIN accepted[l] :
             \/ Before(accepted[l][i], d.text)
             \/ /\ i = Len(accepted[l]) /\ accepted[l][i] = d.text
                /\ d \in unheard
    /\ In(l, {"replied", "acknowledging"}) =>
          /\ Accepted(l, d.text)
          /\ \A i \in DOMAIN accepted[l] :
                accepted[l][i] = d.text \/ Before(accepted[l][i], d.text)

(* Between two messages the session has been given all that was sent       *)
(* before the rest of the queue.                                           *)
Ready(l) ==
    Holding(l) =>
        \A m \in Queue(l.agent, l.gen), i \in DOMAIN accepted[l] :
            Before(accepted[l][i], m.text)

InOrder(l) ==
    \A i, j \in DOMAIN accepted[l] : i < j =>
        \/ Before(accepted[l][i], accepted[l][j])
        \/ /\ j = i + 1 /\ accepted[l][i] = accepted[l][j]
           /\ Repeats(l, accepted[l][i])

PumpOK(l) ==
    /\ At(l, "off") => accepted[l] = <<>>
    /\ At(l, "polling") => Ready(l)
    /\ In(l, {"delivering", "replied", "acknowledging"}) =>
          \E d \in inflight : Carries(l, d)
    /\ InOrder(l)

PumpInv ==
    /\ Inv /\ GuidanceInv /\ PumpTypeOK
    /\ SentOnce /\ AllSent /\ QueuedInOrder
    /\ \A l \in leases : PumpOK(l)

-----------------------------------------------------------------------------
(* The pump's steps are the store's, as far as the store can tell.         *)

LEMMA PumpIsStore ==
    ASSUME [PumpNext]_allVars
    PROVE  [Next]_vars
<1>1. ASSUME NEW l \in leases,
             PumpStep(l) \/ StartPump(l) \/ Stop(l) \/ ReplyLost(l)
                \/ RunEnds(l)
      PROVE  WorkerStep(l) \/ UNCHANGED vars
  <2>1. CASE Fetch(l) \/ Acknowledge(l) \/ StartPump(l) \/ RunEnds(l)
    BY <2>1 DEF Fetch, Acknowledge, StartPump, RunEnds, WorkerStep
  <2>2. CASE ~(Fetch(l) \/ Acknowledge(l) \/ StartPump(l) \/ RunEnds(l))
    BY <1>1, <2>2
    DEF PumpStep, Delivered, EndStopped, AcknowledgeGivesUp, EndLost,
        SessionAccepts, PromptRequired, Stop, ReplyLost, PumpOnly
  <2>3. QED
    BY <2>1, <2>2
<1>2. ASSUME NEW a \in Agents, NEW text \in Messages, Steer(a, text)
      PROVE  ParentStep(a)
  BY <1>2 DEF Steer, ParentStep
<1>3. ASSUME NewRun PROVE \E a \in Agents : ParentStep(a)
  BY <1>3 DEF NewRun, ParentStep
<1>4. ASSUME StoreStep PROVE Next
  BY <1>4 DEF StoreStep, Next, ParentStep, WorkerStep
<1>5. CASE UNCHANGED allVars
  BY <1>5 DEF allVars
<1>6. CASE PumpNext
  BY <1>1, <1>2, <1>3, <1>4, <1>6 DEF PumpNext, Next
<1>7. QED
  BY <1>5, <1>6

(* Every step keeps the pumps, the messages and what was accepted typed.   *)
LEMMA PhasePumpType ==
    ASSUME PumpTypeOK, leases' = leases, NEW l \in leases,
           NEW phase \in {"off"} \cup Pumping \cup Returned, Goto(l, phase)
    PROVE  pump' \in [leases' -> Pump]
<1>1. pump[l] \in Pump
  BY DEF PumpTypeOK
<1>2. [pump[l] EXCEPT !.phase = phase] \in Pump
  BY <1>1 DEF Pump
<1>3. pump' = [pump EXCEPT ![l] = [pump[l] EXCEPT !.phase = phase]]
  BY DEF Goto
<1>4. QED
  BY <1>2, <1>3 DEF PumpTypeOK

LEMMA AcceptType ==
    ASSUME PumpTypeOK, NEW l \in leases, NEW text \in Messages,
           accepted' = [accepted EXCEPT ![l] = Append(@, text)]
    PROVE  accepted' \in [leases -> Seq(Messages)]
BY DEF PumpTypeOK

LEMMA HeldMessage ==
    ASSUME PumpTypeOK, NEW l, NEW e \in inflight, e.lease = l
    PROVE  /\ Held(l) \in inflight /\ Held(l).lease = l
           /\ Held(l) \in Delivery /\ Held(l).text \in Messages
<1>1. Held(l) \in inflight /\ Held(l).lease = l
  BY DEF Held
<1>2. QED
  BY <1>1 DEF PumpTypeOK, TypeOK, Delivery

-----------------------------------------------------------------------------
(* The claims of old leases.                                               *)

(* A step makes no lease of an earlier run the agent's claim again.        *)
LEMMA HoldingIsOld ==
    ASSUME Inv, GuidanceInv, [Next]_vars, NEW l \in leases, Holding(l)'
    PROVE  Holding(l)
<1>1. l.agent \in Agents /\ l.gen \in Generations
  BY DEF Inv, TypeOK, Lease
<1>2. CASE agents' = agents
  BY <1>2 DEF Holding
<1>3. CASE Continues(l.agent)
  BY <1>3, ContinuesHolding
<1>4. ASSUME Claims(l.agent) PROVE FALSE
  <2>1. /\ SettledAgents[l.agent].status \in Claimable \cup {"unused"}
        /\ l.gen = SettledAgents[l.agent].gen + 1
    BY <1>4 DEF Claims, Holding
  <2>2. /\ agents[l.agent].gen = SettledAgents[l.agent].gen
        /\ agents[l.agent].gen \in Nat
        /\ agents[l.agent].status # "deleted"
    <3>1. CASE agents[l.agent].status \in Absent
      BY <1>1, <2>1, <3>1, AbsentSettled
      DEF Claimable, Inv, TypeOK, AgentRow
    <3>2. CASE agents[l.agent].status \notin Absent
      BY <1>1, <3>2, SettledKeeps DEF Absent, Inv, TypeOK, AgentRow
    <3>3. QED
      BY <3>1, <3>2
  <2>3. l.gen <= agents[l.agent].gen
    BY <2>2 DEF GuidanceInv, LeaseOK
  <2>4. QED
    BY <2>1, <2>2, <2>3
<1>5. ASSUME NEW a \in Agents, Claims(a),
             \A b \in Agents \ {a} : agents'[b] = SettledAgents[b]
      PROVE  Continues(l.agent)
  BY <1>1, <1>4, <1>5, UntouchedContinues
<1>6. QED
  BY <1>1, <1>2, <1>3, <1>5, NextRows

(* A message that comes after all others, in the queue and in the order.   *)
Last(m) ==
    /\ \A n \in steering : n.id <= m.id
    /\ \A t \in Sent : Before(t, m.text)'

(* What the queue of a claim may gain.                                     *)
QueueKept(l) ==
    Holding(l)' =>
        /\ Holding(l)
        /\ \A m \in Queue(l.agent, l.gen)' :
              m \in Queue(l.agent, l.gen) \/ Last(m)

(* A pump that goes no further than to look at a reply or to return is     *)
(* undisturbed by what happens to the queue.                               *)
LEMMA PumpStays ==
    ASSUME GuidanceInv, AllSent, NEW l \in leases, PumpOK(l), QueueKept(l),
           accepted'[l] = accepted[l],
           \/ pump'[l].phase = pump[l].phase
           \/ At(l, "replied") /\ pump'[l].phase = "acknowledging"
           \/ pump'[l].phase \in Returned,
           \A d \in inflight : d.lease = l => d \in inflight',
           unheard \subseteq unheard', OrderKept
    PROVE  PumpOK(l)'
<1>1. At(l, "off")' => accepted'[l] = <<>>
  BY DEF PumpOK, At, Returned
<1>2. ASSUME At(l, "polling")' PROVE Ready(l)'
  <2>1. Ready(l)
    BY <1>2 DEF At, Returned, PumpOK
  <2>2. SUFFICES ASSUME Holding(l)', NEW m \in Queue(l.agent, l.gen)',
                        NEW i \in DOMAIN accepted[l]
                 PROVE  Before(accepted[l][i], m.text)'
    BY DEF Ready
  <2>3. CASE m \in Queue(l.agent, l.gen)
    BY <2>1, <2>2, <2>3 DEF QueueKept, Ready, OrderKept
  <2>4. CASE Last(m)
    BY <2>4 DEF Last, AllSent
  <2>5. QED
    BY <2>2, <2>3, <2>4 DEF QueueKept
<1>3. ASSUME In(l, {"delivering", "replied", "acknowledging"})'
      PROVE  \E d \in inflight' : Carries(l, d)'
  <2>1. PICK d \in inflight : Carries(l, d)
    BY <1>3 DEF In, At, Returned, PumpOK
  <2>2. d \in inflight' /\ d.lease = l
    BY <2>1 DEF Carries
  <2>3. ASSUME Holding(l)', NEW m \in Queue(l.agent, l.gen)'
        PROVE  d.id <= m.id
    <3>1. CASE m \in Queue(l.agent, l.gen)
      BY <2>1, <2>3, <3>1 DEF QueueKept, Carries
    <3>2. CASE Last(m)
      <4>1. RowOf(d) \in steering
        BY <2>2, <2>3 DEF QueueKept, GuidanceInv, DeliveryOK
      <4>2. RowOf(d).id = d.id
        BY DEF RowOf
      <4>3. QED
        BY <3>2, <4>1, <4>2 DEF Last
    <3>3. QED
      BY <2>3, <3>1, <3>2 DEF QueueKept
  <2>4. ASSUME At(l, "delivering")', NEW i \in DOMAIN accepted[l]
        PROVE  \/ Before(accepted[l][i], d.text)'
               \/ /\ i = Len(accepted[l]) /\ accepted[l][i] = d.text
                  /\ d \in unheard'
    <3>1. At(l, "delivering")
      BY <2>4 DEF At, Returned
    <3>2. QED
      BY <2>1, <2>4, <3>1 DEF Carries, OrderKept
  <2>5. ASSUME In(l, {"replied", "acknowledging"})'
        PROVE  /\ Accepted(l, d.text)
               /\ \A i \in DOMAIN accepted[l] :
                     \/ accepted[l][i] = d.text
                     \/ Before(accepted[l][i], d.text)'
    <3>1. In(l, {"replied", "acknowledging"})
      BY <2>5 DEF In, At, Returned
    <3>2. QED
      BY <2>1, <3>1 DEF Carries, OrderKept
  <2>6. Accepted(l, d.text)' <=> Accepted(l, d.text)
    BY DEF Accepted
  <2>7. Carries(l, d)'
    BY <2>2, <2>3, <2>4, <2>5, <2>6 DEF Carries
  <2>8. QED
    BY <2>2, <2>7
<1>4. InOrder(l)'
  BY DEF PumpOK, InOrder, Repeats, OrderKept
<1>5. QED
  BY <1>1, <1>2, <1>3, <1>4 DEF PumpOK

-----------------------------------------------------------------------------
(* The steps of one pump and its session.                                  *)

(* What a step of one pump, or of none, leaves alone.                      *)
OthersStay(l) ==
    /\ sent' = sent /\ leases' = leases
    /\ \A m \in steering' : m \in steering
    /\ unheard \subseteq unheard'
    /\ \A k \in leases \ {l} :
          pump'[k].phase = pump[k].phase /\ accepted'[k] = accepted[k]

(* Then the order and the other pumps stay as they are.                    *)
LEMMA OthersOK ==
    ASSUME PumpInv, Inv', PumpTypeOK', [Next]_vars, NEW l, OthersStay(l),
           AllSent',
           \A d \in inflight : d.lease # l => d \in inflight',
           l \in leases => PumpOK(l)'
    PROVE  PumpInv'
<1>1. Inv /\ GuidanceInv /\ AllSent
  BY DEF PumpInv
<1>2. GuidanceInv'
  BY <1>1, NextGuidance
<1>3. OrderKept /\ SentOnce'
  BY NoneSent DEF OthersStay, PumpInv
<1>4. QueuedInOrder'
  BY <1>3 DEF OthersStay, PumpInv, QueuedInOrder, OrderKept
<1>5. ASSUME NEW k \in leases, k # l
      PROVE  PumpOK(k)'
  <2>1. QueueKept(k)
    BY <1>1, HoldingIsOld DEF QueueKept, Queue, OthersStay
  <2>2. PumpOK(k)
    BY DEF PumpInv
  <2>3. QED
    BY <1>1, <1>3, <1>5, <2>1, <2>2, PumpStays DEF OthersStay
<1>6. \A k \in leases' : PumpOK(k)'
  BY <1>5 DEF OthersStay
<1>7. QED
  BY <1>2, <1>3, <1>4, <1>6 DEF PumpInv

(* A step that changes neither the store nor what was accepted.            *)
LEMMA PhaseOK ==
    ASSUME PumpInv, PumpOnly, NEW l \in leases,
           NEW next \in Pump, pump' = [pump EXCEPT ![l] = next],
           \/ next.phase = pump[l].phase
           \/ At(l, "replied") /\ next.phase = "acknowledging"
           \/ next.phase \in Returned
    PROVE  PumpInv'
<1>1. /\ UNCHANGED <<now, agents, runs, steering, leases, inflight>>
      /\ UNCHANGED <<sent, accepted, unheard>>
  BY DEF PumpOnly, vars
<1>2. Inv /\ GuidanceInv /\ PumpTypeOK /\ AllSent /\ PumpOK(l)
  BY DEF PumpInv
<1>3. pump' \in [leases -> Pump] /\ pump'[l] = next
  BY <1>2 DEF PumpTypeOK
<1>4. [Next]_vars
  BY DEF PumpOnly
<1>5. Inv'
  BY <1>2, <1>4, NextInv
<1>6. PumpTypeOK'
  BY <1>1, <1>2, <1>3, <1>5 DEF PumpTypeOK, Inv
<1>7. AllSent' /\ OrderKept
  BY <1>1, NoneSent DEF PumpInv, AllSent, Sent
<1>8. QueueKept(l)
  BY <1>1 DEF QueueKept, Queue, Holding
<1>9. PumpOK(l)'
  BY <1>1, <1>2, <1>3, <1>7, <1>8, PumpStays
<1>10. OthersStay(l)
  BY <1>1, <1>2 DEF OthersStay, PumpTypeOK
<1>11. QED
  BY <1>1, <1>4, <1>5, <1>6, <1>7, <1>9, <1>10, OthersOK

LEMMA PhaseSteps ==
    ASSUME PumpInv, NEW l \in leases,
           \/ Stop(l) \/ PromptRequired(l) \/ Delivered(l) \/ EndStopped(l)
           \/ AcknowledgeGivesUp(l) \/ EndLost(l)
    PROVE  PumpInv'
<1>1. pump[l] \in Pump /\ pump \in [leases -> Pump]
  BY DEF PumpInv, PumpTypeOK
<1>2. CASE Stop(l)
  <2> DEFINE next == [pump[l] EXCEPT !.stopping = TRUE]
  <2>1. next \in Pump /\ next.phase = pump[l].phase
    BY <1>1 DEF Pump
  <2>2. pump' = [pump EXCEPT ![l] = next] /\ PumpOnly
    BY <1>2 DEF Stop
  <2> HIDE DEF next
  <2>3. QED
    BY <2>1, <2>2, PhaseOK
<1>3. ASSUME NEW phase \in Returned \cup {"acknowledging"},
             Goto(l, phase), PumpOnly,
             At(l, "replied") \/ phase \in Returned
      PROVE  PumpInv'
  <2> DEFINE next == [pump[l] EXCEPT !.phase = phase]
  <2>1. next \in Pump /\ next.phase = phase
    BY <1>1 DEF Pump, Returned, Pumping
  <2>2. pump' = [pump EXCEPT ![l] = next]
    BY <1>3 DEF Goto
  <2> HIDE DEF next
  <2>3. QED
    BY <1>3, <2>1, <2>2, PhaseOK
<1>4. "declined" \in Returned /\ "ended" \in Returned
  BY DEF Returned
<1>5. QED
  BY <1>2, <1>3, <1>4
  DEF PromptRequired, Delivered, EndStopped, AcknowledgeGivesUp, EndLost

(* What a session is given next, the message its pump holds, comes after   *)
(* all it was given, or repeats the last of them.                          *)
LEMMA AcceptInOrder ==
    ASSUME PumpInv, NEW l \in leases, NEW d \in inflight, Carries(l, d),
           At(l, "delivering"),
           accepted'[l] = Append(accepted[l], d.text),
           sent' = sent, unheard \subseteq unheard'
    PROVE  /\ accepted'[l] # <<>>
           /\ Accepted(l, d.text)'
           /\ DOMAIN accepted'[l] = 1 .. Len(accepted'[l])
           /\ accepted'[l][Len(accepted'[l])] = d.text
           /\ \A i \in DOMAIN accepted'[l] :
                 i # Len(accepted'[l]) =>
                    \/ Before(accepted'[l][i], d.text)
                    \/ accepted'[l][i] = d.text /\ d \in unheard
           /\ InOrder(l)'
           /\ \A i \in DOMAIN accepted'[l] : accepted'[l][i] \in Sent
<1> DEFINE n == Len(accepted[l])
           old == accepted[l]
           new == accepted'[l]
<1>1. old \in Seq(Messages) /\ d.text \in Messages
  BY DEF PumpInv, PumpTypeOK, Inv, TypeOK, Delivery
<1>2. /\ n \in Nat /\ DOMAIN old = 1 .. n /\ DOMAIN new = 1 .. (n + 1)
      /\ Len(new) = n + 1 /\ new[n + 1] = d.text
      /\ \A i \in 1 .. n : new[i] = old[i]
      /\ new # <<>>
  BY <1>1
<1>3. ASSUME NEW i \in 1 .. n
      PROVE  \/ Before(old[i], d.text)
             \/ /\ i = n /\ old[i] = d.text /\ d \in unheard
  BY <1>2 DEF Carries
<1>4. InOrder(l)'
  <2>1. SUFFICES ASSUME NEW i \in 1 .. (n + 1), NEW j \in 1 .. (n + 1), i < j
                 PROVE  \/ Before(new[i], new[j])
                        \/ /\ j = i + 1 /\ new[i] = new[j]
                           /\ \E e \in unheard' : e.lease = l /\ e.text = new[i]
    BY <1>2 DEF InOrder, Repeats, Before
  <2>2. i \in 1 .. n /\ new[i] = old[i]
    BY <1>2, <2>1
  <2>3. CASE j \in 1 .. n
    <3>1. new[j] = old[j]
      BY <1>2, <2>3
    <3>2. \/ Before(old[i], old[j])
          \/ j = i + 1 /\ old[i] = old[j] /\ Repeats(l, old[i])
      BY <1>2, <2>1, <2>2, <2>3 DEF PumpInv, PumpOK, InOrder
    <3>3. QED
      BY <2>2, <3>1, <3>2 DEF Repeats
  <2>4. CASE j = n + 1
    <3>1. new[j] = d.text
      BY <1>2, <2>4
    <3>2. d.lease = l
      BY DEF Carries
    <3>3. QED
      BY <1>3, <2>2, <2>4, <3>1, <3>2
  <2>5. QED
    BY <1>2, <2>3, <2>4
<1>5. \A i \in DOMAIN new : new[i] \in Sent
  BY <1>2 DEF PumpInv, AllSent
<1>7. Accepted(l, d.text)'
  BY <1>2 DEF Accepted
<1>8. \A i \in DOMAIN new : i # n + 1 =>
         \/ Before(new[i], d.text)
         \/ new[i] = d.text /\ d \in unheard
  BY <1>2, <1>3
<1>9. QED
  BY <1>2, <1>4, <1>5, <1>7, <1>8

LEMMA CarriedIsHeld ==
    ASSUME PumpInv, NEW l \in leases,
           In(l, {"delivering", "replied", "acknowledging"})
    PROVE  /\ Held(l) \in inflight /\ Carries(l, Held(l))
           /\ Held(l).lease = l
           /\ Held(l) \in Delivery /\ Held(l).text \in Messages
<1>1. PICK d \in inflight : Carries(l, d)
  BY DEF PumpInv, PumpOK
<1>2. d.lease = l
  BY <1>1 DEF Carries
<1>3. /\ Held(l) \in inflight /\ Held(l).lease = l
      /\ Held(l) \in Delivery /\ Held(l).text \in Messages
  BY <1>2, HeldMessage DEF PumpInv
<1>4. Held(l) = d
  BY <1>2, <1>3 DEF PumpInv, GuidanceInv, OneDeliveryEach
<1>5. QED
  BY <1>1, <1>3, <1>4

LEMMA AcceptsOK ==
    ASSUME PumpInv, NEW l \in leases, SessionAccepts(l) \/ ReplyLost(l)
    PROVE  PumpInv'
<1>1. PICK d \in inflight : d = Held(l) /\ Carries(l, d)
  BY CarriedIsHeld DEF SessionAccepts, ReplyLost, At, In
<1>2. /\ d \in Delivery /\ d.lease = l /\ d.text \in Messages
      /\ d.text \in Sent
  BY <1>1, CarriedIsHeld DEF SessionAccepts, ReplyLost, At, In, PumpInv,
                             AllSent
<1>3. /\ At(l, "delivering")
      /\ UNCHANGED <<now, agents, runs, steering, leases, inflight>>
      /\ sent' = sent /\ unheard \subseteq unheard'
      /\ accepted' = [accepted EXCEPT ![l] = Append(@, d.text)]
      /\ unheard' \subseteq unheard \cup {d}
  BY <1>1 DEF SessionAccepts, ReplyLost, vars
<1>4. PumpTypeOK /\ Inv /\ [Next]_vars
  BY <1>3 DEF PumpInv, vars
<1>5. Inv'
  BY <1>4, NextInv
<1>6. /\ accepted'[l] = Append(accepted[l], d.text)
      /\ \A k \in leases \ {l} : accepted'[k] = accepted[k]
  BY <1>3, <1>4 DEF PumpTypeOK
<1>7. /\ accepted'[l] # <<>>
      /\ Accepted(l, d.text)'
      /\ DOMAIN accepted'[l] = 1 .. Len(accepted'[l])
      /\ accepted'[l][Len(accepted'[l])] = d.text
      /\ \A i \in DOMAIN accepted'[l] :
            i # Len(accepted'[l]) =>
               \/ Before(accepted'[l][i], d.text)
               \/ accepted'[l][i] = d.text /\ d \in unheard
      /\ InOrder(l)'
      /\ \A i \in DOMAIN accepted'[l] : accepted'[l][i] \in Sent
  BY <1>1, <1>3, <1>6, AcceptInOrder
<1>9. AllSent'
  <2>1. Sent' = Sent
    BY <1>3 DEF Sent
  <2>2. QED
    BY <1>3, <1>6, <1>7, <2>1 DEF PumpInv, AllSent
<1>10. OrderKept
  BY <1>3, NoneSent
<1>11. /\ pump' \in [leases' -> Pump]
       /\ \A k \in leases \ {l} : pump'[k] = pump[k]
       /\ \/ SessionAccepts(l) /\ pump'[l].phase = "replied"
          \/ ReplyLost(l) /\ pump' = pump /\ d \in unheard' \ unheard
  <2>1. CASE SessionAccepts(l)
    <3>1. Goto(l, "replied")
      BY <2>1 DEF SessionAccepts
    <3>2. pump'[l].phase = "replied" /\ pump[l] \in Pump
      BY <1>4, <3>1 DEF Goto, PumpTypeOK, Pump
    <3>3. pump' \in [leases' -> Pump]
      BY <1>3, <1>4, <3>1, PhasePumpType DEF Pumping
    <3>4. QED
      BY <1>4, <2>1, <3>1, <3>2, <3>3 DEF Goto, PumpTypeOK
  <2>2. CASE ReplyLost(l)
    BY <1>1, <1>3, <1>4, <2>2 DEF ReplyLost, PumpTypeOK
  <2>3. QED
    BY <1>1, <1>3, <2>1, <2>2, CarriedIsHeld
<1>12. PumpTypeOK'
  <2>1. accepted' \in [leases' -> Seq(Messages)]
    BY <1>2, <1>3, <1>4, AcceptType
  <2>2. QED
    BY <1>2, <1>3, <1>4, <1>5, <1>11, <2>1 DEF PumpTypeOK, Inv
<1>13. PumpOK(l)'
  <2>1. /\ d.lease = l
        /\ Holding(l)' =>
              \A m \in Queue(l.agent, l.gen)' : d.id <= m.id
    BY <1>1, <1>3 DEF Carries, Holding, Queue
  <2>2. CASE pump'[l].phase = "replied"
    <3>1. Carries(l, d)'
      BY <1>7, <1>10, <2>1, <2>2 DEF Carries, At, In, OrderKept
    <3>2. QED
      BY <1>3, <1>7, <2>2, <3>1 DEF PumpOK, At, In
  <2>3. CASE pump'[l].phase = "delivering" /\ d \in unheard' \ unheard
    <3>0. PICK new : new = accepted'[l]
      OBVIOUS
    <3>1. ASSUME NEW i \in DOMAIN new
          PROVE  \/ Before(new[i], d.text)'
                 \/ /\ i = Len(new) /\ new[i] = d.text
                    /\ d \in unheard'
      BY <1>7, <1>10, <2>3, <3>0 DEF OrderKept
    <3>2. Carries(l, d)'
      BY <2>1, <2>3, <3>0, <3>1 DEF Carries, At, In
    <3>3. QED
      BY <1>3, <1>7, <2>3, <3>2 DEF PumpOK, At, In
  <2>4. QED
    BY <1>3, <1>11, <2>2, <2>3 DEF At
<1>14. OthersStay(l)
  BY <1>3, <1>6, <1>11 DEF OthersStay
<1>15. QED
  BY <1>3, <1>4, <1>5, <1>9, <1>12, <1>13, <1>14, OthersOK

-----------------------------------------------------------------------------
(* The steps that concern the store as well.                               *)

(* A lease that is still active is held.                                   *)
LEMMA ActiveIsHeld ==
    ASSUME Inv, NEW l \in leases, ActiveLease(l), KeepAgents
    PROVE  Holding(l)
<1>1. l.agent \in Agents
  BY DEF Inv, TypeOK, Lease
<1>2. Holding(l)' /\ Continues(l.agent)
  BY <1>1, ActiveFacts, OwnedFacts, UntouchedContinues
  DEF KeepAgents, Holding
<1>3. QED
  BY <1>2, ContinuesHolding

(* Transactions of others, and those that end a run: they may shorten the  *)
(* queue.                                                                  *)
LEMMA StoreOnlyOK ==
    ASSUME PumpInv, [Next]_vars, StoreOnly,
           \A m \in steering' : m \in steering,
           leases' = leases, inflight' = inflight
    PROVE  PumpInv'
<1>1. UNCHANGED <<pump, sent, accepted, unheard>>
  BY DEF StoreOnly, pumpVars
<1>2. Inv /\ GuidanceInv /\ PumpTypeOK /\ AllSent
  BY DEF PumpInv
<1>3. Inv'
  BY <1>2, NextInv
<1>4. PumpTypeOK'
  BY <1>1, <1>2, <1>3 DEF PumpTypeOK, Inv
<1>5. AllSent' /\ OrderKept
  BY <1>1, NoneSent DEF PumpInv, AllSent, Sent
<1>6. ASSUME NEW l \in leases PROVE PumpOK(l)'
  <2>1. QueueKept(l)
    BY <1>2, HoldingIsOld DEF QueueKept, Queue
  <2>2. QED
    BY <1>1, <1>2, <1>5, <2>1, PumpStays DEF PumpInv
<1>7. OthersStay(0)
  BY <1>1 DEF OthersStay
<1>8. QED
  BY <1>3, <1>4, <1>5, <1>6, <1>7, OthersOK

LEMMA RunEndsOK ==
    ASSUME PumpInv, NEW l \in leases, RunEnds(l)
    PROVE  PumpInv'
<1>1. [Next]_vars
  BY PumpIsStore DEF PumpNext
<1>2. UNCHANGED <<steering, leases, inflight>> /\ StoreOnly
  BY DEF RunEnds, Terminal, CompleteCancel
<1>3. QED
  BY <1>1, <1>2, StoreOnlyOK

LEMMA StoreStepOK ==
    ASSUME PumpInv, StoreStep
    PROVE  PumpInv'
<1>1. [Next]_vars
  BY PumpIsStore DEF PumpNext
<1>2. /\ UNCHANGED <<leases, inflight>> /\ StoreOnly
      /\ \A m \in steering' : m \in steering
  BY DEF StoreStep, Heartbeat, HeartbeatCanceling, RenewLease, CancelActive,
         CancelInactive, InterruptRuntime, Reconcile, SetClock
<1>3. QED
  BY <1>1, <1>2, StoreOnlyOK

LEMMA StartPumpOK ==
    ASSUME PumpInv, NEW l \in leases, StartPump(l)
    PROVE  PumpInv'
<1>1. [Next]_vars
  BY PumpIsStore DEF PumpNext
<1>2. /\ At(l, "off") /\ Goto(l, "polling")
      /\ UNCHANGED <<steering, leases, inflight, sent, accepted, unheard>>
  BY DEF StartPump, MarkRunning
<1>3. Inv /\ PumpTypeOK /\ Inv'
  BY <1>1, NextInv DEF PumpInv
<1>4. pump' \in [leases' -> Pump]
  BY <1>2, <1>3, PhasePumpType DEF Pumping
<1>5. /\ PumpTypeOK' /\ pump'[l].phase = "polling"
      /\ \A k \in leases \ {l} : pump'[k] = pump[k]
  BY <1>2, <1>3, <1>4 DEF PumpTypeOK, Inv, Goto, Pump
<1>6. AllSent' /\ OthersStay(l)
  BY <1>2, <1>5 DEF PumpInv, AllSent, Sent, OthersStay
<1>7. accepted'[l] = <<>>
  BY <1>2 DEF PumpInv, PumpOK
<1>8. PumpOK(l)'
  BY <1>5, <1>7 DEF PumpOK, At, In, Ready, InOrder
<1>9. QED
  BY <1>1, <1>2, <1>3, <1>5, <1>6, <1>8, OthersOK

LEMMA FetchOK ==
    ASSUME PumpInv, NEW l \in leases, Fetch(l)
    PROVE  PumpInv'
<1>1. [Next]_vars
  BY PumpIsStore DEF PumpNext, PumpStep
<1>2. /\ At(l, "polling") /\ Goto(l, "delivering")
      /\ ActiveLease(l) /\ KeepAgents
      /\ UNCHANGED <<steering, leases, sent, accepted, unheard>>
  BY DEF Fetch, NextSteering
<1>3. Inv /\ PumpTypeOK /\ Inv' /\ AllSent
  BY <1>1, NextInv DEF PumpInv
<1>4. PICK m \in Queue(l.agent, l.gen) :
        /\ \A n \in Queue(l.agent, l.gen) : m.id <= n.id
        /\ inflight' = {d \in inflight : d.lease # l} \cup
                         {[lease |-> l, id |-> m.id, text |-> m.text]}
  BY DEF Fetch, NextSteering
<1>5. PICK got : got = [lease |-> l, id |-> m.id, text |-> m.text]
  OBVIOUS
<1>6. /\ got \in inflight' /\ got.lease = l /\ got.id = m.id
      /\ got.text = m.text /\ got.text \in Sent
      /\ \A d \in inflight : d.lease # l => d \in inflight'
      /\ \A d \in inflight' : d \in inflight \/ d = got
  BY <1>3, <1>4, <1>5 DEF Queue, AllSent
<1>7. pump' \in [leases' -> Pump]
  BY <1>2, <1>3, PhasePumpType DEF Pumping
<1>8. /\ PumpTypeOK' /\ pump'[l].phase = "delivering"
      /\ \A k \in leases \ {l} : pump'[k] = pump[k]
  BY <1>2, <1>3, <1>7 DEF PumpTypeOK, Inv, Goto, Pump
<1>9. AllSent' /\ OthersStay(l)
  BY <1>2, <1>3, <1>6, <1>8 DEF AllSent, Sent, OthersStay
<1>10. Ready(l) /\ Holding(l) /\ InOrder(l)
  BY <1>2, <1>3, ActiveIsHeld DEF PumpInv, PumpOK
<1>11. /\ \A i \in DOMAIN accepted[l] : Before(accepted[l][i], got.text)
       /\ \A n \in Queue(l.agent, l.gen) : got.id <= n.id
  BY <1>4, <1>6, <1>10 DEF Ready
<1>12. OrderKept
  BY <1>2, NoneSent
<1>13. Carries(l, got)'
  BY <1>2, <1>6, <1>8, <1>11, <1>12 DEF Carries, At, In, Queue, OrderKept
<1>14. InOrder(l)'
  BY <1>2, <1>10, <1>12 DEF InOrder, Repeats, OrderKept
<1>15. PumpOK(l)'
  BY <1>6, <1>8, <1>13, <1>14 DEF PumpOK, At
<1>16. QED
  BY <1>1, <1>3, <1>6, <1>8, <1>9, <1>15, OthersOK

(* What is acknowledged is the first of the queue and the last that was    *)
(* accepted, so the rest of the queue comes after all that was accepted.   *)
LEMMA AcknowledgeOK ==
    ASSUME PumpInv, NEW l \in leases, Acknowledge(l)
    PROVE  PumpInv'
<1>1. [Next]_vars
  BY PumpIsStore DEF PumpNext, PumpStep
<1>2. /\ At(l, "acknowledging") /\ Goto(l, "polling")
      /\ ActiveLease(l) /\ KeepAgents
      /\ UNCHANGED <<leases, sent, accepted, unheard>>
  BY DEF Acknowledge, AcknowledgeSteering
<1>3. Inv /\ PumpTypeOK /\ Inv' /\ AllSent /\ GuidanceInv
  BY <1>1, NextInv DEF PumpInv
<1>4. PICK d \in inflight :
        /\ d.lease = l
        /\ steering' = {m \in steering : ~ (/\ m.id = d.id
                                            /\ m.agent = l.agent
                                            /\ m.gen = l.gen)}
        /\ inflight' = inflight \ {d}
  BY DEF Acknowledge, AcknowledgeSteering
<1>5. Carries(l, d)
  BY <1>2, <1>4, CarriedIsHeld
  DEF In, At, PumpInv, GuidanceInv, OneDeliveryEach
<1>6. pump' \in [leases' -> Pump]
  BY <1>2, <1>3, PhasePumpType DEF Pumping
<1>7. /\ PumpTypeOK' /\ pump'[l].phase = "polling"
      /\ \A k \in leases \ {l} : pump'[k] = pump[k]
  BY <1>2, <1>3, <1>6 DEF PumpTypeOK, Inv, Goto, Pump
<1>8. AllSent' /\ OthersStay(l)
  BY <1>2, <1>3, <1>4, <1>7 DEF AllSent, Sent, OthersStay
<1>9. OrderKept
  BY <1>2, NoneSent
<1>10. Ready(l)'
  <2>1. SUFFICES ASSUME NEW m \in Queue(l.agent, l.gen)',
                        NEW i \in DOMAIN accepted[l]
                 PROVE  Before(accepted[l][i], m.text)
    BY <1>2, <1>9 DEF Ready, OrderKept
  <2>2. /\ m \in Queue(l.agent, l.gen) /\ m \in steering
        /\ m.id # d.id
    BY <1>4, <2>1 DEF Queue
  <2>3. Holding(l)
    BY <1>2, <1>3, ActiveIsHeld
  <2>4. RowOf(d) \in steering /\ RowOf(d).id = d.id /\ RowOf(d).text = d.text
    BY <1>3, <1>4, <2>3 DEF GuidanceInv, DeliveryOK, RowOf
  <2>5. d.id <= m.id /\ d.id \in Nat /\ m.id \in Nat
    BY <1>3, <1>5, <2>2, <2>3
    DEF Carries, Inv, TypeOK, Delivery, SteeringRow
  <2>6. RowOf(d).id < m.id
    BY <2>2, <2>4, <2>5
  <2>7. Before(d.text, m.text)
    BY <2>2, <2>4, <2>6 DEF PumpInv, QueuedInOrder
  <2>8. accepted[l][i] = d.text \/ Before(accepted[l][i], d.text)
    BY <1>2, <1>5 DEF Carries, In, At
  <2>9. QED
    BY <1>3, <2>7, <2>8, BeforeIsTransitive DEF PumpInv, PumpTypeOK
<1>11. InOrder(l)'
  BY <1>2, <1>9 DEF PumpInv, PumpOK, InOrder, Repeats, OrderKept
<1>12. PumpOK(l)'
  BY <1>7, <1>10, <1>11 DEF PumpOK, At, In
<1>13. \A e \in inflight : e.lease # l => e \in inflight'
  BY <1>4
<1>14. QED
  BY <1>1, <1>3, <1>7, <1>8, <1>12, <1>13, OthersOK

(* A new message comes last, in the order and in the queue.                *)
LEMMA SteerOK ==
    ASSUME PumpInv, NEW a \in Agents, NEW text \in Messages, Steer(a, text)
    PROVE  PumpInv'
<1>1. [Next]_vars
  BY PumpIsStore DEF PumpNext
<1>2. /\ Inv /\ PumpTypeOK /\ Inv' /\ AllSent /\ GuidanceInv /\ GuidanceInv'
      /\ SentOnce /\ QueuedInOrder
  BY <1>1, NextInv, NextGuidance DEF PumpInv
<1>3. /\ text \notin Sent /\ sent' = Append(sent, text)
      /\ UNCHANGED <<leases, inflight, pump, accepted, unheard>>
  BY DEF Steer, Sent, EnqueueSteering
<1>4. PICK m \in steering' :
        /\ m.text = text
        /\ steering' = steering \cup {m}
        /\ IsNextRowId(m.id)
  <2>1. PICK id \in 1 .. MaxMessageId :
          /\ IsNextRowId(id)
          /\ steering' = steering \cup
               {[id |-> id, agent |-> a, gen |-> SettledAgents[a].gen,
                 text |-> text]}
    BY DEF Steer, EnqueueSteering
  <2>2. PICK m : m = [id |-> id, agent |-> a, gen |-> SettledAgents[a].gen,
                      text |-> text]
    OBVIOUS
  <2>3. QED
    BY <2>1, <2>2
<1>5. \A n \in steering : n.id < m.id /\ n.id <= m.id /\ ~(m.id < n.id)
  BY <1>2, <1>4 DEF IsNextRowId, Inv, TypeOK, SteeringRow
<1>6. /\ sent' \in Seq(Messages) /\ OrderKept /\ Sent \subseteq Sent'
      /\ text \in Sent' /\ SentOnce'
      /\ \A t \in Sent : Before(t, text)'
  BY <1>2, <1>3, OneSent DEF PumpTypeOK
<1>7. Last(m)
  BY <1>4, <1>5, <1>6 DEF Last
<1>8. AllSent'
  BY <1>2, <1>3, <1>4, <1>6 DEF AllSent
<1>9. QueuedInOrder'
  <2>1. SUFFICES ASSUME NEW x \in steering', NEW y \in steering', x.id < y.id
                 PROVE  Before(x.text, y.text)'
    BY DEF QueuedInOrder
  <2>2. CASE x \in steering /\ y \in steering
    BY <1>2, <1>6, <2>1, <2>2 DEF QueuedInOrder, OrderKept
  <2>3. CASE x \in steering /\ y = m
    BY <1>2, <1>4, <1>6, <2>3 DEF AllSent
  <2>4. x # m \/ y # m
    BY <1>2, <2>1 DEF Inv, TypeOK, SteeringRow
  <2>5. QED
    BY <1>4, <1>5, <2>1, <2>2, <2>3, <2>4
<1>10. ASSUME NEW l \in leases PROVE PumpOK(l)'
  <2>1. QueueKept(l)
    BY <1>1, <1>2, <1>4, <1>7, HoldingIsOld DEF QueueKept, Queue
  <2>2. QED
    BY <1>2, <1>3, <1>6, <2>1, PumpStays DEF PumpInv
<1>11. PumpTypeOK'
  BY <1>2, <1>3, <1>6 DEF PumpTypeOK, Inv
<1>12. QED
  BY <1>2, <1>3, <1>6, <1>8, <1>9, <1>10, <1>11 DEF PumpInv

(* A follow-up takes the queue over in its order, and with it the claim    *)
(* from any earlier run's pump.                                            *)
LEMMA NewRunOK ==
    ASSUME PumpInv, NewRun
    PROVE  PumpInv'
<1>1. [Next]_vars
  BY PumpIsStore DEF PumpNext
<1>2. /\ Inv /\ PumpTypeOK /\ Inv' /\ AllSent /\ GuidanceInv /\ GuidanceInv'
      /\ SentOnce /\ QueuedInOrder
  BY <1>1, NextInv, NextGuidance DEF PumpInv
<1>3. PICK a \in Agents, r \in Runtimes :
        \/ \E owner \in Owners : Create(r, owner, a)
        \/ Claim(r, a)
  BY DEF NewRun
<1>4. /\ pump' = [l \in leases' |-> IF l \in leases THEN pump[l] ELSE NewPump]
      /\ accepted' = [l \in leases' |->
                        IF l \in leases THEN accepted[l] ELSE <<>>]
      /\ sent' = sent /\ unheard' = unheard
  BY DEF NewRun
<1>5. leases \subseteq leases' /\ inflight' = inflight
  BY <1>1, <1>3, LeasesStay DEF Create, Claim
<1>6. OrderKept /\ Sent' = Sent /\ SentOnce'
  BY <1>2, <1>4, NoneSent
<1>7. /\ NewPump \in Pump /\ <<>> \in Seq(Messages)
      /\ NewPump.phase = "off"
  BY DEF NewPump, Pump
<1>8. PumpTypeOK'
  BY <1>2, <1>4, <1>7 DEF PumpTypeOK, Inv
<1>9. ASSUME NEW l \in leases
      PROVE  pump'[l] = pump[l] /\ accepted'[l] = accepted[l]
  BY <1>4, <1>5
<1>10. ASSUME NEW l \in leases', l \notin leases
       PROVE  pump'[l].phase = "off" /\ accepted'[l] = <<>>
  BY <1>4, <1>7, <1>10
<1>11. PICK gen \in Generations :
         \A m \in steering' : \E n \in steering : m = n \/ m = Moved(n, a, gen)
  <2>1. CASE steering' = steering
    <3>1. 1 \in Generations
      BY BoundAssumption DEF Generations
    <3>2. QED
      BY <2>1, <3>1
  <2>2. CASE Claim(r, a)
    BY <2>2 DEF Claim, Rehomed, Moved
  <2>3. QED
    BY <1>3, <2>1, <2>2 DEF Create
<1>12. ASSUME NEW m \in steering'
       PROVE  \E n \in steering : /\ n.id = m.id /\ n.text = m.text
                                  /\ m.agent # a => n = m
  <2>1. PICK n \in steering : m = n \/ m = Moved(n, a, gen)
    BY <1>11
  <2>2. n \in SteeringRow
    BY <1>2 DEF Inv, TypeOK
  <2>3. QED
    BY <2>1, <2>2, MovedMessage
<1>13. QueuedInOrder'
  BY <1>2, <1>6, <1>12 DEF QueuedInOrder, OrderKept
<1>14. AllSent'
  BY <1>2, <1>5, <1>6, <1>9, <1>10, <1>12 DEF AllSent
<1>15. ASSUME NEW l \in leases PROVE PumpOK(l)'
  <2>1. QueueKept(l)
    <3>1. SUFFICES ASSUME Holding(l)'
                   PROVE  \A m \in Queue(l.agent, l.gen)' :
                             m \in Queue(l.agent, l.gen)
      BY <1>1, <1>2, HoldingIsOld DEF QueueKept
    <3>2. Holding(l) /\ l.agent \in Agents /\ l.gen \in Generations
      BY <1>1, <1>2, <3>1, HoldingIsOld DEF Inv, TypeOK, Lease
    <3>3. CASE l.agent = a
      <4>1. /\ SettledAgents[a].status \in Claimable \cup {"unused"}
            /\ agents'[a].gen = SettledAgents[a].gen + 1
        BY <1>2, <1>3, CreateClaims, ClaimClaims DEF Claims
      <4>2. SettledAgents[a].gen = agents[a].gen
        BY <1>2, <3>2, <3>3, SettledKeeps DEF Holding, Active, Absent
      <4>3. agents'[a].gen = l.gen /\ agents[a].gen = l.gen /\ l.gen \in Nat
        BY <3>1, <3>2, <3>3 DEF Holding, Generations
      <4>4. QED
        BY <4>1, <4>2, <4>3
    <3>4. CASE l.agent # a
      BY <1>12, <3>4 DEF Queue
    <3>5. QED
      BY <3>3, <3>4
  <2>2. QED
    BY <1>2, <1>5, <1>6, <1>4, <1>9, <2>1, PumpStays DEF PumpInv
<1>16. ASSUME NEW l \in leases', l \notin leases PROVE PumpOK(l)'
  BY <1>10, <1>16 DEF PumpOK, At, In, InOrder
<1>17. QED
  BY <1>2, <1>6, <1>8, <1>13, <1>14, <1>15, <1>16 DEF PumpInv

-----------------------------------------------------------------------------
(* The whole of it.                                                        *)

LEMMA InitPump == PumpInit => PumpInv
<1>1. SUFFICES ASSUME PumpInit PROVE PumpInv
  OBVIOUS
<1>2. /\ Init /\ leases = {} /\ steering = {} /\ inflight = {}
      /\ pump = [l \in {} |-> NewPump] /\ accepted = [l \in {} |-> <<>>]
      /\ sent = <<>> /\ unheard = {}
  BY <1>1 DEF PumpInit, Init
<1>3. Inv /\ GuidanceInv
  BY <1>2, InitInv, InitGuidance
<1>4. PumpTypeOK
  BY <1>2, <1>3 DEF PumpTypeOK, Inv
<1>5. SentOnce /\ AllSent /\ QueuedInOrder
  BY <1>2 DEF SentOnce, AllSent, QueuedInOrder
<1>6. QED
  BY <1>2, <1>3, <1>4, <1>5 DEF PumpInv

LEMMA NextPump ==
    ASSUME PumpInv, [PumpNext]_allVars
    PROVE  PumpInv'
<1>1. ASSUME NEW l \in leases,
             PumpStep(l) \/ StartPump(l) \/ Stop(l) \/ ReplyLost(l)
                \/ RunEnds(l)
      PROVE  PumpInv'
  BY <1>1, PhaseSteps, AcceptsOK, RunEndsOK, StartPumpOK, FetchOK,
     AcknowledgeOK DEF PumpStep
<1>2. CASE UNCHANGED allVars
  <2>1. StoreOnly /\ [Next]_vars /\ UNCHANGED <<steering, leases, inflight>>
    BY <1>2 DEF allVars, vars, StoreOnly
  <2>2. QED
    BY <2>1, StoreOnlyOK
<1>3. QED
  BY <1>1, <1>2, SteerOK, NewRunOK, StoreStepOK DEF PumpNext

LEMMA PumpInvariant == PumpSpec => []PumpInv
BY InitPump, NextPump, PTL DEF PumpSpec

(* Every lease has one pump, in one of its phases, and one record of what  *)
(* its session accepted, whatever else happens.                            *)
THEOREM PumpTypeCorrect == PumpSpec => []PumpTypeOK
<1>1. PumpInv => PumpTypeOK
  BY DEF PumpInv
<1>2. QED
  BY <1>1, PumpInvariant, PTL

(* A session is given its guidance in the order it was sent, for any       *)
(* numbers of agents, runs and messages, whatever is retried or repeated,  *)
(* reuses a row id or is inherited by a follow-up (steering.go).           *)
THEOREM GuidanceIsDeliveredInOrder == PumpSpec => []DeliveredInOrder
<1>1. ASSUME PumpInv PROVE DeliveredInOrder
  <2>1. SUFFICES ASSUME NEW l \in leases, NEW i \in DOMAIN accepted[l],
                        NEW j \in DOMAIN accepted[l], i <= j
                 PROVE  Position(accepted[l][i]) <= Position(accepted[l][j])
    BY DEF DeliveredInOrder
  <2>2. sent \in Seq(Messages) /\ SentOnce
    BY <1>1 DEF PumpInv, PumpTypeOK
  <2>3. i \in Nat /\ j \in Nat /\ accepted[l][j] \in Sent
    <3>1. accepted[l] \in Seq(Messages)
      BY <1>1 DEF PumpInv, PumpTypeOK
    <3>2. QED
      BY <1>1, <3>1 DEF PumpInv, AllSent
  <2>4. CASE accepted[l][i] = accepted[l][j]
    BY <2>2, <2>3, <2>4, SamePosition
  <2>5. CASE accepted[l][i] # accepted[l][j]
    <3>1. i < j
      BY <2>1, <2>3, <2>5
    <3>2. Before(accepted[l][i], accepted[l][j])
      BY <1>1, <2>5, <3>1 DEF PumpInv, PumpOK, InOrder
    <3>3. QED
      BY <2>2, <3>2, BeforePositions
  <2>6. QED
    BY <2>4, <2>5
<1>2. QED
  BY <1>1, PumpInvariant, PTL

(* A session is given a message again only at once, and only when its      *)
(* reply to it was lost: a stop, a lost lease, a busy database or a reused *)
(* row id repeats nothing.                                                 *)
THEOREM GuidanceIsDeliveredOnce == PumpSpec => []DeliveredOnce
<1>1. ASSUME PumpInv PROVE DeliveredOnce
  <2>1. SUFFICES ASSUME NEW l \in leases, NEW i \in DOMAIN accepted[l],
                        NEW j \in DOMAIN accepted[l], i < j,
                        accepted[l][i] = accepted[l][j]
                 PROVE  /\ j = i + 1
                        /\ \E d \in unheard :
                              d.lease = l /\ d.text = accepted[l][i]
    BY DEF DeliveredOnce
  <2>2. ~Before(accepted[l][i], accepted[l][j])
    BY <1>1, <2>1, BeforeIsStrict DEF PumpInv, PumpTypeOK
  <2>3. QED
    BY <1>1, <2>1, <2>2 DEF PumpInv, PumpOK, InOrder, Repeats
<1>2. QED
  BY <1>1, PumpInvariant, PTL

-----------------------------------------------------------------------------
(* Deletions.                                                              *)

OnlyIfAccepted ==
    \A m \in steering :
        \/ \E n \in steering' : n.agent = m.agent /\ n.text = m.text
        \/ \E l \in leases : l.agent = m.agent /\ Accepted(l, m.text)
        \/ agents'[m.agent].status \in {"canceling", "canceled"}

LEMMA NextOnlyIfAccepted ==
    ASSUME PumpInv, [PumpNext]_allVars
    PROVE  [OnlyIfAccepted]_allVars
<1>1. Inv /\ GuidanceInv /\ [NotLost]_vars
  BY PumpIsStore, NextGuidance DEF PumpInv
<1>2. CASE UNCHANGED vars
  BY <1>2 DEF vars, OnlyIfAccepted
<1>3. ASSUME NotLost, \A d \in inflight : d \in inflight'
      PROVE  OnlyIfAccepted
  BY <1>3 DEF NotLost, Kept, Acknowledged, OnlyIfAccepted
<1>4. ASSUME NEW l \in leases, Fetch(l)
      PROVE  OnlyIfAccepted
  BY <1>4 DEF Fetch, NextSteering, OnlyIfAccepted
<1>5. ASSUME NEW l \in leases, Acknowledge(l), NotLost
      PROVE  OnlyIfAccepted
  <2>1. PICK d \in inflight : d.lease = l /\ inflight' = inflight \ {d}
    BY <1>5 DEF Acknowledge, AcknowledgeSteering
  <2>2. Accepted(l, d.text)
    BY <1>1, <1>5, <2>1, CarriedIsHeld
    DEF Acknowledge, At, In, Carries, GuidanceInv, OneDeliveryEach
  <2>3. SUFFICES ASSUME NEW m \in steering, Acknowledged(m)
                 PROVE  l.agent = m.agent /\ Accepted(l, m.text)
    BY <1>5 DEF NotLost, Kept, OnlyIfAccepted
  <2>4. QED
    BY <2>1, <2>2, <2>3 DEF Acknowledged
<1>6. ASSUME NEW l \in leases,
             PumpStep(l) \/ StartPump(l) \/ Stop(l) \/ ReplyLost(l)
                \/ RunEnds(l),
             ~Fetch(l), ~Acknowledge(l)
      PROVE  inflight' = inflight
  BY <1>6
  DEF PumpStep, Delivered, EndStopped, AcknowledgeGivesUp, EndLost,
      SessionAccepts, PromptRequired, Stop, ReplyLost, PumpOnly, vars,
      StartPump, MarkRunning, RunEnds, Terminal, CompleteCancel
<1>7. ASSUME NewRun \/ StoreStep
             \/ \E a \in Agents, text \in Messages : Steer(a, text)
      PROVE  inflight' = inflight
  BY <1>7
  DEF NewRun, Create, Claim, Steer, EnqueueSteering, StoreStep, Heartbeat,
      HeartbeatCanceling, RenewLease, CancelActive, CancelInactive,
      InterruptRuntime, Reconcile, SetClock
<1>8. CASE UNCHANGED allVars
  BY <1>8
<1>9. CASE PumpNext /\ NotLost
  BY <1>3, <1>4, <1>5, <1>6, <1>7, <1>9 DEF PumpNext
<1>10. QED
  BY <1>1, <1>2, <1>8, <1>9

(* "deleting each message only after the session accepts it": a message    *)
(* leaves the queue only if some session of its agent has accepted it or   *)
(* the agent was canceled, whatever races with its delivery.               *)
THEOREM OnlyAcceptedIsDeleted == PumpSpec => DeletedOnlyIfAccepted
<1>1. PumpInv /\ [PumpNext]_allVars => [OnlyIfAccepted]_allVars
  BY NextOnlyIfAccepted
<1>2. QED
  BY <1>1, PumpInvariant, PTL
  DEF PumpSpec, DeletedOnlyIfAccepted, OnlyIfAccepted

(* The pumps too do to the tables only what the store's operations do, so  *)
(* that guidance travels between claims that are fenced, and an outcome    *)
(* that was recorded is not changed by a message that arrives late.        *)
THEOREM PumpsAreFenced ==
    PumpSpec => Spec /\ FencedSpec /\ TerminalRunsAreFinal
<1>1. PumpSpec => Spec
  <2>1. PumpInit => Init
    BY DEF PumpInit
  <2>2. [PumpNext]_allVars => [Next]_vars
    BY PumpIsStore
  <2>3. QED
    BY <2>1, <2>2, PTL DEF PumpSpec, Spec
<1>2. QED
  BY <1>1, ClaimsAreFenced, OutcomesAreFinal, PTL
=============================================================================
