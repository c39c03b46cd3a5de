----------------------------- MODULE MailStore -----------------------------
(***************************************************************************)
(* The mailbox tables of the agent store: mailbox_rooms, mailbox_events    *)
(* and the lifecycle mail in mails (internal/db/store_mailbox.go,          *)
(* store_mail_events.go), and the receipt of wait_agent.  Sending and      *)
(* reading in one inbox are in module Inbox.                               *)
(*                                                                         *)
(* A store whose process has the mailbox enabled publishes lifecycle mail  *)
(* inside the transactions of AgentStore: every transaction reports the    *)
(* claims it reconciles, and some report what they do themselves.  The     *)
(* steering operations publish only what they reconcile, as Settle does.   *)
(* All processes have the mailbox enabled here, which a process cannot     *)
(* change while it lives (initialize); the database may hold agents from   *)
(* before, when it was disabled.                                           *)
(*                                                                         *)
(* An event is <<"terminal", agent, generation>> or <<"joined", agent, 1>>; *)
(* subjects, bodies and the size limits on them are left out.              *)
(***************************************************************************)
EXTENDS AgentStore

CONSTANTS
    Earlier,       \* agents that may have a run from before mail was enabled
    Waited         \* bound: the agents wait_agent is called for, once each

ASSUME MailAssumption ==
    /\ Earlier \subseteq Agents
    /\ Waited \subseteq Agents

VARIABLES
    rooms,      \* mailbox_rooms: the owners that were opted into mail
    started,    \* the runs, <<agent, generation>>, with started_at set
    events,     \* mailbox_events: what was published
    mails,      \* the mails table
    waits       \* the outcomes wait_agent delivered, and their receipts

mailVars == <<rooms, started, events, mails, waits>>
allVars == <<vars, mailVars>>

-----------------------------------------------------------------------------
(* Rows.                                                                   *)

Contacts == {"main"} \cup Agents

TerminalOf(a, g) == <<"terminal", a, g>>
JoinedOf(a) == <<"joined", a, 1>>

Subject(e) == e[2]                        \* the agent an event is about

Event == {TerminalOf(a, g) : a \in Agents, g \in Generations}
           \cup {JoinedOf(a) : a \in Agents}

Mail == [about : Event,
         owner : Owners,
         to    : Contacts,
         kind  : TerminalRun \cup {"agent_joined"},
         read  : BOOLEAN]                  \* whether read_at is set

Wait == [agent : Agents, gen : Generations, outcome : TerminalRun,
         acked : BOOLEAN]

Exists(a) == agents[a].status \notin Absent

-----------------------------------------------------------------------------
(* publishEventMailTx.                                                     *)

(* Slip: the recipients are not restricted to the owner's agents.          *)
PeersAnywhere(a) == {b \in Agents \ {a} : Exists(b)}

(* The agents of the same owner, as of this transaction.                   *)
Peers(a) ==
    {b \in Agents \ {a} : Exists(b) /\ agents[b].owner = agents[a].owner}

(* The run row is read back after it was written.                          *)
Kind(e) ==
    IF e[1] = "joined" THEN "agent_joined" ELSE runs'[e[2]][e[3]].status

Announcement(e) ==
    {[about |-> e, owner |-> agents[Subject(e)].owner, to |-> c,
      kind |-> Kind(e), read |-> FALSE] :
        c \in {"main"} \cup Peers(Subject(e))}

CurrentRun(a) == TerminalOf(a, agents[a].gen)

(* Slip: an expired cancellation is completed without a notice.            *)
ReapedNoticesActive ==
    {CurrentRun(a) : a \in {b \in Agents : /\ Expired(agents[b])
                                           /\ agents[b].status \in Active}}

(* interruptRowTx and completeCancelRowTx, for every row that expired.     *)
ReapedNotices ==
    {CurrentRun(a) :
       a \in {b \in Agents :
                /\ Expired(agents[b])
                /\ \/ agents[b].status \in Active
                   \/ runs[b][agents[b].gen].status = "canceled"}}

(* A transaction publishes what it reconciled and what it did itself, once *)
(* each, to rooms that are open.                                           *)
Publish(own) ==
    LET news == {e \in ReapedNotices \cup own :
                    e \notin events /\ agents[Subject(e)].owner \in rooms}
    IN  /\ events' = events \cup news
        /\ mails' = mails \cup UNION {Announcement(e) : e \in news}

KeepMail == UNCHANGED <<rooms, started, waits>>

-----------------------------------------------------------------------------
(* The operations of AgentStore, with the mail they publish.               *)

Settle == Reconcile /\ Publish({}) /\ KeepMail

(* spawn_agent and followup_agent have opened the owner's room before they *)
(* claim.                                                                  *)
Spawn(r, owner, a) ==
    /\ owner \in rooms
    /\ Create(r, owner, a)
    /\ Publish({})
    /\ KeepMail

FollowUp(r, a) ==
    /\ agents[a].owner \in rooms
    /\ Claim(r, a)
    /\ Publish({})
    /\ KeepMail

(* Slip: a cancellation is announced when it is asked for.                 *)
CancelAnnounced(a) ==
    /\ CancelActive(a) \/ CancelInactive(a)
    /\ Publish({CurrentRun(a)})
    /\ KeepMail

(* Canceling an inactive agent ends no run; canceling an active one is     *)
(* announced when its worker is gone.                                      *)
Cancel(a) ==
    /\ CancelActive(a) \/ CancelInactive(a)
    /\ Publish({})
    /\ KeepMail

(* Abort, the attachments and the heartbeats.                              *)
Other(l) ==
    /\ \/ Abort(l)
       \/ \E conv \in Conversations :
             \/ AttachConversation(l, conv)
             \/ AttachCancelingConversation(l, conv)
       \/ Heartbeat(l)
       \/ HeartbeatCanceling(l)
    /\ Publish({})
    /\ KeepMail

(* Slip: only an agent's first run is taken for its first start.           *)
FirstStartByGeneration(l) == l.gen = 1

(* publishJoinedMailTx: no other run of the agent was ever started.        *)
FirstStart(l) == \A s \in started : s[1] # l.agent

Start(l, conv) ==
    /\ MarkRunning(l, conv)
    /\ started' = started \cup {<<l.agent, l.gen>>}
    /\ Publish(IF FirstStart(l) THEN {JoinedOf(l.agent)} ELSE {})
    /\ UNCHANGED <<rooms, waits>>

End(l) ==
    /\ \/ \E status \in DOMAIN RunStatusOf, report \in Reports,
             conv \in Conversations \cup {NoConversation} :
             Terminal(l, status, conv, report)
       \/ CompleteCancel(l)
    /\ Publish({TerminalOf(l.agent, l.gen)})
    /\ KeepMail

Interrupt(r, report) ==
    /\ InterruptRuntime(r, report)
    /\ Publish({CurrentRun(a) :
                  a \in {b \in Agents :
                           /\ SettledAgents[b].runtime = r
                           /\ SettledAgents[b].status \in Active}})
    /\ KeepMail

(* Only forwards: AgentStore has the clocks that are set back.             *)
PassTime ==
    /\ SetClock
    /\ now' > now
    /\ UNCHANGED mailVars

-----------------------------------------------------------------------------
(* Rooms and receipts.                                                     *)

(* ResolveMailbox for a room that is not open yet, by main or, for a child *)
(* conversation, on behalf of the agent's owner.  Claims that had expired  *)
(* are settled while the room is still closed.                             *)
OpenRoom(owner) ==
    /\ owner \notin rooms
    /\ Reconcile
    /\ Publish({})
    /\ rooms' = rooms \cup {owner}
    /\ UNCHANGED <<started, waits>>

(* Slip: a canceled run counts as over while its worker still cleans up.   *)
WaitReturnsCanceling(a, g) ==
    LET run == SettledRuns[a][g]
    IN  /\ a \in Waited /\ \A w \in waits : w.agent # a
        /\ run.status \in TerminalRun
        /\ waits' = waits \cup {[agent |-> a, gen |-> g,
                                 outcome |-> run.status, acked |-> FALSE]}
        /\ Reconcile
        /\ Publish({})
        /\ UNCHANGED <<rooms, started>>

(* wait_agent, which selected run g when it was the current one, finds it  *)
(* over.  (A wait that finds it active or still canceling leaves the mail  *)
(* to a later one.)                                                        *)
WaitReturns(a, g) ==
    LET row == SettledAgents[a]
        run == SettledRuns[a][g]
    IN  /\ a \in Waited /\ \A w \in waits : w.agent # a
        /\ run.status \in TerminalRun
        /\ ~ (row.status = "canceling" /\ row.gen = g)
        /\ waits' = waits \cup {[agent |-> a, gen |-> g,
                                 outcome |-> run.status, acked |-> FALSE]}
        /\ Reconcile
        /\ Publish({})
        /\ UNCHANGED <<rooms, started>>

(* Slip: the receipt covers every run of the agent.                        *)
ReceiptForAgent(w) ==
    {m \in mails : /\ m.to = "main"
                   /\ \E g \in Generations : m.about = TerminalOf(w.agent, g)
                   /\ ~m.read}

ReceiptFor(w) ==
    {m \in mails : /\ m.to = "main"
                   /\ m.about = TerminalOf(w.agent, w.gen)
                   /\ ~m.read}

(* Afterwards, unless the call fails or the process is gone.               *)
AckTerminalMail(w) ==
    /\ ~w.acked
    /\ mails' = (mails \ ReceiptFor(w)) \cup
                  {[m EXCEPT !.read = TRUE] : m \in ReceiptFor(w)}
    /\ UNCHANGED <<vars, rooms, started, events>>
    /\ waits' = (waits \ {w}) \cup {[w EXCEPT !.acked = TRUE]}

-----------------------------------------------------------------------------
(* The specification.                                                      *)

(* A first run from before mail was enabled, by a process that is gone: it *)
(* completed, or its lease is still to run out.                            *)
EarlierRow(status, owner, r, conv) ==
    [owner |-> owner, status |-> status, gen |-> 1, conv |-> conv,
     runtime |-> IF status = "running" THEN r ELSE NoRuntime,
     expires |-> IF status = "running" THEN LeaseDuration ELSE 0]

MailInit ==
    /\ now = 0 /\ steering = {} /\ leases = {} /\ inflight = {}
    /\ \E past \in [Agents -> {"idle", "running", "unused"}], owner \in Owners,
          r \in Runtimes, conv \in [Earlier -> Conversations] :
          /\ \A a, b \in Earlier : a # b => conv[a] # conv[b]
          /\ \A a \in Agents : past[a] # "unused" => a \in Earlier
          /\ agents = [a \in Agents |->
                IF past[a] = "unused" THEN AbsentRow("unused")
                ELSE EarlierRow(past[a], owner, r, conv[a])]
          /\ runs = [a \in Agents |-> [g \in Generations |->
                IF past[a] = "unused" \/ g # 1 THEN NoRun
                ELSE IF past[a] = "running"
                THEN [NoRun EXCEPT !.status = "running"]
                ELSE [NoRun EXCEPT !.status = "completed"]]]
          /\ started = {<<a, 1>> : a \in {b \in Agents : past[b] # "unused"}}
    /\ rooms = {} /\ events = {} /\ mails = {} /\ waits = {}

MailNext ==
    \/ Settle
    \/ \E a \in Agents :
          \/ \E r \in Runtimes, owner \in Owners : Spawn(r, owner, a)
          \/ \E r \in Runtimes : FollowUp(r, a)
          \/ Cancel(a)
          \/ \E g \in Generations : WaitReturns(a, g)
    \/ \E l \in leases :
          Other(l) \/ End(l) \/ \E conv \in Conversations : Start(l, conv)
    \/ \E r \in Runtimes, report \in Reports : Interrupt(r, report)
    \/ \E owner \in Owners : OpenRoom(owner)
    \/ \E w \in waits : AckTerminalMail(w)
    \/ PassTime

MailSpec == MailInit /\ [][MailNext]_allVars

-----------------------------------------------------------------------------
(* Properties.                                                             *)

(* Every table keeps to its schema (migrations/0003-0004): the columns,    *)
(* the reference of a mail to its event, one mail per event and recipient. *)
MailTypeOK ==
    /\ TypeOK
    /\ rooms \subseteq Owners
    /\ started \subseteq Agents \X Generations
    /\ events \subseteq Event
    /\ mails \subseteq Mail
    /\ waits \subseteq Wait
    /\ \A m \in mails : m.about \in events
    /\ \A m, n \in mails : m.about = n.about /\ m.to = n.to => m = n

(* A run is over when it has ended and its claim has: a canceled run is    *)
(* over once its worker has cleaned up, or its lease has run out.          *)
Over(a, g) ==
    /\ runs[a][g].status \in TerminalRun
    /\ ~ (agents[a].gen = g /\ agents[a].status = "canceling")

(* "Cancellation publishes its notice only after cleanup" (wait.go:39):    *)
(* completion mail is about runs that are over and tells the outcome they  *)
(* keep, whatever late worker, expiry or follow-up comes after it.         *)
MailTellsTheOutcome ==
    \A m \in mails, a \in Agents, g \in Generations :
        m.about = TerminalOf(a, g) => Over(a, g) /\ m.kind = runs[a][g].status

(* "publishTerminalMailTx runs inside the transaction that finalizes a run *)
(* or completes cancellation cleanup. It never scans or replays old        *)
(* terminal runs" (store_mail_events.go:33): whoever ends a run - its      *)
(* worker, a shutdown, or any process whose transaction finds it expired - *)
(* reports it in that very transaction, if the room is open, and at no     *)
(* other time.                                                             *)
EndedRunsAreReported ==
    [][\A a \in Agents, g \in Generations :
          LET ends == ~Over(a, g) /\ Over(a, g)'
              open == agents[a].owner \in rooms
          IN  /\ TerminalOf(a, g) \in events' \ events => ends /\ open
              /\ ends /\ open => TerminalOf(a, g) \in events']_allVars

(* "called only when a run starts for the first time. A previously started *)
(* agent must not be announced again, including when the previous start    *)
(* happened before mail was enabled" (store_mail_events.go:13), and a      *)
(* retry of a failed startup is announced.                                 *)
FirstStartsAreAnnounced ==
    [][\A a \in Agents :
          LET first == /\ \A g \in Generations : <<a, g>> \notin started
                       /\ \E g \in Generations : <<a, g>> \in started'
              open == agents[a].owner \in rooms
          IN  /\ JoinedOf(a) \in events' \ events => first /\ open
              /\ first /\ open => JoinedOf(a) \in events']_allVars

Recipients(e) == {m.to : m \in {n \in mails : n.about = e}}

(* "One event and its recipient snapshot commit together ... The event key *)
(* prevents a retry from broadcasting to later team members"               *)
(* (store_mail_events.go:63): main and the agent's peers of that moment    *)
(* get the mail, nobody of another team, and nobody later.                 *)
RecipientsAreTheTeam ==
    [][\A e \in Event :
          IF e \in events
          THEN Recipients(e)' = Recipients(e)
          ELSE Recipients(e)' =
                 IF e \in events'
                 THEN {"main"} \cup
                        {b \in Agents :
                           /\ b # Subject(e) /\ Exists(b)
                           /\ agents[b].owner = agents[Subject(e)].owner}
                 ELSE {}]_allVars

(* "leave that notice for a later wait" (wait.go:39): an outcome that      *)
(* wait_agent has delivered and acknowledged never shows up as unread mail *)
(* of main afterwards, in whatever order the receipt, the cleanup of a     *)
(* cancellation and a follow-up come.                                      *)
WaitedOutcomesStayRead ==
    \A w \in waits, m \in mails :
        w.acked /\ m.to = "main" /\ m.about = TerminalOf(w.agent, w.gen)
          => m.read

(* "AckTerminalMail marks only main's notification for the returned run as *)
(* read" (store_mail_events.go:49): what a receipt marks is the mail that  *)
(* tells the very outcome the wait delivered.                              *)
ReceiptsAreExact ==
    [][\A m \in mails, w \in waits :
          w \notin waits' /\ m \notin mails' =>
              /\ m.to = "main" /\ ~m.read
              /\ m.about = TerminalOf(w.agent, w.gen)
              /\ m.kind = w.outcome]_allVars
=============================================================================
