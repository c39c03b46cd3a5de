------------------------------- MODULE Inbox --------------------------------
(***************************************************************************)
(* One participant's inbox and what keeps the participant aware of it:      *)
(* src/internal/subagent/mailbox.go (the widget), mailbox_notices.go (the   *)
(* hidden reminder at turn.end), mailbox_tools.go and, below them,          *)
(* SendMail, ListMails and ReadMails of src/internal/db.                    *)
(*                                                                         *)
(* A mail is its id: ids only grow (AUTOINCREMENT), so the inbox is the     *)
(* number of mails sent to it and the set of those read.  How lifecycle     *)
(* mail comes to be sent is module MailStore's subject; here it arrives.    *)
(*                                                                         *)
(* The host awaits one hook at a time (the call Hook); the tool calls of    *)
(* other agents and turns, and the runtime's refresh when an agent's state  *)
(* changes (the calls Others), run beside it.  All of them go through       *)
(* syncMailboxWidget: a TryLock, one snapshot, a comparison with what was   *)
(* rendered last, and a call to the host's user interface.                  *)
(*                                                                         *)
(* The host is external: it shows the widget it was sent last, drops it     *)
(* when a session starts, and appends a reminder to the history when its    *)
(* revision is above the mark it keeps (mailbox_notices.go:55-58).          *)
(* Bounds: MaxMails mails, MaxLost calls that fail or whose reply is lost.  *)
(***************************************************************************)
EXTENDS Naturals, FiniteSets, FiniteSetsExt

CONSTANTS
  Hook,      \* the hook call of the participant's conversation
  Others,    \* the other calls that refresh the widget
  None,      \* no call, or no widget
  Limit,     \* how many headers the widget shows (mailboxWidgetLimit)
  MaxMails,  \* how many mails are sent
  MaxLost    \* how many calls of the database or the host go wrong

ASSUME InboxAssumption ==
  /\ Hook \notin Others /\ None \notin Others \cup {Hook}
  /\ Limit \in Nat \ {0} /\ MaxMails \in Nat /\ MaxLost \in Nat

VARIABLES
  sent,      \* mails sent to the inbox so far: their ids are 1..sent
  read,      \* the ids with a read_at
  allowed,   \* does the participant's profile allow the reading tools?
  run,       \* the participant's run, as the host sees it
  readable,  \* Runtime.mailboxReadable
  cache,     \* Runtime.mailboxWidgets: what was rendered last, if anything
  lock,      \* the call that holds the widget's lock
  call,      \* each call: where it is, whether it got the lock, what it read
  widget,    \* what the host shows
  mark,      \* the newest revision the host has appended
  lost,      \* calls that went wrong so far
  doubt      \* history: what the host shows may not be what was recorded

mailVars == <<sent, read>>
hostVars == <<allowed, run, widget, mark>>
pluginVars == <<readable, cache, lock, call>>
inboxVars == <<mailVars, hostVars, pluginVars, lost, doubt>>

Calls == Others \cup {Hook}
Ids == 1..sent
Unread == Ids \ read

\* What the widget shows of a snapshot: how many are unread and the newest
\* headers; of an empty inbox nothing, for its widget is removed.
Newest(ids) == {id \in ids : Cardinality({n \in ids : n > id}) < Limit}
View(ids) ==
  IF ids = {} THEN None ELSE [count |-> Cardinality(ids), top |-> Newest(ids)]

\* mailboxWidgetState, what the cache holds once a snapshot has been
\* rendered.
Rendered(ids) == {View(ids)}
Nothing == {}

Resting == [pc |-> "idle", locked |-> FALSE, snap |-> {}]

At(c, pc) == call[c].pc = pc
Go(c, pc) == call' = [call EXCEPT ![c].pc = pc]

\* turn.end answers with what it read, every other call with what it was
\* asked for.
Answering(c) == c = Hook /\ run = "turning"

Return(c, snap) ==
  call' = [call EXCEPT ![c] =
    IF Answering(c)
      THEN [pc |-> "answering", locked |-> FALSE, snap |-> snap]
      ELSE Resting]

\* A call is done with the widget; if it has the lock, it still holds it.
Finish(c, snap) ==
  /\ IF call[c].locked
       THEN call' = [call EXCEPT ![c].pc = "unlocking",
                       ![c].snap = IF Answering(c) THEN snap ELSE {}]
       ELSE Return(c, snap)
  /\ UNCHANGED lock

(***************************************************************************)
(* The mail.                                                                *)
(***************************************************************************)

\* SendMail, or a lifecycle event that publishes to this inbox.
Send ==
  /\ sent < MaxMails
  /\ sent' = sent + 1
  /\ UNCHANGED <<read, hostVars, pluginVars, lost, doubt>>

\* A tool call: read_agent_messages reads a batch in one transaction,
\* list_agent_messages and list_agent_contacts read none; each then refreshes
\* the widget, as the runtime does when it renders its agents.
Ask(c, ids) ==
  /\ At(c, "idle")
  /\ read' = read \cup ids
  /\ Go(c, "locking")
  /\ UNCHANGED <<sent, hostVars, readable, cache, lock, lost, doubt>>

(***************************************************************************)
(* The hooks.                                                               *)
(***************************************************************************)

\* session.start and agent.start: the host may have dropped its widgets, the
\* note of what a run may read is reset, then the widget is restored.
StartRun ==
  /\ At(Hook, "idle") /\ run = "ended"
  /\ run' = "starting"
  /\ readable' = FALSE
  /\ widget' \in {widget, None}
  /\ Go(Hook, "restoring")
  /\ UNCHANGED <<mailVars, allowed, mark, cache, lock, lost, doubt>>

\* A call is about to record a rendering that the host has dropped since.
RecordsDropped ==
  \E c \in Others : At(c, "shown") /\ widget # View(call[c].snap)

\* restoreMailboxWidget: what was rendered last is forgotten.
Restore ==
  /\ At(Hook, "restoring")
  /\ cache' = Nothing
  /\ doubt' = RecordsDropped
  /\ Go(Hook, "locking")
  /\ UNCHANGED <<mailVars, hostVars, readable, lock, lost>>

\* resolveMailboxForCall fails: the database is busy, or the hook's time is
\* up.  Nothing is forgotten and nothing rendered, though the host may have
\* dropped what is recorded: safeSyncAgentWidget renders main's inbox without
\* that lookup.
RestoreFails ==
  /\ At(Hook, "restoring") /\ lost < MaxLost
  /\ lost' = lost + 1
  /\ doubt' = \/ doubt \/ RecordsDropped
              \/ /\ cache \notin {Nothing, {widget}}
                 /\ \A c \in Others : ~At(c, "shown")
  /\ call' = [call EXCEPT ![Hook] = Resting]
  /\ UNCHANGED <<mailVars, hostVars, readable, cache, lock>>

\* agent.init: noteMailboxTools.
InitRun ==
  /\ At(Hook, "idle") /\ run = "starting"
  /\ run' = "running"
  /\ readable' = allowed
  /\ UNCHANGED <<mailVars, allowed, widget, mark, cache, lock, call, lost,
                 doubt>>

\* turn.end: mailboxFollowUp, which stops at once when the run may not read.
EndTurn ==
  /\ At(Hook, "idle") /\ run \in {"running", "turned"}
  /\ IF readable
       THEN run' = "turning" /\ Go(Hook, "locking")
       ELSE run' = "turned" /\ UNCHANGED call
  /\ UNCHANGED <<mailVars, allowed, widget, mark, readable, cache, lock,
                 lost, doubt>>

\* The same lookup fails at turn.end: the answer names no mail.
LookupFails ==
  /\ At(Hook, "locking") /\ Answering(Hook) /\ lost < MaxLost
  /\ lost' = lost + 1
  /\ Return(Hook, {})
  /\ UNCHANGED <<mailVars, hostVars, readable, cache, lock, doubt>>

\* agent.finished, after at least one turn.
EndRun ==
  /\ At(Hook, "idle") /\ run = "turned"
  /\ run' = "ended"
  /\ readable' = FALSE
  /\ UNCHANGED <<mailVars, allowed, widget, mark, cache, lock, call, lost,
                 doubt>>

(***************************************************************************)
(* syncMailboxWidget.                                                       *)
(***************************************************************************)

\* Contention never holds a reminder up: a call that misses the lock reads
\* its snapshot all the same.
TryLock(c) ==
  /\ At(c, "locking")
  /\ lock' = IF lock = None THEN c ELSE lock
  /\ call' = [call EXCEPT ![c].pc = "listing", ![c].locked = (lock = None)]
  /\ UNCHANGED <<mailVars, hostVars, readable, cache, lost, doubt>>

\* ListMails.  Slip: a call that missed the lock renders what it read.
ListUnlocked(c) ==
  /\ At(c, "listing")
  /\ call' = [call EXCEPT ![c].pc = "comparing", ![c].snap = Unread]
  /\ UNCHANGED <<mailVars, hostVars, readable, cache, lock, lost, doubt>>

List(c) ==
  /\ At(c, "listing")
  /\ IF call[c].locked
       THEN call' = [call EXCEPT ![c].pc = "comparing", ![c].snap = Unread]
       ELSE Return(c, Unread)
  /\ UNCHANGED <<mailVars, hostVars, readable, cache, lock, lost, doubt>>

\* The database is busy: no snapshot, so no reminder from this call.
ListFails(c) ==
  /\ At(c, "listing") /\ lost < MaxLost
  /\ lost' = lost + 1
  /\ Finish(c, {})
  /\ UNCHANGED <<mailVars, hostVars, readable, cache, doubt>>

\* What was rendered last is what there is to render.
Compare(c) ==
  /\ At(c, "comparing")
  /\ IF cache = Rendered(call[c].snap)
       THEN Finish(c, call[c].snap)
       ELSE Go(c, "showing") /\ UNCHANGED lock
  /\ UNCHANGED <<mailVars, hostVars, readable, cache, lost, doubt>>

\* SetWidget or RemoveWidget reaches the host.
Show(c) ==
  /\ At(c, "showing")
  /\ widget' = View(call[c].snap)
  /\ Go(c, "shown")
  /\ doubt' = FALSE
  /\ UNCHANGED <<mailVars, allowed, run, mark, readable, cache, lock, lost>>

\* It succeeded, and is recorded.
Record(c) ==
  /\ At(c, "shown")
  /\ cache' = Rendered(call[c].snap)
  /\ Finish(c, call[c].snap)
  /\ UNCHANGED <<mailVars, hostVars, readable, lost, doubt>>

\* No time is left for it, it fails, or its reply is lost: the snapshot is
\* kept for the reminder.
ShowFails(c) ==
  /\ call[c].pc \in {"showing", "shown"} /\ lost < MaxLost
  /\ lost' = lost + 1
  /\ doubt' = (doubt \/ At(c, "shown"))
  /\ Finish(c, call[c].snap)
  /\ UNCHANGED <<mailVars, hostVars, readable, cache>>

\* The deferred Unlock, once the call has nothing else to do.
Unlock(c) ==
  /\ At(c, "unlocking")
  /\ lock' = None
  /\ Return(c, call[c].snap)
  /\ UNCHANGED <<mailVars, hostVars, readable, cache, lost, doubt>>

(***************************************************************************)
(* The reminder.                                                            *)
(***************************************************************************)

\* The revision is the newest unread id.  Slip: the oldest.
OldestRevision(ids) == Min(ids)
Revision(ids) == Max(ids)

\* turn.end's answer reaches the host.
Remind ==
  /\ At(Hook, "answering")
  /\ LET snap == call[Hook].snap IN
       mark' = IF snap # {} /\ Revision(snap) > mark THEN Revision(snap)
                                                     ELSE mark
  /\ run' = "turned"
  /\ call' = [call EXCEPT ![Hook] = Resting]
  /\ UNCHANGED <<mailVars, allowed, widget, readable, cache, lock, lost,
                 doubt>>

\* It does not.
LoseReminder ==
  /\ At(Hook, "answering") /\ lost < MaxLost
  /\ lost' = lost + 1
  /\ run' = "turned"
  /\ call' = [call EXCEPT ![Hook] = Resting]
  /\ UNCHANGED <<mailVars, allowed, widget, mark, readable, cache, lock,
                 doubt>>

(***************************************************************************)
(* The steps, for module Application to put together.                       *)
(***************************************************************************)

InboxInit ==
  /\ sent = 0 /\ read = {} /\ allowed \in BOOLEAN
  /\ run = "ended" /\ readable = FALSE /\ cache = Nothing /\ lock = None
  /\ call = [c \in Calls |-> Resting]
  /\ widget = None /\ mark = 0 /\ lost = 0 /\ doubt = FALSE

\* A new process knows nothing of what the last one rendered or noted.
Forget ==
  /\ run' = "ended" /\ readable' = FALSE /\ cache' = Nothing /\ lock' = None
  /\ call' = [c \in Calls |-> Resting]

HookBegins == StartRun \/ InitRun \/ EndTurn \/ EndRun
CallGoesOn(c) ==
  TryLock(c) \/ List(c) \/ Compare(c) \/ Show(c) \/ Record(c) \/ Unlock(c)
CallFails(c) == ListFails(c) \/ ShowFails(c)

\* What a call that has begun does next.
Proceed ==
  \/ Restore \/ RestoreFails \/ LookupFails \/ Remind \/ LoseReminder
  \/ \E c \in Calls : CallGoesOn(c) \/ CallFails(c)

\* What the host asks for.
Arrive ==
  HookBegins \/ (\E c \in Others : \E ids \in SUBSET Ids : Ask(c, ids))
==============================================================================
