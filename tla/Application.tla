----------------------------- MODULE Application ----------------------------
(***************************************************************************)
(* One process of the extension serving one conversation: the connection    *)
(* and the inbox together (src/internal/subagent/app.go, serve.go).         *)
(*                                                                         *)
(* Mailbox tools and hooks reach the inbox only over a connection that was  *)
(* initialized, is open, and registered them.  When it closes, handlers in  *)
(* flight are aborted and the process ends; a new one knows nothing of what *)
(* was rendered or noted, while the mail, and the host's mark, stay.        *)
(* Bound: MaxRestarts restarts of the process.                              *)
(***************************************************************************)
EXTENDS Inbox, Connection

CONSTANT MaxRestarts

ASSUME ApplicationAssumption == MaxRestarts \in Nat

VARIABLE restarts

appVars == <<inboxVars, connectionVars, restarts>>

\* The host uses the mailbox tools and hooks once it has been told of them.
Serving == advertised

Init == InboxInit /\ ConnectionInit /\ restarts = 0

\* Handlers in flight are aborted, what they sent has been sent, and the
\* process ends with all it knew.
Disconnect ==
  /\ Close
  /\ Forget
  /\ doubt' = FALSE
  /\ UNCHANGED <<mailVars, allowed, widget, mark, lost, restarts>>

\* The host drops the widgets of the last process, or shows them on.
Restart ==
  /\ restarts < MaxRestarts
  /\ restarts' = restarts + 1
  /\ Reconnect
  /\ widget' \in {widget, None}
  /\ UNCHANGED <<mailVars, allowed, run, mark, pluginVars, lost, doubt>>

Mail == Send /\ Elsewhere /\ UNCHANGED restarts
Connect == ConnectionNext /\ UNCHANGED <<inboxVars, restarts>>
Handle ==
  /\ ~closed
  /\ Proceed \/ (Serving /\ Arrive)
  /\ Elsewhere /\ UNCHANGED restarts

Next == Mail \/ Connect \/ Handle \/ Disconnect \/ Restart

\* A handler that has begun goes on, and the host goes on with its runs,
\* while the connection is open.
Open(action) == ~closed /\ action /\ Elsewhere /\ UNCHANGED restarts

Fairness ==
  /\ WF_appVars(Open(Serving /\ HookBegins))
  /\ WF_appVars(Open(Restore \/ Remind))
  /\ \A c \in Calls : WF_appVars(Open(CallGoesOn(c)))

Spec == Init /\ [][Next]_appVars /\ Fairness

(***************************************************************************)
(* What is claimed.                                                         *)
(***************************************************************************)

\* mailbox.go:113: a call that finds its snapshot rendered already is right
\* to skip the rendering: the host shows that very state, whichever call
\* rendered it and whatever else was recorded or forgotten since.  Excepted
\* are a session start that is about to forget the record, and the three
\* situations in which the code cannot know what the host shows (doubt): the
\* reply to a rendering was lost, a session start could not forget because
\* its lookup failed, or the record it forgot came back.
SkippedIsShown ==
  [][\A c \in Calls :
       At(c, "comparing") /\ At(c, "unlocking")'
         => \/ widget = View(call[c].snap)
            \/ At(Hook, "restoring") \/ doubt]_appVars

\* The widget keeps coming to show the inbox as it is, however the calls that
\* render it race and whatever the host drops when a session starts, except
\* in those three situations.
WidgetCatchesUp == []<>(doubt \/ ~Serving \/ widget = View(Unread))

\* mailbox_notices.go:55-58: no mail stays unread and unannounced while the
\* process serves, though a reminder names only the newest, a lost response
\* consumes none, and neither contention nor failure of the widget
\* (mailbox.go:91) stops one.
MailIsNoticed ==
  \A id \in 1..MaxMails :
    (allowed /\ Serving /\ id \in Unread)
      ~> (id \in read \/ mark >= id \/ ~Serving)
==============================================================================
