----------------------------- MODULE Connection -----------------------------
(***************************************************************************)
(* The host's connection: src/internal/subagent/serve.go (Connection,       *)
(* idKey) and initialize of app.go.                                         *)
(*                                                                         *)
(* A host may initialize more than once, and an answer is given by the      *)
(* SDK's runtime (external) later than the request was read, in any order.  *)
(* The connection keeps, per request id, whether that host supports         *)
(* background tasks, and takes the agent tools out of the answer if not.    *)
(* The first initialization also fixes the process's mailbox setting, for   *)
(* the tools and hooks are registered with it.                              *)
(*                                                                         *)
(* A JSON-RPC id is a string or a number.  As JSON-RPC requires, a host     *)
(* does not use one twice while it waits for the answer.                    *)
(* Bound: MaxRequests initialize requests, of all processes together.       *)
(***************************************************************************)
EXTENDS Naturals, FiniteSets

CONSTANTS
  MailboxDefault,  \* the mailbox setting of the environment
  Values,      \* what an id's string or number says
  Requests,    \* the initialize requests a host may send
  MaxRequests  \* how many initialize requests arrive

\* What an id is, and what the parameters may say of the mailbox.
Id == [kind : {"string", "number"}, value : Values]
Settings == {"enabled", "disabled", "absent", "invalid"}

Request == [id : Id, background : BOOLEAN, mailbox : Settings]

ASSUME ConnectionAssumption ==
  /\ MailboxDefault \in BOOLEAN /\ MaxRequests \in Nat
  /\ Requests \subseteq Request

VARIABLES
  enabled,         \* Runtime.mailboxEnabled
  serving,         \* is there a runtime?
  registered,      \* are the mailbox tools and hooks in the runtime's
                   \* snapshot of the registrations?
  advertised,      \* has the host been told of them?
  closed,          \* Connection.closed
  pending,         \* Connection.pending: a capability for each key
  waiting,         \* requests the runtime has not answered
  requests         \* how many requests arrived

connectionVars == <<enabled, serving, registered, advertised, closed,
                    pending, waiting, requests>>

\* idKey keeps the kind of the id.  Slip: it keeps what the id says.
KeyOfValue(id) == [value |-> id.value]
Key(id) == id

Wanted(request) ==
  IF request.mailbox = "absent" THEN MailboxDefault
                                ELSE request.mailbox = "enabled"

\* Application.initialize.
Accepted(request) ==
  /\ request.mailbox # "invalid"
  /\ serving => Wanted(request) = enabled

\* pending[key] = supported.
Set(key, background) ==
  {entry \in pending : entry.key # key}
    \cup {[key |-> key, background |-> background]}

\* Receive of extension.initialize, one critical section and then the
\* runtime's own Receive.  A request that is refused is answered with an
\* error and leaves nothing behind.
Receive(request) ==
  /\ ~closed /\ requests < MaxRequests
  /\ \A other \in waiting : other.id # request.id
  /\ requests' = requests + 1
  /\ IF Accepted(request)
       THEN /\ enabled' = Wanted(request)
            /\ serving' = TRUE
            /\ registered' = IF serving THEN registered ELSE enabled'
            /\ pending' = Set(Key(request.id), request.background)
            /\ waiting' = waiting \cup {request}
       ELSE UNCHANGED <<enabled, serving, registered, pending, waiting>>
  /\ UNCHANGED <<advertised, closed>>

\* What gateInitializeResult finds for a request, and the tools it leaves in
\* the answer: the agent tools unless it finds that the host of the request
\* does not support them, and the mailbox tools if they were registered.
Matching(request) == {entry \in pending : entry.key = Key(request.id)}

Answer(request) ==
  [agents |-> \A entry \in Matching(request) : entry.background,
   mailbox |-> registered]

\* deliver: the runtime's Answer(request) goes to the host, and what it was
\* gated with is taken.
Deliver(request) ==
  /\ request \in waiting /\ ~closed
  /\ pending' = pending \ Matching(request)
  /\ waiting' = waiting \ {request}
  /\ advertised' = (advertised \/ registered)
  /\ UNCHANGED <<enabled, serving, registered, closed,
                 requests>>

\* Close: end of input, an error, or a signal.  The runtime aborts what it
\* was handling, so nothing it had not answered will be.
Close ==
  /\ ~closed
  /\ closed' = TRUE
  /\ pending' = {} /\ waiting' = {}
  /\ advertised' = FALSE
  /\ UNCHANGED <<enabled, serving, registered, requests>>

\* A step of the application that answers no initialize request.
Elsewhere ==
  UNCHANGED <<enabled, serving, registered, advertised, closed, pending,
              waiting, requests>>

\* A new process, with the same environment.
Reconnect ==
  /\ closed /\ closed' = FALSE
  /\ enabled' = MailboxDefault /\ serving' = FALSE /\ registered' = FALSE
  /\ UNCHANGED <<advertised, pending, waiting, requests>>

ConnectionInit ==
  /\ enabled = MailboxDefault
  /\ serving = FALSE /\ registered = FALSE /\ advertised = FALSE
  /\ closed = FALSE
  /\ pending = {} /\ waiting = {} /\ requests = 0

ConnectionNext ==
  \/ \E request \in Requests : Receive(request)
  \/ \E request \in waiting : Deliver(request)

\* serve.go:104-105: whenever an accepted request is answered, the answer
\* advertises the agent tools if the host of that request supports background
\* tasks, and not if it does not, in whatever order requests are answered; and
\* the mailbox tools as that request asked for, also when it was not the first.
AnswersMatchTheirRequests ==
  \A request \in waiting :
    Answer(request) = [agents |-> request.background,
                       mailbox |-> Wanted(request)]
==============================================================================
