-------------------------- MODULE ApplicationProofs -------------------------
(***************************************************************************)
(* Proofs about Application for all values of its constants: any number of  *)
(* initialize requests, answered in any order, with any ids; any number of  *)
(* calls that render the widget, of mails, lost replies and restarts.       *)
(*                                                                          *)
(* Of a step only what it does to the connection matters for the answers:  *)
(* it is one of the connection's own, closes it, opens it again or leaves   *)
(* it alone.  For the widget, what matters is who holds its lock: only that *)
(* call renders and records, so between its rendering and its entry in the  *)
(* cache no other call's comes.                                             *)
(***************************************************************************)
EXTENDS Application, TLAPS

-----------------------------------------------------------------------------
(* Initialize requests and their answers.                                  *)

ConnectionStep == ConnectionNext \/ Close \/ Reconnect \/ Elsewhere

(* The entry that was made for a request.                                  *)
EntryOf(request) == [key |-> Key(request.id),
                     background |-> request.background]

(* The requests that wait have distinct ids, an entry each that is theirs  *)
(* alone, and the mailbox setting the tools were registered with.          *)
WaitingOK ==
    /\ waiting \subseteq Request
    /\ \A one, other \in waiting : one.id = other.id => one = other
    /\ \A request \in waiting :
          /\ Matching(request) = {EntryOf(request)}
          /\ Wanted(request) = enabled
          /\ serving

ConnectionInv ==
    /\ WaitingOK
    /\ serving => registered = enabled
    /\ closed => waiting = {}

LEMMA ReceiveInv ==
    ASSUME ConnectionInv, NEW request \in Requests, Receive(request)
    PROVE  ConnectionInv'
<1>1. CASE ~Accepted(request)
  BY <1>1 DEF Receive, ConnectionInv, WaitingOK, Matching
<1>2. CASE Accepted(request)
  <2>1. /\ ~closed /\ \A other \in waiting : other.id # request.id
        /\ enabled' = Wanted(request) /\ serving'
        /\ registered' = IF serving THEN registered ELSE enabled'
        /\ pending' = Set(Key(request.id), request.background)
        /\ waiting' = waiting \cup {request}
        /\ closed' = closed
    BY <1>2 DEF Receive
  <2>2. serving => enabled' = enabled
    BY <1>2, <2>1 DEF Accepted
  <2>3. Matching(request)' = {EntryOf(request)}
    BY <2>1 DEF Set, EntryOf, Matching
  <2>4. ASSUME NEW other \in waiting
        PROVE  Matching(other)' = Matching(other)
    BY <2>1 DEF Set, Key, Matching
  <2>5. request \in Request
    BY ConnectionAssumption
  <2>6. WaitingOK'
    BY <2>1, <2>2, <2>3, <2>4, <2>5 DEF ConnectionInv, WaitingOK, EntryOf
  <2>7. QED
    BY <2>1, <2>2, <2>6 DEF ConnectionInv
<1>3. QED
  BY <1>1, <1>2

(* The answer takes the one entry of its own request, and no other's.      *)
LEMMA DeliverInv ==
    ASSUME ConnectionInv, NEW request \in waiting, Deliver(request)
    PROVE  ConnectionInv'
<1>1. /\ pending' = pending \ Matching(request)
      /\ waiting' = waiting \ {request}
      /\ UNCHANGED <<enabled, serving, registered, closed>>
  BY DEF Deliver
<1>2. ASSUME NEW other \in waiting'
      PROVE  Matching(other)' = Matching(other)
  <2>1. other.id # request.id
    BY <1>1 DEF ConnectionInv, WaitingOK
  <2>2. QED
    BY <1>1, <2>1 DEF Matching, Key
<1>3. WaitingOK'
  BY <1>1, <1>2 DEF ConnectionInv, WaitingOK, Wanted, EntryOf
<1>4. QED
  BY <1>1, <1>3 DEF ConnectionInv

LEMMA StepInv ==
    ASSUME ConnectionInv, [ConnectionStep]_connectionVars
    PROVE  ConnectionInv'
<1>1. CASE Close \/ Reconnect
  BY <1>1 DEF Close, Reconnect, ConnectionInv, WaitingOK
<1>2. CASE Elsewhere
  BY <1>2 DEF Elsewhere, ConnectionInv, WaitingOK, Matching
<1>3. CASE UNCHANGED connectionVars
  BY <1>3 DEF connectionVars, ConnectionInv, WaitingOK, Matching
<1>4. QED
  BY <1>1, <1>2, <1>3, ReceiveInv, DeliverInv
  DEF ConnectionStep, ConnectionNext

LEMMA ApplicationStep ==
    ASSUME [Next]_appVars
    PROVE  [ConnectionStep]_connectionVars
BY DEF Next, appVars, Mail, Connect, Handle, Disconnect, Restart,
       ConnectionStep

(* Every answer advertises what its own request supports, and the mailbox  *)
(* tools as it asked for them, in whatever order answers are given and     *)
(* whatever the inbox does meanwhile.                                      *)
THEOREM AnswersAlwaysMatch == Spec => []AnswersMatchTheirRequests
<1>1. Init => ConnectionInv
  BY DEF Init, ConnectionInit, ConnectionInv, WaitingOK
<1>2. ConnectionInv /\ [Next]_appVars => ConnectionInv'
  BY StepInv, ApplicationStep
<1>3. ConnectionInv => AnswersMatchTheirRequests
  <2>1. SUFFICES ASSUME ConnectionInv, NEW request \in waiting
                 PROVE  Answer(request) = [agents |-> request.background,
                                           mailbox |-> Wanted(request)]
    BY DEF AnswersMatchTheirRequests
  <2>2. /\ Matching(request) = {EntryOf(request)}
        /\ Wanted(request) = registered /\ request.background \in BOOLEAN
    BY <2>1 DEF ConnectionInv, WaitingOK, Request
  <2>3. EntryOf(request).background = request.background
    BY DEF EntryOf
  <2>4. (\A entry \in Matching(request) : entry.background)
          <=> request.background
    BY <2>2, <2>3
  <2>5. QED
    BY <2>2, <2>4 DEF Answer
<1>4. QED
  BY <1>1, <1>2, <1>3, PTL DEF Spec

-----------------------------------------------------------------------------
(* The widget's lock.                                                      *)

(* A call in one of these has the lock; in one of those it does not.       *)
Busy == {"comparing", "showing", "shown", "unlocking"}
Free == {"idle", "restoring", "locking", "answering"}

Call == [pc : Busy \cup Free \cup {"listing"}, locked : BOOLEAN,
         snap : SUBSET Nat]

LocksOK(new) ==
    /\ new.pc \in Busy => new.locked
    /\ new.pc \in Free => ~new.locked

LockInv ==
    /\ call \in [Calls -> Call] /\ lock \in Calls \cup {None}
    /\ \A c \in Calls : /\ LocksOK(call[c])
                        /\ call[c].locked <=> lock = c
    /\ \A c \in Others : call[c].pc # "restoring"

(* The call c moves on to new, and may take or release the lock.           *)
Moves(c, new) ==
    /\ call' = [call EXCEPT ![c] = new]
    /\ new \in Call /\ LocksOK(new)
    /\ new.pc = "restoring" => c = Hook
    /\ new.locked <=> lock' = c
    /\ \/ lock' = lock
       \/ lock = None /\ lock' = c
       \/ lock = c /\ lock' = None

LEMMA MovesLock ==
    ASSUME LockInv, NEW c \in Calls, NEW new, Moves(c, new)
    PROVE  LockInv'
<1>1. None \notin Calls /\ Hook \notin Others
  BY InboxAssumption DEF Calls
<1>2. call' \in [Calls -> Call] /\ lock' \in Calls \cup {None}
  BY DEF LockInv, Moves
<1>3. ASSUME NEW k \in Calls
      PROVE  LocksOK(call'[k]) /\ (call'[k].locked <=> lock' = k)
  BY <1>1 DEF LockInv, Moves
<1>4. ASSUME NEW k \in Others
      PROVE  call'[k].pc # "restoring"
  BY <1>1 DEF LockInv, Moves, Calls
<1>5. \A k \in Calls : LocksOK(call[k])'
  BY <1>3 DEF LocksOK
<1>6. QED
  BY <1>2, <1>3, <1>4, <1>5 DEF LockInv

(* No two calls hold the lock, or are between two steps that need it.      *)
LEMMA OneIsBusy ==
    ASSUME LockInv, NEW c \in Calls, NEW k \in Calls,
           call[c].pc \in Busy, call[k].pc \in Busy
    PROVE  c = k
BY DEF LockInv, LocksOK

-----------------------------------------------------------------------------
(* What the host shows is what was recorded.                               *)

(* Unless a session start is about to forget it, or a reply was lost.      *)
ShownInv ==
    ~doubt /\ ~At(Hook, "restoring") =>
      /\ \A c \in Calls : At(c, "shown") => widget = View(call[c].snap)
      /\ (\A c \in Calls : ~At(c, "shown")) => cache \subseteq {widget}

WidgetInv == sent \in Nat /\ doubt \in BOOLEAN /\ LockInv /\ ShownInv

(* A step that renders, records and forgets nothing.                       *)
Quiet(c, new) ==
    /\ Moves(c, new)
    /\ call[c].pc \notin {"restoring", "shown"}
    /\ new.pc \notin {"restoring", "shown"}
    /\ UNCHANGED <<widget, cache, doubt>>
    /\ sent' = sent

LEMMA QuietStep ==
    ASSUME WidgetInv, NEW c \in Calls, NEW new, Quiet(c, new)
    PROVE  WidgetInv'
<1>1. LockInv'
  BY MovesLock DEF Quiet, WidgetInv
<1>2. call' = [call EXCEPT ![c] = new] /\ call \in [Calls -> Call]
  BY DEF Quiet, Moves, WidgetInv, LockInv
<1>3. Hook \in Calls
  BY DEF Calls
<1>4. \A k \in Calls : /\ At(k, "shown")' <=> At(k, "shown")
                       /\ At(k, "shown") => call'[k] = call[k]
  BY <1>2 DEF Quiet, At
<1>5. At(Hook, "restoring")' <=> At(Hook, "restoring")
  BY <1>2, <1>3 DEF Quiet, At
<1>6. \A k \in Calls : At(k, "shown") =>
         View(call'[k].snap) = View(call[k].snap)
  BY <1>4
<1>7. ShownInv'
  <2>1. \A k \in Calls : View(call[k].snap)' = View(call'[k].snap)
    BY DEF View, Newest
  <2>2. QED
    BY <1>4, <1>5, <1>6, <2>1 DEF Quiet, WidgetInv, ShownInv
<1>8. QED
  BY <1>1, <1>7 DEF Quiet, WidgetInv

LEMMA SameCalls ==
    ASSUME WidgetInv, UNCHANGED <<call, lock, widget, cache, doubt>>,
           sent' \in Nat
    PROVE  WidgetInv'
<1>1. LockInv'
  BY DEF WidgetInv, LockInv, LocksOK
<1>2. ShownInv'
  BY DEF WidgetInv, ShownInv, At, View, Newest
<1>3. QED
  BY <1>1, <1>2 DEF WidgetInv

LEMMA CallFacts ==
    ASSUME LockInv, NEW c \in Calls
    PROVE  /\ call[c] \in Call /\ LocksOK(call[c])
           /\ call[c].locked <=> lock = c
           /\ c # None
BY InboxAssumption DEF LockInv, Calls

LEMMA ReturnMoves ==
    ASSUME LockInv, NEW c \in Calls, NEW snap \in SUBSET Nat,
           Return(c, snap), lock' # c,
           lock' = lock \/ (lock = c /\ lock' = None)
    PROVE  \E new : Moves(c, new) /\ new.pc \in {"answering", "idle"}
<1>1. PICK new : /\ call' = [call EXCEPT ![c] = new]
                 /\ new = IF Answering(c)
                            THEN [pc |-> "answering", locked |-> FALSE,
                                  snap |-> snap]
                            ELSE Resting
  BY DEF Return
<1>2. new \in Call /\ new.pc \in {"answering", "idle"} /\ ~new.locked
  BY <1>1 DEF Resting, Call, Free, Busy
<1>3. LocksOK(new)
  BY <1>2 DEF LocksOK, Free, Busy
<1>4. QED
  BY <1>1, <1>2, <1>3 DEF Moves

LEMMA FinishMoves ==
    ASSUME LockInv, NEW c \in Calls, NEW snap \in SUBSET Nat,
           Finish(c, snap)
    PROVE  \E new : /\ Moves(c, new)
                    /\ new.pc \in {"unlocking", "answering", "idle"}
<1>1. call[c] \in Call /\ (call[c].locked <=> lock = c) /\ lock' = lock
  BY CallFacts DEF Finish
<1>2. CASE call[c].locked
  <2>1. PICK left \in SUBSET Nat :
          call' = [call EXCEPT ![c].pc = "unlocking", ![c].snap = left]
    <3>1. (IF Answering(c) THEN snap ELSE {}) \in SUBSET Nat
      OBVIOUS
    <3>2. QED
      BY <1>2, <3>1 DEF Finish
  <2> DEFINE new == [call[c] EXCEPT !.pc = "unlocking", !.snap = left]
  <2>2. call' = [call EXCEPT ![c] = new]
    BY <2>1
  <2>3. new \in Call /\ new.pc = "unlocking" /\ new.locked
    BY <1>1, <1>2 DEF Call, Busy
  <2> HIDE DEF new
  <2>4. LocksOK(new)
    BY <2>3 DEF LocksOK, Free, Busy
  <2>5. QED
    BY <1>1, <1>2, <2>2, <2>3, <2>4 DEF Moves
<1>3. CASE ~call[c].locked
  <2>1. Return(c, snap) /\ lock' # c
    BY <1>1, <1>3 DEF Finish
  <2>2. QED
    BY <1>1, <2>1, ReturnMoves
<1>4. QED
  BY <1>2, <1>3

(* A call keeps what it has and goes on.                                   *)
LEMMA GoMoves ==
    ASSUME LockInv, NEW c \in Calls, NEW next \in Busy \cup Free, Go(c, next),
           lock' = lock, next = "restoring" => c = Hook,
           \/ call[c].pc \in Busy /\ next \in Busy
           \/ call[c].pc \in Free /\ next \in Free
    PROVE  \E new : /\ Moves(c, new) /\ new.pc = next
                    /\ new.snap = call[c].snap
<1> DEFINE new == [call[c] EXCEPT !.pc = next]
<1>1. /\ call[c] \in Call /\ LocksOK(call[c])
      /\ call[c].locked <=> lock = c
  BY CallFacts
<1>2. call' = [call EXCEPT ![c] = new]
  BY DEF Go
<1>3. /\ new \in Call /\ new.pc = next /\ new.locked = call[c].locked
      /\ new.snap = call[c].snap
  BY <1>1 DEF Call
<1> HIDE DEF new
<1>4. LocksOK(new)
  BY <1>1, <1>3 DEF LocksOK, Free, Busy
<1>5. QED
  BY <1>1, <1>2, <1>3, <1>4 DEF Moves

(* The steps of a call that is not about to render or record.              *)
LEMMA QuietCalls ==
    ASSUME WidgetInv, NEW c \in Calls,
           \/ \E ids \in SUBSET Ids : Ask(c, ids)
           \/ TryLock(c) \/ List(c) \/ ListFails(c) \/ Compare(c)
           \/ Unlock(c) \/ (ShowFails(c) /\ ~At(c, "shown"))
    PROVE  WidgetInv'
<1>1. /\ LockInv /\ sent \in Nat /\ call[c] \in Call
      /\ call[c].locked <=> lock = c
      /\ c # None /\ Unread \in SUBSET Nat /\ call[c].snap \in SUBSET Nat
      /\ LocksOK(call[c])
  BY CallFacts DEF WidgetInv, Unread, Ids, Call
<1>2. ASSUME NEW new, Moves(c, new), new.pc \notin {"restoring", "shown"},
             call[c].pc \notin {"restoring", "shown"},
             UNCHANGED <<widget, cache, doubt, sent>>
      PROVE  WidgetInv'
  BY <1>2, QuietStep DEF Quiet
<1>3. ASSUME NEW snap \in SUBSET Nat, Finish(c, snap),
             call[c].pc \notin {"restoring", "shown"},
             UNCHANGED <<widget, cache, doubt, sent>>
      PROVE  WidgetInv'
  BY <1>1, <1>2, <1>3, FinishMoves
<1>4. CASE \E ids \in SUBSET Ids : Ask(c, ids)
  <2>1. /\ At(c, "idle") /\ Go(c, "locking") /\ lock' = lock
        /\ UNCHANGED <<widget, cache, doubt, sent>>
    BY <1>4 DEF Ask, hostVars
  <2>2. \E new : Moves(c, new) /\ new.pc = "locking"
    BY <1>1, <2>1, GoMoves DEF At, Free, Busy
  <2>3. QED
    BY <1>2, <2>1, <2>2 DEF At
<1>5. CASE TryLock(c)
  <2> DEFINE new == [call[c] EXCEPT !.pc = "listing",
                                    !.locked = (lock = None)]
  <2>1. /\ call[c].pc = "locking" /\ ~call[c].locked
    BY <1>1, <1>5 DEF TryLock, At, LocksOK, Free
  <2>2. /\ call' = [call EXCEPT ![c] = new]
        /\ lock' = IF lock = None THEN c ELSE lock
        /\ UNCHANGED <<widget, cache, doubt, sent>>
    BY <1>5 DEF TryLock, hostVars, mailVars
  <2>3. /\ new \in Call /\ new.pc = "listing" /\ new.locked = (lock = None)
    <3>1. (lock = None) \in BOOLEAN
      OBVIOUS
    <3>2. QED
      BY <1>1, <3>1 DEF Call
  <2> HIDE DEF new
  <2>4. LocksOK(new)
    BY <2>3 DEF LocksOK, Free, Busy
  <2>5. new.locked <=> lock' = c
    BY <1>1, <2>1, <2>2, <2>3
  <2>6. Moves(c, new)
    BY <2>2, <2>3, <2>4, <2>5 DEF Moves
  <2>7. QED
    BY <1>2, <2>1, <2>2, <2>3, <2>6
<1>6. CASE List(c)
  <2>1. /\ call[c].pc = "listing" /\ lock' = lock
        /\ UNCHANGED <<widget, cache, doubt, sent>>
    BY <1>6 DEF List, At, hostVars, mailVars
  <2>2. CASE call[c].locked
    <3> DEFINE new == [call[c] EXCEPT !.pc = "comparing", !.snap = Unread]
    <3>1. call' = [call EXCEPT ![c] = new]
      BY <1>6, <2>2 DEF List
    <3>2. new \in Call /\ new.pc = "comparing" /\ new.locked
      BY <1>1, <2>2 DEF Call, Busy
    <3> HIDE DEF new
    <3>3. LocksOK(new)
      BY <3>2 DEF LocksOK, Free, Busy
    <3>4. Moves(c, new)
      BY <1>1, <2>1, <2>2, <3>1, <3>2, <3>3 DEF Moves
    <3>5. QED
      BY <1>2, <2>1, <3>2, <3>4
  <2>3. CASE ~call[c].locked
    <3>1. Return(c, Unread)
      BY <1>6, <2>3 DEF List
    <3>2. QED
      BY <1>1, <1>2, <2>1, <2>3, <3>1, ReturnMoves
  <2>4. QED
    BY <2>2, <2>3
<1>7. CASE ListFails(c)
  BY <1>3, <1>7 DEF ListFails, At, hostVars, mailVars
<1>8. CASE Compare(c)
  <2>1. /\ call[c].pc = "comparing"
        /\ UNCHANGED <<widget, cache, doubt, sent>>
        /\ Finish(c, call[c].snap) \/ (Go(c, "showing") /\ lock' = lock)
    BY <1>8 DEF Compare, At, hostVars, mailVars
  <2>2. CASE Go(c, "showing") /\ lock' = lock
    <3>1. \E new : Moves(c, new) /\ new.pc = "showing"
      BY <1>1, <2>1, <2>2, GoMoves DEF Busy
    <3>2. QED
      BY <1>2, <2>1, <3>1
  <2>3. QED
    BY <1>1, <1>3, <2>1, <2>2
<1>9. CASE Unlock(c)
  <2>1. /\ call[c].pc = "unlocking" /\ lock' = None
        /\ Return(c, call[c].snap)
        /\ UNCHANGED <<widget, cache, doubt, sent>>
    BY <1>9 DEF Unlock, At, hostVars, mailVars
  <2>2. lock = c
    BY <1>1, <2>1 DEF LocksOK, Busy
  <2>3. \E new : Moves(c, new) /\ new.pc \in {"answering", "idle"}
    BY <1>1, <2>1, <2>2, ReturnMoves
  <2>4. QED
    BY <1>2, <2>1, <2>3
<1>10. CASE ShowFails(c) /\ ~At(c, "shown")
  <2>1. /\ call[c].pc = "showing" /\ Finish(c, call[c].snap)
        /\ UNCHANGED <<widget, cache, sent>>
    BY <1>10 DEF ShowFails, At, hostVars, mailVars
  <2>2. doubt' = doubt
    BY <1>10 DEF ShowFails, WidgetInv
  <2>3. QED
    BY <1>1, <1>3, <2>1, <2>2
<1>11. QED
  BY <1>4, <1>5, <1>6, <1>7, <1>8, <1>9, <1>10

(* The call that renders is the only one that does.                        *)
LEMMA RenderingCalls ==
    ASSUME WidgetInv, NEW c \in Calls,
           Show(c) \/ Record(c) \/ (ShowFails(c) /\ At(c, "shown"))
    PROVE  WidgetInv'
<1>1. /\ LockInv /\ sent \in Nat /\ call[c] \in Call
      /\ call[c].snap \in SUBSET Nat /\ Hook \in Calls
  BY CallFacts DEF WidgetInv, Call, Calls
<1>2. /\ sent' = sent /\ doubt' \in BOOLEAN
      /\ call[c].pc \in {"showing", "shown"}
  BY DEF Show, Record, ShowFails, mailVars, At, WidgetInv
<1>3. \A k \in Calls : call[k].pc \in Busy => k = c
  BY <1>1, <1>2, OneIsBusy DEF Busy
<1>4. CASE Show(c)
  <2>1. PICK new : Moves(c, new) /\ new.pc = "shown"
                   /\ new.snap = call[c].snap
    <3>1. Go(c, "shown") /\ lock' = lock /\ call[c].pc = "showing"
      BY <1>4 DEF Show, At
    <3>2. QED
      BY <1>1, <3>1, GoMoves DEF Busy, Free
  <2>2. LockInv' /\ call' = [call EXCEPT ![c] = new]
    BY <1>1, <2>1, MovesLock DEF Moves
  <2>3. widget' = View(call[c].snap)
    BY <1>4 DEF Show
  <2>4. \A k \in Calls : At(k, "shown")' <=> k = c
    BY <1>1, <1>3, <2>1, <2>2 DEF At, LockInv, Busy
  <2>5. View(call[c].snap)' = View(call[c].snap)
    BY <1>1, <2>1, <2>2 DEF View, Newest, LockInv
  <2>6. ShownInv'
    BY <2>3, <2>4, <2>5 DEF ShownInv
  <2>7. QED
    BY <1>1, <1>2, <2>2, <2>6 DEF WidgetInv
<1>5. CASE Record(c) \/ (ShowFails(c) /\ At(c, "shown"))
  <2>1. call[c].pc = "shown" /\ Finish(c, call[c].snap)
    BY <1>5 DEF Record, ShowFails, At
  <2>2. PICK new : /\ Moves(c, new)
                   /\ new.pc \in {"unlocking", "answering", "idle"}
    BY <1>1, <2>1, FinishMoves
  <2>3. LockInv' /\ call' = [call EXCEPT ![c] = new]
    BY <1>1, <2>2, MovesLock DEF Moves
  <2>4. \A k \in Calls : ~At(k, "shown")'
    BY <1>1, <1>3, <2>2, <2>3 DEF At, LockInv, Busy
  <2>5. At(Hook, "restoring")' <=> At(Hook, "restoring")
    BY <1>1, <2>1, <2>2, <2>3 DEF At, LockInv
  <2>6. ShownInv'
    <3>1. CASE Record(c)
      <4>1. /\ cache' = {View(call[c].snap)} /\ widget' = widget
            /\ doubt' = doubt
        BY <3>1 DEF Record, Rendered, hostVars
      <4>2. ~doubt /\ ~At(Hook, "restoring") => widget = View(call[c].snap)
        BY <2>1 DEF WidgetInv, ShownInv, At
      <4>3. QED
        BY <2>4, <2>5, <4>1, <4>2 DEF ShownInv
    <3>2. CASE ShowFails(c) /\ At(c, "shown")
      BY <3>2 DEF ShowFails, ShownInv
    <3>3. QED
      BY <1>5, <3>1, <3>2
  <2>7. QED
    BY <1>1, <1>2, <2>3, <2>6 DEF WidgetInv
<1>6. QED
  BY <1>4, <1>5

(* The hooks.                                                              *)
LEMMA HookSteps ==
    ASSUME WidgetInv,
           \/ StartRun \/ Restore \/ RestoreFails \/ LookupFails
           \/ InitRun \/ EndTurn \/ EndRun \/ Remind \/ LoseReminder
    PROVE  WidgetInv'
<1>1. /\ LockInv /\ sent \in Nat /\ Hook \in Calls /\ None \notin Calls
      /\ call[Hook] \in Call /\ LocksOK(call[Hook])
      /\ call[Hook].locked <=> lock = Hook
  BY CallFacts, InboxAssumption DEF WidgetInv, Calls
<1>2. CASE StartRun
  <2>1. /\ call[Hook].pc = "idle" /\ Go(Hook, "restoring") /\ lock' = lock
        /\ sent' = sent /\ doubt' = doubt
    BY <1>2 DEF StartRun, At, mailVars
  <2>2. PICK new : Moves(Hook, new) /\ new.pc = "restoring"
    BY <1>1, <2>1, GoMoves DEF Free, Busy
  <2>3. LockInv' /\ At(Hook, "restoring")'
    BY <1>1, <2>2, MovesLock DEF Moves, LockInv, At
  <2>4. QED
    BY <1>1, <2>1, <2>3 DEF WidgetInv, ShownInv
<1>3. CASE Restore
  <2>1. /\ call[Hook].pc = "restoring" /\ Go(Hook, "locking")
        /\ lock' = lock /\ sent' = sent /\ cache' = {} /\ widget' = widget
        /\ doubt' = \E c \in Others :
                       At(c, "shown") /\ widget # View(call[c].snap)
    BY <1>3 DEF Restore, RecordsDropped, At, mailVars, hostVars, Nothing
  <2>2. PICK new : Moves(Hook, new) /\ new.pc = "locking"
    BY <1>1, <2>1, GoMoves DEF Free, Busy
  <2>3. LockInv' /\ call' = [call EXCEPT ![Hook] = new]
    BY <1>1, <2>2, MovesLock DEF Moves
  <2>4. ~doubt' => \A c \in Calls : At(c, "shown")' =>
                     widget' = View(call'[c].snap)
    <3>1. ASSUME ~doubt', NEW c \in Calls, At(c, "shown")'
          PROVE  widget' = View(call'[c].snap)
      <4>1. c # Hook
        BY <1>1, <2>2, <2>3, <3>1 DEF At, LockInv
      <4>2. call'[c] = call[c] /\ c \in Others
        BY <2>3, <4>1 DEF LockInv, Calls
      <4>3. QED
        BY <2>1, <3>1, <4>2 DEF At
    <3>2. QED
      BY <3>1
  <2>5. \A c \in Calls : View(call[c].snap)' = View(call'[c].snap)
    BY DEF View, Newest
  <2>6. ShownInv'
    BY <2>1, <2>4, <2>5 DEF ShownInv
  <2>7. QED
    BY <1>1, <2>1, <2>3, <2>6 DEF WidgetInv
<1>4. CASE InitRun \/ EndRun
  BY <1>1, <1>4, SameCalls DEF InitRun, EndRun, mailVars
<1>5. CASE EndTurn
  <2>1. /\ call[Hook].pc = "idle" /\ lock' = lock
        /\ UNCHANGED <<widget, cache, doubt, sent>>
        /\ Go(Hook, "locking") \/ UNCHANGED call
    BY <1>5 DEF EndTurn, At, mailVars
  <2>2. CASE Go(Hook, "locking")
    <3>1. \E new : Moves(Hook, new) /\ new.pc = "locking"
      BY <1>1, <2>1, <2>2, GoMoves DEF Free, Busy
    <3>2. QED
      BY <1>1, <2>1, <3>1, QuietStep DEF Quiet
  <2>3. QED
    BY <1>1, <2>1, <2>2, SameCalls
<1>6. CASE Remind \/ LoseReminder
  <2>1. /\ call[Hook].pc = "answering" /\ lock' = lock
        /\ call' = [call EXCEPT ![Hook] = Resting]
        /\ UNCHANGED <<widget, cache, doubt, sent>>
    BY <1>6 DEF Remind, LoseReminder, At, mailVars
  <2>2. /\ Resting \in Call /\ Resting.pc = "idle" /\ ~Resting.locked
        /\ LocksOK(Resting)
    BY DEF Resting, Call, Free, Busy, LocksOK
  <2>3. Moves(Hook, Resting)
    BY <1>1, <2>1, <2>2 DEF Moves, LocksOK, Free
  <2>4. QED
    BY <1>1, <2>1, <2>2, <2>3, QuietStep DEF Quiet
<1>7. CASE RestoreFails
  <2>1. /\ call[Hook].pc = "restoring" /\ lock' = lock
        /\ call' = [call EXCEPT ![Hook] = Resting]
        /\ UNCHANGED <<widget, cache, sent>>
    BY <1>7 DEF RestoreFails, At, mailVars, hostVars
  <2>2. /\ doubt' \in BOOLEAN
        /\ ~doubt' => /\ ~RecordsDropped
                      /\ \/ cache \in {{}, {widget}}
                         \/ \E c \in Others : At(c, "shown")
    BY <1>7 DEF RestoreFails, Nothing, WidgetInv
  <2>3. /\ Resting \in Call /\ Resting.pc = "idle" /\ ~Resting.locked
        /\ LocksOK(Resting)
    BY DEF Resting, Call, Free, Busy, LocksOK
  <2>4. Moves(Hook, Resting)
    BY <1>1, <2>1, <2>3 DEF Moves, LocksOK, Free
  <2>5. LockInv'
    BY <1>1, <2>4, MovesLock
  <2>6. ASSUME NEW c \in Others
        PROVE  call'[c] = call[c] /\ (At(c, "shown")' <=> At(c, "shown"))
    BY <1>1, <2>1, InboxAssumption DEF At
  <2>7. ~At(Hook, "shown")'
    BY <1>1, <2>1, <2>3 DEF At, LockInv
  <2>8. \A c \in Calls : View(call[c].snap)' = View(call'[c].snap)
    BY DEF View, Newest
  <2>9. ASSUME ~doubt'
        PROVE  /\ \A c \in Calls : At(c, "shown")'
                                     => widget' = View(call[c].snap)'
               /\ (\A c \in Calls : ~At(c, "shown")')
                    => cache' \subseteq {widget'}
    <3>1. ASSUME NEW c \in Calls, At(c, "shown")'
          PROVE  widget' = View(call[c].snap)'
      <4>1. c \in Others
        BY <2>7, <3>1 DEF Calls
      <4>2. widget = View(call[c].snap)
        BY <2>2, <2>6, <2>9, <3>1, <4>1 DEF RecordsDropped
      <4>3. QED
        BY <2>1, <2>6, <2>8, <4>1, <4>2
    <3>2. ASSUME \A c \in Calls : ~At(c, "shown")'
          PROVE  cache' \subseteq {widget'}
      <4>1. \A c \in Others : ~At(c, "shown")
        BY <2>6, <3>2 DEF Calls
      <4>2. QED
        BY <2>1, <2>2, <2>9, <4>1
    <3>3. QED
      BY <3>1, <3>2
  <2>10. ShownInv'
    BY <2>9 DEF ShownInv
  <2>11. QED
    BY <1>1, <2>1, <2>2, <2>5, <2>10 DEF WidgetInv
<1>8. CASE LookupFails
  <2>1. /\ call[Hook].pc = "locking" /\ lock' = lock /\ Return(Hook, {})
        /\ UNCHANGED <<widget, cache, doubt, sent>>
    BY <1>8 DEF LookupFails, At, mailVars, hostVars
  <2>2. lock' # Hook
    BY <1>1, <2>1 DEF LocksOK, Free, Busy
  <2>3. \E new : Moves(Hook, new) /\ new.pc \in {"answering", "idle"}
    BY <1>1, <2>1, <2>2, ReturnMoves
  <2>4. QED
    BY <1>1, <2>1, <2>3, QuietStep DEF Quiet
<1>9. QED
  BY <1>2, <1>3, <1>4, <1>5, <1>6, <1>7, <1>8

(* A new process has no calls and has recorded nothing.                    *)
LEMMA ForgetStep ==
    ASSUME Forget, sent' \in Nat, doubt' \in BOOLEAN
    PROVE  WidgetInv'
<1>1. \A c \in Calls : call'[c] = Resting
  BY DEF Forget
<1>2. /\ Resting \in Call /\ Resting.pc = "idle" /\ ~Resting.locked
      /\ LocksOK(Resting)
  BY DEF Resting, Call, Free, Busy, LocksOK
<1>3. call' \in [Calls -> Call] /\ lock' = None /\ cache' = {}
  BY <1>2 DEF Forget, Nothing
<1>4. LockInv'
  <2>1. \A c \in Calls : LocksOK(call[c])'
    BY <1>1, <1>2 DEF LocksOK
  <2>2. \A c \in Calls : call'[c].locked <=> lock' = c
    BY <1>1, <1>2, <1>3, InboxAssumption DEF Calls
  <2>3. \A c \in Others : call'[c].pc # "restoring"
    BY <1>1, <1>2 DEF Calls
  <2>4. QED
    BY <1>3, <2>1, <2>2, <2>3 DEF LockInv
<1>5. ShownInv'
  BY <1>1, <1>2, <1>3 DEF ShownInv, At
<1>6. QED
  BY <1>4, <1>5 DEF WidgetInv

(* Between two connections nothing is under way and nothing recorded.      *)
ClosedInv == closed => cache = {} /\ \A c \in Calls : At(c, "idle")

LEMMA ClosedStep ==
    ASSUME WidgetInv, ClosedInv, [Next]_appVars
    PROVE  ClosedInv'
<1>1. CASE Mail
  BY <1>1 DEF Mail, Send, Elsewhere, connectionVars, pluginVars, ClosedInv,
              At
<1>2. CASE Connect
  BY <1>2 DEF Connect, ConnectionNext, Receive, Deliver, inboxVars,
              pluginVars, ClosedInv, At
<1>3. CASE Handle
  BY <1>3 DEF Handle, Elsewhere, connectionVars, ClosedInv
<1>4. CASE Disconnect
  BY <1>4 DEF Disconnect, Forget, Nothing, Resting, ClosedInv, At
<1>5. CASE Restart
  BY <1>5 DEF Restart, Reconnect, ClosedInv
<1>6. CASE UNCHANGED appVars
  BY <1>6 DEF appVars, inboxVars, pluginVars, connectionVars, ClosedInv, At
<1>7. QED
  BY <1>1, <1>2, <1>3, <1>4, <1>5, <1>6 DEF Next

LEMMA RestartStep ==
    ASSUME WidgetInv, ClosedInv, Restart
    PROVE  WidgetInv'
<1>1. /\ UNCHANGED <<call, lock, cache, doubt, sent>>
      /\ cache = {} /\ \A c \in Calls : At(c, "idle")
  BY DEF Restart, Reconnect, pluginVars, mailVars, ClosedInv
<1>2. LockInv'
  BY <1>1 DEF WidgetInv, LockInv, LocksOK
<1>3. ShownInv'
  BY <1>1 DEF ShownInv, At
<1>4. QED
  BY <1>1, <1>2, <1>3 DEF WidgetInv

LEMMA WidgetStep ==
    ASSUME WidgetInv, ClosedInv, [Next]_appVars
    PROVE  WidgetInv'
<1>1. sent \in Nat /\ doubt \in BOOLEAN
  BY DEF WidgetInv
<1>2. CASE Mail
  BY <1>1, <1>2, SameCalls DEF Mail, Send, hostVars, pluginVars
<1>3. CASE Connect \/ UNCHANGED appVars
  BY <1>1, <1>3, SameCalls
  DEF Connect, appVars, inboxVars, hostVars, pluginVars, mailVars
<1>4. CASE Handle
  <2>1. Proceed \/ Arrive
    BY <1>4 DEF Handle
  <2>2. CASE Proceed
    BY <2>2, HookSteps, QuietCalls, RenderingCalls
    DEF Proceed, CallGoesOn, CallFails
  <2>3. CASE Arrive
    BY <2>3, HookSteps, QuietCalls DEF Arrive, HookBegins, Calls
  <2>4. QED
    BY <2>1, <2>2, <2>3
<1>5. CASE Disconnect
  BY <1>1, <1>5, ForgetStep DEF Disconnect, mailVars
<1>6. CASE Restart
  BY <1>6, RestartStep
<1>7. QED
  BY <1>2, <1>3, <1>4, <1>5, <1>6 DEF Next

-----------------------------------------------------------------------------
(* A call that skips its rendering.                                        *)

WidgetAndClosed == WidgetInv /\ ClosedInv

(* A step of a call is of no other call.                                   *)
LEMMA OthersStay ==
    ASSUME LockInv, NEW k \in Calls, CallGoesOn(k) \/ CallFails(k),
           NEW c \in Calls, c # k
    PROVE  call'[c] = call[c]
<1>1. call \in [Calls -> Call]
  BY DEF LockInv
<1>2. CASE TryLock(k) \/ Show(k)
  BY <1>1, <1>2 DEF TryLock, Show, Go
<1>3. CASE List(k) \/ Unlock(k)
  BY <1>1, <1>3 DEF List, Unlock, Return
<1>4. CASE Compare(k)
  BY <1>1, <1>4 DEF Compare, Go, Finish, Return
<1>5. CASE Record(k) \/ ListFails(k) \/ ShowFails(k)
  BY <1>1, <1>5 DEF Record, ListFails, ShowFails, Finish, Return
<1>6. QED
  BY <1>2, <1>3, <1>4, <1>5 DEF CallGoesOn, CallFails

(* Only a comparison takes a call from its snapshot to its unlocking.      *)
LEMMA SkipStep ==
    ASSUME WidgetInv, Next, NEW c \in Calls,
           call[c].pc = "comparing", call'[c].pc = "unlocking"
    PROVE  cache = Rendered(call[c].snap)
<1>1. LockInv /\ call \in [Calls -> Call] /\ Hook \in Calls
  BY DEF WidgetInv, LockInv, Calls
<1>2. ASSUME NEW k \in Calls, CallGoesOn(k) \/ CallFails(k)
      PROVE  Compare(c)
  <2>1. k = c
    BY <1>1, <1>2, OthersStay
  <2>2. QED
    BY <1>2, <2>1 DEF CallGoesOn, CallFails, TryLock, List, Show, Record,
                      Unlock, ListFails, ShowFails, At
<1>3. Compare(c)
  <2>1. Handle
    BY <1>1 DEF Next, Mail, Send, Connect, inboxVars, pluginVars,
                Disconnect, Forget, Resting, Restart
  <2>2. /\ ~Restore /\ ~RestoreFails /\ ~LookupFails
        /\ ~Remind /\ ~LoseReminder /\ ~HookBegins
    BY <1>1 DEF Restore, RestoreFails, LookupFails, Remind, LoseReminder,
                HookBegins, StartRun, InitRun, EndTurn, EndRun, Go, Return,
                At, Resting
  <2>3. \A k \in Others : \A ids \in SUBSET Ids : ~Ask(k, ids)
    BY <1>1 DEF Ask, Go, At, Calls
  <2>4. QED
    BY <1>2, <2>1, <2>2, <2>3 DEF Handle, Proceed, Arrive
<1>4. ~Go(c, "showing")
  <2>1. call[c] \in Call
    BY <1>1, CallFacts
  <2>2. QED
    BY <1>1, <2>1 DEF Go, Call
<1>5. QED
  BY <1>3, <1>4 DEF Compare

(* mailbox.go:113: whoever skips its rendering, because the cache holds    *)
(* what it would render, is right to: the host shows that state, whichever *)
(* call rendered it and whatever was recorded or forgotten since.  Only    *)
(* the holder of the lock renders and records, so nothing comes between.   *)
THEOREM SkippedRenderingsAreShown == Spec => SkippedIsShown
<1> DEFINE Shown(c) == \/ widget = View(call[c].snap)
                       \/ At(Hook, "restoring") \/ doubt
           Skips == \A c \in Calls :
                      At(c, "comparing") /\ At(c, "unlocking")' => Shown(c)
<1>1. Init => WidgetAndClosed
  <2>1. SUFFICES ASSUME Init PROVE WidgetAndClosed
    OBVIOUS
  <2>2. Resting \in Call /\ LocksOK(Resting) /\ ~Resting.locked
        /\ Resting.pc = "idle"
    BY DEF Resting, Call, LocksOK, Free, Busy
  <2>3. /\ call = [c \in Calls |-> Resting] /\ lock = None
        /\ cache = {} /\ sent = 0 /\ doubt = FALSE /\ closed = FALSE
    BY <2>1 DEF Init, InboxInit, Nothing, ConnectionInit
  <2>4. LockInv
    BY <2>2, <2>3, InboxAssumption DEF LockInv, Calls
  <2>5. ShownInv /\ ClosedInv
    BY <2>2, <2>3 DEF ShownInv, ClosedInv, At
  <2>6. QED
    BY <2>3, <2>4, <2>5 DEF WidgetAndClosed, WidgetInv
<1>2. WidgetAndClosed /\ [Next]_appVars => WidgetAndClosed'
  BY WidgetStep, ClosedStep DEF WidgetAndClosed
<1>3. WidgetAndClosed /\ [Next]_appVars => [Skips]_appVars
  <2>1. SUFFICES ASSUME WidgetInv, Next, NEW c \in Calls,
                        At(c, "comparing"), At(c, "unlocking")'
                 PROVE  Shown(c)
    BY DEF WidgetAndClosed
  <2>2. cache = {View(call[c].snap)}
    BY <2>1, SkipStep DEF At, Rendered
  <2>3. \A k \in Calls : ~At(k, "shown")
    BY <2>1, OneIsBusy DEF WidgetInv, At, Busy
  <2>4. QED
    BY <2>1, <2>2, <2>3 DEF WidgetInv, ShownInv
<1>4. QED
  BY <1>1, <1>2, <1>3, PTL DEF Spec, SkippedIsShown
=============================================================================
