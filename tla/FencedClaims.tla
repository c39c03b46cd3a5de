---------------------------- MODULE FencedClaims ----------------------------
(***************************************************************************)
(* What the agent store promises about claims, without tables or            *)
(* transactions: a claim on an agent is a lease of one runtime on one       *)
(* generation.  A live claim is never replaced, only extended or released,  *)
(* and one transaction releases and acquires claims of one runtime; a claim *)
(* that has lapsed may be ended by any transaction; a new claim always has  *)
(* a new generation; and the outcome of a generation is decided once, under *)
(* its own claim.  Which worker released a claim is not part of it: that is *)
(* what leases are for, and they are not visible here.                      *)
(***************************************************************************)
EXTENDS Integers

CONSTANTS Agents, Runtimes, NoRuntime, LeaseDuration

VARIABLES
    clock,
    claim,      \* the latest claim on each agent: generation, holder, expiry
    outcome     \* how each generation of each agent ended

claimVars == <<clock, claim, outcome>>

Decided == {"completed", "failed", "interrupted", "canceled", "withdrawn"}

Free(a) == claim[a].holder = NoRuntime
Live(a) == ~Free(a) /\ claim[a].until > clock

Freed(c) == [c EXCEPT !.holder = NoRuntime, !.until = 0]

Latest(a) == outcome[a][claim[a].gen]

(* The latest generation of an agent ends, or has already ended, this way. *)
Decides(a, how) ==
    outcome'[a] = IF Latest(a) = "pending"
                  THEN [outcome[a] EXCEPT ![claim[a].gen] = how]
                  ELSE outcome[a]

Keep(a) == claim'[a] = claim[a] /\ outcome'[a] = outcome[a]

(* Anyone: the claim ran out.                                              *)
Lapse(a) ==
    /\ ~Free(a) /\ ~Live(a)
    /\ claim'[a] = Freed(claim[a])
    /\ Decides(a, "interrupted")

(* The holder renews, or the parent cancels: the holder keeps the claim.   *)
Extend(a) ==
    /\ Live(a)
    /\ claim'[a] = [claim[a] EXCEPT !.until = clock + LeaseDuration]
    /\ outcome'[a] = outcome[a] \/ Decides(a, "canceled")

(* The holder gives the claim up, deciding the outcome if it is open.      *)
Release(a, r) ==
    /\ Live(a)
    /\ claim[a].holder = r
    /\ claim'[a] = Freed(claim[a])
    /\ \E how \in Decided : Decides(a, how)

(* A new claim, never over a live one.  A withdrawn agent is gone.         *)
Acquire(a, r) ==
    LET gen == claim[a].gen + 1
    IN  /\ ~Live(a)
        /\ claim[a].gen # 0 => Latest(a) # "withdrawn"
        /\ claim'[a] = [gen |-> gen, holder |-> r,
                        until |-> clock + LeaseDuration]
        /\ outcome[a][gen] = "none"
        /\ outcome'[a] =
             [g \in DOMAIN outcome[a] |->
                IF g = gen THEN "pending"
                ELSE IF g = claim[a].gen /\ outcome[a][g] = "pending"
                THEN "interrupted"
                ELSE outcome[a][g]]

Init ==
    /\ clock = 0
    /\ claim = [a \in Agents |-> [gen |-> 0, holder |-> NoRuntime, until |-> 0]]
    /\ \A a \in Agents : \A g \in DOMAIN outcome[a] : outcome[a][g] = "none"

(* One transaction; it may reap any lapsed claims on the way.  The claims  *)
(* it releases or acquires are all of one runtime.                         *)
Transact(r) ==
    /\ \A a \in Agents :
          \/ Keep(a)
          \/ Lapse(a)
          \/ Extend(a)
          \/ Release(a, r)
          \/ Acquire(a, r)
    /\ UNCHANGED clock

SetClock == clock' \in Nat /\ UNCHANGED <<claim, outcome>>

Next == SetClock \/ \E r \in Runtimes : Transact(r)

Spec == Init /\ [][Next]_claimVars
=============================================================================
