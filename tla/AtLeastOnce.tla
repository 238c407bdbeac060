----------------------------- MODULE AtLeastOnce -----------------------------
(***************************************************************************)
(* What the durable event log promises of a delivery, with the claims, the *)
(* retries and the receipts left out: a delivery that was published stays  *)
(* open until its handler has succeeded (for it or for another delivery    *)
(* with its idempotency key) or until it is dead-lettered; it can be       *)
(* opened again by a replay; and it disappears only once it is settled or  *)
(* its subscription is switched off.                                       *)
(***************************************************************************)
CONSTANTS Delivery,  \* the rows of event_deliveries
          SameKey(_, _)  \* one handler success stands for both deliveries

VARIABLES phase,     \* phase[d]: "absent", "open", "done", "dead" or "gone"
          succeeded, \* deliveries whose handler has returned successfully
          active     \* the subscription is active

avars == <<phase, succeeded, active>>

AInit == /\ phase = [d \in Delivery |-> "absent"]
         /\ succeeded = {}
         /\ active = TRUE

\* A handler success for d, or for a delivery that shares its key.
Served(d) == d \in succeeded \/ \E e \in succeeded : SameKey(d, e)

Move(S, from, to) ==
    /\ S # {} /\ S \subseteq {d \in Delivery : phase[d] \in from}
    /\ phase' = [d \in Delivery |-> IF d \in S THEN to ELSE phase[d]]

APublish(S)    == active /\ Move(S, {"absent"}, "open") /\ UNCHANGED <<succeeded, active>>
ASucceed(d)    == /\ phase[d] # "absent"
                  /\ succeeded' = succeeded \cup {d} /\ UNCHANGED <<phase, active>>
ASettle(S)     == /\ \A d \in S : Served(d)
                  /\ Move(S, {"open"}, "done") /\ UNCHANGED <<succeeded, active>>
ADeadLetter(S) == Move(S, {"open"}, "dead") /\ UNCHANGED <<succeeded, active>>
AReplay(S)     == Move(S, {"dead", "done"}, "open") /\ UNCHANGED <<succeeded, active>>
AExpire(S)     == /\ active => \A d \in S : phase[d] # "open"
                  /\ Move(S, {"open", "done", "dead", "gone"}, "gone")
                  /\ UNCHANGED <<succeeded, active>>
ASwitch        == active' = ~active /\ UNCHANGED <<phase, succeeded>>

ANext == \/ \E S \in SUBSET Delivery : \/ APublish(S) \/ ASettle(S) \/ ADeadLetter(S)
                                       \/ AReplay(S) \/ AExpire(S)
         \/ \E d \in Delivery : ASucceed(d)
         \/ ASwitch

ASpec == AInit /\ [][ANext]_avars
=============================================================================
