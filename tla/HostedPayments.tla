--------------------------- MODULE HostedPayments ---------------------------
(***************************************************************************)
(* Sales that Chipp settles, mirrored into this app's tables               *)
(* (src/services/chipp-entitlements.ts and chipp-donations.ts over         *)
(* src/lib/chipp-payments.ts).  Chipp numbers the states of a sale; a      *)
(* state comes in by push (an entitlement.changed event, handled by the    *)
(* event consumer in any order and more than once) or by pull (a read of   *)
(* all of an organization's sales, applied one after the other).           *)
(***************************************************************************)
EXTENDS Naturals, FiniteSets

CONSTANTS
    Sale, Gift,     \* purchases; the ones that are donations
    ModeOf,         \* the mode Chipp sold in
    ProductOf,
    Request,        \* requests that pull
    MaxSeq, MaxFaults   \* bounds

VARIABLES
    seq,      \* seq[s]: number of the sale's newest state at Chipp, 0 before it is paid
    listed,   \* products in Chipp's catalog
    mirrored, \* products in the app's table
    mode,     \* chippAccessMode() of the running deployment
    pushes,   \* states on their way through the inbox: <<sale, number>>
    pull,     \* pull[r]: states request r has read and not applied
    row,      \* row[s]: chipp_seq of the mirrored sale, 0 without a row
    missed,   \* sales whose newest state was skipped or lost
    faults

vars == <<seq, listed, mirrored, mode, pushes, pull, row, missed, faults>>

Product == {ProductOf[s] : s \in Sale}
State == Sale \X (1 .. MaxSeq)

TypeOK ==
    /\ seq \in [Sale -> 0 .. MaxSeq] /\ row \in [Sale -> 0 .. MaxSeq]
    /\ listed \subseteq Product /\ mirrored \subseteq Product /\ mode \in {"test", "live"}
    /\ pushes \subseteq State /\ pull \in [Request -> SUBSET State]
    /\ missed \subseteq Sale /\ faults \in 0 .. MaxFaults

Init ==
    /\ seq = [s \in Sale |-> 0] /\ row = [s \in Sale |-> 0]
    /\ listed = Product /\ mirrored = {} /\ mode = "test"
    /\ pushes = {} /\ pull = [r \in Request |-> {}]
    /\ missed = {} /\ faults = 0

Fault == faults < MaxFaults /\ faults' = faults + 1

-----------------------------------------------------------------------------
\* The customer pays at Chipp, or the sale changes there; Chipp pushes it.
SaleChanges(s) ==
    /\ seq[s] < MaxSeq /\ (seq[s] = 0 => ProductOf[s] \in listed)
    /\ seq' = [seq EXCEPT ![s] = @ + 1]
    /\ pushes' = pushes \cup {<<s, seq[s] + 1>>}
    /\ UNCHANGED <<listed, mirrored, mode, pull, row, missed, faults>>
CatalogChanges(p) ==
    /\ Fault /\ listed' = (listed \ {p}) \cup ({p} \ listed)
    /\ UNCHANGED <<seq, mirrored, mode, pushes, pull, row, missed>>

\* syncChippCatalog: what is listed is mirrored; what no longer is stays.
SyncChippCatalog ==
    /\ mirrored' = mirrored \cup listed
    /\ UNCHANGED <<seq, listed, mode, pushes, pull, row, missed, faults>>

\* productIdForKey syncs the catalog when it does not know the product.
ProductKnown(s) == ProductOf[s] \in mirrored \cup listed
Outcome(x) ==
    CASE ModeOf[x[1]] # mode                          -> "other_mode"
      [] x[1] \notin Gift /\ ~ProductKnown(x[1])      -> "unknown_product"
      [] OTHER                                        -> "applied"

\* Mutant of Newer: whatever arrives last is written.
NewerAlways(x) == TRUE

\* The condition of the upsert's update.
Newer(x) == row[x[1]] < x[2]

\* applyChippEntitlement and applyChippDonation.
Apply(x) ==
    /\ row' = IF Outcome(x) = "applied" /\ Newer(x) THEN [row EXCEPT ![x[1]] = x[2]] ELSE row
    /\ mirrored' = IF ModeOf[x[1]] = mode /\ x[1] \notin Gift /\ ProductOf[x[1]] \notin mirrored
                   THEN mirrored \cup listed ELSE mirrored
    /\ missed' = IF x[2] # seq[x[1]] THEN missed
                 ELSE IF Outcome(x) = "applied" THEN missed \ {x[1]} ELSE missed \cup {x[1]}

\* handleEntitlementChanged: a state that is skipped is not tried again.  The
\* event may be delivered once more, and is lost when its retries are used up.
HandlePush(x) ==
    /\ x \in pushes /\ Apply(x)
    /\ \/ pushes' = pushes \ {x} /\ UNCHANGED faults
       \/ pushes' = pushes /\ Fault
    /\ UNCHANGED <<seq, listed, mode, pull>>
LosePush(x) ==
    /\ x \in pushes /\ Fault /\ pushes' = pushes \ {x}
    /\ missed' = IF x[2] = seq[x[1]] /\ row[x[1]] < x[2] THEN missed \cup {x[1]} ELSE missed
    /\ UNCHANGED <<seq, listed, mirrored, mode, pull, row>>

\* syncChippEntitlements: the billing page and the return from checkout; and
\* confirmChippDonation, which reads one gift.
Pull(r, S) ==
    /\ pull[r] = {} /\ (S \cap Gift = {} \/ Cardinality(S) = 1)
    /\ pull' = [pull EXCEPT ![r] = {x \in State : x[1] \in S /\ x[2] = seq[x[1]]}]
    /\ UNCHANGED <<seq, listed, mirrored, mode, pushes, row, missed, faults>>
ApplyPulled(r, x) ==
    /\ x \in pull[r] /\ Apply(x) /\ pull' = [pull EXCEPT ![r] = @ \ {x}]
    /\ UNCHANGED <<seq, listed, mode, pushes, faults>>
\* An error ends the pull; it is logged and the next one catches up.
PullFails(r) ==
    /\ pull[r] # {} /\ Fault /\ pull' = [pull EXCEPT ![r] = {}]
    /\ UNCHANGED <<seq, listed, mirrored, mode, pushes, row, missed>>

\* The app goes live: its requests end, the events in its tables stay.
GoLive ==
    /\ mode = "test" /\ mode' = "live" /\ pull' = [r \in Request |-> {}]
    /\ missed' = missed \cup {s \in Sale : ModeOf[s] = "live"}
    /\ UNCHANGED <<seq, listed, mirrored, pushes, row, faults>>

Next ==
    \/ \E s \in Sale : SaleChanges(s)
    \/ \E p \in Product : CatalogChanges(p)
    \/ SyncChippCatalog \/ GoLive
    \/ \E x \in pushes : HandlePush(x) \/ LosePush(x)
    \/ \E r \in Request : PullFails(r) \/ (\E S \in SUBSET Sale : S # {} /\ Pull(r, S)) \/ \E x \in pull[r] : ApplyPulled(r, x)

Spec == Init /\ [][Next]_vars

-----------------------------------------------------------------------------
(* Properties. *)

InTransit(s) == (\E x \in pushes : x[1] = s) \/ \E r \in Request : \E x \in pull[r] : x[1] = s

\* "[A]n old event that arrives late never undoes a newer one": once nothing is
\* in transit for a sale, and its newest state was not skipped or lost, the app
\* shows the newest state, whatever order pushes and pulls came in.
NewestStateShows ==
    \A s \in Sale : ModeOf[s] = mode /\ s \notin missed /\ ~InTransit(s) => row[s] = seq[s]
=============================================================================
