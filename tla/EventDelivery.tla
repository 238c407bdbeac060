---------------------------- MODULE EventDelivery ----------------------------
(***************************************************************************)
(* The delivery ledger of the durable event log: src/lib/events.ts with    *)
(* the tables of db/migrations/20260922172721_events.sql.                  *)
(*                                                                         *)
(* One subscription (a code-declared handler, or a webhook when KeyOf[d]   *)
(* is NoKey) and one event per delivery: rows of different subscriptions   *)
(* share neither claims nor receipts.  A consumer is a process running     *)
(* src/jobs/event-consumer.ts, named by its consumerId (hostname#pid,      *)
(* which a restarted container gets again).                                *)
(*                                                                         *)
(* Every database write is a transaction raced against a wall-clock timer  *)
(* (withTimeout in src/db/client.ts): it commits and the caller goes on;   *)
(* or it fails; or the caller sees a timeout while the transaction still   *)
(* commits later.  Those last ones are the writes in `late`, and so is a   *)
(* handler that its timer gave up on.  A write of one statement is one     *)
(* step; the reservation of a key is a transaction of up to four           *)
(* statements under READ COMMITTED, which is a step for each.              *)
(*                                                                         *)
(* There is no clock.  A row is due, or stale, in any state in which the   *)
(* code could find it so: Claim takes any set of claimable rows, and the   *)
(* reaper any set of running ones (a paused process can be that late).     *)
(***************************************************************************)
EXTENDS Naturals, FiniteSets

CONSTANTS
    Delivery,     \* rows of event_deliveries, one per event
    Consumer,     \* consumer ids
    Key,          \* stored idempotency keys (scopedIdempotencyKey)
    NoKey,        \* a webhook, or a handler registered without idempotencyKey
    KeyOf,        \* KeyOf[d]: the key the handler derives from d's event
    Runnable,     \* Runnable[c]: deliveries whose handler c has registered
    NoDelivery,   \* a NULL delivery_id
    NoConsumer,   \* a NULL claimed_by
    MaxAttempts,  \* event_subscriptions.max_attempts
    Batch,        \* EVENTS_BATCH_SIZE
    MaxFaults,    \* bound: crashes, pauses, failed and late writes in a behaviour
    MaxAdmin      \* bound: admin, switches and retention steps in a behaviour

ASSUME KeysAssumption == /\ NoKey \notin Key
                         /\ KeyOf \in [Delivery -> Key \cup {NoKey}]
                         /\ NoDelivery \notin Delivery
                         /\ NoConsumer \notin Consumer
ASSUME RunnableAssumption == Runnable \in [Consumer -> SUBSET Delivery]
\* CHECK (max_attempts >= 1); the batch size is clamped to at least 1.
ASSUME BoundsAssumption == /\ MaxAttempts \in Nat \ {0}
                           /\ Batch \in Nat \ {0}
                           /\ MaxFaults \in Nat
                           /\ MaxAdmin \in Nat

VARIABLES
    status,     \* event_deliveries.status; "absent" before, "purged" and "swept" after
    attempts,   \* event_deliveries.attempts
    claimedBy,  \* event_deliveries.claimed_by
    active,     \* event_subscriptions.active
    receipt,    \* event_handler_receipts, by key
    task,       \* task[c][d]: c's processDelivery of d
    late,       \* writes, and handlers, given up on that may still commit
    succeeded,  \* history: deliveries whose handler returned successfully
    handled,    \* history: keys that have had a completed receipt
    overtaken,  \* history: deliveries whose key another transaction was about to take over
    faults,     \* faults so far, at most MaxFaults
    admin       \* operator and retention steps so far, at most MaxAdmin

rows == <<status, attempts, claimedBy>>
vars == <<status, attempts, claimedBy, active, receipt, task, late,
          succeeded, handled, overtaken, faults, admin>>

Status == {"absent", "pending", "running", "done", "failed", "dead", "purged", "swept"}

NoReceipt == [state |-> "none", owner |-> NoDelivery, event |-> NoDelivery]
Reserved(d) == [state |-> "reserved", owner |-> d, event |-> d]
Completed(d) == [state |-> "completed", owner |-> d, event |-> d]
Receipt == [state : {"none", "reserved", "completed"},
            owner : Delivery \cup {NoDelivery},
            event : Delivery \cup {NoDelivery}]

Idle == [pc |-> "idle", attempt |-> 0]
\* The statement a reservation is at: its INSERT, the SELECT of the owner, the
\* DELETE of an orphan, and the second INSERT.
Statement == {"claimed", "judge", "orphan", "again"}
\* The steps of processDelivery.  The last four are the write it is waiting for.
WriteKind == {"complete", "skip", "release", "fail"}
PC == {"idle", "handler"} \cup Statement \cup WriteKind
Task == [pc : PC, attempt : Nat]
Write == [kind : Statement \cup {"handler"} \cup WriteKind, by : Consumer, row : Delivery, attempt : Nat]

TypeOK ==
    /\ status \in [Delivery -> Status]
    /\ attempts \in [Delivery -> Nat]
    /\ claimedBy \in [Delivery -> Consumer \cup {NoConsumer}]
    /\ active \in BOOLEAN
    /\ receipt \in [Key -> Receipt]
    /\ task \in [Consumer -> [Delivery -> Task]]
    /\ late \subseteq Write
    /\ succeeded \subseteq Delivery
    /\ handled \subseteq Key
    /\ overtaken \subseteq Delivery
    /\ faults \in 0 .. MaxFaults
    /\ admin \in 0 .. MaxAdmin

Init ==
    /\ status = [d \in Delivery |-> "absent"]
    /\ attempts = [d \in Delivery |-> 0]
    /\ claimedBy = [d \in Delivery |-> NoConsumer]
    /\ active = TRUE
    /\ receipt = [k \in Key |-> NoReceipt]
    /\ task = [c \in Consumer |-> [d \in Delivery |-> Idle]]
    /\ late = {}
    /\ succeeded = {}
    /\ handled = {}
    /\ overtaken = {}
    /\ faults = 0
    /\ admin = 0

-----------------------------------------------------------------------------
(* Helpers. *)

HasKey(d) == KeyOf[d] # NoKey

\* Mutant of Holds: a fence on the status alone.
HoldsAnyClaim(c, d, n) == status[d] = "running"

\* The fence of every status write: the row is still this claim's.
Holds(c, d, n) == status[d] = "running" /\ claimedBy[d] = c /\ attempts[d] = n

\* deleteFrom("event_handler_receipts").where("deliveryId", "in", S)
DropReceipts(S) ==
    receipt' = [k \in Key |-> IF receipt[k].owner \in S THEN NoReceipt ELSE receipt[k]]

GoTo(c, d, pc) == task' = [task EXCEPT ![c][d].pc = pc]
Finish(c, d) == task' = [task EXCEPT ![c][d] = Idle]
Fault == faults < MaxFaults /\ faults' = faults + 1
AdminStep == admin < MaxAdmin /\ admin' = admin + 1
AsWrite(c, d, kind) == [kind |-> kind, by |-> c, row |-> d, attempt |-> task[c][d].attempt]

\* The tick awaits forEachLimited, so a consumer claims again only when all
\* its processDelivery calls have returned.
Free(c) == \A d \in Delivery : task[c][d] = Idle

\* Retention works on rows days old: no process or write still refers to them.
Quiet(d) == /\ \A c \in Consumer : task[c][d] = Idle
            /\ \A w \in late : w.row # d

-----------------------------------------------------------------------------
(* Publishing and the subscription. *)

\* publishEvent, committed with the caller's transaction: one delivery for the
\* active subscription.
Publish(d) ==
    /\ active
    /\ status[d] = "absent"
    /\ status' = [status EXCEPT ![d] = "pending"]
    /\ UNCHANGED <<attempts, claimedBy, active, receipt, task, late, succeeded, handled, overtaken, faults, admin>>

\* A boot sync that no longer finds the handler, or a webhook switched off;
\* and the sync of a build that declares it again.
SwitchSubscription ==
    /\ AdminStep
    /\ active' = ~active
    /\ UNCHANGED <<rows, receipt, task, late, succeeded, handled, overtaken, faults>>

-----------------------------------------------------------------------------
(* Claiming. *)

\* Mutant of Claimable: failed rows are never picked up again.
ClaimableOnce(c) == {d \in Runnable[c] : status[d] = "pending"}

Claimable(c) == {d \in Runnable[c] : status[d] \in {"pending", "failed"}}

ClaimRows(c, S) ==
    /\ Free(c)
    /\ active
    /\ S # {} /\ S \subseteq Claimable(c) /\ Cardinality(S) <= Batch
    /\ status' = [d \in Delivery |-> IF d \in S THEN "running" ELSE status[d]]
    /\ claimedBy' = [d \in Delivery |-> IF d \in S THEN c ELSE claimedBy[d]]
    /\ attempts' = [d \in Delivery |-> IF d \in S THEN attempts[d] + 1 ELSE attempts[d]]

\* claimDeliveries, committed before its timer.
Claim(c, S) ==
    /\ ClaimRows(c, S)
    /\ task' = [task EXCEPT ![c] = [d \in Delivery |->
                  IF d \in S THEN [pc |-> "claimed", attempt |-> attempts[d] + 1] ELSE Idle]]
    /\ UNCHANGED <<active, receipt, late, succeeded, handled, overtaken, faults, admin>>

\* The claim committed after the caller gave up: the rows are handed back
\* with releaseClaims, which nobody awaits.
ClaimCommitsLate(c, S) ==
    /\ ClaimRows(c, S)
    /\ late' = late \cup {[kind |-> "release", by |-> c, row |-> d, attempt |-> attempts[d] + 1] : d \in S}
    /\ Fault
    /\ UNCHANGED <<active, receipt, task, succeeded, handled, overtaken, admin>>

-----------------------------------------------------------------------------
(* The effect of each write on the tables. *)

ReleaseEffect(c, d, n) ==
    IF Holds(c, d, n)
    THEN /\ status' = [status EXCEPT ![d] = "pending"]
         /\ attempts' = [attempts EXCEPT ![d] = IF @ > 0 THEN @ - 1 ELSE 0]
         /\ claimedBy' = [claimedBy EXCEPT ![d] = NoConsumer]
         /\ DropReceipts({d})
         /\ UNCHANGED handled
    ELSE UNCHANGED <<rows, receipt, handled>>

\* Mutant of FailEffect: one attempt too many.
FailEffectOneMore(c, d, n) ==
    IF Holds(c, d, n)
    THEN /\ status' = [status EXCEPT ![d] = IF n > MaxAttempts THEN "dead" ELSE "failed"]
         /\ DropReceipts({d})
         /\ UNCHANGED <<attempts, claimedBy, handled>>
    ELSE UNCHANGED <<rows, receipt, handled>>

FailEffect(c, d, n) ==
    IF Holds(c, d, n)
    THEN /\ status' = [status EXCEPT ![d] = IF n >= MaxAttempts THEN "dead" ELSE "failed"]
         /\ DropReceipts({d})
         /\ UNCHANGED <<attempts, claimedBy, handled>>
    ELSE UNCHANGED <<rows, receipt, handled>>

MarkDone(c, d, n) ==
    /\ status' = [status EXCEPT ![d] = IF Holds(c, d, n) THEN "done" ELSE @]
    /\ UNCHANGED <<attempts, claimedBy>>

\* completeDelivery with the key: the receipt is written whether or not the
\* row was still this claim's; another delivery's receipt is left alone.
CompleteEffect(c, d, n) ==
    /\ MarkDone(c, d, n)
    /\ IF HasKey(d) /\ (receipt[KeyOf[d]].state = "none" \/ receipt[KeyOf[d]].owner = d)
       THEN /\ receipt' = [receipt EXCEPT ![KeyOf[d]] = Completed(d)]
            /\ handled' = handled \cup {KeyOf[d]}
       ELSE UNCHANGED <<receipt, handled>>

\* completeDelivery without a key, for a redelivery whose key is completed.
SkipEffect(c, d, n) == MarkDone(c, d, n) /\ UNCHANGED <<receipt, handled>>

\* Mutants of Judgement: every reservation is an orphan; every receipt counts as
\* completed.
JudgementTakesOver(d) ==
    CASE receipt[KeyOf[d]].state = "none" -> "release"
      [] receipt[KeyOf[d]].state = "completed" -> "skip"
      [] OTHER -> "orphan"
JudgementSkips(d) == IF receipt[KeyOf[d]].state = "none" THEN "release" ELSE "skip"

\* What the SELECT of reserveIdempotencyKey leads to: nothing is left of what the
\* INSERT ran into, the key is completed, its owner is running, or it is an orphan.
Judgement(d) ==
    LET r == receipt[KeyOf[d]]
    IN  CASE r.state = "none"      -> "release"
          [] r.state = "completed" -> "skip"
          [] r.state = "reserved"  ->
               IF r.owner \notin {NoDelivery, d} /\ status[r.owner] = "running"
               THEN "release" ELSE "orphan"

\* Where a statement of the reservation leads.  The DELETE takes whatever receipt
\* is there by then, and its row lock keeps others out until the INSERT after it;
\* if it finds none, another may come before the INSERT.  (A DELETE that waits for
\* another's to commit finds nothing, and its INSERT conflicts: as if its SELECT
\* had come after that commit.)
After(d, at) ==
    LET free == receipt[KeyOf[d]].state = "none"
    IN  CASE at = "claimed" -> IF free THEN "handler" ELSE "judge"
          [] at = "judge"   -> Judgement(d)
          [] at = "orphan"  -> IF free THEN "again" ELSE "handler"
          [] at = "again"   -> IF free THEN "handler" ELSE "release"

\* A transaction for e has judged the receipt of its key an orphan, and not yet
\* deleted it.
Judging(e) == \/ \E c \in Consumer : task[c][e].pc = "orphan"
              \/ \E w \in late : w.kind = "orphan" /\ w.row = e

\* Such a transaction threatens the key of d.
Judged(d) == \E e \in Delivery \ {d} : KeyOf[e] = KeyOf[d] /\ Judging(e)

\* The statement at which a reservation stands; it is the last one, and commits,
\* when the key is d's.
ReserveEffect(d, at) ==
    /\ IF After(d, at) = "handler"
       THEN /\ receipt' = [receipt EXCEPT ![KeyOf[d]] = Reserved(d)]
            /\ overtaken' = IF Judged(d) THEN overtaken \cup {d} ELSE overtaken \ {d}
       ELSE UNCHANGED <<receipt, overtaken>>
    /\ UNCHANGED <<rows, handled>>

Effect(w) ==
    \/ w.kind \in Statement /\ ReserveEffect(w.row, w.kind)
    \/ /\ \/ w.kind = "complete" /\ CompleteEffect(w.by, w.row, w.attempt)
          \/ w.kind = "skip"     /\ SkipEffect(w.by, w.row, w.attempt)
          \/ w.kind = "release"  /\ ReleaseEffect(w.by, w.row, w.attempt)
          \/ w.kind = "fail"     /\ FailEffect(w.by, w.row, w.attempt)
       /\ UNCHANGED overtaken

-----------------------------------------------------------------------------
(* processDelivery, from the claim to its status write. *)

\* A webhook, or a handler without an idempotency key: nothing to reserve.
StartUnkeyed(c, d) ==
    /\ task[c][d].pc = "claimed" /\ ~HasKey(d)
    /\ GoTo(c, d, "handler")
    /\ UNCHANGED <<rows, active, receipt, late, succeeded, handled, overtaken, faults, admin>>

\* reserveIdempotencyKey, a statement at a time.
Reserve(c, d) ==
    /\ task[c][d].pc \in Statement /\ HasKey(d)
    /\ ReserveEffect(d, task[c][d].pc)
    /\ GoTo(c, d, After(d, task[c][d].pc))
    /\ UNCHANGED <<active, late, succeeded, faults, admin>>

\* The reservation fails, or its caller times out: a failed attempt.  Its
\* transaction may go on from the statement it is at.
ReserveFails(c, d, commitsLate) ==
    /\ task[c][d].pc \in Statement /\ HasKey(d)
    /\ Fault
    /\ GoTo(c, d, "fail")
    /\ late' = IF commitsLate THEN late \cup {AsWrite(c, d, task[c][d].pc)} ELSE late
    /\ UNCHANGED <<rows, active, receipt, succeeded, handled, overtaken, admin>>

HandlerSucceeds(c, d) ==
    /\ task[c][d].pc = "handler"
    /\ succeeded' = succeeded \cup {d}
    /\ GoTo(c, d, "complete")
    /\ UNCHANGED <<rows, active, receipt, late, handled, overtaken, faults, admin>>

\* It threw, or the POST was refused.
HandlerFails(c, d) ==
    /\ task[c][d].pc = "handler"
    /\ GoTo(c, d, "fail")
    /\ UNCHANGED <<rows, active, receipt, late, succeeded, handled, overtaken, faults, admin>>

\* runWithTimeout gives up on the handler, which goes on regardless.
HandlerTimesOut(c, d) ==
    /\ task[c][d].pc = "handler"
    /\ Fault
    /\ GoTo(c, d, "fail")
    /\ late' = late \cup {AsWrite(c, d, "handler")}
    /\ UNCHANGED <<rows, active, receipt, succeeded, handled, overtaken, admin>>

HandlerEndsLate(w) ==
    /\ w \in late /\ w.kind = "handler"
    /\ late' = late \ {w}
    /\ succeeded' = succeeded \cup {w.row}
    /\ UNCHANGED <<rows, active, receipt, task, handled, overtaken, faults, admin>>

WriteCommits(c, d) ==
    /\ task[c][d].pc \in WriteKind
    /\ Effect(AsWrite(c, d, task[c][d].pc))
    /\ Finish(c, d)
    /\ UNCHANGED <<active, late, succeeded, faults, admin>>

\* The write throws.  The catch block records a failed attempt; when that
\* write fails too the row is left to the reaper.
WriteFails(c, d, commitsLate) ==
    /\ task[c][d].pc \in WriteKind
    /\ Fault
    /\ IF task[c][d].pc = "fail" THEN Finish(c, d) ELSE GoTo(c, d, "fail")
    /\ late' = IF commitsLate THEN late \cup {AsWrite(c, d, task[c][d].pc)} ELSE late
    /\ UNCHANGED <<rows, active, receipt, succeeded, handled, overtaken, admin>>

\* The next statement of a reservation that is not over.
Rest(w) ==
    IF w.kind \in Statement /\ After(w.row, w.kind) \in Statement
    THEN {[w EXCEPT !.kind = After(w.row, w.kind)]} ELSE {}

LateWriteCommits(w) ==
    /\ w \in late /\ w.kind # "handler"
    /\ Effect(w)
    /\ late' = (late \ {w}) \cup Rest(w)
    /\ UNCHANGED <<active, task, succeeded, faults, admin>>

LateWriteLost(w) ==
    /\ w \in late
    /\ late' = late \ {w}
    /\ UNCHANGED <<rows, active, receipt, task, succeeded, handled, overtaken, faults, admin>>

-----------------------------------------------------------------------------
(* Crashes, the reaper, the operator and retention. *)

\* What c is writing, for a delivery it works on or one it has given up on.
Writing(c) ==
    {AsWrite(c, d, task[c][d].pc) :
        d \in {e \in Delivery : task[c][e].pc \in WriteKind \/ (task[c][e].pc \in Statement /\ HasKey(e))}}
    \cup {w \in late : w.by = c}

\* What of that may commit once c is dead: a transaction with nothing left to do
\* but its commit.  A reservation's has run an INSERT, or the DELETE and the INSERT
\* after it.
InFlight(c) ==
    {w \in Writing(c) : w.kind \in WriteKind} \cup
    {[w EXCEPT !.kind = IF w.kind = "orphan" THEN "orphan" ELSE "again"] :
        w \in {v \in Writing(c) : v.kind \in Statement \ {"judge"}}}

Crash(c) ==
    /\ ~Free(c)
    /\ Fault
    /\ task' = [task EXCEPT ![c] = [d \in Delivery |-> Idle]]
    /\ \E L \in SUBSET InFlight(c) : late' = {w \in late : w.by # c} \cup L
    /\ UNCHANGED <<rows, active, receipt, succeeded, handled, overtaken, admin>>

\* Some process is still at work on d under its live claim.
Held(d) == \E c \in Consumer : task[c][d] # Idle /\ Holds(c, d, task[c][d].attempt)

\* requeueStaleDeliveries over the rows it finds stale.  The threshold is above
\* what a batch takes (staleClaimFloorMs), so a row that a process still holds
\* is stale only when that process has been paused: a fault.
RequeueStale(S) ==
    /\ S # {} /\ S \subseteq {d \in Delivery : status[d] = "running"}
    /\ IF \E d \in S : Held(d) THEN Fault ELSE UNCHANGED faults
    /\ status' = [d \in Delivery |->
                    IF d \notin S THEN status[d]
                    ELSE IF attempts[d] >= MaxAttempts THEN "dead" ELSE "failed"]
    /\ DropReceipts(S)
    /\ UNCHANGED <<attempts, claimedBy, active, task, late, succeeded, handled, overtaken, admin>>

\* replayDelivery, by hand.
Replay(d) ==
    /\ AdminStep
    /\ status[d] \in {"dead", "failed", "done"}
    /\ status' = [status EXCEPT ![d] = "pending"]
    /\ attempts' = [attempts EXCEPT ![d] = 0]
    /\ UNCHANGED <<claimedBy, active, receipt, task, late, succeeded, handled, overtaken, faults>>

\* The first half of sweepEventRetention: an old done row goes, and its
\* receipt stays with delivery_id NULL (ON DELETE SET NULL).
PurgeDone(d) ==
    /\ AdminStep
    /\ status[d] = "done" /\ Quiet(d)
    /\ status' = [status EXCEPT ![d] = "purged"]
    /\ receipt' = [k \in Key |->
                     IF receipt[k].owner = d THEN [receipt[k] EXCEPT !.owner = NoDelivery] ELSE receipt[k]]
    /\ UNCHANGED <<attempts, claimedBy, active, task, late, succeeded, handled, overtaken, faults>>

\* Mutant of SweepEvent: age alone decides.
SweepAnyEvent(d) ==
    /\ AdminStep
    /\ status[d] \notin {"absent", "swept"} /\ Quiet(d)
    /\ status' = [status EXCEPT ![d] = "swept"]
    /\ receipt' = [k \in Key |-> IF receipt[k].event = d THEN NoReceipt ELSE receipt[k]]
    /\ handled' = handled \ {k \in Key : receipt[k].event = d}
    /\ UNCHANGED <<attempts, claimedBy, active, task, late, succeeded, overtaken, faults>>

\* The second half: an old event goes with its delivery and its receipts,
\* unless the delivery is unfinished and its subscription active.
SweepEvent(d) ==
    /\ AdminStep
    /\ status[d] \notin {"absent", "swept"} /\ Quiet(d)
    /\ ~(active /\ status[d] \in {"pending", "running", "failed"})
    /\ status' = [status EXCEPT ![d] = "swept"]
    /\ receipt' = [k \in Key |-> IF receipt[k].event = d THEN NoReceipt ELSE receipt[k]]
    /\ handled' = handled \ {k \in Key : receipt[k].event = d}
    /\ UNCHANGED <<attempts, claimedBy, active, task, late, succeeded, overtaken, faults>>

-----------------------------------------------------------------------------
ConsumerStep(c, d) ==
    \/ StartUnkeyed(c, d) \/ Reserve(c, d)
    \/ HandlerSucceeds(c, d) \/ HandlerFails(c, d)
    \/ WriteCommits(c, d)

FaultStep ==
    \/ \E c \in Consumer : Crash(c) \/ \E S \in SUBSET Delivery : ClaimCommitsLate(c, S)
    \/ \E c \in Consumer, d \in Delivery, commitsLate \in BOOLEAN :
          ReserveFails(c, d, commitsLate) \/ WriteFails(c, d, commitsLate)
    \/ \E c \in Consumer, d \in Delivery : HandlerTimesOut(c, d)

Next ==
    \/ \E d \in Delivery : Publish(d) \/ Replay(d) \/ PurgeDone(d) \/ SweepEvent(d)
    \/ SwitchSubscription
    \/ \E c \in Consumer, S \in SUBSET Delivery : Claim(c, S)
    \/ \E c \in Consumer, d \in Delivery : ConsumerStep(c, d)
    \/ FaultStep
    \/ \E w \in late : LateWriteCommits(w) \/ HandlerEndsLate(w) \/ LateWriteLost(w)
    \/ \E S \in SUBSET Delivery : RequeueStale(S)

Spec == Init /\ [][Next]_vars

\* Every awaited call returns (its own timer fires); the loop never dies, and
\* claims the rows that have been due longest, so a row that some consumer can
\* run is in the end in a batch; each tick runs the reaper.
Fairness ==
    /\ \A c \in Consumer, d \in Delivery : WF_vars(ConsumerStep(c, d))
    /\ \A d \in Delivery :
          SF_vars(\E c \in Consumer, S \in SUBSET Delivery : d \in S /\ Claim(c, S))
    /\ \A d \in Delivery : WF_vars(~Held(d) /\ \E S \in SUBSET Delivery : d \in S /\ RequeueStale(S))

FairSpec == Spec /\ Fairness

-----------------------------------------------------------------------------
(* Properties. *)

Shared(d, e) == HasKey(d) /\ KeyOf[d] = KeyOf[e]

Served(d) == d \in succeeded \/ \E e \in succeeded : Shared(d, e)

\* A row is done (and may be purged) only after the handler succeeded for it
\* or for a delivery with the same idempotency key: completeDelivery, the
\* "seen" branch of processDelivery and every late write included.
DoneMeansHandled ==
    \A d \in Delivery : status[d] \in {"done", "purged"} => Served(d)

\* c's handler is running for d under a claim that has not been superseded.
InHandler(c, d) == task[c][d].pc = "handler" /\ Holds(c, d, task[c][d].attempt)

\* reserveIdempotencyKey: two deliveries with one key run the handler at the same
\* time under live claims, whatever the pods, the late writes and the takeover of
\* orphaned reservations do, only in one way: the reservation of one of them fell
\* between the SELECT and the DELETE of a takeover.
KeyMutex ==
    \A c, b \in Consumer, d, e \in Delivery :
        d # e /\ Shared(d, e) /\ InHandler(c, d) /\ InHandler(b, e)
            => d \in overtaken \/ e \in overtaken

\* What makes DoneMeansHandled inductive: the evidence behind a row marked done
\* is the write that marks it, in time or late, or a completed receipt.
HandledInv ==
    /\ DoneMeansHandled
    /\ \A c \in Consumer, d \in Delivery : task[c][d].pc \in {"complete", "skip"} => Served(d)
    /\ \A w \in late : w.kind \in {"complete", "skip"} => Served(w.row)
    /\ \A k \in Key : receipt[k].state = "completed" => \E e \in succeeded : KeyOf[e] = k

\* What makes KeyMutex inductive: a live handler run owns its key's receipt, and
\* nobody is about to delete it, unless it was overtaken.
Owns(d) == receipt[KeyOf[d]].owner = d /\ ~Judged(d)
KeyInv ==
    /\ \A k \in Key : receipt[k].state = "none" => receipt[k].owner = NoDelivery
    /\ \A k \in Key : receipt[k].owner # NoDelivery => receipt[k].event = receipt[k].owner
    /\ \A c \in Consumer, d \in Delivery :
          InHandler(c, d) /\ HasKey(d) /\ d \notin overtaken => Owns(d)

\* A row waiting for an attempt has one left, and a dead row has used them
\* all: releases give the attempt back, crashes and timeouts do not.
BudgetRespected ==
    \A d \in Delivery :
        /\ status[d] \in {"pending", "failed"} => attempts[d] < MaxAttempts
        /\ status[d] = "running" => attempts[d] \in 1 .. MaxAttempts
        /\ status[d] = "dead" => attempts[d] = MaxAttempts

\* What makes BudgetRespected inductive, and what the promise below needs of a
\* handler run: an absent row has no attempts, and nobody works on it.
BudgetInv == BudgetRespected /\ \A d \in Delivery : status[d] = "absent" => attempts[d] = 0
WorkInv == /\ \A c \in Consumer, d \in Delivery : task[c][d].pc # "idle" => status[d] # "absent"
           /\ \A w \in late : status[w.row] # "absent"

\* "Every status write is fenced on the claim token (claimed_by, attempts), so
\* a superseded claim's late write never lands on a peer's run": while c's
\* handler runs under its live claim, no write of another consumer changes the
\* row.  Only the reaper, which commits no consumer's write, may take it.
WroteOn(b, d) == task'[b][d] # task[b][d] \/ \E w \in late \ late' : w.by = b /\ w.row = d
KeepsPeerRuns ==
    \A c \in Consumer, d \in Delivery :
        InHandler(c, d) /\ (\E b \in Consumer \ {c} : WroteOn(b, d))
            => status'[d] = "running" /\ attempts'[d] = attempts[d]
PeerRunKept == [][KeepsPeerRuns]_vars

\* What the log promises, without its machinery.
Phase(d) == CASE status[d] \in {"pending", "running", "failed"} -> "open"
              [] status[d] \in {"purged", "swept"} -> "gone"
              [] OTHER -> status[d]

Promise == INSTANCE AtLeastOnce
               WITH SameKey <- Shared, phase <- [d \in Delivery |-> Phase(d)]

\* The ledger implements the promise: an open delivery only ever becomes done
\* (after a success), dead, or gone with its inactive subscription.
KeepsPromise == Promise!ASpec

\* At-least-once delivery: while the subscription stays active, a published
\* row does not stay open for ever, through crashes, late writes and parked
\* keys: it is done or dead in the end.
Settles ==
    \A d \in Delivery :
        <>[]active => (Phase(d) = "open" ~> Phase(d) # "open")

-----------------------------------------------------------------------------
(* What the repository says and the code does not do: stated here, refuted  *)
(* by TLC in the instances the README names under "Divergences".            *)

\* "Two same-key deliveries processed concurrently (one batch, or two pods with
\* Redis down) then cannot both pass a check-then-run guard: exactly one gets the
\* row" (src/lib/events.ts:949-952).
ExactlyOneRuns ==
    \A c, b \in Consumer, d, e \in Delivery :
        d # e /\ Shared(d, e) => ~(InHandler(c, d) /\ InHandler(b, e))

\* "A redelivery whose key is completed is marked done without running the
\* handler again" (20260922172721_events.sql): no handler starts for a key
\* that has had a completed receipt, until retention forgets the key.
CompletedKeyNeverRerun ==
    [][\A c \in Consumer, d \in Delivery :
         HasKey(d) /\ KeyOf[d] \in handled =>
             ~(task[c][d].pc = "claimed" /\ task'[c][d].pc = "handler")]_vars
=============================================================================
