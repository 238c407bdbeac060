---------------------------- MODULE EmailOutbox ----------------------------
(***************************************************************************)
(* The outbox of src/services/email-outbox.service.ts, drained by the job  *)
(* runner of every process.  A row is identified by its idempotency key.   *)
(*                                                                         *)
(* A pass claims a batch in one transaction (FOR UPDATE SKIP LOCKED, so    *)
(* claims are atomic), then sends its rows one after the other and writes  *)
(* each outcome with no condition but the id.  A row in 'sending' is taken *)
(* again once its lock is ten minutes old; that its sender is by then gone *)
(* is only an assumption, which a Pause breaks.                            *)
(***************************************************************************)
EXTENDS Naturals, FiniteSets

CONSTANTS
    Email,        \* rows, by idempotency key
    Runner,       \* processes that run src/jobs/runner.ts
    MaxAttempts,  \* email_outbox.max_attempts
    Limit,        \* rows per pass
    MaxCrashes,   \* bound: processes that die, outcome writes that fail
    MaxPauses     \* bound: locks that go stale under a live pass

ASSUME OutboxAssumption ==
    MaxAttempts \in Nat \ {0} /\ Limit \in Nat \ {0} /\ MaxCrashes \in Nat /\ MaxPauses \in Nat

VARIABLES
    status, attempts, \* the row
    batch,    \* batch[r]: rows r's pass has claimed and not finished
    claimed,  \* claimed[r][e]: the attempts value r read for e, 0 once it is done with e
    outcome,  \* outcome[r]: the row r is sending, and how the send went
    sends,    \* sends[e]: messages the transport accepted, up to 2
    rejected, \* rows whose sender domain was refused
    crashes, pauses

vars == <<status, attempts, batch, claimed, outcome, sends, rejected, crashes, pauses>>
row == <<status, attempts>>

Nothing == [email |-> {}, result |-> "none"]
Result == {"none", "accepted", "refused", "unverified"}

TypeOK ==
    /\ status \in [Email -> {"absent", "pending", "sending", "sent", "failed", "cancelled"}]
    /\ attempts \in [Email -> Nat]
    /\ batch \in [Runner -> SUBSET Email]
    /\ claimed \in [Runner -> [Email -> Nat]]
    /\ outcome \in [Runner -> [email : SUBSET Email, result : Result]]
    /\ \A r \in Runner : outcome[r].email = {} <=> outcome[r].result = "none"
    /\ sends \in [Email -> 0 .. 2] /\ rejected \subseteq Email
    /\ crashes \in 0 .. MaxCrashes /\ pauses \in 0 .. MaxPauses

Init ==
    /\ status = [e \in Email |-> "absent"] /\ attempts = [e \in Email |-> 0]
    /\ batch = [r \in Runner |-> {}]
    /\ claimed = [r \in Runner |-> [e \in Email |-> 0]]
    /\ outcome = [r \in Runner |-> Nothing]
    /\ sends = [e \in Email |-> 0] /\ rejected = {}
    /\ crashes = 0 /\ pauses = 0

CrashStep == crashes < MaxCrashes /\ crashes' = crashes + 1

-----------------------------------------------------------------------------
\* enqueueEmail; with a key that is already there it changes nothing.
Enqueue(e) ==
    /\ status[e] = "absent"
    /\ status' = [status EXCEPT ![e] = "pending"]
    /\ UNCHANGED <<attempts, batch, claimed, outcome, sends, rejected, crashes, pauses>>

\* Mutant of CancelEmail: any row that has not been sent.
CancelUnsent(e) ==
    /\ status[e] \in {"pending", "sending"}
    /\ status' = [status EXCEPT ![e] = "cancelled"]
    /\ UNCHANGED <<attempts, batch, claimed, outcome, sends, rejected, crashes, pauses>>

CancelEmail(e) ==
    /\ status[e] = "pending"
    /\ status' = [status EXCEPT ![e] = "cancelled"]
    /\ UNCHANGED <<attempts, batch, claimed, outcome, sends, rejected, crashes, pauses>>

\* Rows whose lock can look stale: nobody works on them any more, or the pass
\* that does has been slow (a batch is sent one by one, and nothing bounds it).
Abandoned(e) == \A r \in Runner : e \notin batch[r]

\* Mutants of Due: rows being sent are taken whatever their lock's age; stale
\* rows are never taken.
DueAnySending == {e \in Email : status[e] \in {"pending", "sending"}}
DuePending == {e \in Email : status[e] = "pending"}

Due == {e \in Email : status[e] = "pending" \/ (status[e] = "sending" /\ Abandoned(e))}

Take(r, S) ==
    /\ batch[r] = {} /\ S # {} /\ Cardinality(S) <= Limit
    /\ status' = [e \in Email |-> IF e \in S THEN "sending" ELSE status[e]]
    /\ attempts' = [e \in Email |-> IF e \in S THEN attempts[e] + 1 ELSE attempts[e]]
    /\ batch' = [batch EXCEPT ![r] = S]
    /\ claimed' = [claimed EXCEPT ![r] = [e \in Email |-> IF e \in S THEN attempts[e] + 1 ELSE 0]]
    /\ UNCHANGED <<outcome, sends, rejected, crashes>>

\* The claim of deliverDueEmails.
Claim(r, S) == S \subseteq Due /\ Take(r, S) /\ UNCHANGED pauses

\* The same claim, when the lock of a pass that is still alive has gone stale.
ClaimFromLive(r, S) ==
    /\ S \subseteq {e \in Email : status[e] = "sending"}
    /\ \E e \in S : ~Abandoned(e)
    /\ pauses < MaxPauses /\ pauses' = pauses + 1
    /\ Take(r, S)

\* sendEmail of the next row returns or throws.
Send(r, e, result) ==
    /\ outcome[r] = Nothing /\ e \in batch[r]
    /\ outcome' = [outcome EXCEPT ![r] = [email |-> {e}, result |-> result]]
    /\ sends' = [sends EXCEPT ![e] = IF result = "accepted" /\ @ < 2 THEN @ + 1 ELSE @]
    /\ rejected' = IF result = "unverified" THEN rejected \cup {e} ELSE rejected
    /\ UNCHANGED <<row, batch, claimed, crashes, pauses>>

\* Mutant of NewStatus: the first refusal is the last.
NewStatusGivesUp(r, e) == IF outcome[r].result = "accepted" THEN "sent" ELSE "failed"

\* The status an outcome is written as.
NewStatus(r, e) ==
    CASE outcome[r].result = "accepted"   -> "sent"
      [] outcome[r].result = "unverified" -> "failed"
      [] outcome[r].result = "refused"    -> IF claimed[r][e] >= MaxAttempts THEN "failed" ELSE "pending"

\* The update of the row, by id alone.
WriteOutcome(r, e) ==
    /\ e \in outcome[r].email
    /\ status' = [status EXCEPT ![e] = NewStatus(r, e)]
    /\ batch' = [batch EXCEPT ![r] = @ \ {e}]
    /\ claimed' = [claimed EXCEPT ![r][e] = 0]
    /\ outcome' = [outcome EXCEPT ![r] = Nothing]
    /\ UNCHANGED <<attempts, sends, rejected, crashes, pauses>>

\* The update that records a success throws: it sits in the try block of the
\* send, so the row goes on as a failed send.
SuccessWriteFails(r) ==
    /\ outcome[r].result = "accepted"
    /\ CrashStep
    /\ outcome' = [outcome EXCEPT ![r].result = "refused"]
    /\ UNCHANGED <<row, batch, claimed, sends, rejected, pauses>>

\* The process dies, or the update of a failure throws out of the pass: what
\* is left of the batch stays in 'sending'.
Crash(r) ==
    /\ batch[r] # {}
    /\ CrashStep
    /\ batch' = [batch EXCEPT ![r] = {}]
    /\ claimed' = [claimed EXCEPT ![r] = [e \in Email |-> 0]]
    /\ outcome' = [outcome EXCEPT ![r] = Nothing]
    /\ UNCHANGED <<row, sends, rejected, pauses>>

-----------------------------------------------------------------------------
\* A pass goes on with its batch.
WorkOn(r) == \E e \in Email : WriteOutcome(r, e) \/ \E result \in Result \ {"none"} : Send(r, e, result)

Next ==
    \/ \E e \in Email : Enqueue(e) \/ CancelEmail(e)
    \/ \E r \in Runner, S \in SUBSET Email : Claim(r, S) \/ ClaimFromLive(r, S)
    \/ \E r \in Runner : WorkOn(r) \/ SuccessWriteFails(r) \/ Crash(r)

Spec == Init /\ [][Next]_vars

\* Every runner keeps ticking and its awaits settle; rows are claimed oldest
\* first, so a due row is in some batch in the end.
FairSpec ==
    /\ Spec
    /\ \A r \in Runner : WF_vars(WorkOn(r))
    /\ \A e \in Email : SF_vars(\E r \in Runner, S \in SUBSET Email : e \in S /\ Claim(r, S))

-----------------------------------------------------------------------------
(* Properties. *)

Settled == {"sent", "failed", "cancelled"}

\* "FOR UPDATE SKIP LOCKED [...] so N replicas each take different rows": until
\* something crashes or is paused, a message is accepted once at most, however
\* the passes of the replicas, the retries and the cancellations interleave.
OnceWithoutFaults == crashes = 0 /\ pauses = 0 => \A e \in Email : sends[e] <= 1

\* The unconditional outcome writes are safe as long as only dead passes are
\* taken for stale, crashes included: a row that was sent, failed or cancelled
\* never changes again, and a cancelled one is not sent afterwards.
KeepsSettled ==
    pauses' = 0 => \A e \in Email : status[e] \in Settled =>
        status'[e] = status[e] /\ sends'[e] = sends[e]
SettledIsFinal == [][KeepsSettled]_vars

\* A row fails only when its sender was refused or its attempts are used up,
\* counting the ones that a crash swallowed, and is sent only when accepted:
\* whatever write of whatever pass came last.
OutcomeIsEarned ==
    \A e \in Email : /\ status[e] = "failed" => e \in rejected \/ attempts[e] >= MaxAttempts
                     /\ status[e] = "sent" => sends[e] > 0

\* What makes these inductive.  The outcome a pass is about to write is the
\* truth about one row of its batch, claimed with no more attempts than it has.
OutcomeInv ==
    /\ OutcomeIsEarned
    /\ \A r \in Runner : \A e \in outcome[r].email :
          /\ e \in batch[r] /\ outcome[r].email = {e}
          /\ outcome[r].result = "accepted" => sends[e] > 0
          /\ outcome[r].result = "unverified" => e \in rejected
    /\ \A r \in Runner, e \in Email : claimed[r][e] <= attempts[e]

\* Until a pause, a row of a batch is being sent, and in no other batch.
LockInv ==
    pauses = 0 => \A r \in Runner : \A e \in batch[r] :
                     status[e] = "sending" /\ \A q \in Runner : e \in batch[q] => q = r

\* Until a fault, a row being sent is in a batch, and an accepted message is
\* recorded or about to be.
OnceInv ==
    crashes = 0 /\ pauses = 0 => \A e \in Email :
        /\ status[e] = "sending" => \E r \in Runner : e \in batch[r]
        /\ sends[e] <= 1
        /\ sends[e] > 0 => \/ status[e] = "sent"
                           \/ \E r \in Runner : e \in outcome[r].email /\ outcome[r].result = "accepted"

\* Durable and retried: every queued row is sent, failed or cancelled in the
\* end, through crashes between the claim, the send and the write.
EveryRowSettles == \A e \in Email : status[e] = "pending" ~> status[e] \in Settled

-----------------------------------------------------------------------------
(* What the repository says and the code does not do: stated here, refuted  *)
(* by TLC in the instances the README names under "Divergences".            *)

\* "Email outbox -- durable, retried, at-most-once outbound email."
AtMostOnce == \A e \in Email : sends[e] <= 1
=============================================================================
