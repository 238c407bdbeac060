-------------------------------- MODULE Mail --------------------------------
(***************************************************************************)
(* Mail in both directions: the outbox (EmailOutbox) and the emails that   *)
(* come in (Inbound).  They share no row: a behaviour is about one of      *)
(* them, `focus`, and the other stays at its initial state.                *)
(***************************************************************************)
EXTENDS EmailOutbox, WellFoundedInduction, TLAPS

CONSTANTS Last, Poison, Pod, Nobody, BatchSize, RetryAfter, MaxFaults, MaxApplied   \* Inbound

\* A lock is a pod's, nobody's, or left behind by a dead one.
ASSUME InboundAssumption ==
    /\ Last \in Nat /\ RetryAfter \in Nat /\ MaxFaults \in Nat /\ MaxApplied \in Nat
    /\ Nobody \notin Pod /\ "orphan" \notin Pod /\ Nobody # "orphan"

VARIABLES focus, captures, stored, inboundStatus, cool, lock, armed, reading, doing, backoff, applied, faults

I == INSTANCE Inbound WITH status <- inboundStatus, batch <- reading

inboundVars == <<captures, stored, inboundStatus, cool, lock, armed, reading, doing, backoff, applied, faults>>
allVars == <<focus, vars, inboundVars>>

AllInit == focus \in {"out", "in"} /\ Init /\ I!Init

Out(A) == focus = "out" /\ A /\ UNCHANGED <<focus, inboundVars>>
In(A) == focus = "in" /\ A /\ UNCHANGED <<focus, vars>>

AllNext ==
    \/ focus = "out" /\ Next /\ UNCHANGED <<focus, inboundVars>>
    \/ focus = "in" /\ I!Next /\ UNCHANGED <<focus, vars>>

Safely == AllInit /\ [][AllNext]_allVars

\* The fairness of both components: runners tick, sends are answered, a due row
\* is claimed in the end; a reaper's tick goes on, a dead one's lock lapses and
\* a credits backoff ends.
AllSpec ==
    /\ Safely
    /\ \A r \in Runner : WF_allVars(Out(WorkOn(r)))
    /\ \A e \in Email : SF_allVars(Out(\E r \in Runner, S \in SUBSET Email : e \in S /\ Claim(r, S)))
    /\ WF_allVars(In(I!OrphanLapses))
    /\ \A p \in Pod : WF_allVars(In(I!Work(p))) /\ WF_allVars(In(I!BackoffEnds(p)))

-----------------------------------------------------------------------------
\* While nothing fails nothing is done twice: no email is handed to the transport
\* twice (EmailOutbox), and parallel deliveries and reapers apply the data of an
\* inbound email once (Inbound).
NothingTwice == OnceWithoutFaults /\ I!AppliedOnce
\* Every row of the outbox settles (EmailOutbox), and emails that always fail do not
\* keep a captured one out for ever (Inbound).
MailMovesOn == EveryRowSettles /\ I!EmailsAreTried

-----------------------------------------------------------------------------
(***************************************************************************)
(* The outbox, for any rows, replicas, batch sizes and attempts.  The      *)
(* unconditional outcome writes are safe because of what a pass knows of   *)
(* its batch: OutcomeInv (what it writes is true), LockInv (until a pause  *)
(* nobody else has the row) and OnceInv (until a fault what was accepted   *)
(* is recorded, or about to be, by the pass that sent it).                 *)
(***************************************************************************)

\* The rows, batches and outcomes keep their types.
THEOREM OutboxTypeCorrect == Spec => []TypeOK
<1> USE OutboxAssumption DEF TypeOK, Result
<1>1. Init => TypeOK
  BY DEF Init, Nothing
<1>2. TypeOK /\ [Next]_vars => TypeOK'
  <2> SUFFICES ASSUME TypeOK, [Next]_vars PROVE TypeOK'
    OBVIOUS
  <2>1. ASSUME NEW e \in Email, Enqueue(e) \/ CancelEmail(e) PROVE TypeOK'
    BY <2>1 DEF Enqueue, CancelEmail
  <2>2. ASSUME NEW r \in Runner, NEW S \in SUBSET Email, Take(r, S), pauses' \in 0 .. MaxPauses PROVE TypeOK'
    BY <2>2 DEF Take
  <2>3. ASSUME NEW r \in Runner, NEW S \in SUBSET Email, Claim(r, S) \/ ClaimFromLive(r, S) PROVE TypeOK'
    <3>1. Take(r, S) /\ pauses' \in 0 .. MaxPauses
      BY <2>3 DEF Claim, ClaimFromLive
    <3> QED BY <2>2, <3>1
  <2>4. ASSUME NEW r \in Runner, NEW e \in Email, WriteOutcome(r, e) PROVE TypeOK'
    <3>1. outcome[r].result \in {"accepted", "refused", "unverified"}
      BY <2>4 DEF WriteOutcome
    <3>2. NewStatus(r, e) \in {"sent", "failed", "pending"}
      BY <3>1 DEF NewStatus
    <3>3. status' \in [Email -> {"absent", "pending", "sending", "sent", "failed", "cancelled"}]
      BY <2>4, <3>2 DEF WriteOutcome
    <3>4. claimed' = [claimed EXCEPT ![r] = [claimed[r] EXCEPT ![e] = 0]]
      BY <2>4 DEF WriteOutcome
    <3>5. claimed' \in [Runner -> [Email -> Nat]]
      BY <3>4
    <3> QED BY <2>4, <3>3, <3>5 DEF WriteOutcome, Nothing
  <2>5. ASSUME NEW r \in Runner, NEW e \in Email, NEW result \in Result \ {"none"}, Send(r, e, result) PROVE TypeOK'
    <3> DEFINE new == [email |-> {e}, result |-> result]
    <3>1. new \in [email : SUBSET Email, result : Result] /\ new.email # {} /\ new.result # "none"
      OBVIOUS
    <3>2. outcome' = [outcome EXCEPT ![r] = new]
      BY <2>5 DEF Send
    <3> HIDE DEF new
    <3>3. /\ outcome' \in [Runner -> [email : SUBSET Email, result : Result]]
          /\ \A q \in Runner : outcome'[q].email = {} <=> outcome'[q].result = "none"
      BY <3>1, <3>2
    <3>4. sends' \in [Email -> 0 .. 2]
      BY <2>5 DEF Send
    <3>5. rejected' \subseteq Email /\ UNCHANGED <<status, attempts, batch, claimed, crashes, pauses>>
      BY <2>5 DEF Send, row
    <3> QED BY <3>3, <3>4, <3>5
  <2>6. ASSUME NEW r \in Runner, SuccessWriteFails(r) PROVE TypeOK'
    BY <2>6 DEF SuccessWriteFails, CrashStep, row
  <2>7. ASSUME NEW r \in Runner, Crash(r) PROVE TypeOK'
    BY <2>7 DEF Crash, CrashStep, Nothing, row
  <2>8. CASE UNCHANGED vars
    BY <2>8 DEF vars
  <2> QED BY <2>1, <2>3, <2>4, <2>5, <2>6, <2>7, <2>8 DEF Next, WorkOn
<1> QED BY <1>1, <1>2, PTL DEF Spec

-----------------------------------------------------------------------------
(* What the steps of a pass do, in the terms of the invariants. *)

\* A claim puts the rows it takes into the pass's batch, one attempt later.
LEMMA TakeDoes ==
    ASSUME TypeOK, NEW r \in Runner, NEW S \in SUBSET Email, Take(r, S)
    PROVE  /\ \A e \in Email : /\ status'[e] = IF e \in S THEN "sending" ELSE status[e]
                               /\ attempts'[e] >= attempts[e] /\ (e \in S => attempts'[e] = attempts[e] + 1)
                               /\ claimed'[r][e] <= attempts'[e]
           /\ batch[r] = {} /\ batch'[r] = S
           /\ \A q \in Runner \ {r} : batch'[q] = batch[q] /\ claimed'[q] = claimed[q]
           /\ UNCHANGED <<outcome, sends, rejected, crashes>>
  BY DEF Take, TypeOK

\* A send tells the pass what the transport said of one row of its batch.
LEMMA SendDoes ==
    ASSUME TypeOK, NEW r \in Runner, NEW e \in Email, NEW result \in Result \ {"none"}, Send(r, e, result)
    PROVE  /\ outcome[r] = Nothing /\ e \in batch[r]
           /\ outcome'[r].email = {e} /\ outcome'[r].result = result
           /\ \A q \in Runner \ {r} : outcome'[q] = outcome[q]
           /\ \A x \in Email : sends'[x] >= sends[x] /\ (x # e => sends'[x] = sends[x])
           /\ result = "accepted" => sends'[e] > 0 /\ sends'[e] <= sends[e] + 1
           /\ result # "accepted" => sends'[e] = sends[e]
           /\ rejected \subseteq rejected' /\ (result = "unverified" => e \in rejected')
           /\ UNCHANGED <<status, attempts, batch, claimed, crashes, pauses>>
<1> DEFINE new == [email |-> {e}, result |-> result]
<1>1. new.email = {e} /\ new.result = result
  OBVIOUS
<1>2. outcome' = [outcome EXCEPT ![r] = new] /\ outcome[r] = Nothing /\ e \in batch[r]
  BY DEF Send
<1> HIDE DEF new
<1>3. /\ outcome'[r].email = {e} /\ outcome'[r].result = result
      /\ \A q \in Runner \ {r} : outcome'[q] = outcome[q]
  BY <1>1, <1>2 DEF TypeOK
<1>4. /\ \A x \in Email : sends'[x] >= sends[x] /\ (x # e => sends'[x] = sends[x])
      /\ result = "accepted" => sends'[e] > 0 /\ sends'[e] <= sends[e] + 1
      /\ result # "accepted" => sends'[e] = sends[e]
  BY DEF Send, TypeOK
<1>5. /\ rejected \subseteq rejected' /\ (result = "unverified" => e \in rejected')
      /\ UNCHANGED <<status, attempts, batch, claimed, crashes, pauses>>
  BY DEF Send, row
<1> QED BY <1>2, <1>3, <1>4, <1>5

\* An outcome write settles the row or gives it back, and ends its send.
LEMMA WriteDoes ==
    ASSUME TypeOK, NEW r \in Runner, NEW e \in Email, WriteOutcome(r, e)
    PROVE  /\ e \in outcome[r].email /\ outcome[r].result \in {"accepted", "refused", "unverified"}
           /\ status'[e] = NewStatus(r, e) /\ \A x \in Email : x # e => status'[x] = status[x]
           /\ batch'[r] = batch[r] \ {e} /\ outcome'[r].email = {}
           /\ \A q \in Runner \ {r} : batch'[q] = batch[q] /\ outcome'[q] = outcome[q]
           /\ \A q \in Runner, x \in Email : claimed'[q][x] = claimed[q][x] \/ claimed'[q][x] = 0
           /\ UNCHANGED <<attempts, sends, rejected, crashes, pauses>>
<1>1. outcome[r].result \in {"accepted", "refused", "unverified"}
  BY DEF WriteOutcome, TypeOK, Result
<1>2. claimed' = [claimed EXCEPT ![r] = [claimed[r] EXCEPT ![e] = 0]]
  BY DEF WriteOutcome
<1>3. \A q \in Runner, x \in Email : claimed'[q][x] = claimed[q][x] \/ claimed'[q][x] = 0
  BY <1>2 DEF TypeOK
<1> QED BY <1>1, <1>3 DEF WriteOutcome, TypeOK, Nothing

\* A success that is not recorded goes on as a refusal.
LEMMA FailedWriteDoes ==
    ASSUME TypeOK, NEW r \in Runner, SuccessWriteFails(r)
    PROVE  /\ outcome'[r].email = outcome[r].email /\ outcome'[r].result = "refused"
           /\ \A q \in Runner \ {r} : outcome'[q] = outcome[q]
           /\ crashes' > 0
           /\ UNCHANGED <<status, attempts, batch, claimed, sends, rejected, pauses>>
  BY OutboxAssumption DEF SuccessWriteFails, CrashStep, TypeOK, row

\* A pass that dies forgets its batch and changes no row.
LEMMA CrashDoes ==
    ASSUME TypeOK, NEW r \in Runner, Crash(r)
    PROVE  /\ batch'[r] = {} /\ outcome'[r].email = {} /\ \A e \in Email : claimed'[r][e] = 0
           /\ \A q \in Runner \ {r} : batch'[q] = batch[q] /\ outcome'[q] = outcome[q] /\ claimed'[q] = claimed[q]
           /\ crashes' > 0
           /\ UNCHANGED <<status, attempts, sends, rejected, pauses>>
  BY OutboxAssumption DEF Crash, CrashStep, TypeOK, Nothing, row

-----------------------------------------------------------------------------
(* What a row's status says. *)

\* What a pass writes is the truth about one row of its batch, and so is what the
\* rows say.
LEMMA OutcomesAreTrue == Spec => []OutcomeInv
<1>1. Init => OutcomeInv
  BY OutboxAssumption DEF Init, OutcomeInv, OutcomeIsEarned, Nothing
<1>2. TypeOK /\ OutcomeInv /\ [Next]_vars => OutcomeInv'
  <2> SUFFICES ASSUME TypeOK, OutcomeInv, [Next]_vars PROVE OutcomeInv'
    OBVIOUS
  <2>0. /\ \A e \in Email : attempts[e] \in Nat /\ sends[e] \in 0 .. 2
        /\ \A r \in Runner : outcome[r].email \subseteq Email
        /\ \A r \in Runner, e \in Email : claimed[r][e] \in Nat
        /\ MaxAttempts \in Nat
    BY OutboxAssumption DEF TypeOK
  <2>1. ASSUME NEW e \in Email, Enqueue(e) \/ CancelEmail(e) PROVE OutcomeInv'
    BY <2>1 DEF Enqueue, CancelEmail, OutcomeInv, OutcomeIsEarned, TypeOK
  <2>2. ASSUME NEW r \in Runner, NEW S \in SUBSET Email, Take(r, S) PROVE OutcomeInv'
    <3>1. \A e \in Email : attempts'[e] \in Nat /\ attempts'[e] >= attempts[e]
      BY <2>0, <2>2, TakeDoes DEF Take
    <3>2. \A q \in Runner, e \in Email : claimed'[q][e] <= attempts'[e]
      BY <2>0, <2>2, <3>1, TakeDoes DEF OutcomeInv
    <3>3. OutcomeIsEarned'
      BY <2>0, <2>2, <3>1, TakeDoes DEF OutcomeInv, OutcomeIsEarned
    <3>4. outcome' = outcome /\ sends' = sends /\ rejected' = rejected
      BY <2>2 DEF Take
    <3>5. \A q \in Runner : outcome[q].email \subseteq batch'[q]
      BY <2>2, TakeDoes DEF OutcomeInv
    <3> QED BY <3>2, <3>3, <3>4, <3>5 DEF OutcomeInv
  <2>3. ASSUME NEW r \in Runner, NEW e \in Email, WriteOutcome(r, e) PROVE OutcomeInv'
    BY <2>0, <2>3, WriteDoes DEF OutcomeInv, OutcomeIsEarned, NewStatus
  <2>4. ASSUME NEW r \in Runner, NEW e \in Email, NEW result \in Result \ {"none"}, Send(r, e, result)
        PROVE  OutcomeInv'
    <3>1. OutcomeIsEarned'
      BY <2>0, <2>4, SendDoes DEF OutcomeInv, OutcomeIsEarned
    <3>2. ASSUME NEW q \in Runner, NEW x \in outcome'[q].email
          PROVE  /\ x \in batch'[q] /\ outcome'[q].email = {x}
                 /\ outcome'[q].result = "accepted" => sends'[x] > 0
                 /\ outcome'[q].result = "unverified" => x \in rejected'
      <4>1. CASE q = r
        BY <2>4, <3>2, <4>1, SendDoes
      <4>2. CASE q # r
        <5>1. /\ outcome'[q] = outcome[q] /\ x \in Email /\ batch' = batch
              /\ sends'[x] >= sends[x] /\ sends'[x] \in 0 .. 2 /\ rejected \subseteq rejected'
          BY <2>0, <2>4, <3>2, <4>2, SendDoes DEF Send, TypeOK
        <5> QED BY <2>0, <3>2, <5>1 DEF OutcomeInv
      <4> QED BY <4>1, <4>2
    <3>3. \A q \in Runner, x \in Email : claimed'[q][x] <= attempts'[x]
      BY <2>4, SendDoes DEF OutcomeInv
    <3> QED BY <3>1, <3>2, <3>3 DEF OutcomeInv
  <2>5. ASSUME NEW r \in Runner, SuccessWriteFails(r) PROVE OutcomeInv'
    BY <2>5, FailedWriteDoes DEF OutcomeInv, OutcomeIsEarned
  <2>6. ASSUME NEW r \in Runner, Crash(r) PROVE OutcomeInv'
    BY <2>0, <2>6, CrashDoes DEF OutcomeInv, OutcomeIsEarned
  <2>7. CASE UNCHANGED vars
    BY <2>7 DEF vars, OutcomeInv, OutcomeIsEarned
  <2> QED BY <2>1, <2>2, <2>3, <2>4, <2>5, <2>6, <2>7 DEF Next, WorkOn, Claim, ClaimFromLive
<1> QED BY <1>1, <1>2, OutboxTypeCorrect, PTL DEF Spec

\* OutcomeIsEarned for every instance: whatever write of whatever pass came last, a
\* failed row was refused or out of attempts and a sent one was accepted
\* (deliverDueEmails).
THEOREM OutcomesAreEarned == Spec => []OutcomeIsEarned
<1>1. OutcomeInv => OutcomeIsEarned
  BY DEF OutcomeInv
<1> QED BY <1>1, OutcomesAreTrue, PTL

-----------------------------------------------------------------------------
(* Until a lock goes stale under a live pass. *)

\* A row of a batch is in no other, and being sent (FOR UPDATE SKIP LOCKED, and the
\* stale-lock condition of the claim).
LEMMA BatchesAreApart == Spec => []LockInv
<1>1. Init => LockInv
  BY DEF Init, LockInv
<1>2. TypeOK /\ OutcomeInv /\ LockInv /\ [Next]_vars => LockInv'
  <2> SUFFICES ASSUME TypeOK, OutcomeInv, LockInv, [Next]_vars, pauses' = 0
               PROVE  \A r \in Runner : \A e \in batch'[r] :
                         status'[e] = "sending" /\ \A q \in Runner : e \in batch'[q] => q = r
    BY DEF LockInv
  <2>0. pauses = 0
    BY OutboxAssumption
    DEF TypeOK, Next, WorkOn, Enqueue, CancelEmail, Claim, ClaimFromLive, Send, WriteOutcome,
        SuccessWriteFails, Crash, vars
  <2>a. /\ \A r \in Runner : batch[r] \subseteq Email
        /\ \A r \in Runner : \A e \in batch[r] :
              status[e] = "sending" /\ \A q \in Runner : e \in batch[q] => q = r
    BY <2>0 DEF LockInv, TypeOK
  <2> DEFINE Apart == \A r \in Runner : \A e \in batch'[r] :
                         status'[e] = "sending" /\ \A q \in Runner : e \in batch'[q] => q = r
  <2>1. ASSUME NEW e \in Email, Enqueue(e) \/ CancelEmail(e) PROVE Apart
    BY <2>a, <2>1 DEF Enqueue, CancelEmail, TypeOK
  <2>2. ASSUME NEW r \in Runner, NEW S \in SUBSET Email, Claim(r, S) PROVE Apart
    <3>1. Take(r, S) /\ S \subseteq Due
      BY <2>2 DEF Claim
    <3>2. \A e \in S, q \in Runner : e \notin batch[q]
      BY <2>a, <3>1 DEF Due, Abandoned
    <3> QED BY <2>a, <3>1, <3>2, TakeDoes
  <2>3. ASSUME NEW r \in Runner, NEW S \in SUBSET Email, ClaimFromLive(r, S) PROVE FALSE
    BY <2>0, <2>3 DEF ClaimFromLive
  <2>4. ASSUME NEW r \in Runner, NEW e \in Email, WriteOutcome(r, e) PROVE Apart
    <3>1. e \in batch[r]
      BY <2>4, WriteDoes DEF OutcomeInv
    <3> QED BY <2>a, <2>4, <3>1, WriteDoes
  <2>5. ASSUME NEW r \in Runner, Crash(r) PROVE Apart
    BY <2>a, <2>5, CrashDoes
  <2>6. CASE UNCHANGED <<batch, status>>
    BY <2>a, <2>6
  <2> QED BY <2>1, <2>2, <2>3, <2>4, <2>5, <2>6 DEF Next, WorkOn, Send, SuccessWriteFails, row, vars
<1> QED BY <1>1, <1>2, OutboxTypeCorrect, OutcomesAreTrue, PTL DEF Spec

\* SettledIsFinal for every instance: crashes included, a row that was sent, failed
\* or cancelled is neither changed nor sent again (the writes by id alone).
THEOREM SettledRowsStay == Spec => SettledIsFinal
<1>1. TypeOK /\ OutcomeInv /\ LockInv /\ [Next]_vars => [KeepsSettled]_vars
  <2> SUFFICES ASSUME TypeOK, OutcomeInv, LockInv, [Next]_vars, pauses' = 0,
                      NEW x \in Email, status[x] \in Settled
               PROVE  status'[x] = status[x] /\ sends'[x] = sends[x]
    BY DEF KeepsSettled
  <2>0. pauses = 0
    BY OutboxAssumption
    DEF TypeOK, Next, WorkOn, Enqueue, CancelEmail, Claim, ClaimFromLive, Send, WriteOutcome,
        SuccessWriteFails, Crash, vars
  <2>a. \A r \in Runner : x \notin batch[r]
    BY <2>0 DEF LockInv, Settled
  <2>1. ASSUME NEW e \in Email, Enqueue(e) \/ CancelEmail(e)
        PROVE  status'[x] = status[x] /\ sends'[x] = sends[x]
    BY <2>1 DEF Enqueue, CancelEmail, Settled, TypeOK
  <2>2. ASSUME NEW r \in Runner, NEW S \in SUBSET Email, Claim(r, S) \/ ClaimFromLive(r, S)
        PROVE  status'[x] = status[x] /\ sends'[x] = sends[x]
    <3>1. x \notin S
      BY <2>2 DEF Claim, ClaimFromLive, Due, Settled
    <3>2. Take(r, S)
      BY <2>2 DEF Claim, ClaimFromLive
    <3> QED BY <3>1, <3>2, TakeDoes
  <2>3. ASSUME NEW r \in Runner, NEW e \in Email, WriteOutcome(r, e)
        PROVE  status'[x] = status[x] /\ sends'[x] = sends[x]
    <3>1. e \in batch[r]
      BY <2>3, WriteDoes DEF OutcomeInv
    <3> QED BY <2>a, <2>3, <3>1, WriteDoes
  <2>4. ASSUME NEW r \in Runner, NEW e \in Email, NEW result \in Result \ {"none"}, Send(r, e, result)
        PROVE  status'[x] = status[x] /\ sends'[x] = sends[x]
    BY <2>a, <2>4, SendDoes
  <2>5. ASSUME NEW r \in Runner, SuccessWriteFails(r) \/ Crash(r)
        PROVE  status'[x] = status[x] /\ sends'[x] = sends[x]
    BY <2>5 DEF SuccessWriteFails, Crash, row
  <2>6. CASE UNCHANGED vars
    BY <2>6 DEF vars
  <2> QED BY <2>1, <2>2, <2>3, <2>4, <2>5, <2>6 DEF Next, WorkOn
<1> QED BY <1>1, OutboxTypeCorrect, OutcomesAreTrue, BatchesAreApart, PTL DEF Spec, SettledIsFinal

-----------------------------------------------------------------------------
(* Until any fault. *)

\* OnceWithoutFaults for every instance: until a process dies, a write fails or a
\* pass is paused, no message is accepted twice, however the passes of the
\* replicas, the retries and the cancellations interleave.
THEOREM AcceptedOnce == Spec => []OnceWithoutFaults
<1>1. Init => OnceInv
  BY DEF Init, OnceInv
<1>2. TypeOK /\ OutcomeInv /\ LockInv /\ OnceInv /\ [Next]_vars => OnceInv'
  <2> SUFFICES ASSUME TypeOK, OutcomeInv, LockInv, OnceInv, [Next]_vars, crashes' = 0, pauses' = 0,
                      NEW x \in Email
               PROVE  /\ status'[x] = "sending" => \E r \in Runner : x \in batch'[r]
                      /\ sends'[x] <= 1
                      /\ sends'[x] > 0 => \/ status'[x] = "sent"
                                          \/ \E r \in Runner : x \in outcome'[r].email /\ outcome'[r].result = "accepted"
    BY DEF OnceInv
  <2> DEFINE Goal == /\ status'[x] = "sending" => \E r \in Runner : x \in batch'[r]
                     /\ sends'[x] <= 1
                     /\ sends'[x] > 0 => \/ status'[x] = "sent"
                                         \/ \E r \in Runner : x \in outcome'[r].email /\ outcome'[r].result = "accepted"
  <2>0. pauses = 0 /\ crashes = 0
    BY OutboxAssumption
    DEF TypeOK, Next, WorkOn, Enqueue, CancelEmail, Claim, ClaimFromLive, Take, Send, WriteOutcome,
        SuccessWriteFails, Crash, CrashStep, vars
  <2>a. /\ status[x] = "sending" => \E r \in Runner : x \in batch[r]
        /\ sends[x] <= 1
        /\ sends[x] > 0 => \/ status[x] = "sent"
                           \/ \E r \in Runner : x \in outcome[r].email /\ outcome[r].result = "accepted"
    BY <2>0 DEF OnceInv
  <2>b. /\ \A r \in Runner : outcome[r].email \subseteq batch[r]
        /\ \A r \in Runner : x \in batch[r] => status[x] = "sending" /\ \A q \in Runner : x \in batch[q] => q = r
        /\ sends[x] \in 0 .. 2
    BY <2>0 DEF LockInv, OutcomeInv, TypeOK
  <2>1. ASSUME NEW e \in Email, Enqueue(e) \/ CancelEmail(e) PROVE Goal
    BY <2>a, <2>1 DEF Enqueue, CancelEmail, TypeOK
  <2>2. ASSUME NEW r \in Runner, NEW S \in SUBSET Email, Claim(r, S) PROVE Goal
    <3>1. Take(r, S) /\ S \subseteq Due
      BY <2>2 DEF Claim
    <3>2. x \in S => status[x] = "pending" \/ \A q \in Runner : x \notin batch[q]
      BY <3>1 DEF Due, Abandoned
    <3>3. x \in S => status[x] # "sent" /\ \A q \in Runner : x \notin batch[q]
      BY <2>b, <3>1, <3>2 DEF Due
    <3>4. x \in S => sends[x] = 0
      BY <2>a, <2>b, <3>3
    <3> QED BY <2>a, <3>1, <3>4, TakeDoes
  <2>3. ASSUME NEW r \in Runner, NEW S \in SUBSET Email, ClaimFromLive(r, S) PROVE FALSE
    BY <2>0, <2>3 DEF ClaimFromLive
  <2>4. ASSUME NEW r \in Runner, NEW e \in Email, WriteOutcome(r, e) PROVE Goal
    <3>1. CASE x # e
      <4>1. status'[x] = status[x] /\ sends'[x] = sends[x]
        BY <2>4, <3>1, WriteDoes
      <4>2. \A q \in Runner : x \in batch[q] => x \in batch'[q]
        BY <2>4, <3>1, WriteDoes
      <4>3. \A q \in Runner : x \in outcome[q].email => q # r \/ x = e
        BY <2>4 DEF WriteOutcome, OutcomeInv
      <4>4. \A q \in Runner : x \in outcome[q].email => outcome'[q] = outcome[q]
        BY <2>4, <3>1, <4>3, WriteDoes
      <4> QED BY <2>a, <4>1, <4>2, <4>4
    <3>2. CASE x = e
      <4>1. x \in batch[r] /\ status[x] = "sending" /\ outcome[r].result \in {"accepted", "refused", "unverified"}
        BY <2>b, <2>4, <3>2, WriteDoes
      <4>2. status'[x] = NewStatus(r, x) /\ sends'[x] = sends[x]
        BY <2>4, <3>2, WriteDoes
      <4>3. NewStatus(r, x) # "sending" /\ (outcome[r].result = "accepted" => NewStatus(r, x) = "sent")
        BY <4>1 DEF NewStatus
      <4>4. sends[x] > 0 => outcome[r].result = "accepted"
        BY <2>a, <2>b, <4>1
      <4> QED BY <2>a, <4>2, <4>3, <4>4
    <3> QED BY <3>1, <3>2
  <2>5. ASSUME NEW r \in Runner, NEW e \in Email, NEW result \in Result \ {"none"}, Send(r, e, result) PROVE Goal
    <3>1. CASE x # e
      <4>1. sends'[x] = sends[x] /\ status' = status /\ batch' = batch
        BY <2>5, <3>1, SendDoes
      <4>2. \A q \in Runner : x \in outcome[q].email => q # r
        BY <2>5, SendDoes DEF Nothing
      <4>3. \A q \in Runner : x \in outcome[q].email => outcome'[q] = outcome[q]
        BY <2>5, <4>2, SendDoes
      <4> QED BY <2>a, <4>1, <4>3
    <3>2. CASE x = e
      <4>1. outcome[r] = Nothing /\ x \in batch[r]
        BY <2>5, <3>2, SendDoes
      <4>2. sends[x] = 0
        BY <2>a, <2>b, <4>1 DEF Nothing
      <4>3. sends'[x] <= 1 /\ (result # "accepted" => sends'[x] = 0)
        BY <2>5, <3>2, <4>2, SendDoes
      <4>4. x \in batch'[r] /\ x \in outcome'[r].email /\ outcome'[r].result = result
        BY <2>5, <3>2, <4>1, SendDoes
      <4> QED BY <4>3, <4>4
    <3> QED BY <3>1, <3>2
  <2>6. ASSUME NEW r \in Runner, SuccessWriteFails(r) \/ Crash(r) PROVE FALSE
    BY <2>6, FailedWriteDoes, CrashDoes
  <2>7. CASE UNCHANGED vars
    BY <2>a, <2>7 DEF vars
  <2> QED BY <2>1, <2>2, <2>3, <2>4, <2>5, <2>6, <2>7 DEF Next, WorkOn
<1>3. OnceInv => OnceWithoutFaults
  BY DEF OnceInv, OnceWithoutFaults
<1> QED BY <1>1, <1>2, <1>3, OutboxTypeCorrect, OutcomesAreTrue, BatchesAreApart, PTL DEF Spec

-----------------------------------------------------------------------------
(***************************************************************************)
(* What comes in, for any emails, processes, batch sizes and retry times.  *)
(* The lock is all that keeps two reapers apart, so until a fault only its *)
(* holder works, on rows whose data was not applied yet; data that was     *)
(* applied is recorded, or about to be, by the process that applied it.    *)
(***************************************************************************)

\* A process that works on a row has one; an idle one has none.
HandsInv ==
    \A p \in Pod : /\ doing[p] \notin {"idle", "ask"} => reading[p] # {}
                   /\ doing[p] = "idle" => reading[p] = {}

\* Who works holds the lock, on rows that are not extracted and, but for the one
\* it has just applied, not applied.
ReaderInv(p) ==
    /\ doing[p] # "idle" => lock = p
    /\ \A e \in reading[p] :
          /\ inboundStatus[e] \in {"received", "failed"}
          /\ applied[e] # 0 => doing[p] = "extracted" /\ e = I!First(p) /\ applied[e] = 1

\* Applied data is recorded, or about to be.
RecordInv(e) ==
    applied[e] # 0 => /\ applied[e] = 1
                      /\ inboundStatus[e] = "extracted" \/ \E p \in Pod : e \in reading[p]

InboundInv == faults = 0 => (\A p \in Pod : ReaderInv(p)) /\ (\A e \in I!Message : RecordInv(e))

\* The emails of a batch are numbers, so there is a first one.
LEMMA FirstOfBatch ==
    ASSUME I!TypeOK, NEW p \in Pod, reading[p] # {}
    PROVE  I!First(p) \in reading[p] /\ I!First(p) \in I!Message
<1>1. reading[p] \in SUBSET I!Message /\ reading[p] \in SUBSET Nat
  BY InboundAssumption DEF I!TypeOK, I!Message
<1>2. PICK x \in reading[p] : \A y \in reading[p] : ~ (<<y, x>> \in OpToRel(<, Nat))
  BY <1>1, NatLessThanWellFounded, WFMin, Zenon
<1>3. \A y \in reading[p] : ~ (y < x)
  BY <1>1, <1>2 DEF OpToRel
<1>4. \A y \in reading[p] : x <= y
  BY <1>1, <1>3
<1> QED BY <1>1, <1>4 DEF I!First

\* Types and hands, through faults too.
THEOREM InboundTypeCorrect == I!Spec => [](I!TypeOK /\ HandsInv)
<1> USE InboundAssumption
<1>1. I!Init => I!TypeOK /\ HandsInv
  BY DEF I!Init, I!TypeOK, HandsInv
<1>2. I!TypeOK /\ HandsInv /\ [I!Next]_(I!vars) => (I!TypeOK /\ HandsInv)'
  <2> SUFFICES ASSUME I!TypeOK, HandsInv, [I!Next]_(I!vars) PROVE I!TypeOK' /\ HandsInv'
    OBVIOUS
  <2> USE DEF I!TypeOK, HandsInv, I!Final
  <2>1. CASE \E e \in I!Message : I!LookUp(e)
    BY <2>1 DEF I!LookUp, I!reaper
  <2>2. ASSUME NEW c \in captures, I!UploadAttachments(c) \/ I!CaptureFails(c) PROVE I!TypeOK' /\ HandsInv'
    BY <2>2 DEF I!UploadAttachments, I!CaptureFails, I!Fault, I!reaper
  <2>3. ASSUME NEW c \in captures, I!InsertEmail(c) PROVE I!TypeOK' /\ HandsInv'
    BY <2>3 DEF I!InsertEmail, I!reaper
  <2>4. ASSUME NEW p \in Pod, I!Tick(p) PROVE I!TypeOK' /\ HandsInv'
    <3>1. I!Oldest({e \in I!Message : I!Eligible(e)}) \subseteq I!Message
      BY DEF I!Oldest
    <3> QED BY <2>4, <3>1 DEF I!Tick
  <2>5. ASSUME NEW p \in Pod, I!TickDenied(p) \/ I!EndTick(p) PROVE I!TypeOK' /\ HandsInv'
    <3>1. CASE I!TickDenied(p)
      BY <3>1 DEF I!TickDenied
    <3>2. CASE I!EndTick(p)
      <4>1. cool' \in [I!Message -> 0 .. RetryAfter]
        BY <3>2 DEF I!EndTick
      <4>2. /\ lock' \in Pod \cup {Nobody, "orphan"} /\ doing' = [doing EXCEPT ![p] = "idle"] /\ reading[p] = {}
            /\ UNCHANGED <<captures, stored, inboundStatus, armed, reading, backoff, applied, faults>>
        BY <3>2 DEF I!EndTick
      <4> QED BY <4>1, <4>2
    <3> QED BY <2>5, <3>1, <3>2
  <2>6. ASSUME NEW p \in Pod, NEW reply \in I!Reply, I!Extract(p, reply) PROVE I!TypeOK' /\ HandsInv'
    BY <2>6 DEF I!Extract, I!Fault
  <2>7. ASSUME NEW p \in Pod, I!ApplyData(p) PROVE I!TypeOK' /\ HandsInv'
    <3>1. PICK e \in I!Message : e = I!First(p)
      BY <2>7, FirstOfBatch DEF I!ApplyData
    <3>2. applied' = [applied EXCEPT ![e] = @ + 1] \/ applied' = applied
      BY <2>7, <3>1 DEF I!ApplyData
    <3>3. applied[e] < MaxApplied /\ reading[p] # {}
      BY <2>7, <3>1 DEF I!ApplyData
    <3>4. applied' \in [I!Message -> 0 .. MaxApplied]
      BY <3>2, <3>3
    <3>5. /\ doing' = [doing EXCEPT ![p] = "extracted"] \/ doing' = [doing EXCEPT ![p] = "failed"]
          /\ UNCHANGED <<captures, stored, inboundStatus, cool, lock, armed, reading, backoff, faults>>
      BY <2>7 DEF I!ApplyData
    <3> QED BY <3>3, <3>4, <3>5
  <2>8. ASSUME NEW p \in Pod, I!SetTerminalStatus(p) PROVE I!TypeOK' /\ HandsInv'
    <3>1. PICK e \in I!Message : e = I!First(p)
      BY <2>8, FirstOfBatch DEF I!SetTerminalStatus
    <3>2. inboundStatus' = [inboundStatus EXCEPT ![e] = doing[p]] /\ doing[p] \in I!Final \cup {"failed"}
      BY <2>8, <3>1 DEF I!SetTerminalStatus
    <3>3. cool' \in [I!Message -> 0 .. RetryAfter]
      BY <2>8, <3>1 DEF I!SetTerminalStatus
    <3>4. /\ reading' = [reading EXCEPT ![p] = @ \ {e}] /\ doing' = [doing EXCEPT ![p] = "ask"]
          /\ UNCHANGED <<captures, stored, lock, armed, backoff, applied, faults>>
      BY <2>8, <3>1 DEF I!SetTerminalStatus
    <3> QED BY <3>2, <3>3, <3>4
  <2>9. ASSUME NEW p \in Pod, I!StatusWriteFails(p) PROVE I!TypeOK' /\ HandsInv'
    <3>1. faults' \in 0 .. MaxFaults /\ doing[p] \notin {"idle", "ask"}
      BY <2>9 DEF I!StatusWriteFails, I!Fault
    <3>2. UNCHANGED <<captures, stored, inboundStatus, cool, lock, armed, backoff, applied>>
      BY <2>9 DEF I!StatusWriteFails
    <3>3. CASE doing[p] = "failed"
      <4>1. PICK S : S = reading[p] \ {I!First(p)}
        OBVIOUS
      <4>2. reading' = [reading EXCEPT ![p] = S] /\ doing' = [doing EXCEPT ![p] = "ask"]
        BY <2>9, <3>3, <4>1 DEF I!StatusWriteFails
      <4> QED BY <3>1, <3>2, <4>1, <4>2
    <3>4. CASE doing[p] # "failed"
      <4>1. doing' = [doing EXCEPT ![p] = "failed"] /\ reading' = reading
        BY <2>9, <3>4 DEF I!StatusWriteFails
      <4> QED BY <3>1, <3>2, <4>1
    <3> QED BY <3>3, <3>4
  <2>10. ASSUME NEW p \in Pod, I!LockLapses(p) \/ I!Restart(p) \/ I!BackoffEnds(p) PROVE I!TypeOK' /\ HandsInv'
    <3>1. CASE I!LockLapses(p)
      BY <3>1 DEF I!LockLapses, I!Fault
    <3>2. CASE I!Restart(p)
      <4>1. faults' \in 0 .. MaxFaults /\ lock' \in Pod \cup {Nobody, "orphan"}
        BY <3>2 DEF I!Restart, I!Fault
      <4> QED BY <3>2, <4>1 DEF I!Restart
    <3>3. CASE I!BackoffEnds(p)
      BY <3>3 DEF I!BackoffEnds
    <3> QED BY <2>10, <3>1, <3>2, <3>3
  <2>11. CASE I!OrphanLapses
    BY <2>11 DEF I!OrphanLapses
  <2>12. CASE UNCHANGED I!vars
    BY <2>12 DEF I!vars
  <2> QED BY <2>1, <2>2, <2>3, <2>4, <2>5, <2>6, <2>7, <2>8, <2>9, <2>10, <2>11, <2>12 DEF I!Next, I!Work
<1> QED BY <1>1, <1>2, PTL DEF I!Spec

-----------------------------------------------------------------------------
(* What the steps of a tick do, in the terms of the invariant. *)

\* A tick that gets the lock reads rows that are due.
LEMMA TickDoes ==
    ASSUME I!TypeOK, NEW p \in Pod, I!Tick(p)
    PROVE  /\ lock = Nobody /\ lock' = p
           /\ \A q \in Pod : doing'[q] = IF q = p THEN "ask" ELSE doing[q]
           /\ \A e \in reading'[p] : e \in I!Message /\ inboundStatus[e] \in {"received", "failed"}
           /\ \A q \in Pod \ {p} : reading'[q] = reading[q]
           /\ UNCHANGED <<inboundStatus, applied, faults>>
<1>1. \A e \in I!Oldest({x \in I!Message : I!Eligible(x)}) :
         e \in I!Message /\ inboundStatus[e] \in {"received", "failed"}
  BY DEF I!Oldest, I!Eligible
<1> QED BY <1>1 DEF I!Tick, I!TypeOK

\* The model's answer makes the row a failure, a classification or data to apply.
LEMMA ExtractDoes ==
    ASSUME I!TypeOK, NEW p \in Pod, NEW reply \in I!Reply, I!Extract(p, reply)
    PROVE  /\ doing[p] = "ask" /\ doing'[p] \in {"apply", "failed", "human_message", "unclear"}
           /\ \A q \in Pod \ {p} : doing'[q] = doing[q]
           /\ faults' = 0 => faults = 0
           /\ UNCHANGED <<inboundStatus, lock, reading, applied>>
  BY InboundAssumption DEF I!Extract, I!TypeOK, I!Fault

\* Data is applied to the first row, once more.
LEMMA ApplyDoes ==
    ASSUME I!TypeOK, HandsInv, NEW p \in Pod, I!ApplyData(p)
    PROVE  \E e \in reading[p] :
              /\ e = I!First(p) /\ e \in I!Message /\ doing[p] = "apply"
              /\ \/ doing'[p] = "extracted" /\ applied' = [applied EXCEPT ![e] = @ + 1]
                 \/ doing'[p] = "failed" /\ applied' = applied
              /\ \A q \in Pod \ {p} : doing'[q] = doing[q]
              /\ UNCHANGED <<inboundStatus, lock, reading, faults>>
<1>1. I!First(p) \in reading[p] /\ I!First(p) \in I!Message
  BY FirstOfBatch DEF I!ApplyData, HandsInv
<1> QED BY <1>1 DEF I!ApplyData, I!TypeOK

\* The status of the first row is written, and the row is done.
LEMMA StatusDoes ==
    ASSUME I!TypeOK, HandsInv, NEW p \in Pod, I!SetTerminalStatus(p)
    PROVE  \E e \in reading[p] :
              /\ e = I!First(p) /\ e \in I!Message /\ doing[p] \in I!Final \cup {"failed"} /\ doing'[p] = "ask"
              /\ \A x \in I!Message : inboundStatus'[x] = IF x = e THEN doing[p] ELSE inboundStatus[x]
              /\ reading'[p] = reading[p] \ {e}
              /\ \A q \in Pod \ {p} : doing'[q] = doing[q] /\ reading'[q] = reading[q]
              /\ UNCHANGED <<applied, lock, faults>>
<1>1. I!First(p) \in reading[p] /\ I!First(p) \in I!Message
  BY FirstOfBatch DEF I!SetTerminalStatus, HandsInv, I!Final
<1> QED BY <1>1 DEF I!SetTerminalStatus, I!TypeOK

-----------------------------------------------------------------------------
\* Until a fault only the lock's holder works (withJobLock), on rows whose data is
\* not applied (processInboundEmailBatch, extractInboundEmail).
THEOREM ReadersAreAlone == I!Spec => []InboundInv
<1>1. I!Init => InboundInv
  BY DEF I!Init, InboundInv, ReaderInv, RecordInv
<1>2. I!TypeOK /\ HandsInv /\ InboundInv /\ [I!Next]_(I!vars) => InboundInv'
  <2> SUFFICES ASSUME I!TypeOK, HandsInv, InboundInv, [I!Next]_(I!vars), faults' = 0
               PROVE  (\A p \in Pod : ReaderInv(p)') /\ (\A e \in I!Message : RecordInv(e)')
    BY DEF InboundInv, ReaderInv, RecordInv
  <2> DEFINE Goal == (\A p \in Pod : ReaderInv(p)') /\ (\A e \in I!Message : RecordInv(e)')
  <2>a. /\ Nobody \notin Pod /\ "orphan" \notin Pod
        /\ \A q \in Pod : reading[q] \subseteq I!Message
        /\ \A q \in Pod : doing[q] = "idle" => reading[q] = {}
    BY InboundAssumption DEF I!TypeOK, HandsInv
  <2>b. ASSUME faults = 0, \A q \in Pod : lock # q PROVE \A q \in Pod : doing[q] = "idle" /\ reading[q] = {}
    BY <2>a, <2>b DEF InboundInv, ReaderInv
  <2>1. ASSUME UNCHANGED <<inboundStatus, lock, reading, doing, applied, faults>> PROVE Goal
    BY <2>1 DEF InboundInv, ReaderInv, RecordInv, I!First
  <2>2. ASSUME NEW c \in captures, I!InsertEmail(c) PROVE Goal
    <3>1. /\ UNCHANGED <<lock, reading, doing, applied, faults>>
          /\ \A e \in I!Message : inboundStatus[e] # "none" => inboundStatus'[e] = inboundStatus[e]
          /\ \A e \in I!Message : inboundStatus[e] = "none" => inboundStatus'[e] \in {"none", "received"}
      BY <2>2 DEF I!InsertEmail, I!reaper, I!TypeOK
    <3> QED BY <2>a, <3>1 DEF InboundInv, ReaderInv, RecordInv, I!First
  <2>3. ASSUME NEW p \in Pod, I!Tick(p) PROVE Goal
    <3>1. \A q \in Pod : doing[q] = "idle" /\ reading[q] = {}
      BY <2>3, <2>a, <2>b, TickDoes
    <3>2. \A e \in I!Message : applied[e] # 0 => inboundStatus[e] = "extracted"
      BY <2>3, <3>1, TickDoes DEF InboundInv, RecordInv
    <3>3. \A q \in Pod : ReaderInv(q)'
      BY <2>3, <3>1, <3>2, TickDoes DEF ReaderInv
    <3>4. \A e \in I!Message : RecordInv(e)'
      BY <2>3, <3>2, TickDoes DEF InboundInv, RecordInv
    <3> QED BY <3>3, <3>4
  <2>4. ASSUME NEW p \in Pod, I!EndTick(p) PROVE Goal
    <3>1. \A q \in Pod \ {p} : doing[q] = "idle" \/ lock = q
      BY <2>4 DEF I!EndTick, InboundInv, ReaderInv
    <3>2. lock = p
      BY <2>4 DEF I!EndTick, InboundInv, ReaderInv
    <3>3. /\ \A q \in Pod : doing'[q] = "idle"
          /\ UNCHANGED <<inboundStatus, reading, applied, faults>>
      BY <2>4, <3>1, <3>2 DEF I!EndTick, I!TypeOK
    <3>4. \A q \in Pod : reading[q] = {}
      BY <2>4, <2>a, <3>1, <3>2 DEF I!EndTick
    <3> QED BY <3>3, <3>4 DEF InboundInv, ReaderInv, RecordInv
  <2>5. ASSUME NEW p \in Pod, NEW reply \in I!Reply, I!Extract(p, reply) PROVE Goal
    <3>1. faults = 0
      BY <2>5, ExtractDoes
    <3>2. \A e \in I!Message : RecordInv(e)'
      BY <2>5, <3>1, ExtractDoes DEF InboundInv, RecordInv
    <3>3. \A e \in reading[p] : applied[e] = 0
      BY <2>5, <3>1, ExtractDoes DEF InboundInv, ReaderInv
    <3>4. \A q \in Pod : ReaderInv(q)'
      BY <2>5, <3>1, <3>3, ExtractDoes DEF InboundInv, ReaderInv, I!First
    <3> QED BY <3>2, <3>4
  <2>6. ASSUME NEW p \in Pod, I!ApplyData(p) PROVE Goal
    <3>1. PICK e \in reading[p] :
             /\ e = I!First(p) /\ e \in I!Message /\ doing[p] = "apply"
             /\ \/ doing'[p] = "extracted" /\ applied' = [applied EXCEPT ![e] = @ + 1]
                \/ doing'[p] = "failed" /\ applied' = applied
             /\ \A q \in Pod \ {p} : doing'[q] = doing[q]
             /\ UNCHANGED <<inboundStatus, lock, reading, faults>>
      BY <2>6, ApplyDoes
    <3>2. /\ lock = p /\ \A x \in reading[p] : applied[x] = 0
          /\ \A q \in Pod \ {p} : doing[q] = "idle" /\ reading[q] = {}
      BY <2>a, <3>1 DEF InboundInv, ReaderInv
    <3>3. /\ \A x \in I!Message : x # e => applied'[x] = applied[x]
          /\ applied'[e] = 0 \/ (doing'[p] = "extracted" /\ applied'[e] = 1)
      BY <3>1, <3>2 DEF I!TypeOK
    <3>4. I!First(p)' = e
      BY <3>1 DEF I!First
    <3>5. \A q \in Pod : ReaderInv(q)'
      BY <2>a, <3>1, <3>2, <3>3, <3>4 DEF InboundInv, ReaderInv
    <3>6. \A x \in I!Message : RecordInv(x)'
      BY <3>1, <3>3 DEF InboundInv, RecordInv
    <3> QED BY <3>5, <3>6
  <2>7. ASSUME NEW p \in Pod, I!SetTerminalStatus(p) PROVE Goal
    <3>1. PICK e \in reading[p] :
             /\ e = I!First(p) /\ e \in I!Message /\ doing[p] \in I!Final \cup {"failed"} /\ doing'[p] = "ask"
             /\ \A x \in I!Message : inboundStatus'[x] = IF x = e THEN doing[p] ELSE inboundStatus[x]
             /\ reading'[p] = reading[p] \ {e}
             /\ \A q \in Pod \ {p} : doing'[q] = doing[q] /\ reading'[q] = reading[q]
             /\ UNCHANGED <<applied, lock, faults>>
      BY <2>7, StatusDoes
    <3>2. lock = p /\ \A q \in Pod \ {p} : doing[q] = "idle" /\ reading[q] = {}
      BY <2>a, <3>1 DEF InboundInv, ReaderInv, I!Final
    <3>3. \A x \in reading[p] \ {e} : applied[x] = 0 /\ inboundStatus[x] \in {"received", "failed"}
      BY <3>1 DEF InboundInv, ReaderInv
    <3>4. applied[e] # 0 => doing[p] = "extracted"
      BY <3>1 DEF InboundInv, ReaderInv
    <3>5. \A q \in Pod : ReaderInv(q)'
      BY <2>a, <3>1, <3>2, <3>3 DEF ReaderInv
    <3>6. ASSUME NEW x \in I!Message PROVE RecordInv(x)'
      <4>1. CASE x = e
        BY <3>1, <3>4, <4>1 DEF InboundInv, RecordInv
      <4>2. CASE x # e
        BY <3>1, <4>2 DEF InboundInv, RecordInv
      <4> QED BY <4>1, <4>2
    <3> QED BY <3>5, <3>6
  <2>8. ASSUME I!Fault PROVE FALSE
    BY <2>8, InboundAssumption DEF I!Fault, I!TypeOK
  <2>9. ASSUME lock = "orphan", lock' = Nobody, UNCHANGED <<inboundStatus, reading, doing, applied, faults>> PROVE Goal
    <3>1. \A q \in Pod : doing[q] = "idle" /\ reading[q] = {}
      BY <2>9, <2>a, <2>b
    <3> QED BY <2>9, <3>1 DEF InboundInv, ReaderInv, RecordInv
  <2> QED BY <2>1, <2>2, <2>3, <2>4, <2>5, <2>6, <2>7, <2>8, <2>9
      DEF I!Next, I!Work, I!LookUp, I!UploadAttachments, I!CaptureFails, I!reaper, I!TickDenied, I!BackoffEnds,
          I!StatusWriteFails, I!LockLapses, I!Restart, I!OrphanLapses, I!vars
<1> QED BY <1>1, <1>2, InboundTypeCorrect, PTL DEF I!Spec

\* AppliedOnce for every instance: until a process dies, a write fails or the lock
\* lapses, the data of an email is applied once (processInboundEmailBatch,
\* extractInboundEmail).
THEOREM DataIsAppliedOnce == I!Spec => []I!AppliedOnce
<1>1. InboundInv => I!AppliedOnce
  BY DEF InboundInv, RecordInv, I!AppliedOnce
<1> QED BY <1>1, ReadersAreAlone, PTL

-----------------------------------------------------------------------------
\* A step of one direction leaves the other as it is: each runs its own
\* specification.
LEMMA Projections == Safely => Spec /\ I!Spec
<1>1. AllInit => Init /\ I!Init
  BY DEF AllInit
<1>2. [AllNext]_allVars => [Next]_vars
  BY DEF AllNext, allVars
<1>3. [AllNext]_allVars => [I!Next]_(I!vars)
  BY DEF AllNext, allVars, inboundVars, I!vars
<1> QED BY <1>1, <1>2, <1>3, PTL DEF Safely, Spec, I!Spec

\* NothingTwice for every instance of the two together: without faults no message
\* is accepted twice and no email's data applied twice.
THEOREM NothingIsDoneTwice == Safely => []NothingTwice
  BY Projections, AcceptedOnce, DataIsAppliedOnce, PTL DEF NothingTwice
=============================================================================
