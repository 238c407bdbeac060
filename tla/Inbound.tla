------------------------------- MODULE Inbound -------------------------------
(***************************************************************************)
(* Inbound email: capture (src/services/inbound-email/capture.service.ts   *)
(* behind src/api/routes/ingest-email) and extraction (extract.service.ts, *)
(* driven by src/jobs/inbound-email-reaper.ts).  Emails are numbered in    *)
(* the order of received_at.  A batch is read, not claimed: only the       *)
(* reaper's Redis lock keeps two processes apart, and it may lapse.        *)
(***************************************************************************)
EXTENDS Naturals, FiniteSets, FiniteSetsExt

CONSTANTS
    Last,          \* emails are 1 .. Last
    Poison,        \* emails whose extraction always fails
    Pod, Nobody,
    BatchSize,     \* INBOUND_EMAIL_BATCH_SIZE
    RetryAfter,    \* INBOUND_EMAIL_RETRY_AFTER_MS, in ticks
    MaxFaults, MaxApplied   \* bounds

VARIABLES
    captures,   \* webhook deliveries being handled: <<email, step>>
    stored,     \* emails whose attachments are in the object store
    status,     \* inbound_email.status
    cool,       \* ticks until a failed row is older than the cutoff
    lock,       \* holder of the reaper's lock
    armed,      \* armed[p]: p's timer is set or its tick runs
    batch,      \* batch[p]: rows p's tick has read and not done
    doing,      \* doing[p]: what p knows of the first of them
    backoff,    \* creditsBackoffUntil is in the future
    applied,    \* applied[e]: applyData calls that succeeded
    faults

vars == <<captures, stored, status, cool, lock, armed, batch, doing, backoff, applied, faults>>

Message == 1 .. Last
Final == {"extracted", "human_message", "unclear"}

TypeOK ==
    /\ status \in [Message -> {"none", "received", "failed"} \cup Final] /\ cool \in [Message -> 0..RetryAfter]
    /\ lock \in Pod \cup {Nobody, "orphan"} /\ armed \in [Pod -> BOOLEAN] /\ batch \in [Pod -> SUBSET Message]
    /\ doing \in [Pod -> {"idle", "ask", "apply", "failed"} \cup Final]
    /\ applied \in [Message -> 0..MaxApplied] /\ faults \in 0..MaxFaults

Init ==
    /\ captures = {} /\ stored = {} /\ status = [e \in Message |-> "none"] /\ cool = [e \in Message |-> 0]
    /\ lock = Nobody /\ armed = [p \in Pod |-> TRUE] /\ batch = [p \in Pod |-> {}]
    /\ doing = [p \in Pod |-> "idle"] /\ backoff = [p \in Pod |-> FALSE]
    /\ applied = [e \in Message |-> 0] /\ faults = 0

Fault == faults < MaxFaults /\ faults' = faults + 1
reaper == <<cool, lock, armed, batch, doing, backoff, applied>>

-----------------------------------------------------------------------------
(* captureInboundEmail: the message id is looked up, the attachments are put  *)
(* under keys made from it, and the row and its attachments are inserted      *)
(* unless the id is there.  The provider delivers until it has an answer.     *)

LookUp(e) ==
    /\ status[e] = "none" /\ Cardinality({c \in captures : c[1] = e}) < 2
    /\ e > 1 => status[e - 1] # "none"
    /\ captures' = captures \cup {<<e, "upload">>}
    /\ UNCHANGED <<stored, status, reaper, faults>>
UploadAttachments(c) ==
    /\ c[2] = "upload" /\ captures' = (captures \ {c}) \cup {<<c[1], "insert">>}
    /\ stored' = stored \cup {c[1]}
    /\ UNCHANGED <<status, reaper, faults>>
InsertEmail(c) ==
    /\ c[2] = "insert" /\ captures' = captures \ {c}
    /\ status' = IF status[c[1]] = "none" THEN [status EXCEPT ![c[1]] = "received"] ELSE status
    /\ UNCHANGED <<stored, reaper, faults>>
CaptureFails(c) ==
    /\ Fault /\ captures' = captures \ {c}
    /\ UNCHANGED <<stored, status, reaper>>

-----------------------------------------------------------------------------
(* The reaper's tick. *)

\* Mutant of Eligible: a failed row is due whenever it failed.
EligibleAtOnce(e) == status[e] \in {"received", "failed"}

\* processInboundEmailBatch: received, or failed for longer than the retry time.
Eligible(e) == status[e] = "received" \/ (status[e] = "failed" /\ cool[e] = 0)
Oldest(S) == {e \in S : Cardinality({d \in S : d < e}) < BatchSize}

\* Mutant of Tick: the lock is not asked for.
TickUnlocked(p) ==
    /\ armed[p] /\ doing[p] = "idle" /\ batch[p] = {}
    /\ doing' = [doing EXCEPT ![p] = "ask"]
    /\ batch' = [batch EXCEPT ![p] = IF backoff[p] THEN {} ELSE Oldest({e \in Message : Eligible(e)})]
    /\ UNCHANGED <<captures, stored, status, cool, lock, armed, backoff, applied, faults>>

Tick(p) ==
    /\ armed[p] /\ doing[p] = "idle" /\ lock = Nobody /\ batch[p] = {}
    /\ lock' = p /\ doing' = [doing EXCEPT ![p] = "ask"]
    /\ batch' = [batch EXCEPT ![p] = IF backoff[p] THEN {} ELSE Oldest({e \in Message : Eligible(e)})]
    /\ UNCHANGED <<captures, stored, status, cool, armed, backoff, applied, faults>>

\* A tick that does not get the lock returns before it sets the timer again.
TickDenied(p) ==
    /\ armed[p] /\ doing[p] = "idle" /\ lock # Nobody
    /\ armed' = [armed EXCEPT ![p] = FALSE]
    /\ UNCHANGED <<captures, stored, status, cool, lock, batch, doing, backoff, applied, faults>>

First(p) == CHOOSE e \in batch[p] : \A d \in batch[p] : e <= d

\* How a call of the model can end, by what goes wrong with it; the last three are
\* the kinds of the profile's schema.
Reply == {"no object", "unconfigured", "provider host", "unreachable", "402", "other status",
          "unparseable", "no block", "no result", "invalid", "data", "human_message", "unclear"}

\* llmMessages (llm/extraction.ts): a proxy that is not configured, or is a model
\* provider's own host, is not asked; 402 says that the tenant's credits are used up.
LlmMessages(reply) ==
    CASE reply \in {"unconfigured", "provider host"} -> "LlmNotConfiguredError"
      [] reply = "402" -> "LlmCreditsExhaustedError"
      [] reply \in {"other status", "unparseable"} -> "LlmRequestError"
      [] OTHER -> reply

\* extractStructured: an answer without the forced tool's block, without its
\* `result` or against the schema is an error.
ExtractStructured(reply) ==
    IF reply \in {"no block", "no result", "invalid"} THEN "LlmExtractionError" ELSE LlmMessages(reply)

\* extractInboundEmail up to the model's answer: buildContent loads the stored
\* attachments; any error, of the storage too, fails the row, and a lack of
\* credits makes the process back off until an answer is good again.
Extract(p, reply) ==
    LET triage == ExtractStructured(reply)
        good == triage \in {"data", "human_message", "unclear"}
    IN /\ doing[p] = "ask" /\ batch[p] # {}
       /\ good => First(p) \in stored \ Poison
       /\ doing' = [doing EXCEPT ![p] = IF ~good THEN "failed" ELSE IF triage = "data" THEN "apply" ELSE triage]
       /\ backoff' = [backoff EXCEPT ![p] = ~good /\ (@ \/ triage = "LlmCreditsExhaustedError")]
       /\ IF triage = "LlmCreditsExhaustedError" THEN Fault ELSE UNCHANGED faults
       /\ UNCHANGED <<captures, stored, status, cool, lock, armed, batch, applied>>

\* applyData of the profile, and its failure.
ApplyData(p) ==
    /\ doing[p] = "apply" /\ applied[First(p)] < MaxApplied
    /\ \/ doing' = [doing EXCEPT ![p] = "extracted"] /\ applied' = [applied EXCEPT ![First(p)] = @ + 1]
       \/ doing' = [doing EXCEPT ![p] = "failed"] /\ UNCHANGED applied
    /\ UNCHANGED <<captures, stored, status, cool, lock, armed, batch, backoff, faults>>

\* setTerminalStatus: by id, whatever the row says by now.
SetTerminalStatus(p) ==
    /\ doing[p] \in Final \cup {"failed"}
    /\ status' = [status EXCEPT ![First(p)] = doing[p]]
    /\ cool' = [cool EXCEPT ![First(p)] = IF doing[p] = "failed" THEN RetryAfter ELSE 0]
    /\ batch' = [batch EXCEPT ![p] = @ \ {First(p)}] /\ doing' = [doing EXCEPT ![p] = "ask"]
    /\ UNCHANGED <<captures, stored, lock, armed, backoff, applied, faults>>

\* The write fails: an outcome becomes a failure, and a failure that cannot be
\* written leaves the row as it is.
StatusWriteFails(p) ==
    /\ doing[p] \in Final \cup {"failed"} /\ Fault
    /\ IF doing[p] = "failed"
       THEN batch' = [batch EXCEPT ![p] = @ \ {First(p)}] /\ doing' = [doing EXCEPT ![p] = "ask"]
       ELSE doing' = [doing EXCEPT ![p] = "failed"] /\ UNCHANGED batch
    /\ UNCHANGED <<captures, stored, status, cool, lock, armed, backoff, applied>>

\* The batch is done: the lock is released if it is still this process's, and
\* a poll interval passes.
EndTick(p) ==
    /\ doing[p] = "ask" /\ batch[p] = {}
    /\ doing' = [doing EXCEPT ![p] = "idle"] /\ lock' = IF lock = p THEN Nobody ELSE lock
    /\ cool' = [e \in Message |-> IF cool[e] > 0 THEN cool[e] - 1 ELSE 0]
    /\ UNCHANGED <<captures, stored, status, armed, batch, backoff, applied, faults>>

\* The lock's TTL ends under a slow tick; or its holder dies, starts again and
\* the lock stays until its TTL ends.
LockLapses(p) ==
    /\ lock = p /\ Fault /\ lock' = Nobody
    /\ UNCHANGED <<captures, stored, status, cool, armed, batch, doing, backoff, applied>>
Restart(p) ==
    /\ Fault /\ armed' = [armed EXCEPT ![p] = TRUE] /\ batch' = [batch EXCEPT ![p] = {}]
    /\ doing' = [doing EXCEPT ![p] = "idle"] /\ backoff' = [backoff EXCEPT ![p] = FALSE]
    /\ lock' = IF lock = p THEN "orphan" ELSE lock
    /\ UNCHANGED <<captures, stored, status, cool, applied>>
OrphanLapses ==
    /\ lock = "orphan" /\ lock' = Nobody
    /\ UNCHANGED <<captures, stored, status, cool, armed, batch, doing, backoff, applied, faults>>
BackoffEnds(p) ==
    /\ backoff[p] /\ backoff' = [backoff EXCEPT ![p] = FALSE]
    /\ UNCHANGED <<captures, stored, status, cool, lock, armed, batch, doing, applied, faults>>

Work(p) ==
    \/ Tick(p) \/ TickDenied(p) \/ ApplyData(p) \/ SetTerminalStatus(p) \/ EndTick(p)
    \/ \E reply \in Reply : Extract(p, reply)

Next ==
    \/ OrphanLapses
    \/ \E e \in Message : LookUp(e)
    \/ \E c \in captures : UploadAttachments(c) \/ InsertEmail(c) \/ CaptureFails(c)
    \/ \E p \in Pod : Work(p) \/ BackoffEnds(p) \/ StatusWriteFails(p) \/ LockLapses(p) \/ Restart(p)

Spec == Init /\ [][Next]_vars

-----------------------------------------------------------------------------
(* Properties. *)

\* Without a fault the data of an email is applied once: deliveries of one
\* message in parallel make one row, and two reapers never work on it.
AppliedOnce == faults = 0 => \A e \in Message : applied[e] <= 1

\* A captured email is tried as long as a reaper is alive: rows that always
\* fail do not keep younger ones out of the batch (unless the account runs out
\* of credits again and again: each backoff outlasts the retry time, so the
\* oldest row is due again and first after it).
EmailsAreTried ==
    \A e \in Message : status[e] = "received" ~> (status[e] # "received" \/ \A p \in Pod : ~armed[p])

-----------------------------------------------------------------------------
(* What the repository says and the code does not do. *)

\* extract.service.ts: "so a row never re-loops forever".  A row that always
\* fails is taken again after every retry time.
NoRetryForEver == \A e \in Message : <>[](status[e] # "failed" \/ cool[e] > 0)

\* A second process, let in by a lapsed lock, may write "failed" over "extracted".
ExtractedIsFinal == [][\A e \in Message : status[e] \in Final => status'[e] = status[e]]_vars
=============================================================================
