--------------------------- MODULE ScheduledJobs ---------------------------
(***************************************************************************)
(* The scheduled jobs of src/services/scheduled-jobs.service.ts, run by    *)
(* every process.  A pass claims due rows by stamping locked_at, then runs *)
(* them one after the other on the snapshot it claimed, and writes each    *)
(* row back by id: advanced, unlocked.  Rows locked for longer than        *)
(* StaleLock are claimed again.                                            *)
(*                                                                         *)
(* Time is discrete.  It passes while handlers run, each for HandlerTimeout*)
(* at most, and while processes idle; a database step takes none.  A cron  *)
(* expression is the set of the times it fires at.                         *)
(***************************************************************************)
EXTENDS Integers, Sequences, FiniteSets, FiniteSetsExt

CONSTANTS
    Job, Pod,
    Cron,           \* the expressions a request may carry: sets of times
    MinInterval,    \* MIN_INTERVAL_SECONDS
    Limit,          \* rows per pass
    HandlerTimeout, \* HANDLER_TIMEOUT_MS
    StaleLock,      \* STALE_JOB_LOCK_MS
    None,           \* SQL null, a field absent from a patch
    MaxTime,        \* bound: the clock
    MaxCrashes,     \* bound: passes that die
    MaxEdits        \* bound: updates and deletions

ASSUME ScheduleAssumption ==
    /\ Cron # {} /\ None \notin Nat \cup BOOLEAN \cup Cron \cup Job
    /\ Cron \subseteq SUBSET Nat /\ \A c \in Cron : IsFiniteSet(c)
    /\ MinInterval \in Nat /\ Limit \in Nat \ {0}
    /\ HandlerTimeout \in Nat /\ StaleLock \in Nat
    /\ MaxTime \in Nat /\ MaxCrashes \in Nat /\ MaxEdits \in Nat

VARIABLES
    now,     \* the clock
    row,     \* row[j]: the scheduled_jobs row
    batch,   \* batch[p]: the snapshots p has claimed and not finished
    at,      \* at[p]: where p is in executeOne
    tick,    \* tick[p]: the `now` of p's pass
    began,   \* began[p]: when the handler p awaits was called
    edit,    \* an updateScheduledJob between its read and its write
    long,    \* history: jobs in a batch that may outlast its lock, and since then in one all the time
    revived, \* history: jobs enabled without a fire to come, by an update that had read them enabled
    crashes, edits

vars == <<now, row, batch, at, tick, began, edit, long, revived, crashes, edits>>
podVars == <<batch, at, tick, began, long>>

Time == Nat \cup {None}
Row == [there : {"no", "yes", "deleted"}, cron : Cron, enabled : BOOLEAN,
        next : Time, lockedAt : Time, last : Time]
Patch == [cron : Cron \cup {None}, enabled : BOOLEAN \cup {None}]
NoEdit == [job |-> None, patch |-> None, seen |-> None]

Step == {"idle", "start", "handler", "history", "row"}
Run == [job : Job, cron : Cron, fire : Nat]

TypeOK ==
    /\ now \in 0 .. MaxTime /\ row \in [Job -> Row]
    /\ \A j \in Job : row[j].there = "yes" => row[j].next \in Nat
    /\ batch \in [Pod -> Seq(Run)] /\ at \in [Pod -> Step]
    /\ tick \in [Pod -> Nat] /\ began \in [Pod -> Nat]
    /\ \A p \in Pod : /\ at[p] = "idle" <=> batch[p] = <<>>
                      /\ tick[p] <= began[p] /\ began[p] <= now
    /\ edit = NoEdit \/ edit \in [job : Job, patch : Patch, seen : Row]
    /\ long \subseteq Job /\ revived \subseteq Job
    /\ crashes \in 0 .. MaxCrashes /\ edits \in 0 .. MaxEdits

Init ==
    /\ now = 0
    /\ row \in [Job -> {[there |-> "no", cron |-> c, enabled |-> FALSE, next |-> None,
                         lockedAt |-> None, last |-> None] : c \in {CHOOSE c \in Cron : TRUE}}]
    /\ batch = [p \in Pod |-> <<>>] /\ at = [p \in Pod |-> "idle"]
    /\ tick = [p \in Pod |-> 0] /\ began = [p \in Pod |-> 0]
    /\ edit = NoEdit /\ long = {} /\ revived = {} /\ crashes = 0 /\ edits = 0

-----------------------------------------------------------------------------
Later(c, t) == {f \in c : f > t}

\* The first fire strictly after t, or None.
NextRunAfter(c, t) == IF Later(c, t) = {} THEN None ELSE Min(Later(c, t))

\* shortestIntervalSeconds: the gap between the first two fires after t.
ShortestInterval(c, t) ==
    LET first == NextRunAfter(c, t)
    IN IF first = None \/ Later(c, first) = {} THEN None ELSE NextRunAfter(c, first) - first

\* validateSchedule accepts (kinds, expressions and zones are well formed).
Valid(c, t) ==
    /\ ShortestInterval(c, t) # None => ShortestInterval(c, t) >= MinInterval
    /\ NextRunAfter(c, t) # None

CreateScheduledJob(j, c, enabled) ==
    /\ row[j].there = "no" /\ Valid(c, now)
    /\ row' = [row EXCEPT ![j] = [there |-> "yes", cron |-> c, enabled |-> enabled,
                  next |-> NextRunAfter(c, now), lockedAt |-> None, last |-> None]]
    /\ UNCHANGED <<now, podVars, edit, revived, crashes, edits>>

CountEdit == edits < MaxEdits /\ edits' = edits + 1

\* updateScheduledJob reads the row ...
UpdateReads(j, patch) ==
    /\ edit = NoEdit /\ row[j].there = "yes" /\ CountEdit
    /\ edit' = [job |-> j, patch |-> patch, seen |-> row[j]]
    /\ UNCHANGED <<now, row, podVars, revived, crashes>>

NewCron == IF edit.patch.cron = None THEN edit.seen.cron ELSE edit.patch.cron
NewEnabled == IF edit.patch.enabled = None THEN edit.seen.enabled ELSE edit.patch.enabled
Recompute == NewCron # edit.seen.cron \/ (NewEnabled /\ ~edit.seen.enabled)

Refused == row[edit.job].there # "yes" \/ (Recompute /\ ~Valid(NewCron, now))

\* The write enables the row without a next fire of its own.
Revives == edit.patch.enabled = TRUE /\ ~row[edit.job].enabled /\ ~Recompute

\* ... and writes the patched columns, unless the schedule is refused or the
\* row is gone.
UpdateWrites ==
    /\ edit # NoEdit
    /\ edit' = NoEdit
    /\ LET j == edit.job IN
       IF Refused THEN UNCHANGED <<row, revived>>
       ELSE /\ row' = [row EXCEPT
                   ![j].cron = IF edit.patch.cron = None THEN @ ELSE NewCron,
                   ![j].enabled = IF edit.patch.enabled = None THEN @ ELSE NewEnabled,
                   ![j].next = IF Recompute THEN NextRunAfter(NewCron, now) ELSE @]
            /\ revived' = IF Recompute THEN revived \ {j}
                          ELSE IF Revives THEN revived \cup {j} ELSE revived
    /\ UNCHANGED <<now, podVars, crashes, edits>>

DeleteScheduledJob(j) ==
    /\ row[j].there = "yes" /\ CountEdit
    /\ row' = [row EXCEPT ![j].there = "deleted"]
    /\ UNCHANGED <<now, podVars, edit, revived, crashes>>

-----------------------------------------------------------------------------
\* Mutants of Claimable: a lock is as good as none; locks never go stale.
ClaimableLocked(j) == row[j].there = "yes" /\ row[j].enabled /\ row[j].next <= now
ClaimableUnlocked(j) == ClaimableLocked(j) /\ row[j].lockedAt = None

Claimable(j) ==
    /\ row[j].there = "yes" /\ row[j].enabled /\ row[j].next <= now
    /\ row[j].lockedAt # None => row[j].lockedAt < now - StaleLock

\* So many rows that the time-outs of their handlers outlast the lock.
Outlasts(n) == n * HandlerTimeout > StaleLock
InBatch(j) == \E p \in Pod : \E i \in DOMAIN batch[p] : batch[p][i].job = j

\* The claim of runDueScheduledJobs: due rows, the longest overdue first.  Rows
\* another transaction holds are skipped, so any of them may be missing.
Claim(p, s) ==
    /\ at[p] = "idle" /\ s # <<>>
    /\ \A i \in DOMAIN s : /\ Claimable(s[i])
                           /\ \A k \in 1 .. i - 1 : s[k] # s[i] /\ row[s[k]].next <= row[s[i]].next
    /\ row' = [j \in Job |-> IF j \in {s[i] : i \in DOMAIN s}
                             THEN [row[j] EXCEPT !.lockedAt = now] ELSE row[j]]
    /\ batch' = [batch EXCEPT ![p] = [i \in DOMAIN s |->
                    [job |-> s[i], cron |-> row[s[i]].cron, fire |-> row[s[i]].next]]]
    /\ at' = [at EXCEPT ![p] = "start"]
    /\ tick' = [tick EXCEPT ![p] = now]
    /\ began' = [began EXCEPT ![p] = now]
    /\ long' = {j \in Job : IF \E i \in DOMAIN s : s[i] = j
                            THEN Outlasts(Len(s)) \/ (j \in long /\ InBatch(j)) ELSE j \in long}
    /\ UNCHANGED <<now, edit, revived, crashes, edits>>

\* executeOne inserts the 'running' history row and calls the handler.
StartRun(p) ==
    /\ at[p] = "start"
    /\ at' = [at EXCEPT ![p] = "handler"]
    /\ began' = [began EXCEPT ![p] = now]
    /\ UNCHANGED <<now, row, batch, tick, long, edit, revived, crashes, edits>>

\* The handler returns or throws, its timer fires, or its kind has no handler.
HandlerEnds(p) ==
    /\ at[p] = "handler"
    /\ at' = [at EXCEPT ![p] = "history"]
    /\ UNCHANGED <<now, row, batch, tick, began, long, edit, revived, crashes, edits>>

\* The history row is closed.
CloseHistory(p) ==
    /\ at[p] = "history"
    /\ at' = [at EXCEPT ![p] = "row"]
    /\ UNCHANGED <<now, row, batch, tick, began, long, edit, revived, crashes, edits>>

\* Mutant of Advanced: from the fire that was served, so that every missed fire
\* is replayed.
AdvancedFromFire(r, run, t) ==
    LET next == NextRunAfter(run.cron, run.fire)
    IN [r EXCEPT !.last = t, !.lockedAt = None, !.next = IF next = None THEN @ ELSE next,
                 !.enabled = @ /\ next # None]

\* The row after a run: advanced from the pass's clock by the cron it claimed,
\* or disabled when that never fires again.
Advanced(r, run, t) ==
    LET next == NextRunAfter(run.cron, t)
    IN [r EXCEPT !.last = t, !.lockedAt = None, !.next = IF next = None THEN @ ELSE next,
                 !.enabled = @ /\ next # None]

FinishRun(p) ==
    /\ at[p] = "row"
    /\ LET run == Head(batch[p]) IN
       row' = IF row[run.job].there = "yes" THEN [row EXCEPT ![run.job] = Advanced(@, run, tick[p])]
              ELSE row
    /\ revived' = IF NextRunAfter(Head(batch[p]).cron, tick[p]) = None THEN revived
                  ELSE revived \ {Head(batch[p]).job}
    /\ batch' = [batch EXCEPT ![p] = Tail(@)]
    /\ at' = [at EXCEPT ![p] = IF Len(batch[p]) = 1 THEN "idle" ELSE "start"]
    /\ UNCHANGED <<now, tick, began, long, edit, crashes, edits>>

\* The process dies, or a database step of executeOne throws out of the pass:
\* the rows left in the batch stay locked.
Crash(p) ==
    /\ at[p] # "idle"
    /\ crashes < MaxCrashes /\ crashes' = crashes + 1
    /\ batch' = [batch EXCEPT ![p] = <<>>]
    /\ at' = [at EXCEPT ![p] = "idle"]
    /\ UNCHANGED <<now, row, tick, began, long, edit, revived, edits>>

\* Time passes while nobody is in a database step.
Tick ==
    /\ now < MaxTime /\ edit = NoEdit
    /\ \A p \in Pod : at[p] = "idle" \/ (at[p] = "handler" /\ now < began[p] + HandlerTimeout)
    /\ now' = now + 1
    /\ UNCHANGED <<row, podVars, edit, revived, crashes, edits>>

-----------------------------------------------------------------------------
Batches == UNION {[1 .. n -> Job] : n \in 1 .. Limit}

Runs(p) == StartRun(p) \/ HandlerEnds(p) \/ CloseHistory(p) \/ FinishRun(p)

Next ==
    \/ \E j \in Job : \/ \E c \in Cron, e \in BOOLEAN : CreateScheduledJob(j, c, e)
                      \/ \E patch \in Patch : UpdateReads(j, patch)
                      \/ DeleteScheduledJob(j)
    \/ UpdateWrites
    \/ \E p \in Pod : Runs(p) \/ Crash(p) \/ \E s \in Batches : Claim(p, s)
    \/ Tick

Spec == Init /\ [][Next]_vars

\* Timers fire, database steps return, and every runner ticks: a row that stays
\* claimable is in some batch in the end.
FairSpec ==
    /\ Spec /\ WF_vars(Tick) /\ WF_vars(UpdateWrites)
    /\ \A p \in Pod : WF_vars(Runs(p))
    /\ \A j \in Job : WF_vars(\E p \in Pod, s \in Batches : s[1] = j /\ Claim(p, s))

-----------------------------------------------------------------------------
(* Properties. *)

\* "Row claims are FOR UPDATE SKIP LOCKED, so several pods never double-run"
\* (main.ts), as far as the lock, a timestamp, carries: a job in the batches of
\* two processes, whatever crashes, is slow and is claimed again, was claimed
\* among so many that their time-outs outlast the lock, or has not been out of
\* a batch since.
NeverDoubleRun ==
    \A p, q \in Pod : p # q =>
        \A i \in DOMAIN batch[p], k \in DOMAIN batch[q] :
            batch[p][i].job = batch[q][k].job => batch[p][i].job \in long

\* "A job that was due 40 times while the app was down runs ONCE when it comes
\* back": an enabled job waits for a fire later than the clock of its last run,
\* through crashes, re-claims, edits and deletions, unless an update enabled it
\* on the strength of a row that a run has disabled since.
CatchUpOnce ==
    \A j \in Job : row[j].there = "yes" /\ row[j].enabled /\ row[j].last # None /\ j \notin revived =>
                       row[j].next > row[j].last

\* Time a pass and a stale lock need, from a claim, to be over.
Slack == Limit * HandlerTimeout + StaleLock + Limit * HandlerTimeout + 1

\* "A row locked longer than this is treated as orphaned and re-claimable": a
\* lock is cleared in the end, by the process that set it or, after a crash, by
\* another, unless the job is disabled, deleted or put off by an edit.
LocksAreCleared ==
    \A j \in Job : row[j].lockedAt # None /\ now + Slack <= MaxTime ~>
                       row[j].lockedAt = None \/ ~row[j].enabled \/ row[j].there = "deleted" \/ row[j].next > now

-----------------------------------------------------------------------------
(* What the repository says and the code does not do: stated here, refuted  *)
(* by TLC in the instances the README names under "Divergences".            *)

\* "... so several pods never double-run" (main.ts), as it stands.
PodsNeverShare ==
    \A p, q \in Pod : p # q =>
        \A i \in DOMAIN batch[p], k \in DOMAIN batch[q] : batch[p][i].job # batch[q][k].job

\* "... runs ONCE when it comes back", as it stands.
RunsOnce ==
    \A j \in Job : row[j].there = "yes" /\ row[j].enabled /\ row[j].last # None => row[j].next > row[j].last

\* "Tightest cadence a schedule may have" (of MIN_INTERVAL_SECONDS): the fires
\* of a stored schedule are that far apart.
TightestCadence ==
    \A j \in Job : row[j].there = "yes" =>
        \A f, g \in row[j].cron : f < g => g - f >= MinInterval

\* The next run of an enabled job is a fire of its stored cron expression.
NextFollowsCron ==
    \A j \in Job : row[j].there = "yes" /\ row[j].enabled => row[j].next \in row[j].cron

=============================================================================
