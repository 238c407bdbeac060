------------------------------- MODULE Edge --------------------------------
(***************************************************************************)
(* The edges of the system: the scheduled jobs (ScheduledJobs), what comes *)
(* and goes over the network (Relay, SiteForms, Transport), the web client *)
(* (WebClient, IdleTimeout, Breadcrumbs and its pages), the operator's     *)
(* scripts (Tenants, Retrofit, TypeCheck, DevStack) and the development    *)
(* routes (DevRoutes, DesignPage).  They share no state, so a behaviour is *)
(* about one of them, `focus`.  The scheduled jobs have the variables of   *)
(* their own module; the others take turns with x1 to x16, of which each   *)
(* uses as many as it has variables.  Each part that has a theorem comes    *)
(* with its lemmas; the parts that TLC alone checks, the composition, its   *)
(* properties and their theorems follow.                                    *)
(***************************************************************************)
EXTENDS ScheduledJobs, FiniteSetTheorems, SequenceTheorems, TLC, TLAPS

CONSTANTS
    User, Query, MaxCalls, MaxSwitches, MaxWrites,                       \* WebClient
    Tab, Ttl, Warning, Throttle,                                         \* IdleTimeout
    Event, Tolerance, Retention, MaxAttempts, RelayTime, MaxRequests,    \* Relay
    Submission, IpOf, Form, Sends, Configured, Owner, PerIp, PerSite, MaxFaults,   \* SiteForms
    Orgs, Members, Reserved, Capacity, MaxSends, MaxChanges,             \* Transport
    Migrations, MaxRuns,                                                 \* Tenants
    Cap, FlushAfter, Pause, Every, Threshold, Ring, MaxActs, TrailTime,  \* Breadcrumbs
    Debounce, Heartbeat, Latency, MaxStores, PanelTime,                  \* DevRoutes, the panel
    Sheet, Attests, MaxSessions, MaxMappings,                            \* ImportWizard
    Member, Me, Mailbox, MaxSettings,                                    \* SettingsPage
    Visitor, Invitee, MaxMounts, MaxResends,                             \* SignInPage
    Document, Email, Foreign, Stored, MaxDecisions, MaxVisits,             \* StaffPages
    Preset, Shade, Size, Readable, SizeLimits, Bundled, MaxDesigns       \* DesignPage

ASSUME ClientAssumption == MaxCalls \in Nat /\ MaxSwitches \in Nat /\ MaxWrites \in Nat
\* The warning comes before the end of a session.
ASSUME TimeoutAssumption == Ttl \in Nat /\ Warning \in 0 .. Ttl /\ Throttle \in Nat
\* The window of a signature, which is open on either side of its time, is over
\* before the event it let in is swept: minutes and days.
ASSUME HookAssumption ==
    /\ Tolerance \in Nat /\ Retention \in Nat /\ 2 * Tolerance <= Retention
    /\ MaxAttempts \in Nat /\ RelayTime \in Nat /\ MaxRequests \in Nat
ASSUME FormsAssumption == PerIp \in Nat /\ PerSite \in Nat /\ MaxFaults \in Nat
ASSUME SendAssumption ==
    /\ Orgs \in Seq(Range(Orgs)) /\ \A o \in Range(Orgs) : Members[o] \in Seq(Range(Members[o]))
    /\ Capacity \in Nat /\ MaxSends \in Nat /\ MaxChanges \in Nat
\* The first crumbs of a page do not fill a batch.
ASSUME TrailAssumption ==
    /\ Cap \in Nat /\ Cap > 2 /\ FlushAfter \in Nat \ {0} /\ Pause \in Nat /\ Every \in Nat \ {0}
    /\ Threshold \in Nat \ {0} /\ Ring \in Nat /\ MaxActs \in Nat /\ TrailTime \in Nat
ASSUME PanelAssumption ==
    Debounce \in Nat /\ Heartbeat \in Nat /\ Latency \in Nat /\ MaxStores \in Nat /\ PanelTime \in Nat
ASSUME ScriptAssumption == Migrations \in Nat /\ MaxRuns \in Nat
ASSUME WizardAssumption == MaxSessions \in Nat /\ MaxMappings \in Nat /\ Attests \in BOOLEAN
ASSUME TeamAssumption == Me \in Member

\* Values for the model: one cron expression fires at every time, the other, a date,
\* once; the second post leaves the required consent out.
Often == 1 .. 12
Once == {2}
Regular == {Often, Once}
Posts == {"a", "b", "c"}
IpOfPost == [p \in Posts |-> IF p = "c" THEN "i2" ELSE "i1"]
ContactForm == <<[type |-> "email", required |-> TRUE, options |-> {}],
                 [type |-> "checkboxes", required |-> FALSE, options |-> {"x", "y"}],
                 [type |-> "checkbox", required |-> TRUE, options |-> {}]>>
SentForms == [p \in Posts |-> <<<<"ok">>, <<"x">>, IF p = "b" THEN <<>> ELSE <<"yes">>>>]
TwoOrgs == <<"o1", "o2">>
TheirMembers == [o1 |-> <<"a", "b">>, o2 |-> <<"c">>]
\* A light and a dark preset; the page was built with the first.
Light == [preset |-> "light", text |-> 0, canvas |-> 9, size |-> 16]
Dark == [preset |-> "dark", text |-> 9, canvas |-> 0, size |-> 16]
Presets == {Light, Dark}
Legible == 14 .. 20
Symmetry == Permutations(Job) \cup Permutations(Pod)

-----------------------------------------------------------------------------
(* Proofs of the scheduled jobs. *)

\* CatchUpOnce, with the clock that the next fires are computed from.
Waits(j) == row[j].last <= now /\ (row[j].enabled /\ j \notin revived => row[j].last < row[j].next)
CatchUpInv == \A j \in Job : row[j].there = "yes" /\ row[j].last # None => Waits(j)

\* The rows p has left, each with a handler that runs to its timer.
Work(p) == Len(batch[p]) * HandlerTimeout

\* A pass that holds a job on the strength of its lock is in time for it.
InTime(p) ==
    (\E i \in DOMAIN batch[p] : batch[p][i].job \notin long) =>
        /\ at[p] = "start" => now + Work(p) <= tick[p] + StaleLock
        /\ at[p] # "start" => began[p] + Work(p) <= tick[p] + StaleLock /\ now <= began[p] + HandlerTimeout

\* The rows of a batch are each in it once, and carry its lock unless they are
\* gone or have been in a batch that may outlast it.
Holds(p) ==
    \A i \in DOMAIN batch[p] :
        /\ row[batch[p][i].job].there # "no"
        /\ row[batch[p][i].job].there = "yes" /\ batch[p][i].job \notin long =>
               row[batch[p][i].job].lockedAt = tick[p]
        /\ \A k \in DOMAIN batch[p] : batch[p][i].job = batch[p][k].job => i = k

HoldInv == \A p \in Pod : InTime(p) /\ Holds(p)

\* The Min of a finite set is in it: the least element is the one with the
\* smallest set of elements below it.
LEMMA LeastOfFinite ==
    ASSUME NEW S, S \subseteq Nat, IsFiniteSet(S), S # {}
    PROVE  Min(S) \in S
<1> DEFINE Down(x) == {y \in S : y <= x}
           Downs == {Down(x) : x \in S}
<1>1. Downs \subseteq FiniteSubsetsOf(S) /\ Downs # {}
    <2>1. \A x \in S : Down(x) \in SUBSET S
        OBVIOUS
    <2> HIDE DEF Down
    <2>2. \A x \in S : IsFiniteSet(Down(x))
        BY <2>1, FS_Subset
    <2> QED
        BY <2>1, <2>2 DEF FiniteSubsetsOf
<1>2. PICK least \in Downs : \A d \in Downs : ~(<<d, least>> \in StrictSubsetOrdering(S))
    <2> HIDE DEF Downs
    <2> QED
        BY <1>1, FS_StrictSubsetOrderingWellFounded, WFMin
<1>3. PICK x \in S : least = Down(x)
    BY <1>2
<1>4. ASSUME NEW y \in S PROVE x <= y
    <2> SUFFICES ASSUME y < x PROVE FALSE
        BY <1>4
    <2>1. Down(y) \subseteq Down(x) /\ x \in Down(x) /\ x \notin Down(y)
        <3>1. x \in Nat /\ y \in Nat /\ x <= x /\ ~(x <= y)
            BY <1>3, <1>4
        <3>2. \A z \in S : z <= y => z <= x
            BY <3>1
        <3> QED
            BY <1>3, <3>1, <3>2
    <2>2. Down(y) \in Downs /\ Down(y) \in SUBSET S /\ Down(x) \in SUBSET S
        OBVIOUS
    <2> HIDE DEF Down, Downs
    <2>3. <<Down(y), Down(x)>> \in StrictSubsetOrdering(S)
        BY <2>1, <2>2 DEF StrictSubsetOrdering
    <2> QED
        BY <1>2, <1>3, <2>2, <2>3
<1> QED
    BY <1>4 DEF Min

\* nextRunAfter returns no time or one after the time it is asked about.
LEMMA FiresLater ==
    ASSUME NEW c \in Cron, NEW t \in Nat
    PROVE  /\ NextRunAfter(c, t) \in Time
           /\ NextRunAfter(c, t) # None => NextRunAfter(c, t) \in Nat /\ NextRunAfter(c, t) > t
           /\ Later(c, t) # {} => NextRunAfter(c, t) # None
<1>1. CASE Later(c, t) = {}
    BY <1>1 DEF NextRunAfter, Time
<1>2. CASE Later(c, t) # {}
    <2>1. Later(c, t) \subseteq Nat
        BY ScheduleAssumption DEF Later
    <2>4. Min(Later(c, t)) \in Later(c, t)
        BY <1>2, <2>1, ScheduleAssumption, FS_Subset, LeastOfFinite DEF Later
    <2>5. Min(Later(c, t)) \in Nat /\ Min(Later(c, t)) > t
        BY <2>1, <2>4 DEF Later
    <2>6. NextRunAfter(c, t) = Min(Later(c, t))
        BY <1>2 DEF NextRunAfter
    <2> QED
        BY <2>5, <2>6, ScheduleAssumption DEF Time
<1> QED
    BY <1>1, <1>2

\* A row with other settings, and one a run has been through.
Patched(r, c, e, n) == [r EXCEPT !.cron = c, !.enabled = e, !.next = n]
Served(r, t, e, n) == [r EXCEPT !.last = t, !.lockedAt = None, !.next = n, !.enabled = e]

\* What updateScheduledJob writes: nothing, or columns other than the lock and
\* the last run, with a next fire to come, or with the old one and not enabled
\* anew, unless on the strength of an older row.
LEMMA UpdateEffect ==
    ASSUME TypeOK, UpdateWrites
    PROVE  /\ revived' \subseteq Job
           /\ \/ row' = row /\ revived' = revived
              \/ \E j \in Job, c \in Cron, e \in BOOLEAN, n \in Nat :
                     /\ row[j].there = "yes"
                     /\ row' = [row EXCEPT ![j] = Patched(row[j], c, e, n)]
                     /\ revived \ {j} \subseteq revived'
                     /\ \/ n > now
                        \/ n = row[j].next /\ revived \subseteq revived' /\ (e => row[j].enabled \/ j \in revived')
<1> DEFINE j == edit.job
           c == IF edit.patch.cron = None THEN row[j].cron ELSE NewCron
           e == IF edit.patch.enabled = None THEN row[j].enabled ELSE NewEnabled
           n == IF Recompute THEN NextRunAfter(NewCron, now) ELSE row[j].next
<1>1. edit \in [job : Job, patch : Patch, seen : Row] /\ now \in Nat /\ row \in [Job -> Row]
    BY ScheduleAssumption DEF TypeOK, UpdateWrites
<1>2. edit.patch \in Patch /\ edit.seen \in Row /\ j \in Job
    BY <1>1
<1>3. NewCron \in Cron /\ NewEnabled \in BOOLEAN
    BY <1>2 DEF NewCron, NewEnabled, Patch, Row
<1>4. row[j] \in Row /\ c \in Cron /\ e \in BOOLEAN
    BY <1>1, <1>2, <1>3 DEF Row
<1>5. revived \subseteq Job /\ revived' \subseteq Job
    BY <1>2 DEF TypeOK, UpdateWrites
<1>6. CASE Refused
    BY <1>5, <1>6 DEF UpdateWrites
<1>7. CASE ~Refused
    <2>1. row[j].there = "yes" /\ (Recompute => Valid(NewCron, now))
        BY <1>7 DEF Refused
    <2>2. n \in Nat /\ (Recompute => n > now)
        <3>1. CASE Recompute
            BY <1>1, <1>3, <2>1, <3>1, FiresLater DEF Valid
        <3>2. CASE ~Recompute
            BY <1>2, <2>1, <3>2 DEF TypeOK
        <3> QED
            BY <3>1, <3>2
    <2>3. row' = [row EXCEPT ![j].cron = c, ![j].enabled = e, ![j].next = n]
        BY <1>1, <1>2, <1>4, <1>7 DEF UpdateWrites, Row
    <2>4. row' = [row EXCEPT ![j] = Patched(row[j], c, e, n)]
        <3> HIDE DEF j, c, e, n
        <3> QED
            BY <1>1, <1>4, <2>3 DEF Patched, Row
    <2>5. CASE Recompute
        <3>1. revived' = revived \ {j}
            BY <1>7, <2>5 DEF UpdateWrites
        <3>2. n > now
            BY <2>2, <2>5
        <3> HIDE DEF j, c, e, n
        <3> QED
            BY <1>2, <1>4, <1>5, <2>1, <2>2, <2>4, <3>1, <3>2
    <2>6. CASE ~Recompute
        <3>1. revived' = IF Revives THEN revived \cup {j} ELSE revived
            BY <1>7, <2>6 DEF UpdateWrites
        <3>2. e => row[j].enabled \/ Revives
            <4>1. CASE edit.patch.enabled = None
                BY <4>1
            <4>2. CASE edit.patch.enabled # None
                <5>1. e = edit.patch.enabled /\ edit.patch.enabled \in BOOLEAN
                    BY <1>2, <4>2 DEF NewEnabled, Patch
                <5> QED
                    BY <2>6, <5>1 DEF Revives
            <4> QED
                BY <4>1, <4>2
        <3>3. n = row[j].next
            BY <2>6
        <3> HIDE DEF j, c, e, n
        <3> QED
            BY <1>2, <1>4, <1>5, <2>1, <2>2, <2>4, <3>1, <3>2, <3>3
    <2> QED
        BY <2>5, <2>6
<1> QED
    BY <1>6, <1>7

\* What the end of a run writes: nothing on a deleted row; else the last run is
\* the pass's clock, the lock is gone, and the next fire is later, or there is
\* none and the row is disabled.
LEMMA FinishEffect ==
    ASSUME TypeOK, NEW p \in Pod, FinishRun(p)
    PROVE  /\ batch[p] # <<>> /\ Head(batch[p]) \in Run
           /\ revived \ {Head(batch[p]).job} \subseteq revived' /\ revived' \subseteq Job
           /\ \/ row' = row /\ row[Head(batch[p]).job].there # "yes"
              \/ \E e \in BOOLEAN, n \in Nat :
                    /\ row[Head(batch[p]).job].there = "yes"
                    /\ row' = [row EXCEPT ![Head(batch[p]).job] = Served(row[Head(batch[p]).job], tick[p], e, n)]
                    /\ e => n > tick[p]
<1> DEFINE run == Head(batch[p])
           j == run.job
           next == NextRunAfter(run.cron, tick[p])
           n == IF next = None THEN row[j].next ELSE next
           e == row[j].enabled /\ next # None
<1>1. batch[p] \in Seq(Run) /\ batch[p] # <<>> /\ tick[p] \in Nat
    BY DEF TypeOK, FinishRun
<1>2. run \in Run
    BY <1>1
<1>3. j \in Job /\ run.cron \in Cron
    BY <1>2 DEF Run
<1>4. revived \ {j} \subseteq revived' /\ revived' \subseteq Job
    BY DEF FinishRun, TypeOK
<1>5. CASE row[j].there = "yes"
    <2>1. row[j] \in Row /\ row[j].next \in Nat
        BY <1>3, <1>5 DEF TypeOK
    <2>2. n \in Nat /\ (e => n > tick[p])
        BY <1>1, <1>3, <2>1, FiresLater
    <2>3. e \in BOOLEAN
        OBVIOUS
    <2>4. row' = [row EXCEPT ![j] = Advanced(@, run, tick[p])]
        BY <1>5 DEF FinishRun
    <2>5. row' = [row EXCEPT ![j] = Served(row[j], tick[p], e, n)]
        BY <2>1, <2>4 DEF Advanced, Served, Row
    <2> HIDE DEF n, e
    <2> QED
        BY <1>1, <1>2, <1>4, <1>5, <2>2, <2>3, <2>5
<1>6. CASE row[j].there # "yes"
    BY <1>1, <1>2, <1>4, <1>6 DEF FinishRun
<1> QED
    BY <1>5, <1>6

\* A claim takes rows that are due and not held, each once, and makes them a
\* batch that starts.
LEMMA ClaimEffect ==
    ASSUME TypeOK, NEW p \in Pod, NEW s \in Batches, Claim(p, s)
    PROVE  /\ s \in Seq(Job) /\ Len(s) \in 1 .. Limit
           /\ batch'[p] \in Seq(Run) /\ DOMAIN batch'[p] = DOMAIN s /\ Len(batch'[p]) = Len(s)
           /\ \A i \in DOMAIN s : s[i] \in Job /\ Claimable(s[i]) /\ batch'[p][i].job = s[i]
           /\ \A i, k \in DOMAIN s : s[i] = s[k] => i = k
           /\ row' \in [Job -> Row]
           /\ \A j \in Job : row'[j] = [row[j] EXCEPT !.lockedAt = row'[j].lockedAt]
           /\ \A j \in Job : row'[j].lockedAt = IF \E i \in DOMAIN s : s[i] = j THEN now ELSE row[j].lockedAt
           /\ long' \subseteq Job /\ \A j \in long : InBatch(j) => j \in long'
           /\ \A i \in DOMAIN s : s[i] \notin long' => Len(s) * HandlerTimeout <= StaleLock
<1>1. PICK n \in 1 .. Limit : s \in [1 .. n -> Job]
    BY DEF Batches
<1>2. DOMAIN s = 1 .. n /\ s \in Seq(Job) /\ Len(s) = n /\ n \in Nat
    BY <1>1, ScheduleAssumption
<1>3. \A i \in DOMAIN s : s[i] \in Job /\ Claimable(s[i])
    BY <1>1, <1>2 DEF Claim
<1>4. \A i, k \in DOMAIN s : s[i] = s[k] => i = k
    <2> SUFFICES ASSUME NEW i \in DOMAIN s, NEW k \in DOMAIN s, s[i] = s[k], k < i PROVE FALSE
        BY <1>2
    <2>1. k \in 1 .. i - 1
        BY <1>2
    <2> QED
        BY <1>2, <2>1 DEF Claim
<1> DEFINE b == [i \in DOMAIN s |-> [job |-> s[i], cron |-> row[s[i]].cron, fire |-> row[s[i]].next]]
<1>5. \A i \in DOMAIN s : [job |-> s[i], cron |-> row[s[i]].cron, fire |-> row[s[i]].next] \in Run
    <2> SUFFICES ASSUME NEW i \in DOMAIN s
                 PROVE  [job |-> s[i], cron |-> row[s[i]].cron, fire |-> row[s[i]].next] \in Run
        OBVIOUS
    <2>1. row[s[i]] \in Row /\ row[s[i]].next \in Nat
        BY <1>3 DEF Claimable, TypeOK
    <2> QED
        BY <1>3, <2>1 DEF Run, Row
<1>6. b \in [1 .. n -> Run] /\ \A i \in DOMAIN s : b[i].job = s[i]
    BY <1>2, <1>5
<1>7. batch'[p] = b
    BY DEF Claim, TypeOK
<1>8. b \in Seq(Run) /\ DOMAIN b = DOMAIN s /\ Len(b) = Len(s)
    <2> HIDE DEF b
    <2> QED
        BY <1>2, <1>6
<1>9. /\ row' \in [Job -> Row]
      /\ \A j \in Job : row'[j] = [row[j] EXCEPT !.lockedAt = row'[j].lockedAt]
      /\ \A j \in Job : row'[j].lockedAt = IF \E i \in DOMAIN s : s[i] = j THEN now ELSE row[j].lockedAt
    <2>1. row \in [Job -> Row] /\ now \in Nat
        BY ScheduleAssumption DEF TypeOK
    <2>2. ASSUME NEW j \in Job
          PROVE  /\ row'[j] \in Row /\ row'[j] = [row[j] EXCEPT !.lockedAt = row'[j].lockedAt]
                 /\ row'[j].lockedAt = IF \E i \in DOMAIN s : s[i] = j THEN now ELSE row[j].lockedAt
        <3>1. row'[j] = IF \E i \in DOMAIN s : s[i] = j THEN [row[j] EXCEPT !.lockedAt = now] ELSE row[j]
            BY DEF Claim
        <3>2. row[j] \in Row
            BY <2>1
        <3> QED
            BY <2>1, <3>1, <3>2 DEF Row, Time
    <2>3. row' = [j \in Job |-> row'[j]]
        BY DEF Claim
    <2> QED
        BY <2>2, <2>3
<1>10. /\ long' \subseteq Job /\ \A j \in long : InBatch(j) => j \in long'
       /\ \A i \in DOMAIN s : s[i] \notin long' => Len(s) * HandlerTimeout <= StaleLock
    <2>1. long' = {j \in Job : IF \E i \in DOMAIN s : s[i] = j
                              THEN Outlasts(Len(s)) \/ (j \in long /\ InBatch(j)) ELSE j \in long}
        BY DEF Claim
    <2>2. long \subseteq Job
        BY DEF TypeOK
    <2>3. ~Outlasts(Len(s)) => Len(s) * HandlerTimeout <= StaleLock
        <3> DEFINE w == Len(s) * HandlerTimeout
        <3>1. w \in Nat /\ StaleLock \in Nat
            BY <1>2, ScheduleAssumption
        <3>2. Outlasts(Len(s)) <=> w > StaleLock
            BY DEF Outlasts
        <3> HIDE DEF w
        <3>3. ~Outlasts(Len(s)) => w <= StaleLock
            BY <3>1, <3>2
        <3> QED
            BY <3>3 DEF w
    <2> QED
        BY <1>3, <2>1, <2>2, <2>3, Zenon
<1> HIDE DEF b
<1> QED
    BY <1>2, <1>3, <1>4, <1>6, <1>7, <1>8, <1>9, <1>10

\* Rows, batches, clocks and the update in flight keep their shape: a claimed
\* row has a fire, and a pass is idle exactly when its batch is empty.
THEOREM JobsTypeCorrect == Spec => []TypeOK
<1>1. Init => TypeOK
    <2> SUFFICES ASSUME Init PROVE TypeOK
        OBVIOUS
    <2>1. (CHOOSE c \in Cron : TRUE) \in Cron
        BY ScheduleAssumption
    <2>2. row \in [Job -> Row] /\ \A j \in Job : row[j].there # "yes"
        <3> DEFINE r == [there |-> "no", cron |-> CHOOSE c \in Cron : TRUE, enabled |-> FALSE,
                         next |-> None, lockedAt |-> None, last |-> None]
        <3>1. row \in [Job -> {r}]
            BY DEF Init
        <3>2. r \in Row /\ r.there = "no"
            BY <2>1 DEF Row, Time
        <3> HIDE DEF r
        <3> QED
            BY <3>1, <3>2
    <2>3. batch \in [Pod -> Seq(Run)] /\ at \in [Pod -> Step]
        BY DEF Init, Step
    <2> QED
        BY <2>2, <2>3, ScheduleAssumption DEF Init, TypeOK
<1>2. TypeOK /\ [Next]_vars => TypeOK'
    <2> SUFFICES ASSUME TypeOK, [Next]_vars PROVE TypeOK'
        OBVIOUS
    <2>0. now \in Nat /\ now <= MaxTime /\ row \in [Job -> Row]
        BY ScheduleAssumption DEF TypeOK
    <2>1. ASSUME NEW j \in Job, NEW c \in Cron, NEW on \in BOOLEAN, CreateScheduledJob(j, c, on) PROVE TypeOK'
        <3>1. NextRunAfter(c, now) \in Nat
            BY <2>0, <2>1, FiresLater DEF CreateScheduledJob, Valid
        <3>2. row' \in [Job -> Row] /\ \A k \in Job : row'[k].there = "yes" => row'[k].next \in Nat
            BY <2>0, <2>1, <3>1 DEF CreateScheduledJob, TypeOK, Row, Time
        <3> QED
            BY <2>1, <3>2 DEF CreateScheduledJob, TypeOK, podVars
    <2>2. ASSUME NEW j \in Job, NEW patch \in Patch, UpdateReads(j, patch) PROVE TypeOK'
        <3>1. edit' \in [job : Job, patch : Patch, seen : Row]
            BY <2>0, <2>2 DEF UpdateReads
        <3>2. edits' \in 0 .. MaxEdits
            BY <2>2, ScheduleAssumption DEF UpdateReads, CountEdit, TypeOK
        <3> QED
            BY <2>2, <3>1, <3>2 DEF UpdateReads, TypeOK, podVars
    <2>3. ASSUME NEW j \in Job, DeleteScheduledJob(j) PROVE TypeOK'
        <3>1. row' \in [Job -> Row] /\ \A k \in Job : row'[k].there = "yes" => row'[k].next \in Nat
            <4>1. [row[j] EXCEPT !.there = "deleted"] \in Row
                BY <2>0 DEF Row
            <4> QED
                BY <2>0, <2>3, <4>1 DEF DeleteScheduledJob, TypeOK, Row
        <3>2. edits' \in 0 .. MaxEdits
            BY <2>3, ScheduleAssumption DEF DeleteScheduledJob, CountEdit, TypeOK
        <3> QED
            BY <2>3, <3>1, <3>2 DEF DeleteScheduledJob, TypeOK, podVars
    <2>4. CASE UpdateWrites
        <3>1. row' \in [Job -> Row] /\ \A k \in Job : row'[k].there = "yes" => row'[k].next \in Nat
            <4>1. CASE row' = row
                BY <4>1 DEF TypeOK
            <4>2. CASE row' # row
                <5>2. PICK j \in Job, c \in Cron, e \in BOOLEAN, n \in Nat :
                          row' = [row EXCEPT ![j] = Patched(row[j], c, e, n)]
                    BY <2>4, <4>2, UpdateEffect
                <5>1. Patched(row[j], c, e, n) \in Row
                    BY <2>0 DEF Patched, Row, Time
                <5>3. Patched(row[j], c, e, n).next = n
                    BY <2>0 DEF Patched, Row
                <5> QED
                    BY <2>0, <5>1, <5>2, <5>3 DEF TypeOK
            <4> QED
                BY <4>1, <4>2
        <3>2. revived' \subseteq Job
            BY <2>4, UpdateEffect
        <3> QED
            BY <2>4, <3>1, <3>2 DEF UpdateWrites, TypeOK, podVars
    <2>5. ASSUME NEW p \in Pod, Runs(p) PROVE TypeOK'
        <3>1. CASE StartRun(p) \/ HandlerEnds(p) \/ CloseHistory(p)
            <4>1. at' \in [Pod -> Step] /\ at[p] # "idle" /\ at'[p] # "idle" /\ \A q \in Pod : q # p => at'[q] = at[q]
                BY <3>1 DEF StartRun, HandlerEnds, CloseHistory, TypeOK, Step
            <4>2. began' \in [Pod -> Nat] /\ \A q \in Pod : tick[q] <= began'[q] /\ began'[q] <= now
                <5>1. began' = [began EXCEPT ![p] = now] \/ began' = began
                    BY <3>1 DEF StartRun, HandlerEnds, CloseHistory
                <5>2. /\ began \in [Pod -> Nat] /\ tick \in [Pod -> Nat]
                      /\ \A q \in Pod : tick[q] <= began[q] /\ began[q] <= now
                    BY DEF TypeOK
                <5> QED
                    BY <2>0, <5>1, <5>2
            <4> QED
                BY <3>1, <4>1, <4>2 DEF StartRun, HandlerEnds, CloseHistory, TypeOK
        <3>2. CASE FinishRun(p)
            <4>1. row' \in [Job -> Row] /\ \A k \in Job : row'[k].there = "yes" => row'[k].next \in Nat
                <5>1. CASE row' = row
                    BY <5>1 DEF TypeOK
                <5>2. CASE row' # row
                    <6> DEFINE j == Head(batch[p]).job
                    <6>2. PICK e \in BOOLEAN, n \in Nat :
                              row' = [row EXCEPT ![j] = Served(row[j], tick[p], e, n)]
                        BY <3>2, <5>2, FinishEffect
                    <6>3. j \in Job
                        BY <3>2, FinishEffect DEF Run
                    <6> HIDE DEF j
                    <6>1. Served(row[j], tick[p], e, n) \in Row
                        BY <2>0, <6>3, ZenonT(60) DEF TypeOK, Served, Row, Time
                    <6>4. Served(row[j], tick[p], e, n).next = n
                        BY <2>0, <6>3 DEF Served, Row
                    <6> QED
                        BY <2>0, <6>1, <6>2, <6>3, <6>4 DEF TypeOK
                <5> QED
                    BY <5>1, <5>2
            <4>2. batch \in [Pod -> Seq(Run)] /\ batch[p] # <<>> /\ at \in [Pod -> Step]
                BY <3>2, FinishEffect DEF TypeOK
            <4>3. Tail(batch[p]) \in Seq(Run) /\ (Len(batch[p]) = 1 <=> Tail(batch[p]) = <<>>)
                <5>1. batch[p] \in Seq(Run)
                    BY <4>2
                <5> DEFINE t == Tail(batch[p])
                <5>2. t \in Seq(Run) /\ Len(t) = Len(batch[p]) - 1 /\ Len(batch[p]) \in Nat
                    BY <4>2, <5>1
                <5> HIDE DEF t
                <5>3. Len(t) = 0 <=> t = <<>>
                    BY <5>2, EmptySeq
                <5>4. t \in Seq(Run) /\ (Len(batch[p]) = 1 <=> t = <<>>)
                    BY <5>2, <5>3
                <5> QED
                    BY <5>4 DEF t
            <4>4. /\ batch' \in [Pod -> Seq(Run)] /\ at' \in [Pod -> Step]
                  /\ \A q \in Pod : at'[q] = "idle" <=> batch'[q] = <<>>
                BY <3>2, <4>2, <4>3 DEF FinishRun, TypeOK, Step
            <4>5. revived' \subseteq Job
                BY <3>2, FinishEffect
            <4> QED
                BY <3>2, <4>1, <4>4, <4>5 DEF FinishRun, TypeOK
        <3> QED
            BY <2>5, <3>1, <3>2 DEF Runs
    <2>6. ASSUME NEW p \in Pod, Crash(p) PROVE TypeOK'
        <3>1. crashes' \in 0 .. MaxCrashes
            BY <2>6, ScheduleAssumption DEF Crash, TypeOK
        <3>2. /\ batch' \in [Pod -> Seq(Run)] /\ at' \in [Pod -> Step]
              /\ \A q \in Pod : at'[q] = "idle" <=> batch'[q] = <<>>
            BY <2>6 DEF Crash, TypeOK, Step
        <3> QED
            BY <2>6, <3>1, <3>2 DEF Crash, TypeOK
    <2>7. ASSUME NEW p \in Pod, NEW s \in Batches, Claim(p, s) PROVE TypeOK'
        <3>1. /\ row' \in [Job -> Row] /\ batch'[p] \in Seq(Run) /\ batch'[p] # <<>>
              /\ \A j \in Job : row'[j] = [row[j] EXCEPT !.lockedAt = row'[j].lockedAt]
            BY <2>7, ClaimEffect
        <3>2. \A j \in Job : row'[j].there = "yes" => row'[j].next \in Nat
            BY <2>0, <3>1 DEF TypeOK, Row
        <3>3. batch' \in [Pod -> Seq(Run)]
            BY <2>7, <3>1 DEF Claim, TypeOK
        <3>4. at' \in [Pod -> Step] /\ \A q \in Pod : at'[q] = "idle" <=> batch'[q] = <<>>
            BY <2>7, <3>1 DEF Claim, TypeOK, Step
        <3>5. /\ tick' \in [Pod -> Nat] /\ began' \in [Pod -> Nat]
              /\ \A q \in Pod : tick'[q] <= began'[q] /\ began'[q] <= now
            BY <2>0, <2>7 DEF Claim, TypeOK
        <3>6. long' \subseteq Job
            BY <2>7, ClaimEffect
        <3> QED
            BY <2>7, <3>1, <3>2, <3>3, <3>4, <3>5, <3>6 DEF Claim, TypeOK
    <2>8. CASE Tick
        <3>1. now' \in 0 .. MaxTime /\ \A p \in Pod : began[p] <= now'
            BY <2>0, <2>8, ScheduleAssumption DEF Tick, TypeOK
        <3> QED
            BY <2>8, <3>1 DEF Tick, TypeOK, podVars
    <2>9. CASE UNCHANGED vars
        BY <2>9 DEF vars, TypeOK
    <2> QED
        BY <2>1, <2>2, <2>3, <2>4, <2>5, <2>6, <2>7, <2>8, <2>9 DEF Next
<1> QED
    BY <1>1, <1>2, PTL DEF Spec

\* "A job that was due 40 times while the app was down runs ONCE when it comes
\* back", for every set of expressions, dates and those that stop among them:
\* whatever runs, edits, crashes and late updates do, an enabled job that has
\* run waits for a later fire, or an update has enabled it on the strength of a
\* row that a run had disabled since.
THEOREM MissedFiresRunOnce == Spec => []CatchUpOnce
<1>1. Init => CatchUpInv
    BY DEF Init, CatchUpInv
<1>2. TypeOK /\ CatchUpInv /\ [Next]_vars => CatchUpInv'
    <2> SUFFICES ASSUME TypeOK, CatchUpInv, [Next]_vars, NEW k \in Job,
                        row'[k].there = "yes", row'[k].last # None
                 PROVE  Waits(k)'
        BY DEF CatchUpInv, Waits
    <2>0. /\ now \in Nat /\ row \in [Job -> Row] /\ row[k] \in Row
          /\ row[k].there = "yes" /\ row[k].last # None =>
                 row[k].last \in Nat /\ row[k].next \in Nat /\ Waits(k)
        BY ScheduleAssumption DEF TypeOK, CatchUpInv, Row, Time, Waits
    <2>1. ASSUME NEW j \in Job, NEW c \in Cron, NEW on \in BOOLEAN, CreateScheduledJob(j, c, on)
          PROVE  Waits(k)'
        BY <2>0, <2>1 DEF CreateScheduledJob, Waits
    <2>2. ASSUME NEW j \in Job, NEW patch \in Patch, UpdateReads(j, patch)
          PROVE  Waits(k)'
        BY <2>0, <2>2 DEF UpdateReads, Waits
    <2>3. ASSUME NEW j \in Job, DeleteScheduledJob(j)
          PROVE  Waits(k)'
        BY <2>0, <2>3 DEF DeleteScheduledJob, Row, Waits
    <2>4. CASE UpdateWrites
        <3>1. now' = now
            BY <2>4 DEF UpdateWrites
        <3>2. CASE row' = row /\ revived' = revived
            BY <2>0, <3>1, <3>2 DEF Waits
        <3>3. CASE ~(row' = row /\ revived' = revived)
            <4>1. PICK j \in Job, c \in Cron, e \in BOOLEAN, n \in Nat :
                      /\ row[j].there = "yes"
                      /\ row' = [row EXCEPT ![j] = Patched(row[j], c, e, n)]
                      /\ revived \ {j} \subseteq revived'
                      /\ \/ n > now
                         \/ n = row[j].next /\ revived \subseteq revived' /\ (e => row[j].enabled \/ j \in revived')
                BY <2>4, <3>3, UpdateEffect
            <4>2. k # j => row'[k] = row[k] /\ (k \in revived => k \in revived')
                BY <2>0, <4>1
            <4>3. k = j => row'[k].last = row[k].last /\ row'[k].next = n /\ row'[k].enabled = e
                BY <2>0, <4>1 DEF Patched, Row
            <4>4. CASE k # j
                BY <2>0, <3>1, <4>2, <4>4 DEF Waits
            <4>5. CASE k = j
                <5>1. /\ row[k].there = "yes" /\ row[k].last \in Nat /\ row[k].next \in Nat /\ row[k].last <= now
                      /\ row[k].enabled /\ k \notin revived => row[k].last < row[k].next
                    BY <2>0, <4>1, <4>3, <4>5 DEF Waits
                <5>2. row'[k].enabled /\ k \notin revived' => row[k].last < n
                    BY <2>0, <4>1, <4>3, <4>5, <5>1
                <5> QED
                    BY <3>1, <4>3, <4>5, <5>1, <5>2 DEF Waits
            <4> QED
                BY <4>4, <4>5
        <3> QED
            BY <3>2, <3>3
    <2>5. ASSUME NEW p \in Pod, Runs(p)
          PROVE  Waits(k)'
        <3>1. CASE StartRun(p) \/ HandlerEnds(p) \/ CloseHistory(p)
            BY <2>0, <3>1 DEF StartRun, HandlerEnds, CloseHistory, Waits
        <3>2. CASE FinishRun(p)
            <4>1. now' = now
                BY <3>2 DEF FinishRun
            <4> DEFINE run == Head(batch[p])
            <4>2. run.job \in Job /\ revived \ {run.job} \subseteq revived'
                BY <3>2, FinishEffect DEF Run
            <4>4. CASE row' = row /\ row[run.job].there # "yes"
                <5>1. k # run.job
                    BY <4>4
                <5> HIDE DEF run
                <5> QED
                    BY <2>0, <4>1, <4>2, <4>4, <5>1 DEF Waits
            <4>5. CASE \E e \in BOOLEAN, n \in Nat :
                           /\ row' = [row EXCEPT ![run.job] = Served(row[run.job], tick[p], e, n)]
                           /\ e => n > tick[p]
                <5> HIDE DEF run
                <5>1. PICK e \in BOOLEAN, n \in Nat :
                          /\ row' = [row EXCEPT ![run.job] = Served(row[run.job], tick[p], e, n)]
                          /\ e => n > tick[p]
                    BY <4>5
                <5>2. tick[p] \in Nat /\ tick[p] <= now
                    BY <2>0 DEF TypeOK
                <5>3. k # run.job => row'[k] = row[k] /\ (k \in revived => k \in revived')
                    BY <2>0, <4>2, <5>1
                <5>4. k = run.job => row'[k].last = tick[p] /\ row'[k].next = n /\ row'[k].enabled = e
                    BY <2>0, <4>2, <5>1 DEF Served, Row
                <5>5. CASE k # run.job
                    BY <2>0, <4>1, <5>3, <5>5 DEF Waits
                <5>6. CASE k = run.job
                    BY <4>1, <5>1, <5>2, <5>4, <5>6 DEF Waits
                <5> QED
                    BY <5>5, <5>6
            <4> QED
                BY <3>2, <4>4, <4>5, FinishEffect
        <3> QED
            BY <2>5, <3>1, <3>2 DEF Runs
    <2>6. ASSUME NEW p \in Pod, Crash(p)
          PROVE  Waits(k)'
        BY <2>0, <2>6 DEF Crash, Waits
    <2>7. ASSUME NEW p \in Pod, NEW s \in Batches, Claim(p, s)
          PROVE  Waits(k)'
        <3>1. row'[k] = [row[k] EXCEPT !.lockedAt = row'[k].lockedAt] /\ now' = now /\ revived' = revived
            BY <2>7, ClaimEffect DEF Claim
        <3>2. /\ row'[k].there = row[k].there /\ row'[k].last = row[k].last /\ row'[k].next = row[k].next
              /\ row'[k].enabled = row[k].enabled
            BY <2>0, <3>1 DEF Row
        <3> QED
            BY <2>0, <3>1, <3>2 DEF Waits
    <2>8. CASE Tick
        BY <2>0, <2>8 DEF Tick, Waits
    <2>9. CASE UNCHANGED vars
        BY <2>0, <2>9 DEF vars, Waits
    <2> QED
        BY <2>1, <2>2, <2>3, <2>4, <2>5, <2>6, <2>7, <2>8, <2>9 DEF Next
<1>3. TypeOK /\ CatchUpInv => CatchUpOnce
    BY DEF TypeOK, CatchUpInv, CatchUpOnce, Waits, Row, Time
<1> QED
    BY <1>1, <1>2, <1>3, JobsTypeCorrect, PTL DEF Spec

\* A pass that goes on, with a job in it on the strength of the lock, has a lock
\* that is not stale.
LEMMA LocksOutliveBatches ==
    ASSUME TypeOK, HoldInv, NEW p \in Pod, \E i \in DOMAIN batch[p] : batch[p][i].job \notin long
    PROVE  now <= tick[p] + StaleLock
<1> DEFINE l == Len(batch[p])
<1>1. batch[p] \in Seq(Run) /\ batch[p] # <<>>
    BY DEF TypeOK
<1>2. l \in Nat \ {0}
    BY <1>1, EmptySeq
<1>3. /\ at[p] = "start" => now + l * HandlerTimeout <= tick[p] + StaleLock
      /\ at[p] # "start" => began[p] + l * HandlerTimeout <= tick[p] + StaleLock /\ now <= began[p] + HandlerTimeout
    BY DEF HoldInv, InTime, Work
<1> HIDE DEF l
<1>4. now \in Nat /\ tick[p] \in Nat /\ began[p] \in Nat /\ HandlerTimeout \in Nat /\ StaleLock \in Nat
    BY ScheduleAssumption DEF TypeOK
<1>5. l * HandlerTimeout \in Nat /\ HandlerTimeout <= l * HandlerTimeout
    <2>1. \A a \in Nat : (a + 1) * HandlerTimeout = a * HandlerTimeout + HandlerTimeout /\ a * HandlerTimeout \in Nat
        BY <1>4
    <2>2. l - 1 \in Nat /\ l = (l - 1) + 1
        BY <1>2
    <2> DEFINE m == l - 1
    <2>3. m \in Nat /\ l = m + 1
        BY <2>2
    <2> HIDE DEF m
    <2>4. l * HandlerTimeout = m * HandlerTimeout + HandlerTimeout /\ m * HandlerTimeout \in Nat
        BY <2>1, <2>3
    <2> DEFINE u == m * HandlerTimeout
    <2>5. u \in Nat /\ l * HandlerTimeout = u + HandlerTimeout
        BY <2>4
    <2> HIDE DEF u
    <2> QED
        BY <1>4, <2>5
<1> DEFINE v == l * HandlerTimeout
<1>6. /\ v \in Nat /\ HandlerTimeout <= v
      /\ at[p] = "start" => now + v <= tick[p] + StaleLock
      /\ at[p] # "start" => began[p] + v <= tick[p] + StaleLock /\ now <= began[p] + HandlerTimeout
    BY <1>3, <1>5
<1> HIDE DEF v
<1> QED
    BY <1>4, <1>6

\* A step that moves no batch and neither adds, unlocks nor locks a row that is
\* there keeps every batch's hold on its rows.
KeepsLocks ==
    /\ UNCHANGED <<batch, tick, long>>
    /\ \A j \in Job : row[j].there # "no" =>
           /\ row'[j].there # "no"
           /\ row'[j].there = "yes" => row[j].there = "yes" /\ row'[j].lockedAt = row[j].lockedAt

\* A step that keeps the locks keeps what every batch in progress holds.
LEMMA HoldIsKept ==
    ASSUME TypeOK, HoldInv, NeverDoubleRun, KeepsLocks
    PROVE  (\A p \in Pod : Holds(p)') /\ NeverDoubleRun'
<1>1. \A p \in Pod : \A i \in DOMAIN batch[p] : batch[p][i].job \in Job
    <2> SUFFICES ASSUME NEW p \in Pod, NEW i \in DOMAIN batch[p] PROVE batch[p][i].job \in Job
        OBVIOUS
    <2>1. batch[p] \in Seq(Run)
        BY DEF TypeOK
    <2>2. batch[p][i] \in Run
        BY <2>1
    <2> QED
        BY <2>2 DEF Run
<1>2. batch' = batch /\ tick' = tick /\ long' = long
    BY DEF KeepsLocks
<1>3. NeverDoubleRun'
    BY <1>2 DEF NeverDoubleRun
<1>4. ASSUME NEW p \in Pod PROVE Holds(p)'
    BY <1>1, <1>2 DEF HoldInv, Holds, KeepsLocks
<1> QED
    BY <1>3, <1>4

\* The end of a run gives back the time it took, and the rows left in the batch
\* and in the others keep their locks.
LEMMA FinishKeepsHold ==
    ASSUME TypeOK, HoldInv, NeverDoubleRun, NEW p \in Pod, FinishRun(p)
    PROVE  HoldInv' /\ NeverDoubleRun'
<1> DEFINE b == batch[p]
           j == Head(b).job
<1>1. b \in Seq(Run) /\ b # <<>> /\ j \in Job /\ j = b[1].job /\ row \in [Job -> Row]
    <2>1. b \in Seq(Run) /\ b # <<>> /\ Head(b) \in Run /\ row \in [Job -> Row]
        BY FinishEffect DEF TypeOK
    <2> HIDE DEF b
    <2> QED
        BY <2>1 DEF Run
<1>2. /\ Len(b) \in Nat \ {0} /\ Tail(b) \in Seq(Run) /\ Len(Tail(b)) = Len(b) - 1
      /\ \A i \in 1 .. Len(b) - 1 : Tail(b)[i] = b[i + 1]
    <2>1. Len(b) \in Nat \ {0}
        BY <1>1, EmptySeq
    <2> HIDE DEF b
    <2>2. Tail(b) \in Seq(Run) /\ Len(Tail(b)) = Len(b) - 1
        BY <1>1, HeadTailProperties
    <2>3. \A i \in 1 .. Len(b) - 1 : Tail(b)[i] = b[i + 1]
        BY <1>1, HeadTailProperties
    <2> QED
        BY <2>1, <2>2, <2>3
<1>3. /\ batch \in [Pod -> Seq(Run)] /\ batch' = [batch EXCEPT ![p] = Tail(b)]
      /\ at \in [Pod -> Step] /\ at' = [at EXCEPT ![p] = IF Len(b) = 1 THEN "idle" ELSE "start"]
      /\ at[p] = "row" /\ now' = now /\ tick' = tick /\ began' = began /\ long' = long
    BY DEF FinishRun, TypeOK
<1>4. \A k \in Job : k # j => row'[k] = row[k]
    <2>1. row' = row \/ \E e \in BOOLEAN, n \in Nat : row' = [row EXCEPT ![j] = Served(row[j], tick[p], e, n)]
        BY FinishEffect
    <2> HIDE DEF j
    <2> QED
        BY <1>1, <2>1
<1>8. \A k \in Job : row[k].there # "no" => row'[k].there # "no"
    <2> SUFFICES ASSUME NEW k \in Job, row[k].there # "no" PROVE row'[k].there # "no"
        OBVIOUS
    <2>1. CASE k # j
        BY <1>4, <2>1
    <2>2. CASE row' = row
        BY <2>2
    <2>3. CASE k = j /\ row' # row
        <3>1. PICK e \in BOOLEAN, n \in Nat : row[j].there = "yes" /\ row' = [row EXCEPT ![j] = Served(row[j], tick[p], e, n)]
            BY <2>3, FinishEffect
        <3> HIDE DEF j
        <3> QED
            BY <1>1, <2>3, <3>1 DEF Served, Row
    <2> QED
        BY <2>1, <2>2, <2>3
<1>5. ASSUME NEW q \in Pod PROVE InTime(q)'
    <2>1. CASE q # p
        <3>1. batch'[q] = batch[q] /\ at'[q] = at[q]
            BY <1>3, <2>1
        <3> QED
            BY <1>3, <3>1 DEF HoldInv, InTime, Work
    <2>2. CASE q = p
        <3> SUFFICES ASSUME NEW i \in DOMAIN batch'[p], batch'[p][i].job \notin long
                     PROVE  at'[p] = "start" /\ now + Len(batch'[p]) * HandlerTimeout <= tick[p] + StaleLock
            BY <1>3, <2>2 DEF InTime, Work
        <3>1. batch'[p] = Tail(b) /\ i \in 1 .. Len(b) - 1 /\ i + 1 \in DOMAIN b /\ Tail(b)[i] = b[i + 1]
            BY <1>1, <1>2, <1>3
        <3> DEFINE l == Len(b)
        <3>2. began[p] + l * HandlerTimeout <= tick[p] + StaleLock /\ now <= began[p] + HandlerTimeout
            BY <1>3, <3>1 DEF HoldInv, InTime, Work
        <3>3. /\ now \in Nat /\ tick[p] \in Nat /\ began[p] \in Nat
              /\ HandlerTimeout \in Nat /\ StaleLock \in Nat
            BY ScheduleAssumption DEF TypeOK
        <3>4. l \in Nat \ {0} /\ l # 1 /\ Len(batch'[p]) = l - 1 /\ at'[p] = "start"
            BY <1>2, <1>3, <3>1
        <3> HIDE DEF l
        <3>5. l * HandlerTimeout = (l - 1) * HandlerTimeout + HandlerTimeout /\ (l - 1) * HandlerTimeout \in Nat
            <4>1. \A a \in Nat : (a + 1) * HandlerTimeout = a * HandlerTimeout + HandlerTimeout /\ a * HandlerTimeout \in Nat
                BY <3>3
            <4> DEFINE m == l - 1
            <4>2. m \in Nat /\ l = m + 1
                BY <3>4
            <4> HIDE DEF m
            <4>3. l * HandlerTimeout = m * HandlerTimeout + HandlerTimeout /\ m * HandlerTimeout \in Nat
                BY <4>1, <4>2
            <4> QED
                BY <4>3 DEF m
        <3> DEFINE u == (l - 1) * HandlerTimeout
        <3>6. u \in Nat /\ began[p] + (u + HandlerTimeout) <= tick[p] + StaleLock
            BY <3>2, <3>5
        <3> HIDE DEF u
        <3>7. now + u <= tick[p] + StaleLock
            BY <3>2, <3>3, <3>6
        <3> QED
            BY <3>4, <3>7 DEF u
    <2> QED
        BY <2>1, <2>2
<1>6. ASSUME NEW q \in Pod, NEW i \in DOMAIN batch'[q]
      PROVE  \E k \in DOMAIN batch[q] : /\ batch'[q][i] = batch[q][k] /\ batch[q][k].job \in Job
                                        /\ batch[q][k].job # j \/ j \in long
                                        /\ k = IF q = p THEN i + 1 ELSE i
    <2>1. CASE q # p
        <3>1. batch'[q] = batch[q] /\ batch[q] \in Seq(Run)
            BY <1>3, <2>1
        <3>2. batch[q][i] \in Run /\ (batch[q][i].job # j \/ j \in long)
            BY <1>1, <1>2, <1>6, <2>1, <3>1 DEF NeverDoubleRun
        <3> QED
            BY <1>6, <2>1, <3>1, <3>2 DEF Run
    <2>2. CASE q = p
        <3>1. batch'[q] = Tail(b) /\ i \in 1 .. Len(b) - 1
            BY <1>2, <1>3, <1>6, <2>2
        <3>2. i + 1 \in DOMAIN b /\ 1 \in DOMAIN b /\ i + 1 # 1 /\ b[i + 1] \in Run
            BY <1>1, <1>2, <3>1
        <3>3. b[i + 1].job # j
            BY <1>1, <2>2, <3>2 DEF HoldInv, Holds
        <3> QED
            BY <1>2, <2>2, <3>1, <3>2, <3>3 DEF Run
    <2> QED
        BY <2>1, <2>2
<1>7. ASSUME NEW q \in Pod PROVE Holds(q)'
    <2> SUFFICES ASSUME NEW i \in DOMAIN batch'[q]
                 PROVE  /\ row'[batch'[q][i].job].there # "no"
                        /\ row'[batch'[q][i].job].there = "yes" /\ batch'[q][i].job \notin long' =>
                               row'[batch'[q][i].job].lockedAt = tick'[q]
                        /\ \A k \in DOMAIN batch'[q] : batch'[q][i].job = batch'[q][k].job => i = k
        BY DEF Holds
    <2>1. PICK m \in DOMAIN batch[q] : /\ batch'[q][i] = batch[q][m] /\ batch[q][m].job \in Job
                                       /\ batch[q][m].job # j \/ j \in long
                                       /\ m = IF q = p THEN i + 1 ELSE i
        BY <1>6
    <2>2. batch[q][m].job # j => row'[batch'[q][i].job] = row[batch[q][m].job]
        BY <1>4, <2>1
    <2>3. ASSUME NEW k \in DOMAIN batch'[q], batch'[q][i].job = batch'[q][k].job PROVE i = k
        <3>1. PICK n \in DOMAIN batch[q] : batch'[q][k] = batch[q][n] /\ n = IF q = p THEN k + 1 ELSE k
            BY <1>6
        <3>2. m = n
            BY <2>1, <2>3, <3>1 DEF HoldInv, Holds
        <3>3. batch'[q] \in Seq(Run)
            BY <1>2, <1>3
        <3>4. i \in Nat /\ k \in Nat
            BY <3>3
        <3> QED
            BY <2>1, <3>1, <3>2, <3>4
    <2>4. row'[batch'[q][i].job].there # "no"
        BY <1>8, <2>1 DEF HoldInv, Holds
    <2>5. row'[batch'[q][i].job].there = "yes" /\ batch'[q][i].job \notin long' =>
              row'[batch'[q][i].job].lockedAt = tick'[q]
        BY <1>3, <2>1, <2>2 DEF HoldInv, Holds
    <2> QED
        BY <2>3, <2>4, <2>5
<1>9. NeverDoubleRun'
    <2> SUFFICES ASSUME NEW q \in Pod, NEW r \in Pod, q # r, NEW i \in DOMAIN batch'[q], NEW k \in DOMAIN batch'[r],
                        batch'[q][i].job = batch'[r][k].job
                 PROVE  batch'[q][i].job \in long'
        BY DEF NeverDoubleRun
    <2>1. PICK m \in DOMAIN batch[q] : batch'[q][i] = batch[q][m]
        BY <1>6
    <2>2. PICK n \in DOMAIN batch[r] : batch'[r][k] = batch[r][n]
        BY <1>6
    <2> QED
        BY <1>3, <2>1, <2>2 DEF NeverDoubleRun
<1> QED
    BY <1>5, <1>7, <1>9 DEF HoldInv

\* A claim starts a batch with its time before it, or marks its jobs, and takes
\* no row from another that holds it by its lock: that lock is not stale.
LEMMA ClaimKeepsHold ==
    ASSUME TypeOK, HoldInv, NeverDoubleRun, NEW p \in Pod, NEW s \in Batches, Claim(p, s)
    PROVE  HoldInv' /\ NeverDoubleRun'
<1>0. now \in Nat /\ HandlerTimeout \in Nat /\ StaleLock \in Nat /\ row \in [Job -> Row]
    BY ScheduleAssumption DEF TypeOK
<1>1. /\ Len(s) \in 1 .. Limit /\ DOMAIN batch'[p] = DOMAIN s /\ Len(batch'[p]) = Len(s)
      /\ \A i \in DOMAIN s : s[i] \in Job /\ Claimable(s[i]) /\ batch'[p][i].job = s[i]
      /\ \A i, k \in DOMAIN s : s[i] = s[k] => i = k
      /\ \A j \in Job : row'[j].lockedAt = IF \E i \in DOMAIN s : s[i] = j THEN now ELSE row[j].lockedAt
      /\ \A j \in long : InBatch(j) => j \in long'
      /\ \A i \in DOMAIN s : s[i] \notin long' => Len(s) * HandlerTimeout <= StaleLock
    BY ClaimEffect
<1>2. \A j \in Job : row'[j].there = row[j].there
    <2> SUFFICES ASSUME NEW j \in Job PROVE row'[j].there = row[j].there
        OBVIOUS
    <2>1. row'[j] = [row[j] EXCEPT !.lockedAt = row'[j].lockedAt] /\ row[j] \in Row
        BY <1>0, ClaimEffect
    <2> QED
        BY <2>1 DEF Row
<1>3. /\ at[p] = "idle" /\ at'[p] = "start" /\ tick'[p] = now /\ now' = now
      /\ \A q \in Pod : q # p => /\ batch'[q] = batch[q] /\ at'[q] = at[q]
                                /\ tick'[q] = tick[q] /\ began'[q] = began[q]
    BY DEF Claim, TypeOK
<1>4. ASSUME NEW q \in Pod, NEW i \in DOMAIN batch[q]
      PROVE  /\ batch[q][i].job \in Job
             /\ batch[q][i].job \notin long => ~Claimable(batch[q][i].job)
             /\ batch[q][i].job \in long => batch[q][i].job \in long'
    <2> DEFINE j == batch[q][i].job
    <2>1. batch[q] \in Seq(Run) /\ tick[q] \in Nat
        BY <1>4 DEF TypeOK
    <2>2. j \in Job
        <3>1. batch[q][i] \in Run
            BY <1>4, <2>1
        <3> QED
            BY <3>1 DEF Run
    <2>3. j \notin long => now <= tick[q] + StaleLock
        BY <1>4, LocksOutliveBatches
    <2>4. row[j].there = "yes" /\ j \notin long => row[j].lockedAt = tick[q]
        BY <1>4 DEF HoldInv, Holds
    <2>5. InBatch(j)
        BY <1>4 DEF InBatch
    <2> HIDE DEF j
    <2>6. j \notin long => ~Claimable(j)
        BY <1>0, <2>1, <2>3, <2>4, ScheduleAssumption DEF Claimable
    <2>7. j \in long => j \in long'
        BY <1>1, <2>5
    <2> QED
        BY <2>2, <2>6, <2>7 DEF j
<1>5. ASSUME NEW q \in Pod PROVE InTime(q)'
    <2>1. CASE q # p
        BY <1>3, <1>4, <2>1 DEF HoldInv, InTime, Work
    <2>2. CASE q = p
        <3>1. (\E i \in DOMAIN s : s[i] \notin long') => now + Len(s) * HandlerTimeout <= now + StaleLock
            <4> DEFINE w == Len(s) * HandlerTimeout
            <4>1. w \in Nat /\ ((\E i \in DOMAIN s : s[i] \notin long') => w <= StaleLock)
                BY <1>0, <1>1
            <4> HIDE DEF w
            <4>2. (\E i \in DOMAIN s : s[i] \notin long') => now + w <= now + StaleLock
                BY <1>0, <4>1
            <4> QED
                BY <4>2 DEF w
        <3> QED
            BY <1>1, <1>3, <2>2, <3>1 DEF InTime, Work
    <2> QED
        BY <2>1, <2>2
<1>6. ASSUME NEW q \in Pod PROVE Holds(q)'
    <2>1. CASE q # p
        <3>1. \A i \in DOMAIN batch[q] : batch[q][i].job \notin long' =>
                  batch[q][i].job \notin long /\ row'[batch[q][i].job].lockedAt = row[batch[q][i].job].lockedAt
            BY <1>1, <1>4
        <3> QED
            BY <1>2, <1>3, <1>4, <2>1, <3>1 DEF HoldInv, Holds
    <2>2. CASE q = p
        <3>1. \A i \in DOMAIN s : row'[s[i]].there = "yes" /\ row'[s[i]].lockedAt = now
            BY <1>1, <1>2 DEF Claimable
        <3> QED
            BY <1>1, <1>3, <2>2, <3>1 DEF Holds
    <2> QED
        BY <2>1, <2>2
<1>7. NeverDoubleRun'
    <2> SUFFICES ASSUME NEW q \in Pod, NEW r \in Pod, q # r, NEW i \in DOMAIN batch'[q], NEW k \in DOMAIN batch'[r],
                        batch'[q][i].job = batch'[r][k].job
                 PROVE  batch'[q][i].job \in long'
        BY DEF NeverDoubleRun
    <2>1. CASE q = p
        <3>1. batch'[r] = batch[r]
            BY <1>3, <2>1
        <3> QED
            BY <1>1, <1>4, <2>1, <3>1
    <2>2. CASE r = p
        <3>1. batch'[q] = batch[q]
            BY <1>3, <2>2
        <3> QED
            BY <1>1, <1>4, <2>2, <3>1
    <2>3. CASE q # p /\ r # p
        BY <1>3, <1>4, <2>3 DEF NeverDoubleRun
    <2> QED
        BY <2>1, <2>2, <2>3
<1> QED
    BY <1>5, <1>6, <1>7 DEF HoldInv

\* "Row claims are FOR UPDATE SKIP LOCKED, so several pods never double-run", for
\* every number of jobs and processes, every time-out and every stale lock: as
\* far as a job was claimed in batches that their time-outs keep within the lock.
THEOREM PodsNeverDoubleRun == Spec => []NeverDoubleRun
<1> DEFINE Inv == HoldInv /\ NeverDoubleRun
<1>1. Init => Inv
    BY DEF Init, HoldInv, InTime, Holds, NeverDoubleRun
<1>2. TypeOK /\ TypeOK' /\ Inv /\ [Next]_vars => Inv'
    <2> SUFFICES ASSUME TypeOK, TypeOK', HoldInv, NeverDoubleRun, [Next]_vars
                 PROVE  HoldInv' /\ NeverDoubleRun'
        OBVIOUS
    <2>0. now \in Nat /\ row \in [Job -> Row] /\ HandlerTimeout \in Nat
        BY ScheduleAssumption DEF TypeOK
    <2>a. ASSUME KeepsLocks, \A p \in Pod : InTime(p)' PROVE HoldInv' /\ NeverDoubleRun'
        BY <2>a, HoldIsKept DEF HoldInv
    <2>b. ASSUME UNCHANGED <<now, podVars>> PROVE \A p \in Pod : InTime(p)'
        BY <2>b DEF HoldInv, InTime, Work, podVars
    <2>1. ASSUME NEW j \in Job, NEW c \in Cron, NEW on \in BOOLEAN, CreateScheduledJob(j, c, on) PROVE HoldInv' /\ NeverDoubleRun'
        <3>1. KeepsLocks
            BY <2>0, <2>1 DEF CreateScheduledJob, KeepsLocks, podVars
        <3> QED
            BY <2>1, <2>a, <2>b, <3>1 DEF CreateScheduledJob
    <2>2. ASSUME NEW j \in Job, NEW patch \in Patch, UpdateReads(j, patch) PROVE HoldInv' /\ NeverDoubleRun'
        <3>1. KeepsLocks
            BY <2>2 DEF UpdateReads, KeepsLocks, podVars
        <3> QED
            BY <2>2, <2>a, <2>b, <3>1 DEF UpdateReads
    <2>3. ASSUME NEW j \in Job, DeleteScheduledJob(j) PROVE HoldInv' /\ NeverDoubleRun'
        <3>1. KeepsLocks
            BY <2>0, <2>3 DEF DeleteScheduledJob, KeepsLocks, podVars, Row
        <3> QED
            BY <2>3, <2>a, <2>b, <3>1 DEF DeleteScheduledJob
    <2>4. CASE UpdateWrites
        <3>1. KeepsLocks
            <4>1. CASE row' = row
                BY <2>4, <4>1 DEF UpdateWrites, KeepsLocks, podVars
            <4>2. CASE row' # row
                <5>1. PICK j \in Job, c \in Cron, e \in BOOLEAN, n \in Nat :
                          /\ row[j].there = "yes"
                          /\ row' = [row EXCEPT ![j] = Patched(row[j], c, e, n)]
                    BY <2>4, <4>2, UpdateEffect
                <5>2. Patched(row[j], c, e, n).there = "yes" /\ Patched(row[j], c, e, n).lockedAt = row[j].lockedAt
                    BY <2>0, <5>1 DEF Patched, Row
                <5> QED
                    BY <2>0, <2>4, <5>1, <5>2 DEF UpdateWrites, KeepsLocks, podVars
            <4> QED
                BY <4>1, <4>2
        <3> QED
            BY <2>4, <2>a, <2>b, <3>1 DEF UpdateWrites
    <2>5. ASSUME NEW p \in Pod, Runs(p) PROVE HoldInv' /\ NeverDoubleRun'
        <3>1. CASE StartRun(p) \/ HandlerEnds(p) \/ CloseHistory(p)
            <4>1. KeepsLocks
                BY <3>1 DEF StartRun, HandlerEnds, CloseHistory, KeepsLocks
            <4>2. ASSUME NEW q \in Pod PROVE InTime(q)'
                <5>1. now' = now /\ batch' = batch /\ tick' = tick /\ long' = long
                    BY <3>1 DEF StartRun, HandlerEnds, CloseHistory
                <5>2. CASE q # p
                    <6>1. at'[q] = at[q] /\ began'[q] = began[q]
                        BY <3>1, <5>2 DEF StartRun, HandlerEnds, CloseHistory, TypeOK
                    <6> QED
                        BY <5>1, <6>1 DEF HoldInv, InTime, Work
                <5>3. CASE q = p
                    <6>1. \/ at[p] = "start" /\ began'[p] = now
                          \/ at[p] \in {"handler", "history"} /\ began'[p] = began[p]
                        BY <3>1 DEF StartRun, HandlerEnds, CloseHistory, TypeOK
                    <6>2. at'[p] \in {"handler", "history", "row"}
                        BY <3>1 DEF StartRun, HandlerEnds, CloseHistory, TypeOK
                    <6>3. now <= now + HandlerTimeout
                        BY <2>0
                    <6>4. InTime(p)
                        BY DEF HoldInv
                    <6>5. Work(p)' = Work(p)
                        BY <5>1 DEF Work
                    <6> QED
                        BY <5>1, <5>3, <6>1, <6>2, <6>3, <6>4, <6>5 DEF InTime
                <5> QED
                    BY <5>2, <5>3
            <4> QED
                BY <4>1, <4>2, <2>a
        <3> QED
            BY <2>5, <3>1, FinishKeepsHold DEF Runs
    <2>6. ASSUME NEW p \in Pod, Crash(p) PROVE HoldInv' /\ NeverDoubleRun'
        <3>1. /\ batch'[p] = <<>> /\ at'[p] = "idle" /\ now' = now /\ row' = row /\ tick' = tick /\ began' = began /\ long' = long
              /\ \A q \in Pod : q # p => batch'[q] = batch[q] /\ at'[q] = at[q]
            BY <2>6 DEF Crash, TypeOK
        <3>2. ASSUME NEW q \in Pod PROVE InTime(q)' /\ Holds(q)'
            BY <3>1 DEF HoldInv, InTime, Holds, Work
        <3>3. NeverDoubleRun'
            BY <3>1 DEF NeverDoubleRun
        <3> QED
            BY <3>2, <3>3 DEF HoldInv
    <2>7. ASSUME NEW p \in Pod, NEW s \in Batches, Claim(p, s) PROVE HoldInv' /\ NeverDoubleRun'
        BY <2>7, ClaimKeepsHold
    <2>8. CASE Tick
        <3>1. KeepsLocks
            BY <2>8 DEF Tick, KeepsLocks, podVars
        <3>2. ASSUME NEW q \in Pod PROVE InTime(q)'
            <4>1. now' = now + 1 /\ batch' = batch /\ at' = at /\ tick' = tick /\ began' = began /\ long' = long
                BY <2>8 DEF Tick, podVars
            <4>2. at[q] = "idle" \/ (at[q] = "handler" /\ now < began[q] + HandlerTimeout)
                BY <2>8 DEF Tick
            <4>3. began[q] \in Nat
                BY DEF TypeOK
            <4>4. InTime(q) /\ Work(q)' = Work(q) /\ (at[q] = "idle" => batch[q] = <<>>)
                BY <4>1 DEF HoldInv, Work, TypeOK
            <4> QED
                BY <2>0, <4>1, <4>2, <4>3, <4>4 DEF InTime
        <3> QED
            BY <2>a, <3>1, <3>2
    <2>9. CASE UNCHANGED vars
        BY <2>9 DEF vars, HoldInv, InTime, Holds, Work, NeverDoubleRun
    <2> QED
        BY <2>1, <2>2, <2>3, <2>4, <2>5, <2>6, <2>7, <2>8, <2>9 DEF Next
<1> QED
    BY <1>1, <1>2, JobsTypeCorrect, PTL DEF Spec

-----------------------------------------------------------------------------
(* The other surfaces take turns with these. *)
VARIABLES focus, x1, x2, x3, x4, x5, x6, x7, x8, x9, x10, x11, x12, x13, x14, x15, x16

-----------------------------------------------------------------------------
(* The web client's cache: x1 is the cookie, x4 the epoch, x5 the cache, x6 *)
(* the fetches and x7 the versions at the server.                           *)
Client == INSTANCE WebClient WITH
        cookie <- x1, user <- x2, page <- x3, epoch <- x4, entry <- x5, calls <- x6, version <- x7, acks <- x8,
        org <- x9, orgCalls <- x10, leaving <- x11

\* The cache of a new page is sound.
LEMMA CacheStarts == Client!Init => Client!CacheInv
  BY ClientAssumption DEF Client!Init, Client!CacheInv, Client!CacheTypes, Client!Current, Client!Entry

\* What leaves the entries' results, generations and fetches alone, and the fetches, keeps it.
LEMMA CacheUntouched ==
    ASSUME Client!CacheInv, Client!CacheTypes', x4' = x4, x6' = x6,
           \A q \in Query : x5'[q].gen = x5[q].gen /\ x5'[q].data = x5[q].data /\ x5'[q].inFlight = x5[q].inFlight
    PROVE  Client!CacheInv'
<1>1. \A q \in Query : Client!Current(q)' = Client!Current(q)
  BY DEF Client!Current
<1> QED
  BY <1>1 DEF Client!CacheInv

\* One fetch for each query that has none.
LEMMA RevalidateKeepsCache ==
    ASSUME Client!CacheInv, NEW e \in [Query -> Client!Entry], NEW S \in SUBSET Query, Client!Revalidate(e, S),
           \A q \in Query : e[q].gen = x5[q].gen /\ e[q].data = x5[q].data /\ e[q].inFlight = x5[q].inFlight,
           x1' = x1, x4' = x4, x7' \in [User -> 0 .. MaxWrites]
    PROVE  Client!CacheInv'
<1> DEFINE new == {q \in S : ~ e[q].inFlight}
           ids == {i \in 1 .. MaxCalls : \A c \in x6 : c.id # i}
<1>0. Client!CacheTypes /\ (\A q \in Query : x5[q].gen = x4)
  BY DEF Client!CacheInv
<1>1. PICK pick \in [new -> ids] :
        x6' = x6 \cup {[id |-> pick[q], q |-> q, gen |-> e[q].gen, epoch |-> x4, who |-> x1,
                        answer |-> {}, served |-> FALSE] : q \in new}
  BY DEF Client!Revalidate
<1> DEFINE call(q) == [id |-> pick[q], q |-> q, gen |-> e[q].gen, epoch |-> x4, who |-> x1,
                       answer |-> {}, served |-> FALSE]
<1>2. x5' = [q \in Query |-> [e[q] EXCEPT !.inFlight = @ \/ q \in S]]
  BY DEF Client!Revalidate
<1>3. ASSUME NEW q \in new
      PROVE  /\ call(q) \in Client!Call /\ call(q).q = q /\ call(q).gen = x4 /\ call(q).epoch = x4
             /\ call(q).answer = {}
  BY <1>0 DEF Client!CacheTypes, Client!Call, Client!Entry
<1>4. ASSUME NEW q \in Query
      PROVE  /\ x5'[q] \in Client!Entry /\ x5'[q].gen = x5[q].gen /\ x5'[q].data = x5[q].data
             /\ x5'[q].inFlight = (x5[q].inFlight \/ q \in S)
  BY <1>2 DEF Client!Entry
<1>5. Client!CacheTypes'
  <2>1. x6' \subseteq Client!Call
    BY <1>0, <1>1, <1>3 DEF Client!CacheTypes
  <2> QED
    BY <1>0, <1>2, <1>4, <2>1 DEF Client!CacheTypes
<1>6. \A c \in x6' : c.gen = c.epoch /\ c.epoch <= x4 /\ \A d \in c.answer : d.epoch = c.epoch
  BY <1>0, <1>1, <1>3 DEF Client!CacheInv, Client!CacheTypes
<1>7. ASSUME NEW q \in Query
      PROVE  IF x5'[q].inFlight THEN \E c \in x6' : Client!Current(q)' = {c} ELSE Client!Current(q)' = {}
  <2>1. x6' = x6 \cup {call(p) : p \in new}
    BY <1>1
  <2> HIDE DEF call
  <2>2. IF x5[q].inFlight THEN \E c \in x6 : Client!Current(q) = {c} ELSE Client!Current(q) = {}
    BY DEF Client!CacheInv
  <2>3. CASE q \in new
    <3>1. Client!Current(q) = {} /\ x5'[q].inFlight
      BY <1>4, <2>2, <2>3
    <3>2. Client!Current(q)' = {call(q)}
      BY <1>0, <1>3, <1>4, <2>1, <2>3, <3>1 DEF Client!Current
    <3> QED
      BY <2>1, <2>3, <3>1, <3>2
  <2>4. CASE q \notin new
    <3>1. Client!Current(q)' = Client!Current(q)
      BY <1>3, <1>4, <2>1, <2>4 DEF Client!Current
    <3>2. x5'[q].inFlight = x5[q].inFlight
      BY <1>4, <2>4 DEF Client!Entry
    <3> QED
      BY <2>1, <2>2, <3>1, <3>2
  <2> QED BY <2>3, <2>4
<1> QED
  BY <1>0, <1>4, <1>5, <1>6, <1>7 DEF Client!CacheInv

\* The server's answer takes the place of the request.
LEMMA ServeKeepsCache ==
    ASSUME Client!CacheInv, NEW c \in x6, Client!Serve(c)
    PROVE  Client!CacheInv'
<1> DEFINE served == [c EXCEPT !.served = TRUE,
                               !.answer = {[who |-> u, version |-> x7[u], epoch |-> c.epoch] : u \in c.who}]
<1>0. Client!CacheTypes /\ c \in Client!Call /\ ~ c.served
  BY DEF Client!CacheInv, Client!CacheTypes, Client!Serve
<1>1. x1' = x1 /\ x4' = x4 /\ x5' = x5 /\ x7' = x7 /\ x6' = (x6 \ {c}) \cup {served}
  BY DEF Client!Serve, Client!session, Client!other
<1>a. PICK answer : answer = {[who |-> u, version |-> x7[u], epoch |-> c.epoch] : u \in c.who}
  OBVIOUS
<1>b. answer \in SUBSET Client!Result /\ \A d \in answer : d.epoch = c.epoch
  BY <1>0, <1>a DEF Client!CacheTypes, Client!Call, Client!Result
<1>2. /\ served \in Client!Call /\ served.q = c.q /\ served.gen = c.gen /\ served.epoch = c.epoch
      /\ served # c /\ \A d \in served.answer : d.epoch = c.epoch
  <2>1. served = [c EXCEPT !.served = TRUE, !.answer = answer]
    BY <1>a
  <2> HIDE DEF served
  <2>2. /\ served \in Client!Call /\ served.q = c.q /\ served.gen = c.gen /\ served.epoch = c.epoch
        /\ served.answer = answer
    BY <1>0, <1>b, <2>1 DEF Client!Call
  <2>3. served.served
    BY <1>0, <2>1 DEF Client!Call
  <2> QED
    BY <1>0, <1>b, <2>2, <2>3
<1> HIDE DEF served
<1>3. Client!CacheTypes'
  BY <1>0, <1>1, <1>2 DEF Client!CacheTypes
<1>4. \A k \in x6' : k.gen = k.epoch /\ k.epoch <= x4' /\ \A d \in k.answer : d.epoch = k.epoch
  BY <1>1, <1>2 DEF Client!CacheInv
<1>5. ASSUME NEW q \in Query
      PROVE  IF x5'[q].inFlight THEN \E k \in x6' : Client!Current(q)' = {k} ELSE Client!Current(q)' = {}
  <2>1. IF x5[q].inFlight THEN \E k \in x6 : Client!Current(q) = {k} ELSE Client!Current(q) = {}
    BY DEF Client!CacheInv
  <2>2. CASE c \in Client!Current(q)
    <3>1. Client!Current(q)' = {served} /\ x5'[q].inFlight
      BY <1>1, <1>2, <2>1, <2>2 DEF Client!Current
    <3> QED
      BY <1>1, <3>1
  <2>3. CASE c \notin Client!Current(q)
    <3>1. Client!Current(q)' = Client!Current(q)
      BY <1>1, <1>2, <2>3 DEF Client!Current
    <3>2. \A k \in Client!Current(q) : k \in x6'
      BY <1>1, <2>3 DEF Client!Current
    <3> QED
      BY <1>1, <2>1, <3>1, <3>2
  <2> QED BY <2>2, <2>3
<1> QED
  BY <1>1, <1>3, <1>4, <1>5 DEF Client!CacheInv

\* A fetch that ends with `answer`, which is its own or nothing.
LEMMA SettledKeepsCache ==
    ASSUME Client!CacheInv, NEW c \in x6, NEW answer \in {c.answer, {}},
           x6' = x6 \ {c}, x5' = [x5 EXCEPT ![c.q] = Client!Settled([c EXCEPT !.answer = answer])],
           x1' = x1, x4' = x4, x7' = x7
    PROVE  Client!CacheInv'
<1> DEFINE ended == [c EXCEPT !.answer = answer]
<1>0. Client!CacheTypes /\ c \in Client!Call /\ x5 \in [Query -> Client!Entry] /\ c.q \in Query
  BY DEF Client!CacheInv, Client!CacheTypes, Client!Call
<1>1. ended.q = c.q /\ ended.gen = c.gen /\ ended.answer = answer /\ answer \in SUBSET Client!Result
  BY <1>0 DEF Client!Call
<1>2. c.gen = c.epoch /\ \A d \in answer : d.epoch = c.epoch
  BY DEF Client!CacheInv
<1> HIDE DEF ended
<1>3. x5' = [x5 EXCEPT ![c.q] = Client!Settled(ended)]
  BY DEF ended
<1>4. CASE c.gen # x5[c.q].gen
  <2>1. x5' = x5
    BY <1>0, <1>1, <1>3, <1>4 DEF Client!Settled
  <2>2. \A q \in Query : Client!Current(q)' = Client!Current(q) /\ c \notin Client!Current(q)
    BY <1>0, <1>4, <2>1 DEF Client!Current
  <2>3. \A q \in Query : \A k \in Client!Current(q) : k \in x6'
    BY <2>2 DEF Client!Current
  <2>4. Client!CacheTypes'
    BY <1>0, <2>1 DEF Client!CacheTypes
  <2> QED
    BY <2>1, <2>2, <2>3, <2>4 DEF Client!CacheInv
<1>5. CASE c.gen = x5[c.q].gen
  <2>1. PICK f : f = Client!Settled(ended)
    OBVIOUS
  <2>2. /\ f \in Client!Entry /\ f.gen = x5[c.q].gen /\ ~ f.inFlight
        /\ f.data = (IF answer = {} THEN x5[c.q].data ELSE answer)
    BY <1>0, <1>1, <1>5, <2>1 DEF Client!Settled, Client!Entry
  <2>3. x5' = [x5 EXCEPT ![c.q] = f]
    BY <1>3, <2>1
  <2>4. Client!CacheTypes'
    BY <1>0, <2>2, <2>3 DEF Client!CacheTypes
  <2>5. ASSUME NEW q \in Query
        PROVE  x5'[q].gen = x4 /\ \A d \in x5'[q].data : d.epoch = x4
    BY <1>0, <1>2, <1>5, <2>2, <2>3 DEF Client!CacheInv
  <2>6. ASSUME NEW q \in Query
        PROVE  IF x5'[q].inFlight THEN \E k \in x6' : Client!Current(q)' = {k} ELSE Client!Current(q)' = {}
    <3>1. IF x5[q].inFlight THEN \E k \in x6 : Client!Current(q) = {k} ELSE Client!Current(q) = {}
      BY DEF Client!CacheInv
    <3>2. CASE q = c.q
      <4>1. c \in Client!Current(q)
        BY <1>5, <3>2 DEF Client!Current
      <4>2. Client!Current(q) = {c}
        BY <3>1, <4>1
      <4>3. Client!Current(q)' = {} /\ ~ x5'[q].inFlight
        BY <1>0, <2>2, <2>3, <3>2, <4>2 DEF Client!Current
      <4> QED BY <4>3
    <3>3. CASE q # c.q
      <4>1. x5'[q] = x5[q]
        BY <1>0, <2>3, <3>3
      <4>2. Client!Current(q)' = Client!Current(q) /\ \A k \in Client!Current(q) : k \in x6'
        BY <3>3, <4>1 DEF Client!Current
      <4> QED BY <3>1, <4>1, <4>2
    <3> QED BY <3>2, <3>3
  <2> QED
    BY <2>4, <2>5, <2>6 DEF Client!CacheInv
<1> QED BY <1>4, <1>5

\* Everything the cache held, and everything under way, is of an earlier epoch then.
LEMMA SwitchKeepsCache ==
    ASSUME Client!CacheInv, Client!RunContextSwitch
    PROVE  Client!CacheInv'
<1>0. Client!CacheTypes /\ x4 \in Nat
  <2>1. Client!CacheTypes
    BY DEF Client!CacheInv
  <2>2. x4 \in 0 .. MaxSwitches
    BY <2>1 DEF Client!CacheTypes
  <2> QED
    BY <2>1, <2>2, ClientAssumption
<1>1. /\ x4 < MaxSwitches /\ x4' = x4 + 1 /\ x6' = x6 /\ x1' = x1 /\ x7' = x7
      /\ x5' = [q \in Query |-> [data |-> {}, fresh |-> FALSE, active |-> FALSE, gen |-> x5[q].gen + 1,
                                 inFlight |-> FALSE]]
  BY DEF Client!RunContextSwitch
<1>2. \A q \in Query : x5[q].gen = x4
  BY DEF Client!CacheInv
<1>3. x4 + 1 \in 0 .. MaxSwitches
  BY <1>0, <1>1, ClientAssumption
<1>4. \A q \in Query : /\ x5'[q].gen = x4 + 1 /\ x5'[q].data = {} /\ ~ x5'[q].inFlight
                       /\ x5'[q] \in Client!Entry
  BY <1>1, <1>2, <1>3 DEF Client!Entry
<1>5. Client!CacheTypes'
  BY <1>0, <1>1, <1>3, <1>4 DEF Client!CacheTypes
<1>6. ASSUME NEW c \in x6 PROVE c.gen = c.epoch /\ c.epoch \in Nat /\ c.epoch < x4 + 1
  <2>1. c.gen = c.epoch /\ c.epoch <= x4 /\ c \in Client!Call
    BY <1>0 DEF Client!CacheInv, Client!CacheTypes
  <2> QED
    BY <1>0, <2>1 DEF Client!Call
<1>7. \A q \in Query : Client!Current(q)' = {}
  BY <1>1, <1>4, <1>6 DEF Client!Current
<1>8. \A c \in x6' : c.gen = c.epoch /\ c.epoch <= x4' /\ \A d \in c.answer : d.epoch = c.epoch
  <2>1. \A c \in x6 : \A d \in c.answer : d.epoch = c.epoch
    BY DEF Client!CacheInv
  <2> QED
    BY <1>0, <1>1, <1>6, <2>1
<1> QED
  BY <1>1, <1>4, <1>5, <1>7, <1>8 DEF Client!CacheInv

\* A flag of an entry is nothing of its results, generations and fetches.
LEMMA FlagsAreFree ==
    ASSUME NEW f \in Client!Entry,
           NEW g \in {[f EXCEPT !.active = TRUE], [f EXCEPT !.active = FALSE], [f EXCEPT !.fresh = FALSE]}
    PROVE  g \in Client!Entry /\ g.gen = f.gen /\ g.data = f.data /\ g.inFlight = f.inFlight
  BY DEF Client!Entry

\* Flags that change leave the results, generations and fetches of the cache alone.
LEMMA FlagsOfTheCache ==
    ASSUME x5 \in [Query -> Client!Entry],
           NEW e, \/ \E q \in Query : e = [x5 EXCEPT ![q].active = TRUE] \/ e = [x5 EXCEPT ![q].active = FALSE]
                                    \/ e = [x5 EXCEPT ![q].fresh = FALSE]
                  \/ e = [q \in Query |-> [x5[q] EXCEPT !.fresh = FALSE]]
    PROVE  /\ e \in [Query -> Client!Entry]
           /\ \A k \in Query : e[k].gen = x5[k].gen /\ e[k].data = x5[k].data /\ e[k].inFlight = x5[k].inFlight
<1>1. ASSUME NEW q \in Query, NEW f \in {[x5[q] EXCEPT !.active = TRUE], [x5[q] EXCEPT !.active = FALSE],
                                        [x5[q] EXCEPT !.fresh = FALSE]}
      PROVE  f \in Client!Entry /\ f.gen = x5[q].gen /\ f.data = x5[q].data /\ f.inFlight = x5[q].inFlight
  BY <1>1, FlagsAreFree
<1>2. CASE e = [q \in Query |-> [x5[q] EXCEPT !.fresh = FALSE]]
  <2>1. \A q \in Query : e[q] = [x5[q] EXCEPT !.fresh = FALSE]
    BY <1>2
  <2>2. e = [q \in Query |-> e[q]]
    BY <1>2, <2>1, Zenon
  <2>3. \A q \in Query : /\ e[q] \in Client!Entry
                          /\ e[q].gen = x5[q].gen /\ e[q].data = x5[q].data /\ e[q].inFlight = x5[q].inFlight
    BY <1>1, <2>1
  <2> QED BY <2>2, <2>3
<1>3. ASSUME NEW q \in Query, NEW f, e = [x5 EXCEPT ![q] = f],
             f \in Client!Entry, f.gen = x5[q].gen, f.data = x5[q].data, f.inFlight = x5[q].inFlight
      PROVE  /\ e \in [Query -> Client!Entry]
             /\ \A k \in Query : e[k].gen = x5[k].gen /\ e[k].data = x5[k].data /\ e[k].inFlight = x5[k].inFlight
  BY <1>3
<1> QED
  BY <1>1, <1>2, <1>3

\* Every step of the client keeps its cache sound.
LEMMA CacheStep ==
    ASSUME Client!CacheInv, [Client!Next]_(Client!vars)
    PROVE  Client!CacheInv'
<1>0. Client!CacheTypes /\ x5 \in [Query -> Client!Entry] /\ x7 \in [User -> 0 .. MaxWrites]
  BY DEF Client!CacheInv, Client!CacheTypes
<1>1. ASSUME NEW q \in Query, Client!Read(q) PROVE Client!CacheInv'
  <2>1. PICK e \in [Query -> Client!Entry] :
          /\ e = [x5 EXCEPT ![q].active = TRUE]
          /\ \A k \in Query : e[k].gen = x5[k].gen /\ e[k].data = x5[k].data /\ e[k].inFlight = x5[k].inFlight
    BY <1>0, FlagsOfTheCache
  <2>2. /\ x1' = x1 /\ x4' = x4 /\ x7' = x7
        /\ Client!Revalidate(e, IF x5[q].fresh THEN {} ELSE {q})
    BY <1>1, <2>1 DEF Client!Read, Client!session, Client!other
  <2> QED
    BY <1>0, <2>1, <2>2, RevalidateKeepsCache
<1>2. ASSUME NEW q \in Query, Client!GoStale(q) \/ Client!GoInactive(q) PROVE Client!CacheInv'
  <2>1. /\ x1' = x1 /\ x4' = x4 /\ x7' = x7 /\ x6' = x6
        /\ x5' = [x5 EXCEPT ![q].fresh = FALSE] \/ x5' = [x5 EXCEPT ![q].active = FALSE]
    BY <1>2 DEF Client!GoStale, Client!GoInactive, Client!session, Client!other
  <2>2. /\ x5' \in [Query -> Client!Entry]
        /\ \A k \in Query : x5'[k].gen = x5[k].gen /\ x5'[k].data = x5[k].data /\ x5'[k].inFlight = x5[k].inFlight
    BY <1>0, <2>1, FlagsOfTheCache
  <2> QED
    BY <1>0, <2>1, <2>2, CacheUntouched DEF Client!CacheTypes
<1>3. ASSUME NEW q \in Query, Client!IntervalFires(q) PROVE Client!CacheInv'
  BY <1>0, <1>3, RevalidateKeepsCache DEF Client!IntervalFires, Client!session, Client!other
<1>4. CASE Client!Focus
  <2>1. \E S \in SUBSET Query : Client!Revalidate(x5, S)
    BY <1>4 DEF Client!Focus
  <2> QED
    BY <1>0, <1>4, <2>1, RevalidateKeepsCache DEF Client!Focus, Client!session, Client!other
<1>5. CASE Client!InvalidateEntity
  <2>1. PICK e \in [Query -> Client!Entry] :
          /\ e = [q \in Query |-> [x5[q] EXCEPT !.fresh = FALSE]]
          /\ \A k \in Query : e[k].gen = x5[k].gen /\ e[k].data = x5[k].data /\ e[k].inFlight = x5[k].inFlight
    BY <1>0, FlagsOfTheCache
  <2>2. x1' = x1 /\ x4' = x4 /\ x7' = x7 /\ \E S \in SUBSET Query : Client!Revalidate(e, S)
    BY <1>5, <2>1 DEF Client!InvalidateEntity, Client!session
  <2> QED
    BY <1>0, <2>1, <2>2, RevalidateKeepsCache
<1>6. CASE Client!Write
  <2>1. PICK u \in x1 : x7[u] < MaxWrites /\ x7' = [x7 EXCEPT ![u] = @ + 1]
    BY <1>6 DEF Client!Write
  <2>2. u \in User /\ x7[u] \in 0 .. MaxWrites
    BY <1>0 DEF Client!CacheTypes
  <2>3. x7[u] + 1 \in 0 .. MaxWrites
    BY <2>1, <2>2, ClientAssumption
  <2>4. x7' \in [User -> 0 .. MaxWrites]
    BY <1>0, <2>1, <2>2, <2>3
  <2>5. x1' = x1 /\ x4' = x4 /\ x5' = x5 /\ x6' = x6
    BY <1>6 DEF Client!Write, Client!session
  <2> QED
    BY <1>0, <2>4, <2>5, CacheUntouched DEF Client!CacheTypes
<1>7. ASSUME NEW c \in x6, Client!Serve(c) PROVE Client!CacheInv'
  BY <1>7, ServeKeepsCache
<1>8. ASSUME NEW c \in x6, Client!Land(c) PROVE Client!CacheInv'
  <2>1. c = [c EXCEPT !.answer = c.answer]
    <3>1. c \in Client!Call
      BY <1>0 DEF Client!CacheTypes
    <3> QED BY <3>1 DEF Client!Call
  <2>2. /\ x1' = x1 /\ x4' = x4 /\ x7' = x7 /\ x6' = x6 \ {c}
        /\ x5' = [x5 EXCEPT ![c.q] = Client!Settled([c EXCEPT !.answer = c.answer])]
    BY <1>8, <2>1 DEF Client!Land, Client!other
  <2> QED
    BY <2>2, SettledKeepsCache
<1>9. ASSUME NEW c \in x6, Client!LoseCall(c) PROVE Client!CacheInv'
  BY <1>9, SettledKeepsCache DEF Client!LoseCall, Client!session, Client!other
<1>10. CASE Client!RunContextSwitch
  BY <1>10, SwitchKeepsCache
<1>11. CASE x4' = x4 /\ x5' = x5 /\ x6' = x6 /\ x7' = x7 /\ x1' \in SUBSET User
  BY <1>0, <1>11, CacheUntouched DEF Client!CacheTypes
<1>12. \/ Client!CheckAuth \/ Client!SessionExpires \/ Client!RedirectToLogin \/ Client!FetchOrg
       \/ (\E u \in User : Client!VerifyOtp(u)) \/ (\E answered \in BOOLEAN : Client!Logout(answered))
       \/ (\E who \in x10, fails \in BOOLEAN : Client!OrgLands(who, fails)) \/ UNCHANGED Client!vars
       => x4' = x4 /\ x5' = x5 /\ x6' = x6 /\ x7' = x7 /\ x1' \in SUBSET User
  BY <1>0 DEF Client!CacheTypes, Client!CheckAuth, Client!SessionExpires, Client!RedirectToLogin, Client!FetchOrg,
       Client!VerifyOtp, Client!Logout, Client!OrgLands, Client!vars, Client!session, Client!other
<1> QED
  BY <1>1, <1>2, <1>3, <1>4, <1>5, <1>6, <1>7, <1>8, <1>9, <1>10, <1>11, <1>12 DEF Client!Next

\* In a sound cache nothing lands late.
LEMMA CacheHolds == Client!CacheInv => Client!NothingLandsLate
<1> SUFFICES ASSUME Client!CacheInv, NEW q \in Query
             PROVE  Client!Cardinality(Client!Current(q)) = IF x5[q].inFlight THEN 1 ELSE 0
  BY DEF Client!NothingLandsLate, Client!CacheInv, Client!Current
<1>1. \A X : Client!Cardinality(X) = Cardinality(X)
  BY DEF Client!Cardinality, Cardinality
<1>2. IF x5[q].inFlight THEN \E c \in x6 : Client!Current(q) = {c} ELSE Client!Current(q) = {}
  BY DEF Client!CacheInv
<1> QED
  BY <1>1, <1>2, FS_Singleton, FS_EmptySet

-----------------------------------------------------------------------------
(* The idle timeout: x1 is user, x2 active, x3 listens, x4 stale, x5 left,  *)
(* x6 warns, x7 leaving, x8 touched, x9 inbox, x10 idle and x11 the token.  *)
Timeout == INSTANCE IdleTimeout WITH
        user <- x1, active <- x2, listens <- x3, stale <- x4, left <- x5, warns <- x6, leaving <- x7,
        touched <- x8, inbox <- x9, idle <- x10, token <- x11

\* The timers of a new tab run in time.
LEMMA TimersStart == Timeout!Init => Timeout!TimerInv
  BY TimeoutAssumption DEF Timeout!Init, Timeout!TimerInv, Timeout!TypeOK, Timeout!InTime, Timeout!Off

\* A tab of which nothing changes, while nothing or something is done in another.
LEMMA OtherTabsStay ==
    ASSUME NEW o \in Tab, Timeout!InTime(o), Timeout!TypeOK,
           x1'[o] = x1[o], x2'[o] = x2[o], x5'[o] = x5[o], x6'[o] = x6[o], x7'[o] = x7[o],
           x10' = 0 \/ (x10' = x10 /\ (x9'[o] => x9[o]))
    PROVE  Timeout!InTime(o)'
<1>1. x5[o] \in Timeout!Off .. Ttl /\ x10 \in 0 .. (Ttl + 1)
  BY DEF Timeout!TypeOK
<1>2. x5[o] + 0 <= Ttl
  BY <1>1, TimeoutAssumption DEF Timeout!Off
<1> QED
  BY <1>2 DEF Timeout!InTime, Timeout!Off

\* A tab whose timers start, while its last activity is no time ago.
LEMMA StartedIsInTime ==
    ASSUME NEW t \in Tab, Timeout!TypeOK, Timeout!StartTimers(t), x10' = 0
    PROVE  Timeout!InTime(t)'
<1>1. x5'[t] = Ttl /\ x10' = 0
  BY DEF Timeout!StartTimers, Timeout!TypeOK
<1>2. Ttl # Timeout!Off /\ ~ (Ttl < Warning) /\ Ttl + 0 <= Ttl
  BY TimeoutAssumption DEF Timeout!Off
<1> QED
  BY <1>1, <1>2 DEF Timeout!InTime, Timeout!Off

\* The time of the last touch is a time, or none.
LEMMA TouchIsTyped ==
    ASSUME Timeout!TypeOK, NEW t \in Tab, NEW asks \in BOOLEAN, NEW arrives \in BOOLEAN,
           Timeout!TouchServer(t, asks, arrives)
    PROVE  x8' \in [Tab -> 0 .. Throttle] /\ x11' \in 0 .. Ttl
  BY TimeoutAssumption DEF Timeout!TouchServer, Timeout!TypeOK

\* To start or clear the timers of a tab leaves those of the others alone.
LEMMA TimersStartTyped ==
    ASSUME Timeout!TypeOK, NEW t \in Tab, Timeout!StartTimers(t) \/ Timeout!ClearTimers(t)
    PROVE  /\ x5' \in [Tab -> Timeout!Off .. Ttl] /\ x6' \in [Tab -> BOOLEAN]
           /\ \A o \in Tab : o # t => x5'[o] = x5[o] /\ x6'[o] = x6[o]
<1>1. Ttl \in Timeout!Off .. Ttl /\ Timeout!Off \in Timeout!Off .. Ttl
  BY TimeoutAssumption DEF Timeout!Off
<1> QED
  BY <1>1 DEF Timeout!TypeOK, Timeout!StartTimers, Timeout!ClearTimers

\* Every step of the tabs and of the clock keeps the timers in time.
LEMMA TimerStep ==
    ASSUME Timeout!TimerInv, [Timeout!Next]_(Timeout!vars)
    PROVE  Timeout!TimerInv'
<1>0. Timeout!TypeOK /\ \A t \in Tab : Timeout!InTime(t)
  BY DEF Timeout!TimerInv
<1>a. 0 \in 0 .. (Ttl + 1) /\ 0 \in 0 .. Ttl /\ Ttl \in 0 .. Ttl /\ 0 \in 0 .. Throttle /\ Throttle \in 0 .. Throttle
  BY TimeoutAssumption
<1>1. ASSUME NEW t \in Tab, NEW arrives \in BOOLEAN, Timeout!OnActivity(t, arrives) \/ Timeout!StayActive(t, arrives)
      PROVE  Timeout!TimerInv'
  <2>1. /\ Timeout!StartTimers(t) /\ Timeout!Broadcast(t) /\ x10' = 0
        /\ x1' = x1 /\ x2' = x2 /\ x3' = x3 /\ x4' = x4 /\ x7' = x7
        /\ \E asks \in BOOLEAN : Timeout!TouchServer(t, asks, arrives)
    BY <1>1 DEF Timeout!OnActivity, Timeout!StayActive
  <2>2. x9' \in [Tab -> BOOLEAN]
    BY <2>1 DEF Timeout!Broadcast
  <2>3. Timeout!TypeOK'
    BY <1>0, <1>a, <2>1, <2>2, TouchIsTyped, TimersStartTyped DEF Timeout!TypeOK
  <2>4. ASSUME NEW o \in Tab PROVE Timeout!InTime(o)'
    BY <1>0, <2>1, StartedIsInTime, OtherTabsStay, TimersStartTyped
  <2> QED BY <2>3, <2>4 DEF Timeout!TimerInv
<1>2. ASSUME NEW t \in Tab, Timeout!OnBroadcast(t) PROVE Timeout!TimerInv'
  <2>1. /\ x9[t] /\ x9' = [x9 EXCEPT ![t] = FALSE] /\ x10' = x10 /\ x11' = x11
        /\ x1' = x1 /\ x2' = x2 /\ x3' = x3 /\ x4' = x4 /\ x7' = x7 /\ x8' = x8
        /\ Timeout!StartTimers(t) \/ (x5' = x5 /\ x6' = x6)
    BY <1>2 DEF Timeout!OnBroadcast
  <2>2. x10' = 0
    BY <1>0, <2>1 DEF Timeout!InTime
  <2>3. Timeout!TypeOK'
    <3>1. x9' \in [Tab -> BOOLEAN]
      BY <1>0, <2>1 DEF Timeout!TypeOK
    <3>2. x5' \in [Tab -> Timeout!Off .. Ttl] /\ x6' \in [Tab -> BOOLEAN]
      BY <1>0, <2>1, TimersStartTyped DEF Timeout!TypeOK
    <3> QED
      BY <1>0, <2>1, <3>1, <3>2 DEF Timeout!TypeOK
  <2>4. ASSUME NEW o \in Tab PROVE Timeout!InTime(o)'
    BY <1>0, <2>1, <2>2, StartedIsInTime, OtherTabsStay, TimersStartTyped
  <2> QED BY <2>3, <2>4 DEF Timeout!TimerInv
<1>3. ASSUME NEW t \in Tab, Timeout!WarningFires(t) PROVE Timeout!TimerInv'
  <2>1. /\ x6' = [x6 EXCEPT ![t] = TRUE] /\ x10' = x10 /\ x11' = x11 /\ x9' = x9 /\ x5' = x5
        /\ x1' = x1 /\ x2' = x2 /\ x3' = x3 /\ x4' = x4 /\ x7' = x7 /\ x8' = x8
    BY <1>3 DEF Timeout!WarningFires
  <2>2. Timeout!TypeOK'
    BY <1>0, <2>1 DEF Timeout!TypeOK
  <2>3. x6'[t] /\ \A o \in Tab : o # t => x6'[o] = x6[o]
    BY <1>0, <2>1 DEF Timeout!TypeOK
  <2>4. ASSUME NEW o \in Tab PROVE Timeout!InTime(o)'
    BY <1>0, <2>1, <2>3 DEF Timeout!InTime
  <2> QED BY <2>2, <2>4 DEF Timeout!TimerInv
<1>4. ASSUME NEW t \in Tab, NEW arrives \in BOOLEAN, Timeout!ForceLogout(t, arrives) PROVE Timeout!TimerInv'
  <2>1. /\ Timeout!ClearTimers(t) /\ x10' = x10 /\ x11' \in {0, x11} /\ x9' = x9
        /\ x2' = [x2 EXCEPT ![t] = FALSE] /\ x7' = [x7 EXCEPT ![t] = TRUE]
        /\ x1' = x1 /\ x3' = x3 /\ x4' = x4 /\ x8' = x8
    BY <1>4 DEF Timeout!ForceLogout
  <2>2. Timeout!TypeOK'
    BY <1>0, <1>a, <2>1, TimersStartTyped DEF Timeout!TypeOK
  <2>3. ~ x2'[t] /\ x7'[t] /\ \A o \in Tab : o # t => x2'[o] = x2[o] /\ x7'[o] = x7[o]
    BY <1>0, <2>1 DEF Timeout!TypeOK
  <2>4. Timeout!InTime(t)'
    BY <1>0, <2>1, <2>3 DEF Timeout!InTime
  <2>5. ASSUME NEW o \in Tab, o # t PROVE Timeout!InTime(o)'
    BY <1>0, <2>1, <2>3, <2>5, OtherTabsStay, TimersStartTyped
  <2> QED BY <2>2, <2>4, <2>5 DEF Timeout!TimerInv
<1>5. ASSUME NEW t \in Tab, NEW arrives \in BOOLEAN, Timeout!Logout(t, arrives) PROVE Timeout!TimerInv'
  <2>1. /\ x10' = 0 /\ x11' \in {0, x11} /\ x9' = x9 /\ x7' = [x7 EXCEPT ![t] = TRUE]
        /\ x1' = x1 /\ x2' = x2 /\ x3' = x3 /\ x4' = x4 /\ x5' = x5 /\ x6' = x6 /\ x8' = x8
    BY <1>5 DEF Timeout!Logout
  <2>2. Timeout!TypeOK'
    BY <1>0, <1>a, <2>1 DEF Timeout!TypeOK
  <2>3. x7'[t] /\ \A o \in Tab : o # t => x7'[o] = x7[o]
    BY <1>0, <2>1 DEF Timeout!TypeOK
  <2>4. Timeout!InTime(t)'
    BY <1>0, <2>1, <2>3 DEF Timeout!InTime
  <2>5. ASSUME NEW o \in Tab, o # t PROVE Timeout!InTime(o)'
    BY <1>0, <2>1, <2>3, <2>5, OtherTabsStay
  <2> QED BY <2>2, <2>4, <2>5 DEF Timeout!TimerInv
<1>6. ASSUME NEW t \in Tab, Timeout!LogoutEnds(t) PROVE Timeout!TimerInv'
  <2>1. /\ x10' = x10 /\ x11' = x11 /\ x9' = x9 /\ x7' = [x7 EXCEPT ![t] = FALSE] /\ x1' = [x1 EXCEPT ![t] = FALSE]
        /\ x2' = x2 /\ x3' = x3 /\ x4' = x4 /\ x5' = x5 /\ x6' = x6 /\ x8' = x8
    BY <1>6 DEF Timeout!LogoutEnds
  <2>2. Timeout!TypeOK'
    BY <1>0, <2>1 DEF Timeout!TypeOK
  <2>3. ~ x1'[t] /\ \A o \in Tab : o # t => x1'[o] = x1[o] /\ x7'[o] = x7[o]
    BY <1>0, <2>1 DEF Timeout!TypeOK
  <2>4. Timeout!InTime(t)'
    BY <1>0, <2>1, <2>3 DEF Timeout!InTime
  <2>5. ASSUME NEW o \in Tab, o # t PROVE Timeout!InTime(o)'
    BY <1>0, <2>1, <2>3, <2>5, OtherTabsStay
  <2> QED BY <2>2, <2>4, <2>5 DEF Timeout!TimerInv
<1>7. ASSUME NEW t \in Tab, Timeout!Arm(t) PROVE Timeout!TimerInv'
  <2>1. /\ x10' = x10 /\ x11' = x11 /\ x9' = x9 /\ x7' = x7 /\ x1' = x1 /\ x8' = x8
        /\ x1[t] /\ ~ x2[t] /\ x2' = [x2 EXCEPT ![t] = TRUE] /\ x3' = [x3 EXCEPT ![t] = TRUE]
        /\ x4' = [x4 EXCEPT ![t] = x4[t] \/ x3[t]] /\ Timeout!StartTimers(t)
    BY <1>7 DEF Timeout!Arm
  <2>2. Timeout!TypeOK'
    <3>1. x4' \in [Tab -> BOOLEAN] /\ x2' \in [Tab -> BOOLEAN] /\ x3' \in [Tab -> BOOLEAN]
      BY <1>0, <2>1 DEF Timeout!TypeOK
    <3> QED
      BY <1>0, <2>1, <3>1, TimersStartTyped DEF Timeout!TypeOK
  <2>3. \A o \in Tab : o # t => x2'[o] = x2[o]
    BY <1>0, <2>1 DEF Timeout!TypeOK
  <2>4. Timeout!InTime(t)'
    <3>1. CASE x7[t]
      <4>1. x5'[t] = Ttl
        BY <1>0, <2>1 DEF Timeout!StartTimers, Timeout!TypeOK
      <4>2. Ttl # Timeout!Off /\ ~ (Ttl < Warning)
        BY TimeoutAssumption DEF Timeout!Off
      <4>3. x9[t] => x10 = 0
        BY <1>0 DEF Timeout!InTime
      <4>4. x2'[t]
        BY <1>0, <2>1 DEF Timeout!TypeOK
      <4> QED BY <2>1, <3>1, <4>1, <4>2, <4>3, <4>4 DEF Timeout!InTime, Timeout!Off
    <3>2. CASE ~ x7[t]
      BY <1>0, <2>1, <3>2, StartedIsInTime DEF Timeout!InTime
    <3> QED BY <3>1, <3>2
  <2>5. ASSUME NEW o \in Tab, o # t PROVE Timeout!InTime(o)'
    BY <1>0, <2>1, <2>3, <2>5, OtherTabsStay, TimersStartTyped
  <2> QED BY <2>2, <2>4, <2>5 DEF Timeout!TimerInv
<1>8. ASSUME NEW t \in Tab, Timeout!Destroy(t) PROVE Timeout!TimerInv'
  <2>1. /\ x10' = x10 /\ x11' = x11 /\ x9' = x9 /\ x7' = x7 /\ x1' = x1 /\ x4' = x4
        /\ ~ x1[t] /\ x2' = [x2 EXCEPT ![t] = FALSE] /\ x3' = [x3 EXCEPT ![t] = FALSE]
        /\ x8' = [x8 EXCEPT ![t] = Throttle] /\ Timeout!ClearTimers(t)
    BY <1>8 DEF Timeout!Destroy
  <2>2. Timeout!TypeOK'
    <3>1. x2' \in [Tab -> BOOLEAN] /\ x3' \in [Tab -> BOOLEAN]
      BY <1>0, <2>1 DEF Timeout!TypeOK
    <3>2. x8' \in [Tab -> 0 .. Throttle]
      BY <1>0, <1>a, <2>1 DEF Timeout!TypeOK
    <3> QED
      BY <1>0, <2>1, <3>1, <3>2, TimersStartTyped DEF Timeout!TypeOK
  <2>3. ~ x2'[t] /\ \A o \in Tab : o # t => x2'[o] = x2[o]
    BY <1>0, <2>1 DEF Timeout!TypeOK
  <2>4. Timeout!InTime(t)'
    BY <1>0, <2>1, <2>3 DEF Timeout!InTime
  <2>5. ASSUME NEW o \in Tab, o # t PROVE Timeout!InTime(o)'
    BY <1>0, <2>1, <2>3, <2>5, OtherTabsStay, TimersStartTyped
  <2> QED BY <2>2, <2>4, <2>5 DEF Timeout!TimerInv
<1>9. ASSUME NEW t \in Tab, Timeout!SignIn(t) PROVE Timeout!TimerInv'
  <2>1. /\ x10' = 0 /\ x11' \in {x11, Ttl} /\ x9' = x9 /\ x1' = [x1 EXCEPT ![t] = TRUE]
        /\ x2' = x2 /\ x3' = x3 /\ x4' = x4 /\ x5' = x5 /\ x6' = x6 /\ x7' = x7 /\ x8' = x8
    BY <1>9 DEF Timeout!SignIn
  <2>2. Timeout!TypeOK'
    BY <1>0, <1>a, <2>1 DEF Timeout!TypeOK
  <2>3. \A o \in Tab : o # t => x1'[o] = x1[o]
    BY <1>0, <2>1 DEF Timeout!TypeOK
  <2>4. Timeout!InTime(t)'
    <3>1. x5[t] \in Timeout!Off .. Ttl
      BY <1>0 DEF Timeout!TypeOK
    <3>2. x5[t] + 0 <= Ttl
      BY <3>1, TimeoutAssumption DEF Timeout!Off
    <3> QED
      BY <1>0, <2>1, <3>2 DEF Timeout!InTime
  <2>5. ASSUME NEW o \in Tab, o # t PROVE Timeout!InTime(o)'
    BY <1>0, <2>1, <2>3, <2>5, OtherTabsStay
  <2> QED BY <2>2, <2>4, <2>5 DEF Timeout!TimerInv
<1>10. CASE Timeout!Tick
  <2>1. /\ x10 <= Ttl /\ x10' = x10 + 1 /\ x11' = (IF x11 > 0 THEN x11 - 1 ELSE 0)
        /\ x5' = [t \in Tab |-> IF x5[t] = Timeout!Off THEN Timeout!Off ELSE x5[t] - 1]
        /\ x8' = [t \in Tab |-> IF x8[t] < Throttle THEN x8[t] + 1 ELSE Throttle]
        /\ x1' = x1 /\ x2' = x2 /\ x3' = x3 /\ x4' = x4 /\ x6' = x6 /\ x7' = x7 /\ x9' = x9
        /\ \A t \in Tab : ~ Timeout!Due(t)
    BY <1>10 DEF Timeout!Tick
  <2>2. x10' \in 0 .. (Ttl + 1) /\ x11' \in 0 .. Ttl
    <3>1. x10 \in 0 .. (Ttl + 1) /\ x11 \in 0 .. Ttl
      BY <1>0 DEF Timeout!TypeOK
    <3> QED BY <2>1, <3>1, TimeoutAssumption
  <2>3. ASSUME NEW t \in Tab
        PROVE  x5[t] \in Timeout!Off .. Ttl /\ x5'[t] \in Timeout!Off .. Ttl /\ x8'[t] \in 0 .. Throttle
    <3>1. x5[t] \in Timeout!Off .. Ttl /\ x8[t] \in 0 .. Throttle
      BY <1>0 DEF Timeout!TypeOK
    <3> QED BY <2>1, <3>1, TimeoutAssumption DEF Timeout!Off
  <2>4. Timeout!TypeOK'
    BY <1>0, <2>1, <2>2, <2>3 DEF Timeout!TypeOK
  <2>5. ASSUME NEW t \in Tab PROVE Timeout!InTime(t)'
    <3>1. /\ x5[t] # 0 /\ ~ (x5[t] = Warning /\ ~ x6[t]) /\ ~ x9[t] /\ ~ x7[t] /\ (x1[t] <=> x2[t])
      <4>1. x1[t] \in BOOLEAN /\ x2[t] \in BOOLEAN
        BY <1>0 DEF Timeout!TypeOK
      <4> QED BY <2>1, <4>1, Zenon DEF Timeout!Due
    <3>2. CASE x2[t]
      <4>1. x5[t] # Timeout!Off /\ (x5[t] < Warning => x6[t]) /\ x5[t] + x10 <= Ttl
        BY <1>0, <3>1, <3>2 DEF Timeout!InTime
      <4>2. x5[t] <= Warning => x6[t]
        BY <2>3, <3>1, <4>1, TimeoutAssumption DEF Timeout!Off
      <4>3. x5'[t] = x5[t] - 1
        BY <2>1, <4>1
      <4>4. x10 \in Nat /\ x5[t] \in Int /\ Ttl \in Int /\ Warning \in Int
        BY <1>0, <2>3, TimeoutAssumption DEF Timeout!TypeOK, Timeout!Off
      <4>5. x5'[t] # Timeout!Off /\ x5'[t] + x10' <= Ttl /\ (x5'[t] < Warning => x5[t] <= Warning)
        BY <2>1, <3>1, <4>1, <4>3, <4>4 DEF Timeout!Off
      <4> QED
        BY <2>1, <3>1, <3>2, <4>2, <4>5 DEF Timeout!InTime, Timeout!Off
    <3>3. CASE ~ x2[t]
      BY <2>1, <3>1, <3>3 DEF Timeout!InTime
    <3> QED BY <3>2, <3>3
  <2> QED BY <2>4, <2>5 DEF Timeout!TimerInv
<1>11. CASE UNCHANGED Timeout!vars
  BY <1>0, <1>11 DEF Timeout!vars, Timeout!TimerInv, Timeout!TypeOK, Timeout!InTime
<1> QED
  BY <1>1, <1>2, <1>3, <1>4, <1>5, <1>6, <1>7, <1>8, <1>9, <1>10, <1>11 DEF Timeout!Next

\* Timers that run in time log an idle tab off.
LEMMA TimersHold == Timeout!TimerInv => Timeout!AutomaticLogoff
<1> SUFFICES ASSUME Timeout!TimerInv, NEW t \in Tab, x1[t], ~ Timeout!Due(t)
             PROVE  x5[t] # Timeout!Off /\ x5[t] + x10 <= Ttl /\ (x5[t] < Warning => x6[t])
  BY DEF Timeout!AutomaticLogoff
<1>1. x1[t] \in BOOLEAN /\ x2[t] \in BOOLEAN
  BY DEF Timeout!TimerInv, Timeout!TypeOK
<1>2. x2[t] /\ ~ x7[t]
  BY <1>1, Zenon DEF Timeout!Due
<1> QED
  BY <1>2 DEF Timeout!TimerInv, Timeout!InTime

-----------------------------------------------------------------------------
(* The tenant scripts: x1 is the platform, x2 the job, x3 the last outcome  *)
(* with its options, x4 the number of runs.                                 *)
Script == INSTANCE Tenants WITH
        platform <- x1, job <- x2, last <- x3, runs <- x4

\* No script has changed anything before it starts.
LEMMA ScriptsStart == Script!Init => Script!DryInv
<1> SUFFICES ASSUME Script!Init PROVE Script!DryInv
  OBVIOUS
<1>1. x2 \in Script!JobState /\ x2.pc # "dropRole"
  BY DEF Script!Init, Script!JobState, Script!Idle, Script!Place, Script!Script
<1>2. x3 \in Script!Last
  BY DEF Script!Init, Script!Last, Script!NoOptions, Script!Options, Script!Script
<1> QED
  BY <1>1, <1>2 DEF Script!DryInv, Script!At

\* A step to another place of the script, or its end.
LEMMA ScriptMoves ==
    ASSUME Script!DryInv,
           \/ x3' = x3 /\ x2' \in Script!JobState /\ (x2'.pc = "dropRole" => ~ Script!Dry)
           \/ \E outcome \in {"ok", "failed"} : Script!Ends(outcome)
    PROVE  Script!DryInv'
<1>1. ASSUME NEW outcome \in {"ok", "failed"}, Script!Ends(outcome) PROVE Script!DryInv'
  <2>1. x2' \in Script!JobState /\ x2'.pc # "dropRole"
    BY <1>1 DEF Script!Ends, Script!JobState, Script!Idle, Script!Place, Script!Script
  <2>2. x3' \in Script!Last
    BY <1>1 DEF Script!Ends, Script!DryInv, Script!Last
  <2> QED
    BY <2>1, <2>2 DEF Script!DryInv, Script!At
<1>2. CASE x3' = x3 /\ x2' \in Script!JobState /\ (x2'.pc = "dropRole" => ~ Script!Dry)
  BY <1>2 DEF Script!DryInv, Script!At, Script!Dry
<1> QED BY <1>1, <1>2

\* Every step of a dry run leaves the platform as it is, and every step keeps the job in its place.
LEMMA ScriptStep ==
    ASSUME Script!DryInv, [Script!Next]_(Script!vars)
    PROVE  Script!DryInv' /\ (x2.script # "none" /\ Script!Dry => x1' = x1)
<1> DEFINE Moves ==
        \/ x3' = x3 /\ x2' \in Script!JobState /\ (x2'.pc = "dropRole" => ~ Script!Dry)
        \/ Script!Ends("ok") \/ Script!Ends("failed")
<1> USE DEF Script!Goto, Script!Step, Script!Err, Script!Exit, Script!At
<1>0. x2 \in Script!JobState
  BY DEF Script!DryInv
<1>m. ASSUME Moves, Script!Dry => x1' = x1
      PROVE  Script!DryInv' /\ (x2.script # "none" /\ Script!Dry => x1' = x1)
  BY <1>m, ScriptMoves
<1>1. ASSUME NEW s \in Script!Script, NEW o \in Script!Options, Script!Start(s, o)
      PROVE  Script!DryInv' /\ x2.script = "none"
  <2>1. x2.script = "none" /\ x3' = [script |-> s, options |-> o, outcome |-> "none"]
    BY <1>1 DEF Script!Start, Script!Idle
  <2>2. x2' = [Script!Idle EXCEPT !.script = s, !.pc = Script!First[s]]
    BY <1>1 DEF Script!Start
  <2>3. Script!First[s] \in Script!Place /\ Script!First[s] # "dropRole"
    <3>1. CASE s = "provision"
      BY <3>1 DEF Script!First, Script!Place
    <3>2. CASE s = "deprovision"
      BY <3>2 DEF Script!First, Script!Place
    <3>3. CASE s = "eject"
      BY <3>3 DEF Script!First, Script!Place
    <3> QED BY <3>1, <3>2, <3>3 DEF Script!Script
  <2>4. x2' \in Script!JobState /\ x2'.pc # "dropRole"
    BY <2>2, <2>3 DEF Script!JobState, Script!Idle
  <2>5. x3' \in Script!Last
    BY <2>1 DEF Script!Last
  <2> QED
    BY <2>1, <2>4, <2>5 DEF Script!DryInv
<1>2. CASE Script!CreateSchema
  <2>1. Moves
    BY <1>0, <1>2 DEF Script!CreateSchema, Script!JobState, Script!Place, Script!Dry
  <2>2. Script!Dry => x1' = x1
    BY <1>2 DEF Script!CreateSchema, Script!Dry
  <2> QED BY <1>m, <2>1, <2>2
<1>3. CASE Script!Migrate
  <2>1. Moves
    BY <1>0, <1>3 DEF Script!Migrate, Script!JobState, Script!Place, Script!Dry
  <2>2. Script!Dry => x1' = x1
    BY <1>3 DEF Script!Migrate, Script!Dry
  <2> QED BY <1>m, <2>1, <2>2
<1>4. CASE Script!CreateRepo
  <2>1. Moves
    BY <1>0, <1>4 DEF Script!CreateRepo, Script!JobState, Script!Place, Script!Dry
  <2>2. Script!Dry => x1' = x1
    BY <1>4 DEF Script!CreateRepo, Script!Dry
  <2> QED BY <1>m, <2>1, <2>2
<1>5. CASE Script!CreateFolder
  <2>1. Moves
    <3>1. \/ /\ x2' = [x2 EXCEPT !.pc = "dashboard", !.folderUid = TRUE] \/ x2' = [x2 EXCEPT !.pc = "rollback"]
             /\ x3' = x3
          \/ Script!Ends("failed")
      BY <1>5 DEF Script!CreateFolder
    <3>2. CASE x3' = x3 /\ x2' = [x2 EXCEPT !.pc = "dashboard", !.folderUid = TRUE]
      BY <1>0, <3>2 DEF Script!JobState, Script!Place
    <3>3. CASE x3' = x3 /\ x2' = [x2 EXCEPT !.pc = "rollback"]
      BY <1>0, <3>3 DEF Script!JobState, Script!Place
    <3> QED BY <3>1, <3>2, <3>3
  <2>2. Script!Dry => x1' = x1
    BY <1>5 DEF Script!CreateFolder, Script!Dry
  <2> QED BY <1>m, <2>1, <2>2
<1>6. CASE Script!UploadDashboard
  <2>1. Moves
    BY <1>0, <1>6 DEF Script!UploadDashboard, Script!JobState, Script!Place, Script!Dry
  <2>2. Script!Dry => x1' = x1
    BY <1>6 DEF Script!UploadDashboard, Script!Dry
  <2> QED BY <1>m, <2>1, <2>2
<1>7. CASE Script!UploadAlerts
  <2>1. Moves
    BY <1>0, <1>7 DEF Script!UploadAlerts, Script!JobState, Script!Place, Script!Dry
  <2>2. Script!Dry => x1' = x1
    BY <1>7 DEF Script!UploadAlerts, Script!Dry
  <2> QED BY <1>m, <2>1, <2>2
<1>8. CASE Script!Provisioned
  <2>1. Moves
    BY <1>0, <1>8 DEF Script!Provisioned, Script!JobState, Script!Place, Script!Dry
  <2>2. Script!Dry => x1' = x1
    BY <1>8 DEF Script!Provisioned, Script!Dry
  <2> QED BY <1>m, <2>1, <2>2
<1>9. CASE Script!Rollback
  <2>1. Moves
    BY <1>0, <1>9 DEF Script!Rollback, Script!JobState, Script!Place, Script!Dry
  <2>2. Script!Dry => x1' = x1
    BY <1>9 DEF Script!Rollback, Script!Dry
  <2> QED BY <1>m, <2>1, <2>2
<1>10. CASE Script!DropSchema
  <2>1. Moves
    BY <1>0, <1>10 DEF Script!DropSchema, Script!JobState, Script!Place, Script!Dry
  <2>2. Script!Dry => x1' = x1
    BY <1>10 DEF Script!DropSchema, Script!Dry
  <2> QED BY <1>m, <2>1, <2>2
<1>11. CASE Script!DropRole
  <2>1. Moves
    BY <1>0, <1>11 DEF Script!DropRole, Script!JobState, Script!Place, Script!Dry
  <2>2. Script!Dry => x1' = x1
    BY <1>11 DEF Script!DropRole, Script!DryInv
  <2> QED BY <1>m, <2>1, <2>2
<1>12. CASE Script!DeleteRepo
  <2>1. Moves
    BY <1>0, <1>12 DEF Script!DeleteRepo, Script!JobState, Script!Place, Script!Dry
  <2>2. Script!Dry => x1' = x1
    BY <1>12 DEF Script!DeleteRepo, Script!Dry
  <2> QED BY <1>m, <2>1, <2>2
<1>13. CASE Script!ExportDump
  <2>1. Moves
    BY <1>0, <1>13 DEF Script!ExportDump, Script!JobState, Script!Place, Script!Dry
  <2>2. Script!Dry => x1' = x1
    BY <1>13 DEF Script!ExportDump, Script!Dry
  <2> QED BY <1>m, <2>1, <2>2
<1>14. CASE Script!CleanRepo
  <2>1. Moves
    BY <1>0, <1>14 DEF Script!CleanRepo, Script!JobState, Script!Place, Script!Dry
  <2>2. Script!Dry => x1' = x1
    BY <1>14 DEF Script!CleanRepo, Script!Dry
  <2> QED BY <1>m, <2>1, <2>2
<1>15. CASE Script!TransferRepo
  <2>1. Moves
    BY <1>0, <1>15 DEF Script!TransferRepo, Script!JobState, Script!Place, Script!Dry
  <2>2. Script!Dry => x1' = x1
    BY <1>15 DEF Script!TransferRepo, Script!Dry
  <2> QED BY <1>m, <2>1, <2>2
<1>16. CASE Script!DeleteFolder
  <2>1. Moves
    BY <1>0, <1>16 DEF Script!DeleteFolder, Script!JobState, Script!Place, Script!Dry
  <2>2. Script!Dry => x1' = x1
    BY <1>16 DEF Script!DeleteFolder, Script!Dry
  <2> QED BY <1>m, <2>1, <2>2
<1>17. CASE Script!DeleteContact
  <2>1. Moves
    BY <1>0, <1>17 DEF Script!DeleteContact, Script!JobState, Script!Place, Script!Dry
  <2>2. Script!Dry => x1' = x1
    BY <1>17 DEF Script!DeleteContact, Script!Dry
  <2> QED BY <1>m, <2>1, <2>2
<1>18. CASE UNCHANGED Script!vars
  BY <1>18 DEF Script!vars, Script!DryInv, Script!Dry
<1> QED
  BY <1>1, <1>2, <1>3, <1>4, <1>5, <1>6, <1>7, <1>8, <1>9, <1>10, <1>11, <1>12, <1>13, <1>14, <1>15, <1>16, <1>17, <1>18 DEF Script!Next

-----------------------------------------------------------------------------
(* The site forms: x1 is the step of each post, x6 its recipients, x7 the   *)
(* stored posts and x8 the mails.                                           *)
Forms == INSTANCE SiteForms WITH
        Post <- Submission, Site <- PerSite,
        step <- x1, ip <- x2, site <- x3, reply <- x4, owner <- x5, to <- x6, stored <- x7, mails <- x8,
        faults <- x9

\* Nothing is stored before the first post.
LEMMA FormsStart == Forms!Init => Forms!AnnounceInv
  BY DEF Forms!Init, Forms!AnnounceInv, Forms!StoredIsAnnounced, Forms!Answers

\* Every step of a form keeps what it stored announced, or about to be.
LEMMA FormsStep ==
    ASSUME Forms!AnnounceInv, [Forms!Next]_(Forms!vars)
    PROVE  Forms!AnnounceInv'
<1> USE DEF Forms!AnnounceInv, Forms!StoredIsAnnounced, Forms!GoTo
<1>0. "new" \in {"new", "ip", "site", "check", "notify", "save"} \cup Forms!Answers /\ "sent" \in Forms!Answers
      /\ "invalid" \in Forms!Answers /\ "limited" \in Forms!Answers /\ "error" \in Forms!Answers
  BY DEF Forms!Answers
<1>1. ASSUME NEW p \in Submission, NEW s \in {"ip", "site", "check", "notify", "invalid", "limited", "sent"},
             x1[p] \notin {"sent"}, x1' = [x1 EXCEPT ![p] = s], s = "notify" => Forms!ValidateSubmission(Sends[p]),
             x6' = x6, x7' = x7, x8' = x8
      PROVE  Forms!AnnounceInv'
  BY <1>0, <1>1
<1>2. ASSUME NEW p \in Submission, \/ Forms!CountIp(p) \/ Forms!CountSite(p) \/ Forms!Validate(p)
                             \/ \E read \in {"form", "unreadable", "honeypot"} : Forms!Receive(p, read)
      PROVE  Forms!AnnounceInv'
  <2>1. x6' = x6 /\ x7' = x7 /\ x8' = x8 /\ x1[p] # "sent"
    BY <1>2 DEF Forms!CountIp, Forms!CountSite, Forms!Validate, Forms!Receive, Forms!data
  <2>2. \E s \in {"ip", "site", "check", "notify", "invalid", "limited", "sent"} :
          x1' = [x1 EXCEPT ![p] = s] /\ (s = "notify" => Forms!ValidateSubmission(Sends[p]))
    BY <1>2 DEF Forms!CountIp, Forms!CountSite, Forms!Validate, Forms!Receive
  <2> QED BY <1>1, <2>1, <2>2
<1>3. ASSUME NEW p \in Submission, Forms!ReadRecipients(p) PROVE Forms!AnnounceInv'
  <2>1. /\ x1[p] = "notify" /\ x1' = [x1 EXCEPT ![p] = "save"] /\ x7' = x7 /\ x8' = x8
        /\ DOMAIN x6' = Submission /\ \A o \in Submission : o # p => x6'[o] = x6[o]
    BY <1>3 DEF Forms!ReadRecipients
  <2> QED BY <2>1
<1>4. ASSUME NEW p \in Submission, NEW commits \in BOOLEAN, Forms!CreateSubmission(p, commits) PROVE Forms!AnnounceInv'
  <2>1. CASE x1' = [x1 EXCEPT ![p] = "sent"] /\ x7' = x7 \cup {p} /\ x8' = x8 \cup ({p} \X x6[p])
    <3>1. x1[p] = "save" /\ x6' = x6
      BY <1>4 DEF Forms!CreateSubmission
    <3>2. \A m \in {p} \X x6[p] : m[1] = p
      OBVIOUS
    <3>3. Forms!ValidateSubmission(Sends[p]) /\ x1'[p] = "sent" /\ x1' \in [Submission -> {"new", "ip", "site", "check", "notify", "save"} \cup Forms!Answers]
      BY <1>0, <2>1, <3>1
    <3>4. \A q \in x7' : (({q} \X x6'[q]) \subseteq x8' /\ Forms!ValidateSubmission(Sends[q]))
      BY <2>1, <3>1, <3>3
    <3>5. \A m \in x8' : m[1] \in x7'
      BY <2>1, <3>2
    <3>6. \A q \in x7' : q \in Submission /\ x1'[q] = "sent"
      BY <2>1, <3>3
    <3>7. \A q \in Submission : x1'[q] \in {"notify", "save"} => Forms!ValidateSubmission(Sends[q])
      BY <2>1, <3>3
    <3> QED BY <3>1, <3>3, <3>4, <3>5, <3>6, <3>7
  <2>2. CASE x1' = [x1 EXCEPT ![p] = "error"] /\ x7' = x7 /\ x8' = x8
    <3>1. x1[p] = "save" /\ x6' = x6
      BY <1>4 DEF Forms!CreateSubmission
    <3> QED BY <1>0, <2>2, <3>1
  <2> QED BY <1>4, <2>1, <2>2 DEF Forms!CreateSubmission
<1>5. CASE Forms!OwnerSignsUp \/ UNCHANGED Forms!vars
  BY <1>5 DEF Forms!OwnerSignsUp, Forms!vars
<1> QED
  BY <1>2, <1>3, <1>4, <1>5 DEF Forms!Next

-----------------------------------------------------------------------------
(* The transport: x1 is the setup, x4 the sends, x7 the inbox and x8 the    *)
(* digest.                                                                  *)
Send == INSTANCE Transport WITH
        setup <- x1, muted <- x2, verified <- x3, sends <- x4, mailbox <- x5, seq <- x6, inbox <- x7,
        digest <- x8, changes <- x9

Places == {"start", "headers", "smtp", "fallback", "quiet", "sent", "thrown"}
OnItsWay == {"start", "headers", "smtp", "fallback"}

\* No message is sent and no digest runs at the start.
LEMMA SendsStart == Send!Init => Send!SendInv /\ Send!DigestInv
<1> SUFFICES ASSUME Send!Init PROVE Send!SendInv /\ Send!DigestInv
  OBVIOUS
<1>1. Send!SendInv
  BY DEF Send!Init, Send!SendInv, Send!CriticalIsNeverSilent
<1>2. Len(Orgs) \in Nat
  BY SendAssumption
<1>3. Send!DigestInv
  BY <1>2 DEF Send!Init, Send!DigestInv, Send!NoDigest, Send!Digest
<1> QED BY <1>1, <1>3

\* Message i has come to `place` and nothing else of the messages has changed.
SentOn(i, place) ==
    /\ x4' \in Seq(Send!Msg) /\ DOMAIN x4' = DOMAIN x4
    /\ \A k \in DOMAIN x4 : k # i => x4'[k] = x4[k]
    /\ x4'[i].at = place /\ x4'[i].org = x4[i].org /\ x4'[i].to = x4[i].to /\ x4'[i].critical = x4[i].critical

\* The digest goes on to the next organization, or ends with the last.
LEMMA GoesOn ==
    ASSUME x4 \in Seq(Send!Msg), NEW i \in DOMAIN x4, NEW place \in Places, x4' = [x4 EXCEPT ![i].at = place]
    PROVE  SentOn(i, place)
<1>1. PICK m : m = [x4[i] EXCEPT !.at = place]
  OBVIOUS
<1>2. x4[i] \in Send!Msg
  OBVIOUS
<1>3. /\ m \in Send!Msg /\ m.at = place /\ m.org = x4[i].org /\ m.to = x4[i].to /\ m.critical = x4[i].critical
  BY <1>1, <1>2 DEF Send!Msg, Places
<1>4. x4' = [x4 EXCEPT ![i] = m]
  BY <1>1
<1> HIDE DEF Places
<1> QED
  BY <1>3, <1>4 DEF SentOn

\* A sequence with an element more holds the elements it held, and that one.
LEMMA Appended ==
    ASSUME x4 \in Seq(Send!Msg), NEW m \in Send!Msg, x4' = Append(x4, m)
    PROVE  /\ x4' \in Seq(Send!Msg) /\ DOMAIN x4' = DOMAIN x4 \cup {Len(x4) + 1} /\ Len(x4) + 1 \notin DOMAIN x4
           /\ x4'[Len(x4) + 1] = m /\ \A k \in DOMAIN x4 : x4'[k] = x4[k]
  OBVIOUS

\* A message as it is made: for its organization and recipient, at the start.
LEMMA MessageIsTyped ==
    ASSUME NEW kind \in DOMAIN Send!Kinds, NEW o \in Send!Org, NEW p \in Send!Person, NEW test \in BOOLEAN
    PROVE  /\ Send!Message(kind, o, p, test) \in Send!Msg
           /\ Send!Message(kind, o, p, test).org = o /\ Send!Message(kind, o, p, test).to = p
           /\ Send!Message(kind, o, p, test).at = "start"
<1>0. kind \in {"invite", "otp", "portal_link", "expiration_digest"}
  BY DEF Send!Kinds
<1>1. Send!Kinds[kind] \in BOOLEAN
  <2>1. Send!Kinds["invite"] \in BOOLEAN /\ Send!Kinds["otp"] \in BOOLEAN /\ Send!Kinds["portal_link"] \in BOOLEAN
        /\ Send!Kinds["expiration_digest"] \in BOOLEAN
    BY DEF Send!Kinds
  <2> QED BY <1>0, <2>1
<1>2. PICK c \in BOOLEAN : c = Send!Kinds[kind]
  BY <1>1
<1>3. Send!Message(kind, o, p, test) =
        [kind |-> kind, org |-> o, to |-> p, test |-> test, critical |-> c, at |-> "start"]
  BY <1>2 DEF Send!Message
<1> QED
  BY <1>3 DEF Send!Msg

\* A message is never another's, and one that has ended stays ended.
Grows ==
    /\ x4' \in Seq(Send!Msg) /\ DOMAIN x4 \subseteq DOMAIN x4'
    /\ \A i \in DOMAIN x4 : /\ x4'[i].org = x4[i].org /\ x4'[i].to = x4[i].to
                            /\ x4[i].at \in {"quiet", "sent"} => x4'[i].at = x4[i].at

\* A message that is added leaves the others where they were.
LEMMA NewMessage ==
    ASSUME Send!SendInv, NEW m \in Send!Msg, m.at = "start", x4' = Append(x4, m), x1' = x1, x7' = x7
    PROVE  Send!SendInv' /\ Grows
<1>1. /\ x4' \in Seq(Send!Msg) /\ DOMAIN x4' = DOMAIN x4 \cup {Len(x4) + 1} /\ Len(x4) + 1 \notin DOMAIN x4
      /\ x4'[Len(x4) + 1] = m /\ \A k \in DOMAIN x4 : x4'[k] = x4[k]
  BY Appended DEF Send!SendInv
<1>2. \A from \in {"own", "platform"} : <<Len(x4) + 1, from>> \notin x7
  BY <1>1 DEF Send!SendInv
<1>3. Send!SendInv'
  BY <1>1, <1>2 DEF Send!SendInv, Send!CriticalIsNeverSilent
<1> QED
  BY <1>1, <1>3 DEF Grows

\* One message goes on, having reached its recipient's inbox if it says so.
LEMMA MessageGoesOn ==
    ASSUME Send!SendInv, NEW i \in DOMAIN x4, NEW place \in Places, x4' = [x4 EXCEPT ![i].at = place], x1' = x1,
           x4[i].at \in OnItsWay,
           NEW reached \in {{}, {<<i, "own">>}, {<<i, "platform">>}}, x7' = x7 \cup reached,
           place \in OnItsWay => reached = {}, place = "sent" => reached # {},
           place = "quiet" /\ x4[i].critical => x1.demo \/ ~ x1.smtp \/ x4[i].to \in Reserved
    PROVE  Send!SendInv' /\ Grows
<1>1. SentOn(i, place)
  BY GoesOn DEF Send!SendInv
<1>2. <<i, "own">> \notin x7 /\ <<i, "platform">> \notin x7
  BY DEF Send!SendInv, OnItsWay
<1>3. \A k \in DOMAIN x4 : k # i =>
        /\ x4'[k] = x4[k] /\ (<<k, "own">> \in x7' <=> <<k, "own">> \in x7)
        /\ <<k, "platform">> \in x7' <=> <<k, "platform">> \in x7
  BY <1>1 DEF SentOn
<1>4. \A m \in x7' : m[1] \in DOMAIN x4'
  BY <1>1 DEF SentOn, Send!SendInv
<1>5. \A k \in DOMAIN x4' : x4'[k].at \in OnItsWay => <<k, "own">> \notin x7' /\ <<k, "platform">> \notin x7'
  <2> TAKE k \in DOMAIN x4'
  <2>1. CASE k = i
    BY <1>1, <1>2, <2>1 DEF SentOn
  <2>2. CASE k # i
    BY <1>1, <1>3, <2>2 DEF SentOn, Send!SendInv, OnItsWay
  <2> QED BY <2>1, <2>2
<1>6. Send!CriticalIsNeverSilent'
  <2>1. ASSUME NEW k \in DOMAIN x4'
        PROVE  /\ x4'[k].critical /\ x4'[k].at = "quiet" => x1.demo \/ ~ x1.smtp \/ x4'[k].to \in Reserved
               /\ x4'[k].at = "sent" => \E from \in {"own", "platform"} : <<k, from>> \in x7'
               /\ ~ ({<<k, "own">>, <<k, "platform">>} \subseteq x7')
    <3>1. CASE k = i
      <4>1. x4'[i].at = place /\ x4'[i].to = x4[i].to /\ x4'[i].critical = x4[i].critical
        BY <1>1 DEF SentOn
      <4>2. place = "sent" => \E from \in {"own", "platform"} : <<i, from>> \in x7'
        OBVIOUS
      <4>3. ~ ({<<i, "own">>, <<i, "platform">>} \subseteq x7')
        BY <1>2
      <4> QED BY <3>1, <4>1, <4>2, <4>3
    <3>2. CASE k # i
      BY <1>1, <1>3, <3>2 DEF SentOn, Send!SendInv, Send!CriticalIsNeverSilent
    <3> QED BY <3>1, <3>2
  <2> QED BY <2>1 DEF Send!CriticalIsNeverSilent
<1>7. Send!SendInv'
  BY <1>1, <1>4, <1>5, <1>6 DEF Send!SendInv, SentOn, OnItsWay
<1>8. Grows
  BY <1>1 DEF Grows, SentOn, OnItsWay
<1> QED BY <1>7, <1>8

\* Every step of the transport keeps its messages accounted for.
LEMMA SendStep ==
    ASSUME Send!SendInv, Send!DigestInv, [Send!Next]_(Send!vars)
    PROVE  Send!SendInv' /\ Grows
<1>0. x4 \in Seq(Send!Msg)
  BY DEF Send!SendInv
<1>1. ASSUME NEW k \in DOMAIN Send!Kinds, NEW o \in Send!Org, NEW test \in BOOLEAN,
             NEW p \in Send!ToSet(Members[o]), Send!Send(k, o, p, test)
      PROVE  Send!SendInv' /\ Grows
  <2>1. p \in Send!Person
    BY DEF Send!Person
  <2>2. x4' = Append(x4, Send!Message(k, o, p, test)) /\ x1' = x1 /\ x7' = x7
    BY <1>1 DEF Send!Send
  <2> QED
    BY <2>1, <2>2, MessageIsTyped, NewMessage
<1>2. ASSUME NEW i \in DOMAIN x4, NEW failed \in BOOLEAN, Send!Gate(i, failed)
      PROVE  Send!SendInv' /\ Grows
  <2>1. x4[i].at = "start" /\ x1' = x1 /\ x7' = x7
    BY <1>2 DEF Send!Gate
  <2>2. \/ x4' = [x4 EXCEPT ![i].at = "headers"]
        \/ x4' = [x4 EXCEPT ![i].at = "quiet"] /\ (x4[i].critical => x1.demo)
    BY <1>2 DEF Send!Gate, Send!Gated
  <2> QED
    BY <2>1, <2>2, MessageGoesOn DEF Places, OnItsWay
<1>3. ASSUME NEW i \in DOMAIN x4, Send!Capture(i)
      PROVE  Send!SendInv' /\ Grows
  <2>1. x4[i].at = "headers" /\ x1' = x1 /\ x7' = x7
    BY <1>3 DEF Send!Capture
  <2>2. \/ x4' = [x4 EXCEPT ![i].at = "smtp"]
        \/ x4' = [x4 EXCEPT ![i].at = "quiet"] /\ (~ x1.smtp \/ x4[i].to \in Reserved)
    BY <1>3 DEF Send!Capture
  <2> QED
    BY <2>1, <2>2, MessageGoesOn DEF Places, OnItsWay
<1>4. ASSUME NEW i \in DOMAIN x4, NEW a \in {"taken", "sender", "refused", "lost"}, Send!Smtp(i, a)
      PROVE  Send!SendInv' /\ Grows
  <2>1. x4[i].at = "smtp" /\ x1' = x1
    BY <1>4 DEF Send!Smtp
  <2>2. \/ x4' = [x4 EXCEPT ![i].at = "sent"] /\ x7' = x7 \cup {<<i, "own">>}
        \/ x4' = [x4 EXCEPT ![i].at = "fallback"] /\ x7' = x7
        \/ x4' = [x4 EXCEPT ![i].at = "thrown"] /\ (x7' = x7 \/ x7' = x7 \cup {<<i, "own">>})
    BY <1>4 DEF Send!Smtp, Send!CanFallBack
  <2> QED
    BY <2>1, <2>2, MessageGoesOn DEF Places, OnItsWay
<1>5. ASSUME NEW i \in DOMAIN x4, NEW taken \in BOOLEAN, Send!Fallback(i, taken)
      PROVE  Send!SendInv' /\ Grows
  <2>1. x4[i].at = "fallback" /\ x1' = x1
    BY <1>5 DEF Send!Fallback
  <2>2. \/ x4' = [x4 EXCEPT ![i].at = "sent"] /\ x7' = x7 \cup {<<i, "platform">>}
        \/ x4' = [x4 EXCEPT ![i].at = "thrown"] /\ x7' = x7
    BY <1>5 DEF Send!Fallback
  <2> QED
    BY <2>1, <2>2, MessageGoesOn DEF Places, OnItsWay
<1>6. CASE Send!Mail
  <2>1. x8.state = "mail" /\ Send!AtHand
    BY <1>6 DEF Send!Mail, Send!DigestInv
  <2>2. PICK o : o = Orgs[x8.org]
    OBVIOUS
  <2>3. o \in Send!Org /\ o \in Range(Orgs)
    <3>1. x8.org \in 1 .. (Len(Orgs) + 1) /\ x8.org <= Len(Orgs)
      BY <2>1 DEF Send!AtHand, Send!DigestInv, Send!Digest
    <3>2. Orgs \in Seq(Range(Orgs)) /\ Len(Orgs) \in Nat
      BY SendAssumption
    <3>3. x8.org \in DOMAIN Orgs
      BY <3>1, <3>2
    <3> QED
      BY <2>2, <3>3 DEF Send!Org, Send!ToSet, Range
  <2>4. Members[o] \in Seq(Range(Members[o])) /\ x8.person \in 1 .. Len(Members[o])
    BY <2>1, <2>2, <2>3, SendAssumption DEF Send!AtHand
  <2>5. Members[o][x8.person] \in Send!Person
    BY <2>3, <2>4 DEF Send!Person, Send!ToSet
  <2>6. /\ x4' = Append(x4, Send!Message("expiration_digest", o, Members[o][x8.person], FALSE))
        /\ x1' = x1 /\ x7' = x7
    BY <1>6, <2>2 DEF Send!Mail
  <2>7. "expiration_digest" \in DOMAIN Send!Kinds
    BY DEF Send!Kinds
  <2> QED
    BY <2>3, <2>5, <2>6, <2>7, MessageIsTyped, NewMessage
<1>7. CASE x1' = x1 /\ x4' = x4 /\ x7' = x7
  BY <1>0, <1>7 DEF Send!SendInv, Send!CriticalIsNeverSilent, Grows
<1>8. \/ Send!Change \/ Send!StartDigest \/ Send!Mailed \/ Send!EndDigest
      \/ (\E found \in {"records", "none", "throws"} : Send!Scan(found)) \/ UNCHANGED Send!vars
      => x1' = x1 /\ x4' = x4 /\ x7' = x7
  BY DEF Send!Change, Send!StartDigest, Send!Mailed, Send!EndDigest, Send!Scan, Send!vars
<1> QED
  BY <1>1, <1>2, <1>3, <1>4, <1>5, <1>6, <1>7, <1>8 DEF Send!Next

-----------------------------------------------------------------------------
(* The digest. *)

\* What was tried stays tried.
LEMMA TriedStays ==
    ASSUME Grows, NEW o, NEW p, Send!Tried(o, p) PROVE Send!Tried(o, p)'
  BY DEF Grows, Send!Tried

\* A step of a message leaves the digest as it is.
LEMMA DigestUntouched ==
    ASSUME Send!DigestInv, Grows, x8' = x8 PROVE Send!DigestInv'
<1>1. Send!AtHand => Send!AtHand'
  BY TriedStays DEF Grows, Send!AtHand
<1>2. ASSUME NEW o, \A p \in Send!ToSet(Members[o]) : Send!Tried(o, p)
      PROVE  \A p \in Send!ToSet(Members[o]) : Send!Tried(o, p)'
  BY <1>2, TriedStays
<1> QED
  BY <1>1, <1>2 DEF Send!DigestInv

\* The digest goes on to the next organization from one that is covered or counted.
LEMMA NextOrgKeepsDigest ==
    ASSUME Send!DigestInv, x4' = x4, NEW d, NEW failed \in BOOLEAN, x8' = Send!NextOrg(d, failed),
           d.org = x8.org, x8.org <= Len(Orgs), d.failed = x8.failed,
           d \in Send!Digest,
           d.scanned = {Orgs[k] : k \in 1 .. x8.org},
           \A o \in d.found \ d.failed :
             (\A p \in Send!ToSet(Members[o]) : Send!Tried(o, p)) \/ (failed /\ o = Orgs[x8.org])
    PROVE  Send!DigestInv'
<1>0. Len(Orgs) \in Nat /\ x8.org \in 1 .. Len(Orgs) /\ x8.org + 1 \in 1 .. (Len(Orgs) + 1) /\ x8.org + 1 - 1 = x8.org
  BY SendAssumption DEF Send!DigestInv, Send!Digest
<1>1. Orgs[x8.org] \in Send!Org
  BY <1>0, SendAssumption DEF Send!Org, Send!ToSet
<1>2. /\ x8' \in Send!Digest
      /\ x8'.state = "scan" /\ x8'.org = x8.org + 1 /\ x8'.person = 1 /\ x8'.message = 0
      /\ x8'.scanned = d.scanned /\ x8'.found = d.found
      /\ x8'.failed = (IF failed THEN d.failed \cup {Orgs[x8.org]} ELSE d.failed)
  BY <1>0, <1>1 DEF Send!NextOrg, Send!Digest
<1>3. \A o, p : Send!Tried(o, p)' <=> Send!Tried(o, p)
  BY DEF Send!Tried
<1>4. \A o \in x8'.found \ x8'.failed : \A p \in Send!ToSet(Members[o]) : Send!Tried(o, p)'
  BY <1>2, <1>3
<1> QED
  BY <1>0, <1>2, <1>4 DEF Send!DigestInv

\* Fields of the digest.
LEMMA DigestFields ==
    ASSUME NEW d \in Send!Digest, NEW n \in Nat, NEW e,
           \/ e = [d EXCEPT !.message = n] \/ e = [d EXCEPT !.person = n, !.message = 0]
           \/ e = [d EXCEPT !.state = "done"]
    PROVE  /\ e \in Send!Digest /\ e.org = d.org /\ e.failed = d.failed /\ e.scanned = d.scanned /\ e.found = d.found
           /\ e = [d EXCEPT !.message = n] => e.message = n /\ e.person = d.person /\ e.state = d.state
           /\ e = [d EXCEPT !.person = n, !.message = 0] => e.message = 0 /\ e.person = n /\ e.state = d.state
           /\ e = [d EXCEPT !.state = "done"] => e.state = "done"
<1>1. CASE e = [d EXCEPT !.message = n]
  BY <1>1 DEF Send!Digest
<1>2. CASE e = [d EXCEPT !.person = n, !.message = 0]
  BY <1>2 DEF Send!Digest
<1>3. CASE e = [d EXCEPT !.state = "done"]
  BY <1>3 DEF Send!Digest
<1> QED BY <1>1, <1>2, <1>3

\* Every step of the digest keeps the organizations behind it told or failed.
LEMMA DigestStep ==
    ASSUME Send!SendInv, Send!DigestInv, [Send!Next]_(Send!vars)
    PROVE  Send!DigestInv'
<1>0. Grows
  BY SendStep
<1>a. Len(Orgs) \in Nat
  BY SendAssumption
<1>b. x8 \in Send!Digest
  BY DEF Send!DigestInv
<1>1. CASE Send!StartDigest
  <2>1. x8' = [state |-> "scan", org |-> 1, person |-> 1, message |-> 0, failed |-> {}, scanned |-> {}, found |-> {}]
    BY <1>1 DEF Send!StartDigest, Send!NoDigest
  <2> QED
    BY <1>a, <2>1 DEF Send!DigestInv, Send!Digest
<1>2. ASSUME NEW found \in {"records", "none", "throws"}, Send!Scan(found) PROVE Send!DigestInv'
  <2>1. PICK o : o = Orgs[x8.org]
    OBVIOUS
  <2>2. PICK d : d = [x8 EXCEPT !.scanned = @ \cup {o}, !.found = IF found = "records" THEN @ \cup {o} ELSE @]
    OBVIOUS
  <2>3. x8.state = "scan" /\ x8.org <= Len(Orgs) /\ x4' = x4
    BY <1>2 DEF Send!Scan
  <2>4. x8' = IF found = "records" /\ Members[o] # <<>> THEN [d EXCEPT !.state = "mail"]
              ELSE Send!NextOrg(d, found = "throws")
    BY <1>2, <2>1, <2>2, Zenon DEF Send!Scan
  <2>5. x8.org \in 1 .. Len(Orgs)
    BY <1>a, <1>b, <2>3 DEF Send!Digest
  <2>6. o \in Send!Org /\ o \in Range(Orgs)
    BY <2>1, <2>5, SendAssumption DEF Send!Org, Send!ToSet, Range
  <2>7. /\ d \in Send!Digest
        /\ d.org = x8.org /\ d.failed = x8.failed /\ d.scanned = x8.scanned \cup {o} /\ d.person = x8.person
        /\ d.message = x8.message
        /\ d.found = (IF found = "records" THEN x8.found \cup {o} ELSE x8.found)
    BY <1>b, <2>2, <2>6 DEF Send!Digest
  <2>8. d.scanned = {Orgs[k] : k \in 1 .. x8.org}
    <3>1. x8.scanned = {Orgs[k] : k \in 1 .. (x8.org - 1)}
      BY <2>3 DEF Send!DigestInv
    <3>2. \A k : k \in 1 .. x8.org <=> k \in 1 .. (x8.org - 1) \/ k = x8.org
      BY <2>5
    <3> QED
      BY <2>1, <2>7, <3>1, <3>2
  <2>9. \A q \in x8.found \ x8.failed : \A p \in Send!ToSet(Members[q]) : Send!Tried(q, p)
    BY <2>3 DEF Send!DigestInv
  <2>10. CASE found = "records" /\ Members[o] # <<>>
    <3>1. /\ x8'.state = "mail" /\ x8'.org = x8.org /\ x8'.failed = x8.failed /\ x8'.scanned = d.scanned
          /\ x8'.person = x8.person /\ x8'.message = x8.message /\ x8'.found = x8.found \cup {o}
          /\ x8' \in Send!Digest
      BY <2>4, <2>7, <2>10 DEF Send!Digest
    <3>2. x8.person = 1 /\ x8.message = 0
      BY <2>3 DEF Send!DigestInv
    <3>3. Send!AtHand'
      <4>1. Members[o] \in Seq(Range(Members[o])) /\ Len(Members[o]) # 0
        BY <2>6, <2>10, SendAssumption
      <4>2. 1 \in 1 .. Len(Members[o]) /\ \A k : ~ (k \in 1 .. (1 - 1))
        BY <4>1
      <4> QED
        BY <2>1, <2>3, <3>1, <3>2, <4>2 DEF Send!AtHand
    <3>t. \A q, p : Send!Tried(q, p)' <=> Send!Tried(q, p)
      BY <2>3 DEF Send!Tried
    <3>4. \A q \in x8'.found \ x8'.failed : (\A p \in Send!ToSet(Members[q]) : Send!Tried(q, p)') \/ q = o
      BY <2>9, <3>1, <3>t
    <3> QED
      BY <2>1, <2>8, <3>1, <3>3, <3>4 DEF Send!DigestInv
  <2>11. CASE ~ (found = "records" /\ Members[o] # <<>>)
    <3>1. found = "records" => \A p \in Send!ToSet(Members[o]) : Send!Tried(o, p)
      <4>1. found = "records" => Send!ToSet(Members[o]) = {}
        BY <2>11 DEF Send!ToSet
      <4> QED BY <4>1
    <3>2. \A q \in d.found \ d.failed : \A p \in Send!ToSet(Members[q]) : Send!Tried(q, p)
      BY <2>7, <2>9, <3>1
    <3> QED
      BY <2>3, <2>4, <2>7, <2>8, <2>11, <3>2, NextOrgKeepsDigest
  <2> QED BY <2>10, <2>11
<1>3. CASE Send!Mail
  <2>1. PICK o : o = Orgs[x8.org]
    OBVIOUS
  <2>2. /\ x8.state = "mail" /\ x8' = [x8 EXCEPT !.message = Len(x4) + 1]
        /\ x4' = Append(x4, Send!Message("expiration_digest", o, Members[o][x8.person], FALSE))
    BY <1>3, <2>1 DEF Send!Mail
  <2>3. Send!AtHand
    BY <2>2 DEF Send!DigestInv
  <2>4. x4 \in Seq(Send!Msg) /\ Len(x4) \in Nat
    BY DEF Send!SendInv
  <2>5. /\ x8'.state = "mail" /\ x8'.org = x8.org /\ x8'.failed = x8.failed /\ x8'.scanned = x8.scanned
        /\ x8'.person = x8.person /\ x8'.message = Len(x4) + 1 /\ x8'.found = x8.found
        /\ x8' \in Send!Digest
    <3>1. PICK n \in Nat : n = Len(x4) + 1
      BY <2>4
    <3>2. x8' = [x8 EXCEPT !.message = n]
      BY <2>2, <3>1
    <3>3. /\ x8' \in Send!Digest /\ x8'.org = x8.org /\ x8'.failed = x8.failed /\ x8'.scanned = x8.scanned
          /\ x8'.found = x8.found /\ x8'.message = n /\ x8'.person = x8.person /\ x8'.state = x8.state
      BY <1>b, <3>1, <3>2 DEF Send!Digest
    <3> QED
      BY <2>2, <3>1, <3>3
  <2>6. Len(x4) + 1 \in DOMAIN x4' /\ x4'[Len(x4) + 1].org = o /\ x4'[Len(x4) + 1].to = Members[o][x8.person]
    BY <2>2, <2>4 DEF Send!Message
  <2>7. Send!AtHand'
    BY <1>0, <2>1, <2>3, <2>5, <2>6, TriedStays DEF Send!AtHand
  <2>8. \A q \in x8'.found \ x8'.failed : (\A p \in Send!ToSet(Members[q]) : Send!Tried(q, p)') \/ q = o
    BY <1>0, <2>1, <2>5, TriedStays DEF Send!DigestInv
  <2> QED
    BY <2>1, <2>2, <2>5, <2>7, <2>8 DEF Send!DigestInv
<1>4. CASE Send!Mailed
  <2>1. PICK o : o = Orgs[x8.org]
    OBVIOUS
  <2>2. /\ x8.state = "mail" /\ x8.message # 0 /\ x4[x8.message].at \in {"quiet", "sent", "thrown"} /\ x4' = x4
        /\ Send!AtHand
    BY <1>4 DEF Send!Mailed, Send!DigestInv
  <2>3. x8.scanned = {Orgs[k] : k \in 1 .. x8.org}
    BY <2>2 DEF Send!DigestInv
  <2>4. \A q \in x8.found \ x8.failed : (\A p \in Send!ToSet(Members[q]) : Send!Tried(q, p)) \/ q = o
    BY <2>1 DEF Send!DigestInv
  <2>5. x4[x8.message].at # "thrown" => Send!Tried(o, Members[o][x8.person])
    BY <2>1, <2>2 DEF Send!AtHand, Send!Tried
  <2>6. x8.org <= Len(Orgs) /\ x8.person \in 1 .. Len(Members[o])
        /\ \A k \in 1 .. (x8.person - 1) : Send!Tried(o, Members[o][k])
    BY <2>1, <2>2 DEF Send!AtHand
  <2>7. o \in Range(Orgs)
    BY <1>a, <1>b, <2>1, <2>6, SendAssumption DEF Range, Send!Digest
  <2>8. Members[o] \in Seq(Range(Members[o])) /\ Len(Members[o]) \in Nat
    BY <2>7, SendAssumption
  <2>t. \A q, p : Send!Tried(q, p)' <=> Send!Tried(q, p)
    BY <2>2 DEF Send!Tried
  <2>9. CASE x4[x8.message].at = "thrown"
    <3>1. x8' = Send!NextOrg(x8, TRUE)
      BY <1>4, <2>9 DEF Send!Mailed
    <3> QED
      BY <1>b, <2>1, <2>2, <2>3, <2>4, <2>6, <3>1, NextOrgKeepsDigest
  <2>10. CASE x4[x8.message].at # "thrown" /\ x8.person = Len(Members[o])
    <3>1. x8' = Send!NextOrg(x8, FALSE)
      BY <1>4, <2>1, <2>10 DEF Send!Mailed
    <3>2. \A k \in 1 .. Len(Members[o]) : Send!Tried(o, Members[o][k])
      <4>1. \A k \in 1 .. Len(Members[o]) : k \in 1 .. (x8.person - 1) \/ k = x8.person
        BY <2>6, <2>8, <2>10
      <4> QED BY <2>5, <2>6, <2>10, <4>1
    <3>3. \A p \in Send!ToSet(Members[o]) : Send!Tried(o, p)
      BY <2>8, <3>2 DEF Send!ToSet
    <3> QED
      BY <1>b, <2>1, <2>2, <2>3, <2>4, <2>6, <3>1, <3>3, NextOrgKeepsDigest
  <2>11. CASE x4[x8.message].at # "thrown" /\ x8.person # Len(Members[o])
    <3>1. x8' = [x8 EXCEPT !.person = x8.person + 1, !.message = 0]
      BY <1>4, <2>1, <2>11 DEF Send!Mailed
    <3>2. /\ x8'.state = "mail" /\ x8'.org = x8.org /\ x8'.failed = x8.failed /\ x8'.scanned = x8.scanned
          /\ x8'.person = x8.person + 1 /\ x8'.message = 0 /\ x8'.found = x8.found
          /\ x8' \in Send!Digest
      <4>1. PICK n \in Nat : n = x8.person + 1
        BY <1>b DEF Send!Digest
      <4>2. x8' = [x8 EXCEPT !.person = n, !.message = 0]
        BY <3>1, <4>1
      <4>3. /\ x8' \in Send!Digest /\ x8'.org = x8.org /\ x8'.failed = x8.failed /\ x8'.scanned = x8.scanned
            /\ x8'.found = x8.found /\ x8'.message = 0 /\ x8'.person = n /\ x8'.state = x8.state
        BY <1>b, <4>1, <4>2 DEF Send!Digest
      <4> QED
        BY <2>2, <4>1, <4>3
    <3>3. x8.person + 1 \in 1 .. Len(Members[o])
          /\ \A k \in 1 .. (x8.person + 1 - 1) : k \in 1 .. (x8.person - 1) \/ k = x8.person
      BY <2>6, <2>8, <2>11
    <3>4. \A k \in 1 .. (x8.person + 1 - 1) : Send!Tried(o, Members[o][k])
      BY <2>5, <2>6, <2>11, <3>3
    <3>5. Send!AtHand'
      BY <2>1, <2>2, <2>6, <2>t, <3>2, <3>3, <3>4 DEF Send!AtHand
    <3>6. \A q \in x8'.found \ x8'.failed : (\A p \in Send!ToSet(Members[q]) : Send!Tried(q, p)') \/ q = o
      BY <2>4, <2>t, <3>2
    <3> QED
      BY <2>1, <2>2, <2>3, <3>2, <3>5, <3>6 DEF Send!DigestInv
  <2> QED BY <2>9, <2>10, <2>11
<1>5. CASE Send!EndDigest
  <2>1. x8.state = "scan" /\ x8.org > Len(Orgs) /\ x4' = x4 /\ x8' = [x8 EXCEPT !.state = "done"]
    BY <1>5 DEF Send!EndDigest
  <2>2. x8.org = Len(Orgs) + 1
    BY <1>a, <1>b, <2>1 DEF Send!Digest
  <2>3. /\ x8'.state = "done" /\ x8'.org = x8.org /\ x8'.failed = x8.failed /\ x8'.scanned = x8.scanned
        /\ x8'.found = x8.found
        /\ x8' \in Send!Digest
    BY <1>b, <2>1, DigestFields
  <2>t. \A q, p : Send!Tried(q, p)' <=> Send!Tried(q, p)
    BY <2>1 DEF Send!Tried
  <2>4. \A q \in x8'.found \ x8'.failed : \A p \in Send!ToSet(Members[q]) : Send!Tried(q, p)'
    BY <2>1, <2>3, <2>t DEF Send!DigestInv
  <2>5. x8'.scanned = {Orgs[k] : k \in 1 .. (x8.org - 1)}
    BY <2>1, <2>3 DEF Send!DigestInv
  <2> QED
    BY <2>2, <2>3, <2>4, <2>5 DEF Send!DigestInv
<1>6. CASE x8' = x8
  BY <1>0, <1>6, DigestUntouched
<1>7. ASSUME NEW i \in DOMAIN x4,
             \/ \E failed \in BOOLEAN : Send!Gate(i, failed)
             \/ Send!Capture(i)
             \/ \E a \in {"taken", "sender", "refused", "lost"} : Send!Smtp(i, a)
             \/ \E taken \in BOOLEAN : Send!Fallback(i, taken)
      PROVE  x8' = x8
  BY <1>7 DEF Send!Gate, Send!Capture, Send!Smtp, Send!Fallback
<1>8. (\E k \in DOMAIN Send!Kinds, o \in Send!Org, test \in BOOLEAN : \E p \in Send!ToSet(Members[o]) : Send!Send(k, o, p, test))
      \/ Send!Change \/ UNCHANGED Send!vars => x8' = x8
  BY DEF Send!Send, Send!Change, Send!vars
<1> QED
  BY <1>1, <1>2, <1>3, <1>4, <1>5, <1>6, <1>7, <1>8 DEF Send!Next

\* Messages accounted for and organizations told is what MessagesGoOut asks.
LEMMA DigestHolds == Send!SendInv /\ Send!DigestInv => Send!CriticalIsNeverSilent /\ Send!DigestCoversTheRest
<1> SUFFICES ASSUME Send!SendInv, Send!DigestInv, x8.state = "done"
             PROVE  /\ x8.scanned = Send!Org
                    /\ \A o \in x8.found \ x8.failed : \A p \in Send!ToSet(Members[o]) : Send!Tried(o, p)
  BY DEF Send!SendInv, Send!DigestCoversTheRest, Send!Tried
<1>1. Orgs \in Seq(Range(Orgs)) /\ Len(Orgs) \in Nat
  BY SendAssumption
<1>2. x8.scanned = {Orgs[k] : k \in 1 .. (x8.org - 1)} /\ x8.org = Len(Orgs) + 1
  BY DEF Send!DigestInv
<1>3. x8.org - 1 = Len(Orgs) /\ DOMAIN Orgs = 1 .. Len(Orgs)
  BY <1>1, <1>2
<1>4. x8.scanned = Send!Org
  BY <1>2, <1>3 DEF Send!Org, Send!ToSet
<1> QED
  BY <1>4 DEF Send!DigestInv

-----------------------------------------------------------------------------
(* The inbox and the webhooks: x1 is the clock, x4 the requests, x5 how     *)
(* often each was taken, x6 the log, x9 the deliveries and x11 what was     *)
(* posted.                                                                 *)
Hook == INSTANCE Relay WITH
        MaxTime <- RelayTime,
        now <- x1, secret <- x2, senders <- x3, wire <- x4, accepted <- x5, log <- x6, hook <- x7,
        signing <- x8, delivery <- x9, tries <- x10, posted <- x11
\* Addresses at the borders of the blocks, and IPv6 addresses with every pattern of zero groups.
Octet == {0, 1, 10, 15, 16, 17, 18, 19, 20, 31, 32, 63, 64, 100, 127, 128, 168, 169, 172, 192, 198, 223, 224, 254, 255}
Loopback == [k \in 1 .. 8 |-> IF k = 8 THEN 1 ELSE 0]
Address == [v4 : Octet \X Octet \X {0, 1, 255} \X {1}, v6 : {Loopback}]
           \cup [v4 : {<<8, 8, 8, 8>>}, v6 : [1..8 -> {0, 1}]]

\* Nothing is accepted or delivered at the start.
LEMMA RelayStarts == Hook!Init => Hook!RelayInv
  BY DEF Hook!Init, Hook!RelayInv

\* A step keeps the types and the deliveries true.
LEMMA DeliveryChanges ==
    ASSUME Hook!RelayInv, NEW e \in Event, NEW d \in {"none", "pending", "running", "done", "dead"},
           x9' = [x9 EXCEPT ![e] = d], x11 \subseteq x11', d = "done" => e \in x11'
    PROVE  /\ x9' \in [Event -> {"none", "pending", "running", "done", "dead"}]
           /\ \A f \in Event : x9'[f] = "done" => f \in x11'
  BY DEF Hook!RelayInv

\* The clock and the log move on: a request whose row goes is over.
LEMMA RelayAccept ==
    ASSUME Hook!RelayInv, NEW r \in x4, Hook!Accept(r)
    PROVE  Hook!RelayInv'
<1>1. /\ x1' = x1 /\ x3' = x3 /\ x4' = x4 /\ x11' = x11
      /\ x1 - r.at <= Tolerance /\ r.at - x1 <= Tolerance
  BY DEF Hook!Accept, Hook!Verified, Hook!inbox
<1>2. r.id \in Event /\ r.at \in Nat /\ x1 \in Nat /\ x6[r.id] \in Int /\ x5[r] \in {0, 1} /\ Tolerance \in Nat
  BY HookAssumption DEF Hook!RelayInv
<1>3. CASE x6[r.id] # -1
  <2>1. x5' = x5 /\ x6' = x6 /\ x9' = x9
    BY <1>3 DEF Hook!Accept
  <2> QED
    BY <1>1, <2>1 DEF Hook!RelayInv
<1>4. CASE x6[r.id] = -1
  <2>1. x6' = [x6 EXCEPT ![r.id] = x1] /\ x5' = [x5 EXCEPT ![r] = x5[r] + 1]
    BY <1>4 DEF Hook!Accept
  <2>2. \E d \in {"pending", "none"} : x9' = [x9 EXCEPT ![r.id] = d]
    BY <1>4 DEF Hook!Accept
  <2>3. x5[r] = 0
    BY <1>1, <1>2, <1>4 DEF Hook!RelayInv
  <2>4. x5' \in [x4 -> {0, 1}] /\ x6' \in [Event -> Int]
    BY <1>2, <2>1, <2>3 DEF Hook!RelayInv
  <2>5. /\ x9' \in [Event -> {"none", "pending", "running", "done", "dead"}]
        /\ \A f \in Event : x9'[f] = "done" => f \in x11'
    BY <1>1, <1>2, <2>2, DeliveryChanges
  <2>6. ASSUME NEW q \in x4, x5'[q] = 1
        PROVE  (x6'[q.id] # -1 /\ q.at <= x6'[q.id] + Tolerance) \/ x1 > q.at + Tolerance
    <3>0. q.id \in Event /\ q.at \in Nat
      BY DEF Hook!RelayInv
    <3>1. CASE q = r
      BY <1>1, <1>2, <2>1, <3>1 DEF Hook!RelayInv
    <3>2. CASE q # r
      <4>1. x5[q] = 1
        BY <2>1, <2>6, <3>2 DEF Hook!RelayInv
      <4>2. CASE q.id = r.id
        BY <1>4, <4>1, <4>2 DEF Hook!RelayInv
      <4>3. CASE q.id # r.id
        <5>1. x6'[q.id] = x6[q.id]
          BY <2>1, <3>0, <4>3 DEF Hook!RelayInv
        <5> QED BY <4>1, <5>1 DEF Hook!RelayInv
      <4> QED BY <4>2, <4>3
    <3> QED BY <3>1, <3>2
  <2> QED
    BY <1>1, <2>4, <2>5, <2>6 DEF Hook!RelayInv
<1> QED BY <1>3, <1>4

\* The sweep removes events that no open signature can bring back.
LEMMA RelaySweep ==
    ASSUME Hook!RelayInv, NEW e \in Event, Hook!Sweep(e)
    PROVE  Hook!RelayInv'
<1>1. /\ x1' = x1 /\ x3' = x3 /\ x4' = x4 /\ x5' = x5 /\ x11' = x11
      /\ x6' = [x6 EXCEPT ![e] = -1] /\ x9' = [x9 EXCEPT ![e] = "none"] /\ x1 - x6[e] > Retention
  BY DEF Hook!Sweep, Hook!inbox
<1>2. x1 \in Nat /\ x6[e] \in Int /\ Tolerance \in Nat /\ Retention \in Nat /\ 2 * Tolerance <= Retention
  BY HookAssumption DEF Hook!RelayInv
<1>3. x6' \in [Event -> Int]
  BY <1>1 DEF Hook!RelayInv
<1>4. /\ x9' \in [Event -> {"none", "pending", "running", "done", "dead"}]
      /\ \A f \in Event : x9'[f] = "done" => f \in x11'
  BY <1>1, DeliveryChanges
<1>5. ASSUME NEW q \in x4, x5[q] = 1
      PROVE  (x6'[q.id] # -1 /\ q.at <= x6'[q.id] + Tolerance) \/ x1 > q.at + Tolerance
  <2>1. q.id \in Event /\ q.at \in Nat
    BY DEF Hook!RelayInv
  <2>2. (x6[q.id] # -1 /\ q.at <= x6[q.id] + Tolerance) \/ x1 > q.at + Tolerance
    BY <1>5 DEF Hook!RelayInv
  <2>3. CASE q.id = e
    BY <1>1, <1>2, <2>1, <2>2, <2>3
  <2>4. CASE q.id # e
    <3>1. x6'[q.id] = x6[q.id]
      BY <1>1, <2>1, <2>4 DEF Hook!RelayInv
    <3> QED BY <2>2, <3>1
  <2> QED BY <2>3, <2>4
<1> QED
  BY <1>1, <1>3, <1>4, <1>5 DEF Hook!RelayInv

\* A signature carries the time it is made at.
LEMMA RelaySign ==
    ASSUME Hook!RelayInv, NEW e \in Event, NEW skew \in 0 .. Tolerance, Hook!Sign(e, skew)
    PROVE  Hook!RelayInv'
<1> DEFINE r == [id |-> e, at |-> x1 + skew, key |-> x3]
<1>1. /\ x1' = x1 /\ x3' = x3 /\ x6' = x6 /\ x9' = x9 /\ x11' = x11
      /\ r \notin x4 /\ x4' = x4 \cup {r} /\ x5' = [q \in x4' |-> IF q \in x4 THEN x5[q] ELSE 0]
  BY DEF Hook!Sign, Hook!webhook
<1>2. x1 + skew \in Nat
  BY HookAssumption DEF Hook!RelayInv
<1>3. r \in [id : Event, at : Nat, key : {"v1", "v2"}]
  BY <1>2 DEF Hook!RelayInv
<1> HIDE DEF r
<1>4. \A q \in x4' : x5'[q] = IF q \in x4 THEN x5[q] ELSE 0
  BY <1>1
<1>5. x5' \in [x4' -> {0, 1}]
  BY <1>1 DEF Hook!RelayInv
<1>6. \A q \in x4' : x5'[q] = 1 => q \in x4 /\ x5[q] = 1
  BY <1>1, <1>4
<1> QED
  BY <1>1, <1>3, <1>5, <1>6 DEF Hook!RelayInv

\* Every step of the relay keeps what its log and deliveries say.
LEMMA RelayStep ==
    ASSUME Hook!RelayInv, [Hook!Next]_(Hook!vars)
    PROVE  Hook!RelayInv'
<1>1. CASE Hook!Tick
  <2>1. /\ x1' = x1 + 1 /\ x3' = x3 /\ x4' = x4 /\ x5' = x5 /\ x6' = x6 /\ x9' = x9 /\ x11' = x11
    BY <1>1 DEF Hook!Tick, Hook!inbox, Hook!webhook
  <2>2. x1' \in Nat /\ \A a \in Nat : x1 > a + Tolerance => x1' > a + Tolerance
    BY <2>1, HookAssumption DEF Hook!RelayInv
  <2> QED
    BY <2>1, <2>2 DEF Hook!RelayInv
<1>2. ASSUME NEW e \in Event, Hook!ClaimHook(e)
      PROVE  Hook!RelayInv'
  <2>1. /\ x1' = x1 /\ x3' = x3 /\ x4' = x4 /\ x5' = x5 /\ x6' = x6 /\ x11' = x11
        /\ x9' = [x9 EXCEPT ![e] = "running"]
    BY <1>2 DEF Hook!ClaimHook, Hook!inbox
  <2>2. /\ x9' \in [Event -> {"none", "pending", "running", "done", "dead"}]
        /\ \A f \in Event : x9'[f] = "done" => f \in x11'
    BY <2>1, DeliveryChanges
  <2> QED
    BY <2>1, <2>2 DEF Hook!RelayInv
<1>3. ASSUME NEW e \in Event, NEW answer \in {"ok", "lost", "refused", "unsent"}, Hook!DeliverWebhook(e, answer)
      PROVE  Hook!RelayInv'
  <2>1. x1' = x1 /\ x3' = x3 /\ x4' = x4 /\ x5' = x5 /\ x6' = x6
    BY <1>3 DEF Hook!DeliverWebhook, Hook!inbox
  <2>2. CASE answer = "ok"
    <3>1. x9' = [x9 EXCEPT ![e] = "done"] /\ x11' = x11 \cup {e}
      BY <1>3, <2>2 DEF Hook!DeliverWebhook
    <3>2. /\ x9' \in [Event -> {"none", "pending", "running", "done", "dead"}]
          /\ \A f \in Event : x9'[f] = "done" => f \in x11'
      BY <3>1, DeliveryChanges
    <3> QED
      BY <2>1, <3>2 DEF Hook!RelayInv
  <2>3. CASE answer # "ok"
    <3>1. x11 \subseteq x11' /\ Hook!Failed(e)
      BY <1>3, <2>3 DEF Hook!DeliverWebhook
    <3>2. PICK d \in {"pending", "dead"} : x9' = [x9 EXCEPT ![e] = d]
      BY <3>1 DEF Hook!Failed
    <3>3. /\ x9' \in [Event -> {"none", "pending", "running", "done", "dead"}]
          /\ \A f \in Event : x9'[f] = "done" => f \in x11'
      BY <3>1, <3>2, DeliveryChanges
    <3> QED
      BY <2>1, <3>3 DEF Hook!RelayInv
  <2> QED BY <2>2, <2>3
<1>4. ASSUME \/ Hook!SendersFollow \/ Hook!CreateWebhook \/ Hook!DeactivateWebhook \/ Hook!SecretRemoved
             \/ (\E s \in {"unset", "v1", "v2"} : Hook!ChangeSecret(s)) \/ UNCHANGED Hook!vars
      PROVE  Hook!RelayInv'
  <2>1. /\ x1' = x1 /\ x4' = x4 /\ x5' = x5 /\ x6' = x6 /\ x9' = x9 /\ x11' = x11 /\ (x3' = x3 \/ x3' = "v2")
    BY <1>4 DEF Hook!SendersFollow, Hook!CreateWebhook, Hook!DeactivateWebhook, Hook!SecretRemoved, Hook!ChangeSecret,
                Hook!inbox, Hook!webhook, Hook!vars
  <2> QED
    BY <2>1 DEF Hook!RelayInv
<1> QED
  BY <1>1, <1>2, <1>3, <1>4, RelayAccept, RelaySweep, RelaySign DEF Hook!Next

(* The addresses. *)

Byte == 0 .. 255
Address4 == Byte \X Byte \X Byte \X Byte
Group == 0 .. 65535
Address6 == [1 .. 8 -> Group]

\* Where an address of four bytes lies, read off its number.
LEMMA ReadOff ==
    ASSUME NEW a \in Byte, NEW b \in Byte, NEW c \in Byte, NEW n \in Nat, n = a * 65536 + b * 256 + c
    PROVE  /\ n < 65536 <=> a = 0
           /\ 655360 <= n /\ n < 720896 <=> a = 10
           /\ 8323072 <= n /\ n < 8388608 <=> a = 127
           /\ 14680064 <= n /\ n < 16777216 <=> a >= 224
           /\ 6569984 <= n /\ n < 6586368 <=> a = 100 /\ b \in 64 .. 127
           /\ 11140608 <= n /\ n < 11140864 <=> a = 169 /\ b = 254
           /\ 11276288 <= n /\ n < 11280384 <=> a = 172 /\ b \in 16 .. 31
           /\ 12625920 <= n /\ n < 12626176 <=> a = 192 /\ b = 168
           /\ 12582912 <= n /\ n < 12582913 <=> a = 192 /\ b = 0 /\ c = 0
           /\ 12980736 <= n /\ n < 12981248 <=> a = 198 /\ b \in {18, 19}
<1>1. a \in Int /\ b \in Int /\ c \in Int /\ 0 <= a /\ a <= 255 /\ 0 <= b /\ b <= 255 /\ 0 <= c /\ c <= 255
  BY DEF Byte
<1>2. n < 65536 <=> a = 0
  BY <1>1
<1>3. 655360 <= n /\ n < 720896 <=> a = 10
  BY <1>1
<1>4. 8323072 <= n /\ n < 8388608 <=> a = 127
  BY <1>1
<1>5. 14680064 <= n /\ n < 16777216 <=> a >= 224
  BY <1>1
<1>6. 6569984 <= n /\ n < 6586368 <=> a = 100 /\ b \in 64 .. 127
  BY <1>1
<1>7. 11140608 <= n /\ n < 11140864 <=> a = 169 /\ b = 254
  BY <1>1
<1>8. 11276288 <= n /\ n < 11280384 <=> a = 172 /\ b \in 16 .. 31
  BY <1>1
<1>9. 12625920 <= n /\ n < 12626176 <=> a = 192 /\ b = 168
  BY <1>1
<1>10. 12582912 <= n /\ n < 12582913 <=> a = 192 /\ b = 0 /\ c = 0
  BY <1>1
<1>11. 12980736 <= n /\ n < 12981248 <=> a = 198 /\ b \in {18, 19}
  BY <1>1
<1> QED
  BY <1>2, <1>3, <1>4, <1>5, <1>6, <1>7, <1>8, <1>9, <1>10, <1>11

\* The comparisons of isBlockedIpv4 are those with the first and the last address
\* of each block.
LEMMA BlocksAreCompared ==
    ASSUME NEW p \in Address4
    PROVE  Hook!IsBlockedIpv4(p) <=> \E b \in Hook!Block : Hook!InBlock(p, b)
<1>1. p[1] \in Byte /\ p[2] \in Byte /\ p[3] \in Byte
  BY DEF Address4
<1>a. ASSUME NEW a \in Byte, NEW c \in Byte, NEW d \in Byte
      PROVE  a * 65536 + c * 256 + d \in Nat
  BY DEF Byte
<1>b. PICK a \in Byte, c \in Byte, d \in Byte : a = p[1] /\ c = p[2] /\ d = p[3]
  BY <1>1
<1>c. Hook!Network(p) = a * 65536 + c * 256 + d
  BY <1>b DEF Hook!Network
<1>2. Hook!Network(p) \in Nat
  BY <1>a, <1>c
<1>3. ASSUME NEW n \in Nat, n = Hook!Network(p)
      PROVE  Hook!IsBlockedIpv4(p) <=> \E b \in Hook!Block : Hook!InBlock(p, b)
  <2>1. \A u, v, w, s : Hook!InBlock(p, <<u, v, w, s>>)
          <=> u * 65536 + v * 256 + w <= n /\ n < u * 65536 + v * 256 + w + s
    BY <1>3 DEF Hook!InBlock, Hook!Network
  <2>2. (\E b \in Hook!Block : Hook!InBlock(p, b)) <=>
          \/ Hook!InBlock(p, <<0, 0, 0, 65536>>) \/ Hook!InBlock(p, <<10, 0, 0, 65536>>)
          \/ Hook!InBlock(p, <<127, 0, 0, 65536>>) \/ Hook!InBlock(p, <<100, 64, 0, 16384>>)
          \/ Hook!InBlock(p, <<169, 254, 0, 256>>) \/ Hook!InBlock(p, <<172, 16, 0, 4096>>)
          \/ Hook!InBlock(p, <<192, 168, 0, 256>>) \/ Hook!InBlock(p, <<192, 0, 0, 1>>)
          \/ Hook!InBlock(p, <<198, 18, 0, 512>>) \/ Hook!InBlock(p, <<224, 0, 0, 2097152>>)
    BY DEF Hook!Block
  <2>3. /\ Hook!InBlock(p, <<0, 0, 0, 65536>>) <=> n < 65536
        /\ Hook!InBlock(p, <<10, 0, 0, 65536>>) <=> 655360 <= n /\ n < 720896
    BY <2>1
  <2>4. /\ Hook!InBlock(p, <<127, 0, 0, 65536>>) <=> 8323072 <= n /\ n < 8388608
        /\ Hook!InBlock(p, <<100, 64, 0, 16384>>) <=> 6569984 <= n /\ n < 6586368
    BY <2>1
  <2>5. /\ Hook!InBlock(p, <<169, 254, 0, 256>>) <=> 11140608 <= n /\ n < 11140864
        /\ Hook!InBlock(p, <<172, 16, 0, 4096>>) <=> 11276288 <= n /\ n < 11280384
    BY <2>1
  <2>6. /\ Hook!InBlock(p, <<192, 168, 0, 256>>) <=> 12625920 <= n /\ n < 12626176
        /\ Hook!InBlock(p, <<192, 0, 0, 1>>) <=> 12582912 <= n /\ n < 12582913
    BY <2>1
  <2>7. /\ Hook!InBlock(p, <<198, 18, 0, 512>>) <=> 12980736 <= n /\ n < 12981248
        /\ Hook!InBlock(p, <<224, 0, 0, 2097152>>) <=> 14680064 <= n /\ n < 16777216
    BY <2>1
  <2>10. Hook!IsBlockedIpv4(p) <=>
           \/ a = 0 \/ a = 10 \/ a = 127 \/ a >= 224 \/ (a = 100 /\ c \in 64 .. 127) \/ (a = 169 /\ c = 254)
           \/ (a = 172 /\ c \in 16 .. 31) \/ (a = 192 /\ c = 168) \/ (a = 192 /\ c = 0 /\ d = 0)
           \/ (a = 198 /\ c \in {18, 19})
    BY <1>b DEF Hook!IsBlockedIpv4
  <2> QED
    BY <2>2, <2>3, <2>4, <2>5, <2>6, <2>7, <1>3, <1>c, <2>10, ReadOff
<1> QED
  BY <1>2, <1>3

\* What parseIpv6 makes of a text with a gap: the groups before it, the zeros
\* that are missing, the groups after it.
LEMMA ParsedByGroups ==
    ASSUME NEW text, NEW head \in Seq(Nat), NEW tail \in Seq(Nat),
           text.gap = TRUE, text.head = head, text.tail = tail, Len(head) + Len(tail) < 8
    PROVE  /\ Hook!ParseIpv6(text) \in Seq(Nat) /\ Len(Hook!ParseIpv6(text)) = 8
           /\ \A i \in 1 .. 8 :
                /\ i <= Len(head) => Hook!ParseIpv6(text)[i] = head[i]
                /\ i > Len(head) /\ i <= 8 - Len(tail) => Hook!ParseIpv6(text)[i] = 0
                /\ i > 8 - Len(tail) => Hook!ParseIpv6(text)[i] = tail[i - (8 - Len(tail))]
<1> DEFINE m == 8 - Len(head) - Len(tail)
           zeros == [i \in 1 .. m |-> 0]
<1>1. ASSUME NEW l \in Nat, NEW k \in Nat, l + k < 8
      PROVE  8 - l - k \in Nat /\ l + (8 - l - k) + k = 8 /\ ~ (8 - l - k < 1)
  BY <1>1
<1>2. m \in Nat /\ Len(head) + m + Len(tail) = 8 /\ ~ (m < 1)
  <2>1. Len(head) \in Nat /\ Len(tail) \in Nat
    OBVIOUS
  <2> QED BY <1>1, <2>1, Zenon
<1>3. Hook!ParseIpv6(text) = (head \o zeros) \o tail
  <2>1. Hook!ParseIpv6(text) = IF m < 1 THEN Hook!Malformed ELSE (head \o zeros) \o tail
    BY DEF Hook!ParseIpv6
  <2> HIDE DEF m, zeros
  <2> QED BY <1>2, <2>1
<1> HIDE DEF m
<1>4. zeros \in Seq(Nat) /\ Len(zeros) = m /\ \A i \in 1 .. m : zeros[i] = 0
  BY <1>2
<1> HIDE DEF zeros
<1>5. zeros \in Seq(Nat) /\ Len(head) + Len(zeros) + Len(tail) = 8 /\ \A i \in 1 .. Len(zeros) : zeros[i] = 0
  BY <1>2, <1>4
<1>6. /\ (head \o zeros) \o tail \in Seq(Nat) /\ Len((head \o zeros) \o tail) = 8
      /\ \A i \in 1 .. 8 :
           /\ i <= Len(head) => ((head \o zeros) \o tail)[i] = head[i]
           /\ i > Len(head) /\ i <= 8 - Len(tail) => ((head \o zeros) \o tail)[i] = 0
           /\ i > 8 - Len(tail) => ((head \o zeros) \o tail)[i] = tail[i - (8 - Len(tail))]
  <2>0. Len(head) \in Nat /\ Len(zeros) \in Nat /\ Len(tail) \in Nat
    BY <1>5
  <2>1. PICK l \in Nat, n \in Nat, k \in Nat :
          l = Len(head) /\ n = Len(zeros) /\ k = Len(tail) /\ l + n + k = 8 /\ \A i \in 1 .. n : zeros[i] = 0
    BY <1>5, <2>0
  <2>2. /\ head \o zeros \in Seq(Nat) /\ Len(head \o zeros) = l + n
        /\ \A i \in 1 .. l + n : (head \o zeros)[i] = IF i <= l THEN head[i] ELSE zeros[i - l]
    BY <1>5, <2>1, ConcatProperties
  <2>3. ASSUME NEW q \in Seq(Nat), Len(q) = l + n
        PROVE  /\ q \o tail \in Seq(Nat) /\ Len(q \o tail) = l + n + k
               /\ \A i \in 1 .. l + n + k : (q \o tail)[i] = IF i <= l + n THEN q[i] ELSE tail[i - (l + n)]
    BY <2>1, <2>3, ConcatProperties
  <2>4. /\ (head \o zeros) \o tail \in Seq(Nat) /\ Len((head \o zeros) \o tail) = 8
        /\ \A i \in 1 .. 8 :
             ((head \o zeros) \o tail)[i] = IF i <= l + n THEN (head \o zeros)[i] ELSE tail[i - (l + n)]
    <3>1. /\ (head \o zeros) \o tail \in Seq(Nat) /\ Len((head \o zeros) \o tail) = l + n + k
          /\ \A i \in 1 .. l + n + k :
               ((head \o zeros) \o tail)[i] = IF i <= l + n THEN (head \o zeros)[i] ELSE tail[i - (l + n)]
      BY <2>2, <2>3, Zenon
    <3> QED BY <2>1, <3>1, Zenon
  <2>5. l + n = 8 - k
    BY <2>1
  <2>6. ASSUME NEW i \in 1 .. 8
        PROVE  /\ i <= l => ((head \o zeros) \o tail)[i] = head[i]
               /\ i > l /\ i <= 8 - k => ((head \o zeros) \o tail)[i] = 0
               /\ i > 8 - k => ((head \o zeros) \o tail)[i] = tail[i - (8 - k)]
    <3>1. ((head \o zeros) \o tail)[i] = IF i <= 8 - k THEN (head \o zeros)[i] ELSE tail[i - (8 - k)]
      BY <2>4, <2>5, Zenon
    <3>2. ASSUME i <= l PROVE ((head \o zeros) \o tail)[i] = head[i]
      BY <2>1, <2>2, <2>5, <3>1, <3>2
    <3>3. ASSUME i > l, i <= 8 - k PROVE ((head \o zeros) \o tail)[i] = 0
      <4>1. i - l \in 1 .. n /\ i \in 1 .. l + n
        BY <2>1, <2>5, <3>3
      <4>2. (head \o zeros)[i] = zeros[i - l]
        BY <2>1, <2>2, <3>3, <4>1
      <4> QED BY <2>1, <3>1, <3>3, <4>1, <4>2
    <3>4. ASSUME i > 8 - k PROVE ((head \o zeros) \o tail)[i] = tail[i - (8 - k)]
      BY <2>1, <3>1, <3>4
    <3> QED BY <3>2, <3>3, <3>4, Zenon
  <2> QED
    BY <2>1, <2>4, <2>6, Zenon
<1> QED
  BY <1>3, <1>6, Zenon

\* An abbreviation loses nothing.
LEMMA AbbreviatedAlike == ASSUME NEW h \in Address6 PROVE Hook!Judged6(h)
<1> SUFFICES ASSUME NEW i \in 0 .. 7, NEW j \in 2 .. 9, i + 1 < j, Hook!Zeros(h, i + 1, j - 1)
             PROVE  Hook!ParseIpv6([head |-> SubSeq(h, 1, i), tail |-> SubSeq(h, j, 8), gap |-> TRUE]) = h
  BY Zenon DEF Hook!Judged6
<1> DEFINE head == SubSeq(h, 1, i)
           tail == SubSeq(h, j, 8)
           text == [head |-> head, tail |-> tail, gap |-> TRUE]
           g == Hook!ParseIpv6(text)
<1>1. h \in [1 .. 8 -> Nat]
  <2>1. Group \subseteq Nat
    BY DEF Group
  <2> QED BY <2>1 DEF Address6
<1>2. h \in Seq(Nat) /\ Len(h) = 8
  <2>1. h \in UNION {[1 .. n -> Nat] : n \in Nat}
    BY <1>1
  <2>2. h \in Seq(Nat)
    BY <2>1, SeqDef, Zenon
  <2> QED BY <1>1, <2>2
<1>3. head \in Seq(Nat) /\ Len(head) = i /\ \A k \in 1 .. i : head[k] = h[k]
  <2>1. \A k \in 1 .. i : h[k] \in Nat
    BY <1>1
  <2>2. /\ SubSeq(h, 1, i) \in Seq(Nat) /\ Len(SubSeq(h, 1, i)) = (IF 1 <= i THEN i - 1 + 1 ELSE 0)
        /\ \A k \in 1 .. i - 1 + 1 : SubSeq(h, 1, i)[k] = h[1 + k - 1]
    BY <2>1, SubSeqProperties
  <2> QED BY <2>2
<1>4. tail \in Seq(Nat) /\ Len(tail) = 9 - j /\ \A k \in 1 .. 9 - j : tail[k] = h[j + k - 1]
  <2>1. \A k \in j .. 8 : h[k] \in Nat
    BY <1>1
  <2>2. /\ SubSeq(h, j, 8) \in Seq(Nat) /\ Len(SubSeq(h, j, 8)) = (IF j <= 8 THEN 8 - j + 1 ELSE 0)
        /\ \A k \in 1 .. 8 - j + 1 : SubSeq(h, j, 8)[k] = h[j + k - 1]
    BY <2>1, SubSeqProperties
  <2> QED BY <2>2
<1>5. text.gap = TRUE /\ text.head = head /\ text.tail = tail
  OBVIOUS
<1> HIDE DEF head, tail, text
<1>6. Len(head) + Len(tail) < 8
  BY <1>3, <1>4
<1>7. /\ g \in Seq(Nat) /\ Len(g) = 8
      /\ \A k \in 1 .. 8 : /\ k <= Len(head) => g[k] = head[k]
                           /\ k > Len(head) /\ k <= 8 - Len(tail) => g[k] = 0
                           /\ k > 8 - Len(tail) => g[k] = tail[k - (8 - Len(tail))]
  BY <1>3, <1>4, <1>5, <1>6, ParsedByGroups, Zenon
<1> HIDE DEF g
<1>8. \A k \in 1 .. 8 : /\ k <= i => g[k] = head[k]
                        /\ k > i /\ k <= j - 1 => g[k] = 0
                        /\ k > j - 1 => g[k] = tail[k - (j - 1)]
  <2>1. 8 - (9 - j) = j - 1
    OBVIOUS
  <2>2. Len(head) = i /\ 8 - Len(tail) = j - 1
    BY <1>3, <1>4, <2>1, Zenon
  <2> QED BY <1>7, <2>2, Zenon
<1>9. ASSUME NEW k \in 1 .. 8 PROVE g[k] = h[k]
  <2>1. ASSUME k <= i PROVE g[k] = h[k]
    BY <1>3, <1>8, <2>1
  <2>2. ASSUME k > i, k <= j - 1 PROVE g[k] = h[k]
    <3>1. k \in (i + 1) .. (j - 1)
      BY <2>2
    <3>2. h[k] = 0
      BY <3>1, Zenon DEF Hook!Zeros
    <3>3. g[k] = 0
      BY <1>8, <2>2, Zenon
    <3> QED BY <3>2, <3>3
  <2>3. ASSUME k > j - 1 PROVE g[k] = h[k]
    <3>1. k - (j - 1) \in 1 .. 9 - j /\ j + (k - (j - 1)) - 1 = k
      BY <2>3
    <3>2. g[k] = tail[k - (j - 1)]
      BY <1>8, <2>3, Zenon
    <3>3. tail[k - (j - 1)] = h[j + (k - (j - 1)) - 1]
      BY <1>4, <3>1, Zenon
    <3> QED BY <3>1, <3>2, <3>3
  <2>4. k <= i \/ (k > i /\ k <= j - 1) \/ k > j - 1
    OBVIOUS
  <2> QED BY <2>1, <2>2, <2>3, <2>4, Zenon
<1>10. g = h
  BY <1>2, <1>7, <1>9, SeqEqual
<1> QED BY <1>10 DEF g, text, head, tail

\* An address is judged the same as an IPv4-mapped IPv6 address.
LEMMA MappedAlike ==
    ASSUME NEW a \in Byte, NEW b \in Byte, NEW c \in Byte, NEW d \in Byte
    PROVE  \A text : text = [head |-> <<>>, tail |-> <<65535, a * 256 + b, c * 256 + d>>, gap |-> TRUE] =>
             /\ Hook!ParseIpv6(text) # Hook!Malformed
             /\ Hook!IsBlockedIpv6(Hook!ParseIpv6(text)) <=> Hook!IsBlockedIpv4(<<a, b, c, d>>)
<1>1. a * 256 + b \in Nat /\ (a * 256 + b) \div 256 = a /\ (a * 256 + b) % 256 = b
  BY DEF Byte
<1>2. c * 256 + d \in Nat /\ (c * 256 + d) \div 256 = c /\ (c * 256 + d) % 256 = d
  BY DEF Byte
<1>3. PICK m \in Nat, n \in Nat : m = a * 256 + b /\ n = c * 256 + d
  BY <1>1, <1>2
<1>4. m \div 256 = a /\ m % 256 = b /\ n \div 256 = c /\ n % 256 = d
  BY <1>1, <1>2, <1>3
<1> DEFINE head == <<>>
           tail == <<65535, m, n>>
<1>5. head \in Seq(Nat) /\ Len(head) = 0
  OBVIOUS
<1>6. tail \in Seq(Nat) /\ Len(tail) = 3 /\ tail[1] = 65535 /\ tail[2] = m /\ tail[3] = n
  OBVIOUS
<1> HIDE DEF head, tail
<1>8. Len(head) + Len(tail) < 8 /\ 8 - Len(tail) = 5 /\ tail \in Seq(Nat) /\ head \in Seq(Nat) /\ Len(head) = 0
  BY <1>5, <1>6
<1>9. ASSUME NEW text, text = [head |-> <<>>, tail |-> <<65535, a * 256 + b, c * 256 + d>>, gap |-> TRUE],
             NEW h, h = Hook!ParseIpv6(text)
      PROVE  /\ h \in Seq(Nat) /\ Len(h) = 8
             /\ h[1] = 0 /\ h[2] = 0 /\ h[3] = 0 /\ h[4] = 0 /\ h[5] = 0
             /\ h[6] = 65535 /\ h[7] = m /\ h[8] = n
  <2>0. text.gap = TRUE /\ text.head = head /\ text.tail = tail
    BY <1>3, <1>9 DEF head, tail
  <2>1. /\ Hook!ParseIpv6(text) \in Seq(Nat) /\ Len(Hook!ParseIpv6(text)) = 8
        /\ \A k \in 1 .. 8 :
             /\ k <= Len(head) => Hook!ParseIpv6(text)[k] = head[k]
             /\ k > Len(head) /\ k <= 8 - Len(tail) => Hook!ParseIpv6(text)[k] = 0
             /\ k > 8 - Len(tail) => Hook!ParseIpv6(text)[k] = tail[k - (8 - Len(tail))]
    <3>1. head \in Seq(Nat) /\ tail \in Seq(Nat) /\ Len(head) + Len(tail) < 8
      BY <1>8
    <3>2. text.gap = TRUE /\ text.head = head /\ text.tail = tail
      BY <2>0
    <3> QED BY <3>1, <3>2, ParsedByGroups, Zenon
  <2>2. \A k \in 1 .. 8 : (k > 0 /\ k <= 5 => h[k] = 0) /\ (k > 5 => h[k] = tail[k - 5])
    <3>1. Len(head) = 0 /\ 8 - Len(tail) = 5
      BY <1>8
    <3>2. \A k \in 1 .. 8 : (k > 0 /\ k <= 5 => Hook!ParseIpv6(text)[k] = 0)
                         /\ (k > 5 => Hook!ParseIpv6(text)[k] = tail[k - 5])
      BY <2>1, <3>1, Zenon
    <3>3. h = Hook!ParseIpv6(text)
      BY <1>9
    <3> QED BY <3>2, <3>3, Zenon
  <2>3. h[6] = tail[6 - 5] /\ h[7] = tail[7 - 5] /\ h[8] = tail[8 - 5] /\ 6 - 5 = 1 /\ 7 - 5 = 2 /\ 8 - 5 = 3
    BY <2>2
  <2>4. h[1] = 0 /\ h[2] = 0 /\ h[3] = 0 /\ h[4] = 0 /\ h[5] = 0
    BY <2>2
  <2> QED BY <1>6, <1>9, <2>1, <2>3, <2>4
<1>10. ASSUME NEW text, text = [head |-> <<>>, tail |-> <<65535, a * 256 + b, c * 256 + d>>, gap |-> TRUE],
              NEW h, h = Hook!ParseIpv6(text)
       PROVE  h # Hook!Malformed /\ (Hook!IsBlockedIpv6(h) <=> Hook!IsBlockedIpv4(<<a, b, c, d>>))
  <2>1. /\ h \in Seq(Nat) /\ Len(h) = 8
        /\ h[1] = 0 /\ h[2] = 0 /\ h[3] = 0 /\ h[4] = 0 /\ h[5] = 0
        /\ h[6] = 65535 /\ h[7] = m /\ h[8] = n
    BY <1>9, <1>10
  <2>3. Hook!Zeros(h, 1, 5) /\ ~ Hook!Zeros(h, 1, 7)
    BY <2>1 DEF Hook!Zeros
  <2>4. ~ (h[1] \div 512 = 126) /\ ~ (h[1] \div 64 = 1018) /\ ~ (h[1] \div 256 = 255)
        /\ ~ (h[1] = 8193 /\ h[2] = 3512) /\ ~ (h[1] = 100 /\ h[2] = 65435)
    BY <2>1
  <2>5. <<h[7] \div 256, h[7] % 256, h[8] \div 256, h[8] % 256>> = <<a, b, c, d>>
    BY <1>4, <2>1
  <2>6. Hook!IsBlockedIpv6(h) <=> Hook!IsBlockedIpv4(<<h[7] \div 256, h[7] % 256, h[8] \div 256, h[8] % 256>>)
    BY <2>1, <2>3, <2>4 DEF Hook!IsBlockedIpv6
  <2>7. Hook!IsBlockedIpv6(h) <=> Hook!IsBlockedIpv4(<<a, b, c, d>>)
    BY <2>5, <2>6
  <2>8. h # Hook!Malformed
    <3>1. h = <<>> => Len(h) = 0
      OBVIOUS
    <3>2. Len(h) # 0
      BY <2>1
    <3> QED BY <3>1, <3>2 DEF Hook!Malformed
  <2> QED BY <2>7, <2>8
<1> QED
  BY <1>10

\* Every IPv4 address is judged by the blocks, however it is written.
LEMMA JudgedByBlocks == ASSUME NEW p \in Address4 PROVE Hook!Judged4(p)
<1> DEFINE url(kind, host) == [scheme |-> "https", credentials |-> FALSE, kind |-> kind, host |-> host]
<1>0. p[1] \in Byte /\ p[2] \in Byte /\ p[3] \in Byte /\ p[4] \in Byte /\ p = <<p[1], p[2], p[3], p[4]>>
  BY DEF Address4
<1>a. PICK a \in Byte, b \in Byte, c \in Byte, d \in Byte : a = p[1] /\ b = p[2] /\ c = p[3] /\ d = p[4]
  BY <1>0
<1> DEFINE groups == [head |-> <<>>, tail |-> <<65535, a * 256 + b, c * 256 + d>>, gap |-> TRUE]
<1>b. PICK mapped : mapped = groups
  <2> HIDE DEF groups
  <2> QED OBVIOUS
<1>c. mapped = [head |-> <<>>, tail |-> <<65535, p[1] * 256 + p[2], p[3] * 256 + p[4]>>, gap |-> TRUE]
  BY <1>a, <1>b
<1>1. Hook!ValidateWebhookUrl(url("v4", p)) <=> ~ Hook!IsBlockedIpv4(p)
  BY DEF Hook!ValidateWebhookUrl
<1>2. Hook!ValidateWebhookUrl(url("v6", mapped)) <=>
        Hook!ParseIpv6(mapped) # Hook!Malformed /\ ~ Hook!IsBlockedIpv6(Hook!ParseIpv6(mapped))
  BY DEF Hook!ValidateWebhookUrl
<1>3. Hook!ParseIpv6(mapped) # Hook!Malformed /\ (Hook!IsBlockedIpv6(Hook!ParseIpv6(mapped)) <=> Hook!IsBlockedIpv4(p))
  <2>1. p = <<a, b, c, d>>
    BY <1>0, <1>a
  <2>2. /\ Hook!ParseIpv6(mapped) # Hook!Malformed
        /\ Hook!IsBlockedIpv6(Hook!ParseIpv6(mapped)) <=> Hook!IsBlockedIpv4(<<a, b, c, d>>)
    BY <1>b, MappedAlike
  <2> QED BY <2>1, <2>2
<1>4. Hook!IsBlockedIpv4(p) <=> \E k \in Hook!Block : Hook!InBlock(p, k)
  BY BlocksAreCompared
<1>5. Hook!ValidateWebhookUrl(url("v4", p)) <=> ~ \E k \in Hook!Block : Hook!InBlock(p, k)
  BY <1>1, <1>4, Zenon
<1>6. Hook!ValidateWebhookUrl(url("v6", mapped)) <=> Hook!ValidateWebhookUrl(url("v4", p))
  BY <1>1, <1>2, <1>3
<1> QED
  BY <1>5, <1>6, <1>c DEF Hook!Judged4

\* The addresses that the run tries are addresses, so they are judged as the blocks say.
LEMMA AddressesAreJudged == ASSUME x1 \in Address PROVE Hook!Judged4(x1.v4) /\ Hook!Judged6(x1.v6)
<1>1. x1.v4 \in Address4
  <2>1. Octet \subseteq Byte /\ {0, 1, 255} \subseteq Byte /\ {1} \subseteq Byte /\ 8 \in Byte
    BY DEF Octet, Byte
  <2>2. x1.v4 \in Octet \X Octet \X {0, 1, 255} \X {1} \/ x1.v4 = <<8, 8, 8, 8>>
    <3> HIDE DEF Octet
    <3> QED BY DEF Address
  <2> QED BY <2>1, <2>2 DEF Address4
<1>2. x1.v6 \in Address6
  <2>1. Loopback \in Address6
    BY DEF Loopback, Address6, Group
  <2>2. [1 .. 8 -> {0, 1}] \subseteq Address6
    <3>1. {0, 1} \subseteq Group
      BY DEF Group
    <3> QED BY <3>1, Zenon DEF Address6
  <2> QED BY <2>1, <2>2 DEF Address
<1> QED BY <1>1, <1>2, JudgedByBlocks, AbbreviatedAlike

-----------------------------------------------------------------------------
(* The pushes of the page's stores: x9 is the clock, x10 the number of      *)
(* writes and x11 their times, x13 the next heartbeat, x14 the posts and    *)
(* x15 the last write seen.                                                 *)
\* A table of a migration, whose name sorts before those of its parents.
Parents == [invites |-> {"organizations", "users"}, users |-> {"organizations"}, organizations |-> {}]
Dev == INSTANCE DevRoutes WITH
        Account <- {"a"}, Names <- <<"invites", "organizations", "users">>, Refs <- Parents, Late <- {"invites"},
        MaxSnapshots <- 1, MaxChanges <- MaxStores, MaxTime <- PanelTime,
        schema <- x1, db <- x2, login <- x3, snap <- x4, file <- x5, written <- x6, reply <- x7,
        snapshots <- x8, now <- x9, value <- x10, changed <- x11, timer <- x12, beat <- x13, posts <- x14,
        seen <- x15

\* No write is made before the first heartbeat, which is to come in time.
LEMMA PanelStarts == Dev!Init => Dev!PanelInv
  BY PanelAssumption DEF Dev!Init, Dev!PanelInv

\* Every step of the panel keeps the writes on their way.
LEMMA PanelStep ==
    ASSUME Dev!PanelInv, [Dev!Panel]_(Dev!vars)
    PROVE  Dev!PanelInv'
<1> USE PanelAssumption
<1>0. /\ x9 \in Nat /\ x10 \in Nat /\ x15 \in Nat /\ x11 \in Seq(Nat) /\ Len(x11) = x10
      /\ x13 \in Nat /\ x9 <= x13 /\ x13 <= x9 + Heartbeat
      /\ \A n \in 1 .. x10 : x11[n] \in Nat /\ x11[n] <= x9
  BY DEF Dev!PanelInv
<1>1. ASSUME NEW top \in BOOLEAN, Dev!StoreWrite(top) PROVE Dev!PanelInv'
  <2>1. /\ x10' = x10 + 1 /\ x11' = Append(x11, x9) /\ x9' = x9 /\ x13' = x13 /\ x14' = x14 /\ x15' = x15
    BY <1>1 DEF Dev!StoreWrite
  <2>2. /\ x11' \in Seq(Nat) /\ Len(x11') = x10' /\ x10' \in Nat /\ x11'[x10'] = x9
        /\ \A n \in 1 .. x10 : x11'[n] = x11[n]
    BY <1>0, <2>1
  <2>3. \A n \in 1 .. x10' : n \in 1 .. x10 \/ n = x10'
    BY <1>0, <2>1
  <2> QED BY <1>0, <2>1, <2>2, <2>3 DEF Dev!PanelInv
<1>2. ASSUME Dev!Push, x9' = x9, x10' = x10, x11' = x11, x15' = x15,
             x13' = x13 \/ (x13 = x9 /\ x13' = x9 + Heartbeat)
      PROVE  Dev!PanelInv'
  <2> DEFINE new == [carries |-> x10, sent |-> x9]
  <2>1. x14' = x14 \cup {new} /\ new.carries = x10 /\ new.sent = x9
    BY <1>2 DEF Dev!Push
  <2> HIDE DEF new
  <2>2. \A p \in x14' : /\ p.carries \in Nat /\ p.sent \in Nat /\ p.sent <= x9' /\ x9' <= p.sent + Latency
                        /\ \A n \in 1 .. x10' : p.carries < n => p.sent <= x11'[n]
    BY <1>0, <1>2, <2>1 DEF Dev!PanelInv
  <2>3. ASSUME NEW n \in 1 .. x10, x9 > x11[n] + Latency
        PROVE  \/ n <= x15 \/ x13' <= x11[n] + Latency + Heartbeat
               \/ \E p \in x14' : n <= p.carries /\ p.sent <= x11[n] + Latency + Heartbeat
    <3>1. \/ n <= x15 \/ x13 <= x11[n] + Latency + Heartbeat
          \/ \E p \in x14 : n <= p.carries /\ p.sent <= x11[n] + Latency + Heartbeat
      BY <2>3 DEF Dev!PanelInv
    <3> QED BY <1>0, <1>2, <2>1, <3>1
  <2>4. x13' \in Nat /\ x9' <= x13' /\ x13' <= x9' + Heartbeat
    BY <1>0, <1>2
  <2> QED BY <1>0, <1>2, <2>2, <2>3, <2>4 DEF Dev!PanelInv
<1>3. ASSUME Dev!PanelTick PROVE Dev!PanelInv'
  <2>1. /\ x9' = x9 + 1 /\ x10' = x10 /\ x11' = x11 /\ x13' = x13 /\ x14' = x14 /\ x15' = x15 /\ x13 # x9
        /\ \A p \in x14 : x9 < p.sent + Latency
    BY <1>3 DEF Dev!PanelTick
  <2>2. \A p \in x14 : /\ p.carries \in Nat /\ p.sent \in Nat /\ p.sent <= x9' /\ x9' <= p.sent + Latency
                       /\ \A n \in 1 .. x10 : p.carries < n => p.sent <= x11[n]
    BY <1>0, <2>1 DEF Dev!PanelInv
  <2>3. ASSUME NEW n \in 1 .. x10, x9' > x11[n] + Latency
        PROVE  \/ n <= x15 \/ x13 <= x11[n] + Latency + Heartbeat
               \/ \E p \in x14 : n <= p.carries /\ p.sent <= x11[n] + Latency + Heartbeat
    <3>1. CASE x9 > x11[n] + Latency
      BY <3>1 DEF Dev!PanelInv
    <3>2. CASE ~ (x9 > x11[n] + Latency)
      BY <1>0, <2>1, <2>3, <3>2
    <3> QED BY <3>1, <3>2
  <2> QED BY <1>0, <2>1, <2>2, <2>3 DEF Dev!PanelInv
<1>4. ASSUME NEW p \in x14, Dev!AppStateArrives(p) PROVE Dev!PanelInv'
  <2>1. /\ x9' = x9 /\ x10' = x10 /\ x11' = x11 /\ x13' = x13 /\ x14' = x14 \ {p} /\ x15' = p.carries
    BY <1>4 DEF Dev!AppStateArrives
  <2>2. p.carries \in Nat /\ p.sent \in Nat /\ x9 <= p.sent + Latency /\ \A n \in 1 .. x10 : p.carries < n => p.sent <= x11[n]
    BY DEF Dev!PanelInv
  <2>3. \A n \in 1 .. x10 : x9 > x11[n] + Latency => n <= p.carries
    BY <1>0, <2>2
  <2> QED BY <1>0, <2>1, <2>2, <2>3 DEF Dev!PanelInv
<1>5. CASE UNCHANGED Dev!vars
  BY <1>5 DEF Dev!PanelInv, Dev!vars, Dev!database, Dev!panel
<1> QED
  BY <1>1, <1>2, <1>3, <1>4, <1>5 DEF Dev!Panel, Dev!TimerFires, Dev!HeartbeatFires

\* Writes on their way are seen in time.
LEMMA PanelHolds == Dev!PanelInv => Dev!ChangesAreSeen
<1> SUFFICES ASSUME Dev!PanelInv, NEW n \in 1 .. x10, x9 > x11[n] + Heartbeat + 2 * Latency
             PROVE  n <= x15
  BY DEF Dev!ChangesAreSeen
<1>1. x9 \in Nat /\ x11[n] \in Nat /\ x13 \in Nat /\ x9 <= x13
  BY DEF Dev!PanelInv
<1>2. x9 > x11[n] + Latency /\ ~ (x13 <= x11[n] + Latency + Heartbeat)
  BY <1>1, PanelAssumption
<1>3. ASSUME NEW p \in x14, p.sent <= x11[n] + Latency + Heartbeat PROVE FALSE
  BY <1>1, <1>3, PanelAssumption DEF Dev!PanelInv
<1> QED
  BY <1>2, <1>3 DEF Dev!PanelInv

-----------------------------------------------------------------------------
(* The trail of a page: x1 is the queue, x2 and x3 its timer, x4 the number *)
(* of crumbs, x6 the page, x10 the clock, x11 the batches under way, x12    *)
(* whether the process may write, x14 and x15 the journal and its rotated   *)
(* files, x16 the requests.                                                 *)
Crumbs == INSTANCE Breadcrumbs WITH
        Throttle <- Pause, MaxTime <- TrailTime,
        queue <- x1, handle <- x2, due <- x3, recorded <- x4, acts <- x5, page <- x6, calls <- x7,
        lastEmit <- x8, routeDue <- x9, now <- x10, wire <- x11, writable <- x12, disabled <- x13,
        journal <- x14, rotated <- x15, requests <- x16

\* A batch of newer crumbs joins those under way.
LEMMA BatchJoins ==
    ASSUME NEW w, NEW lines \in Seq(Nat), NEW sent \in Nat, Crumbs!Apart(w, lines, sent),
           NEW to \in Nat, sent <= to,
           NEW pack \in Seq(Nat), Len(pack) <= Cap, Len(pack) = to - sent,
           \A i \in DOMAIN pack : pack[i] = sent + i
    PROVE  Crumbs!Apart(w \cup {pack}, lines, to)
<1>1. /\ \A b \in w :
           /\ b \in Seq(Nat) /\ Len(b) <= Cap
           /\ \A i \in DOMAIN b : 0 < b[i] /\ b[i] <= sent
           /\ \A i, j \in DOMAIN b : b[i] = b[j] => i = j
           /\ \A c \in w : b # c => \A i \in DOMAIN b, j \in DOMAIN c : b[i] # c[j]
           /\ \A i \in DOMAIN b, j \in DOMAIN lines : b[i] # lines[j]
      /\ \A i \in DOMAIN lines : lines[i] <= sent
      /\ \A i, j \in DOMAIN lines : lines[i] = lines[j] => i = j \/ lines[i] = Crumbs!Server
  BY DEF Crumbs!Apart
<1>2. \A i \in DOMAIN pack : i \in Nat /\ i > 0 /\ i <= to - sent
  OBVIOUS
<1>3. \A i \in DOMAIN pack : sent < pack[i] /\ 0 < pack[i] /\ pack[i] <= to
  BY <1>2
<1>4. \A i, j \in DOMAIN pack : pack[i] = pack[j] => i = j
  BY <1>2
<1>5. \A b \in w : \A i \in DOMAIN b : b[i] \in Nat /\ 0 < b[i] /\ b[i] <= sent /\ b[i] <= to
  BY <1>1
<1>6. \A b \in w : \A i \in DOMAIN b, j \in DOMAIN pack : b[i] # pack[j] /\ pack[j] # b[i]
  BY <1>3, <1>5
<1>7. \A i \in DOMAIN pack, j \in DOMAIN lines : pack[i] # lines[j]
  BY <1>1, <1>3
<1>8. \A i \in DOMAIN lines : lines[i] <= to
  BY <1>1
<1>9. ASSUME NEW b \in w \cup {pack}
      PROVE  /\ b \in Seq(Nat) /\ Len(b) <= Cap
             /\ \A i \in DOMAIN b : 0 < b[i] /\ b[i] <= to
             /\ \A i, j \in DOMAIN b : b[i] = b[j] => i = j
             /\ \A c \in w \cup {pack} : b # c => \A i \in DOMAIN b, j \in DOMAIN c : b[i] # c[j]
             /\ \A i \in DOMAIN b, j \in DOMAIN lines : b[i] # lines[j]
  <2>1. CASE b \in w
    <3>1. \A c \in w \cup {pack} : b # c => \A i \in DOMAIN b, j \in DOMAIN c : b[i] # c[j]
      BY <1>1, <1>6, <2>1
    <3> QED BY <1>1, <1>5, <2>1, <3>1
  <2>2. CASE b = pack
    <3>1. \A c \in w \cup {pack} : pack # c => \A i \in DOMAIN pack, j \in DOMAIN c : pack[i] # c[j]
      BY <1>6
    <3> QED BY <1>3, <1>4, <1>7, <2>2, <3>1
  <2> QED BY <2>1, <2>2
<1> QED
  BY <1>1, <1>8, <1>9 DEF Crumbs!Apart

\* A crumb more goes into the queue, or takes it along.
LEMMA PutKeeps ==
    ASSUME NEW s, NEW last \in Nat, NEW lines \in Seq(Nat), x10 \in Nat,
           Crumbs!InOrder(s.queue, last), Crumbs!Apart(s.wire, lines, last - Len(s.queue)),
           Crumbs!Timed(s.queue, s.handle, s.due),
           NEW t, t = Crumbs!Put(s, last + 1)
    PROVE  /\ Crumbs!InOrder(t.queue, last + 1) /\ Crumbs!Apart(t.wire, lines, (last + 1) - Len(t.queue))
           /\ Crumbs!Timed(t.queue, t.handle, t.due)
<1>0. s.queue \in Seq(Nat) /\ Len(s.queue) <= last /\ Len(s.queue) < Cap
      /\ \A i \in DOMAIN s.queue : s.queue[i] = last - Len(s.queue) + i
  BY Zenon DEF Crumbs!InOrder
<1>1. PICK q \in Seq(Nat), n \in Nat : q = s.queue /\ n = last - Len(q)
  <2>1. PICK q \in Seq(Nat) : q = s.queue
    BY <1>0, Zenon
  <2>2. Len(q) <= last
    BY <1>0, <2>1, Zenon
  <2>3. last - Len(q) \in Nat
    BY <2>2
  <2> QED BY <2>1, <2>3, Zenon
<1>2. last + 1 \in Nat /\ Append(q, last + 1) \in Seq(Nat)
  <2>1. last + 1 \in Nat
    OBVIOUS
  <2> QED BY <2>1, AppendProperties, Zenon
<1>3. PICK r \in Seq(Nat) : r = Append(q, last + 1)
  BY <1>2, Zenon
<1>4. PICK k \in Nat : k = Len(q)
  BY <1>1
<1>5. n = last - k /\ k <= last /\ k < Cap /\ n + k = last /\ n <= last /\ last - Len(s.queue) = n
  <2>1. Len(q) <= last /\ Len(q) < Cap /\ n = last - k
    BY <1>0, <1>1, <1>4, Zenon
  <2>2. last - Len(s.queue) = n
    BY <1>1, Zenon
  <2> QED BY <1>4, <2>1, <2>2, TrailAssumption
<1>6. \A i \in 1 .. k : q[i] = n + i
  <2>1. DOMAIN q = 1 .. k
    BY <1>4
  <2> QED BY <1>0, <1>1, <2>1, Zenon
<1>7. /\ Len(r) = k + 1 /\ r[k + 1] = last + 1 /\ DOMAIN r = 1 .. k + 1
      /\ \A i \in 1 .. k : r[i] = q[i]
  <2>1. PICK c \in Nat : c = last + 1
    BY <1>2, Zenon
  <2>2. Len(Append(q, c)) = Len(q) + 1 /\ \A i \in 1 .. Len(q) : Append(q, c)[i] = q[i]
    BY AppendProperties
  <2>3. Append(q, c)[Len(q) + 1] = c
    BY AppendProperties
  <2>4. DOMAIN r = 1 .. Len(r)
    OBVIOUS
  <2> QED BY <1>3, <1>4, <2>1, <2>2, <2>3, <2>4, Zenon
<1>8. ASSUME NEW i \in DOMAIN r PROVE r[i] = n + i
  <2>1. i \in 1 .. k \/ i = k + 1
    BY <1>4, <1>7
  <2>2. CASE i \in 1 .. k
    BY <1>6, <1>7, <2>2
  <2>3. CASE i = k + 1
    BY <1>5, <1>4, <1>7, <2>3
  <2> QED BY <2>1, <2>2, <2>3
<1>9. Crumbs!Apart(s.wire, lines, n) /\ Crumbs!Timed(q, s.handle, s.due) /\ Len(s.queue) = k
  BY <1>1, <1>4, <1>5, Zenon
<1>10. CASE k + 1 >= Cap
  <2>1. t.queue = <<>> /\ t.handle = FALSE /\ t.due = 0 /\ t.wire = s.wire \cup {r}
    BY <1>1, <1>3, <1>9, <1>10 DEF Crumbs!Put, Crumbs!Flush
  <2>2. Len(r) <= Cap /\ Len(r) = (last + 1) - n /\ n <= last + 1
    BY <1>4, <1>5, <1>7, TrailAssumption
  <2>3. \A i \in DOMAIN r : r[i] = n + i
    BY <1>8
  <2>4. Crumbs!Apart(s.wire \cup {r}, lines, last + 1)
    BY <1>2, <1>9, <2>2, <2>3, BatchJoins
  <2>5. Crumbs!InOrder(<<>>, last + 1)
    BY <1>2, TrailAssumption DEF Crumbs!InOrder
  <2>6. Crumbs!Timed(<<>>, FALSE, 0)
    BY DEF Crumbs!Timed
  <2>7. (last + 1) - Len(<<>>) = last + 1
    BY <1>2
  <2> QED BY <2>1, <2>4, <2>5, <2>6, <2>7, Zenon
<1>11. CASE ~ (k + 1 >= Cap)
  <2>1. t.queue = r /\ t.handle = TRUE /\ t.due = (IF s.handle THEN s.due ELSE x10 + FlushAfter) /\ t.wire = s.wire
    BY <1>1, <1>3, <1>9, <1>11 DEF Crumbs!Put
  <2>2. t.due \in Nat /\ t.due # 0
    BY <1>9, <2>1, TrailAssumption DEF Crumbs!Timed
  <2>3. (last + 1) - Len(r) = n
    BY <1>4, <1>5, <1>7
  <2>4. Len(r) <= last + 1 /\ Len(r) < Cap
    BY <1>4, <1>5, <1>7, <1>11, TrailAssumption
  <2>5. Crumbs!InOrder(r, last + 1)
    <3>1. \A i \in DOMAIN r : r[i] = (last + 1) - Len(r) + i
      BY <1>8, <2>3, Zenon
    <3> QED BY <2>4, <3>1, Zenon DEF Crumbs!InOrder
  <2>6. Crumbs!Apart(t.wire, lines, (last + 1) - Len(t.queue))
    BY <1>9, <2>1, <2>3, Zenon
  <2>7. Crumbs!Timed(t.queue, t.handle, t.due)
    BY <2>1, <2>2 DEF Crumbs!Timed
  <2> QED BY <2>1, <2>5, <2>6, <2>7, Zenon
<1> QED BY <1>4, <1>10, <1>11

\* What a page records at once keeps its crumbs in their places.
LEMMA RecordKeeps ==
    ASSUME NEW n \in 0 .. 2, Crumbs!Record(n), x4 \in Nat, x10 \in Nat, NEW lines \in Seq(Nat),
           Crumbs!InOrder(x1, x4), Crumbs!Apart(x11, lines, x4 - Len(x1)), Crumbs!Timed(x1, x2, x3)
    PROVE  /\ x4' \in Nat /\ Crumbs!InOrder(x1', x4') /\ Crumbs!Apart(x11', lines, x4' - Len(x1'))
           /\ Crumbs!Timed(x1', x2', x3')
<1> DEFINE none == [queue |-> x1, handle |-> x2, due |-> x3, wire |-> x11]
           one == Crumbs!Put(none, x4 + 1)
           two == Crumbs!Put(one, x4 + 2)
<1>1. none.queue = x1 /\ none.handle = x2 /\ none.due = x3 /\ none.wire = x11
  OBVIOUS
<1>2. /\ n = 0 => x1' = none.queue /\ x2' = none.handle /\ x3' = none.due /\ x11' = none.wire
      /\ n = 1 => x1' = one.queue /\ x2' = one.handle /\ x3' = one.due /\ x11' = one.wire
      /\ n = 2 => x1' = two.queue /\ x2' = two.handle /\ x3' = two.due /\ x11' = two.wire
      /\ x4' = x4 + n
  BY DEF Crumbs!Record
<1>3. one = Crumbs!Put(none, x4 + 1) /\ two = Crumbs!Put(one, x4 + 2)
  OBVIOUS
<1> HIDE DEF none, one, two
<1>4. /\ Crumbs!InOrder(one.queue, x4 + 1) /\ Crumbs!Apart(one.wire, lines, (x4 + 1) - Len(one.queue))
      /\ Crumbs!Timed(one.queue, one.handle, one.due)
  <2>1. Crumbs!InOrder(none.queue, x4) /\ Crumbs!Apart(none.wire, lines, x4 - Len(none.queue))
        /\ Crumbs!Timed(none.queue, none.handle, none.due)
    BY <1>1, Zenon
  <2> QED BY <1>3, <2>1, PutKeeps, Zenon
<1>5. x4 + 1 \in Nat /\ (x4 + 1) + 1 = x4 + 2 /\ x4 + 2 \in Nat
  OBVIOUS
<1>6. /\ Crumbs!InOrder(two.queue, x4 + 2) /\ Crumbs!Apart(two.wire, lines, (x4 + 2) - Len(two.queue))
      /\ Crumbs!Timed(two.queue, two.handle, two.due)
  <2>1. two = Crumbs!Put(one, (x4 + 1) + 1)
    BY <1>3, <1>5, Zenon
  <2>2. /\ Crumbs!InOrder(two.queue, (x4 + 1) + 1) /\ Crumbs!Apart(two.wire, lines, ((x4 + 1) + 1) - Len(two.queue))
        /\ Crumbs!Timed(two.queue, two.handle, two.due)
    BY <1>4, <1>5, <2>1, PutKeeps, Zenon
  <2> QED BY <1>5, <2>2, Zenon
<1>7. CASE n = 0
  <2>1. x4' = x4
    BY <1>2, <1>7
  <2> QED BY <1>1, <1>2, <1>7, <2>1, Zenon
<1>8. CASE n = 1
  <2>1. x4' = x4 + 1
    BY <1>2, <1>8
  <2> QED BY <1>2, <1>4, <1>5, <1>8, <2>1, Zenon
<1>9. CASE n = 2
  <2>1. x4' = x4 + 2
    BY <1>2, <1>9
  <2> QED BY <1>2, <1>5, <1>6, <1>9, <2>1, Zenon
<1>10. n = 0 \/ n = 1 \/ n = 2
  OBVIOUS
<1> QED BY <1>7, <1>8, <1>9, <1>10, Zenon

\* Lines that are new, or the server's own, join the journal's.
LEMMA LinesJoin ==
    ASSUME NEW w, NEW v, v \subseteq w, NEW lines \in Seq(Nat), NEW sent \in Nat, Crumbs!Apart(w, lines, sent),
           NEW new \in Seq(Nat),
           \A i \in DOMAIN new : new[i] # 0 =>
               /\ new[i] <= sent
               /\ \A j \in DOMAIN lines : lines[j] # new[i]
               /\ \A b \in v : \A j \in DOMAIN b : b[j] # new[i]
               /\ \A j \in DOMAIN new : new[i] = new[j] => i = j
    PROVE  Crumbs!Apart(v, lines \o new, sent)
<1> DEFINE all == lines \o new
<1>1. PICK m \in Nat, k \in Nat : m = Len(lines) /\ k = Len(new)
  OBVIOUS
<1>2. /\ all \in Seq(Nat) /\ DOMAIN all = 1 .. m + k /\ DOMAIN lines = 1 .. m /\ DOMAIN new = 1 .. k
      /\ \A i \in 1 .. m : all[i] = lines[i]
      /\ \A i \in 1 .. m + k : i > m => all[i] = new[i - m] /\ i - m \in 1 .. k
  BY <1>1
<1> HIDE DEF all
<1>3. \A i \in DOMAIN all : \/ i \in DOMAIN lines /\ all[i] = lines[i]
                            \/ i > m /\ i - m \in DOMAIN new /\ all[i] = new[i - m]
  <2> TAKE i \in DOMAIN all
  <2>1. i \in 1 .. m + k
    BY <1>2
  <2>2. i \in 1 .. m \/ i > m
    BY <1>1, <2>1
  <2> QED BY <1>2, <2>1, <2>2, Zenon
<1>4. /\ \A b \in v :
           /\ b \in Seq(Nat) /\ Len(b) <= Cap
           /\ \A i \in DOMAIN b : 0 < b[i] /\ b[i] <= sent
           /\ \A i, j \in DOMAIN b : b[i] = b[j] => i = j
           /\ \A c \in v : b # c => \A i \in DOMAIN b, j \in DOMAIN c : b[i] # c[j]
           /\ \A i \in DOMAIN b, j \in DOMAIN lines : b[i] # lines[j]
      /\ \A i \in DOMAIN lines : lines[i] <= sent
      /\ \A i, j \in DOMAIN lines : lines[i] = lines[j] => i = j \/ lines[i] = 0
  BY DEF Crumbs!Apart, Crumbs!Server
<1>5. ASSUME NEW b \in v, NEW i \in DOMAIN b, NEW j \in DOMAIN all PROVE b[i] # all[j]
  <2>1. 0 < b[i] /\ b[i] # 0
    <3>1. 0 < b[i] /\ b[i] \in Nat
      BY <1>4
    <3> QED BY <3>1
  <2>2. CASE j \in DOMAIN lines /\ all[j] = lines[j]
    BY <1>4, <2>2
  <2>3. CASE j - m \in DOMAIN new /\ all[j] = new[j - m]
    BY <2>1, <2>3
  <2> QED BY <1>3, <2>2, <2>3
<1>6. ASSUME NEW i \in DOMAIN all PROVE all[i] <= sent
  <2>1. CASE i \in DOMAIN lines /\ all[i] = lines[i]
    BY <1>4, <2>1
  <2>2. CASE i - m \in DOMAIN new /\ all[i] = new[i - m]
    BY <2>2
  <2> QED BY <1>3, <2>1, <2>2
<1>7. ASSUME NEW i \in DOMAIN all, NEW j \in DOMAIN all, all[i] = all[j], all[i] # 0 PROVE i = j
  <2>1. CASE i \in DOMAIN lines /\ all[i] = lines[i]
    <3>1. CASE j \in DOMAIN lines /\ all[j] = lines[j]
      BY <1>4, <1>7, <2>1, <3>1
    <3>2. CASE j - m \in DOMAIN new /\ all[j] = new[j - m]
      BY <1>7, <2>1, <3>2
    <3> QED BY <1>3, <3>1, <3>2
  <2>2. CASE i > m /\ i - m \in DOMAIN new /\ all[i] = new[i - m]
    <3>1. CASE j \in DOMAIN lines /\ all[j] = lines[j]
      BY <1>7, <2>2, <3>1
    <3>2. CASE j > m /\ j - m \in DOMAIN new /\ all[j] = new[j - m]
      <4>1. i - m = j - m
        BY <1>7, <2>2, <3>2
      <4> QED BY <1>1, <1>2, <4>1
    <3> QED BY <1>3, <3>1, <3>2
  <2> QED BY <1>3, <2>1, <2>2
<1>8. Crumbs!Apart(v, all, sent)
  BY <1>4, <1>5, <1>6, <1>7 DEF Crumbs!Apart, Crumbs!Server
<1> QED BY <1>8 DEF all

\* Joining sequences of numbers, in either order.
LEMMA Joining ==
    ASSUME NEW s \in Seq(Nat), NEW t \in Seq(Nat), NEW u \in Seq(Nat)
    PROVE  (s \o t) \o u = s \o (t \o u)
  BY ConcatAssociative, Z3

\* What is appended comes after the lines that were there, in files that stay small.
LEMMA LinesAppend ==
    ASSUME NEW new \in Seq(Nat), Len(new) > 0, x12 = TRUE, Crumbs!AppendLines(new),
           x14 \in Seq(Nat), x15 \in Seq(Nat)
    PROVE  x14' \in Seq(Nat) /\ x15' \in Seq(Nat) /\ Len(x14') <= Threshold /\ Crumbs!Lines' = Crumbs!Lines \o new
<1> USE TrailAssumption
<1>1. PICK all \in Seq(Nat) : all = x14 \o new
  BY ConcatProperties, Zenon
<1>2. PICK full \in 0 .. Len(all) - 1 :
        Len(all) - full <= Threshold /\ x15' = x15 \o SubSeq(all, 1, full) /\ x14' = SubSeq(all, full + 1, Len(all))
  BY <1>1 DEF Crumbs!AppendLines, Crumbs!Current
<1>3. PICK a \in Seq(Nat), b \in Seq(Nat) : a = SubSeq(all, 1, full) /\ b = SubSeq(all, full + 1, Len(all))
  <2>1. \A i \in 1 .. Len(all) : all[i] \in Nat
    OBVIOUS
  <2>2. \A i \in 1 .. full : all[i] \in Nat
    BY <2>1
  <2>3. \A i \in full + 1 .. Len(all) : all[i] \in Nat
    BY <2>1
  <2>4. 1 \in Int /\ full \in Int /\ full + 1 \in Int /\ Len(all) \in Int
    OBVIOUS
  <2> QED BY <2>2, <2>3, <2>4, SubSeqProperties, Zenon
<1>4. PICK n \in Nat, m \in Nat, p \in Nat, k \in Nat :
        n = Len(all) /\ m = Len(x15) /\ p = Len(x14) /\ k = Len(new) /\ n = p + k /\ n > 0
  BY <1>1
<1>5. full \in Nat /\ full < n /\ Len(a) = full /\ Len(b) = n - full
  BY <1>3, <1>4
<1>6. /\ \A i \in 1 .. full : a[i] = all[i]
      /\ \A i \in 1 .. n - full : b[i] = all[full + i]
  BY <1>3, <1>4, <1>5
<1>7. all = a \o b
  <2>0. /\ a \o b \in Seq(Nat) /\ Len(a \o b) = Len(a) + Len(b)
        /\ \A i \in 1 .. Len(a) + Len(b) : (a \o b)[i] = IF i <= Len(a) THEN a[i] ELSE b[i - Len(a)]
    BY ConcatProperties, Zenon
  <2>1. Len(a \o b) = n
    BY <1>4, <1>5, <2>0
  <2>2. ASSUME NEW i \in 1 .. n PROVE all[i] = (a \o b)[i]
    <3>1. CASE i <= full
      BY <1>4, <1>5, <1>6, <3>1
    <3>2. CASE ~ (i <= full)
      <4>1. (a \o b)[i] = b[i - full] /\ i - full \in 1 .. n - full /\ full + (i - full) = i
        BY <1>4, <1>5, <2>0, <3>2
      <4> QED BY <1>6, <4>1
    <3> QED BY <3>1, <3>2
  <2> QED BY <1>4, <2>0, <2>1, <2>2, SeqEqual
<1>8. (x15 \o a) \o b = x15 \o (a \o b) /\ (x15 \o x14) \o new = x15 \o (x14 \o new)
  <2>1. (x15 \o a) \o b = x15 \o (a \o b)
    BY Joining, Zenon
  <2>2. (x15 \o x14) \o new = x15 \o (x14 \o new)
    BY Joining, Zenon
  <2> QED BY <2>1, <2>2
<1>9. x15' = x15 \o a /\ x14' = b
  BY <1>2, <1>3
<1>10. Crumbs!Lines' = (x15 \o a) \o b /\ Crumbs!Lines = x15 \o x14
  BY <1>9 DEF Crumbs!Lines
<1>11. Crumbs!Lines' = Crumbs!Lines \o new
  BY <1>1, <1>7, <1>8, <1>10, Zenon
<1>12. x15' \in Seq(Nat) /\ x14' \in Seq(Nat)
  BY <1>9
<1>13. Len(x14') <= Threshold
  BY <1>2, <1>4, <1>5, <1>9
<1> QED BY <1>11, <1>12, <1>13

\* A request leaves two lines of the server at least.
LEMMA TwoLines ==
    ASSUME NEW lines \in Seq(Nat), NEW new \in Seq(Nat), NEW k \in Nat, k = Len(new), k >= 2, new[k] = 0, new[k - 1] = 0,
           NEW m \in Nat, Cardinality({i \in DOMAIN lines : lines[i] = 0}) >= m
    PROVE  Cardinality({i \in DOMAIN (lines \o new) : (lines \o new)[i] = 0}) >= m + 2
<1> DEFINE all == lines \o new
           A == {i \in DOMAIN lines : lines[i] = 0}
           B == {i \in DOMAIN all : all[i] = 0}
<1>1. PICK n \in Nat : n = Len(lines)
  OBVIOUS
<1>2. /\ all \in Seq(Nat) /\ DOMAIN all = 1 .. n + k /\ DOMAIN lines = 1 .. n /\ Len(all) = n + k
      /\ \A i \in 1 .. n : all[i] = lines[i]
      /\ all[n + k] = new[k] /\ all[n + (k - 1)] = new[k - 1]
  <2>1. (n + k) - n = k /\ (n + (k - 1)) - n = k - 1 /\ n + k \in 1 .. n + k /\ n + (k - 1) \in 1 .. n + k
        /\ n + k > n /\ n + (k - 1) > n
    BY <1>1
  <2>2. \A i \in 1 .. n + k : all[i] = IF i <= n THEN lines[i] ELSE new[i - n]
    BY <1>1, ConcatProperties
  <2>3. all[n + k] = new[k] /\ all[n + (k - 1)] = new[k - 1]
    <3>1. ~ (n + k <= n) /\ ~ (n + (k - 1) <= n)
      BY <2>1
    <3>2. all[n + k] = new[(n + k) - n]
      BY <2>1, <2>2, <3>1, Zenon
    <3>3. all[n + (k - 1)] = new[(n + (k - 1)) - n]
      BY <2>1, <2>2, <3>1, Zenon
    <3> QED BY <2>1, <3>2, <3>3, Zenon
  <2> QED BY <1>1, <2>3
<1>3. IsFiniteSet(1 .. n + k) /\ IsFiniteSet(1 .. n)
  <2>1. n \in Int /\ n + k \in Int /\ 1 \in Int
    OBVIOUS
  <2> QED BY <2>1, FS_Interval, Zenon
<1>4. B \in SUBSET (1 .. n + k) /\ A \in SUBSET (1 .. n)
  BY <1>2
<1>5. n + k \in B /\ n + (k - 1) \in B /\ n + k \notin A \cup {n + (k - 1)} /\ n + (k - 1) \notin A /\ A \subseteq B
  <2>1. n + k \notin 1 .. n /\ n + (k - 1) \notin 1 .. n /\ n + k # n + (k - 1)
        /\ n + k \in 1 .. n + k /\ n + (k - 1) \in 1 .. n + k /\ \A i \in 1 .. n : i \in 1 .. n + k
    OBVIOUS
  <2> QED BY <1>2, <1>4, <2>1
<1>6. Cardinality(A) \in Nat /\ Cardinality(B) \in Nat /\ IsFiniteSet(A) /\ IsFiniteSet(B)
  BY <1>3, <1>4, FS_Subset, FS_CardinalityType
<1> HIDE DEF A, B, all
<1>7. PICK C : C = A \cup {n + (k - 1)}
  OBVIOUS
<1>8. IsFiniteSet(C) /\ Cardinality(C) = Cardinality(A) + 1
  BY <1>5, <1>6, <1>7, FS_AddElement
<1>9. IsFiniteSet(C \cup {n + k}) /\ Cardinality(C \cup {n + k}) = Cardinality(C) + 1
  BY <1>5, <1>7, <1>8, FS_AddElement
<1>10. C \cup {n + k} \in SUBSET B
  BY <1>5, <1>7
<1>11. Cardinality(C \cup {n + k}) <= Cardinality(B)
  BY <1>6, <1>10, FS_Subset
<1>12. Cardinality(A) >= m
  BY DEF A
<1>13. Cardinality(B) >= m + 2
  BY <1>6, <1>8, <1>9, <1>11, <1>12
<1> QED BY <1>13 DEF A, B, all

\* The page's trail when it starts.
LEMMA TrailStarts == Crumbs!Init => Crumbs!TrailInv
<1> SUFFICES ASSUME Crumbs!Init PROVE Crumbs!TrailInv
  OBVIOUS
<1>1. /\ x1 = <<1, 2>> /\ x2 = TRUE /\ x3 = FlushAfter + 1 /\ x4 = 2 /\ x6 = "visible" /\ x10 = 1 /\ x11 = {}
      /\ x12 \in BOOLEAN /\ x14 = <<>> /\ x15 = <<>> /\ x16 = <<>>
  BY DEF Crumbs!Init, Crumbs!FirstCrumbs
<1>2. Crumbs!InOrder(x1, x4)
  BY <1>1, TrailAssumption DEF Crumbs!InOrder
<1>3. Crumbs!Timed(x1, x2, x3)
  BY <1>1, TrailAssumption DEF Crumbs!Timed
<1>4. Crumbs!Lines = <<>>
  BY <1>1 DEF Crumbs!Lines
<1>5. Crumbs!Apart({}, <<>>, x4 - Len(x1))
  BY DEF Crumbs!Apart
<1>6. Crumbs!Answered(<<>>, <<>>)
  <2>1. {i \in DOMAIN <<>> : <<>>[i] = 0} = {}
    OBVIOUS
  <2>2. Crumbs!Cardinality({}) = 0
    BY FS_EmptySet DEF Crumbs!Cardinality, Cardinality
  <2>3. Len(<<>>) = 0
    OBVIOUS
  <2> QED BY <2>1, <2>2, <2>3 DEF Crumbs!Answered, Crumbs!Server
<1>7. Crumbs!Apart(x11, Crumbs!Lines, x4 - Len(x1)) /\ Crumbs!Answered(Crumbs!Lines, x16)
  BY <1>1, <1>4, <1>5, <1>6, Zenon
<1>8. /\ x14 \in Seq(Nat) /\ x15 \in Seq(Nat) /\ Len(x14) <= Threshold /\ x16 \in Seq({"call", "post"})
      /\ x4 \in Nat /\ x10 \in Nat /\ x6 # "gone"
  BY <1>1, TrailAssumption
<1> QED BY <1>1, <1>2, <1>3, <1>7, <1>8, Zenon DEF Crumbs!TrailInv

\* The crumbs of a batch that no line and none of the batches v has.
Fresh(pack, v, sent) ==
    \A i \in DOMAIN pack :
        /\ 0 < pack[i] /\ pack[i] <= sent
        /\ \A j \in DOMAIN Crumbs!Lines : Crumbs!Lines[j] # pack[i]
        /\ \A b \in v : \A j \in DOMAIN b : b[j] # pack[i]
        /\ \A j \in DOMAIN pack : pack[i] = pack[j] => i = j

\* A request's lines, with the crumbs that came in it, join the journal.
LEMMA WritesKeep ==
    ASSUME NEW w, NEW v, v \subseteq w, NEW sent \in Nat, Crumbs!Apart(w, Crumbs!Lines, sent),
           NEW pack \in Seq(Nat), NEW thrown \in BOOLEAN, NEW r \in {"call", "post"},
           Fresh(pack, v, sent), Crumbs!AppendLines(pack \o Crumbs!OfRequest(thrown)), Crumbs!RecordRequest(r), x12' = x12,
           x12 \in BOOLEAN, x14 \in Seq(Nat), x15 \in Seq(Nat), Len(x14) <= Threshold, x16 \in Seq({"call", "post"}),
           x12 => Crumbs!Answered(Crumbs!Lines, x16)
    PROVE  /\ Crumbs!Apart(v, Crumbs!Lines', sent) /\ x14' \in Seq(Nat) /\ x15' \in Seq(Nat) /\ Len(x14') <= Threshold
           /\ x16' \in Seq({"call", "post"}) /\ (x12' => Crumbs!Answered(Crumbs!Lines', x16'))
<1> DEFINE tail == Crumbs!OfRequest(thrown)
           new == pack \o tail
<1>1. PICK t \in Nat : /\ t \in 2 .. 3 /\ tail \in Seq(Nat) /\ Len(tail) = t
                       /\ \A i \in 1 .. t : tail[i] = 0
  <2>1. PICK first \in Seq(Nat), last \in Seq(Nat), k \in Nat :
          /\ tail = first \o last /\ k = Len(first) /\ k \in 1 .. 2 /\ Len(last) = 1 /\ last[1] = 0
          /\ \A i \in 1 .. k : first[i] = 0
    <3>1. PICK first \in Seq(Nat) :
            /\ first = (IF thrown THEN <<0, 0>> ELSE <<0>>)
            /\ Len(first) \in 1 .. 2 /\ \A i \in 1 .. Len(first) : first[i] = 0
      <4>1. CASE thrown
        <5>1. <<0, 0>> \in Seq(Nat) /\ Len(<<0, 0>>) \in 1 .. 2 /\ \A i \in 1 .. Len(<<0, 0>>) : <<0, 0>>[i] = 0
          OBVIOUS
        <5> QED BY <4>1, <5>1, Zenon
      <4>2. CASE ~ thrown
        <5>1. <<0>> \in Seq(Nat) /\ Len(<<0>>) \in 1 .. 2 /\ \A i \in 1 .. Len(<<0>>) : <<0>>[i] = 0
          OBVIOUS
        <5> QED BY <4>2, <5>1, Zenon
      <4> QED BY <4>1, <4>2
    <3>2. tail = first \o <<0>>
      BY <3>1 DEF Crumbs!OfRequest, Crumbs!LogLine, Crumbs!Server
    <3>3. <<0>> \in Seq(Nat) /\ Len(<<0>>) = 1 /\ <<0>>[1] = 0 /\ Len(first) \in Nat
      OBVIOUS
    <3>4. PICK last \in Seq(Nat) : last = <<0>>
      BY <3>3
    <3>5. PICK k \in Nat : k = Len(first)
      BY <3>3
    <3>6. tail = first \o last
      BY <3>2, <3>4, Zenon
    <3>7. Len(last) = 1 /\ last[1] = 0
      BY <3>4
    <3>8. k \in 1 .. 2 /\ \A i \in 1 .. k : first[i] = 0
      BY <3>1, <3>5, Zenon
    <3> QED BY <3>5, <3>6, <3>7, <3>8, Zenon
  <2>2. /\ tail \in Seq(Nat) /\ Len(tail) = k + 1
        /\ \A i \in 1 .. k + 1 : tail[i] = IF i <= k THEN first[i] ELSE last[i - k]
    <3>1. /\ first \o last \in Seq(Nat) /\ Len(first \o last) = Len(first) + Len(last)
          /\ \A i \in 1 .. Len(first) + Len(last) :
               (first \o last)[i] = IF i <= Len(first) THEN first[i] ELSE last[i - Len(first)]
      BY ConcatProperties
    <3> QED BY <2>1, <3>1, Zenon
  <2>3. \A i \in 1 .. k + 1 : tail[i] = 0
    <3> SUFFICES ASSUME NEW i \in 1 .. k + 1 PROVE tail[i] = 0
      OBVIOUS
    <3>1. (i \in 1 .. k /\ i <= k) \/ (~ (i <= k) /\ i - k = 1)
      OBVIOUS
    <3> QED BY <2>1, <2>2, <3>1, Zenon
  <2>4. k + 1 \in 2 .. 3 /\ k + 1 \in Nat
    <3>1. k \in 1 .. 2
      BY <2>1, Zenon
    <3> QED BY <3>1
  <2> QED BY <2>2, <2>3, <2>4, Zenon
<1>2. Crumbs!Lines \in Seq(Nat)
  BY DEF Crumbs!Lines
<1> HIDE DEF tail
<1>3. PICK p \in Nat : p = Len(pack)
  OBVIOUS
<1>4. /\ new \in Seq(Nat) /\ Len(new) = p + t
      /\ \A i \in 1 .. p + t : new[i] = IF i <= p THEN pack[i] ELSE tail[i - p]
  <2>1. /\ pack \o tail \in Seq(Nat) /\ Len(pack \o tail) = Len(pack) + Len(tail)
        /\ \A i \in 1 .. Len(pack) + Len(tail) : (pack \o tail)[i] = IF i <= Len(pack) THEN pack[i] ELSE tail[i - Len(pack)]
    BY <1>1, ConcatProperties
  <2> QED BY <1>1, <1>3, <2>1, Zenon
<1> HIDE DEF new
<1>5. \A i \in 1 .. p : new[i] = pack[i]
  <2>1. \A i \in 1 .. p : i \in 1 .. p + t /\ i <= p
    OBVIOUS
  <2> QED BY <1>4, <2>1, Zenon
<1>6. \A i \in 1 .. p + t : i > p => new[i] = 0
  <2> SUFFICES ASSUME NEW i \in 1 .. p + t, i > p PROVE new[i] = 0
    OBVIOUS
  <2>1. ~ (i <= p) /\ i - p \in 1 .. t
    OBVIOUS
  <2> QED BY <1>1, <1>4, <2>1, Zenon
<1>7. ASSUME NEW i \in DOMAIN new, new[i] # 0
      PROVE  /\ new[i] <= sent
             /\ \A j \in DOMAIN Crumbs!Lines : Crumbs!Lines[j] # new[i]
             /\ \A b \in v : \A j \in DOMAIN b : b[j] # new[i]
             /\ \A j \in DOMAIN new : new[i] = new[j] => i = j
  <2>1. DOMAIN new = 1 .. p + t /\ DOMAIN pack = 1 .. p
    BY <1>3, <1>4
  <2>2. \A j \in DOMAIN new : new[j] # 0 => j \in DOMAIN pack /\ new[j] = pack[j]
    <3> SUFFICES ASSUME NEW j \in 1 .. p + t, new[j] # 0 PROVE j \in 1 .. p
      BY <1>5, <2>1, Zenon
    <3> QED BY <1>6
  <2>3. i \in DOMAIN pack /\ new[i] = pack[i]
    BY <1>7, <2>2
  <2>4. \A j \in DOMAIN new : new[i] = new[j] => j \in DOMAIN pack /\ new[j] = pack[j]
    BY <1>7, <2>2
  <2> QED BY <2>3, <2>4, Zenon DEF Fresh
<1>8. Crumbs!Apart(v, Crumbs!Lines \o new, sent)
  BY <1>2, <1>4, <1>7, LinesJoin
<1>9. /\ x16' \in Seq({"call", "post"}) /\ Len(x16') <= Len(x16) + 1
  <2>1. PICK q \in Seq({"call", "post"}) : q = <<r>> \o x16 /\ Len(q) = Len(x16) + 1
    <3>1. <<r>> \in Seq({"call", "post"}) /\ Len(<<r>>) = 1 /\ Len(x16) \in Nat
      OBVIOUS
    <3>2. <<r>> \o x16 \in Seq({"call", "post"}) /\ Len(<<r>> \o x16) = Len(<<r>>) + Len(x16)
      BY <3>1, ConcatProperties
    <3>3. 1 + Len(x16) = Len(x16) + 1
      BY <3>1
    <3> QED BY <3>1, <3>2, <3>3, Zenon
  <2>2. PICK k \in Nat : k <= Len(q) /\ x16' = SubSeq(q, 1, k)
    <3> DEFINE k == IF Len(x16) < Ring THEN Len(x16) + 1 ELSE Ring
    <3>1. k \in Nat /\ k <= Len(q)
      BY <2>1, TrailAssumption
    <3>2. x16' = SubSeq(q, 1, k)
      BY <2>1 DEF Crumbs!RecordRequest
    <3> QED BY <3>1, <3>2
  <2> QED BY <2>1, <2>2
<1>10. CASE x12 = TRUE
  <2>1. Len(new) > 0 /\ Crumbs!AppendLines(new)
    BY <1>1, <1>4 DEF new, tail
  <2>2. x14' \in Seq(Nat) /\ x15' \in Seq(Nat) /\ Len(x14') <= Threshold /\ Crumbs!Lines' = Crumbs!Lines \o new
    BY <1>4, <1>10, <2>1, LinesAppend
  <2>3. Crumbs!Answered(Crumbs!Lines \o new, x16')
    <3>1. PICK lines \in Seq(Nat), k \in Nat, m \in Nat : lines = Crumbs!Lines /\ k = p + t /\ m = 2 * Len(x16)
      <4>1. Len(x16) \in Nat
        OBVIOUS
      <4>2. 2 * Len(x16) \in Nat /\ p + t \in Nat
        BY <4>1
      <4> QED BY <1>2, <4>2, Zenon
    <3>2. Cardinality({i \in DOMAIN lines : lines[i] = 0}) >= m
      BY <1>10, <3>1 DEF Crumbs!Answered, Crumbs!Server, Crumbs!Cardinality, Cardinality
    <3>3. k >= 2 /\ k = Len(new) /\ new[k] = 0 /\ new[k - 1] = 0
      <4>1. k \in 1 .. p + t /\ k > p /\ k - 1 \in 1 .. p + t /\ k - 1 > p /\ k >= 2
        BY <1>1, <3>1
      <4> QED BY <1>4, <1>6, <3>1, <4>1
    <3>4. Cardinality({i \in DOMAIN (lines \o new) : (lines \o new)[i] = 0}) >= m + 2
      BY <1>4, <3>2, <3>3, TwoLines
    <3>5. PICK c : c = Cardinality({i \in DOMAIN (lines \o new) : (lines \o new)[i] = 0})
      OBVIOUS
    <3>6. c \in Nat
      <4>1. DOMAIN (lines \o new) = 1 .. Len(lines \o new) /\ Len(lines \o new) \in Int /\ 1 \in Int
        BY <1>4
      <4>2. IsFiniteSet(DOMAIN (lines \o new))
        <5>1. IsFiniteSet(1 .. Len(lines \o new))
          BY <4>1, FS_Interval, Zenon
        <5> QED BY <4>1, <5>1, Zenon
      <4>3. {i \in DOMAIN (lines \o new) : (lines \o new)[i] = 0} \in SUBSET DOMAIN (lines \o new)
        BY Zenon
      <4>4. IsFiniteSet({i \in DOMAIN (lines \o new) : (lines \o new)[i] = 0})
        BY <4>2, <4>3, FS_Subset, Zenon
      <4> QED BY <3>5, <4>4, FS_CardinalityType, Zenon
    <3>7. c >= 2 * Len(x16')
      <4>1. Len(x16) \in Nat /\ Len(x16') \in Nat /\ c >= m + 2
        <5>1. Len(x16) \in Nat /\ Len(x16') \in Nat
          BY <1>9
        <5> QED BY <3>4, <3>5, <5>1, Zenon
      <4> QED BY <1>9, <3>1, <3>6, <4>1
    <3>8. Crumbs!Answered(lines \o new, x16')
      BY <3>5, <3>7 DEF Crumbs!Answered, Crumbs!Server, Crumbs!Cardinality, Cardinality
    <3> QED BY <3>1, <3>8
  <2>4. Crumbs!Apart(v, Crumbs!Lines', sent) /\ Crumbs!Answered(Crumbs!Lines', x16')
    BY <1>8, <2>2, <2>3, Zenon
  <2> QED BY <1>9, <2>2, <2>4, Zenon
<1>11. CASE x12 = FALSE
  <2>1. x14' = x14 /\ x15' = x15 /\ ~ x12'
    BY <1>11 DEF Crumbs!AppendLines
  <2>2. Crumbs!Lines' = Crumbs!Lines
    BY <2>1 DEF Crumbs!Lines
  <2>3. Crumbs!Apart(v, Crumbs!Lines, sent)
    BY DEF Crumbs!Apart
  <2>4. Crumbs!Apart(v, Crumbs!Lines', sent)
    BY <2>2, <2>3, Zenon
  <2> QED BY <1>9, <2>1, <2>4
<1> QED BY <1>10, <1>11

\* Every step of the page, the collector and the network keeps the trail.
LEMMA TrailStep ==
    ASSUME Crumbs!TrailInv, [Crumbs!Next]_(Crumbs!vars)
    PROVE  Crumbs!TrailInv'
<1>0. /\ x4 \in Nat /\ x10 \in Nat /\ x12 \in BOOLEAN
      /\ x14 \in Seq(Nat) /\ x15 \in Seq(Nat) /\ Len(x14) <= Threshold
      /\ Crumbs!InOrder(x1, x4) /\ Crumbs!Apart(x11, Crumbs!Lines, x4 - Len(x1)) /\ Crumbs!Timed(x1, x2, x3)
      /\ (x6 = "gone" => x1 = <<>>)
      /\ x16 \in Seq({"call", "post"}) /\ (x12 => Crumbs!Answered(Crumbs!Lines, x16))
  BY Zenon DEF Crumbs!TrailInv
<1>a. /\ x1 \in Seq(Nat) /\ Len(x1) \in Nat /\ Len(x1) <= x4 /\ x4 - Len(x1) \in Nat /\ Len(x1) < Cap
      /\ \A i \in DOMAIN x1 : x1[i] = (x4 - Len(x1)) + i
  BY <1>0 DEF Crumbs!InOrder
<1>b. Crumbs!Lines \in Seq(Nat)
  BY <1>0 DEF Crumbs!Lines
<1>c. Crumbs!InOrder(<<>>, x4) /\ x4 - Len(<<>>) = x4
  BY <1>0, TrailAssumption DEF Crumbs!InOrder
<1>d. ASSUME NEW n \in 0 .. 2, Crumbs!Record(n), x6' # "gone" \/ x1' = <<>>, x10' \in Nat,
             x12' = x12, x14' = x14, x15' = x15, x16' = x16
      PROVE  Crumbs!TrailInv'
  <2>1. /\ x4' \in Nat /\ Crumbs!InOrder(x1', x4') /\ Crumbs!Apart(x11', Crumbs!Lines, x4' - Len(x1'))
        /\ Crumbs!Timed(x1', x2', x3')
    BY <1>0, <1>b, <1>d, RecordKeeps
  <2>2. Crumbs!Lines' = Crumbs!Lines
    BY <1>d DEF Crumbs!Lines
  <2>3. Crumbs!Apart(x11', Crumbs!Lines', x4' - Len(x1')) /\ (x12' => Crumbs!Answered(Crumbs!Lines', x16'))
    BY <1>0, <1>d, <2>1, <2>2, Zenon
  <2>4. /\ x12' \in BOOLEAN /\ x14' \in Seq(Nat) /\ x15' \in Seq(Nat) /\ Len(x14') <= Threshold
        /\ x16' \in Seq({"call", "post"}) /\ (x6' = "gone" => x1' = <<>>)
    BY <1>0, <1>d, Zenon
  <2> QED BY <1>d, <2>1, <2>3, <2>4, Zenon DEF Crumbs!TrailInv
<1>e. ASSUME Crumbs!Running, x6' = x6 PROVE x6' # "gone"
  BY <1>e DEF Crumbs!Running
<1>f. ASSUME UNCHANGED Crumbs!client PROVE Crumbs!Record(0) /\ x1' = x1
  BY <1>0, <1>f DEF Crumbs!Record, Crumbs!client
<1>g. ASSUME NEW last, NEW hidden \in BOOLEAN, NEW n \in 0 .. 1, Crumbs!MaybeEmit(last, hidden, n)
      PROVE  \E m \in 0 .. 2 : Crumbs!Record(m)
  <2>1. Crumbs!Record(n) \/ Crumbs!Record(0 + n) \/ Crumbs!Record(1 + n)
    BY <1>g, Zenon DEF Crumbs!MaybeEmit, Crumbs!SnapshotDom
  <2>2. n \in 0 .. 2 /\ 0 + n \in 0 .. 2 /\ 1 + n \in 0 .. 2
    OBVIOUS
  <2> QED BY <2>1, <2>2, Zenon
<1>h. ASSUME UNCHANGED Crumbs!server
      PROVE  x12' = x12 /\ x14' = x14 /\ x15' = x15 /\ x16' = x16
  BY <1>h DEF Crumbs!server
<1>i. ASSUME x11' = Crumbs!Post(x1), x1' = <<>>, x4' = x4, Crumbs!Timed(x1', x2', x3'), x10' = x10,
             x12' = x12, x14' = x14, x15' = x15, x16' = x16
      PROVE  Crumbs!TrailInv'
  <2>1. Crumbs!Apart(x11', Crumbs!Lines, x4)
    <3>1. CASE x1 = <<>>
      <4>1. x11' = x11
        BY <1>i, <3>1 DEF Crumbs!Post
      <4> QED BY <1>0, <1>c, <3>1, <4>1, Zenon
    <3>2. CASE x1 # <<>>
      <4>1. x11' = x11 \cup {x1}
        BY <1>i, <3>2 DEF Crumbs!Post
      <4>2. Len(x1) <= Cap /\ Len(x1) = x4 - (x4 - Len(x1)) /\ x4 - Len(x1) <= x4
        BY <1>0, <1>a, TrailAssumption
      <4>3. Crumbs!Apart(x11 \cup {x1}, Crumbs!Lines, x4)
        BY <1>0, <1>a, <1>b, <4>2, BatchJoins
      <4> QED BY <4>1, <4>3, Zenon
    <3> QED BY <3>1, <3>2
  <2>2. Crumbs!Lines' = Crumbs!Lines
    BY <1>i DEF Crumbs!Lines
  <2>3. /\ Crumbs!Apart(x11', Crumbs!Lines', x4' - Len(x1')) /\ (x12' => Crumbs!Answered(Crumbs!Lines', x16'))
        /\ Crumbs!InOrder(x1', x4')
    BY <1>0, <1>c, <1>i, <2>1, <2>2, Zenon
  <2>4. /\ x12' \in BOOLEAN /\ x14' \in Seq(Nat) /\ x15' \in Seq(Nat) /\ Len(x14') <= Threshold
        /\ x16' \in Seq({"call", "post"}) /\ x4' \in Nat /\ x10' \in Nat
    BY <1>0, <1>i, Zenon
  <2> QED BY <1>i, <2>3, <2>4, Zenon DEF Crumbs!TrailInv
<1>1. ASSUME Crumbs!Instant PROVE Crumbs!TrailInv'
  <2>1. Crumbs!Record(1) /\ Crumbs!Running /\ x6' = x6 /\ x10' = x10 /\ UNCHANGED Crumbs!server
    BY <1>1, Zenon DEF Crumbs!Instant, Crumbs!Does, Crumbs!clock
  <2> QED BY <1>0, <1>d, <1>e, <1>h, <2>1
<1>2. ASSUME NEW own \in BOOLEAN, Crumbs!ConsoleHook(own) PROVE Crumbs!TrailInv'
  <2>1. /\ Crumbs!Record(0) \/ Crumbs!Record(1)
        /\ Crumbs!Running /\ x6' = x6 /\ x10' = x10 /\ UNCHANGED Crumbs!server
    BY <1>2, Zenon DEF Crumbs!ConsoleHook, Crumbs!Does, Crumbs!clock
  <2> QED BY <1>0, <1>d, <1>e, <1>h, <2>1
<1>3. ASSUME NEW n \in 0 .. 2, Crumbs!PerfHook(n) PROVE Crumbs!TrailInv'
  <2>1. Crumbs!Record(n) /\ Crumbs!Running /\ x6' = x6 /\ x10' = x10 /\ UNCHANGED Crumbs!server
    BY <1>3, Zenon DEF Crumbs!PerfHook, Crumbs!Does, Crumbs!clock
  <2> QED BY <1>0, <1>d, <1>e, <1>h, <2>1
<1>4. ASSUME Crumbs!StorageChanges \/ Crumbs!RouteChanges PROVE Crumbs!TrailInv'
  <2>1. Crumbs!Record(1) /\ Crumbs!Running /\ x6' = x6 /\ x10' = x10 /\ UNCHANGED Crumbs!server
    BY <1>4, Zenon DEF Crumbs!StorageChanges, Crumbs!RouteChanges, Crumbs!Does, Crumbs!clock
  <2> QED BY <1>0, <1>d, <1>e, <1>h, <2>1
<1>5. ASSUME Crumbs!RequestStarts \/ Crumbs!AsksCollector PROVE Crumbs!TrailInv'
  <2>1. UNCHANGED Crumbs!client /\ Crumbs!Running /\ x6' = x6 /\ x10' = x10 /\ UNCHANGED Crumbs!server
    BY <1>5, Zenon DEF Crumbs!RequestStarts, Crumbs!AsksCollector, Crumbs!Does, Crumbs!clock
  <2> QED BY <1>0, <1>d, <1>e, <1>f, <1>h, <2>1
<1>6. ASSUME Crumbs!PageShow PROVE Crumbs!TrailInv'
  <2>1. UNCHANGED Crumbs!client /\ x6' = "visible" /\ x10' = x10 /\ UNCHANGED Crumbs!server
    BY <1>6, Zenon DEF Crumbs!PageShow, Crumbs!clock
  <2> QED BY <1>0, <1>d, <1>f, <1>h, <2>1
<1>7. ASSUME Crumbs!RouteSnapshot PROVE Crumbs!TrailInv'
  <2>1. /\ Crumbs!MaybeEmit(0, x6 = "hidden", 0) /\ Crumbs!Running /\ x6' = x6 /\ x10' = x10 /\ UNCHANGED Crumbs!server
        /\ (x6 = "hidden") \in BOOLEAN /\ 0 \in 0 .. 1
    BY <1>7 DEF Crumbs!RouteSnapshot
  <2>2. PICK m \in 0 .. 2 : Crumbs!Record(m)
    BY <1>g, <2>1, Zenon
  <2> QED BY <1>0, <1>d, <1>e, <1>h, <2>1, <2>2
<1>8. ASSUME Crumbs!Visibility PROVE Crumbs!TrailInv'
  <2>1. /\ Crumbs!Record(1) \/ Crumbs!MaybeEmit(0, FALSE, 1)
        /\ x6' = "hidden" \/ x6' = "visible"
        /\ x10' = x10 /\ UNCHANGED Crumbs!server /\ 1 \in 0 .. 1 /\ 1 \in 0 .. 2
    <3>1. /\ x6' = IF x6 = "visible" THEN "hidden" ELSE "visible"
          /\ IF x6 = "visible" THEN Crumbs!Record(1) ELSE Crumbs!MaybeEmit(0, FALSE, 1)
          /\ x10' = x10 /\ UNCHANGED Crumbs!server
      BY <1>8, Zenon DEF Crumbs!Visibility
    <3>2. 1 \in 0 .. 1 /\ 1 \in 0 .. 2 /\ FALSE \in BOOLEAN
      OBVIOUS
    <3> QED BY <3>1, <3>2, Zenon
  <2>2. PICK m \in 0 .. 2 : Crumbs!Record(m)
    BY <1>g, <2>1, Zenon
  <2> QED BY <1>0, <1>d, <1>h, <2>1, <2>2
<1>9. ASSUME Crumbs!Tick PROVE Crumbs!TrailInv'
  <2>1. /\ Crumbs!MaybeEmit(x8, x6 = "hidden", 0) \/ UNCHANGED Crumbs!client
        /\ Crumbs!Running /\ x6' = x6 /\ x10' \in Nat /\ UNCHANGED Crumbs!server /\ 0 \in 0 .. 1 /\ 0 \in 0 .. 2
        /\ (x6 = "hidden") \in BOOLEAN
    BY <1>0, <1>9 DEF Crumbs!Tick
  <2>2. PICK m \in 0 .. 2 : Crumbs!Record(m)
    BY <1>f, <1>g, <2>1, Zenon
  <2> QED BY <1>d, <1>e, <1>h, <2>1, <2>2
<1>10. ASSUME Crumbs!FlushTimer PROVE Crumbs!TrailInv'
  <2>1. x1' = <<>> /\ x2' = FALSE /\ x3' = 0 /\ x11' = Crumbs!Post(x1) /\ x4' = x4 /\ x10' = x10 /\ UNCHANGED Crumbs!server
    BY <1>10 DEF Crumbs!FlushTimer, Crumbs!Flush, Crumbs!clock
  <2>2. Crumbs!Timed(x1', x2', x3')
    BY <2>1 DEF Crumbs!Timed
  <2> QED BY <1>h, <1>i, <2>1, <2>2
<1>11. ASSUME NEW to, Crumbs!PageHide(to) PROVE Crumbs!TrailInv'
  <2>1. /\ x1' = <<>> /\ x4' = x4 + 1 /\ x11' = Crumbs!Post(Append(x1, x4 + 1)) /\ x10' = x10 /\ UNCHANGED Crumbs!server
        /\ x2' = ~ (Len(x1) + 1 >= Cap)
        /\ x3' = CASE Len(x1) + 1 >= Cap -> 0 [] x2 -> x3 [] OTHER -> x10 + FlushAfter
    BY <1>11 DEF Crumbs!PageHide, Crumbs!clock
  <2>2. Crumbs!Timed(x1', x2', x3')
    <3>1. x2 \in BOOLEAN /\ x3 \in Nat /\ (x2 => x3 # 0)
      BY <1>0, Zenon DEF Crumbs!Timed
    <3>2. x10 + FlushAfter \in Nat /\ x10 + FlushAfter # 0
      BY <1>0, TrailAssumption
    <3>3. x2' \in BOOLEAN
      BY <2>1
    <3>4. x3' \in Nat /\ (x2' => x3' # 0)
      BY <2>1, <3>1, <3>2
    <3> QED BY <2>1, <3>3, <3>4, Zenon DEF Crumbs!Timed
  <2>3. PICK pack \in Seq(Nat), n \in Nat : pack = Append(x1, x4 + 1) /\ n = x4 - Len(x1)
    <3>1. x4 + 1 \in Nat
      BY <1>0
    <3>2. Append(x1, x4 + 1) \in Seq(Nat)
      BY <1>a, <3>1, AppendProperties, Zenon
    <3> QED BY <1>a, <3>2, Zenon
  <2>4. /\ Len(pack) = Len(x1) + 1 /\ pack # <<>> /\ DOMAIN pack = 1 .. Len(x1) + 1 /\ pack[Len(x1) + 1] = x4 + 1
        /\ \A i \in 1 .. Len(x1) : pack[i] = x1[i]
    <3>1. x4 + 1 \in Nat
      BY <1>0
    <3>2. PICK q \in Seq(Nat), c \in Nat : q = x1 /\ c = x4 + 1
      BY <1>a, <3>1
    <3>4. /\ Append(q, c) # <<>> /\ Len(Append(q, c)) = Len(q) + 1
          /\ \A i \in 1 .. Len(q) : Append(q, c)[i] = q[i]
          /\ Append(q, c)[Len(q) + 1] = c
      BY AppendProperties
    <3>3. DOMAIN pack = 1 .. Len(pack)
      OBVIOUS
    <3> QED BY <2>3, <3>2, <3>3, <3>4, Zenon
  <2>5. \A i \in DOMAIN pack : pack[i] = n + i
    <3> SUFFICES ASSUME NEW i \in 1 .. Len(x1) + 1 PROVE pack[i] = n + i
      BY <2>4
    <3>1. CASE i \in 1 .. Len(x1)
      BY <1>a, <2>3, <2>4, <3>1
    <3>2. CASE i = Len(x1) + 1
      BY <1>0, <1>a, <2>3, <2>4, <3>2
    <3> QED BY <1>a, <3>1, <3>2
  <2>6. Len(pack) <= Cap /\ Len(pack) = (x4 + 1) - n /\ n <= x4 + 1 /\ x4 + 1 \in Nat
    BY <1>0, <1>a, <2>3, <2>4, TrailAssumption
  <2>7. Crumbs!Apart(x11, Crumbs!Lines, n)
    BY <1>0, <2>3, Zenon
  <2>8. Crumbs!Apart(x11 \cup {pack}, Crumbs!Lines, x4 + 1)
    BY <1>b, <2>5, <2>6, <2>7, BatchJoins
  <2>9. x11' = x11 \cup {pack}
    BY <2>1, <2>3, <2>4 DEF Crumbs!Post
  <2>10. Crumbs!Lines' = Crumbs!Lines
    BY <1>h, <2>1 DEF Crumbs!Lines
  <2>11. Crumbs!InOrder(<<>>, x4 + 1) /\ (x4 + 1) - Len(<<>>) = x4 + 1
    BY <1>0, TrailAssumption DEF Crumbs!InOrder
  <2>12. /\ Crumbs!Apart(x11', Crumbs!Lines', x4' - Len(x1')) /\ (x12' => Crumbs!Answered(Crumbs!Lines', x16'))
         /\ Crumbs!InOrder(x1', x4')
    <3>1. x12' = x12 /\ x16' = x16
      BY <1>h, <2>1
    <3>2. x4' - Len(x1') = x4 + 1
      BY <2>1, <2>11, Zenon
    <3> QED BY <1>0, <2>1, <2>8, <2>9, <2>10, <2>11, <3>1, <3>2, Zenon
  <2>13. /\ x12' \in BOOLEAN /\ x14' \in Seq(Nat) /\ x15' \in Seq(Nat) /\ Len(x14') <= Threshold
         /\ x16' \in Seq({"call", "post"}) /\ x4' \in Nat /\ x10' \in Nat
    BY <1>0, <1>h, <2>1, <2>6, Zenon
  <2> QED BY <2>1, <2>2, <2>12, <2>13, Zenon DEF Crumbs!TrailInv
<1>12. ASSUME NEW b \in x11, Crumbs!Lose(b) PROVE Crumbs!TrailInv'
  <2>1. /\ x11' = x11 \ {b} /\ x1' = x1 /\ x2' = x2 /\ x3' = x3 /\ x4' = x4 /\ x6' = x6 /\ x10' = x10
        /\ UNCHANGED Crumbs!server
    BY <1>12 DEF Crumbs!Lose, Crumbs!clock
  <2>2. Crumbs!Apart(x11 \ {b}, Crumbs!Lines, x4 - Len(x1))
    BY <1>0 DEF Crumbs!Apart
  <2>3. Crumbs!Lines' = Crumbs!Lines
    BY <1>h, <2>1 DEF Crumbs!Lines
  <2>4. x12' = x12 /\ x14' = x14 /\ x15' = x15 /\ x16' = x16
    BY <1>h, <2>1
  <2>5. Crumbs!Apart(x11', Crumbs!Lines', x4' - Len(x1')) /\ (x12' => Crumbs!Answered(Crumbs!Lines', x16'))
    BY <1>0, <2>1, <2>2, <2>3, <2>4, Zenon
  <2>6. Crumbs!InOrder(x1', x4') /\ Crumbs!Timed(x1', x2', x3')
    BY <1>0, <2>1, Zenon
  <2>7. /\ x12' \in BOOLEAN /\ x14' \in Seq(Nat) /\ x15' \in Seq(Nat) /\ Len(x14') <= Threshold
        /\ x16' \in Seq({"call", "post"}) /\ x4' \in Nat /\ x10' \in Nat /\ (x6' = "gone" => x1' = <<>>)
    BY <1>0, <2>1, <2>4, Zenon
  <2> QED BY <2>5, <2>6, <2>7, Zenon DEF Crumbs!TrailInv
<1>13. ASSUME NEW b \in x11, Crumbs!Collect(b) PROVE Crumbs!TrailInv'
  <2>1. /\ x11' = x11 \ {b} /\ x1' = x1 /\ x2' = x2 /\ x3' = x3 /\ x4' = x4 /\ x6' = x6 /\ x10' = x10 /\ x12' = x12
        /\ Crumbs!AppendLines(b \o Crumbs!OfRequest(FALSE)) /\ Crumbs!RecordRequest("post")
    BY <1>13, Zenon DEF Crumbs!Collect, Crumbs!clock
  <2>2. PICK sent \in Nat : sent = x4 - Len(x1)
    BY <1>a
  <2>3. Crumbs!Apart(x11, Crumbs!Lines, sent)
    BY <1>0, <2>2, Zenon
  <2>4. b \in Seq(Nat) /\ Fresh(b, x11 \ {b}, sent)
    BY <2>3 DEF Crumbs!Apart, Fresh
  <2>5. /\ Crumbs!Apart(x11 \ {b}, Crumbs!Lines', sent) /\ x14' \in Seq(Nat) /\ x15' \in Seq(Nat) /\ Len(x14') <= Threshold
        /\ x16' \in Seq({"call", "post"}) /\ (x12' => Crumbs!Answered(Crumbs!Lines', x16'))
    <3>1. x11 \ {b} \subseteq x11 /\ FALSE \in BOOLEAN /\ "post" \in {"call", "post"}
      OBVIOUS
    <3> QED BY <1>0, <2>1, <2>3, <2>4, <3>1, WritesKeep, Zenon
  <2>6. Crumbs!Apart(x11', Crumbs!Lines', x4' - Len(x1'))
    BY <2>1, <2>2, <2>5, Zenon
  <2>7. Crumbs!InOrder(x1', x4') /\ Crumbs!Timed(x1', x2', x3') /\ x12' \in BOOLEAN /\ x4' \in Nat /\ x10' \in Nat
        /\ (x6' = "gone" => x1' = <<>>)
    BY <1>0, <2>1, Zenon
  <2> QED BY <2>5, <2>6, <2>7, Zenon DEF Crumbs!TrailInv
<1>14. ASSUME NEW end, Crumbs!RequestEnds(end) PROVE Crumbs!TrailInv'
  <2>1. Crumbs!Record(1) /\ Crumbs!Running /\ x6' = x6 /\ x10' = x10 /\ x6' # "gone"
    BY <1>14, <1>e DEF Crumbs!RequestEnds, Crumbs!clock
  <2>2. CASE UNCHANGED Crumbs!server
    BY <1>0, <1>d, <1>h, <2>1, <2>2
  <2>3. CASE \E thrown \in BOOLEAN : Crumbs!AppendLines(Crumbs!OfRequest(thrown)) /\ Crumbs!RecordRequest("call") /\ x12' = x12
    <3>1. PICK thrown \in BOOLEAN : Crumbs!AppendLines(Crumbs!OfRequest(thrown)) /\ Crumbs!RecordRequest("call") /\ x12' = x12
      BY <2>3
    <3>2. /\ x4' \in Nat /\ Crumbs!InOrder(x1', x4') /\ Crumbs!Apart(x11', Crumbs!Lines, x4' - Len(x1'))
          /\ Crumbs!Timed(x1', x2', x3')
      BY <1>0, <1>b, <2>1, RecordKeeps
    <3>3. PICK sent \in Nat : sent = x4' - Len(x1')
      BY <3>2 DEF Crumbs!InOrder
    <3>4. Crumbs!Apart(x11', Crumbs!Lines, sent)
      BY <3>2, <3>3, Zenon
    <3>5. <<>> \o Crumbs!OfRequest(thrown) = Crumbs!OfRequest(thrown)
      BY DEF Crumbs!OfRequest, Crumbs!LogLine, Crumbs!Server
    <3>6. Crumbs!AppendLines(<<>> \o Crumbs!OfRequest(thrown))
      BY <3>1, <3>5, Zenon
    <3>7. <<>> \in Seq(Nat) /\ Fresh(<<>>, x11', sent) /\ "call" \in {"call", "post"} /\ x11' \subseteq x11'
      BY DEF Fresh
    <3>8. /\ Crumbs!Apart(x11', Crumbs!Lines', sent) /\ x14' \in Seq(Nat) /\ x15' \in Seq(Nat) /\ Len(x14') <= Threshold
          /\ x16' \in Seq({"call", "post"}) /\ (x12' => Crumbs!Answered(Crumbs!Lines', x16'))
      BY <1>0, <3>1, <3>4, <3>6, <3>7, WritesKeep, Zenon
    <3>9. Crumbs!Apart(x11', Crumbs!Lines', x4' - Len(x1'))
      BY <3>3, <3>8, Zenon
    <3>10. x12' \in BOOLEAN /\ x10' \in Nat /\ (x6' = "gone" => x1' = <<>>)
      BY <1>0, <2>1, <3>1, Zenon
    <3> QED BY <3>2, <3>8, <3>9, <3>10, Zenon DEF Crumbs!TrailInv
  <2> QED BY <1>14, <2>2, <2>3 DEF Crumbs!RequestEnds
<1>15. CASE UNCHANGED Crumbs!vars
  <2>1. UNCHANGED Crumbs!client /\ x6' = x6 /\ x10' = x10 /\ UNCHANGED Crumbs!server
    BY <1>15 DEF Crumbs!vars, Crumbs!client, Crumbs!server
  <2>2. x6' # "gone" \/ x1' = <<>>
    BY <1>0, <1>f, <2>1
  <2> QED BY <1>0, <1>d, <1>f, <1>h, <2>1, <2>2
<1>16. CASE Crumbs!Next
  BY <1>1, <1>2, <1>3, <1>4, <1>5, <1>6, <1>7, <1>8, <1>9, <1>10, <1>11, <1>12, <1>13, <1>14, <1>16
     DEF Crumbs!Next, Crumbs!ErrorHooks, Crumbs!ClickHook, Crumbs!RecordClientRoute404
<1> QED BY <1>15, <1>16

\* What keeps the trail is enough for it.
LEMMA TrailHolds == Crumbs!TrailInv => Crumbs!QueueIsWatched /\ Crumbs!JournalIsATrail
<1> SUFFICES ASSUME Crumbs!TrailInv PROVE Crumbs!QueueIsWatched /\ Crumbs!JournalIsATrail
  OBVIOUS
<1>0. /\ Crumbs!Apart(x11, Crumbs!Lines, x4 - Len(x1)) /\ Crumbs!Timed(x1, x2, x3)
      /\ (x6 = "gone" => x1 = <<>>) /\ Len(x14) <= Threshold
      /\ (x12 => Crumbs!Answered(Crumbs!Lines, x16)) /\ x4 \in Nat
  BY Zenon DEF Crumbs!TrailInv
<1>1. Crumbs!QueueIsWatched
  BY <1>0 DEF Crumbs!QueueIsWatched, Crumbs!Timed, Crumbs!Apart
<1> DEFINE lines == Crumbs!Lines
           Of(l) == {i \in DOMAIN lines : lines[i] = l}
<1>2. /\ \A b \in x11 : \A i \in DOMAIN b, j \in DOMAIN lines : b[i] # lines[j]
      /\ \A i, j \in DOMAIN lines : lines[i] = lines[j] => i = j \/ lines[i] = 0
  BY <1>0 DEF Crumbs!Apart, Crumbs!Server
<1>3. ASSUME NEW c \in 1 .. x4 PROVE Cardinality(Of(c)) <= 1
  <2>1. c # 0
    OBVIOUS
  <2>2. \A i, j \in Of(c) : i = j
    BY <1>2, <2>1
  <2>3. Of(c) = {} \/ \E i \in Of(c) : Of(c) = {i}
    BY <2>2
  <2> HIDE DEF Of
  <2>4. CASE Of(c) = {}
    BY <2>4, FS_EmptySet
  <2>5. CASE \E i \in Of(c) : Of(c) = {i}
    BY <2>5, FS_Singleton
  <2> QED BY <2>3, <2>4, <2>5
<1>4. ASSUME NEW b \in x11 PROVE Crumbs!ToSet(b) \cap Crumbs!ToSet(lines) = {}
  BY <1>2 DEF Crumbs!ToSet
<1>5. x12 => Cardinality(Of(0)) >= 2 * Len(x16)
  BY <1>0 DEF Crumbs!Answered, Crumbs!Server, Crumbs!Cardinality, Cardinality
<1>6. /\ \A c \in 1 .. x4 : Crumbs!Cardinality(Of(c)) <= 1
      /\ x12 => Crumbs!Cardinality(Of(0)) >= 2 * Len(x16)
  BY <1>3, <1>5 DEF Crumbs!Cardinality, Cardinality
<1>7. Crumbs!JournalIsATrail
  BY <1>0, <1>4, <1>6, Zenon DEF Crumbs!JournalIsATrail, Crumbs!Server, Crumbs!Lines
<1> QED BY <1>1, <1>7

-----------------------------------------------------------------------------
(* An import: x2 is the page's step, x3 its session, x4 and x5 the mapping  *)
(* and the preview it shows, x8 the files, x9 the requests, x11 and x12 the *)
(* mappings saved and the commits at the server.                            *)
Wizard == INSTANCE ImportWizard WITH
        File <- Sheet, Overlap <- FALSE, MaxEdits <- MaxMappings,
        spec <- x1, step <- x2, session <- x3, mapping <- x4, preview <- x5, busy <- x6, attested <- x7,
        queue <- x8, pending <- x9, sessions <- x10, saved <- x11, commits <- x12

\* An import commits what its preview showed, since one request is under way.
LEMMA WizardStarts == Wizard!Init => Wizard!WizardInv
<1> SUFFICES ASSUME Wizard!Init PROVE Wizard!WizardInv
  OBVIOUS
<1>1. Wizard!TypeOK
  <2> USE WizardAssumption DEF Wizard!Init
  <2>1. x11 \in [Wizard!Sessions -> Wizard!Mappings] /\ x10 \in 0 .. MaxSessions /\ x3 \in 0 .. MaxSessions /\ x4 \in Wizard!Mappings
    BY DEF Wizard!Mappings
  <2>2. x8 \in [Sheet -> {"none", "uploading", "done", "error"}] /\ x5 \in SUBSET Wizard!Preview
    OBVIOUS
  <2> QED BY <2>1, <2>2 DEF Wizard!TypeOK
<1> QED
  BY <1>1 DEF Wizard!Init, Wizard!WizardInv, Wizard!CommitsWhatWasShown

\* The sessions, the mappings and the files keep their shape.
LEMMA WizardTypes == Wizard!TypeOK /\ (\A r \in x9 : Wizard!Awaited(r)) /\ [Wizard!Next]_(Wizard!vars) => Wizard!TypeOK'
<1> SUFFICES ASSUME Wizard!TypeOK, \A r \in x9 : Wizard!Awaited(r), [Wizard!Next]_(Wizard!vars) PROVE Wizard!TypeOK'
  OBVIOUS
<1> USE WizardAssumption DEF Wizard!TypeOK, Wizard!Mappings, Wizard!Sessions, 
      Wizard!Request, Wizard!Send, Wizard!page, Wizard!server
<1>1. CASE \E outcome \in {"ready", "forbidden", "error"} : Wizard!LoadSpec(outcome)
  BY <1>1 DEF Wizard!LoadSpec
<1>2. CASE \E f \in Sheet : Wizard!Dismiss(f)
  BY <1>2 DEF Wizard!Dismiss
<1>3. CASE \E f \in Sheet, b \in BOOLEAN : Wizard!Pick(f, b)
  BY <1>3 DEF Wizard!Pick, Wizard!UploadStep
<1>4. CASE \E f \in Sheet, b \in BOOLEAN : Wizard!Uploaded(f, b)
  <2>1. PICK f \in Sheet, b \in BOOLEAN : Wizard!Uploaded(f, b)
    BY <1>4
  <2>2. CASE b
    BY <2>1, <2>2 DEF Wizard!Uploaded
  <2>3. CASE ~ b
    BY <2>1, <2>3 DEF Wizard!Uploaded
  <2> QED BY <2>2, <2>3
<1>5. CASE \E r \in x9, lands \in BOOLEAN : Wizard!StartLands(r, lands)
  <2>1. PICK r \in x9, lands \in BOOLEAN : Wizard!StartLands(r, lands)
    BY <1>5
  <2>2. x10' \in 0 .. MaxSessions /\ x3' \in 0 .. MaxSessions /\ x4' \in 0 .. MaxMappings
    BY <2>1 DEF Wizard!StartLands
  <2>3. x2' \in {"upload", "map", "preview", "results"} /\ x6' \in BOOLEAN
    BY <2>1 DEF Wizard!StartLands
  <2> QED BY <2>1, <2>2, <2>3 DEF Wizard!StartLands
<1>6. CASE \E r \in x9, lands \in BOOLEAN : Wizard!SaveLands(r, lands)
  <2>1. PICK r \in x9, lands \in BOOLEAN : Wizard!SaveLands(r, lands)
    BY <1>6
  <2>2. r.mapping \in Wizard!Mappings
    BY <2>1 DEF Wizard!SaveLands, Wizard!Awaited
  <2>3. x11' \in [Wizard!Sessions -> Wizard!Mappings] /\ x6' \in BOOLEAN
    BY <2>1, <2>2 DEF Wizard!SaveLands
  <2>4. \A q \in x9' : q.kind \in {"start", "save", "preview", "commit"}
    BY <2>1 DEF Wizard!SaveLands
  <2> QED
    BY <2>1, <2>3, <2>4 DEF Wizard!SaveLands
<1>7. CASE \E r \in x9, lands \in BOOLEAN : Wizard!CommitLands(r, lands)
  BY <1>7 DEF Wizard!CommitLands, Wizard!Awaited
<1>8. CASE \E r \in x9, lands \in BOOLEAN, rows \in BOOLEAN : Wizard!PreviewLands(r, lands, rows)
  <2>1. PICK r \in x9, lands \in BOOLEAN, rows \in BOOLEAN : Wizard!PreviewLands(r, lands, rows)
    BY <1>8
  <2>2. r.session = x3 /\ x3 \in Wizard!Sessions
    BY <2>1 DEF Wizard!PreviewLands, Wizard!Awaited
  <2>3. x5' \in SUBSET Wizard!Preview
    BY <2>1, <2>2 DEF Wizard!PreviewLands, Wizard!Preview
  <2> QED
    BY <2>1, <2>3 DEF Wizard!PreviewLands
<1>9. CASE \E custom \in BOOLEAN : Wizard!SetField(custom)
  BY <1>9 DEF Wizard!SetField
<1>10. CASE Wizard!GoToPreview
  BY <1>10 DEF Wizard!GoToPreview
<1>11. CASE Wizard!Back \/ Wizard!Attest
  BY <1>11 DEF Wizard!Back, Wizard!Attest
<1>12. CASE Wizard!Commit
  BY <1>12 DEF Wizard!Commit
<1>13. CASE Wizard!StartOver
  BY <1>13 DEF Wizard!StartOver
<1>14. CASE UNCHANGED Wizard!vars
  BY <1>14 DEF Wizard!vars
<1> QED
  BY <1>1, <1>2, <1>3, <1>4, <1>5, <1>6, <1>7, <1>8, <1>9, <1>10, <1>11, <1>12, <1>13, <1>14 DEF Wizard!Next

\* The request under way is the one its page waits for, of the session and the mapping shown.
LEMMA WizardStep == Wizard!WizardInv /\ [Wizard!Next]_(Wizard!vars) => Wizard!WizardInv'
<1> SUFFICES ASSUME Wizard!WizardInv, [Wizard!Next]_(Wizard!vars) PROVE Wizard!WizardInv'
  OBVIOUS
<1>0. Wizard!TypeOK'
  BY WizardTypes DEF Wizard!WizardInv
<1> USE <1>0 DEF Wizard!WizardInv, Wizard!CommitsWhatWasShown,
      Wizard!Awaited, Wizard!Request, Wizard!Send, Wizard!page, Wizard!server
<1>1. CASE \E outcome \in {"ready", "forbidden", "error"} : Wizard!LoadSpec(outcome)
  BY <1>1 DEF Wizard!LoadSpec
<1>2. CASE \E f \in Sheet : Wizard!Dismiss(f)
  BY <1>2 DEF Wizard!Dismiss, Wizard!TypeOK
<1>3. CASE \E f \in Sheet, b \in BOOLEAN : Wizard!Pick(f, b)
  BY <1>3 DEF Wizard!Pick, Wizard!UploadStep, Wizard!TypeOK
<1>4. CASE \E f \in Sheet, b \in BOOLEAN : Wizard!Uploaded(f, b)
  <2>1. PICK f \in Sheet, b \in BOOLEAN : Wizard!Uploaded(f, b)
    BY <1>4
  <2>2. x9 = {} /\ x2 = "upload" /\ \A g \in Sheet : x8'[g] # "uploading"
    BY <2>1 DEF Wizard!Uploaded, Wizard!TypeOK
  <2> DEFINE asked == Wizard!Request("start", 0, 0, f)
  <2>3. (x9' = {} \/ (x6' /\ x9' = {asked})) /\ asked.kind = "start"
    BY <2>1, <2>2 DEF Wizard!Uploaded
  <2> HIDE DEF asked
  <2>4. \A r \in x9' : x9' = {r} /\ x6' /\ r.kind = "start"
    BY <2>3
  <2>5. UNCHANGED <<x2, x3, x5, x11, x12>>
    BY <2>1 DEF Wizard!Uploaded
  <2> QED BY <2>2, <2>4, <2>5
<1>5. CASE \E r \in x9, lands \in BOOLEAN : Wizard!StartLands(r, lands)
  <2>1. PICK r \in x9, lands \in BOOLEAN : Wizard!StartLands(r, lands)
    BY <1>5
  <2>2. x9 = {r} /\ x9' = {} /\ x2 = "upload"
    BY <2>1 DEF Wizard!StartLands
  <2>3. x2' \in {"upload", "map"} /\ \A f \in Sheet : x8'[f] # "uploading"
    BY <2>1, <2>2 DEF Wizard!StartLands
  <2> QED BY <2>1, <2>2, <2>3 DEF Wizard!StartLands
<1>6. CASE \E r \in x9, lands \in BOOLEAN : Wizard!SaveLands(r, lands)
  <2>1. PICK r \in x9, lands \in BOOLEAN : Wizard!SaveLands(r, lands)
    BY <1>6
  <2>2. x9 = {r} /\ x2 = "map" /\ x3 # 0 /\ \A f \in Sheet : x8[f] # "uploading"
    BY <2>1 DEF Wizard!SaveLands
  <2> DEFINE asked == Wizard!Request("preview", x3, 0, 0)
  <2>3. /\ x9' = {} \/ (x6' /\ x9' = {asked})
        /\ asked.kind = "preview" /\ asked.session = x3 /\ asked.mapping = 0
    BY <2>1, <2>2 DEF Wizard!SaveLands
  <2> HIDE DEF asked
  <2>4. \A q \in x9' : x9' = {q} /\ x6' /\ q.kind = "preview" /\ q.session = x3 /\ q.mapping = 0
    BY <2>3
  <2>5. UNCHANGED <<x2, x3, x5, x8, x12>>
    BY <2>1 DEF Wizard!SaveLands
  <2> QED BY <2>2, <2>4, <2>5, WizardAssumption DEF Wizard!Mappings
<1>7. CASE \E r \in x9, lands \in BOOLEAN : Wizard!CommitLands(r, lands)
  <2>1. PICK r \in x9, lands \in BOOLEAN : Wizard!CommitLands(r, lands)
    BY <1>7
  <2>2. x9 = {r} /\ x9' = {} /\ x2 = "preview" /\ r.session = x3 /\ r.shown = x5 /\ \A f \in Sheet : x8[f] # "uploading"
    BY <2>1 DEF Wizard!CommitLands
  <2>0. PICK rows \in BOOLEAN : x5 = {[session |-> x3, mapping |-> x11[x3], rows |-> rows]}
    BY <2>2
  <2> DEFINE p == [session |-> x3, mapping |-> x11[x3], rows |-> rows]
  <2>3. x5 = {p} /\ p.session = x3 /\ p.mapping = x11[x3]
    BY <2>0
  <2> HIDE DEF p
  <2>4. x12' = x12 \/ x12' = {[session |-> x3, mapping |-> x11[x3], shown |-> {p}]}
    BY <2>1, <2>2, <2>3 DEF Wizard!CommitLands
  <2>5. Wizard!CommitsWhatWasShown'
    BY <2>3, <2>4
  <2> QED BY <2>1, <2>2, <2>5 DEF Wizard!CommitLands
<1>8. CASE \E r \in x9, lands \in BOOLEAN, rows \in BOOLEAN : Wizard!PreviewLands(r, lands, rows)
  <2>1. PICK r \in x9, lands \in BOOLEAN, rows \in BOOLEAN : Wizard!PreviewLands(r, lands, rows)
    BY <1>8
  <2>2. x9 = {r} /\ x9' = {} /\ x2 = "map" /\ r.session = x3 /\ x3 # 0 /\ \A f \in Sheet : x8[f] # "uploading"
    BY <2>1 DEF Wizard!PreviewLands
  <2> QED BY <2>1, <2>2 DEF Wizard!PreviewLands
<1>9. CASE \E custom \in BOOLEAN : Wizard!SetField(custom)
  BY <1>9 DEF Wizard!SetField, Wizard!MapStep
<1>10. CASE Wizard!GoToPreview
  <2>1. x9' = {Wizard!Request("save", x3, x4, 0)} /\ x6' /\ x2 = "map" /\ x3 # 0
    BY <1>10 DEF Wizard!GoToPreview, Wizard!MapStep
  <2>2. \A r \in x9' : x9' = {r} /\ r.kind = "save" /\ r.session = x3 /\ r.mapping = x4
    BY <2>1
  <2>3. UNCHANGED <<x2, x3, x5, x8, x11, x12>> /\ x4 \in Wizard!Mappings
    BY <1>10 DEF Wizard!GoToPreview, Wizard!TypeOK
  <2> QED BY <2>1, <2>2, <2>3
<1>11. CASE Wizard!Back \/ Wizard!Attest
  BY <1>11 DEF Wizard!Back, Wizard!Attest, Wizard!PreviewStep
<1>12. CASE Wizard!Commit
  <2>1. x9' = {[Wizard!Request("commit", x3, 0, 0) EXCEPT !.shown = x5]} /\ x6' /\ x2 = "preview"
    BY <1>12 DEF Wizard!Commit, Wizard!PreviewStep
  <2> QED BY <1>12, <2>1 DEF Wizard!Commit
<1>13. CASE Wizard!StartOver
  <2>1. x9 = {} /\ x9' = {} /\ x2' = "upload" /\ x2 \in {"map", "results"}
    BY <1>13 DEF Wizard!StartOver, Wizard!ResultsStep, Wizard!MapStep
  <2>2. \A f \in Sheet : x8'[f] # "uploading"
    BY <1>13, <2>1 DEF Wizard!StartOver
  <2> QED BY <1>13, <2>1, <2>2 DEF Wizard!StartOver
<1>14. CASE UNCHANGED Wizard!vars
  BY <1>14 DEF Wizard!vars
<1> QED
  BY <1>1, <1>2, <1>3, <1>4, <1>5, <1>6, <1>7, <1>8, <1>9, <1>10, <1>11, <1>12, <1>13, <1>14 DEF Wizard!Next

-----------------------------------------------------------------------------
(* The settings page: x1 to x4 and x9 are the server's, x5 to x8 the page's *)
(* copies, x11 the requests under way.                                      *)
Settings == INSTANCE SettingsPage WITH
        Address <- Mailbox, Overlap <- FALSE, MaxChanges <- MaxSettings,
        role <- x1, invited <- x2, wants <- x3, email <- x4, members <- x5, invites <- x6, shows <- x7,
        identity <- x8, code <- x9, form <- x10, pending <- x11, changes <- x12

\* At first everything shown is being fetched, but who the user is.
LEMMA SettingsStarts == Settings!Init => Settings!SettingsInv
<1> SUFFICES ASSUME Settings!Init PROVE Settings!SettingsInv
  OBVIOUS
<1> DEFINE asked(k) == [kind |-> k, arg |-> {}, state |-> "sent", returned |-> {}]
<1>1. x11 = {asked(k) : k \in {"members", "invites", "settings"}}
  BY DEF Settings!Init, Settings!Fetch
<1>2. ASSUME NEW r \in x11 PROVE Settings!Sound(r)
  <2>1. PICK k \in {"members", "invites", "settings"} : r = asked(k)
    BY <1>1
  <2>2. DOMAIN r = {"kind", "arg", "state", "returned"} /\ r.state = "sent" /\ r.kind \in {"members", "invites", "settings"}
    BY <2>1
  <2> QED BY <2>2 DEF Settings!Sound, Settings!Fetch, Settings!Patches
<1>3. asked("members") \in x11 /\ asked("members").kind = "members"
  BY <1>1
<1>4. /\ x2 = {} /\ x6 = {} /\ x3 = [s \in Settings!Setting |-> TRUE] /\ x7 = x3 /\ x8 = [role |-> x1[Me], email |-> x4]
  BY DEF Settings!Init
<1>5. x1 \in [Member -> DOMAIN Settings!Rank]
  BY DEF Settings!Init, Settings!Rank
<1> HIDE DEF asked
<1> QED BY <1>2, <1>3, <1>4, <1>5 DEF Settings!SettingsInv

\* A change under way is alone, and the page shows the server's until it is answered.
LEMMA AloneShows ==
    ASSUME Settings!SettingsInv, NEW r \in x11, r.kind \notin Settings!Fetch
    PROVE  /\ x11 = {r}
           /\ x5 = x1 \/ Settings!Patches(r, {"role", "remove", "transfer"})
           /\ x6 = x2 \/ Settings!Patches(r, {"invite", "revoke"})
           /\ x7 = x3 \/ Settings!Patches(r, {"toggle"})
           /\ x8 = [role |-> x1[Me], email |-> x4] \/ Settings!Patches(r, {"transfer", "confirm"})
<1>1. x11 = {r}
  BY DEF Settings!SettingsInv, Settings!Sound
<1>2. r.kind \notin {"members", "invites", "settings", "session"}
  BY DEF Settings!Fetch
<1> QED BY <1>1, <1>2 DEF Settings!SettingsInv

\* What the server does with a change is what its answer will patch.
LEMMA SettingsServe == ASSUME Settings!SettingsInv, NEW r \in x11, Settings!Serve(r) PROVE Settings!SettingsInv'
<1> USE TeamAssumption
<1> DEFINE ok == Settings!Allows(r.kind, r.arg)
           answered == [r EXCEPT !.state = IF ok THEN "done" ELSE "refused", !.returned = Settings!Answer(r.kind)]
<1>1. /\ UNCHANGED <<x5, x6, x7, x8>> /\ r.state = "sent" /\ x11' = (x11 \ {r}) \cup {answered}
      /\ x1' = IF ~ ok THEN x1
                  ELSE CASE r.kind = "role" -> [x1 EXCEPT ![r.arg[1]] = r.arg[2]]
                         [] r.kind = "remove" -> [x1 EXCEPT ![r.arg] = "gone"]
                         [] r.kind = "transfer" -> [x1 EXCEPT ![r.arg] = "owner", ![Me] = "admin"]
                         [] OTHER -> x1
      /\ x2' = CASE ok /\ r.kind = "invite" -> x2 \cup r.arg
                 [] ok /\ r.kind = "revoke" -> x2 \ r.arg [] OTHER -> x2
      /\ x3' = IF ok /\ r.kind = "toggle" THEN [x3 EXCEPT ![r.arg[1]] = r.arg[2]] ELSE x3
      /\ x4' = IF ok /\ r.kind = "confirm" THEN CHOOSE a \in r.arg : TRUE ELSE x4
  BY DEF Settings!Serve, Settings!view
<1>2. Settings!Sound(r) /\ x1 \in [Member -> DOMAIN Settings!Rank] /\ x3 \in [Settings!Setting -> BOOLEAN] /\ x7 \in [Settings!Setting -> BOOLEAN]
  BY DEF Settings!SettingsInv
<1>3. /\ answered.kind = r.kind /\ answered.arg = r.arg /\ answered.state = IF ok THEN "done" ELSE "refused"
      /\ answered.returned = Settings!Answer(r.kind) /\ DOMAIN answered = {"kind", "arg", "state", "returned"}
  <2> HIDE DEF ok
  <2> QED BY <1>2 DEF Settings!Sound
<1> HIDE DEF answered
<1>4. CASE r.kind \in Settings!Fetch
  <2>1. ok
    BY <1>4 DEF Settings!Allows, Settings!Fetch
  <2> HIDE DEF ok
  <2>2. UNCHANGED <<x1, x2, x3, x4>>
    BY <1>1, <1>4, <2>1 DEF Settings!Fetch
  <2>3. ASSUME NEW q \in x11' PROVE Settings!Sound(q)'
    <3>1. CASE q \in x11 \ {r}
      <4>1. Settings!Sound(q) /\ q.kind \in Settings!Fetch
        BY <1>4, <3>1 DEF Settings!SettingsInv, Settings!Sound
      <4> QED BY <1>1, <2>2, <4>1 DEF Settings!Sound, Settings!Answer, Settings!Patches, Settings!Fetch
    <3>2. CASE q = answered
      BY <1>1, <1>3, <1>4, <2>1, <2>2, <3>2 DEF Settings!Sound, Settings!Answer, Settings!Patches, Settings!Fetch
    <3> QED BY <1>1, <3>1, <3>2
  <2>4. ASSUME NEW q \in x11 PROVE \E p \in x11' : p.kind = q.kind /\ (q.state = "done" => p.state = "done")
    <3>1. CASE q = r
      BY <1>1, <1>3, <3>1
    <3>2. CASE q # r
      BY <1>1, <3>2
    <3> QED BY <3>1, <3>2
  <2>5. /\ x5 = x1 \/ \E q \in x11' : q.kind = "members" \/ Settings!Patches(q, {"role", "remove", "transfer"})
        /\ x6 = x2 \/ \E q \in x11' : q.kind = "invites" \/ Settings!Patches(q, {"invite", "revoke"})
        /\ x7 = x3 \/ \E q \in x11' : q.kind = "settings" \/ Settings!Patches(q, {"toggle"})
        /\ x8 = [role |-> x1[Me], email |-> x4] \/ \E q \in x11' : q.kind = "session" \/ Settings!Patches(q, {"transfer", "confirm"})
    BY <2>4 DEF Settings!SettingsInv, Settings!Patches
  <2>6. \A q \in x11' : Settings!Sound(q)'
    BY <2>3
  <2>7. UNCHANGED <<x1, x2, x3, x4, x5, x6, x7, x8>>
    BY <1>1, <2>2
  <2> QED BY <1>2, <2>5, <2>6, <2>7 DEF Settings!SettingsInv
<1>5. CASE r.kind \notin Settings!Fetch
  <2>1. /\ x11' = {answered} /\ x5 = x1 /\ x6 = x2 /\ x7 = x3 /\ x8 = [role |-> x1[Me], email |-> x4]
    BY <1>1, <1>5, AloneShows DEF Settings!Patches
  <2> HIDE DEF ok
  <2>2. ok => /\ r.kind \in {"role", "remove", "transfer"} => x1' = Settings!Patched(r)'
              /\ r.kind = "invite" => x2' = x6' \cup r.arg
              /\ r.kind = "revoke" => x2' = x6' \ r.arg
              /\ r.kind = "toggle" => x3' = [x7' EXCEPT ![r.arg[1]] = r.arg[2]]
    BY <1>1, <2>1 DEF Settings!Patched
  <2>3. /\ r.kind \notin {"role", "remove", "transfer"} \/ ~ ok => x1' = x1
        /\ r.kind \notin {"invite", "revoke"} \/ ~ ok => x2' = x2
        /\ r.kind # "toggle" \/ ~ ok => x3' = x3
        /\ r.kind # "confirm" \/ ~ ok => x4' = x4
        /\ r.kind # "transfer" => x1'[Me] = x1[Me]
    BY <1>1, <1>2 DEF Settings!Sound
  <2>4. x1' \in [Member -> DOMAIN Settings!Rank] /\ x3' \in [Settings!Setting -> BOOLEAN]
    BY <1>1, <1>2 DEF Settings!Sound, Settings!Rank, Settings!Assignable
  <2>5. ASSUME NEW q, q.kind = r.kind, q.arg = r.arg PROVE Settings!Patched(q)' = Settings!Patched(r)'
    BY <1>5, <2>5 DEF Settings!Patched, Settings!Fetch
  <2>6. ASSUME NEW q \in x11' PROVE Settings!Sound(q)'
    <3>1. q = answered
      BY <2>1
    <3>2. q.kind = r.kind /\ q.arg = r.arg /\ q.state = (IF ok THEN "done" ELSE "refused") /\ DOMAIN q = {"kind", "arg", "state", "returned"}
      BY <1>3, <3>1
    <3>3. x11' = {q} /\ x7' = x7
      BY <1>1, <2>1, <3>1
    <3>4. Settings!Patched(q)' = Settings!Patched(r)'
      BY <2>5, <3>2
    <3> QED BY <1>2, <1>5, <2>2, <3>2, <3>3, <3>4 DEF Settings!Sound, Settings!Patches
  <2> QED BY <1>1, <1>2, <1>3, <1>5, <2>1, <2>3, <2>4, <2>6 DEF Settings!SettingsInv, Settings!Patches
<1> QED BY <1>4, <1>5

\* An answer that lands makes the copy it is for the server's.
LEMMA SettingsLand == ASSUME Settings!SettingsInv, NEW r \in x11, Settings!Land(r) PROVE Settings!SettingsInv'
<1> DEFINE again == [kind |-> "session", arg |-> {}, state |-> "sent", returned |-> {}]
<1>1. /\ UNCHANGED <<x1, x2, x3, x4>> /\ r.state = "done" /\ x5' = Settings!Patched(r)
      /\ x11' = (x11 \ {r}) \cup IF r.kind \in {"transfer", "confirm"} THEN {again} ELSE {}
      /\ x6' = CASE r.kind = "invites" -> (CHOOSE x \in r.returned : TRUE)
                 [] r.kind = "invite" -> x6 \cup r.arg [] r.kind = "revoke" -> x6 \ r.arg [] OTHER -> x6
      /\ x7' = CASE r.kind = "settings" -> (CHOOSE x \in r.returned : TRUE)
                 [] r.kind = "toggle" -> [x7 EXCEPT ![r.arg[1]] = r.arg[2]] [] OTHER -> x7
      /\ x8' = IF r.kind = "session" THEN CHOOSE x \in r.returned : TRUE ELSE x8
  BY DEF Settings!Land, Settings!server
<1>2. Settings!Sound(r) /\ x1 \in [Member -> DOMAIN Settings!Rank] /\ x3 \in [Settings!Setting -> BOOLEAN] /\ x7 \in [Settings!Setting -> BOOLEAN]
  BY DEF Settings!SettingsInv
<1>3. again.kind = "session" /\ again.state = "sent" /\ DOMAIN again = {"kind", "arg", "state", "returned"}
  OBVIOUS
<1> HIDE DEF again
<1>4. CASE r.kind \in Settings!Fetch
  <2>1. /\ r.kind = "members" => x5' = x1
        /\ r.kind = "invites" => x6' = x2
        /\ r.kind = "settings" => x7' = x3
        /\ r.kind = "session" => x8' = [role |-> x1[Me], email |-> x4]
    BY <1>1, <1>2, <1>4 DEF Settings!Sound, Settings!Answer, Settings!Patched
  <2>2. /\ r.kind # "members" => x5' = x5
        /\ r.kind # "invites" => x6' = x6
        /\ r.kind # "settings" => x7' = x7
        /\ r.kind # "session" => x8' = x8
        /\ x11' = x11 \ {r}
    BY <1>1, <1>4 DEF Settings!Patched, Settings!Fetch
  <2>3. ASSUME NEW q \in x11' PROVE Settings!Sound(q)'
    <3>1. Settings!Sound(q) /\ q.kind \in Settings!Fetch
      BY <1>4, <2>2 DEF Settings!SettingsInv, Settings!Sound
    <3> QED BY <1>1, <3>1 DEF Settings!Sound, Settings!Answer, Settings!Patches, Settings!Fetch
  <2>4. \A q \in x11 : q.kind \in Settings!Fetch
    BY <1>4 DEF Settings!SettingsInv, Settings!Sound
  <2>5. /\ x5' = x1 \/ \E q \in x11' : q.kind = "members"
        /\ x6' = x2 \/ \E q \in x11' : q.kind = "invites"
        /\ x7' = x3 \/ \E q \in x11' : q.kind = "settings"
        /\ x8' = [role |-> x1[Me], email |-> x4] \/ \E q \in x11' : q.kind = "session"
    BY <2>1, <2>2, <2>4 DEF Settings!SettingsInv, Settings!Patches, Settings!Fetch
  <2>6. x7' \in [Settings!Setting -> BOOLEAN]
    BY <1>2, <2>1, <2>2
  <2> QED BY <1>1, <1>2, <2>3, <2>5, <2>6 DEF Settings!SettingsInv
<1>5. CASE r.kind \notin Settings!Fetch
  <2>1. x11' = IF r.kind \in {"transfer", "confirm"} THEN {again} ELSE {}
    BY <1>1, <1>5, AloneShows
  <2>2. x5' = x1
    BY <1>1, <1>2, <1>5, AloneShows DEF Settings!Sound, Settings!Patches, Settings!Patched, Settings!Fetch
  <2>3. x6' = x2
    BY <1>1, <1>2, <1>5, AloneShows DEF Settings!Sound, Settings!Patches, Settings!Fetch
  <2>4. x7' = x3
    BY <1>1, <1>2, <1>5, AloneShows DEF Settings!Sound, Settings!Patches, Settings!Fetch
  <2>5. x8' = [role |-> x1[Me], email |-> x4] \/ r.kind \in {"transfer", "confirm"}
    BY <1>1, <1>5, AloneShows DEF Settings!Patches, Settings!Fetch
  <2>6. ASSUME NEW q \in x11' PROVE Settings!Sound(q)'
    <3>1. q.kind = "session" /\ q.state = "sent" /\ DOMAIN q = {"kind", "arg", "state", "returned"}
      BY <1>3, <2>1
    <3> QED BY <3>1 DEF Settings!Sound, Settings!Patches, Settings!Fetch
  <2>7. r.kind \in {"transfer", "confirm"} => \E q \in x11' : q.kind = "session"
    BY <1>3, <2>1
  <2> QED BY <1>1, <1>2, <2>2, <2>3, <2>4, <2>5, <2>6, <2>7 DEF Settings!SettingsInv
<1> QED BY <1>4, <1>5

\* A change refused leaves the copies as the server has them.
LEMMA SettingsRefuse == ASSUME Settings!SettingsInv, NEW r \in x11, Settings!Refuse(r) PROVE Settings!SettingsInv'
<1>1. /\ UNCHANGED <<x1, x2, x3, x4, x5, x6, x8>> /\ r.state = "refused" /\ x11' = x11 \ {r}
      /\ x7' = IF r.kind = "toggle" THEN [x7 EXCEPT ![r.arg[1]] = ~ r.arg[2]] ELSE x7
  BY DEF Settings!Refuse, Settings!server
<1>2. Settings!Sound(r) /\ x1 \in [Member -> DOMAIN Settings!Rank] /\ x3 \in [Settings!Setting -> BOOLEAN] /\ x7 \in [Settings!Setting -> BOOLEAN]
  BY DEF Settings!SettingsInv
<1>3. r.kind \notin Settings!Fetch
  BY <1>1, <1>2 DEF Settings!Sound
<1>4. x11' = {} /\ x5 = x1 /\ x6 = x2 /\ x7 = x3 /\ x8 = [role |-> x1[Me], email |-> x4]
  BY <1>1, <1>3, AloneShows DEF Settings!Patches
<1>5. x7' = x7
  <2>1. CASE r.kind = "toggle"
    <3>1. r.arg[1] \in Settings!Setting /\ r.arg[2] = ~ x7[r.arg[1]]
      BY <1>2, <2>1 DEF Settings!Sound
    <3>2. (~ r.arg[2]) = x7[r.arg[1]]
      BY <1>2, <3>1
    <3> QED BY <1>1, <1>2, <2>1, <3>1, <3>2
  <2> QED BY <1>1, <2>1
<1> QED BY <1>1, <1>2, <1>4, <1>5 DEF Settings!SettingsInv
\* A change is sent when nothing is under way.
LEMMA SettingsSend ==
    ASSUME Settings!SettingsInv, NEW k, NEW a, Settings!Send(k, a), UNCHANGED <<x1, x2, x3, x4, x5, x6, x7, x8>>,
           k \notin Settings!Fetch,
           k = "role" => a[1] # Me /\ a[2] \in Settings!Assignable,
           k = "remove" => a # Me,
           k = "toggle" => a[1] \in Settings!Setting /\ a[2] = ~ x7[a[1]]
    PROVE  Settings!SettingsInv'
<1> DEFINE r == [kind |-> k, arg |-> a, state |-> "sent", returned |-> {}]
<1>1. x11 = {} /\ x11' = {r}
  BY DEF Settings!Send
<1>2. r.kind = k /\ r.arg = a /\ r.state = "sent" /\ DOMAIN r = {"kind", "arg", "state", "returned"}
  OBVIOUS
<1> HIDE DEF r
<1>3. ASSUME NEW q \in x11' PROVE Settings!Sound(q)'
  <2>1. q.kind = k /\ q.arg = a /\ q.state = "sent" /\ DOMAIN q = {"kind", "arg", "state", "returned"} /\ x11' = {q}
    BY <1>1, <1>2
  <2> QED BY <2>1 DEF Settings!Sound, Settings!Patches
<1>4. x5 = x1 /\ x6 = x2 /\ x7 = x3 /\ x8 = [role |-> x1[Me], email |-> x4]
  BY <1>1 DEF Settings!SettingsInv
<1> QED BY <1>3, <1>4 DEF Settings!SettingsInv

\* The page keeps one change under way at most.
LEMMA SettingsStep == Settings!SettingsInv /\ [Settings!Next]_(Settings!vars) => Settings!SettingsInv'
<1> SUFFICES ASSUME Settings!SettingsInv, [Settings!Next]_(Settings!vars) PROVE Settings!SettingsInv'
  OBVIOUS
<1> USE DEF Settings!server, Settings!view
<1>1. CASE \E a \in Mailbox : Settings!Invite(a) \/ Settings!Revoke(a)
  <2>1. PICK a \in Mailbox, k \in {"invite", "revoke"} : Settings!Send(k, {a}) /\ UNCHANGED <<x1, x2, x3, x4, x5, x6, x7, x8>>
    BY <1>1 DEF Settings!Invite, Settings!Revoke
  <2> QED BY <2>1, SettingsSend DEF Settings!Fetch
<1>2. CASE \E m \in Member : Settings!Remove(m) \/ Settings!TransferOwnership(m)
  <2>1. PICK m \in Member, k \in {"remove", "transfer"} :
          Settings!Send(k, m) /\ m # Me /\ UNCHANGED <<x1, x2, x3, x4, x5, x6, x7, x8>>
    BY <1>2 DEF Settings!Remove, Settings!TransferOwnership
  <2> QED BY <2>1, SettingsSend DEF Settings!Fetch
<1>3. CASE \E m \in Member : \E r \in Settings!Assignable : Settings!RoleChange(m, r)
  <2>1. PICK m \in Member, r \in Settings!Assignable :
          Settings!Send("role", <<m, r>>) /\ m # Me /\ UNCHANGED <<x1, x2, x3, x4, x5, x6, x7, x8>>
    BY <1>3 DEF Settings!RoleChange
  <2>2. <<m, r>>[1] = m /\ <<m, r>>[2] = r
    OBVIOUS
  <2> QED BY <2>1, <2>2, SettingsSend DEF Settings!Fetch
<1>4. CASE \E s \in Settings!Setting : Settings!Toggle(s)
  <2>1. PICK s \in Settings!Setting : Settings!Send("toggle", <<s, ~ x7[s]>>) /\ UNCHANGED <<x1, x2, x3, x4, x5, x6, x7, x8>>
    BY <1>4 DEF Settings!Toggle
  <2>2. <<s, ~ x7[s]>>[1] = s /\ <<s, ~ x7[s]>>[2] = ~ x7[s]
    OBVIOUS
  <2> QED BY <2>1, <2>2, SettingsSend DEF Settings!Fetch
<1>5. CASE Settings!RequestEmailChange \/ Settings!ConfirmEmailChange
  <2>1. PICK k \in {"code", "confirm"} : Settings!Send(k, x10.to) /\ UNCHANGED <<x1, x2, x3, x4, x5, x6, x7, x8>>
    BY <1>5 DEF Settings!RequestEmailChange, Settings!ConfirmEmailChange
  <2> QED BY <2>1, SettingsSend DEF Settings!Fetch
<1>6. CASE (\E a \in Mailbox : Settings!TypeEmail(a)) \/ Settings!OpenForm \/ Settings!ResetEmailChange \/ UNCHANGED Settings!vars
  <2>1. UNCHANGED <<x1, x2, x3, x4, x5, x6, x7, x8, x11>>
    BY <1>6 DEF Settings!TypeEmail, Settings!OpenForm, Settings!ResetEmailChange, Settings!vars
  <2>2. \A r \in x11' : Settings!Sound(r)'
    BY <2>1 DEF Settings!SettingsInv, Settings!Sound, Settings!Answer, Settings!Patched
  <2> QED BY <2>1, <2>2 DEF Settings!SettingsInv
<1>7. CASE \E r \in x11 : Settings!Serve(r) \/ Settings!Land(r) \/ Settings!Refuse(r)
  BY <1>7, SettingsServe, SettingsLand, SettingsRefuse
<1> QED BY <1>1, <1>2, <1>3, <1>4, <1>5, <1>6, <1>7 DEF Settings!Next

\* With nothing under way every copy is the server's.
LEMMA SettingsHolds == Settings!SettingsInv => Settings!ShowsTheServer
  BY DEF Settings!SettingsInv, Settings!ShowsTheServer

-----------------------------------------------------------------------------
(* The sign-in pages: x1 is the cookie, x2 the user shown, x3 whether the    *)
(* session is asked for, x4 the page and x5 its number, x6 the form, x8     *)
(* whether the invite is open, x9 the requests.                             *)
Login == INSTANCE SignInPage WITH
        Address <- Visitor, Overlap <- FALSE,
        cookie <- x1, user <- x2, loading <- x3, page <- x4, mount <- x5, form <- x6, invite <- x7, open <- x8,
        pending <- x9

\* A request with one of its fields replaced.
LEMMA Rewritten ==
    ASSUME NEW r, Login!IsRequest(r), NEW v
    PROVE  /\ [r EXCEPT !.kind = v] = [kind |-> v, who |-> r.who, mount |-> r.mount, state |-> r.state, answer |-> r.answer]
           /\ [r EXCEPT !.state = v] = [kind |-> r.kind, who |-> r.who, mount |-> r.mount, state |-> v, answer |-> r.answer]
           /\ [r EXCEPT !.answer = v] = [kind |-> r.kind, who |-> r.who, mount |-> r.mount, state |-> r.state, answer |-> v]
<1>1. ASSUME NEW k, NEW w, NEW m, NEW s, NEW a, r = [kind |-> k, who |-> w, mount |-> m, state |-> s, answer |-> a]
      PROVE  /\ [r EXCEPT !.kind = v] = [kind |-> v, who |-> w, mount |-> m, state |-> s, answer |-> a]
             /\ [r EXCEPT !.state = v] = [kind |-> k, who |-> w, mount |-> m, state |-> v, answer |-> a]
             /\ [r EXCEPT !.answer = v] = [kind |-> k, who |-> w, mount |-> m, state |-> s, answer |-> v]
  BY <1>1
<1> QED BY <1>1 DEF Login!IsRequest
LEMMA Moved ==
    ASSUME NEW r, Login!IsRequest(r), NEW v, NEW w
    PROVE  /\ [r EXCEPT !.kind = v, !.state = w] = [kind |-> v, who |-> r.who, mount |-> r.mount, state |-> w, answer |-> r.answer]
           /\ [r EXCEPT !.state = v, !.answer = w] = [kind |-> r.kind, who |-> r.who, mount |-> r.mount, state |-> v, answer |-> w]
<1> DEFINE p == [r EXCEPT !.kind = v]
           q == [r EXCEPT !.state = v]
<1>1. /\ p = [kind |-> v, who |-> r.who, mount |-> r.mount, state |-> r.state, answer |-> r.answer]
      /\ q = [kind |-> r.kind, who |-> r.who, mount |-> r.mount, state |-> v, answer |-> r.answer]
  BY Rewritten
<1>2. /\ [r EXCEPT !.kind = v, !.state = w] = [p EXCEPT !.state = w]
      /\ [r EXCEPT !.state = v, !.answer = w] = [q EXCEPT !.answer = w]
  OBVIOUS
<1> HIDE DEF p, q
<1>3. p.kind = v /\ p.who = r.who /\ p.mount = r.mount /\ p.state = r.state /\ p.answer = r.answer
  BY <1>1
<1>4. q.kind = r.kind /\ q.who = r.who /\ q.mount = r.mount /\ q.state = v /\ q.answer = r.answer
  BY <1>1
<1>5. Login!IsRequest(p) /\ Login!IsRequest(q)
  BY <1>1, <1>3, <1>4 DEF Login!IsRequest
<1>6. /\ [p EXCEPT !.state = w] = [kind |-> p.kind, who |-> p.who, mount |-> p.mount, state |-> w, answer |-> p.answer]
      /\ [q EXCEPT !.answer = w] = [kind |-> q.kind, who |-> q.who, mount |-> q.mount, state |-> q.state, answer |-> w]
  BY <1>5, Rewritten
<1> QED BY <1>2, <1>3, <1>4, <1>6
\* At first the session is asked for and nothing else.
LEMMA SignInStarts == Login!Init => Login!SignInInv
<1> SUFFICES ASSUME Login!Init PROVE Login!SignInInv
  OBVIOUS
<1> DEFINE boot == [kind |-> "boot", who |-> {}, mount |-> 0, state |-> "sent", answer |-> {}]
<1>1. /\ x9 = {boot} /\ boot.kind = "boot" /\ boot.state = "sent"
      /\ Login!IsRequest(boot)
  BY DEF Login!Init, Login!IsRequest
<1> HIDE DEF boot
<1>2. \A r \in x9 : Login!Fits(r)
  BY <1>1 DEF Login!Init, Login!Fits
<1> QED
  BY <1>1, <1>2 DEF Login!Init, Login!SignInInv, Login!EmptyForm, Login!OneSigns

\* A request that signs in or out, or asks who is signed in, is alone in doing so.
LEMMA SignInStep == Login!SignInInv /\ [Login!Next]_(Login!vars) => Login!SignInInv'
<1> SUFFICES ASSUME Login!SignInInv, [Login!Next]_(Login!vars) PROVE Login!SignInInv'
  OBVIOUS
<1> USE DEF Login!net
<1> DEFINE Shaped(f) == f = [step |-> f.step, email |-> f.email, sentTo |-> f.sentTo, busy |-> f.busy]
           Told == x2 # {} => x1 = x2 \/ \E r \in x9 :
                     \/ r.kind \in {"boot", "session"}
                     \/ r.kind \in {"verify", "dev", "claim"} /\ r.state = "done"
                     \/ r.kind = "logout" /\ r.state # "sent"
<1>0. /\ x5 \in Nat /\ x4 \in {"login", "invite", "home"} /\ x3 \in BOOLEAN /\ x8 \in BOOLEAN /\ Shaped(x6)
      /\ \A r \in x9 : Login!Fits(r)
      /\ \A r, q \in x9 : r.kind \in Login!Signs /\ q.kind \in Login!Signs => r = q
      /\ Told
  BY DEF Login!SignInInv, Login!OneSigns
<1>a. ASSUME x5' \in Nat, x4' \in {"login", "invite", "home"}, x3' \in BOOLEAN, x8' \in BOOLEAN, Shaped(x6)',
             \A r \in x9' : Login!Fits(r)',
             \A r, q \in x9' : r.kind \in Login!Signs /\ q.kind \in Login!Signs => r = q,
             Told'
      PROVE  Login!SignInInv'
  BY <1>a DEF Login!SignInInv, Login!OneSigns
<1>1. CASE (\E a \in Visitor : Login!TypeEmail(a)) \/ Login!GoBack
  <2>1. UNCHANGED <<x1, x2, x3, x4, x5, x8, x9>> /\ Shaped(x6)' /\ x6'.busy = x6.busy
    BY <1>0, <1>1 DEF Login!TypeEmail, Login!GoBack, Login!OnForm
  <2> HIDE DEF Shaped
  <2>2. \A r \in x9' : Login!Fits(r)'
    BY <1>0, <2>1 DEF Login!Fits
  <2> QED BY <1>0, <1>a, <2>1, <2>2
<1>2. CASE Login!HandleSendOtp \/ Login!HandleVerifyOtp \/ Login!HandleDevLogin
  <2>1. PICK k \in {"send", "verify", "dev"} : x9' = x9 \cup {Login!Request(k, x6.email)}
    BY <1>2 DEF Login!HandleSendOtp, Login!HandleVerifyOtp, Login!HandleDevLogin, Login!Send
  <2> DEFINE asked == Login!Request(k, x6.email)
  <2>2. /\ x9' = x9 \cup {asked} /\ asked.kind = k /\ asked.mount = x5 /\ asked.state = "sent"
        /\ Login!IsRequest(asked)
    BY <2>1 DEF Login!Request, Login!IsRequest
  <2> HIDE DEF asked
  <2>3. UNCHANGED <<x1, x2, x3, x4, x5, x8>> /\ x6'.busy /\ Shaped(x6)' /\ x4 = "login" /\ ~ x3 /\ ~ x6.busy
    BY <1>0, <1>2 DEF Login!HandleSendOtp, Login!HandleVerifyOtp, Login!HandleDevLogin, Login!OnForm
  <2> HIDE DEF Shaped
  <2>4. \A r \in x9 : r.kind \notin Login!Signs \cup {"send", "open"}
    BY <1>0, <2>3 DEF Login!Fits, Login!Signs, Login!IsRequest
  <2>5. ASSUME NEW q \in x9' PROVE Login!Fits(q)'
    <3>1. CASE q \in x9
      BY <1>0, <2>2, <2>3, <2>4, <3>1 DEF Login!Fits, Login!Signs, Login!IsRequest
    <3>2. CASE q = asked
      BY <2>2, <2>3, <2>4, <3>2 DEF Login!Fits, Login!Signs, Login!IsRequest
    <3> QED BY <2>2, <3>1, <3>2
  <2> QED BY <1>0, <1>a, <2>2, <2>3, <2>4, <2>5
<1>3. CASE Login!HandleResend
  <2> DEFINE asked == Login!Request("resend", x6.email)
  <2>1. /\ UNCHANGED <<x1, x2, x3, x4, x5, x6, x8>> /\ x9' = x9 \cup {asked} /\ asked.kind = "resend" /\ x4 = "login" /\ ~ x3
        /\ Login!IsRequest(asked)
    BY <1>3 DEF Login!HandleResend, Login!Send, Login!Request, Login!OnForm, Login!IsRequest
  <2> HIDE DEF asked, Shaped
  <2>2. ASSUME NEW q \in x9' PROVE Login!Fits(q)'
    <3>1. CASE q \in x9
      BY <1>0, <2>1, <3>1 DEF Login!Fits, Login!Signs, Login!IsRequest
    <3>2. CASE q = asked
      BY <2>1, <3>2 DEF Login!Fits
    <3> QED BY <2>1, <3>1, <3>2
  <2>3. Shaped(x6)'
    BY <1>0, <2>1
  <2> QED BY <1>0, <1>a, <2>1, <2>2, <2>3 DEF Login!Signs
<1>4. CASE Login!AcceptInvite
  <2> DEFINE asked == Login!Request("claim", {Invitee})
  <2>1. /\ UNCHANGED <<x1, x2, x3, x4, x5, x6, x8>> /\ x9' = {asked} /\ asked.kind = "claim" /\ asked.state = "sent"
        /\ x9 = {} /\ x4 = "invite" /\ ~ x3
        /\ Login!IsRequest(asked)
    BY <1>4 DEF Login!AcceptInvite, Login!Send, Login!Request, Login!IsRequest
  <2> HIDE DEF asked, Shaped
  <2>2. \A q \in x9' : Login!Fits(q)'
    BY <1>0, <2>1 DEF Login!Fits, Login!IsRequest
  <2>3. Shaped(x6)'
    BY <1>0, <2>1
  <2> QED BY <1>0, <1>a, <2>1, <2>2, <2>3
<1>5. CASE Login!SignOut
  <2> DEFINE asked == Login!Request("logout", {})
  <2>1. /\ UNCHANGED <<x1, x2, x3, x4, x5, x6, x8>> /\ x9' = {asked} /\ asked.kind = "logout"
        /\ x9 = {} /\ x4 # "login"
        /\ Login!IsRequest(asked)
    BY <1>5 DEF Login!SignOut, Login!Send, Login!Request, Login!IsRequest
  <2> HIDE DEF asked, Shaped
  <2>2. \A q \in x9' : Login!Fits(q)'
    BY <1>0, <2>1 DEF Login!Fits, Login!IsRequest
  <2>3. Shaped(x6)'
    BY <1>0, <2>1
  <2> QED BY <1>0, <1>a, <2>1, <2>2, <2>3
<1>6. CASE Login!Leave("login") \/ Login!Leave("invite")
  <2> DEFINE asked == [kind |-> "preview", who |-> {}, mount |-> x5 + 1, state |-> "sent", answer |-> {}]
  <2>1. /\ UNCHANGED <<x1, x2, x3, x8>> /\ x9 = {} /\ x5' = x5 + 1 /\ ~ x3 /\ Shaped(x6)'
        /\ \/ x4' = "login" /\ x9' = {}
           \/ x4' = "invite" /\ x9' = {asked}
        /\ asked.kind = "preview" /\ asked.mount = x5 + 1 /\ asked.state = "sent"
        /\ Login!IsRequest(asked)
    BY <1>6 DEF Login!Leave, Login!Mount, Login!EmptyForm, Login!IsRequest
  <2> HIDE DEF asked, Shaped
  <2>2. \A q \in x9' : Login!Fits(q)'
    BY <1>0, <2>1 DEF Login!Fits, Login!IsRequest
  <2> QED BY <1>0, <1>a, <2>1, <2>2
<1>7. CASE \E r \in x9 : Login!SendLands(r)
  <2>1. PICK r \in x9 : Login!SendLands(r)
    BY <1>7
  <2>2. /\ UNCHANGED <<x1, x2, x3, x4, x5, x8>> /\ x9' = x9 \ {r} /\ Shaped(x6)'
        /\ r.kind \in {"send", "resend"} /\ (r.kind = "resend" => x6' = x6)
    BY <1>0, <2>1 DEF Login!SendLands, Login!Done
  <2> HIDE DEF Shaped
  <2>3. ASSUME NEW q \in x9' PROVE Login!Fits(q)'
    <3>1. Login!Fits(r) /\ Login!Fits(q) /\ q \in x9 /\ q # r
      BY <1>0, <2>2
    <3> QED BY <2>2, <3>1 DEF Login!Fits, Login!Signs, Login!IsRequest
  <2> QED BY <1>0, <1>a, <2>2, <2>3
<1>8. CASE \E r \in x9 : Login!VerifyLands(r)
  <2>1. PICK r \in x9 : Login!VerifyLands(r)
    BY <1>8
  <2>2. /\ UNCHANGED <<x1, x3, x8>> /\ x9' = x9 \ {r} /\ r.kind = "verify" /\ r.state # "sent"
        /\ \/ r.state = "done" /\ x2' = r.answer /\ x4' = "home" /\ x5' = x5 + 1 /\ x6' = Login!EmptyForm
           \/ r.state # "done" /\ UNCHANGED <<x2, x4, x5>> /\ Shaped(x6)'
    BY <1>0, <2>1 DEF Login!VerifyLands, Login!Done, Login!Mount
  <2>3. Shaped(x6)'
    BY <2>2 DEF Login!EmptyForm
  <2> HIDE DEF Shaped
  <2>4. ~ x3 /\ x4 = "login" /\ (r.state = "done" => r.answer = x1)
    BY <1>0, <2>2 DEF Login!Fits
  <2>5. \A q \in x9' : q.kind \notin Login!Signs \cup {"send", "open"}
    BY <1>0, <2>2, <2>4 DEF Login!Fits, Login!Signs, Login!IsRequest
  <2>6. ASSUME NEW q \in x9' PROVE Login!Fits(q)'
    <3>1. Login!Fits(q) /\ q \in x9 /\ q # r
      BY <1>0, <2>2
    <3> QED BY <1>0, <2>2, <2>4, <2>5, <3>1 DEF Login!Fits, Login!Signs, Login!IsRequest
  <2> QED BY <1>0, <1>a, <2>2, <2>3, <2>4, <2>5, <2>6
<1>9. CASE \E r \in x9 : Login!AsksSession(r)
  <2>1. PICK r \in x9 : Login!AsksSession(r)
    BY <1>9
  <2>2. UNCHANGED <<x1, x2, x4, x5, x8>> /\ r.kind \in {"dev", "claim"} /\ Shaped(x6)'
    BY <1>0, <2>1 DEF Login!AsksSession, Login!Done
  <2>3. ~ x3 /\ x4 \in {"login", "invite"} /\ (x4 = "invite" => r.kind = "claim")
    BY <1>0, <2>2 DEF Login!Fits
  <2>4. \A q \in x9 \ {r} : q.kind \notin Login!Signs \cup {"send", "open"}
    BY <1>0, <2>2, <2>3 DEF Login!Fits, Login!Signs, Login!IsRequest
  <2>5. CASE r.state = "done"
    <3> DEFINE asked == [r EXCEPT !.kind = "session", !.state = "sent"]
    <3>0. Login!IsRequest(r)
      BY <1>0 DEF Login!Fits
    <3>a. asked = [kind |-> "session", who |-> r.who, mount |-> r.mount, state |-> "sent", answer |-> r.answer]
      BY <3>0, Moved
    <3>1. x9' = (x9 \ {r}) \cup {asked} /\ x3' = TRUE /\ x6' = x6
      BY <2>1, <2>5 DEF Login!AsksSession
    <3> HIDE DEF asked, Shaped
    <3>2. x4 = "invite" => ~ x8 /\ \A q \in x9 : q.kind \notin {"preview", "open"}
      BY <1>0, <2>2, <2>3, <2>5 DEF Login!Fits
    <3>3. ASSUME NEW q \in x9' PROVE Login!Fits(q)'
      <4>1. CASE q \in x9 \ {r}
        BY <1>0, <2>2, <2>3, <2>4, <3>1, <3>2, <4>1 DEF Login!Fits, Login!Signs, Login!IsRequest
      <4>2. CASE q = asked
        BY <2>2, <2>3, <2>4, <3>1, <3>2, <3>a, <4>2 DEF Login!Fits, Login!Signs, Login!IsRequest
      <4> QED BY <3>1, <4>1, <4>2
    <3> QED BY <1>0, <1>a, <2>2, <2>4, <3>1, <3>3, <3>a
  <2>6. CASE r.state # "done"
    <3>1. x9' = x9 \ {r} /\ x3' = x3 /\ (r.kind = "claim" => x6' = x6)
      BY <2>1, <2>6 DEF Login!AsksSession
    <3> HIDE DEF Shaped
    <3>2. ASSUME NEW q \in x9' PROVE Login!Fits(q)'
      <4>1. Login!Fits(r) /\ Login!Fits(q) /\ q \in x9 /\ q # r
        BY <1>0, <3>1
      <4> QED BY <2>2, <2>3, <2>4, <3>1, <4>1 DEF Login!Fits, Login!Signs, Login!IsRequest
    <3> QED BY <1>0, <1>a, <2>2, <2>4, <2>6, <3>1, <3>2
  <2> QED BY <2>5, <2>6
<1>10. CASE \E r \in x9 : Login!PreviewLands(r)
  <2>1. PICK r \in x9 : Login!PreviewLands(r)
    BY <1>10
  <2> DEFINE asked == Login!Request("claim", {Invitee})
  <2>2. /\ UNCHANGED <<x1, x2, x3, x4, x5, x6, x8>> /\ r.kind = "preview"
        /\ \/ x9' = x9 \ {r}
           \/ r.state = "done" /\ r.mount = x5 /\ x9' = (x9 \ {r}) \cup {asked}
        /\ asked.kind = "claim" /\ asked.state = "sent" /\ asked.mount = x5
        /\ Login!IsRequest(asked)
    BY <2>1 DEF Login!PreviewLands, Login!Done, Login!Mine, Login!Request, Login!IsRequest
  <2>3. Shaped(x6)'
    BY <1>0, <2>2
  <2> HIDE DEF asked, Shaped
  <2>4. CASE x9' = x9 \ {r}
    <3>1. ASSUME NEW q \in x9' PROVE Login!Fits(q)'
      <4>1. Login!Fits(q) /\ q \in x9 /\ q # r
        BY <1>0, <2>4
      <4> QED BY <2>2, <2>4, <4>1 DEF Login!Fits, Login!Signs, Login!IsRequest
    <3> QED BY <1>0, <1>a, <2>2, <2>3, <2>4, <3>1
  <2>5. CASE r.state = "done" /\ r.mount = x5 /\ x9' = (x9 \ {r}) \cup {asked}
    <3>1. x4 = "invite" /\ ~ x3
      BY <1>0, <2>2, <2>5 DEF Login!Fits
    <3>2. \A q \in x9 \ {r} : q.kind \notin Login!Signs \cup {"send", "open", "preview"}
      BY <1>0, <2>2, <2>5, <3>1 DEF Login!Fits, Login!Signs, Login!IsRequest
    <3>3. ASSUME NEW q \in x9' PROVE Login!Fits(q)'
      <4>1. CASE q \in x9 \ {r}
        BY <1>0, <2>2, <2>5, <3>1, <3>2, <4>1 DEF Login!Fits, Login!Signs, Login!IsRequest
      <4>2. CASE q = asked
        BY <2>2, <2>5, <3>1, <3>2, <4>2 DEF Login!Fits, Login!Signs, Login!IsRequest
      <4> QED BY <2>5, <4>1, <4>2
    <3> QED BY <1>0, <1>a, <2>2, <2>3, <2>5, <3>2, <3>3 DEF Login!Signs
  <2> QED BY <2>2, <2>4, <2>5
<1>11. CASE \E r \in x9 : Login!SessionLands(r)
  <2>1. PICK r \in x9 : Login!SessionLands(r)
    BY <1>11
  <2> DEFINE asked == [kind |-> "preview", who |-> {}, mount |-> x5 + 1, state |-> "sent", answer |-> {}]
             goes == [r EXCEPT !.kind = "open", !.state = "done"]
  <2>2. /\ UNCHANGED <<x1, x8>> /\ r.kind \in {"boot", "session"} /\ x3' = FALSE /\ x5' = x5 + 1 /\ x6' = Login!EmptyForm
        /\ x2' \in {{}, r.answer} /\ (r.state # "done" => x2' = {})
    BY <2>1 DEF Login!SessionLands, Login!Done, Login!Mount
  <2>3. Shaped(x6)'
    BY <2>2 DEF Login!EmptyForm
  <2> HIDE DEF Shaped
  <2>4. x3 /\ x4 # "home" /\ x2' \in {{}, x1} /\ (x4 = "invite" /\ r.kind = "session" => ~ x8)
    BY <1>0, <2>2 DEF Login!Fits
  <2>5. ASSUME NEW q \in x9 \ {r}
        PROVE  q.kind \notin Login!Signs \cup {"send", "open"} /\ (x4 = "invite" => q.kind # "preview")
    <3>1. Login!Fits(q) /\ Login!Fits(r) /\ (q.kind \in Login!Signs => q = r)
      BY <1>0, <2>2 DEF Login!Signs
    <3> QED BY <2>2, <2>4, <3>1 DEF Login!Fits, Login!Signs, Login!IsRequest
  <2>6. /\ x4' \in {"login", "invite", "home"} /\ (x4' = "invite" => x4 = "invite")
        /\ x9' \subseteq (x9 \ {r}) \cup {asked, goes}
        /\ asked \in x9' => x4' = "invite" \/ asked \in x9 \ {r}
        /\ goes \in x9' => (r.kind = "session" /\ x4' = "invite") \/ goes \in x9 \ {r} \/ goes = asked
    <3> HIDE DEF asked, goes
    <3>1. CASE r.kind = "session" /\ x4 = "login"
      BY <1>0, <2>1, <3>1 DEF Login!SessionLands, Login!Mount, Login!App, asked, goes
    <3>2. CASE ~ (r.kind = "session" /\ x4 = "login")
      BY <1>0, <2>1, <2>2, <2>4, <3>2 DEF Login!SessionLands, Login!Mount, asked, goes
    <3> QED BY <3>1, <3>2
  <2>7. /\ asked.kind = "preview" /\ asked.mount = x5 + 1 /\ asked.state = "sent"
        /\ Login!IsRequest(asked)
    BY DEF Login!IsRequest
  <2>8. goes = [kind |-> "open", who |-> r.who, mount |-> r.mount, state |-> "done", answer |-> r.answer]
    <3>1. Login!IsRequest(r)
      BY <1>0 DEF Login!Fits
    <3> QED BY <3>1, Moved
  <2> HIDE DEF asked, goes
  <2>9. ASSUME NEW q \in x9' PROVE Login!Fits(q)'
    <3>1. CASE q \in x9 \ {r}
      <4>1. Login!Fits(q)
        BY <1>0, <3>1
      <4> QED BY <1>0, <2>2, <2>4, <2>5, <2>6, <2>7, <2>8, <3>1, <4>1 DEF Login!Fits, Login!Signs, Login!IsRequest
    <3>2. CASE q = asked /\ q \notin x9 \ {r}
      BY <1>0, <2>2, <2>4, <2>5, <2>6, <2>7, <2>8, <3>2 DEF Login!Fits, Login!Signs, Login!IsRequest
    <3>3. CASE q = goes /\ q \notin x9 \ {r}
      <4>1. q.kind = "open" /\ q.state = "done" /\ q.mount = r.mount /\ Login!IsRequest(q)
        BY <2>8, <3>3 DEF Login!IsRequest
      <4>2. x4' = "invite" /\ x4 = "invite" /\ ~ x8'
        BY <2>2, <2>4, <2>6, <2>7, <3>3, <4>1
      <4>3. ASSUME NEW p \in x9' PROVE p = q \/ p.kind \notin Login!Signs \cup {"open", "preview"} \/ (p.kind = "preview" /\ p.state = "sent")
        BY <2>5, <2>6, <2>7, <3>3, <4>2
      <4>4. \A p \in x9' : p.kind \notin Login!Signs /\ (p.kind = "open" => p = q) /\ (p.kind = "preview" => p.state # "done")
        BY <4>1, <4>3 DEF Login!Signs
      <4> QED BY <2>2, <4>1, <4>2, <4>4 DEF Login!Fits
    <3> QED BY <2>6, <3>1, <3>2, <3>3
  <2>10. goes.kind = "open"
    BY <2>8
  <2>11. \A q \in x9' : q.kind \notin Login!Signs
    BY <2>5, <2>6, <2>7, <2>10 DEF Login!Signs
  <2>12. Told'
    BY <2>2, <2>4
  <2>13. x5' \in Nat /\ x8' \in BOOLEAN
    BY <1>0, <2>2
  <2>14. x3' \in BOOLEAN
    BY <2>2
  <2> HIDE DEF Told
  <2> QED BY <1>a, <2>3, <2>6, <2>9, <2>11, <2>12, <2>13, <2>14
<1>12. CASE \E r \in x9 : Login!OpensApp(r) \/ Login!LogoutLands(r)
  <2>1. PICK r \in x9 : Login!OpensApp(r) \/ Login!LogoutLands(r)
    BY <1>12
  <2>2. /\ UNCHANGED <<x1, x3, x8>> /\ r.kind \in {"open", "logout"} /\ x5' = x5 + 1 /\ x6' = Login!EmptyForm
        /\ x2' \in {{}, x2} /\ (r.kind = "logout" => x2' = {}) /\ x4' \in {"login", "home"} /\ x9' = x9 \ {r}
    BY <2>1 DEF Login!OpensApp, Login!LogoutLands, Login!Done, Login!Mount, Login!App
  <2>3. Shaped(x6)'
    BY <2>2 DEF Login!EmptyForm
  <2> HIDE DEF Shaped
  <2>4. ASSUME NEW q \in x9 \ {r} PROVE q.kind \notin Login!Signs \cup {"send", "open"}
    <3>1. Login!Fits(q) /\ Login!Fits(r)
      BY <1>0
    <3> QED BY <2>2, <3>1 DEF Login!Fits, Login!Signs, Login!IsRequest
  <2>5. ASSUME NEW q \in x9' PROVE Login!Fits(q)'
    <3>1. Login!Fits(q)
      BY <1>0, <2>2
    <3> QED BY <1>0, <2>2, <2>4, <3>1 DEF Login!Fits, Login!Signs, Login!IsRequest
  <2>6. Told'
    <3>1. CASE r.kind = "logout"
      BY <2>2, <3>1
    <3>2. CASE r.kind = "open"
      BY <1>0, <2>2, <3>2
    <3> QED BY <2>2, <3>1, <3>2
  <2> QED BY <1>0, <1>a, <2>2, <2>3, <2>4, <2>5, <2>6
<1>13. CASE \E r \in x9, ok \in BOOLEAN, arrives \in BOOLEAN : Login!Serve(r, ok, arrives)
  <2>1. PICK r \in x9, ok \in BOOLEAN, arrives \in BOOLEAN : Login!Serve(r, ok, arrives)
    BY <1>13
  <2> DEFINE served == (CASE r.kind \in {"preview", "claim"} -> x8 /\ ok [] OTHER -> ok)
             sets == served /\ arrives
             answered == [r EXCEPT !.state = IF sets THEN "done" ELSE "failed",
                                   !.answer = IF r.kind \in {"boot", "session"} THEN x1 ELSE r.who]
  <2>2. /\ UNCHANGED <<x2, x3, x4, x5, x6>> /\ r.state = "sent" /\ x9' = (x9 \ {r}) \cup {answered}
        /\ x8' = (x8 /\ ~ (served /\ r.kind = "claim"))
        /\ x1' = CASE sets /\ r.kind \in {"verify", "dev", "claim"} -> r.who
                   [] sets /\ r.kind = "logout" -> {}
                   [] OTHER -> x1
    BY <2>1 DEF Login!Serve
  <2>3. served \in BOOLEAN /\ sets \in BOOLEAN
    BY <1>0
  <2>4. Login!Fits(r) /\ Login!IsRequest(r)
    BY <1>0 DEF Login!Fits
  <2>5. answered = [kind |-> r.kind, who |-> r.who, mount |-> r.mount, state |-> IF sets THEN "done" ELSE "failed",
                    answer |-> IF r.kind \in {"boot", "session"} THEN x1 ELSE r.who]
    <3> HIDE DEF sets
    <3> QED BY <2>4, Moved
  <2>6. /\ answered.kind = r.kind /\ answered.mount = r.mount /\ Login!IsRequest(answered)
        /\ answered.state = IF sets THEN "done" ELSE "failed"
        /\ answered.answer = IF r.kind \in {"boot", "session"} THEN x1 ELSE r.who
    BY <2>5 DEF Login!IsRequest
  <2>7. Shaped(x6)'
    BY <1>0, <2>2
  <2> HIDE DEF answered, Shaped
  <2>8. /\ sets /\ r.kind \in {"verify", "dev", "claim"} => x1' = r.who
        /\ ~ sets \/ r.kind \notin {"verify", "dev", "claim", "logout"} => x1' = x1
        /\ x8' \in BOOLEAN /\ (~ x8 => ~ x8')
        /\ sets /\ r.kind = "claim" => ~ x8'
        /\ sets /\ r.kind = "preview" => x8
    BY <1>0, <2>2, <2>3
  <2> HIDE DEF sets, served
  <2>9. ASSUME NEW q \in x9 \ {r}, q.kind \in {"boot", "session", "verify"}, q.state = "done"
        PROVE  x1' = x1
    BY <1>0, <2>8, <2>9, <2>4 DEF Login!Signs
  <2>10. ASSUME NEW q \in x9' PROVE Login!Fits(q)'
    <3>1. CASE q \in x9 \ {r}
      <4>1. Login!Fits(q)
        BY <1>0, <3>1
      <4> QED BY <2>2, <2>4, <2>6, <2>8, <2>9, <3>1, <4>1 DEF Login!Fits, Login!IsRequest
    <3>2. CASE q = answered
      BY <2>2, <2>4, <2>6, <2>8, <3>2 DEF Login!Fits, Login!IsRequest
    <3> QED BY <2>2, <3>1, <3>2
  <2>11. \A p, q \in x9' : p.kind \in Login!Signs /\ q.kind \in Login!Signs => p = q
    BY <1>0, <2>2, <2>6
  <2>12. Told'
    BY <1>0, <2>2, <2>4, <2>6, <2>8
  <2> QED BY <1>0, <1>a, <2>2, <2>7, <2>8, <2>10, <2>11, <2>12
<1>14. CASE UNCHANGED Login!vars
  BY <1>0, <1>a, <1>14 DEF Login!vars, Login!Fits
<1> QED
  BY <1>1, <1>2, <1>3, <1>4, <1>5, <1>6, <1>7, <1>8, <1>9, <1>10, <1>11, <1>12, <1>13, <1>14 DEF Login!Next

\* The user shown is the cookie's, from the argument alone.
LEMMA SignInHolds == Login!SignInInv => Login!UserIsTheCookies
<1> SUFFICES ASSUME Login!SignInInv PROVE Login!UserIsTheCookies
  OBVIOUS
<1>1. \A r, q \in x9 : r.kind = "claim" /\ q.kind = "claim" => r = q
  BY DEF Login!SignInInv, Login!OneSigns, Login!Signs
<1> QED BY <1>1 DEF Login!SignInInv, Login!UserIsTheCookies

-----------------------------------------------------------------------------
(* The staff's pages: x1 and x2 are the server's verdicts and reasons, x4   *)
(* the location, x5 and x6 the page that shows it, x9 its email, x10 the    *)
(* calls, x12 and x13 the dialog, x16 the number of pages.                  *)
Staff == INSTANCE StaffPages WITH
        File <- Document,
        status <- x1, reason <- x2, kind <- x3, route <- x4, mounted <- x5, instance <- x6, filter <- x7,
        entry <- x8, detail <- x9, calls <- x10, busy <- x11, rejecting <- x12, typed <- x13, last <- x14,
        decisions <- x15, visits <- x16

\* Where a location leads.
LEMMA Place ==
    ASSUME NEW r \in Staff!Locations
    PROVE  /\ r[1] \in {"review", "inbound", "detail"}
           /\ r[1] = "detail" => r = <<"detail", r[2]>>
           /\ r \notin {<<"review">>, <<"inbound">>} => r[1] = "detail"
  BY DEF Staff!Locations

\* At first no reason is typed, and a page of an email asks for it.
LEMMA PagesStart == Staff!Init => Staff!PagesInv
<1> SUFFICES ASSUME Staff!Init PROVE Staff!PagesInv
  OBVIOUS
<1>1. \A c \in x10 : Staff!Sent(c)
  BY Place DEF Staff!Init, Staff!Sent, Staff!DetailCall
<1>2. Staff!ReasonsInv
  BY DEF Staff!Init, Staff!ReasonsInv, Staff!ReasonsBelong
<1>3. Staff!LocationInv
  BY DEF Staff!Init, Staff!LocationInv, Staff!Loading
<1> QED BY <1>1, <1>2, <1>3 DEF Staff!PagesInv

\* What no page step touches stays as it is.
LEMMA ReasonsStay ==
    Staff!ReasonsInv /\ UNCHANGED <<x1, x2, x12, x13>> => Staff!ReasonsInv'
  BY DEF Staff!ReasonsInv, Staff!ReasonsBelong

\* Nor does what it leaves of the location.
LEMMA LocationStays ==
    Staff!LocationInv /\ UNCHANGED <<x4, x5, x6, x9, x16>> => Staff!LocationInv'
  BY DEF Staff!LocationInv

\* Nor the calls it leaves.
LEMMA CallsStay ==
    (\A c \in x10 : Staff!Sent(c)) /\ x10' \subseteq x10 /\ UNCHANGED <<x4, x6, x16>> => (\A c \in x10 : Staff!Sent(c))'
  BY DEF Staff!Sent

\* A call of the page that is shown joins them.
LEMMA SentJoins ==
    ASSUME \A c \in x10 : Staff!Sent(c), NEW c, Staff!Sent(c), x10' \subseteq x10 \cup {c}, UNCHANGED <<x4, x6, x16>>
    PROVE  (\A d \in x10 : Staff!Sent(d))'
<1>1. ASSUME NEW d \in x10' PROVE Staff!Sent(d)'
  <2>1. Staff!Sent(d)
    OBVIOUS
  <2> QED BY <2>1 DEF Staff!Sent
<1> QED BY <1>1

\* A page that comes up shows no answer of another and has no reason typed.
LEMMA VisitKeeps ==
    ASSUME Staff!PagesInv, NEW r \in Staff!Locations, Staff!Visit(r)
    PROVE  Staff!PagesInv'
<1> USE DEF Staff!PagesInv, Staff!LocationInv, Staff!Visit, Staff!RouterKey
<1>1. x16 \in Nat /\ x16' = x16 + 1 /\ x6' = x16' /\ x4' = r /\ x5' = r /\ x9' = Staff!Loading /\ x12' = {} /\ x13' = {}
  OBVIOUS
<1>2. Staff!LocationInv'
  BY <1>1 DEF Staff!Loading
<1>3. Staff!ReasonsInv'
  BY <1>1 DEF Staff!ReasonsInv, Staff!ReasonsBelong, Staff!server
<1>4. x10' = x10 \/ (r[1] = "detail" /\ x10' = x10 \cup {Staff!DetailCall(r, x16')})
  BY <1>1
<1>5. ASSUME NEW c \in x10' PROVE Staff!Sent(c)'
  <2>1. CASE c \in x10
    <3>1. Staff!Sent(c)
      BY <2>1
    <3> QED BY <1>1, <3>1 DEF Staff!Sent
  <2>2. CASE r[1] = "detail" /\ c = Staff!DetailCall(r, x16')
    <3>1. c.op = "detail" /\ c.page = x16' /\ c.arg = r[2] /\ r = <<"detail", r[2]>>
      BY <2>2, Place DEF Staff!DetailCall
    <3> QED BY <1>1, <3>1 DEF Staff!Sent
  <2> QED BY <1>4, <2>1, <2>2
<1> HIDE DEF Staff!LocationInv
<1> QED BY <1>2, <1>3, <1>5

\* A decision carries the reason of its file, and an answer is shown on the page that asked.
LEMMA PagesStep == Staff!PagesInv /\ [Staff!Next]_(Staff!vars) => Staff!PagesInv'
<1> SUFFICES ASSUME Staff!PagesInv, [Staff!Next]_(Staff!vars) PROVE Staff!PagesInv'
  OBVIOUS
<1> USE DEF Staff!server, Staff!page, Staff!dialog
<1>0. Staff!ReasonsInv /\ Staff!LocationInv /\ \A c \in x10 : Staff!Sent(c)
  BY DEF Staff!PagesInv
<1>1. CASE Staff!ReadQueue \/ Staff!ReadList \/ (\E k \in Staff!Key : Staff!GoesStale(k) \/ \E ok \in BOOLEAN : Staff!Fetched(k, ok))
           \/ (\E s \in Staff!Filter : Staff!SetFilter(s)) \/ (\E e \in Email : Staff!Process(e))
  <2>1. UNCHANGED <<x1, x2, x4, x5, x6, x9, x10, x12, x13, x16>>
    BY <1>1 DEF Staff!ReadQueue, Staff!ReadList, Staff!ReadData, Staff!GoesStale, Staff!Fetched, Staff!SetFilter, Staff!Process
  <2> QED BY <1>0, <2>1, ReasonsStay, LocationStays, CallsStay DEF Staff!PagesInv
<1>2. CASE \E r \in Staff!Locations : Staff!Navigate(r)
  BY <1>2, VisitKeeps DEF Staff!Navigate
<1>3. CASE \E e \in Email : Staff!OpenDetail(e)
  BY <1>3, VisitKeeps DEF Staff!OpenDetail, Staff!Locations
<1>4. CASE \E c \in x10, ok \in BOOLEAN : Staff!DetailLoads(c, ok)
  <2>1. PICK c \in x10, ok \in BOOLEAN : Staff!DetailLoads(c, ok)
    BY <1>4
  <2>2. UNCHANGED <<x1, x2, x4, x5, x6, x12, x13, x16>> /\ x10' \subseteq x10
    BY <2>1 DEF Staff!DetailLoads
  <2>3. Staff!LocationInv'
    <3>1. CASE x9' = x9
      BY <1>0, <2>2, <3>1, LocationStays
    <3>2. CASE x9' = [Staff!Loading EXCEPT !.state = "error"]
      BY <1>0, <2>2, <3>2 DEF Staff!LocationInv, Staff!Loading
    <3>3. CASE c.page = x6 /\ x9' = Staff!DetailAnswer(c.arg)
      <4>1. x4 = <<"detail", c.arg>>
        BY <1>0, <2>1, <3>3 DEF Staff!Sent, Staff!DetailLoads
      <4>2. /\ x9'.state \in {"email", "notFound"} /\ x9'.links \in {"none", "good"}
            /\ x9'.email \subseteq {c.arg}
            /\ x9'.links # "none" => x9'.email \subseteq Stored \ Foreign
        BY <3>3 DEF Staff!DetailAnswer
      <4>3. x4'[1] = "detail" /\ x4'[2] = c.arg
        BY <2>2, <4>1
      <4> QED BY <1>0, <2>2, <4>2, <4>3 DEF Staff!LocationInv
    <3> QED BY <2>1, <3>1, <3>2, <3>3 DEF Staff!DetailLoads
  <2> QED BY <1>0, <2>2, <2>3, ReasonsStay, CallsStay DEF Staff!PagesInv
<1>5. CASE Staff!LinksExpire
  <2>1. UNCHANGED <<x1, x2, x4, x5, x6, x10, x12, x13, x16>> /\ x9.links = "good" /\ x9' = [x9 EXCEPT !.links = "expired"]
    BY <1>5 DEF Staff!LinksExpire
  <2>2. Staff!LocationInv'
    BY <1>0, <2>1 DEF Staff!LocationInv
  <2> QED BY <1>0, <2>1, <2>2, ReasonsStay, CallsStay DEF Staff!PagesInv
<1>6. CASE \E f \in Document : Staff!Upload(f) \/ Staff!Approve(f)
  <2>1. PICK f \in Document : Staff!Upload(f) \/ Staff!Approve(f)
    BY <1>6
  <2>2. UNCHANGED <<x1, x2, x4, x5, x6, x9, x12, x13, x16>>
    BY <2>1 DEF Staff!Upload, Staff!Approve
  <2>3. PICK op \in {"pending_review", "approved"} : Staff!Send(f, op, {})
    BY <2>1 DEF Staff!Upload, Staff!Approve
  <2> DEFINE c == [op |-> op, arg |-> f, why |-> {}, n |-> x15', page |-> x6, state |-> "sent"]
  <2>4. x10' \subseteq x10 \cup {c} /\ Staff!Sent(c)
    BY <1>0, <2>3 DEF Staff!Send, Staff!Sent, Staff!LocationInv
  <2> HIDE DEF c
  <2>5. (\A d \in x10 : Staff!Sent(d))'
    BY <1>0, <2>2, <2>4, SentJoins
  <2> QED BY <1>0, <2>2, <2>5, ReasonsStay, LocationStays DEF Staff!PagesInv
<1>7. CASE (\E f \in Document : Staff!OpenReject(f)) \/ Staff!TypeReason \/ Staff!CancelReject
  <2>1. UNCHANGED <<x1, x2, x4, x5, x6, x9, x10, x16>>
    BY <1>7 DEF Staff!OpenReject, Staff!TypeReason, Staff!CancelReject
  <2>2. Staff!ReasonsInv'
    BY <1>0, <1>7 DEF Staff!OpenReject, Staff!TypeReason, Staff!CancelReject, Staff!ReasonsInv, Staff!ReasonsBelong
  <2> QED BY <1>0, <2>1, <2>2, LocationStays, CallsStay DEF Staff!PagesInv
<1>8. CASE Staff!ConfirmReject
  <2>1. UNCHANGED <<x1, x2, x4, x5, x6, x9, x12, x13, x16>>
    BY <1>8 DEF Staff!ConfirmReject
  <2>2. PICK f \in x12 : Staff!Send(f, "rejected", x13) /\ x13 # {}
    BY <1>8 DEF Staff!ConfirmReject
  <2>3. f \in Document /\ x13 = {f}
    BY <1>0, <2>2 DEF Staff!ReasonsInv
  <2> DEFINE c == [op |-> "rejected", arg |-> f, why |-> x13, n |-> x15', page |-> x6, state |-> "sent"]
  <2>4. x10' \subseteq x10 \cup {c} /\ Staff!Sent(c)
    BY <1>0, <2>2, <2>3 DEF Staff!Send, Staff!Sent, Staff!LocationInv
  <2> HIDE DEF c
  <2>5. (\A d \in x10 : Staff!Sent(d))'
    BY <1>0, <2>1, <2>4, SentJoins
  <2> QED BY <1>0, <2>1, <2>5, ReasonsStay, LocationStays DEF Staff!PagesInv
<1>9. CASE \E c \in x10 : Staff!RecordDecision(c)
  <2>1. PICK c \in x10 : Staff!RecordDecision(c)
    BY <1>9
  <2>2. UNCHANGED <<x4, x5, x6, x9, x12, x13, x16>>
    BY <2>1 DEF Staff!RecordDecision
  <2>3. /\ c.op \in {"pending_review", "approved", "rejected"} /\ c.arg \in Document
        /\ c.why = IF c.op = "rejected" THEN {c.arg} ELSE {}
    BY <1>0, <2>1 DEF Staff!RecordDecision, Staff!Sent
  <2>4. Staff!ReasonsInv'
    <3>1. x1' = [x1 EXCEPT ![c.arg] = c.op] /\ x2' = [x2 EXCEPT ![c.arg] = c.why]
      BY <2>1 DEF Staff!RecordDecision
    <3> QED BY <1>0, <2>2, <2>3, <3>1 DEF Staff!ReasonsInv, Staff!ReasonsBelong
  <2> DEFINE d == [c EXCEPT !.state = "done"]
  <2>5. x10' \subseteq x10 \cup {d} /\ d.op = c.op /\ d.arg = c.arg /\ d.why = c.why /\ d.page = c.page
    BY <2>1 DEF Staff!RecordDecision
  <2> HIDE DEF d
  <2>6. Staff!Sent(d)
    BY <1>0, <2>5 DEF Staff!Sent
  <2>7. (\A q \in x10 : Staff!Sent(q))'
    BY <1>0, <2>2, <2>5, <2>6, SentJoins
  <2> QED BY <1>0, <2>2, <2>4, <2>7, LocationStays DEF Staff!PagesInv
<1>10. CASE \E c \in x10, ok \in BOOLEAN : Staff!DecisionLands(c, ok)
  <2>1. UNCHANGED <<x1, x2, x4, x5, x6, x9, x13, x16>> /\ x10' \subseteq x10 /\ x12' \in {{}, x12}
    BY <1>10 DEF Staff!DecisionLands
  <2>2. Staff!ReasonsInv'
    BY <1>0, <2>1 DEF Staff!ReasonsInv, Staff!ReasonsBelong
  <2> QED BY <1>0, <2>1, <2>2, LocationStays, CallsStay DEF Staff!PagesInv
<1>11. CASE UNCHANGED Staff!vars
  <2>1. UNCHANGED <<x1, x2, x4, x5, x6, x9, x10, x12, x13, x16>>
    BY <1>11 DEF Staff!vars
  <2> QED BY <1>0, <2>1, ReasonsStay, LocationStays, CallsStay DEF Staff!PagesInv
<1> QED
  BY <1>1, <1>2, <1>3, <1>4, <1>5, <1>6, <1>7, <1>8, <1>9, <1>10, <1>11 DEF Staff!Next

\* So reasons and details are where they belong.
LEMMA PagesHold == Staff!PagesInv => Staff!ReasonsBelong /\ Staff!DetailIsTheLocations
<1> SUFFICES ASSUME Staff!PagesInv PROVE Staff!ReasonsBelong /\ Staff!DetailIsTheLocations
  OBVIOUS
<1>1. Staff!ReasonsBelong /\ (x4[1] = "detail" => x9.email \subseteq {x4[2]})
  BY DEF Staff!PagesInv, Staff!ReasonsInv, Staff!LocationInv
<1>2. Staff!Downloads \subseteq Stored \ Foreign
  BY DEF Staff!Downloads, Staff!Attachments, Staff!RawMessage, Staff!Loaded, Staff!PagesInv, Staff!LocationInv
<1> QED BY <1>1, <1>2 DEF Staff!DetailIsTheLocations

-----------------------------------------------------------------------------
(* The design page: x1 is the project's file, x2 the draft, x3 what the page *)
(* takes the file to be, x5 and x6 its load and its save, x7 whether the    *)
(* file was written by others meanwhile.                                    *)
Page == INSTANCE DesignPage WITH
        Overlap <- FALSE, MaxChanges <- MaxDesigns,
        file <- x1, design <- x2, baseline <- x3, saveState <- x4, load <- x5, put <- x6, behind <- x7,
        changes <- x8

\* The presets are designs, and the page was built with one.
ASSUME DesignAssumption == Preset \subseteq Page!Design /\ Bundled \in Preset /\ None \notin Page!Design

\* Nothing is loaded at first.
LEMMA DesignStarts == Page!Init => Page!DesignInv
  BY DesignAssumption DEF Page!Init, Page!DesignInv, Page!Quiet, Page!Request

\* The baseline is the file's, or a request is under way that will make it so.
LEMMA DesignStep == Page!DesignInv /\ [Page!Next]_(Page!vars) => Page!DesignInv'
<1> SUFFICES ASSUME Page!DesignInv, [Page!Next]_(Page!vars) PROVE Page!DesignInv'
  OBVIOUS
<1> USE DesignAssumption DEF Page!DesignInv, Page!Request, Page!Quiet
<1>1. CASE Page!Get
  <2>1. CASE Page!Errors(x1) = {}
    <3>1. x5' = [at |-> "answered", design |-> x1] /\ x7' = FALSE
      BY <1>1, <2>1 DEF Page!Get
    <3> QED BY <1>1, <3>1 DEF Page!Get
  <2>2. CASE Page!Errors(x1) # {}
    <3>1. x7' = TRUE /\ UNCHANGED <<x1, x2, x3, x6>> /\ x5.at = "sent" /\ x5' = [at |-> "answered", design |-> None]
      BY <1>1, <2>2 DEF Page!Get
    <3>2. x5'.at = "answered" /\ x5' \in Page!Request
      BY <3>1
    <3>3. x6 = Page!Quiet
      BY <3>1
    <3> QED BY <3>1, <3>2, <3>3
  <2> QED BY <2>1, <2>2
<1>2. CASE Page!Put
  <2>1. CASE Page!Errors(x6.design) = {}
    <3>1. x1' = x2 /\ x6' = [at |-> "answered", design |-> x2] /\ x7' = FALSE
      BY <1>2, <2>1 DEF Page!Put
    <3>2. UNCHANGED <<x2, x3, x5>> /\ x6.at = "sent"
      BY <1>2 DEF Page!Put
    <3>3. x6'.at = "answered" /\ x6'.design = x2 /\ x2 # None /\ x6' \in Page!Request
      BY <3>1
    <3>4. x5 = Page!Quiet
      BY <3>2
    <3> QED BY <3>1, <3>2, <3>3, <3>4
  <2>2. CASE Page!Errors(x6.design) # {}
    <3>1. UNCHANGED <<x1, x2, x3, x5, x7>> /\ x6.at = "sent" /\ x6' = [at |-> "answered", design |-> None]
      BY <1>2, <2>2 DEF Page!Put
    <3>2. x6'.at = "answered" /\ x6'.design = None /\ x6' \in Page!Request
      BY <3>1
    <3>3. x5 = Page!Quiet /\ x5.at = "none"
      BY <3>1
    <3>4. ~ x7 => x3 = x1
      BY <3>1, <3>3
    <3>5. x5' = Page!Quiet /\ x5'.at = "none"
      BY <3>1, <3>3
    <3> QED BY <3>1, <3>2, <3>4, <3>5
  <2> QED BY <2>1, <2>2
<1>3. CASE Page!Fails
  BY <1>3 DEF Page!Fails
<1>4. CASE Page!Mount
  BY <1>4 DEF Page!Mount
<1>5. CASE Page!LoadLands
  BY <1>5 DEF Page!LoadLands
<1>6. CASE Page!SaveLands
  BY <1>6 DEF Page!SaveLands
<1>7. CASE Page!MessageGoes
  BY <1>7 DEF Page!MessageGoes
<1>8. CASE Page!Edit
  <2>1. PICK d \in Page!Design : x2' = [d EXCEPT !.preset = None]
    BY <1>8 DEF Page!Edit
  <2>2. x2' \in Page!Design
    BY <2>1 DEF Page!Design
  <2> QED BY <1>8, <2>2 DEF Page!Edit, Page!Idle
<1>9. CASE Page!ApplyPreset \/ Page!Reset
  BY <1>9 DEF Page!ApplyPreset, Page!Reset, Page!Idle
<1>10. CASE Page!Save
  BY <1>10 DEF Page!Save, Page!Idle
<1>11. CASE \E d \in Page!Design : Page!AgentPuts(d) \/ Page!EditByHand(d)
  BY <1>11 DEF Page!AgentPuts, Page!EditByHand
<1>12. CASE UNCHANGED Page!vars
  BY <1>12 DEF Page!vars
<1> QED
  BY <1>1, <1>2, <1>3, <1>4, <1>5, <1>6, <1>7, <1>8, <1>9, <1>10, <1>11, <1>12 DEF Page!Next

\* What is called saved is then the project's.
LEMMA DesignHolds == Page!DesignInv => Page!SavedIsTheFiles
  BY DEF Page!DesignInv, Page!SavedIsTheFiles, Page!Quiet

-----------------------------------------------------------------------------
(* The scripts that TLC alone checks. *)
Clones == INSTANCE Retrofit WITH
        Clone <- <<"a", "b">>, MaxOdd <- 1, MaxRuns <- 3,
        script <- x1, shape <- x2, marks <- x3, bodies <- x4, run <- x5, ends <- x6
Types == INSTANCE TypeCheck WITH
        Attempts <- 3, MaxRuns <- 3,
        wrong <- x1, missing <- x2, pc <- x3, attempt <- x4, exit <- x5, walks <- x6, files <- x7,
        litter <- x8, runs <- x9
Stack == INSTANCE DevStack WITH
        MaxRuns <- 2, MaxSignals <- 2,
        machine <- x1, script <- x2, pc <- x3, trap <- x4, db <- x5, migrated <- x6, pids <- x7, alive <- x8,
        term <- x9, heard <- x10, lost <- x11, runs <- x12, signals <- x13

-----------------------------------------------------------------------------
(* The composition. *)
jobs == vars
rest15 == x16
rest13 == <<x14, x15, rest15>>
rest12 == <<x13, rest13>>
rest11 == <<x12, rest12>>
rest9 == <<x10, x11, rest11>>
rest8 == <<x9, rest9>>
rest6 == <<x7, x8, rest8>>
rest4 == <<x5, x6, rest6>>
rest1 == <<x2, x3, x4, rest4>>
Off15 == x16 = 0
Off13 == x14 = 0 /\ x15 = 0 /\ Off15
Off12 == x13 = 0 /\ Off13
Off11 == x12 = 0 /\ Off12
Off9 == x10 = 0 /\ x11 = 0 /\ Off11
Off8 == x9 = 0 /\ Off9
Off6 == x7 = 0 /\ x8 = 0 /\ Off8
Off4 == x5 = 0 /\ x6 = 0 /\ Off6
Off1 == x2 = 0 /\ x3 = 0 /\ x4 = 0 /\ Off4
allVars == <<focus, jobs, x1, x2, x3, x4, x5, x6, x7, x8, x9, x10, x11, x12, x13, x14, x15, x16>>

AllInit ==
    /\ Init
    /\ \/ focus = "jobs" /\ x1 = 0 /\ Off1
       \/ focus = "urls" /\ x1 \in Address /\ Off1
       \/ focus = "relay" /\ Hook!Init /\ Off11
       \/ focus = "forms" /\ Forms!Init /\ Off9
       \/ focus = "transport" /\ Send!Init /\ Off9
       \/ focus = "client" /\ Client!Init /\ Off11
       \/ focus = "timeout" /\ Timeout!Init /\ Off11
       \/ focus = "wizard" /\ Wizard!Init /\ Off12
       \/ focus = "settings" /\ Settings!Init /\ Off12
       \/ focus = "sign-in" /\ Login!Init /\ Off9
       \/ focus = "pages" /\ Staff!Init
       \/ focus = "trail" /\ Crumbs!Init
       \/ focus = "tenants" /\ Script!Init /\ Off4
       \/ focus = "retrofit" /\ Clones!Init /\ Off6
       \/ focus = "types" /\ Types!Init /\ Off9
       \/ focus = "stack" /\ Stack!Init /\ Off13
       \/ focus \in {"dev", "panel"} /\ Dev!Init /\ Off15
       \/ focus = "design" /\ Page!Init /\ Off8

AllNext ==
    \/ focus = "jobs" /\ Next /\ UNCHANGED <<focus, x1, rest1>>
    \/ focus = "relay" /\ Hook!Next /\ UNCHANGED <<focus, jobs, rest11>>
    \/ focus = "forms" /\ Forms!Next /\ UNCHANGED <<focus, jobs, rest9>>
    \/ focus = "transport" /\ Send!Next /\ UNCHANGED <<focus, jobs, rest9>>
    \/ focus = "client" /\ Client!Next /\ UNCHANGED <<focus, jobs, rest11>>
    \/ focus = "timeout" /\ Timeout!Next /\ UNCHANGED <<focus, jobs, rest11>>
    \/ focus = "wizard" /\ Wizard!Next /\ UNCHANGED <<focus, jobs, rest12>>
    \/ focus = "settings" /\ Settings!Next /\ UNCHANGED <<focus, jobs, rest12>>
    \/ focus = "sign-in" /\ Login!Next /\ UNCHANGED <<focus, jobs, rest9>>
    \/ focus = "pages" /\ Staff!Next /\ UNCHANGED <<focus, jobs>>
    \/ focus = "trail" /\ Crumbs!Next /\ UNCHANGED <<focus, jobs>>
    \/ focus = "tenants" /\ Script!Next /\ UNCHANGED <<focus, jobs, rest4>>
    \/ focus = "retrofit" /\ Clones!Next /\ UNCHANGED <<focus, jobs, rest6>>
    \/ focus = "types" /\ Types!Next /\ UNCHANGED <<focus, jobs, rest9>>
    \/ focus = "stack" /\ Stack!Next /\ UNCHANGED <<focus, jobs, rest13>>
    \/ focus = "dev" /\ Dev!Database /\ UNCHANGED <<focus, jobs, rest15>>
    \/ focus = "panel" /\ Dev!Panel /\ UNCHANGED <<focus, jobs, rest15>>
    \/ focus = "design" /\ Page!Next /\ UNCHANGED <<focus, jobs, rest8>>

AllSpec == AllInit /\ [][AllNext]_allVars

-----------------------------------------------------------------------------
\* A tab shows and keeps no more than its session: no fetch of before a context
\* switch lands after it (WebClient), and an idle tab is logged off in time,
\* whatever the other tabs do (IdleTimeout).
TabFollowsItsSession ==
    /\ focus = "client" => Client!NothingLandsLate
    /\ focus = "timeout" => Timeout!AutomaticLogoff

\* What a page shows is what the server will act on: an import commits the rows
\* that were previewed (ImportWizard), settings show the server's once nothing is
\* under way (SettingsPage), the signed-in user is the cookie's (SignInPage), a
\* reason stays with its file and an email page with its location (StaffPages), and
\* the design called saved is the project's (DesignPage).
PagesShowWhatHolds ==
    /\ focus = "wizard" => Wizard!CommitsWhatWasShown
    /\ focus = "settings" => Settings!ShowsTheServer
    /\ focus = "sign-in" => Login!UserIsTheCookies
    /\ focus = "pages" => Staff!ReasonsBelong /\ Staff!DetailIsTheLocations
    /\ focus = "design" => Page!SavedIsTheFiles

\* The trail of a session survives its page: a crumb that is queued has a flush
\* coming (pagehide included), and the journal keeps a gapless suffix of what was
\* appended to it (Breadcrumbs); what a page's stores hold reaches /app-state in
\* time, though pushes overtake each other (DevRoutes).
TrailIsKept ==
    /\ focus = "trail" => Crumbs!QueueIsWatched /\ Crumbs!JournalIsATrail
    /\ focus = "panel" => Dev!ChangesAreSeen

\* An event that was taken is never inserted again by a replay inside the
\* retention window and a delivery counts as done only if the receiver took it
\* and a webhook may name a public address, in whatever form, and no other (Relay).
WebhooksHold ==
    /\ focus = "relay" => Hook!ReplayNeverReinserts /\ Hook!DoneWasTaken
    /\ focus = "urls" => Hook!Judged4(x1.v4) /\ Hook!Judged6(x1.v6)

\* Nobody is left untold: a critical email is never dropped by a gate in silence
\* and one recipient's or organization's failure does not keep the digest from the
\* other organizations (Transport); a stored submission is announced (SiteForms).
MessagesGoOut ==
    /\ focus = "transport" => Send!CriticalIsNeverSilent /\ Send!DigestCoversTheRest
    /\ focus = "forms" => Forms!StoredIsAnnounced

\* A script that reports success has done all of it, however often it ran before
\* and wherever those runs ended: a tenant is whole (Tenants), every clone is
\* patched once and none left out (Retrofit), green types were checked
\* (TypeCheck), servers found their schema and none outlives the stack (DevStack), a
\* snapshot of a quiet database is restored to the row (DevRoutes).
SuccessIsEarned ==
    /\ focus = "tenants" => Script!SuccessIsWhole
    /\ focus = "retrofit" => Clones!PatchedOnce /\ Clones!DoneLeavesNothingOut
    /\ focus = "types" => Types!GreenMeansChecked
    /\ focus = "stack" => Stack!NoServerIsLeft /\ Stack!ServersFindTheirSchema
    /\ focus = "dev" => Dev!QuietSnapshotsRestore

\* A dry run of provision, deprovision or eject changes nothing on the platform,
\* also when it fails halfway and rolls back (Tenants; x1 is the platform, x2 the job).
DryRunTouchesNothing ==
    [][focus = "tenants" /\ x2.script # "none" /\ Script!Dry => x1' = x1]_allVars

-----------------------------------------------------------------------------
(***************************************************************************)
(* The theorems.  What is shown of a surface is an invariant of            *)
(* its module; the behaviours of the composition that are about it are     *)
(* that module's, by what follows.                                         *)
(***************************************************************************)

\* A behaviour is about one surface from its beginning on.
LEMMA StartsAlone ==
    AllInit =>
        /\ focus = "client" => Client!Init
        /\ focus = "timeout" => Timeout!Init
        /\ focus = "relay" => Hook!Init
        /\ focus = "urls" => x1 \in Address
        /\ focus = "forms" => Forms!Init
        /\ focus = "transport" => Send!Init
        /\ focus = "tenants" => Script!Init
        /\ focus = "trail" => Crumbs!Init
        /\ focus = "panel" => Dev!Init
        /\ focus = "wizard" => Wizard!Init
        /\ focus = "settings" => Settings!Init
        /\ focus = "sign-in" => Login!Init
        /\ focus = "pages" => Staff!Init
        /\ focus = "design" => Page!Init
  BY DEF AllInit

\* It stays with that one, and its steps are that one's.
LEMMA FocusStays == [AllNext]_allVars => focus' = focus
  BY Zenon DEF AllNext, allVars

\* A step of the whole is a step of the part in focus, and leaves the other parts' variables alone.
LEMMA StepsAreItsOwn ==
    [AllNext]_allVars =>
        /\ focus = "client" => [Client!Next]_(Client!vars)
        /\ focus = "timeout" => [Timeout!Next]_(Timeout!vars)
        /\ focus = "relay" => [Hook!Next]_(Hook!vars)
        /\ focus = "urls" => x1' = x1
        /\ focus = "forms" => [Forms!Next]_(Forms!vars)
        /\ focus = "transport" => [Send!Next]_(Send!vars)
        /\ focus = "tenants" => [Script!Next]_(Script!vars)
        /\ focus = "trail" => [Crumbs!Next]_(Crumbs!vars)
        /\ focus = "panel" => [Dev!Panel]_(Dev!vars)
        /\ focus = "wizard" => [Wizard!Next]_(Wizard!vars)
        /\ focus = "settings" => [Settings!Next]_(Settings!vars)
        /\ focus = "sign-in" => [Login!Next]_(Login!vars)
        /\ focus = "pages" => [Staff!Next]_(Staff!vars)
        /\ focus = "design" => [Page!Next]_(Page!vars)
<1>1. CASE AllNext
  BY <1>1, Zenon DEF AllNext
<1>2. CASE UNCHANGED allVars
  BY <1>2 DEF allVars, Wizard!vars, Settings!vars, Login!vars, Page!vars, Staff!vars, Staff!server, Staff!page, Staff!dialog,
              Client!vars, Timeout!vars, Hook!vars, Forms!vars, Send!vars, Script!vars, Crumbs!vars,
              Dev!vars, Dev!database, Dev!panel
<1> QED BY <1>1, <1>2

\* A tab follows its session, for any accounts, queries, tabs and durations (the web
\* client's cache and its idle timeout).
THEOREM TabsFollowTheirSessions == AllSpec => []TabFollowsItsSession
<1> DEFINE Inv == (focus = "client" => Client!CacheInv) /\ (focus = "timeout" => Timeout!TimerInv)
<1>1. AllInit => Inv
  BY StartsAlone, CacheStarts, TimersStart
<1>2. Inv /\ [AllNext]_allVars => Inv'
  BY FocusStays, StepsAreItsOwn, CacheStep, TimerStep
<1>3. Inv => TabFollowsItsSession
  BY CacheHolds, TimersHold DEF TabFollowsItsSession
<1> QED
  BY <1>1, <1>2, <1>3, PTL DEF AllSpec

\* "--dry-run: Print what would happen, do nothing" holds for any number of
\* migrations and runs, of a run that fails halfway too (the tenant scripts).
THEOREM DryRunsTouchNothing == AllSpec => DryRunTouchesNothing
<1> DEFINE Inv == focus = "tenants" => Script!DryInv
<1>1. AllInit => Inv
  BY StartsAlone, ScriptsStart
<1>2. Inv /\ [AllNext]_allVars => Inv' /\ [focus = "tenants" /\ x2.script # "none" /\ Script!Dry => x1' = x1]_allVars
  BY FocusStays, StepsAreItsOwn, ScriptStep
<1> QED
  BY <1>1, <1>2, PTL DEF AllSpec, DryRunTouchesNothing

\* Nobody is left untold, for any organizations with any recipients, any form and
\* any number of posts (the transport, the digest and the site forms).
THEOREM NobodyIsLeftUntold == AllSpec => []MessagesGoOut
<1> DEFINE Inv == /\ focus = "transport" => Send!SendInv /\ Send!DigestInv
                  /\ focus = "forms" => Forms!AnnounceInv
<1>1. AllInit => Inv
  BY StartsAlone, SendsStart, FormsStart
<1>2. Inv /\ [AllNext]_allVars => Inv'
  BY FocusStays, StepsAreItsOwn, SendStep, DigestStep, FormsStep
<1>3. Inv => MessagesGoOut
  BY DigestHolds DEF MessagesGoOut, Forms!AnnounceInv
<1> QED
  BY <1>1, <1>2, <1>3, PTL DEF AllSpec

\* The webhooks hold, for any events, any tolerance of which the retention is
\* twice, and any number of requests and attempts (verifyEventSignature,
\* publishEvent, sweepEventRetention, deliverWebhook); and validateWebhookUrl
\* judges every address by the blocks (JudgedByBlocks, AbbreviatedAlike).
THEOREM WebhooksAreSafe == AllSpec => []WebhooksHold
<1> DEFINE Inv == /\ focus = "relay" => Hook!RelayInv
                  /\ focus = "urls" => x1 \in Address
<1>1. AllInit => Inv
  BY StartsAlone, RelayStarts
<1>2. Inv /\ [AllNext]_allVars => Inv'
  BY FocusStays, StepsAreItsOwn, RelayStep
<1>3. Inv => WebhooksHold
  <2>1. Hook!RelayInv => Hook!ReplayNeverReinserts /\ Hook!DoneWasTaken
    BY DEF Hook!RelayInv, Hook!ReplayNeverReinserts, Hook!DoneWasTaken
  <2> QED BY <2>1, AddressesAreJudged DEF WebhooksHold
<1> QED
  BY <1>1, <1>2, <1>3, PTL DEF AllSpec

\* What a page shows is what the server will act on, for any files, mappings, team,
\* addresses, emails and designs, as long as one request is under way where the page
\* lets one be (the import wizard, the settings, the sign-in, the staff's pages and the
\* design page).
THEOREM PagesShowWhatTheyShould == AllSpec => []PagesShowWhatHolds
<1> DEFINE Inv == /\ focus = "wizard" => Wizard!WizardInv
                  /\ focus = "settings" => Settings!SettingsInv
                  /\ focus = "sign-in" => Login!SignInInv
                  /\ focus = "pages" => Staff!PagesInv
                  /\ focus = "design" => Page!DesignInv
<1>1. AllInit => Inv
  BY StartsAlone, WizardStarts, SettingsStarts, SignInStarts, PagesStart, DesignStarts
<1>2. Inv /\ [AllNext]_allVars => Inv'
  BY FocusStays, StepsAreItsOwn, WizardStep, SettingsStep, SignInStep, PagesStep, DesignStep
<1>3. Inv => PagesShowWhatHolds
  BY SettingsHolds, SignInHolds, PagesHold, DesignHolds DEF PagesShowWhatHolds, Wizard!WizardInv
<1> QED
  BY <1>1, <1>2, <1>3, PTL DEF AllSpec

\* The trail of a page is kept, by its queue, its batches and the journal together, and
\* the panel sees what its page's stores hold in time, whatever caps, times and limits.
THEOREM TrailStaysWhole == AllSpec => []TrailIsKept
<1> DEFINE Inv == /\ focus = "trail" => Crumbs!TrailInv
                  /\ focus = "panel" => Dev!PanelInv
<1>1. AllInit => Inv
  BY StartsAlone, TrailStarts, PanelStarts
<1>2. Inv /\ [AllNext]_allVars => Inv'
  BY FocusStays, StepsAreItsOwn, TrailStep, PanelStep
<1>3. Inv => TrailIsKept
  BY TrailHolds, PanelHolds DEF TrailIsKept
<1> QED
  BY <1>1, <1>2, <1>3, PTL DEF AllSpec

=============================================================================
