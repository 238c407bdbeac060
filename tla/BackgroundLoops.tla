-------------------------- MODULE BackgroundLoops --------------------------
(***************************************************************************)
(* The other periodic loops main.ts starts in every process that runs      *)
(* background work, and its shutdown:                                      *)
(*                                                                         *)
(*   reaper  src/jobs/inbound-email-reaper.ts  acquireLock around a tick   *)
(*   reseed  src/jobs/demo-reseed-loop.ts      withJobLock around a tick   *)
(*   digest  src/jobs/expiration-digest.ts     withJobLock around a tick   *)
(*   runner  src/jobs/runner.ts                no lock, row claims instead *)
(*                                                                         *)
(* Each is a setTimeout that the tick arms again when it ends.  Time is    *)
(* cut into intervals in which every armed timer fires once.  The Redis    *)
(* lock is the one of RedisLock, reduced to its holder and its failures.   *)
(***************************************************************************)
EXTENDS Naturals, FiniteSets

CONSTANTS
    Pod, NoPod,
    Loop,       \* the loops
    MaxLoops,   \* bound: loops that are not dormant
    MaxOutages  \* bound: Redis commands that fail, locks lost while in use

VARIABLES
    dormant,  \* loops the deployment's configuration leaves dormant (no LLM, DEMO_MODE off, no digest)
    life,     \* life[p]: "down", "up", then the stages of shutdown()
    timer,    \* timer[p][l]: timerId is set
    pc,       \* pc[p][l]: where l's tick is
    stopped,  \* stopped[p]: loops whose stop function has been called
    lock,     \* lock[l]: holder of l's lock in Redis
    fired,    \* fired[l]: processes whose timer fired in this interval
    runs,     \* runs[l]: ticks that did the work in this interval
    refused,  \* history: refused[p]: loops whose last tick was told that the lock is taken
    ended,    \* history: a process has been signalled or has died
    outages

vars == <<dormant, life, timer, pc, stopped, lock, fired, runs, refused, ended, outages>>

Locked == Loop \ {"runner"}
Working == {"work", "release"}

TypeOK ==
    /\ dormant \subseteq Loop
    /\ life \in [Pod -> {"down", "up", "draining", "stopping", "closed"}]
    /\ timer \in [Pod -> [Loop -> BOOLEAN]]
    /\ pc \in [Pod -> [Loop -> {"idle", "lock"} \cup Working]]
    /\ stopped \in [Pod -> SUBSET Loop]
    /\ lock \in [Loop -> Pod \cup {NoPod}]
    /\ fired \in [Loop -> SUBSET Pod] /\ runs \in [Loop -> 0 .. Cardinality(Pod)]
    /\ refused \in [Pod -> SUBSET Loop] /\ ended \in BOOLEAN
    /\ outages \in 0 .. MaxOutages

Init ==
    /\ dormant \in {S \in SUBSET (Loop \ {"runner"}) : Cardinality(Loop \ S) <= MaxLoops}
    /\ life = [p \in Pod |-> "down"]
    /\ timer = [p \in Pod |-> [l \in Loop |-> FALSE]]
    /\ pc = [p \in Pod |-> [l \in Loop |-> "idle"]]
    /\ stopped = [p \in Pod |-> {}]
    /\ lock = [l \in Loop |-> NoPod]
    /\ fired = [l \in Loop |-> {}] /\ runs = [l \in Loop |-> 0]
    /\ refused = [p \in Pod |-> {}] /\ ended = FALSE
    /\ outages = 0

Outage == outages < MaxOutages /\ outages' = outages + 1

-----------------------------------------------------------------------------
(* Boot and ticks. *)

Boot(p) ==
    /\ life[p] = "down"
    /\ life' = [life EXCEPT ![p] = "up"]
    /\ timer' = [timer EXCEPT ![p] = [l \in Loop |-> l \notin dormant]]
    /\ stopped' = [stopped EXCEPT ![p] = {}]
    /\ UNCHANGED <<pc, lock, fired, runs, refused, ended, dormant, outages>>

Fire(p, l) ==
    /\ timer[p][l] /\ p \notin fired[l]
    /\ timer' = [timer EXCEPT ![p][l] = FALSE]
    /\ pc' = [pc EXCEPT ![p][l] = IF l \in Locked THEN "lock" ELSE "work"]
    /\ fired' = [fired EXCEPT ![l] = @ \cup {p}]
    /\ runs' = [runs EXCEPT ![l] = IF l \in Locked THEN @ ELSE @ + 1]
    /\ refused' = [refused EXCEPT ![p] = @ \ {l}]
    /\ UNCHANGED <<life, stopped, lock, ended, dormant, outages>>

\* The last statement of a tick.
Reschedule(p, l) ==
    /\ timer' = [timer EXCEPT ![p][l] = l \notin stopped[p]]
    /\ pc' = [pc EXCEPT ![p][l] = "idle"]

\* Mutant of LockWon: SET without NX.
LockTaken(p, l) ==
    /\ pc[p][l] = "lock"
    /\ lock' = [lock EXCEPT ![l] = p]
    /\ pc' = [pc EXCEPT ![p][l] = "work"]
    /\ runs' = [runs EXCEPT ![l] = @ + 1]
    /\ UNCHANGED <<life, timer, stopped, fired, refused, ended, dormant, outages>>

\* acquireLock answered true: the key was free, or Redis is unreachable.
LockWon(p, l) ==
    /\ pc[p][l] = "lock"
    /\ \/ lock[l] = NoPod /\ lock' = [lock EXCEPT ![l] = p] /\ UNCHANGED outages
       \/ Outage /\ UNCHANGED lock
    /\ pc' = [pc EXCEPT ![p][l] = "work"]
    /\ runs' = [runs EXCEPT ![l] = @ + 1]
    /\ UNCHANGED <<life, timer, stopped, fired, refused, ended, dormant>>

\* Mutant of AfterDenial: every loop returns the way the reaper does.
ReturnAfterDenial(p, l) == pc' = [pc EXCEPT ![p][l] = "idle"] /\ UNCHANGED timer

\* What a tick does when acquireLock answered false: withJobLock's callers fall
\* through to their reschedule, the reaper returns before it.
AfterDenial(p, l) ==
    IF l = "reaper"
    THEN pc' = [pc EXCEPT ![p][l] = "idle"] /\ UNCHANGED timer
    ELSE Reschedule(p, l)

\* A peer holds the lock, or the command failed.
LockDenied(p, l) ==
    /\ pc[p][l] = "lock"
    /\ IF lock[l] # NoPod THEN UNCHANGED outages ELSE Outage
    /\ AfterDenial(p, l)
    /\ refused' = [refused EXCEPT ![p] = @ \cup {l}]
    /\ UNCHANGED <<life, stopped, lock, fired, runs, ended, dormant>>

\* The tick's work returns or throws; both paths go on.
Work(p, l) ==
    /\ pc[p][l] = "work"
    /\ IF l \in Locked
       THEN pc' = [pc EXCEPT ![p][l] = "release"] /\ UNCHANGED timer
       ELSE Reschedule(p, l)
    /\ UNCHANGED <<life, stopped, lock, fired, runs, refused, ended, dormant, outages>>

\* Owner-checked release, then the reschedule.
Release(p, l) ==
    /\ pc[p][l] = "release"
    /\ lock' = [lock EXCEPT ![l] = IF @ = p THEN NoPod ELSE @]
    /\ Reschedule(p, l)
    /\ UNCHANGED <<life, stopped, fired, runs, refused, ended, dormant, outages>>

\* The TTL runs out: refreshes failed, or the holder is gone.
Lapse(l) ==
    /\ lock[l] # NoPod
    /\ IF pc[lock[l]][l] \in Working THEN Outage ELSE UNCHANGED outages
    /\ lock' = [lock EXCEPT ![l] = NoPod]
    /\ UNCHANGED <<life, timer, pc, stopped, fired, runs, refused, ended, dormant>>

\* Intervals are far longer than an acquireLock.
NextInterval(l) ==
    /\ fired[l] # {}
    /\ \A p \in Pod : (timer[p][l] => p \in fired[l]) /\ pc[p][l] # "lock"
    /\ fired' = [fired EXCEPT ![l] = {}]
    /\ runs' = [runs EXCEPT ![l] = 0]
    /\ UNCHANGED <<life, timer, pc, stopped, lock, refused, ended, dormant, outages>>

-----------------------------------------------------------------------------
(* shutdown() of main.ts, one stage per await. *)

\* A signal: the HTTP server drains first.
Signal(p) ==
    /\ life[p] = "up"
    /\ life' = [life EXCEPT ![p] = "draining"] /\ ended' = TRUE
    /\ UNCHANGED <<timer, pc, stopped, lock, fired, runs, refused, dormant, outages>>

\* A stop function clears the timer; the tick in flight is left alone.
StopSome(p, loops) ==
    /\ stopped' = [stopped EXCEPT ![p] = @ \cup loops]
    /\ timer' = [timer EXCEPT ![p] = [l \in Loop |-> @[l] /\ l \notin loops]]

StopLoops(p) ==
    /\ life[p] = "draining" /\ stopped[p] = {}
    /\ StopSome(p, Loop \ {"runner"})
    /\ UNCHANGED <<life, pc, lock, fired, runs, refused, ended, dormant, outages>>

\* stopEventConsumer has been awaited in between (EventConsumer).
StopJobRunner(p) ==
    /\ life[p] = "draining" /\ Loop \ {"runner"} \subseteq stopped[p]
    /\ StopSome(p, Loop \cap {"runner"})
    /\ life' = [life EXCEPT ![p] = "stopping"]
    /\ UNCHANGED <<pc, lock, fired, runs, refused, ended, dormant, outages>>

\* Mutant of CloseDatabase: the runner's tick is not awaited.
CloseAtOnce(p) ==
    /\ life[p] = "stopping"
    /\ life' = [life EXCEPT ![p] = "closed"]
    /\ UNCHANGED <<timer, pc, stopped, lock, fired, runs, refused, ended, dormant, outages>>

\* "if (ticking) await ticking", then closeDatabase.
CloseDatabase(p) ==
    /\ life[p] = "stopping"
    /\ \A l \in Loop \cap {"runner"} : pc[p][l] = "idle"
    /\ life' = [life EXCEPT ![p] = "closed"]
    /\ UNCHANGED <<timer, pc, stopped, lock, fired, runs, refused, ended, dormant, outages>>

\* The process ends, after its shutdown or in a crash.
Exit(p) ==
    /\ life[p] # "down"
    /\ life' = [life EXCEPT ![p] = "down"]
    /\ timer' = [timer EXCEPT ![p] = [l \in Loop |-> FALSE]]
    /\ pc' = [pc EXCEPT ![p] = [l \in Loop |-> "idle"]]
    /\ stopped' = [stopped EXCEPT ![p] = {}]
    /\ refused' = [refused EXCEPT ![p] = {}] /\ ended' = TRUE
    /\ UNCHANGED <<lock, fired, runs, dormant, outages>>

-----------------------------------------------------------------------------
Next ==
    \/ \E p \in Pod, l \in Loop : \/ Fire(p, l) \/ LockWon(p, l) \/ LockDenied(p, l)
                                  \/ Work(p, l) \/ Release(p, l)
    \/ \E l \in Loop : Lapse(l) \/ NextInterval(l)
    \/ \E p \in Pod : \/ Boot(p) \/ Signal(p) \/ StopLoops(p) \/ StopJobRunner(p)
                      \/ CloseDatabase(p) \/ Exit(p)

Spec == Init /\ [][Next]_vars

-----------------------------------------------------------------------------
(* Properties. *)

\* While its process runs, a loop has a tick in flight or a timer armed, whatever
\* acquireLock answered; but for the reaper's whose tick was refused the lock
\* (inbound-email-reaper.ts:172-177).
Alive(p, l) == timer[p][l] \/ pc[p][l] # "idle"
LoopsGoOn ==
    \A p \in Pod, l \in Loop \ dormant : life[p] = "up" => Alive(p, l) \/ (l = "reaper" /\ l \in refused[p])

\* What is left of it for the reaper: as long as Redis has not failed and no process
\* has ended, the loops that were refused leave one behind that goes on.
OneGoesOn ==
    outages = 0 /\ ~ended /\ (\E p \in Pod : life[p] = "up")
        => \A l \in Loop \ dormant : \E p \in Pod : life[p] = "up" /\ Alive(p, l)

\* "At most one pod at a time": as long as Redis neither failed nor lost a lock
\* in use, no two processes do the same locked loop's work together, however
\* ticks, shutdowns, crashes and TTLs of dead holders interleave.
OnePodAtATime ==
    outages = 0 => \A l \in Locked : Cardinality({p \in Pod : pc[p][l] \in Working}) <= 1

\* "Stopped (and awaited) in shutdown() BEFORE closeDatabase() so an in-flight
\* tick can still write its outcomes": no runner tick outlives the pool.
RunnerDrained ==
    \A p \in Pod, l \in Loop \cap {"runner"} : life[p] = "closed" => pc[p][l] = "idle" /\ ~timer[p][l]

-----------------------------------------------------------------------------
(* What the repository says and the code does not do: stated here, refuted  *)
(* by TLC in the instances the README names under "Divergences".            *)

\* "The loop NEVER dies" (inbound-email-reaper.ts:42), nor do the others.
LoopNeverDies == \A p \in Pod, l \in Loop \ dormant : life[p] = "up" => Alive(p, l)

\* "Stopped in shutdown() BEFORE closeDatabase() so no tick races the pool
\* teardown", said of the reaper, the re-seed loop and the digest.
NoTickRacesTeardown ==
    \A p \in Pod, l \in Locked : life[p] = "closed" => pc[p][l] = "idle"

\* "Only one pod sends when a project runs several [...] without it, N pods
\* means N copies of the same digest in someone's inbox": with Redis well, one
\* process at most does the digest's work in an interval.
OneDigestPerInterval ==
    outages = 0 => \A l \in Loop \cap {"digest"} : runs[l] <= 1
=============================================================================
