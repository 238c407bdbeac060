--------------------------- MODULE EventConsumer ---------------------------
(***************************************************************************)
(* The loop of src/jobs/event-consumer.ts in every process: a boot sync,   *)
(* then ticks that are driven by one timer and by Redis nudges, under the  *)
(* consumer lock.  What a tick does to a claimed row is the subject of     *)
(* EventDelivery; here a tick takes due deliveries off a counter.          *)
(*                                                                         *)
(* JavaScript runs one turn at a time, so an action is a whole turn: the   *)
(* code between two awaits.  setTimeout handles that the code no longer    *)
(* remembers still fire; they are counted in stray, and up to two tick     *)
(* bodies per process are represented, so that a second loop would show.   *)
(***************************************************************************)
EXTENDS Naturals, FiniteSets

CONSTANTS
    Pod, NoPod,
    BatchSize,  \* deliveries one claim takes
    MaxPublished, \* bound: deliveries published
    MaxFaults   \* bound: failed syncs, claims and Redis commands, crashes, stop timeouts

VARIABLES
    life,          \* life[p]: "off", "up", "stopping" (stopEventConsumer awaits), "stopped"
    timer,         \* timer[p]: what timerId stands for
    stray,         \* stray[p]: pending timeouts timerId does not stand for
    body,          \* body[p][s]: where each tick body in flight is
    full,          \* full[p][s]: its fullBatch
    tickInFlight, wakeRequested,
    lock,          \* holder of the event-consumer lock in Redis
    due, published, \* deliveries due in the database; published so far
    nudge,         \* nudge[p]: a published message p has not received yet
    unheard,       \* unheard[p]: p was woken and no tick has begun since
    cut,           \* cut[p]: stopEventConsumer gave up on the tick in flight
    faults

vars == <<life, timer, stray, body, full, tickInFlight, wakeRequested, lock, due, published, nudge,
          unheard, cut, faults>>
flags == <<timer, stray, tickInFlight, wakeRequested, unheard>>

Slot == {1, 2}
Pc == {"idle", "boot", "lock", "claim", "run", "sweep", "release"}
ShuttingDown(p) == life[p] \in {"stopping", "stopped"}

TypeOK ==
    /\ life \in [Pod -> {"off", "up", "stopping", "stopped"}]
    /\ timer \in [Pod -> {"none", "boot", "now", "poll"}]
    /\ stray \in [Pod -> Nat]
    /\ body \in [Pod -> [Slot -> Pc]] /\ full \in [Pod -> [Slot -> BOOLEAN]]
    /\ tickInFlight \in [Pod -> BOOLEAN] /\ wakeRequested \in [Pod -> BOOLEAN]
    /\ lock \in Pod \cup {NoPod} /\ published \in 0 .. MaxPublished /\ due \in 0 .. published
    /\ nudge \in [Pod -> BOOLEAN] /\ unheard \in [Pod -> BOOLEAN]
    /\ cut \in [Pod -> BOOLEAN] /\ faults \in 0 .. MaxFaults

Init ==
    /\ life = [p \in Pod |-> "off"] /\ timer = [p \in Pod |-> "none"]
    /\ stray = [p \in Pod |-> 0]
    /\ body = [p \in Pod |-> [s \in Slot |-> "idle"]]
    /\ full = [p \in Pod |-> [s \in Slot |-> FALSE]]
    /\ tickInFlight = [p \in Pod |-> FALSE] /\ wakeRequested = [p \in Pod |-> FALSE]
    /\ lock = NoPod /\ due = 0 /\ published = 0
    /\ nudge = [p \in Pod |-> FALSE] /\ unheard = [p \in Pod |-> FALSE]
    /\ cut = [p \in Pod |-> FALSE] /\ faults = 0

Fault == faults < MaxFaults /\ faults' = faults + 1

-----------------------------------------------------------------------------
(* startEventConsumer: the boot counts as a tick in flight. *)

\* Mutant of Start: the boot does not count as a tick in flight.
StartUnmarked(p) ==
    /\ life[p] = "off"
    /\ life' = [life EXCEPT ![p] = "up"]
    /\ timer' = [timer EXCEPT ![p] = "boot"]
    /\ wakeRequested' = [wakeRequested EXCEPT ![p] = FALSE]
    /\ UNCHANGED <<stray, body, full, tickInFlight, lock, due, published, nudge, unheard, cut, faults>>

Start(p) ==
    /\ life[p] = "off"
    /\ life' = [life EXCEPT ![p] = "up"]
    /\ timer' = [timer EXCEPT ![p] = "boot"]
    /\ tickInFlight' = [tickInFlight EXCEPT ![p] = TRUE]
    /\ wakeRequested' = [wakeRequested EXCEPT ![p] = FALSE]
    /\ UNCHANGED <<stray, body, full, lock, due, published, nudge, unheard, cut, faults>>

FreeSlot(p) == CHOOSE s \in Slot : body[p][s] = "idle"
HasSlot(p) == \E s \in Slot : body[p][s] = "idle"

BootFires(p) ==
    /\ timer[p] = "boot" /\ HasSlot(p)
    /\ timer' = [timer EXCEPT ![p] = "none"]
    /\ body' = [body EXCEPT ![p][FreeSlot(p)] = "boot"]
    /\ UNCHANGED <<life, stray, full, tickInFlight, wakeRequested, lock, due, published, nudge, unheard, cut, faults>>

\* tick() up to its first await.  The pending timer is cleared.
BeginTick(p, s) ==
    /\ timer' = [timer EXCEPT ![p] = "none"]
    /\ tickInFlight' = [tickInFlight EXCEPT ![p] = TRUE]
    /\ wakeRequested' = [wakeRequested EXCEPT ![p] = FALSE]
    /\ unheard' = [unheard EXCEPT ![p] = FALSE]
    /\ body' = [body EXCEPT ![p][s] = "lock"]
    /\ full' = [full EXCEPT ![p][s] = FALSE]

\* The boot sync settles, well or not, and the first tick follows in the turn.
BootSyncs(p, s, ok) ==
    /\ body[p][s] = "boot"
    /\ IF ok THEN UNCHANGED faults ELSE Fault
    /\ IF ShuttingDown(p)
       THEN /\ tickInFlight' = [tickInFlight EXCEPT ![p] = FALSE]
            /\ body' = [body EXCEPT ![p][s] = "idle"]
            /\ UNCHANGED <<timer, wakeRequested, unheard, full>>
       ELSE BeginTick(p, s)
    /\ UNCHANGED <<life, stray, lock, due, published, nudge, cut>>

\* A timeout fires, timerId's or a stray one: scheduleTick.  A tick() that
\* starts while shutting down returns at once.
TimerFires(p) ==
    /\ HasSlot(p) /\ (timer[p] \in {"now", "poll"} \/ stray[p] > 0)
    /\ stray' = [stray EXCEPT ![p] = IF @ > 0 THEN @ - 1 ELSE 0]
    /\ IF ShuttingDown(p)
       THEN UNCHANGED <<timer, tickInFlight, wakeRequested, unheard, body, full>>
       ELSE BeginTick(p, FreeSlot(p))
    /\ UNCHANGED <<life, lock, due, published, nudge, cut, faults>>

-----------------------------------------------------------------------------
(* publishEvent commits, then nudges the channel: any process may miss it.  *)

Publish(reached) ==
    /\ published < MaxPublished /\ published' = published + 1
    /\ due' = due + 1
    /\ nudge' = [p \in Pod |-> nudge[p] \/ (p \in reached /\ life[p] = "up")]
    /\ UNCHANGED <<life, flags, body, full, lock, cut, faults>>

\* wakeEventConsumer, once a nudge arrives.
Wake(p) ==
    /\ nudge[p] /\ life[p] = "up"
    /\ nudge' = [nudge EXCEPT ![p] = FALSE]
    /\ unheard' = [unheard EXCEPT ![p] = TRUE]
    /\ IF tickInFlight[p]
       THEN wakeRequested' = [wakeRequested EXCEPT ![p] = TRUE] /\ UNCHANGED timer
       ELSE timer' = [timer EXCEPT ![p] = "now"] /\ UNCHANGED wakeRequested
    /\ UNCHANGED <<life, stray, body, full, tickInFlight, lock, due, published, cut, faults>>

-----------------------------------------------------------------------------
(* tick() after its first await. *)

GoTo(p, s, pc) == body' = [body EXCEPT ![p][s] = pc]

\* Mutant of EndTick: a wake during the tick is forgotten.
EndTickDeaf(p, s) ==
    /\ GoTo(p, s, "idle")
    /\ tickInFlight' = [tickInFlight EXCEPT ![p] = FALSE]
    /\ wakeRequested' = [wakeRequested EXCEPT ![p] = FALSE]
    /\ UNCHANGED stray
    /\ timer' = IF ShuttingDown(p) THEN timer
                ELSE [timer EXCEPT ![p] = IF full[p][s] THEN "now" ELSE "poll"]

\* The end of a tick: reschedule unless shutting down.
EndTick(p, s) ==
    /\ GoTo(p, s, "idle")
    /\ tickInFlight' = [tickInFlight EXCEPT ![p] = FALSE]
    /\ IF ShuttingDown(p)
       THEN UNCHANGED <<timer, stray, wakeRequested>>
       ELSE /\ timer' = [timer EXCEPT ![p] = IF full[p][s] \/ wakeRequested[p] THEN "now" ELSE "poll"]
            /\ stray' = [stray EXCEPT ![p] = @ + IF timer[p] = "none" THEN 0 ELSE 1]
            /\ wakeRequested' = [wakeRequested EXCEPT ![p] = FALSE]

TakeLock(p, s) ==
    /\ body[p][s] = "lock" /\ lock = NoPod
    /\ lock' = p
    /\ GoTo(p, s, "claim")
    /\ UNCHANGED <<life, flags, full, due, published, nudge, cut, faults>>

\* Redis is unreachable: acquireLock answers true and sets nothing.
LockFailsOpen(p, s) ==
    /\ body[p][s] = "lock" /\ Fault
    /\ GoTo(p, s, "claim")
    /\ UNCHANGED <<life, flags, full, lock, due, published, nudge, cut>>

\* Mutant of LockDenied: the tick returns before it reschedules.
LockDeniedReturns(p, s) ==
    /\ body[p][s] = "lock"
    /\ IF lock = NoPod THEN Fault ELSE UNCHANGED faults
    /\ GoTo(p, s, "idle")
    /\ tickInFlight' = [tickInFlight EXCEPT ![p] = FALSE]
    /\ UNCHANGED <<life, timer, stray, wakeRequested, full, lock, due, published, nudge, unheard, cut>>

\* A peer holds the lock, or the SET itself timed out: the tick is skipped.
LockDenied(p, s) ==
    /\ body[p][s] = "lock"
    /\ IF lock = NoPod THEN Fault ELSE UNCHANGED faults
    /\ EndTick(p, s)
    /\ UNCHANGED <<life, full, lock, due, published, nudge, unheard, cut>>

Smaller(m, n) == IF m < n THEN m ELSE n

\* requeueStaleDeliveries, then the claim of drainOnce.
Claim(p, s) ==
    /\ body[p][s] = "claim"
    /\ due' = due - Smaller(due, BatchSize)
    /\ full' = [full EXCEPT ![p][s] = due >= BatchSize]
    /\ GoTo(p, s, "run")
    /\ UNCHANGED <<life, flags, lock, published, nudge, cut, faults>>

\* The rest of drainOnce, and maybeSweepRetention: work that may throw.
RunBatch(p, s) ==
    /\ body[p][s] \in {"run", "sweep"}
    /\ GoTo(p, s, IF body[p][s] = "run" THEN "sweep" ELSE "release")
    /\ UNCHANGED <<life, flags, full, lock, due, published, nudge, cut, faults>>

\* fullBatch is assigned only when drainOnce returns.
TickThrows(p, s) ==
    /\ body[p][s] \in {"claim", "sweep"} /\ Fault
    /\ GoTo(p, s, "release")
    /\ UNCHANGED <<life, flags, full, lock, due, published, nudge, cut>>

\* The owner-checked releaseLock, and the end of the tick.
Release(p, s) ==
    /\ body[p][s] = "release"
    /\ lock' = IF lock = p THEN NoPod ELSE lock
    /\ EndTick(p, s)
    /\ UNCHANGED <<life, full, due, published, nudge, unheard, cut, faults>>

-----------------------------------------------------------------------------
(* stopEventConsumer and the end of a process. *)

Stop(p) ==
    /\ life[p] = "up"
    /\ life' = [life EXCEPT ![p] = "stopping"]
    /\ timer' = [timer EXCEPT ![p] = "none"]
    /\ nudge' = [nudge EXCEPT ![p] = FALSE]
    /\ UNCHANGED <<stray, body, full, tickInFlight, wakeRequested, lock, due, published, unheard, cut, faults>>

\* The tick in flight finished, or its bound ran out; then closeDatabase.
StopReturns(p) ==
    /\ life[p] = "stopping"
    /\ life' = [life EXCEPT ![p] = "stopped"]
    /\ \/ \A s \in Slot : body[p][s] = "idle" /\ UNCHANGED <<cut, faults>>
       \/ /\ \E s \in Slot : body[p][s] # "idle"
          /\ Fault /\ cut' = [cut EXCEPT ![p] = TRUE]
    /\ UNCHANGED <<flags, body, full, lock, due, published, nudge>>

\* The process ends; a crash may end it at any moment.  Its lock stays behind.
Exit(p) ==
    /\ life[p] # "off"
    /\ IF life[p] = "stopped" THEN UNCHANGED faults ELSE Fault
    /\ life' = [life EXCEPT ![p] = "off"]
    /\ timer' = [timer EXCEPT ![p] = "none"] /\ stray' = [stray EXCEPT ![p] = 0]
    /\ body' = [body EXCEPT ![p] = [s \in Slot |-> "idle"]]
    /\ full' = [full EXCEPT ![p] = [s \in Slot |-> FALSE]]
    /\ tickInFlight' = [tickInFlight EXCEPT ![p] = FALSE]
    /\ wakeRequested' = [wakeRequested EXCEPT ![p] = FALSE]
    /\ nudge' = [nudge EXCEPT ![p] = FALSE] /\ unheard' = [unheard EXCEPT ![p] = FALSE]
    /\ cut' = [cut EXCEPT ![p] = FALSE]
    /\ UNCHANGED <<lock, due, published>>

\* The TTL runs out.  While the holder works its refresh must have failed.
Lapse ==
    /\ lock # NoPod
    /\ IF \E s \in Slot : body[lock][s] \in {"claim", "run", "sweep", "release"}
       THEN Fault ELSE UNCHANGED faults
    /\ lock' = NoPod
    /\ UNCHANGED <<life, flags, body, full, due, published, nudge, cut>>

-----------------------------------------------------------------------------
TickStep(p, s) == \/ BootSyncs(p, s, TRUE)
                  \/ TakeLock(p, s) \/ (lock # NoPod /\ LockDenied(p, s))
                  \/ Claim(p, s) \/ RunBatch(p, s) \/ Release(p, s)
LoopGoesOn(p) == BootFires(p) \/ TimerFires(p) \/ \E s \in Slot : TickStep(p, s)

Next ==
    \/ \E p \in Pod : Start(p) \/ BootFires(p) \/ TimerFires(p) \/ Wake(p)
                      \/ Stop(p) \/ StopReturns(p) \/ Exit(p)
    \/ \E p \in Pod, s \in Slot : \/ \E ok \in BOOLEAN : BootSyncs(p, s, ok)
                                  \/ TakeLock(p, s) \/ LockFailsOpen(p, s) \/ LockDenied(p, s)
                                  \/ Claim(p, s) \/ RunBatch(p, s) \/ TickThrows(p, s)
                                  \/ Release(p, s)
    \/ \E reached \in SUBSET Pod : Publish(reached)
    \/ Lapse

Spec == Init /\ [][Next]_vars

\* A started process keeps running: its timer fires and its awaits settle.  A
\* dead holder's lock lapses.  Nothing is assumed of nudges, stops or faults.
Fairness ==
    /\ \A p \in Pod : WF_vars(LoopGoesOn(p))
    /\ WF_vars(Lapse /\ UNCHANGED faults)

FairSpec == Spec /\ Fairness

-----------------------------------------------------------------------------
(* Properties. *)

\* "[A] tick of its own [...] would leave two loops running in one process for
\* its lifetime": timers and tick bodies never add up to more than one, and a
\* process that is up always has one (the loop never dies).
Loops(p) == stray[p] + (IF timer[p] = "none" THEN 0 ELSE 1)
            + Cardinality({s \in Slot : body[p][s] # "idle"})
OneLoop == \A p \in Pod : Loops(p) <= 1 /\ (life[p] = "up" => Loops(p) = 1)

\* No nudge is lost to a race with a tick or the boot: until a tick has begun
\* after it, one is due at once or follows the tick in flight at once.
NoLostWake ==
    \A p \in Pod : unheard[p] /\ life[p] = "up" =>
        timer[p] = "now" \/ (tickInFlight[p] /\ wakeRequested[p])

\* "Resolves once the tick in flight has finished": when stopEventConsumer
\* returns within its bound nothing of the loop is left, nor comes back.
StopIsFinal ==
    \A p \in Pod : life[p] = "stopped" /\ ~cut[p] => Loops(p) = 0

\* "The event consumer polls regardless": with every nudge lost, and across
\* crashes of the lock's holder, due deliveries are claimed while a process is up.
Drains == \A p \in Pod : (due > 0 /\ life[p] = "up") ~> (due = 0 \/ life[p] # "up")
=============================================================================
