------------------------------ MODULE Platform ------------------------------
(***************************************************************************)
(* What every process of a deployment runs on: the owner-token lock        *)
(* (RedisLock), the subscriber and the rate limiter (RedisClient), the     *)
(* background loops and their shutdown (BackgroundLoops), the event        *)
(* consumer's loop (EventConsumer) and the migrations of its boot          *)
(* (Migrations), with its scanner on bounded scripts, `written`.  A        *)
(* behaviour is about one of them, `focus`, and the others stay at their   *)
(* initial state.                                                          *)
(***************************************************************************)
EXTENDS RedisLock, FiniteSetTheorems, WellFoundedInduction, TLAPS

CONSTANTS
    NoPod,                                          \* nobody, as a lock's holder
    Loop, MaxLoops, MaxOutages,                     \* BackgroundLoops
    Caller, Limit, MaxDrops, MaxLimiterFaults,      \* RedisClient
    Ships, Bare, Statements, Retries, MaxFailures,  \* Migrations
    BatchSize, MaxPublished, MaxFaults              \* EventConsumer

ASSUME HolderAssumption == NoPod \notin Pod
\* A limit lets somebody through.
ASSUME LimiterAssumption == Limit \in Nat \ {0} /\ IsFiniteSet(Caller)
ASSUME MigrationsAssumption == Ships \in [Pod -> Nat] /\ Statements \in Nat
\* A rolling deploy of two images: the new one ships a bare file and one more after it.
Rolling == CHOOSE ships \in [Pod -> {2, 3}] : \E p, q \in Pod : ships[p] # ships[q]

VARIABLES
    focus, written,
    dormant, life, timer, pc, stopped, lock, fired, runs, refused, ended, outages,
    loop, closed, drops, count, ttl, asking, verdict, window, limiterFaults,
    exists, ledger, applied, ran, readOnly, at, pending, next, attempt, migrationFaults,
    consumer, wakeup, stray, body, full, tickInFlight, wakeRequested, consumerLock, due, published, nudge, unheard, cut,
    consumerFaults

B == INSTANCE BackgroundLoops
C == INSTANCE RedisClient WITH MaxFaults <- MaxLimiterFaults, faults <- limiterFaults
M == INSTANCE Migrations WITH MaxFaults <- MaxFailures, pc <- at, faults <- migrationFaults
E == INSTANCE EventConsumer WITH
        life <- consumer, timer <- wakeup, lock <- consumerLock, faults <- consumerFaults

\* Two statements of up to two pieces each, for the statement scanner.
Pieces == {<<a>> : a \in M!Code \cup M!Comment} \cup {<<a, b>> : a, b \in M!Code \cup M!Comment}
Scripts == {<<a, b>> : a, b \in Pieces}

loopVars == <<dormant, life, timer, pc, stopped, lock, fired, runs, refused, ended, outages>>
clientVars == <<loop, closed, drops, count, ttl, asking, verdict, window, limiterFaults>>
migrationVars == <<exists, ledger, applied, ran, readOnly, at, pending, next, attempt, migrationFaults>>
consumerVars == <<consumer, wakeup, stray, body, full, tickInFlight, wakeRequested, consumerLock, due, published,
                  nudge, unheard, cut, consumerFaults>>
allVars == <<focus, written, vars, loopVars, clientVars, migrationVars, consumerVars>>

AllInit ==
    /\ \/ focus \in {"lock", "loops", "client", "migrations", "consumer"} /\ written = <<>>
       \/ focus = "scripts" /\ written \in Scripts
    /\ Init /\ B!Init /\ C!Init /\ M!Init /\ E!Init
    /\ focus # "loops" => dormant = B!Locked

Client(A) == focus = "client" /\ A /\ UNCHANGED <<focus, written, vars, loopVars, migrationVars, consumerVars>>
Migration(A) == focus = "migrations" /\ A /\ UNCHANGED <<focus, written, vars, loopVars, clientVars, consumerVars>>
Consumer(A) == focus = "consumer" /\ A /\ UNCHANGED <<focus, written, vars, loopVars, clientVars, migrationVars>>

AllNext ==
    \/ focus = "lock" /\ Next /\ UNCHANGED <<focus, written, loopVars, clientVars, migrationVars, consumerVars>>
    \/ focus = "loops" /\ B!Next /\ UNCHANGED <<focus, written, vars, clientVars, migrationVars, consumerVars>>
    \/ focus = "client" /\ C!Next /\ UNCHANGED <<focus, written, vars, loopVars, migrationVars, consumerVars>>
    \/ focus = "consumer" /\ E!Next /\ UNCHANGED <<focus, written, vars, loopVars, clientVars, migrationVars>>
    \/ focus = "migrations" /\ M!Next /\ UNCHANGED <<focus, written, vars, loopVars, clientVars, consumerVars>>

Safely == AllInit /\ [][AllNext]_allVars

\* Dials end and timers fire, a failover ends and a dead holder's lock lapses; a
\* pod is started until it serves, and its consumer's loop goes on.  `focus` never
\* changes, so one condition says it of each component.
AllSpec ==
    /\ Safely
    /\ WF_allVars(\/ Client(C!Subscriber) \/ Migration(M!FailoverEnds)
                  \/ Consumer(E!Lapse /\ UNCHANGED consumerFaults))
    /\ \A p \in Pod : WF_allVars(Migration(M!Migrate(p)) \/ Consumer(E!LoopGoesOn(p)))

-----------------------------------------------------------------------------
\* A background loop of a running process goes on, but for a reaper that was refused
\* its lock, and one of those goes on while nothing fails; it is drained before the
\* pool goes and, with Redis well, runs on one process at a time (BackgroundLoops); a
\* process has exactly one consumer loop, and no nudge is lost to a race with its
\* tick or its boot (EventConsumer).
LoopsHold ==
    /\ B!LoopsGoOn /\ B!OneGoesOn /\ B!RunnerDrained /\ B!OnePodAtATime
    /\ E!OneLoop /\ E!NoLostWake
\* Schema and ledger agree whichever pods migrate together and wherever they
\* fail, and a script is cut into the statements it was written with, whatever
\* quotes and comments they hold (Migrations); the limiter lets no more than its
\* limit through in a window (RedisClient).
SharedStateHolds == M!SchemaMatchesLedger /\ (focus = "scripts" => M!SplitsBack(written)) /\ C!WindowIsBounded
\* After a fault processes come back: a dropped subscription is dialed until it
\* listens or is closed (RedisClient), every pod gets through its migrations
\* (Migrations), and what is due is taken while a consumer is up (EventConsumer).
ProcessesRecover ==
    /\ focus = "client" => C!ListensAgain
    /\ focus = "migrations" => M!EveryPodComesUp
    /\ focus = "consumer" => E!Drains
-----------------------------------------------------------------------------
(* Proofs, for any processes, lock names, tokens, timeouts and lapses. *)

\* The keys, the calls in flight and the connections keep their types.
THEOREM LockTypeCorrect == Spec => []TypeOK
<1> USE LockAssumption DEF TypeOK, Token
<1>1. Init => TypeOK
  BY DEF Init
<1>2. TypeOK /\ [Next]_vars => TypeOK'
  <2> SUFFICES ASSUME TypeOK, [Next]_vars PROVE TypeOK'
    OBVIOUS
  <2>a. ASSUME NEW p \in Pod, Drop(p)
        PROVE  /\ conn' \in [Pod -> {"up", "cooldown"}] /\ ops' \in [Pod -> SUBSET Op]
               /\ watched' \in [Pod -> SUBSET Name]
               /\ deferred' \in [Pod -> SUBSET [name : Name, token : 0 .. MaxTokens]]
               /\ crossed' \in [Pod -> SUBSET Call]
    BY <2>a DEF Drop, Op
  <2>b. ASSUME NEW p \in Pod, NEW o \in ops[p], Unmark(p, o)
        PROVE  /\ ops' \in [Pod -> SUBSET Op] /\ watched' \in [Pod -> SUBSET Name]
               /\ crossed' \in [Pod -> SUBSET Call]
    <3> DEFINE others == {CallOf(x) : x \in {y \in ops[p] \ {o} : y.pc # "watch"}}
    <3>1. \A x \in ops[p] : CallOf(x) \in Call
      BY DEF CallOf, Call, Op
    <3>2. others \subseteq Call
      BY <3>1
    <3>3. crossed' = [crossed EXCEPT ![p] = (@ \ {CallOf(o)}) \cup others]
      BY <2>b DEF Unmark
    <3> HIDE DEF others
    <3>4. crossed' \in [Pod -> SUBSET Call]
      BY <3>2, <3>3
    <3> QED BY <2>b, <3>4 DEF Unmark
  <2>1. ASSUME NEW p \in Pod, NEW n \in Name, AcquireOpen(p, n) PROVE TypeOK'
    BY <2>1 DEF AcquireOpen, links, counts
  <2>2. ASSUME NEW p \in Pod, NEW n \in Name, Acquire(p, n) PROVE TypeOK'
    <3>1. issued' \in 0 .. MaxTokens
      BY <2>2 DEF Acquire, NewToken
    <3>2. held' = [held EXCEPT ![p] = [held[p] EXCEPT ![n] = issued']]
      BY <2>2 DEF Acquire
    <3>3. held' \in [Pod -> [Name -> 0 .. MaxTokens]]
      BY <3>1, <3>2
    <3>4. key' \in [Name -> 0 .. MaxTokens] /\ working' \in [Pod -> SUBSET Name]
      BY <2>2, <3>1 DEF Acquire
    <3>5. dirty' \in [Pod -> BOOLEAN]
      BY <2>2 DEF Acquire, Touched
    <3> QED BY <2>2, <3>1, <3>3, <3>4, <3>5 DEF Acquire
  <2>4. ASSUME NEW p \in Pod, NEW n \in Name, NEW took \in BOOLEAN, AcquireFails(p, n, took) PROVE TypeOK'
    <3>1. issued' \in 0 .. MaxTokens
      BY <2>4 DEF AcquireFails, NewToken
    <3>6. key' \in [Name -> 0 .. MaxTokens]
      <4>1. key' = key \/ key' = [key EXCEPT ![n] = issued']
        BY <2>4 DEF AcquireFails
      <4> QED BY <3>1, <4>1
    <3>5. dirty' \in [Pod -> BOOLEAN]
      <4>1. Touched(n) \in [Pod -> BOOLEAN]
        BY DEF Touched
      <4>2. dirty' = [Touched(n) EXCEPT ![p] = FALSE] \/ dirty' = [dirty EXCEPT ![p] = FALSE]
        BY <2>4 DEF AcquireFails
      <4> QED BY <4>1, <4>2
    <3>3. hiccups' \in 0 .. MaxHiccups
      BY <2>4 DEF AcquireFails, Hiccup
    <3> QED BY <2>4, <2>a, <3>1, <3>3, <3>5, <3>6 DEF AcquireFails
  <2>5. ASSUME NEW p \in Pod, NEW n \in Name, StartRefresh(p, n) PROVE TypeOK'
    BY <2>5 DEF StartRefresh, AddOp, Kind, Op, counts
  <2>6. ASSUME NEW p \in Pod, NEW n \in Name, StartRelease(p, n) PROVE TypeOK'
    <3>1. held' = [held EXCEPT ![p] = [held[p] EXCEPT ![n] = 0]]
      BY <2>6 DEF StartRelease
    <3>2. held' \in [Pod -> [Name -> 0 .. MaxTokens]] /\ working' \in [Pod -> SUBSET Name]
      BY <2>6, <3>1 DEF StartRelease
    <3>3. held[p][n] \in 0 .. MaxTokens
      OBVIOUS
    <3>4. [name |-> n, token |-> held[p][n]] \in [name : Name, token : 0 .. MaxTokens]
      BY <3>3
    <3>5. [kind |-> "release", name |-> n, token |-> held[p][n], pc |-> "watch"] \in Op
      BY <3>3 DEF Op, Kind
    <3>7. ops' \in [Pod -> SUBSET Op]
      <4> DEFINE new == [kind |-> "release", name |-> n, token |-> held[p][n], pc |-> "watch"]
      <4>1. ops' = ops \/ ops' = [ops EXCEPT ![p] = @ \cup {new}]
        <5>1. CASE held[p][n] = 0 \/ conn[p] = "cooldown"
          BY <2>6, <5>1 DEF StartRelease
        <5>2. CASE held[p][n] # 0 /\ conn[p] = "up"
          BY <2>6, <5>2 DEF StartRelease, AddOp
        <5> QED BY <5>1, <5>2
      <4> HIDE DEF new
      <4>2. new \in Op
        BY <3>5 DEF new
      <4> QED BY <4>1, <4>2, SMTT(40)
    <3>8. deferred' \in [Pod -> SUBSET [name : Name, token : 0 .. MaxTokens]]
      <4> DEFINE new == [name |-> n, token |-> held[p][n]]
      <4>1. deferred' = deferred \/ deferred' = [deferred EXCEPT ![p] = @ \cup {new}]
        <5>1. CASE held[p][n] = 0 \/ conn[p] = "up"
          BY <2>6, <5>1 DEF StartRelease
        <5>2. CASE held[p][n] # 0 /\ conn[p] = "cooldown"
          BY <2>6, <5>2 DEF StartRelease
        <5> QED BY <5>1, <5>2
      <4> HIDE DEF new
      <4>2. new \in [name : Name, token : 0 .. MaxTokens]
        BY <3>4 DEF new
      <4> QED BY <4>1, <4>2
    <3> QED BY <2>6, <3>2, <3>7, <3>8 DEF StartRelease, counts
  <2>7. ASSUME NEW p \in Pod, NEW r \in deferred[p], DeferredRelease(p, r) PROVE TypeOK'
    <3> DEFINE new == [kind |-> "retry", name |-> r.name, token |-> r.token, pc |-> "watch"]
    <3>1. new \in Op
      BY DEF Op, Kind
    <3>2. ops' = [ops EXCEPT ![p] = @ \cup {new}] /\ deferred' = [deferred EXCEPT ![p] = @ \ {r}]
      BY <2>7 DEF DeferredRelease, AddOp
    <3> HIDE DEF new
    <3> QED BY <2>7, <3>1, <3>2 DEF DeferredRelease, counts
  <2>8. ASSUME NEW p \in Pod, NEW o \in ops[p], OpWatch(p, o) \/ OpGet(p, o) PROVE TypeOK'
    <3> DEFINE got == [o EXCEPT !.pc = "get"]
               found == [o EXCEPT !.pc = "exec"]
    <3>0. o \in Op
      OBVIOUS
    <3>1. got \in Op /\ found \in Op
      BY <3>0 DEF Op
    <3>2. ops' \in [Pod -> SUBSET Op]
      <4>1. \/ ops' = [ops EXCEPT ![p] = (@ \ {o}) \cup {got}]
            \/ ops' = [ops EXCEPT ![p] = (@ \ {o}) \cup {found}]
            \/ ops' = [ops EXCEPT ![p] = @ \ {o}]
        BY <2>8 DEF OpWatch, OpGet, Unmark
      <4> HIDE DEF got, found
      <4> QED BY <3>1, <4>1
    <3>4. crossed' \in [Pod -> SUBSET Call]
      <4>1. crossed' = crossed \/ Unmark(p, o)
        BY <2>8 DEF OpWatch, OpGet
      <4> QED BY <2>b, <4>1
    <3>3. watched' \in [Pod -> SUBSET Name] /\ dirty' \in [Pod -> BOOLEAN]
      <4>1. o.name \in Name
        BY <3>0 DEF Op
      <4>2. \/ watched' = [watched EXCEPT ![p] = @ \cup {o.name}] /\ dirty' = dirty
            \/ watched' = watched /\ dirty' = dirty
            \/ watched' = [watched EXCEPT ![p] = {}] /\ dirty' = [dirty EXCEPT ![p] = FALSE]
        BY <2>8 DEF OpWatch, OpGet, Unmark
      <4>3. watched' \in [Pod -> SUBSET Name]
        BY <4>1, <4>2
      <4>4. dirty' \in [Pod -> BOOLEAN]
        BY <4>2
      <4> QED BY <4>3, <4>4
    <3> QED BY <2>8, <3>2, <3>3, <3>4 DEF OpWatch, OpGet, counts
  <2>9. ASSUME NEW p \in Pod, NEW o \in ops[p], ExecEffect(p, o)
        PROVE  dirty' \in [Pod -> BOOLEAN] /\ key' \in [Name -> 0 .. MaxTokens]
    <3>1. Touched(o.name) \in [Pod -> BOOLEAN]
      BY DEF Touched
    <3>2. /\ dirty' = [dirty EXCEPT ![p] = FALSE] \/ dirty' = [Touched(o.name) EXCEPT ![p] = FALSE]
          /\ key' = key \/ key' = [key EXCEPT ![o.name] = 0]
      BY <2>9 DEF ExecEffect
    <3>3. dirty' \in [Pod -> BOOLEAN]
      BY <3>1, <3>2
    <3>4. key' \in [Name -> 0 .. MaxTokens]
      BY <3>2
    <3> QED BY <3>3, <3>4
  <2>10. ASSUME NEW p \in Pod, NEW o \in ops[p], OpExec(p, o) PROVE TypeOK'
    BY <2>b, <2>9, <2>10 DEF OpExec, counts
  <2>11. ASSUME NEW p \in Pod, CommandTimesOut(p) PROVE TypeOK'
    BY <2>a, <2>11 DEF CommandTimesOut, Hiccup
  <2>12. ASSUME NEW p \in Pod, NEW o \in ops[p], ExecTimesOut(p, o) PROVE TypeOK'
    BY <2>a, <2>9, <2>12 DEF ExecTimesOut, Hiccup
  <2>13. ASSUME NEW p \in Pod, Reconnect(p) PROVE TypeOK'
    BY <2>13 DEF Reconnect, counts
  <2>14. ASSUME NEW n \in Name, Lapse(n) PROVE TypeOK'
    BY <2>14 DEF Lapse, Touched
  <2>15. CASE UNCHANGED vars
    BY <2>15 DEF vars
  <2> QED
    BY <2>1, <2>2, <2>4, <2>5, <2>6, <2>7, <2>8, <2>10, <2>11, <2>12, <2>13, <2>14, <2>15
    DEF Next, OpStep, RetryRelease
<1> QED BY <1>1, <1>2, PTL DEF Spec

\* Whatever calls share the connection of a process, a token leaves its key only when
\* it lapses, by the release of that very token (releaseLock, refreshLock and the
\* deferred release of lib/redis.ts), or by one whose WATCH another call of the same
\* process has cleared: but for that, WATCH, GET and EXEC are an owner check.
THEOREM PeerLocksUntouched == Spec => PeerLockUntouched
<1>1. Init => WatchInv
  BY DEF Init, WatchInv
<1>2. TypeOK /\ WatchInv /\ [Next]_vars => WatchInv'
  <2> SUFFICES ASSUME TypeOK, WatchInv, [Next]_vars,
                      NEW q \in Pod, NEW x \in ops'[q], CallOf(x) \notin crossed'[q]
               PROVE  /\ x.pc \in {"get", "exec"} => x.name \in watched'[q]
                      /\ x.pc = "exec" /\ ~dirty'[q] => key'[x.name] = x.token
    BY DEF WatchInv
  <2> DEFINE Goal == /\ x.pc \in {"get", "exec"} => x.name \in watched'[q]
                     /\ x.pc = "exec" /\ ~dirty'[q] => key'[x.name] = x.token
  <2>0. /\ key \in [Name -> Token] /\ ops \in [Pod -> SUBSET Op]
        /\ watched \in [Pod -> SUBSET Name] /\ dirty \in [Pod -> BOOLEAN]
        /\ crossed \in [Pod -> SUBSET Call]
    BY DEF TypeOK
  <2>a. ASSUME x \in ops[q], crossed'[q] = crossed[q]
                            PROVE /\ x.pc \in {"get", "exec"} => x.name \in watched[q]
                                  /\ x.pc = "exec" /\ ~dirty[q] => key[x.name] = x.token
    BY <2>a DEF WatchInv
  \* Another connection, or the server, changes one key at most and marks its watchers.
  <2>b. ASSUME NEW n \in Name, x \in ops[q], watched'[q] = watched[q], crossed'[q] = crossed[q],
               \A m \in Name : m # n => key'[m] = key[m],
               dirty'[q] = (dirty[q] \/ n \in watched[q])
        PROVE  Goal
    <3>1. x.name \in Name
      BY <2>0, <2>b DEF Op
    <3> QED BY <2>0, <2>a, <2>b, <3>1
  <2>c. ASSUME x \in ops[q], UNCHANGED <<key, watched, dirty, crossed>> PROVE Goal
    BY <2>a, <2>c
  <2>d. ASSUME NEW p \in Pod, Drop(p), \/ q = p
                                       \/ \E n \in Name : /\ \A m \in Name : m # n => key'[m] = key[m]
                                                          /\ dirty'[q] = (dirty[q] \/ n \in watched[q])
                                       \/ key' = key /\ dirty'[q] = dirty[q]
        PROVE  Goal
    <3>1. q # p /\ x \in ops[q] /\ watched'[q] = watched[q] /\ crossed'[q] = crossed[q]
      BY <2>0, <2>d DEF Drop
    <3> QED BY <2>a, <2>b, <2>d, <3>1
  \* What is left on a connection after the end of a call is crossed or has not begun.
  <2>e. ASSUME NEW p \in Pod, NEW o \in ops[p], Unmark(p, o), q = p PROVE Goal
    <3> DEFINE others == {CallOf(y) : y \in {z \in ops[p] \ {o} : z.pc # "watch"}}
    <3>1. x \in ops[p] \ {o}
      BY <2>0, <2>e DEF Unmark
    <3>2. crossed'[p] = (crossed[p] \ {CallOf(o)}) \cup others
      BY <2>0, <2>e DEF Unmark
    <3>3. x.pc # "watch" => CallOf(x) \in others
      BY <3>1
    <3> HIDE DEF others
    <3>4. x.pc = "watch"
      BY <2>e, <3>2, <3>3
    <3> QED BY <3>4
  <2>1. ASSUME NEW p \in Pod, NEW n \in Name, AcquireOpen(p, n) PROVE Goal
    BY <2>1, <2>c DEF AcquireOpen, links
  <2>2. ASSUME NEW p \in Pod, NEW n \in Name, Acquire(p, n) PROVE Goal
    <3>1. x \in ops[q] /\ UNCHANGED <<watched, crossed>> /\ dirty'[q] = (dirty[q] \/ n \in watched[q])
      BY <2>2 DEF Acquire, Touched
    <3>2. \A m \in Name : m # n => key'[m] = key[m]
      BY <2>0, <2>2 DEF Acquire
    <3> QED BY <2>b, <3>1, <3>2
  <2>3. ASSUME NEW p \in Pod, NEW n \in Name, NEW took \in BOOLEAN, AcquireFails(p, n, took) PROVE Goal
    <3>1. Drop(p)
      BY <2>3 DEF AcquireFails
    <3>2. CASE took
      <4>1. \A m \in Name : m # n => key'[m] = key[m]
        BY <2>0, <2>3, <3>2 DEF AcquireFails
      <4>2. q # p => dirty'[q] = (dirty[q] \/ n \in watched[q])
        BY <2>3, <3>2 DEF AcquireFails, Touched
      <4> QED BY <2>d, <3>1, <4>1, <4>2
    <3>3. CASE ~took
      <4>1. key' = key /\ (q # p => dirty'[q] = dirty[q])
        BY <2>0, <2>3, <3>3 DEF AcquireFails
      <4> QED BY <2>d, <3>1, <4>1
    <3> QED BY <3>2, <3>3
  \* A call that begins has neither marked nor compared anything.
  <2>4. ASSUME NEW p \in Pod, NEW kind, NEW n, NEW t, AddOp(p, kind, n, t), UNCHANGED <<key, watched, dirty, crossed>>
        PROVE  Goal
    <3> DEFINE new == [kind |-> kind, name |-> n, token |-> t, pc |-> "watch"]
    <3>1. new.pc = "watch"
      OBVIOUS
    <3>2. ops' = [ops EXCEPT ![p] = @ \cup {new}]
      BY <2>4 DEF AddOp
    <3> HIDE DEF new
    <3>3. x \in ops[q] \/ x = new
      BY <2>0, <3>2
    <3>4. CASE x = new
      BY <3>1, <3>4
    <3> QED BY <2>4, <2>c, <3>3, <3>4
  <2>5. ASSUME NEW p \in Pod, NEW n \in Name, StartRefresh(p, n) PROVE Goal
    BY <2>4, <2>5 DEF StartRefresh
  <2>6. ASSUME NEW p \in Pod, NEW n \in Name, StartRelease(p, n) PROVE Goal
    <3>1. UNCHANGED <<key, watched, dirty, crossed>>
      BY <2>6 DEF StartRelease
    <3>2. ops' = ops \/ AddOp(p, "release", n, held[p][n])
      <4>1. held[p][n] = 0 \/ conn[p] \in {"up", "cooldown"}
        BY DEF TypeOK
      <4> QED BY <2>6, <4>1 DEF StartRelease
    <3> QED BY <2>4, <2>c, <3>1, <3>2
  <2>7. ASSUME NEW p \in Pod, NEW r \in deferred[p], DeferredRelease(p, r) PROVE Goal
    BY <2>4, <2>7 DEF DeferredRelease
  <2>8. ASSUME NEW p \in Pod, NEW o \in ops[p], OpWatch(p, o) PROVE Goal
    <3>1. ops' = [ops EXCEPT ![p] = (@ \ {o}) \cup {[o EXCEPT !.pc = "get"]}]
          /\ watched' = [watched EXCEPT ![p] = @ \cup {o.name}] /\ UNCHANGED <<key, dirty, crossed>>
      BY <2>8 DEF OpWatch
    <3>2. [o EXCEPT !.pc = "get"].pc = "get" /\ [o EXCEPT !.pc = "get"].name = o.name
      <4>1. o \in Op
        BY <2>0
      <4> QED BY <4>1 DEF Op
    <3> DEFINE got == [o EXCEPT !.pc = "get"]
    <3> HIDE DEF got
    <3>3. got.pc = "get" /\ got.name = o.name /\ ops' = [ops EXCEPT ![p] = (@ \ {o}) \cup {got}]
      BY <3>1, <3>2 DEF got
    <3>4. CASE x \in ops[q]
      BY <2>0, <2>a, <3>1, <3>4
    <3>5. CASE x \notin ops[q]
      <4>1. q = p /\ x = got
        BY <2>0, <3>3, <3>5
      <4> QED BY <2>0, <3>1, <3>3, <4>1
    <3> QED BY <3>4, <3>5
  <2>9. ASSUME NEW p \in Pod, NEW o \in ops[p], OpGet(p, o) PROVE Goal
    <3> DEFINE found == [o EXCEPT !.pc = "exec"]
    <3>0. found.name = o.name /\ found.token = o.token /\ CallOf(found) = CallOf(o)
      <4>1. o \in Op
        BY <2>0
      <4> QED BY <4>1 DEF Op, CallOf
    <3> HIDE DEF found
    <3>1. CASE q # p
      <4>1. x \in ops[q] /\ watched'[q] = watched[q] /\ dirty'[q] = dirty[q] /\ key' = key /\ crossed'[q] = crossed[q]
        BY <2>0, <2>9, <3>1 DEF OpGet, Unmark
      <4> QED BY <2>a, <4>1
    <3>2. CASE q = p /\ key[o.name] = o.token
      <4>1. /\ ops' = [ops EXCEPT ![p] = (@ \ {o}) \cup {found}]
            /\ UNCHANGED <<key, watched, dirty, crossed>>
        BY <2>9, <3>2 DEF OpGet, found
      <4>2. CASE x \in ops[q]
        BY <2>c, <4>1, <4>2
      <4>3. CASE x = found
        <5>1. o.name \in watched[p]
          BY <2>9, <3>0, <3>2, <4>1, <4>3 DEF OpGet, WatchInv
        <5> QED BY <3>0, <3>2, <4>1, <4>3, <5>1
      <4> QED BY <2>0, <3>2, <4>1, <4>2, <4>3
    <3>3. CASE q = p /\ key[o.name] # o.token
      <4>1. Unmark(p, o)
        BY <2>9, <3>3 DEF OpGet
      <4> QED BY <2>e, <3>3, <4>1
    <3> QED BY <3>1, <3>2, <3>3
  \* The EXEC of another connection.
  <2>10. ASSUME NEW p \in Pod, NEW o \in ops[p], ExecEffect(p, o), q # p, x \in ops[q], watched'[q] = watched[q],
                crossed'[q] = crossed[q]
         PROVE  Goal
    <3>1. o.name \in Name
      BY <2>0 DEF Op
    <3>2. CASE dirty[p] \/ key[o.name] = 0
      <4>1. key' = key /\ dirty'[q] = dirty[q]
        BY <2>0, <2>10, <3>2 DEF ExecEffect
      <4> QED BY <2>a, <2>10, <4>1
    <3>3. CASE ~(dirty[p] \/ key[o.name] = 0)
      <4>1. dirty'[q] = (dirty[q] \/ o.name \in watched[q])
        BY <2>10, <3>3 DEF ExecEffect, Touched
      <4>2. \A m \in Name : m # o.name => key'[m] = key[m]
        BY <2>0, <2>10, <3>1, <3>3 DEF ExecEffect
      <4> QED BY <2>b, <2>10, <3>1, <4>1, <4>2
    <3> QED BY <3>2, <3>3
  <2>11. ASSUME NEW p \in Pod, NEW o \in ops[p], OpExec(p, o) PROVE Goal
    <3>1. Unmark(p, o) /\ ExecEffect(p, o)
      BY <2>11 DEF OpExec
    <3>2. CASE q # p
      <4>1. x \in ops[q] /\ watched'[q] = watched[q] /\ crossed'[q] = crossed[q]
        BY <2>0, <3>1, <3>2 DEF Unmark
      <4> QED BY <2>10, <3>1, <3>2, <4>1
    <3> QED BY <2>e, <3>1, <3>2
  <2>12. ASSUME NEW p \in Pod, NEW o \in ops[p], ExecTimesOut(p, o) PROVE Goal
    <3>1. q # p /\ x \in ops[q] /\ watched'[q] = watched[q] /\ crossed'[q] = crossed[q] /\ ExecEffect(p, o)
      BY <2>0, <2>12 DEF ExecTimesOut, Drop
    <3> QED BY <2>10, <3>1
  <2>13. ASSUME NEW p \in Pod, CommandTimesOut(p) PROVE Goal
    <3>1. Drop(p) /\ key' = key /\ (q # p => dirty'[q] = dirty[q])
      BY <2>0, <2>13 DEF CommandTimesOut
    <3> QED BY <2>d, <3>1
  <2>14. ASSUME NEW p \in Pod, Reconnect(p) PROVE Goal
    BY <2>c, <2>14 DEF Reconnect
  <2>15. ASSUME NEW n \in Name, Lapse(n) PROVE Goal
    <3>1. x \in ops[q] /\ UNCHANGED <<watched, crossed>> /\ dirty'[q] = (dirty[q] \/ n \in watched[q])
      BY <2>15 DEF Lapse, Touched
    <3>2. \A m \in Name : m # n => key'[m] = key[m]
      BY <2>0, <2>15 DEF Lapse
    <3> QED BY <2>b, <3>1, <3>2
  <2>16. CASE UNCHANGED vars
    BY <2>c, <2>16 DEF vars
  <2> QED
    BY <2>1, <2>2, <2>3, <2>5, <2>6, <2>7, <2>8, <2>9, <2>11, <2>12, <2>13, <2>14, <2>15, <2>16
    DEF Next, OpStep, RetryRelease
<1>3. TypeOK /\ WatchInv /\ [Next]_vars => [KeepsPeerLocks]_vars
  <2> SUFFICES ASSUME TypeOK, WatchInv, [Next]_vars, NEW n \in Name,
                      key[n] # 0, key'[n] # key[n], lapses' = lapses
               PROVE  ReleasedBy(n) \/ CrossedBy(n)
    BY DEF KeepsPeerLocks
  <2>0. /\ key \in [Name -> Token] /\ ops \in [Pod -> SUBSET Op] /\ dirty \in [Pod -> BOOLEAN]
        /\ lapses \in Nat
    BY LockAssumption DEF TypeOK
  <2>1. ASSUME NEW p \in Pod, NEW o \in ops[p], o.pc = "exec", ExecEffect(p, o), o \notin ops'[p]
        PROVE  ReleasedBy(n) \/ CrossedBy(n)
    <3>1. ~dirty[p] /\ o.kind # "refresh" /\ o.name = n
      BY <2>0, <2>1 DEF ExecEffect
    <3>2. key[o.name] = o.token \/ CallOf(o) \in crossed[p]
      BY <2>1, <3>1 DEF WatchInv
    <3> QED BY <2>1, <3>1, <3>2 DEF ReleasedBy, CrossedBy, EndsRelease
  <2>2. ASSUME NEW p \in Pod, NEW o \in ops[p], OpExec(p, o) \/ ExecTimesOut(p, o)
        PROVE  ReleasedBy(n) \/ CrossedBy(n)
    <3>1. o.pc = "exec" /\ ExecEffect(p, o) /\ o \notin ops'[p]
      BY <2>0, <2>2 DEF OpExec, Unmark, ExecTimesOut, Drop
    <3> QED BY <2>1, <3>1
  <2>3. ASSUME NEW m \in Name, Lapse(m) PROVE FALSE
    BY <2>0, <2>3 DEF Lapse
  <2>4. ASSUME NEW p \in Pod, NEW m \in Name, Acquire(p, m) \/ \E took \in BOOLEAN : AcquireFails(p, m, took)
        PROVE  FALSE
    <3>1. key' = key \/ (key[m] = 0 /\ key' = [key EXCEPT ![m] = issued'])
      BY <2>4 DEF Acquire, AcquireFails
    <3> QED BY <2>0, <3>1
  <2>5. ASSUME NEW p \in Pod, NEW m \in Name,
               AcquireOpen(p, m) \/ StartRefresh(p, m) \/ StartRelease(p, m)
        PROVE  FALSE
    BY <2>5 DEF AcquireOpen, StartRefresh, StartRelease
  <2>6. ASSUME NEW p \in Pod, NEW r \in deferred[p], DeferredRelease(p, r) PROVE FALSE
    BY <2>6 DEF DeferredRelease
  <2>7. ASSUME NEW p \in Pod, NEW o \in ops[p], OpWatch(p, o) \/ OpGet(p, o) PROVE FALSE
    BY <2>7 DEF OpWatch, OpGet
  <2>8. ASSUME NEW p \in Pod, CommandTimesOut(p) \/ Reconnect(p) PROVE FALSE
    BY <2>8 DEF CommandTimesOut, Reconnect
  <2> QED
    BY <2>2, <2>3, <2>4, <2>5, <2>6, <2>7, <2>8 DEF Next, OpStep, RetryRelease, vars
<1> QED BY <1>1, <1>2, <1>3, LockTypeCorrect, PTL DEF Spec, PeerLockUntouched

-----------------------------------------------------------------------------
(* The background loops, for any processes and loops, and any number of      *)
(* outages.                                                                  *)

LoopsTyped ==
    /\ life \in [Pod -> {"down", "up", "draining", "stopping", "closed"}]
    /\ timer \in [Pod -> [Loop -> BOOLEAN]]
    /\ pc \in [Pod -> [Loop -> {"idle", "lock"} \cup B!Working]]
    /\ stopped \in [Pod -> SUBSET Loop] /\ lock \in [Loop -> Pod \cup {NoPod}] /\ outages \in Nat
    /\ refused \in [Pod -> SUBSET Loop] /\ ended \in BOOLEAN

\* A loop of a process that is up goes on, or is a refused reaper's, and has not been
\* stopped; a stopped one has no timer, an armed timer no tick, and the runner is stopped and drained before
\* the pool goes; with Redis well, who does a locked loop's work is the lock's holder,
\* and until a process ends the holder of a lock works.
LoopInv(p, l) ==
    /\ life[p] \in {"down", "up"} => l \notin stopped[p]
    /\ l \in stopped[p] => ~ timer[p][l]
    /\ timer[p][l] => pc[p][l] = "idle"
    /\ l = "runner" /\ life[p] \in {"stopping", "closed"} => l \in stopped[p]
    /\ l = "runner" /\ life[p] = "closed" => pc[p][l] = "idle"
    /\ l \notin dormant /\ life[p] = "up" => B!Alive(p, l) \/ (l = "reaper" /\ l \in refused[p])
    /\ life[p] = "down" => ~ timer[p][l] /\ pc[p][l] = "idle"
    /\ ~ ended => life[p] \in {"down", "up"}
    /\ outages = 0 /\ ~ ended /\ l \in B!Locked /\ lock[l] = p => pc[p][l] \in B!Working
    /\ outages = 0 /\ l \in B!Locked /\ pc[p][l] \in B!Working => lock[l] = p

LoopsInv == LoopsTyped /\ \A p \in Pod, l \in Loop : LoopInv(p, l)

\* Outages are counted.
LEMMA OutagesCount == LoopsTyped /\ B!Outage => outages' \in Nat /\ outages' # 0
  BY DEF LoopsTyped, B!Outage

\* What the end of a tick and a stop function do to the timers.
LEMMA TimersMove ==
    ASSUME LoopsTyped, NEW p \in Pod
    PROVE  /\ \A l \in Loop : B!Reschedule(p, l) =>
                /\ timer' \in [Pod -> [Loop -> BOOLEAN]]
                /\ pc' \in [Pod -> [Loop -> {"idle", "lock"} \cup B!Working]]
                /\ timer'[p][l] = (l \notin stopped[p]) /\ pc'[p][l] = "idle"
                /\ \A q \in Pod, m \in Loop : q # p \/ m # l => timer'[q][m] = timer[q][m] /\ pc'[q][m] = pc[q][m]
           /\ \A loops \in SUBSET Loop : B!StopSome(p, loops) =>
                /\ stopped' \in [Pod -> SUBSET Loop] /\ timer' \in [Pod -> [Loop -> BOOLEAN]]
                /\ stopped'[p] = stopped[p] \cup loops
                /\ \A l \in Loop : timer'[p][l] = (timer[p][l] /\ l \notin loops)
                /\ \A q \in Pod \ {p} : stopped'[q] = stopped[q] /\ timer'[q] = timer[q]
<1>1. ASSUME NEW l \in Loop, B!Reschedule(p, l)
      PROVE  /\ timer' \in [Pod -> [Loop -> BOOLEAN]] /\ pc' \in [Pod -> [Loop -> {"idle", "lock"} \cup B!Working]]
             /\ timer'[p][l] = (l \notin stopped[p]) /\ pc'[p][l] = "idle"
             /\ \A q \in Pod, m \in Loop : q # p \/ m # l => timer'[q][m] = timer[q][m] /\ pc'[q][m] = pc[q][m]
  <2> USE DEF LoopsTyped, B!Reschedule
  <2>1. (l \notin stopped[p]) \in BOOLEAN
    OBVIOUS
  <2>2. timer' \in [Pod -> [Loop -> BOOLEAN]]
    BY <1>1, <2>1
  <2>3. timer'[p][l] = (l \notin stopped[p])
    BY <1>1
  <2>4. \A q \in Pod, m \in Loop : q # p \/ m # l => timer'[q][m] = timer[q][m]
    BY <1>1
  <2> QED BY <1>1, <2>2, <2>3, <2>4
<1>2. ASSUME NEW loops \in SUBSET Loop, B!StopSome(p, loops)
      PROVE  /\ stopped' \in [Pod -> SUBSET Loop] /\ timer' \in [Pod -> [Loop -> BOOLEAN]]
             /\ stopped'[p] = stopped[p] \cup loops /\ \A l \in Loop : timer'[p][l] = (timer[p][l] /\ l \notin loops)
             /\ \A q \in Pod \ {p} : stopped'[q] = stopped[q] /\ timer'[q] = timer[q]
  <2> USE DEF LoopsTyped
  <2>1. timer' = [timer EXCEPT ![p] = [l \in Loop |-> timer[p][l] /\ l \notin loops]]
    BY <1>2 DEF B!StopSome
  <2>2. [l \in Loop |-> timer[p][l] /\ l \notin loops] \in [Loop -> BOOLEAN]
    OBVIOUS
  <2>3. /\ stopped' \in [Pod -> SUBSET Loop] /\ stopped'[p] = stopped[p] \cup loops
        /\ \A q \in Pod \ {p} : stopped'[q] = stopped[q]
    BY <1>2 DEF B!StopSome
  <2> QED BY <2>1, <2>2, <2>3
<1> QED BY <1>1, <1>2

\* The loops' variables keep their types.
LEMMA LoopTypes == LoopsTyped /\ [B!Next]_loopVars => LoopsTyped'
<1> SUFFICES ASSUME LoopsTyped, [B!Next]_loopVars PROVE LoopsTyped'
  OBVIOUS
<1> USE DEF LoopsTyped, B!Working, B!Locked
<1>1. ASSUME NEW p \in Pod, NEW l \in Loop, B!Fire(p, l) PROVE LoopsTyped'
  BY <1>1 DEF B!Fire
<1>2. ASSUME NEW p \in Pod, NEW l \in Loop, B!LockWon(p, l) PROVE LoopsTyped'
  BY <1>2, OutagesCount DEF B!LockWon
<1>3. ASSUME NEW p \in Pod, NEW l \in Loop, B!LockDenied(p, l) PROVE LoopsTyped'
  <2>1. /\ UNCHANGED <<dormant, life, stopped, lock, ended>> /\ outages' \in Nat /\ (outages' = 0 => outages = 0)
        /\ refused' = [refused EXCEPT ![p] = @ \cup {l}] /\ pc[p][l] = "lock"
    BY <1>3, OutagesCount DEF B!LockDenied
  <2>2. CASE l = "reaper"
    <3>1. pc' = [pc EXCEPT ![p][l] = "idle"] /\ timer' = timer
      BY <1>3, <2>2 DEF B!LockDenied, B!AfterDenial
    <3> QED BY <2>1, <2>2, <3>1
  <2>3. CASE l # "reaper"
    <3>1. B!Reschedule(p, l)
      BY <1>3, <2>3 DEF B!LockDenied, B!AfterDenial
    <3> QED BY <2>1, <3>1, TimersMove
  <2> QED BY <2>2, <2>3
<1>4. ASSUME NEW p \in Pod, NEW l \in Loop, B!Work(p, l) PROVE LoopsTyped'
  <2>1. UNCHANGED <<dormant, life, stopped, lock, refused, ended, outages>> /\ pc[p][l] = "work"
    BY <1>4 DEF B!Work
  <2>2. CASE l \in B!Locked
    <3>1. pc' = [pc EXCEPT ![p][l] = "release"] /\ timer' = timer
      BY <1>4, <2>2 DEF B!Work
    <3> QED BY <2>1, <2>2, <3>1
  <2>3. CASE l \notin B!Locked
    <3>1. B!Reschedule(p, l)
      BY <1>4, <2>3 DEF B!Work
    <3> QED BY <2>1, <3>1, TimersMove
  <2> QED BY <2>2, <2>3
<1>5. ASSUME NEW p \in Pod, NEW l \in Loop, B!Release(p, l) PROVE LoopsTyped'
  <2>1. B!Reschedule(p, l) /\ UNCHANGED <<dormant, life, stopped, refused, ended, outages>> /\ pc[p][l] = "release"
        /\ lock' = [lock EXCEPT ![l] = IF @ = p THEN NoPod ELSE @]
    BY <1>5 DEF B!Release
  <2> QED BY <2>1, TimersMove
<1>6. ASSUME NEW l \in Loop, B!Lapse(l) PROVE LoopsTyped'
  BY <1>6, OutagesCount DEF B!Lapse
<1>7. ASSUME NEW l \in Loop, B!NextInterval(l) PROVE LoopsTyped'
  BY <1>7 DEF B!NextInterval
<1>8. ASSUME NEW p \in Pod, B!Boot(p) PROVE LoopsTyped'
  BY <1>8 DEF B!Boot
<1>9. ASSUME NEW p \in Pod, B!Signal(p) PROVE LoopsTyped'
  BY <1>9 DEF B!Signal
<1>10. ASSUME NEW p \in Pod, B!StopLoops(p) PROVE LoopsTyped'
  <2>1. B!StopSome(p, Loop \ {"runner"}) /\ life[p] = "draining" /\ UNCHANGED <<dormant, life, pc, lock, refused, ended, outages>>
    BY <1>10 DEF B!StopLoops
  <2> QED BY <2>1, TimersMove
<1>11. ASSUME NEW p \in Pod, B!StopJobRunner(p) PROVE LoopsTyped'
  <2>1. /\ B!StopSome(p, Loop \cap {"runner"}) /\ life[p] = "draining" /\ UNCHANGED <<dormant, pc, lock, refused, ended, outages>>
        /\ life' = [life EXCEPT ![p] = "stopping"]
    BY <1>11 DEF B!StopJobRunner
  <2> QED BY <2>1, TimersMove
<1>12. ASSUME NEW p \in Pod, B!CloseDatabase(p) PROVE LoopsTyped'
  BY <1>12 DEF B!CloseDatabase
<1>13. ASSUME NEW p \in Pod, B!Exit(p) PROVE LoopsTyped'
  BY <1>13 DEF B!Exit
<1>14. CASE UNCHANGED loopVars
  BY <1>14 DEF loopVars
<1> QED
  BY <1>1, <1>2, <1>3, <1>4, <1>5, <1>6, <1>7, <1>8, <1>9, <1>10, <1>11, <1>12, <1>13, <1>14 DEF B!Next

\* Every step of a loop, a lock or a shutdown keeps what is said of each loop.
LEMMA LoopStep ==
    ASSUME LoopsTyped, [B!Next]_loopVars, NEW q \in Pod, NEW m \in Loop, LoopInv(q, m)
    PROVE  LoopInv(q, m)'
<1> USE HolderAssumption DEF LoopsTyped, LoopInv, B!Working, B!Locked, B!Alive
<1>1. ASSUME NEW p \in Pod, NEW l \in Loop, B!Fire(p, l) PROVE LoopInv(q, m)'
  <2>1. UNCHANGED <<dormant, life, stopped, lock, ended, outages>> /\ timer[p][l]
    BY <1>1 DEF B!Fire
  <2>2. CASE q = p /\ m = l
    <3>1. ~ timer'[p][l] /\ pc'[p][l] = IF l \in B!Locked THEN "lock" ELSE "work"
      BY <1>1 DEF B!Fire
    <3>2. life[p] # "down" /\ l \notin stopped[p] /\ pc[p][l] = "idle"
      BY <2>1, <2>2
    <3> QED BY <2>1, <2>2, <3>1, <3>2
  <2>3. CASE q # p \/ m # l
    <3>1. timer'[q][m] = timer[q][m] /\ pc'[q][m] = pc[q][m] /\ (m \in refused'[q] <=> m \in refused[q])
      BY <1>1, <2>3 DEF B!Fire
    <3> QED BY <2>1, <3>1
  <2> QED BY <2>2, <2>3
<1>2. ASSUME NEW p \in Pod, NEW l \in Loop, B!LockWon(p, l) PROVE LoopInv(q, m)'
  BY <1>2, OutagesCount DEF B!LockWon
<1>3. ASSUME NEW p \in Pod, NEW l \in Loop, B!LockDenied(p, l) PROVE LoopInv(q, m)'
  <2>1. /\ UNCHANGED <<dormant, life, stopped, lock, ended>> /\ outages' \in Nat /\ (outages' = 0 => outages = 0)
        /\ refused' = [refused EXCEPT ![p] = @ \cup {l}] /\ pc[p][l] = "lock"
    BY <1>3, OutagesCount DEF B!LockDenied
  <2>2. CASE l = "reaper"
    <3>1. pc' = [pc EXCEPT ![p][l] = "idle"] /\ timer' = timer
      BY <1>3, <2>2 DEF B!LockDenied, B!AfterDenial
    <3> QED BY <2>1, <2>2, <3>1
  <2>3. CASE l # "reaper"
    <3>1. B!Reschedule(p, l)
      BY <1>3, <2>3 DEF B!LockDenied, B!AfterDenial
    <3>2. CASE q = p /\ m = l
      <4>1. timer'[p][l] = (l \notin stopped[p]) /\ pc'[p][l] = "idle"
        BY <3>1, TimersMove
      <4> QED BY <2>1, <3>2, <4>1
    <3>3. CASE q # p \/ m # l
      <4>1. timer'[q][m] = timer[q][m] /\ pc'[q][m] = pc[q][m]
        BY <3>1, <3>3, TimersMove
      <4> QED BY <2>1, <3>3, <4>1
    <3> QED BY <3>2, <3>3
  <2> QED BY <2>2, <2>3
<1>4. ASSUME NEW p \in Pod, NEW l \in Loop, B!Work(p, l) PROVE LoopInv(q, m)'
  <2>1. UNCHANGED <<dormant, life, stopped, lock, refused, ended, outages>> /\ pc[p][l] = "work"
    BY <1>4 DEF B!Work
  <2>2. CASE l \in B!Locked
    <3>1. pc' = [pc EXCEPT ![p][l] = "release"] /\ timer' = timer
      BY <1>4, <2>2 DEF B!Work
    <3> QED BY <2>1, <2>2, <3>1
  <2>3. CASE l \notin B!Locked
    <3>1. B!Reschedule(p, l)
      BY <1>4, <2>3 DEF B!Work
    <3>2. CASE q = p /\ m = l
      <4>1. timer'[p][l] = (l \notin stopped[p]) /\ pc'[p][l] = "idle"
        BY <3>1, TimersMove
      <4> QED BY <2>1, <2>3, <3>2, <4>1
    <3>3. CASE q # p \/ m # l
      <4>1. timer'[q][m] = timer[q][m] /\ pc'[q][m] = pc[q][m]
        BY <3>1, <3>3, TimersMove
      <4> QED BY <2>1, <3>3, <4>1
    <3> QED BY <3>2, <3>3
  <2> QED BY <2>2, <2>3
<1>5. ASSUME NEW p \in Pod, NEW l \in Loop, B!Release(p, l) PROVE LoopInv(q, m)'
  <2>1. B!Reschedule(p, l) /\ UNCHANGED <<dormant, life, stopped, refused, ended, outages>> /\ pc[p][l] = "release"
        /\ lock' = [lock EXCEPT ![l] = IF @ = p THEN NoPod ELSE @]
    BY <1>5 DEF B!Release
  <2>2. CASE q = p /\ m = l
    <3>1. timer'[p][l] = (l \notin stopped[p]) /\ pc'[p][l] = "idle" /\ lock'[l] # p
      BY <2>1, TimersMove, HolderAssumption
    <3> QED BY <2>1, <2>2, <3>1
  <2>3. CASE q # p \/ m # l
    <3>1. timer'[q][m] = timer[q][m] /\ pc'[q][m] = pc[q][m] /\ (lock'[m] = q <=> lock[m] = q)
      BY <2>1, <2>3, TimersMove, HolderAssumption
    <3> QED BY <2>1, <3>1
  <2> QED BY <2>2, <2>3
<1>6. ASSUME NEW l \in Loop, B!Lapse(l) PROVE LoopInv(q, m)'
  BY <1>6, OutagesCount DEF B!Lapse
<1>7. ASSUME NEW l \in Loop, B!NextInterval(l) PROVE LoopInv(q, m)'
  BY <1>7 DEF B!NextInterval
<1>8. ASSUME NEW p \in Pod, B!Boot(p) PROVE LoopInv(q, m)'
  BY <1>8 DEF B!Boot
<1>9. ASSUME NEW p \in Pod, B!Signal(p) PROVE LoopInv(q, m)'
  BY <1>9 DEF B!Signal
<1>10. ASSUME NEW p \in Pod, B!StopLoops(p) PROVE LoopInv(q, m)'
  <2>1. B!StopSome(p, Loop \ {"runner"}) /\ life[p] = "draining" /\ UNCHANGED <<dormant, life, pc, lock, refused, ended, outages>>
    BY <1>10 DEF B!StopLoops
  <2>2. CASE q = p
    <3>1. stopped'[p] = stopped[p] \cup (Loop \ {"runner"}) /\ timer'[p][m] = (timer[p][m] /\ m \notin Loop \ {"runner"})
      BY <2>1, TimersMove
    <3> QED BY <2>1, <2>2, <3>1
  <2>3. CASE q # p
    <3>1. stopped'[q] = stopped[q] /\ timer'[q] = timer[q]
      BY <2>1, <2>3, TimersMove
    <3> QED BY <2>1, <3>1
  <2> QED BY <2>2, <2>3
<1>11. ASSUME NEW p \in Pod, B!StopJobRunner(p) PROVE LoopInv(q, m)'
  <2>1. /\ B!StopSome(p, Loop \cap {"runner"}) /\ life[p] = "draining" /\ UNCHANGED <<dormant, pc, lock, refused, ended, outages>>
        /\ life' = [life EXCEPT ![p] = "stopping"]
    BY <1>11 DEF B!StopJobRunner
  <2>2. CASE q = p
    <3>1. stopped'[p] = stopped[p] \cup (Loop \cap {"runner"}) /\ timer'[p][m] = (timer[p][m] /\ m \notin Loop \cap {"runner"})
      <4> DEFINE S == Loop \cap {"runner"}
      <4>1. S \in SUBSET Loop /\ B!StopSome(p, S)
        BY <2>1
      <4>2. stopped'[p] = stopped[p] \cup S /\ timer'[p][m] = (timer[p][m] /\ m \notin S)
        BY <4>1, TimersMove
      <4> QED BY <4>2
    <3> QED BY <2>1, <2>2, <3>1
  <2>3. CASE q # p
    <3>1. stopped'[q] = stopped[q] /\ timer'[q] = timer[q]
      BY <2>1, <2>3, TimersMove
    <3> QED BY <2>1, <2>3, <3>1
  <2> QED BY <2>2, <2>3
<1>12. ASSUME NEW p \in Pod, B!CloseDatabase(p) PROVE LoopInv(q, m)'
  BY <1>12 DEF B!CloseDatabase
<1>13. ASSUME NEW p \in Pod, B!Exit(p) PROVE LoopInv(q, m)'
  BY <1>13 DEF B!Exit
<1>14. CASE UNCHANGED loopVars
  BY <1>14 DEF loopVars
<1> QED
  BY <1>1, <1>2, <1>3, <1>4, <1>5, <1>6, <1>7, <1>8, <1>9, <1>10, <1>11, <1>12, <1>13, <1>14 DEF B!Next

\* Until Redis fails or a process ends, a loop that the configuration runs goes on in
\* some process.
KeptOn(l) ==
    outages = 0 /\ ~ ended /\ l \notin dormant /\ (\E p \in Pod : life[p] = "up")
        => \E p \in Pod : life[p] = "up" /\ B!Alive(p, l)

\* A reaper that is refused its lock leaves the one that holds it behind.
LEMMA HolderGoesOn ==
    ASSUME LoopsInv, NEW p \in Pod, NEW l \in Loop, B!LockDenied(p, l), l = "reaper",
           outages' = 0, ~ ended
    PROVE  \E r \in Pod : life'[r] = "up" /\ B!Alive(r, l)'
<1> USE HolderAssumption DEF LoopsInv, LoopsTyped
<1>1. lock[l] # NoPod /\ outages = 0 /\ pc[p][l] = "lock" /\ life' = life
  BY OutagesCount DEF B!LockDenied
<1>2. PICK r \in Pod : lock[l] = r
  BY <1>1
<1>3. pc[r][l] \in {"work", "release"} /\ life[r] = "up"
  BY <1>1, <1>2 DEF LoopInv, B!Locked, B!Working
<1>4. r # p
  BY <1>1, <1>3
<1>5. pc'[r][l] = pc[r][l]
  BY <1>4 DEF B!LockDenied, B!AfterDenial
<1> QED BY <1>1, <1>3, <1>5 DEF B!Alive

LEMMA OneIsLeft ==
    ASSUME LoopsInv, LoopsInv', [B!Next]_loopVars, NEW l \in Loop, KeptOn(l)
    PROVE  KeptOn(l)'
<1> SUFFICES ASSUME outages' = 0, ~ ended', l \notin dormant', \E p \in Pod : life'[p] = "up"
             PROVE  \E p \in Pod : life'[p] = "up" /\ B!Alive(p, l)'
  BY DEF KeptOn
<1>1. ASSUME NEW p \in Pod, B!Boot(p) PROVE \E q \in Pod : life'[q] = "up" /\ B!Alive(q, l)'
  <2>1. life'[p] = "up" /\ timer'[p][l]
    BY <1>1 DEF B!Boot, LoopsInv, LoopsTyped
  <2> QED BY <2>1 DEF B!Alive
<1>2. ASSUME UNCHANGED <<dormant, life, ended>>, outages = 0,
             \A q \in Pod : life[q] = "up" /\ B!Alive(q, l) => B!Alive(q, l)'
      PROVE  \E q \in Pod : life'[q] = "up" /\ B!Alive(q, l)'
  BY <1>2 DEF KeptOn
<1>3. ASSUME NEW p \in Pod, NEW m \in Loop, UNCHANGED <<dormant, life, ended, stopped>>, outages = 0,
             \/ B!Reschedule(p, m)
             \/ /\ pc' = [pc EXCEPT ![p][m] = pc'[p][m]] /\ pc'[p][m] # "idle"
                /\ \A q \in Pod, k \in Loop : q # p \/ k # m => timer'[q][k] = timer[q][k]
      PROVE  \E q \in Pod : life'[q] = "up" /\ B!Alive(q, l)'
  <2>1. ASSUME NEW q \in Pod, life[q] = "up", B!Alive(q, l) PROVE B!Alive(q, l)'
    <3>1. CASE q = p /\ l = m
      BY <1>3, <2>1, <3>1, TimersMove DEF LoopsInv, LoopsTyped, LoopInv, B!Alive
    <3>2. CASE q # p \/ l # m
      <4>1. timer'[q][l] = timer[q][l] /\ pc'[q][l] = pc[q][l]
        BY <1>3, <3>2, TimersMove DEF LoopsInv, LoopsTyped
      <4> QED BY <2>1, <4>1 DEF B!Alive
    <3> QED BY <3>1, <3>2
  <2> QED BY <1>2, <1>3, <2>1
<1>4. ASSUME NEW p \in Pod, NEW m \in Loop, B!Fire(p, m)
      PROVE  \E q \in Pod : life'[q] = "up" /\ B!Alive(q, l)'
  <2>1. /\ UNCHANGED <<dormant, life, ended, stopped>> /\ outages = 0
        /\ timer' = [timer EXCEPT ![p][m] = FALSE]
        /\ pc' = [pc EXCEPT ![p][m] = IF m \in B!Locked THEN "lock" ELSE "work"]
    BY <1>4 DEF B!Fire
  <2>2. pc'[p][m] = (IF m \in B!Locked THEN "lock" ELSE "work")
    BY <2>1 DEF LoopsInv, LoopsTyped
  <2>3. pc'[p][m] # "idle"
    BY <2>2
  <2>4. pc' = [pc EXCEPT ![p][m] = pc'[p][m]]
    BY <2>1, <2>2
  <2>5. \A q \in Pod, k \in Loop : q # p \/ k # m => timer'[q][k] = timer[q][k]
    BY <2>1 DEF LoopsInv, LoopsTyped
  <2> QED BY <1>3, <2>1, <2>3, <2>4, <2>5
<1>5. ASSUME NEW p \in Pod, NEW m \in Loop, B!LockWon(p, m)
      PROVE  \E q \in Pod : life'[q] = "up" /\ B!Alive(q, l)'
  <2>1. /\ outages = 0 /\ UNCHANGED <<dormant, life, ended, stopped, timer>>
        /\ pc' = [pc EXCEPT ![p][m] = "work"]
    BY <1>5, OutagesCount DEF B!LockWon, LoopsInv
  <2>2. pc'[p][m] = "work"
    BY <2>1 DEF LoopsInv, LoopsTyped
  <2>3. pc' = [pc EXCEPT ![p][m] = pc'[p][m]]
    BY <2>1, <2>2
  <2> QED BY <1>3, <2>1, <2>2, <2>3
<1>6. ASSUME NEW p \in Pod, NEW m \in Loop, B!LockDenied(p, m)
      PROVE  \E q \in Pod : life'[q] = "up" /\ B!Alive(q, l)'
  <2>1. outages = 0 /\ UNCHANGED <<dormant, life, ended, stopped>>
    BY <1>6, OutagesCount DEF B!LockDenied, LoopsInv
  <2>2. CASE m # "reaper"
    BY <1>3, <1>6, <2>1, <2>2 DEF B!LockDenied, B!AfterDenial
  <2>3. CASE m = "reaper" /\ l = m
    BY <1>6, <2>1, <2>3, HolderGoesOn
  <2>4. CASE m = "reaper" /\ l # m
    <3>1. timer' = timer /\ \A q \in Pod : pc'[q][l] = pc[q][l]
      BY <1>6, <2>4 DEF B!LockDenied, B!AfterDenial, LoopsInv, LoopsTyped
    <3> QED BY <1>2, <2>1, <3>1 DEF B!Alive
  <2> QED BY <2>2, <2>3, <2>4
<1>7. ASSUME NEW p \in Pod, NEW m \in Loop, B!Work(p, m)
      PROVE  \E q \in Pod : life'[q] = "up" /\ B!Alive(q, l)'
  <2>1. outages = 0 /\ UNCHANGED <<dormant, life, ended, stopped>>
    BY <1>7 DEF B!Work
  <2>2. CASE m \in B!Locked
    <3>1. timer' = timer /\ pc' = [pc EXCEPT ![p][m] = pc'[p][m]] /\ pc'[p][m] # "idle"
      BY <1>7, <2>2 DEF B!Work, LoopsInv, LoopsTyped
    <3> QED BY <1>3, <2>1, <3>1
  <2>3. CASE m \notin B!Locked
    BY <1>3, <1>7, <2>1, <2>3 DEF B!Work
  <2> QED BY <2>2, <2>3
<1>8. ASSUME NEW p \in Pod, NEW m \in Loop, B!Release(p, m)
      PROVE  \E q \in Pod : life'[q] = "up" /\ B!Alive(q, l)'
  BY <1>3, <1>8 DEF B!Release
<1>9. ASSUME NEW m \in Loop, B!Lapse(m) \/ B!NextInterval(m)
      PROVE  \E q \in Pod : life'[q] = "up" /\ B!Alive(q, l)'
  <2>1. outages = 0 /\ UNCHANGED <<dormant, life, ended, timer, pc>>
    BY <1>9, OutagesCount DEF B!Lapse, B!NextInterval, LoopsInv
  <2> QED BY <1>2, <2>1 DEF B!Alive
<1>10. ASSUME NEW p \in Pod, B!Signal(p) \/ B!Exit(p) PROVE FALSE
  BY <1>10 DEF B!Signal, B!Exit
<1>11. ASSUME NEW p \in Pod, B!StopLoops(p) \/ B!StopJobRunner(p) \/ B!CloseDatabase(p) PROVE FALSE
  <2>1. life[p] \notin {"down", "up"} /\ ~ ended
    BY <1>11 DEF B!StopLoops, B!StopJobRunner, B!CloseDatabase
  <2>2. LoopInv(p, l)
    BY DEF LoopsInv
  <2> QED BY <2>1, <2>2 DEF LoopInv
<1>12. CASE UNCHANGED loopVars
  BY <1>12, <1>2 DEF loopVars, B!Alive
<1> QED
  BY <1>1, <1>4, <1>5, <1>6, <1>7, <1>8, <1>9, <1>10, <1>11, <1>12 DEF B!Next

\* So it holds in every behaviour of the loops.
LEMMA LoopsInvariant == B!Spec => [](LoopsInv /\ \A l \in Loop : KeptOn(l))
<1>1. ASSUME B!Init PROVE LoopsInv /\ \A l \in Loop : KeptOn(l)
  <2>1. LoopsTyped
    BY <1>1 DEF B!Init, LoopsTyped, B!Working
  <2>2. ASSUME NEW p \in Pod, NEW l \in Loop PROVE LoopInv(p, l)
    BY <1>1, HolderAssumption DEF B!Init, LoopInv, B!Working
  <2>3. \A p \in Pod : life[p] # "up"
    BY <1>1 DEF B!Init
  <2> QED BY <2>1, <2>2, <2>3 DEF LoopsInv, KeptOn
<1>2. LoopsInv /\ [B!Next]_loopVars => LoopsInv'
  BY LoopTypes, LoopStep DEF LoopsInv
<1>3. ASSUME LoopsInv, \A l \in Loop : KeptOn(l), [B!Next]_loopVars PROVE (\A l \in Loop : KeptOn(l))'
  BY <1>2, <1>3, OneIsLeft
<1> QED BY <1>1, <1>2, <1>3, PTL DEF B!Spec, B!vars, loopVars

\* With every process, any number of loops and however often Redis fails: who works
\* holds the lock until Redis has failed once, no loop of a running process stops by
\* itself but the reaper's when it is refused its lock, one process's goes on as long
\* as Redis is well and no process has ended, and the runner is drained before the
\* pool goes.
THEOREM LoopsAreKept ==
    B!Spec => [](B!OnePodAtATime /\ B!RunnerDrained /\ B!LoopsGoOn /\ B!OneGoesOn)
<1>1. LoopsInv => B!OnePodAtATime
  <2>1. ASSUME LoopsInv, outages = 0, NEW l \in B!Locked
        PROVE  Cardinality({p \in Pod : pc[p][l] \in B!Working}) <= 1
    <3> DEFINE Workers == {p \in Pod : pc[p][l] \in B!Working}
    <3>1. \A p \in Pod : pc[p][l] \in B!Working => lock[l] = p
      BY <2>1 DEF LoopsInv, LoopInv, B!Locked
    <3>2. Workers = {} \/ Workers = {lock[l]}
      BY <3>1
    <3> HIDE DEF Workers
    <3>3. Cardinality(Workers) <= 1
      BY <3>2, FS_EmptySet, FS_Singleton
    <3> QED BY <3>3 DEF Workers
  <2> QED BY <2>1 DEF B!OnePodAtATime, B!Cardinality, Cardinality
<1>2. LoopsInv => B!RunnerDrained
  BY DEF LoopsInv, LoopInv, B!RunnerDrained
<1>3. LoopsInv => B!LoopsGoOn
  BY DEF LoopsInv, LoopInv, B!LoopsGoOn
<1>4. (\A l \in Loop : KeptOn(l)) => B!OneGoesOn
  BY DEF KeptOn, B!OneGoesOn
<1> QED BY <1>1, <1>2, <1>3, <1>4, LoopsInvariant, PTL

-----------------------------------------------------------------------------
(* The consumer's loop, for any processes, deliveries and faults.            *)

ConsumerTyped ==
    /\ consumer \in [Pod -> {"off", "up", "stopping", "stopped"}]
    /\ wakeup \in [Pod -> {"none", "boot", "now", "poll"}] /\ stray \in [Pod -> Nat]
    /\ body \in [Pod -> [E!Slot -> E!Pc]] /\ full \in [Pod -> [E!Slot -> BOOLEAN]]
    /\ tickInFlight \in [Pod -> BOOLEAN] /\ wakeRequested \in [Pod -> BOOLEAN] /\ unheard \in [Pod -> BOOLEAN]

NoBody(p) == \A s \in E!Slot : body[p][s] = "idle"
OneBody(p) == \E s \in E!Slot : body[p][s] # "idle" /\ \A t \in E!Slot \ {s} : body[p][t] = "idle"

\* A process that is up has a timer or a tick body, and nothing strays; the boot's
\* timer and a body are what tickInFlight stands for; a wake is seen by the timer
\* or by the tick it fell into.
ConsumerInv(p) ==
    /\ stray[p] = 0
    /\ consumer[p] = "off" => wakeup[p] = "none" /\ NoBody(p) /\ ~ tickInFlight[p] /\ ~ unheard[p]
    /\ consumer[p] \in {"stopping", "stopped"} => wakeup[p] = "none" /\ (NoBody(p) \/ OneBody(p))
    /\ consumer[p] = "up" =>
        /\ (wakeup[p] # "none" /\ NoBody(p)) \/ (wakeup[p] = "none" /\ OneBody(p))
        /\ tickInFlight[p] <=> (wakeup[p] = "boot" \/ OneBody(p))
        /\ unheard[p] => wakeup[p] = "now" \/ (tickInFlight[p] /\ wakeRequested[p])

ConsumersInv == ConsumerTyped /\ \A p \in Pod : ConsumerInv(p)

\* What p's step leaves of it, as the next lemmas see it.
ConsumerAt(p) == <<consumer[p], wakeup[p], stray[p], body[p], full[p], tickInFlight[p], wakeRequested[p], unheard[p]>>

\* The steps of one process, and those of its tick bodies.
ProcessSteps(p) ==
    \/ E!Start(p) \/ E!BootFires(p) \/ E!TimerFires(p) \/ E!Wake(p) \/ E!Stop(p) \/ E!StopReturns(p) \/ E!Exit(p)
    \/ \E s \in E!Slot : \/ \E ok \in BOOLEAN : E!BootSyncs(p, s, ok)
                         \/ E!TakeLock(p, s) \/ E!LockFailsOpen(p, s) \/ E!LockDenied(p, s)
                         \/ E!Claim(p, s) \/ E!RunBatch(p, s) \/ E!TickThrows(p, s) \/ E!Release(p, s)

\* A slot that is free is a slot.
LEMMA FreeSlotIsFree ==
    ASSUME NEW p \in Pod, E!HasSlot(p) PROVE E!FreeSlot(p) \in E!Slot /\ body[p][E!FreeSlot(p)] = "idle"
  BY DEF E!HasSlot, E!FreeSlot

\* A tick body moves alone.
LEMMA BodyGoes ==
    ASSUME ConsumerTyped, NEW p \in Pod, NEW s \in E!Slot, NEW c \in E!Pc, E!GoTo(p, s, c)
    PROVE  /\ body' \in [Pod -> [E!Slot -> E!Pc]] /\ body'[p][s] = c
           /\ \A t \in E!Slot \ {s} : body'[p][t] = body[p][t]
           /\ \A q \in Pod \ {p} : body'[q] = body[q]
  BY DEF ConsumerTyped, E!GoTo

\* The first turn of a tick.
LEMMA TickBegins ==
    ASSUME ConsumerTyped, NEW p \in Pod, NEW s \in E!Slot, E!BeginTick(p, s)
    PROVE  /\ E!GoTo(p, s, "lock")
           /\ wakeup' \in [Pod -> {"none", "boot", "now", "poll"}] /\ full' \in [Pod -> [E!Slot -> BOOLEAN]]
           /\ tickInFlight' \in [Pod -> BOOLEAN] /\ wakeRequested' \in [Pod -> BOOLEAN]
           /\ unheard' \in [Pod -> BOOLEAN]
           /\ wakeup'[p] = "none" /\ tickInFlight'[p] /\ ~ unheard'[p]
           /\ \A q \in Pod \ {p} : /\ wakeup'[q] = wakeup[q] /\ full'[q] = full[q] /\ unheard'[q] = unheard[q]
                                   /\ tickInFlight'[q] = tickInFlight[q] /\ wakeRequested'[q] = wakeRequested[q]
  BY DEF ConsumerTyped, E!BeginTick, E!GoTo

\* The last turn of a tick.
LEMMA TickEnds ==
    ASSUME ConsumerTyped, NEW p \in Pod, NEW s \in E!Slot, E!EndTick(p, s)
    PROVE  /\ E!GoTo(p, s, "idle")
           /\ wakeup' \in [Pod -> {"none", "boot", "now", "poll"}] /\ stray' \in [Pod -> Nat]
           /\ tickInFlight' \in [Pod -> BOOLEAN] /\ wakeRequested' \in [Pod -> BOOLEAN]
           /\ ~ tickInFlight'[p] /\ (wakeup[p] = "none" => stray'[p] = stray[p])
           /\ E!ShuttingDown(p) => wakeup'[p] = wakeup[p]
           /\ ~ E!ShuttingDown(p) => wakeup'[p] \in {"now", "poll"} /\ (wakeRequested[p] => wakeup'[p] = "now")
           /\ \A q \in Pod \ {p} : /\ wakeup'[q] = wakeup[q] /\ stray'[q] = stray[q]
                                   /\ tickInFlight'[q] = tickInFlight[q] /\ wakeRequested'[q] = wakeRequested[q]
<1> USE DEF ConsumerTyped
<1>1. E!GoTo(p, s, "idle") /\ tickInFlight' = [tickInFlight EXCEPT ![p] = FALSE]
  BY DEF E!EndTick
<1>2. CASE E!ShuttingDown(p)
  <2>1. UNCHANGED <<wakeup, stray, wakeRequested>>
    BY <1>2 DEF E!EndTick
  <2> QED BY <1>1, <1>2, <2>1
<1>3. CASE ~ E!ShuttingDown(p)
  <2>1. /\ wakeup' = [wakeup EXCEPT ![p] = IF full[p][s] \/ wakeRequested[p] THEN "now" ELSE "poll"]
        /\ stray' = [stray EXCEPT ![p] = @ + IF wakeup[p] = "none" THEN 0 ELSE 1]
        /\ wakeRequested' = [wakeRequested EXCEPT ![p] = FALSE]
    BY <1>3 DEF E!EndTick
  <2> QED BY <1>1, <1>3, <2>1
<1> QED BY <1>2, <1>3

\* A step of a process keeps the types, and leaves the other processes alone.
LEMMA ProcessTypes ==
    ASSUME ConsumerTyped, NEW p \in Pod, ProcessSteps(p)
    PROVE  ConsumerTyped' /\ \A q \in Pod \ {p} : ConsumerAt(q)' = ConsumerAt(q)
<1> DEFINE Kept == ConsumerTyped' /\ \A q \in Pod \ {p} : ConsumerAt(q)' = ConsumerAt(q)
<1> USE DEF ConsumerTyped, ConsumerAt, E!flags
<1>1. CASE E!Start(p)
  BY <1>1 DEF E!Start
<1>2. CASE E!BootFires(p)
  <2>1. E!GoTo(p, E!FreeSlot(p), "boot")
    BY <1>2 DEF E!BootFires, E!GoTo
  <2> QED BY <1>2, <2>1, FreeSlotIsFree, BodyGoes DEF E!BootFires, E!Pc
<1>3. CASE E!TimerFires(p)
  <2>1. /\ UNCHANGED consumer /\ stray' = [stray EXCEPT ![p] = IF @ > 0 THEN @ - 1 ELSE 0]
        /\ E!FreeSlot(p) \in E!Slot
    BY <1>3, FreeSlotIsFree DEF E!TimerFires
  <2>2. stray' \in [Pod -> Nat] /\ \A q \in Pod \ {p} : stray'[q] = stray[q]
    BY <2>1
  <2>3. CASE E!ShuttingDown(p)
    BY <1>3, <2>1, <2>2, <2>3 DEF E!TimerFires
  <2>4. CASE ~ E!ShuttingDown(p)
    <3>1. E!BeginTick(p, E!FreeSlot(p))
      BY <1>3, <2>4 DEF E!TimerFires
    <3> QED BY <2>1, <2>2, <3>1, TickBegins, BodyGoes DEF E!Pc
  <2> QED BY <2>3, <2>4
<1>4. CASE E!Wake(p)
  BY <1>4 DEF E!Wake
<1>5. CASE E!Stop(p)
  BY <1>5 DEF E!Stop
<1>6. CASE E!StopReturns(p)
  BY <1>6 DEF E!StopReturns
<1>7. CASE E!Exit(p)
  BY <1>7 DEF E!Exit, E!Pc
<1>8. ASSUME NEW s \in E!Slot, NEW ok \in BOOLEAN, E!BootSyncs(p, s, ok) PROVE Kept
  <2>1. UNCHANGED <<consumer, stray>>
    BY <1>8 DEF E!BootSyncs
  <2>2. CASE E!ShuttingDown(p)
    <3>1. E!GoTo(p, s, "idle") /\ tickInFlight' = [tickInFlight EXCEPT ![p] = FALSE]
          /\ UNCHANGED <<wakeup, wakeRequested, unheard, full>>
      BY <1>8, <2>2 DEF E!BootSyncs, E!GoTo
    <3> QED BY <2>1, <3>1, BodyGoes DEF E!Pc
  <2>3. CASE ~ E!ShuttingDown(p)
    <3>1. E!BeginTick(p, s)
      BY <1>8, <2>3 DEF E!BootSyncs
    <3> QED BY <2>1, <3>1, TickBegins, BodyGoes DEF E!Pc
  <2> QED BY <2>2, <2>3
<1>9. ASSUME NEW s \in E!Slot, E!TakeLock(p, s) \/ E!LockFailsOpen(p, s) \/ E!RunBatch(p, s) \/ E!TickThrows(p, s)
      PROVE  Kept
  <2>1. /\ UNCHANGED <<consumer, wakeup, stray, tickInFlight, wakeRequested, unheard, full>>
        /\ E!GoTo(p, s, "claim") \/ E!GoTo(p, s, "sweep") \/ E!GoTo(p, s, "release")
    BY <1>9 DEF E!TakeLock, E!LockFailsOpen, E!RunBatch, E!TickThrows
  <2> QED BY <2>1, BodyGoes DEF E!Pc
<1>10. ASSUME NEW s \in E!Slot, E!Claim(p, s) PROVE Kept
  <2>1. /\ UNCHANGED <<consumer, wakeup, stray, tickInFlight, wakeRequested, unheard>>
        /\ full' = [full EXCEPT ![p][s] = due >= BatchSize] /\ E!GoTo(p, s, "run")
    BY <1>10 DEF E!Claim
  <2>2. (due >= BatchSize) \in BOOLEAN
    OBVIOUS
  <2>3. full' \in [Pod -> [E!Slot -> BOOLEAN]] /\ \A q \in Pod \ {p} : full'[q] = full[q]
    BY <2>1, <2>2
  <2> QED BY <2>1, <2>3, BodyGoes DEF E!Pc
<1>11. ASSUME NEW s \in E!Slot, E!LockDenied(p, s) \/ E!Release(p, s) PROVE Kept
  <2>1. UNCHANGED <<consumer, full, unheard>> /\ E!EndTick(p, s)
    BY <1>11 DEF E!LockDenied, E!Release
  <2> QED BY <2>1, TickEnds, BodyGoes DEF E!Pc
<1> QED
  BY <1>1, <1>2, <1>3, <1>4, <1>5, <1>6, <1>7, <1>8, <1>9, <1>10, <1>11 DEF ProcessSteps

\* Where a body is, as the invariant counts it: one that begins in a process
\* without any is the only one, and one that ends was.
LEMMA BodiesCount ==
    ASSUME ConsumerTyped, NEW p \in Pod, NEW s \in E!Slot, NEW c \in E!Pc, E!GoTo(p, s, c)
    PROVE  /\ c # "idle" /\ NoBody(p) => OneBody(p)'
           /\ c # "idle" /\ OneBody(p) /\ body[p][s] # "idle" => OneBody(p)'
           /\ c = "idle" /\ OneBody(p) /\ body[p][s] # "idle" => NoBody(p)'
           /\ body[p][s] # "idle" => ~ NoBody(p)
           /\ ~ (NoBody(p) /\ OneBody(p))
  BY BodyGoes DEF NoBody, OneBody, E!Slot

\* A process's own steps keep what is said of its loop.
LEMMA LoopTurns ==
    ASSUME ConsumerTyped, NEW p \in Pod, ConsumerInv(p), ProcessSteps(p) PROVE ConsumerInv(p)'
<1> DEFINE Kept == ConsumerInv(p)'
<1> USE DEF ConsumerTyped, ConsumerInv, E!flags, E!ShuttingDown
<1>0. ~ (NoBody(p) /\ OneBody(p))
  BY DEF NoBody, OneBody
<1>a. body' = body => (NoBody(p)' <=> NoBody(p)) /\ (OneBody(p)' <=> OneBody(p))
  BY DEF NoBody, OneBody
<1>b. NoBody(p) => E!HasSlot(p)
  BY DEF NoBody, E!HasSlot, E!Slot
<1>1. CASE E!Start(p)
  BY <1>1, <1>0, <1>a DEF E!Start
<1>2. CASE E!BootFires(p)
  <2>1. E!GoTo(p, E!FreeSlot(p), "boot") /\ E!FreeSlot(p) \in E!Slot
    BY <1>2, FreeSlotIsFree DEF E!BootFires, E!GoTo
  <2>2. consumer[p] = "up" /\ NoBody(p)
    BY <1>2 DEF E!BootFires
  <2>3. OneBody(p)'
    BY <2>1, <2>2, BodiesCount DEF E!Pc
  <2>4. /\ UNCHANGED <<consumer, stray, tickInFlight, wakeRequested, unheard>>
        /\ wakeup[p] = "boot" /\ wakeup'[p] = "none"
    BY <1>2 DEF E!BootFires
  <2> QED BY <1>0, <2>2, <2>3, <2>4
<1>3. CASE E!TimerFires(p)
  <2>1. wakeup[p] \in {"now", "poll"}
    BY <1>3 DEF E!TimerFires
  <2>2. consumer[p] = "up" /\ NoBody(p) /\ E!FreeSlot(p) \in E!Slot
    BY <1>b, <2>1, FreeSlotIsFree
  <2>3. E!BeginTick(p, E!FreeSlot(p)) /\ consumer' = consumer /\ stray'[p] = 0
    BY <1>3, <2>2 DEF E!TimerFires
  <2>4. E!GoTo(p, E!FreeSlot(p), "lock") /\ wakeup'[p] = "none" /\ tickInFlight'[p] /\ ~ unheard'[p]
    BY <2>2, <2>3, TickBegins
  <2>5. OneBody(p)'
    BY <2>2, <2>4, BodiesCount DEF E!Pc
  <2> QED BY <2>2, <2>3, <2>4, <2>5
<1>4. CASE E!Wake(p)
  <2>1. UNCHANGED <<consumer, stray, body, tickInFlight>> /\ consumer[p] = "up"
    BY <1>4 DEF E!Wake
  <2>2. CASE tickInFlight[p]
    BY <1>4, <1>a, <2>1, <2>2 DEF E!Wake
  <2>3. CASE ~ tickInFlight[p]
    BY <1>4, <1>0, <1>a, <2>1, <2>3 DEF E!Wake
  <2> QED BY <2>2, <2>3
<1>5. CASE E!Stop(p)
  BY <1>5, <1>a DEF E!Stop
<1>6. CASE E!StopReturns(p)
  BY <1>6, <1>a DEF E!StopReturns
<1>7. CASE E!Exit(p)
  <2>1. NoBody(p)'
    BY <1>7 DEF E!Exit, NoBody
  <2> QED BY <1>7, <2>1 DEF E!Exit
<1>8. ASSUME NEW s \in E!Slot, NEW ok \in BOOLEAN, E!BootSyncs(p, s, ok) PROVE Kept
  <2>1. UNCHANGED <<consumer, stray>> /\ body[p][s] = "boot"
    BY <1>8 DEF E!BootSyncs
  <2>2. OneBody(p) /\ consumer[p] # "off" /\ wakeup[p] = "none"
    BY <2>1 DEF NoBody, OneBody
  <2>3. CASE E!ShuttingDown(p)
    <3>1. E!GoTo(p, s, "idle") /\ UNCHANGED wakeup
      BY <1>8, <2>3 DEF E!BootSyncs, E!GoTo
    <3>2. NoBody(p)'
      BY <2>1, <2>2, <3>1, BodiesCount DEF E!Pc
    <3> QED BY <2>1, <2>2, <2>3, <3>1, <3>2
  <2>4. CASE ~ E!ShuttingDown(p)
    <3>1. E!BeginTick(p, s)
      BY <1>8, <2>4 DEF E!BootSyncs
    <3>2. E!GoTo(p, s, "lock") /\ wakeup'[p] = "none" /\ tickInFlight'[p] /\ ~ unheard'[p]
      BY <3>1, TickBegins
    <3>3. OneBody(p)'
      BY <2>1, <2>2, <3>2, BodiesCount DEF E!Pc
    <3> QED BY <2>1, <2>2, <2>4, <3>2, <3>3
  <2> QED BY <2>3, <2>4
<1>9. ASSUME NEW s \in E!Slot, \/ E!TakeLock(p, s) \/ E!LockFailsOpen(p, s) \/ E!RunBatch(p, s)
                               \/ E!TickThrows(p, s) \/ E!Claim(p, s)
      PROVE  Kept
  <2>1. /\ UNCHANGED <<consumer, wakeup, stray, tickInFlight, wakeRequested, unheard>>
        /\ \/ E!GoTo(p, s, "claim") \/ E!GoTo(p, s, "sweep") \/ E!GoTo(p, s, "release") \/ E!GoTo(p, s, "run")
        /\ body[p][s] # "idle"
    BY <1>9 DEF E!TakeLock, E!LockFailsOpen, E!RunBatch, E!TickThrows, E!Claim
  <2>2. OneBody(p)
    BY <2>1 DEF NoBody, OneBody
  <2>3. OneBody(p)'
    BY <2>1, <2>2, BodiesCount DEF E!Pc
  <2> QED BY <1>0, <2>1, <2>2, <2>3
<1>10. ASSUME NEW s \in E!Slot, E!LockDenied(p, s) \/ E!Release(p, s) PROVE Kept
  <2>1. UNCHANGED <<consumer, unheard>> /\ E!EndTick(p, s) /\ body[p][s] # "idle"
    BY <1>10 DEF E!LockDenied, E!Release
  <2>2. OneBody(p) /\ consumer[p] # "off" /\ wakeup[p] = "none"
    BY <2>1 DEF NoBody, OneBody
  <2>3. NoBody(p)'
    BY <2>1, <2>2, TickEnds, BodiesCount DEF E!Pc
  <2>4. /\ ~ tickInFlight'[p] /\ stray'[p] = 0 /\ (E!ShuttingDown(p) => wakeup'[p] = "none")
        /\ ~ E!ShuttingDown(p) => wakeup'[p] \in {"now", "poll"} /\ (wakeRequested[p] => wakeup'[p] = "now")
    BY <2>1, <2>2, TickEnds
  <2>5. ~ (NoBody(p)' /\ OneBody(p)')
    BY DEF NoBody, OneBody
  <2> QED BY <2>1, <2>2, <2>3, <2>4, <2>5
<1> QED
  BY <1>1, <1>2, <1>3, <1>4, <1>5, <1>6, <1>7, <1>8, <1>9, <1>10 DEF ProcessSteps

\* Nobody's step disturbs another process's loop.
LEMMA ConsumersInvariant == E!Spec => []ConsumersInv
<1>1. E!Init => ConsumersInv
  BY DEF E!Init, ConsumersInv, ConsumerTyped, ConsumerInv, NoBody, E!Pc
<1>2. ConsumersInv /\ [E!Next]_consumerVars => ConsumersInv'
  <2> SUFFICES ASSUME ConsumersInv, [E!Next]_consumerVars PROVE ConsumersInv'
    OBVIOUS
  <2>1. ASSUME NEW q \in Pod, ConsumerAt(q)' = ConsumerAt(q) PROVE ConsumerInv(q)'
    <3>1. ConsumerInv(q)
      BY DEF ConsumersInv
    <3> QED BY <2>1, <3>1 DEF ConsumerAt, ConsumerInv, NoBody, OneBody
  <2>2. ASSUME NEW p \in Pod, ProcessSteps(p) PROVE ConsumersInv'
    <3>1. ConsumerTyped' /\ ConsumerInv(p)' /\ \A q \in Pod \ {p} : ConsumerAt(q)' = ConsumerAt(q)
      BY <2>2, ProcessTypes, LoopTurns DEF ConsumersInv
    <3> QED BY <2>1, <3>1 DEF ConsumersInv
  <2>3. ASSUME UNCHANGED <<consumer, wakeup, stray, body, full, tickInFlight, wakeRequested, unheard>>
        PROVE  ConsumersInv'
    <3>1. ConsumerTyped' /\ \A q \in Pod : ConsumerAt(q)' = ConsumerAt(q)
      BY <2>3 DEF ConsumersInv, ConsumerTyped, ConsumerAt
    <3> QED BY <2>1, <3>1 DEF ConsumersInv
  <2>4. CASE \E reached \in SUBSET Pod : E!Publish(reached)
    BY <2>3, <2>4 DEF E!Publish, E!flags
  <2>5. CASE E!Lapse
    BY <2>3, <2>5 DEF E!Lapse, E!flags
  <2>6. CASE UNCHANGED consumerVars
    BY <2>3, <2>6 DEF consumerVars
  <2> QED BY <2>2, <2>4, <2>5, <2>6 DEF E!Next, ProcessSteps
<1> QED BY <1>1, <1>2, PTL DEF E!Spec, E!vars, consumerVars

\* However boots, nudges, ticks, stops and crashes interleave, a process that is up
\* has one consumer loop and no nudge is lost to it.
THEOREM ConsumersAreKept == E!Spec => [](E!OneLoop /\ E!NoLostWake)
<1>1. ConsumersInv => E!OneLoop
  <2> SUFFICES ASSUME ConsumersInv, NEW p \in Pod
               PROVE  E!Loops(p) <= 1 /\ (consumer[p] = "up" => E!Loops(p) = 1)
    BY DEF E!OneLoop
  <2> DEFINE Bodies == {s \in E!Slot : body[p][s] # "idle"}
  <2>1. stray[p] = 0 /\ ConsumerInv(p)
    BY DEF ConsumersInv, ConsumerInv
  <2>2. NoBody(p) => Cardinality(Bodies) = 0
    <3>1. NoBody(p) => Bodies = {}
      BY DEF NoBody
    <3> QED BY <3>1, FS_EmptySet
  <2>3. OneBody(p) => Cardinality(Bodies) = 1
    <3>1. OneBody(p) => \E s \in E!Slot : Bodies = {s}
      BY DEF OneBody
    <3> QED BY <3>1, FS_Singleton
  <2>4. E!Loops(p) = (IF wakeup[p] = "none" THEN 0 ELSE 1) + Cardinality(Bodies)
    <3>1. Cardinality(Bodies) \in Nat
      <4>1. E!Slot = {1} \cup {2}
        BY DEF E!Slot
      <4>2. IsFiniteSet(E!Slot)
        BY <4>1, FS_Singleton, FS_Union
      <4>3. Bodies \subseteq E!Slot
        OBVIOUS
      <4> HIDE DEF Bodies
      <4> QED BY <4>2, <4>3, FS_Subset, FS_CardinalityType
    <3> QED BY <2>1, <3>1 DEF E!Loops, E!Cardinality, Cardinality
  <2>5. consumer[p] \in {"off", "up", "stopping", "stopped"}
    BY DEF ConsumersInv, ConsumerTyped
  <2> HIDE DEF Bodies
  <2> QED BY <2>1, <2>2, <2>3, <2>4, <2>5 DEF ConsumerInv
<1>2. ConsumersInv => E!NoLostWake
  BY DEF ConsumersInv, ConsumerInv, E!NoLostWake
<1> QED BY <1>1, <1>2, ConsumersInvariant, PTL

-----------------------------------------------------------------------------
(* Migrations, for any images, files, failovers and deaths.                  *)

\* What the pods have read, and the files they are at.
MigrationTypes ==
    /\ ledger \subseteq M!Files /\ applied \in [M!Files -> Nat] /\ ran \in [M!Files -> SUBSET (1 .. Statements)]
    /\ at \in [Pod -> {"down", "probe", "create", "ledger", "apply", "done"}]
    /\ pending \in [Pod -> SUBSET Nat] /\ next \in [Pod -> 0 .. Statements]

\* SchemaMatchesLedger, file by file.
FileRecorded(v) ==
    /\ v \notin Bare => applied[v] = IF v \in ledger THEN 1 ELSE 0
    /\ v \in Bare /\ v \in ledger => ran[v] = 1 .. Statements
    /\ applied[v] > 0 \/ ran[v] # {} => 1 .. (v - 1) \subseteq ledger

\* A pod that applies files has them in order: those of its image it has not
\* pending are recorded, and a bare file it is at has run as far as it says.
PodMigrates(p) ==
    /\ pending[p] \subseteq 1 .. Ships[p] /\ pending[p] # {}
    /\ (1 .. Ships[p]) \ pending[p] \subseteq ledger
    /\ M!First(p) \in Bare \cap M!Files => 1 .. next[p] \subseteq ran[M!First(p)]

PodRecorded(p) ==
    /\ at[p] = "apply" => PodMigrates(p)
    /\ at[p] = "done" => 1 .. Ships[p] \subseteq ledger

MigrationsInv ==
    /\ MigrationTypes
    /\ \A v \in M!Files : FileRecorded(v)
    /\ \A p \in Pod : PodRecorded(p)

\* A pod's files are numbers, so there is a first one.
LEMMA FirstIsLeast ==
    ASSUME NEW S \in SUBSET Nat, S # {} PROVE M!Min(S) \in S /\ \A y \in S : M!Min(S) <= y
<1>1. \E x \in S : \A y \in S : x <= y
  <2>1. PICK x \in S : \A y \in S : ~ (<<y, x>> \in OpToRel(<, Nat))
    BY NatLessThanWellFounded, WFMin, Zenon
  <2>2. \A y \in S : ~ (y < x)
    BY <2>1 DEF OpToRel
  <2> QED BY <2>2
<1> QED BY <1>1 DEF M!Min

\* What the order of the files gives a pod that applies one.
LEMMA AppliesInOrder ==
    ASSUME MigrationsInv, NEW p \in Pod, NEW v \in M!Files, M!Applies(p, v)
    PROVE  /\ at[p] = "apply" /\ PodMigrates(p) /\ v \in pending[p] /\ v \in 1 .. Ships[p]
           /\ 1 .. (v - 1) \subseteq ledger /\ v = M!First(p)
<1> USE DEF MigrationsInv, MigrationTypes, PodRecorded, PodMigrates
<1>1. at[p] = "apply" /\ v = M!First(p) /\ pending[p] \in SUBSET Nat /\ pending[p] # {}
  BY DEF M!Applies
<1>2. v \in pending[p] /\ \A y \in pending[p] : v <= y
  BY <1>1, FirstIsLeast DEF M!First
<1>3. v \in 1 .. Ships[p] /\ Ships[p] \in Nat
  BY <1>1, <1>2, MigrationsAssumption
<1>4. ASSUME NEW u \in 1 .. (v - 1) PROVE u \in ledger
  <2>1. u \in 1 .. Ships[p] /\ ~ (v <= u)
    BY <1>3
  <2> QED BY <1>1, <1>2, <2>1
<1> QED BY <1>1, <1>2, <1>3, <1>4

\* A pod whose columns stay, or that is neither applying files nor done afterwards,
\* keeps its part while the ledger and the statements that ran only grow.
LEMMA PodsKeep ==
    ASSUME NEW p \in Pod, PodRecorded(p),
           ledger \subseteq ledger', \A v \in M!Files : ran[v] \subseteq ran'[v],
           at'[p] \notin {"apply", "done"} \/ UNCHANGED <<at[p], pending[p], next[p]>>
    PROVE  PodRecorded(p)'
<1> USE DEF PodRecorded
<1>1. CASE at'[p] \notin {"apply", "done"}
  BY <1>1
<1>2. CASE UNCHANGED <<at[p], pending[p], next[p]>>
  <2>1. M!First(p)' = M!First(p)
    BY <1>2 DEF M!First, M!Min
  <2> QED BY <1>2, <2>1 DEF PodMigrates, M!Files
<1> QED BY <1>1, <1>2

\* A pod that has applied its file goes on to the next one it has pending.
LEMMA FileDone ==
    ASSUME MigrationsInv, NEW p \in Pod, NEW v \in M!Files, M!Applies(p, v), M!Applied(p, v),
           ledger' = ledger \cup {v}
    PROVE  /\ at' \in [Pod -> {"down", "probe", "create", "ledger", "apply", "done"}]
           /\ pending' \in [Pod -> SUBSET Nat] /\ next' \in [Pod -> 0 .. Statements]
           /\ PodRecorded(p)'
           /\ \A q \in Pod \ {p} : UNCHANGED <<at[q], pending[q], next[q]>>
<1> USE DEF MigrationsInv, MigrationTypes
<1>1. /\ pending' = [pending EXCEPT ![p] = @ \ {v}] /\ next' = [next EXCEPT ![p] = 0]
      /\ at' = [at EXCEPT ![p] = IF pending[p] = {v} THEN "done" ELSE "apply"]
  BY DEF M!Applied
<1>2. PodMigrates(p) /\ v \in pending[p]
  BY AppliesInOrder
<1>3. pending'[p] = pending[p] \ {v} /\ next'[p] = 0
  BY <1>1
<1>4. CASE pending[p] = {v}
  <2>1. at'[p] = "done" /\ 1 .. Ships[p] \subseteq ledger'
    BY <1>1, <1>2, <1>4 DEF PodMigrates
  <2> QED BY <1>1, <2>1, MigrationsAssumption DEF PodRecorded
<1>5. CASE pending[p] # {v}
  <2>1. at'[p] = "apply" /\ PodMigrates(p)'
    BY <1>1, <1>2, <1>3, <1>5 DEF PodMigrates
  <2> QED BY <1>1, <2>1, MigrationsAssumption DEF PodRecorded
<1> QED BY <1>4, <1>5

\* A step that writes neither the ledger nor a file moves pods that are not applying.
LEMMA OnlyPodsMove ==
    ASSUME MigrationsInv, UNCHANGED <<ledger, applied, ran>>,
           at' \in [Pod -> {"down", "probe", "create", "ledger", "apply", "done"}],
           pending' \in [Pod -> SUBSET Nat], next' \in [Pod -> 0 .. Statements],
           \A q \in Pod : \/ at'[q] \notin {"apply", "done"} \/ UNCHANGED <<at[q], pending[q], next[q]>>
                          \/ PodRecorded(q)'
    PROVE  MigrationsInv'
<1>1. ASSUME NEW q \in Pod PROVE PodRecorded(q)'
  BY PodsKeep DEF MigrationsInv
<1>2. MigrationTypes' /\ \A v \in M!Files : FileRecorded(v)'
  BY DEF MigrationsInv, MigrationTypes, FileRecorded
<1> QED BY <1>1, <1>2 DEF MigrationsInv

\* The transaction of a file, with its row.
LEMMA FileApplies ==
    ASSUME MigrationsInv, NEW p \in Pod, NEW v \in M!Files, M!ApplyInTransaction(p, v) PROVE MigrationsInv'
<1> USE DEF MigrationsInv, MigrationTypes
<1>1. M!Applies(p, v) /\ v \notin Bare /\ UNCHANGED ran
  BY DEF M!ApplyInTransaction
<1>2. CASE v \in ledger
  <2>1. UNCHANGED <<ledger, applied, ran, pending, next>> /\ at' = [at EXCEPT ![p] = "down"]
    BY <1>2 DEF M!ApplyInTransaction, M!Throw
  <2> QED BY <2>1, OnlyPodsMove
<1>3. CASE v \notin ledger
  <2>1. applied' = [applied EXCEPT ![v] = @ + 1] /\ ledger' = ledger \cup {v} /\ M!Applied(p, v)
    BY <1>3 DEF M!ApplyInTransaction
  <2>2. MigrationTypes' /\ PodRecorded(p)' /\ \A q \in Pod \ {p} : UNCHANGED <<at[q], pending[q], next[q]>>
    BY <1>1, <2>1, FileDone
  <2>3. ASSUME NEW q \in Pod PROVE PodRecorded(q)'
    BY <1>1, <2>1, <2>2, PodsKeep
  <2>4. 1 .. (v - 1) \subseteq ledger
    BY <1>1, AppliesInOrder
  <2>5. ASSUME NEW u \in M!Files PROVE FileRecorded(u)'
    <3>1. FileRecorded(u)
      OBVIOUS
    <3> QED BY <1>1, <1>3, <2>1, <2>4, <3>1 DEF FileRecorded
  <2> QED BY <2>2, <2>3, <2>5
<1> QED BY <1>2, <1>3

\* A statement of a bare file, and its row.
LEMMA BareFileRuns ==
    ASSUME MigrationsInv, NEW p \in Pod, NEW v \in M!Files, M!RunStatement(p, v) \/ M!RecordBare(p, v)
    PROVE  MigrationsInv'
<1> USE DEF MigrationsInv, MigrationTypes
<1>1. M!Applies(p, v) /\ v \in Bare /\ UNCHANGED applied
  BY DEF M!RunStatement, M!RecordBare
<1>2. /\ PodMigrates(p) /\ v = M!First(p) /\ 1 .. (v - 1) \subseteq ledger
      /\ 1 .. next[p] \subseteq ran[v] /\ ran[v] \subseteq 1 .. Statements
  BY <1>1, AppliesInOrder DEF PodMigrates
<1>3. CASE M!RunStatement(p, v)
  <2>1. /\ next' = [next EXCEPT ![p] = @ + 1] /\ ran' = [ran EXCEPT ![v] = @ \cup {next[p] + 1}]
        /\ next[p] < Statements /\ UNCHANGED <<ledger, at, pending>>
    BY <1>3 DEF M!RunStatement
  <2>2. next[p] + 1 \in 1 .. Statements /\ next[p] \in Nat
    BY <2>1, MigrationsAssumption
  <2>3. MigrationTypes'
    BY <1>1, <2>1, <2>2, MigrationsAssumption
  <2>4. \A u \in M!Files : ran[u] \subseteq ran'[u]
    BY <2>1
  <2>5. M!First(p)' = v
    BY <1>2, <2>1 DEF M!First, M!Min
  <2>6. 1 .. next'[p] \subseteq ran'[v]
    <3>1. next'[p] = next[p] + 1 /\ ran'[v] = ran[v] \cup {next[p] + 1}
      BY <2>1
    <3> QED BY <1>2, <2>2, <3>1
  <2>7. PodRecorded(p)'
    BY <1>1, <1>2, <2>1, <2>5, <2>6 DEF PodRecorded, PodMigrates, M!Applies
  <2>8. ASSUME NEW q \in Pod PROVE PodRecorded(q)'
    BY <2>1, <2>4, <2>7, PodsKeep
  <2>9. ASSUME NEW u \in M!Files PROVE FileRecorded(u)'
    <3>1. FileRecorded(u)
      OBVIOUS
    <3>2. v \in ledger => ran'[v] = 1 .. Statements
      <4>1. v \in ledger => ran[v] = 1 .. Statements
        BY <1>1 DEF FileRecorded
      <4> QED BY <2>1, <2>2, <4>1
    <3> QED BY <1>1, <1>2, <2>1, <3>1, <3>2 DEF FileRecorded
  <2> QED BY <2>3, <2>8, <2>9
<1>4. CASE M!RecordBare(p, v) /\ v \in ledger
  <2>1. UNCHANGED <<ledger, applied, ran, pending, next>> /\ at' = [at EXCEPT ![p] = "down"]
    BY <1>4 DEF M!RecordBare, M!Throw
  <2> QED BY <2>1, OnlyPodsMove
<1>5. CASE M!RecordBare(p, v) /\ v \notin ledger
  <2>1. ledger' = ledger \cup {v} /\ M!Applied(p, v) /\ UNCHANGED ran /\ next[p] = Statements
    BY <1>5 DEF M!RecordBare
  <2>2. MigrationTypes' /\ PodRecorded(p)' /\ \A q \in Pod \ {p} : UNCHANGED <<at[q], pending[q], next[q]>>
    BY <1>1, <2>1, FileDone
  <2>3. ASSUME NEW q \in Pod PROVE PodRecorded(q)'
    BY <2>1, <2>2, PodsKeep
  <2>4. ran[v] = 1 .. Statements
    BY <1>2, <2>1
  <2>5. ASSUME NEW u \in M!Files PROVE FileRecorded(u)'
    <3>1. FileRecorded(u)
      OBVIOUS
    <3> QED BY <1>1, <1>2, <2>1, <2>4, <3>1 DEF FileRecorded
  <2> QED BY <2>2, <2>3, <2>5
<1> QED BY <1>3, <1>4, <1>5

\* Every step of a pod, and a failover, keeps what is said of files and pods.
LEMMA MigrationsInvariant == M!Init /\ [][M!Next]_migrationVars => []MigrationsInv
<1>1. M!Init => MigrationsInv
  BY MigrationsAssumption DEF M!Init, MigrationsInv, MigrationTypes, FileRecorded, PodRecorded
<1>2. MigrationsInv /\ [M!Next]_migrationVars => MigrationsInv'
  <2> SUFFICES ASSUME MigrationsInv, [M!Next]_migrationVars PROVE MigrationsInv'
    OBVIOUS
  <2> USE DEF MigrationTypes, M!database
  <2>0. MigrationTypes
    BY DEF MigrationsInv
  <2>a. ASSUME NEW p \in Pod, NEW c \in {"down", "probe", "create", "ledger"}, at' = [at EXCEPT ![p] = c],
               UNCHANGED <<ledger, applied, ran, pending, next>>
        PROVE  MigrationsInv'
    BY <2>0, <2>a, OnlyPodsMove
  <2>1. ASSUME NEW p \in Pod, M!Boot(p) PROVE MigrationsInv'
    BY <2>1, <2>a DEF M!Boot
  <2>2. ASSUME NEW p \in Pod, M!Probe(p) PROVE MigrationsInv'
    BY <2>2, <2>a DEF M!Probe
  <2>3. ASSUME NEW p \in Pod, M!CreateDatabase(p) PROVE MigrationsInv'
    BY <2>3, <2>a DEF M!CreateDatabase, M!Throw
  <2>4. ASSUME NEW p \in Pod, M!ReadLedger(p) PROVE MigrationsInv'
    <3>1. /\ UNCHANGED <<ledger, applied, ran>> /\ next' = [next EXCEPT ![p] = 0]
          /\ pending' = [pending EXCEPT ![p] = (1 .. Ships[p]) \ ledger]
          /\ at' = [at EXCEPT ![p] = IF (1 .. Ships[p]) \ ledger = {} THEN "done" ELSE "apply"]
      BY <2>4 DEF M!ReadLedger, M!Pending
    <3>2. /\ at' \in [Pod -> {"down", "probe", "create", "ledger", "apply", "done"}]
          /\ pending' \in [Pod -> SUBSET Nat] /\ next' \in [Pod -> 0 .. Statements]
      BY <2>0, <3>1, MigrationsAssumption
    <3>3. pending'[p] = (1 .. Ships[p]) \ ledger /\ next'[p] = 0
      BY <2>0, <3>1
    <3>4. PodRecorded(p)'
      BY <2>0, <3>1, <3>3 DEF PodRecorded, PodMigrates
    <3> QED BY <2>0, <3>1, <3>2, <3>4, OnlyPodsMove
  <2>5. ASSUME NEW p \in Pod, M!MeetsReadOnly(p) PROVE MigrationsInv'
    BY <2>5, <2>a DEF M!MeetsReadOnly, M!Throw
  <2>6. ASSUME NEW p \in Pod, M!Dies(p) PROVE MigrationsInv'
    BY <2>6, <2>a DEF M!Dies, M!Throw
  <2>7. ASSUME UNCHANGED <<ledger, applied, ran, at, pending, next>> PROVE MigrationsInv'
    BY <2>0, <2>7, OnlyPodsMove
  <2>8. CASE M!Failover \/ M!FailoverEnds \/ UNCHANGED migrationVars
    BY <2>7, <2>8 DEF M!Failover, M!FailoverEnds, migrationVars
  <2> QED
    BY <2>1, <2>2, <2>3, <2>4, <2>5, <2>6, <2>8, FileApplies, BareFileRuns DEF M!Next, M!Migrate
<1> QED BY <1>1, <1>2, PTL

\* Whichever pods migrate together, and wherever they die or meet a failover, the
\* schema is what the ledger says.
THEOREM SchemasMatch == M!Init /\ [][M!Next]_migrationVars => []M!SchemaMatchesLedger
<1>1. MigrationsInv => M!SchemaMatchesLedger
  <2> SUFFICES ASSUME MigrationsInv PROVE M!SchemaMatchesLedger
    OBVIOUS
  <2> USE DEF MigrationsInv, MigrationTypes, FileRecorded, PodRecorded
  <2>1. \A v \in M!Files \ Bare : applied[v] = IF v \in ledger THEN 1 ELSE 0
    OBVIOUS
  <2>2. \A v \in Bare : v \in ledger => ran[v] = 1 .. Statements
    OBVIOUS
  <2>3. \A v \in M!Files : applied[v] > 0 \/ ran[v] # {} => 1 .. (v - 1) \subseteq ledger
    OBVIOUS
  <2> QED BY <2>1, <2>2, <2>3 DEF M!SchemaMatchesLedger
<1> QED BY <1>1, MigrationsInvariant, PTL

-----------------------------------------------------------------------------
(* The rate limiter, for any callers and any limit.                          *)

Asking == {c \in Caller : asking[c] > 0}
Counted == Cardinality(window \cup Asking)

\* The caller that made the key is counted though it has no answer yet; until it
\* has, the key does not expire, so a window's callers are no more than its count.
CountInv ==
    /\ count \in Nat /\ asking \in [Caller -> {0, 1}]
    /\ window \subseteq Caller /\ verdict \in [Caller -> {"none", "allowed", "denied"}]
    /\ \A c, d \in Asking : c = d
    /\ Counted <= count /\ Counted <= Limit
ExpiryInv == ttl \in BOOLEAN /\ (ttl => Asking = {} /\ count > 0)
WindowInv == CountInv /\ ExpiryInv

\* A caller that is answered by a count within the limit is one more of its window.
LEMMA CallerAnswered ==
    ASSUME WindowInv, NEW c \in Caller, NEW n \in Nat, C!Answer(c, n)
    PROVE  /\ verdict' \in [Caller -> {"none", "allowed", "denied"}]
           /\ n <= Limit => window' = window \cup {c}
           /\ n > Limit => window' = window
<1>1. C!Within(n) <=> n <= Limit
  BY DEF C!Within
<1> QED BY <1>1, LimiterAssumption DEF C!Answer, WindowInv, CountInv

\* Only the caller that made the key asks on, and a window's callers were counted.
LEMMA WindowInvariant == C!Init /\ [][C!Next]_clientVars => []WindowInv
<1> USE LimiterAssumption
<1>1. C!Init => WindowInv
  <2> SUFFICES ASSUME C!Init PROVE WindowInv
    OBVIOUS
  <2>1. window \cup Asking = {} /\ Asking = {}
    BY DEF C!Init, Asking
  <2>2. Counted = 0
    BY <2>1, FS_EmptySet, ZenonT(30) DEF Counted
  <2>3. CountInv
    BY <2>1, <2>2 DEF C!Init, CountInv
  <2>4. ExpiryInv
    BY DEF C!Init, ExpiryInv
  <2> QED BY <2>3, <2>4 DEF WindowInv
<1>2. WindowInv /\ [C!Next]_clientVars => WindowInv'
  <2> SUFFICES ASSUME WindowInv, [C!Next]_clientVars PROVE WindowInv'
    OBVIOUS
  <2>0. /\ IsFiniteSet(window \cup Asking) /\ Counted \in Nat
    <3>1. window \cup Asking \in SUBSET Caller
      BY DEF WindowInv, CountInv, Asking
    <3> QED BY <3>1, FS_Subset, FS_CardinalityType DEF Counted
  <2>a. ASSUME UNCHANGED <<count, ttl, asking, window, verdict>> PROVE WindowInv'
    BY <2>a DEF WindowInv, CountInv, ExpiryInv, Asking, Counted
  <2>b. ASSUME NEW S \in SUBSET (window \cup Asking)
        PROVE  Cardinality(S) <= Counted /\ Cardinality(S) \in Nat
    BY <2>0, FS_Subset, FS_CardinalityType DEF Counted
  <2>1. ASSUME NEW c \in Caller, C!Incr(c) PROVE WindowInv'
    <3>1. count' = count + 1 /\ ttl' = ttl /\ asking[c] = 0 /\ count \in Nat
      BY <2>1 DEF C!Incr, WindowInv, CountInv
    <3>2. CASE count = 0
      <4>1. asking' = [asking EXCEPT ![c] = 1] /\ UNCHANGED <<verdict, window>>
        BY <2>1, <3>2 DEF C!Incr
      <4>2. window = {} /\ Asking = {}
        <5>1. Counted = 0
          BY <2>0, <3>2 DEF WindowInv, CountInv
        <5>2. window \cup Asking = {}
          BY <2>0, <5>1, FS_EmptySet DEF Counted
        <5> QED BY <5>2
      <4>3. Asking' = {c}
        BY <4>1, <4>2 DEF Asking, WindowInv, CountInv
      <4>4. Counted' = 1
        <5>1. (window \cup Asking)' = {c}
          BY <4>1, <4>2, <4>3
        <5> QED BY <5>1, FS_Singleton, ZenonT(30) DEF Counted
      <4>5. CountInv'
        BY <3>1, <3>2, <4>1, <4>3, <4>4 DEF WindowInv, CountInv
      <4>6. ~ ttl
        BY <3>2 DEF WindowInv, ExpiryInv
      <4>7. ExpiryInv'
        BY <3>1, <4>6 DEF WindowInv, ExpiryInv
      <4> QED BY <4>5, <4>7 DEF WindowInv
    <3>3. CASE count # 0
      <4>1. C!Answer(c, count + 1) /\ asking' = asking /\ Asking' = Asking
        BY <2>1, <3>3 DEF C!Incr, Asking
      <4>a. count' > 0
        BY <3>1
      <4>0. ExpiryInv'
        BY <3>1, <4>1, <4>a DEF WindowInv, ExpiryInv
      <4>2. CASE count + 1 <= Limit
        <5>1. window' = window \cup {c} /\ verdict' \in [Caller -> {"none", "allowed", "denied"}]
          BY <3>1, <4>1, <4>2, CallerAnswered
        <5>2. (window \cup Asking)' = (window \cup Asking) \cup {c}
          BY <4>1, <5>1
        <5>3. Counted' <= Counted + 1
              /\ Counted' \in Nat
          <6> DEFINE S == window \cup Asking
          <6>1. IsFiniteSet(S) /\ Cardinality(S) \in Nat
            BY <2>0 DEF Counted
          <6> HIDE DEF S
          <6>2. Cardinality(S \cup {c}) <= Cardinality(S) + 1 /\ Cardinality(S \cup {c}) \in Nat
            <7>1. Cardinality(S \cup {c}) = IF c \in S THEN Cardinality(S) ELSE Cardinality(S) + 1
              BY <6>1, FS_AddElement, ZenonT(30)
            <7>2. CASE c \in S
              BY <6>1, <7>1, <7>2
            <7>3. CASE c \notin S
              BY <6>1, <7>1, <7>3
            <7> QED BY <7>2, <7>3
          <6>3. Counted' = Cardinality(S \cup {c})
            BY <5>2, ZenonT(30) DEF Counted, S
          <6>4. Counted = Cardinality(S)
            BY DEF Counted, S
          <6> QED BY <6>2, <6>3, <6>4
        <5>4. CountInv'
          BY <2>0, <3>1, <4>1, <4>2, <5>1, <5>3 DEF WindowInv, CountInv
        <5> QED BY <4>0, <5>4 DEF WindowInv
      <4>3. CASE ~ (count + 1 <= Limit)
        <5>1. window' = window /\ verdict' \in [Caller -> {"none", "allowed", "denied"}]
          BY <3>1, <4>1, <4>3, CallerAnswered
        <5>2. Counted' = Counted
          BY <4>1, <5>1 DEF Counted
        <5>3. CountInv'
          BY <2>0, <3>1, <4>1, <5>1, <5>2 DEF WindowInv, CountInv
        <5> QED BY <4>0, <5>3 DEF WindowInv
      <4> QED BY <4>2, <4>3
    <3> QED BY <3>2, <3>3
  <2>2. ASSUME NEW c \in Caller, asking' = [asking EXCEPT ![c] = 0] PROVE Asking' = Asking \ {c}
    BY <2>2 DEF Asking, WindowInv, CountInv
  <2>3. ASSUME NEW c \in Caller, C!Expire(c) PROVE WindowInv'
    <3>1. /\ asking[c] = 1 /\ C!Answer(c, 1) /\ asking' = [asking EXCEPT ![c] = 0]
          /\ ttl' = (count > 0) /\ count' = count
      BY <2>3 DEF C!Expire, WindowInv, CountInv
    <3>2. c \in Asking /\ Asking' = Asking \ {c}
      <4>1. c \in Asking
        BY <3>1 DEF Asking
      <4> QED BY <2>2, <3>1, <4>1
    <3>3. Asking' = {}
      BY <3>2 DEF WindowInv, CountInv
    <3>4. window' = window \cup {c} /\ verdict' \in [Caller -> {"none", "allowed", "denied"}]
      BY <3>1, CallerAnswered
    <3>5. (window \cup Asking)' \in SUBSET (window \cup Asking)
      BY <3>2, <3>3, <3>4
    <3>6. Counted' <= Counted /\ Counted' \in Nat
      BY <2>b, <3>5 DEF Counted
    <3>7. count > 0
      <4>1. Counted # 0
        BY <2>0, <3>2, FS_EmptySet DEF Counted
      <4> QED BY <2>0, <4>1 DEF WindowInv, CountInv
    <3>8. CountInv'
      <4>1. count' = count /\ asking' = [asking EXCEPT ![c] = 0]
        BY <3>1
      <4> QED BY <2>0, <3>3, <3>4, <3>6, <4>1 DEF WindowInv, CountInv
    <3>9. ExpiryInv'
      BY <3>1, <3>3, <3>7 DEF ExpiryInv
    <3> QED BY <3>8, <3>9 DEF WindowInv
  <2>4. ASSUME NEW c \in Caller, C!LimiterFails(c) PROVE WindowInv'
    <3>1. /\ asking' = [asking EXCEPT ![c] = 0] /\ verdict' = [verdict EXCEPT ![c] = "allowed"]
          /\ ttl' \in (IF asking[c] > 0 THEN {ttl, TRUE} ELSE {ttl}) /\ UNCHANGED <<count, window>>
      BY <2>4 DEF C!LimiterFails
    <3>2. Asking' = Asking \ {c}
      BY <2>2, <3>1
    <3>3. Counted' <= Counted /\ Counted' \in Nat
      <4>1. (window \cup Asking)' \in SUBSET (window \cup Asking)
        BY <3>1, <3>2
      <4> QED BY <2>b, <4>1 DEF Counted
    <3>4. CASE c \in Asking
      <4>1. Asking' = {}
        BY <3>2, <3>4 DEF WindowInv, CountInv
      <4>2. count > 0
        <5>1. Counted # 0
          BY <2>0, <3>4, FS_EmptySet DEF Counted
        <5> QED BY <2>0, <5>1 DEF WindowInv, CountInv
      <4>3. ttl' \in BOOLEAN
        BY <3>1 DEF WindowInv, ExpiryInv
      <4>4. CountInv'
        BY <2>0, <3>1, <3>3, <4>1 DEF WindowInv, CountInv
      <4>5. ExpiryInv'
        BY <3>1, <4>1, <4>2, <4>3 DEF ExpiryInv
      <4> QED BY <4>4, <4>5 DEF WindowInv
    <3>5. CASE c \notin Asking
      <4>1. ttl' = ttl /\ Asking' = Asking
        BY <3>1, <3>2, <3>5 DEF Asking
      <4>2. CountInv'
        BY <2>0, <3>1, <3>3, <4>1 DEF WindowInv, CountInv
      <4>3. ExpiryInv'
        BY <3>1, <4>1 DEF WindowInv, ExpiryInv
      <4> QED BY <4>2, <4>3 DEF WindowInv
    <3> QED BY <3>4, <3>5
  <2>5. CASE C!Lapse
    <3>1. ttl' = FALSE /\ count' = 0 /\ window' = {} /\ UNCHANGED <<asking, verdict>> /\ Asking = {}
      BY <2>5 DEF C!Lapse, WindowInv, ExpiryInv
    <3>2. Asking' = {} /\ (window \cup Asking)' = {}
      BY <3>1 DEF Asking
    <3>3. Counted' = 0
      BY <3>2, FS_EmptySet, ZenonT(30) DEF Counted
    <3>4. CountInv'
      BY <3>1, <3>2, <3>3 DEF WindowInv, CountInv
    <3>5. ExpiryInv'
      BY <3>1 DEF ExpiryInv
    <3> QED BY <3>4, <3>5 DEF WindowInv
  <2>6. CASE \/ C!Subscriber \/ C!DialFails \/ C!ConnectionLost \/ C!Message \/ C!Close
             \/ UNCHANGED clientVars
    BY <2>6, <2>a DEF C!Subscriber, C!Dialed, C!Subscribed, C!RetryFires, C!DialFails, C!ConnectionLost,
                      C!Message, C!Close, C!limiter, clientVars
  <2> QED BY <2>1, <2>3, <2>4, <2>5, <2>6 DEF C!Next
<1> QED BY <1>1, <1>2, PTL

\* However INCRs, EXPIREs, failures and the end of the window interleave, no more
\* than the limit get through on a count.
THEOREM WindowsAreBounded == C!Init /\ [][C!Next]_clientVars => []C!WindowIsBounded
<1>1. WindowInv => C!WindowIsBounded
  <2> SUFFICES ASSUME WindowInv PROVE Cardinality(window) <= Limit
    BY DEF C!WindowIsBounded, C!Cardinality, Cardinality
  <2>1. window \cup Asking \in SUBSET Caller
    BY DEF WindowInv, CountInv, Asking
  <2>2. IsFiniteSet(window \cup Asking) /\ Counted \in Nat
    BY <2>1, LimiterAssumption, FS_Subset, FS_CardinalityType DEF Counted
  <2>3. Cardinality(window) <= Counted /\ Cardinality(window) \in Nat
    <3>1. window \in SUBSET (window \cup Asking)
      OBVIOUS
    <3> QED BY <2>2, <3>1, FS_Subset, FS_CardinalityType DEF Counted
  <2> QED BY <2>2, <2>3, LimiterAssumption DEF WindowInv, CountInv
<1> QED BY <1>1, WindowInvariant, PTL

-----------------------------------------------------------------------------
(* The composition: whatever the run's behaviours are about.                 *)

\* A behaviour of the composition is one of each component.
LEMMA Projections ==
    Safely => /\ Spec /\ B!Spec /\ E!Spec
              /\ M!Init /\ [][M!Next]_migrationVars /\ C!Init /\ [][C!Next]_clientVars /\ [][UNCHANGED focus]_focus
<1>1. AllInit => Init /\ B!Init /\ C!Init /\ M!Init /\ E!Init
  BY DEF AllInit
<1> USE DEF AllNext, allVars
<1>2. [AllNext]_allVars => [Next]_vars
  OBVIOUS
<1>3. [AllNext]_allVars => [B!Next]_(B!vars)
  BY DEF B!vars, loopVars
<1>4. [AllNext]_allVars => [E!Next]_(E!vars)
  BY DEF E!vars, consumerVars
<1>5. [AllNext]_allVars => [M!Next]_migrationVars
  OBVIOUS
<1>6. [AllNext]_allVars => [C!Next]_clientVars
  OBVIOUS
<1>7. [AllNext]_allVars => [UNCHANGED focus]_focus
  OBVIOUS
<1> QED BY <1>1, <1>2, <1>3, <1>4, <1>5, <1>6, <1>7, PTL DEF Safely, Spec, B!Spec, E!Spec

\* What the run checks of loops and consumers on one instance holds of every one.
THEOREM LoopsHoldTogether == Safely => []LoopsHold
<1>1. /\ B!OnePodAtATime /\ B!RunnerDrained /\ B!LoopsGoOn /\ B!OneGoesOn
      /\ E!OneLoop /\ E!NoLostWake
      => LoopsHold
  BY DEF LoopsHold
<1> QED BY <1>1, Projections, LoopsAreKept, ConsumersAreKept, PTL

\* Schema and ledger agree, windows are bounded, and so what the run checks of shared
\* state holds of every instance, the scanner's scripts apart.
THEOREM SharedStateKept ==
    Safely => [](M!SchemaMatchesLedger /\ C!WindowIsBounded /\ (focus # "scripts" => SharedStateHolds))
<1>1. M!SchemaMatchesLedger /\ C!WindowIsBounded => (focus # "scripts" => SharedStateHolds)
  BY DEF SharedStateHolds
<1> QED BY <1>1, Projections, SchemasMatch, WindowsAreBounded, PTL
=============================================================================
