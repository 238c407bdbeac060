----------------------------- MODULE RedisClient -----------------------------
(***************************************************************************)
(* The subscriber and the rate limiter of src/lib/redis.ts.                *)
(*                                                                         *)
(* redisSubscribe dials a connection of its own and dials again after the  *)
(* cooldown whenever it drops, until close().  rateLimit counts with INCR  *)
(* and starts the window with an EXPIRE of its own, after the INCR that    *)
(* made the key; every failure allows the action.                          *)
(***************************************************************************)
EXTENDS Naturals, FiniteSets

CONSTANTS
    Caller,       \* requests that ask the limiter
    Limit,        \* opts.limit
    MaxDrops,     \* bound: connections lost and dials refused
    MaxFaults     \* bound: commands of the limiter that fail or die

VARIABLES
    loop,       \* where the subscription's loop is
    closed,     \* close() was called
    drops,
    count,      \* the limiter's key: its value, 0 when it is gone
    ttl,        \* the key has an expiry
    asking,     \* asking[c]: the reply to c's INCR while its EXPIRE is due, else 0
    verdict,    \* verdict[c]: what c was told
    window,     \* callers allowed by a count since the key was made
    faults

subscriber == <<loop, closed, drops>>
limiter == <<count, ttl, asking, verdict, window, faults>>
vars == <<subscriber, limiter>>

TypeOK ==
    /\ loop \in {"dialing", "subscribing", "receiving", "waiting", "ended"} /\ closed \in BOOLEAN /\ drops \in 0..MaxDrops
    /\ count \in 0..Cardinality(Caller) /\ ttl \in BOOLEAN /\ asking \in [Caller -> 0..Cardinality(Caller)]
    /\ verdict \in [Caller -> {"none", "allowed", "denied"}] /\ window \subseteq Caller /\ faults \in 0..MaxFaults

Init ==
    /\ loop = "dialing" /\ closed = FALSE /\ drops = 0
    /\ count = 0 /\ ttl = FALSE /\ asking = [c \in Caller |-> 0]
    /\ verdict = [c \in Caller |-> "none"] /\ window = {} /\ faults = 0

-----------------------------------------------------------------------------
(* redisSubscribe. *)

Drop == drops < MaxDrops /\ drops' = drops + 1

\* Mutant of ScheduleRetry: the loop ends when its connection does.
ScheduleNothing == "ended"
\* scheduleRetry: a timer, unless the handle is closed.
ScheduleRetry == IF closed THEN "ended" ELSE "waiting"

Dialed ==
    /\ loop = "dialing" /\ loop' = IF closed THEN "ended" ELSE "subscribing"
    /\ UNCHANGED <<closed, drops, limiter>>
DialFails ==
    /\ loop = "dialing" /\ Drop /\ loop' = ScheduleRetry
    /\ UNCHANGED <<closed, limiter>>
Subscribed ==
    /\ loop = "subscribing" /\ loop' = "receiving"
    /\ UNCHANGED <<closed, drops, limiter>>
\* SUBSCRIBE times out or the socket dies: the client is closed and dialed again.
ConnectionLost ==
    /\ loop \in {"subscribing", "receiving"} /\ Drop /\ loop' = ScheduleRetry
    /\ UNCHANGED <<closed, limiter>>
\* A message: the callback hears it, or the loop sees that it is closed.
Message ==
    /\ loop = "receiving" /\ loop' = IF closed THEN "ended" ELSE "receiving"
    /\ UNCHANGED <<closed, drops, limiter>>
RetryFires ==
    /\ loop = "waiting" /\ loop' = "dialing"
    /\ UNCHANGED <<closed, drops, limiter>>
\* close(): the timer is cleared, the subscription closed if there is one yet.
Close ==
    /\ ~ closed /\ closed' = TRUE
    /\ loop' = IF loop \in {"waiting", "receiving"} THEN "ended" ELSE loop
    /\ UNCHANGED <<drops, limiter>>

-----------------------------------------------------------------------------
(* rateLimit. *)

Fault == faults < MaxFaults /\ faults' = faults + 1

\* Mutant of Within: the count that reaches the limit is let through once more.
WithinOrNext(n) == n <= Limit + 1
\* The comparison that allows an action.
Within(n) == n <= Limit

Answer(c, n) ==
    /\ verdict' = [verdict EXCEPT ![c] = IF Within(n) THEN "allowed" ELSE "denied"]
    /\ window' = IF Within(n) THEN window \cup {c} ELSE window
\* INCR; the caller that made the key goes on to EXPIRE, the others have their answer.
Incr(c) ==
    /\ verdict[c] = "none" /\ asking[c] = 0 /\ count' = count + 1
    /\ IF count = 0
       THEN asking' = [asking EXCEPT ![c] = 1] /\ UNCHANGED <<verdict, window>>
       ELSE Answer(c, count + 1) /\ UNCHANGED asking
    /\ UNCHANGED <<ttl, faults, subscriber>>
\* EXPIRE on the key, if it is there.
Expire(c) ==
    /\ asking[c] > 0 /\ ttl' = (count > 0) /\ Answer(c, asking[c])
    /\ asking' = [asking EXCEPT ![c] = 0]
    /\ UNCHANGED <<count, faults, subscriber>>
\* A failed command, before or after the INCR was applied: run() answers null,
\* which allows the action; a process that dies answers nobody.
LimiterFails(c) ==
    /\ verdict[c] = "none" /\ Fault
    /\ verdict' = [verdict EXCEPT ![c] = "allowed"] /\ asking' = [asking EXCEPT ![c] = 0]
    /\ ttl' \in IF asking[c] > 0 THEN {ttl, TRUE} ELSE {ttl}
    /\ UNCHANGED <<count, window, subscriber>>
\* The window ends.
Lapse ==
    /\ ttl /\ ttl' = FALSE /\ count' = 0 /\ window' = {}
    /\ UNCHANGED <<asking, verdict, faults, subscriber>>

-----------------------------------------------------------------------------
Subscriber == Dialed \/ Subscribed \/ RetryFires
Next ==
    \/ Subscriber \/ DialFails \/ ConnectionLost \/ Message \/ Close \/ Lapse
    \/ \E c \in Caller : Incr(c) \/ Expire(c) \/ LimiterFails(c)
\* Dials and commands end, timers fire.
Fairness == WF_vars(Subscriber)
Spec == Init /\ [][Next]_vars /\ Fairness

-----------------------------------------------------------------------------
\* However often the connection drops, a handle nobody closed hears messages
\* again (redisSubscribe: "a dropped connection is re-dialed ... until close()").
ListensAgain == (~ closed) ~> (loop = "receiving" \/ closed)

\* Of the callers the counter answered in one window, Limit at most were let
\* through, however their INCRs and EXPIREs interleave (rateLimit).
WindowIsBounded == Cardinality(window) <= Limit

-----------------------------------------------------------------------------
(* What the code does not meet; no run checks these. *)

\* redis.ts, RedisSubscriptionHandle: "`close()` ends it".  A close() while
\* SUBSCRIBE is under way finds nothing to close: the loop goes on to receive
\* and holds its connection until a message or a drop happens to wake it.
CloseEnds == closed ~> (loop = "ended")

\* rateLimit: "Fixed-window rate limit (INCR + EXPIRE)".  A process that dies, or
\* whose command fails, between the two leaves a key that never expires: the
\* window never ends and, past the limit, everybody is denied for ever.
WindowEnds == (count > 0) ~> (count = 0)
=============================================================================
