------------------------------ MODULE RedisLock ------------------------------
(***************************************************************************)
(* The best-effort distributed lock of src/lib/redis.ts: SET NX EX with an *)
(* owner token, and owner-checked refresh and release by WATCH, GET, EXEC. *)
(*                                                                         *)
(* A process has ONE connection, shared by every lock name and every call  *)
(* in flight, so the commands of two calls interleave on it; WATCH marks   *)
(* belong to the connection, and EXEC and UNWATCH clear all of them.  Any  *)
(* command may time out, which drops the connection for everybody and      *)
(* starts the connect cooldown.                                            *)
(*                                                                         *)
(* The TTL has no clock: a key may lapse at any moment, except during the  *)
(* calls that were in flight when it was last set or refreshed (a TTL is   *)
(* longer than the 500 ms a call may take).                                *)
(***************************************************************************)
EXTENDS Naturals, FiniteSets

CONSTANTS
    Pod,        \* processes
    Name,       \* lock names
    MaxOps,     \* bound: guarded calls a process has in flight together
    MaxTokens,  \* bound: tokens issued (random UUIDs, never repeated)
    MaxHiccups, \* bound: timed-out Redis commands
    MaxLapses   \* bound: TTLs that run out

ASSUME LockAssumption == MaxOps \in Nat /\ MaxTokens \in Nat /\ MaxHiccups \in Nat /\ MaxLapses \in Nat

VARIABLES
    key,      \* key[n]: the token stored under lock:<n>, 0 when absent
    held,     \* held[p][n]: p's heldLocks entry, 0 when absent
    working,  \* working[p]: names p's callers act under (true, or failed open)
    ops,      \* ops[p]: refreshes and releases in flight on p's connection
    watched,  \* watched[p]: names p's connection is watching
    dirty,    \* dirty[p]: one of them changed since
    conn,     \* conn[p]: "up" or "cooldown"
    deferred, \* deferred[p]: releases to try again after the cooldown
    young,    \* young[n]: calls in flight when n's TTL was last set
    crossed,  \* history: calls of p whose WATCH another call of p has cleared
    issued, hiccups, lapses \* tokens issued, commands timed out, TTLs run out

vars == <<key, held, working, ops, watched, dirty, conn, deferred, young,
          crossed, issued, hiccups, lapses>>
links == <<ops, watched, dirty, conn, deferred, crossed>>
counts == <<issued, hiccups, lapses>>

Token == 0 .. MaxTokens
Kind == {"refresh", "release", "retry"}
Call == [kind : Kind, name : Name, token : Token]
Op == [kind : Kind, name : Name, token : Token, pc : {"watch", "get", "exec"}]

TypeOK ==
    /\ key \in [Name -> Token] /\ held \in [Pod -> [Name -> Token]]
    /\ working \in [Pod -> SUBSET Name]
    /\ ops \in [Pod -> SUBSET Op]
    /\ watched \in [Pod -> SUBSET Name] /\ dirty \in [Pod -> BOOLEAN]
    /\ conn \in [Pod -> {"up", "cooldown"}]
    /\ deferred \in [Pod -> SUBSET [name : Name, token : Token]]
    /\ crossed \in [Pod -> SUBSET Call]
    /\ issued \in Token /\ hiccups \in 0 .. MaxHiccups /\ lapses \in 0 .. MaxLapses

Init ==
    /\ key = [n \in Name |-> 0] /\ held = [p \in Pod |-> [n \in Name |-> 0]]
    /\ working = [p \in Pod |-> {}]
    /\ ops = [p \in Pod |-> {}]
    /\ watched = [p \in Pod |-> {}] /\ dirty = [p \in Pod |-> FALSE]
    /\ conn = [p \in Pod |-> "up"]
    /\ deferred = [p \in Pod |-> {}]
    /\ young = [n \in Name |-> {}]
    /\ crossed = [p \in Pod |-> {}]
    /\ issued = 0 /\ hiccups = 0 /\ lapses = 0

-----------------------------------------------------------------------------
CallOf(o) == [kind |-> o.kind, name |-> o.name, token |-> o.token]
Calls == UNION {{<<p, CallOf(o)>> : o \in ops[p]} : p \in Pod}

\* The calls that n's TTL outlives: those in flight when it is set.  Which of them
\* are still there is all that counts.
SetTtl(n) == young' = [m \in Name |-> (IF m = n THEN Calls ELSE young[m]) \cap Calls']
KeepTtls == young' = [m \in Name |-> young[m] \cap Calls']

\* The server marks every connection that watches n.
Touched(n) == [q \in Pod |-> dirty[q] \/ n \in watched[q]]

NewToken == issued < MaxTokens /\ issued' = issued + 1
Hiccup == hiccups < MaxHiccups /\ hiccups' = hiccups + 1

-----------------------------------------------------------------------------
(* acquireLock.  withJobLock's runningInProcess and the loops' own shape    *)
(* keep a process from acquiring a name it is already working under.        *)

\* No client: fail open, with no token.
AcquireOpen(p, n) ==
    /\ n \notin working[p] /\ conn[p] = "cooldown"
    /\ working' = [working EXCEPT ![p] = @ \cup {n}]
    /\ UNCHANGED <<key, held, links, young, counts>>

\* SET NX.  When the key is there it answers false, and nothing has changed.
Acquire(p, n) ==
    /\ n \notin working[p] /\ conn[p] = "up" /\ key[n] = 0
    /\ NewToken
    /\ key' = [key EXCEPT ![n] = issued']
    /\ held' = [held EXCEPT ![p][n] = issued']
    /\ working' = [working EXCEPT ![p] = @ \cup {n}]
    /\ UNCHANGED ops
    /\ dirty' = Touched(n) /\ SetTtl(n)
    /\ UNCHANGED <<watched, conn, deferred, crossed, hiccups, lapses>>

\* Mutants of Drop: the release is not tried again; the whole call is queued.
DropForgets(p) ==
    /\ conn' = [conn EXCEPT ![p] = "cooldown"]
    /\ ops' = [ops EXCEPT ![p] = {}]
    /\ watched' = [watched EXCEPT ![p] = {}] /\ crossed' = [crossed EXCEPT ![p] = {}]
    /\ UNCHANGED deferred
DropQueuesCall(p) ==
    /\ conn' = [conn EXCEPT ![p] = "cooldown"]
    /\ ops' = [ops EXCEPT ![p] = {}]
    /\ watched' = [watched EXCEPT ![p] = {}] /\ crossed' = [crossed EXCEPT ![p] = {}]
    /\ deferred' = [deferred EXCEPT ![p] = @ \cup ops[p]]

\* dropClient: the connection goes, with its WATCH marks and the calls on it.
\* A release among them finds the client in its cooldown and is deferred, once.
Drop(p) ==
    /\ conn' = [conn EXCEPT ![p] = "cooldown"]
    /\ ops' = [ops EXCEPT ![p] = {}]
    /\ watched' = [watched EXCEPT ![p] = {}] /\ crossed' = [crossed EXCEPT ![p] = {}]
    /\ deferred' = [deferred EXCEPT ![p] = @ \cup
                      {[name |-> o.name, token |-> o.token] : o \in {x \in ops[p] : x.kind = "release"}}]

\* The SET times out; the server may have run it.  The token is forgotten.
AcquireFails(p, n, applied) ==
    /\ n \notin working[p] /\ conn[p] = "up"
    /\ Hiccup
    /\ applied => key[n] = 0
    /\ Drop(p)
    /\ IF applied
       THEN /\ NewToken /\ key' = [key EXCEPT ![n] = issued']
            /\ dirty' = [Touched(n) EXCEPT ![p] = FALSE] /\ SetTtl(n)
       ELSE /\ dirty' = [dirty EXCEPT ![p] = FALSE]
            /\ KeepTtls /\ UNCHANGED <<key, issued>>
    /\ UNCHANGED <<held, working, lapses>>

-----------------------------------------------------------------------------
(* refreshLock and releaseLock. *)

AddOp(p, kind, n, t) ==
    /\ Cardinality(ops[p]) < MaxOps
    /\ ops' = [ops EXCEPT ![p] = @ \cup {[kind |-> kind, name |-> n, token |-> t, pc |-> "watch"]}]

StartRefresh(p, n) ==
    /\ n \in working[p] /\ held[p][n] # 0 /\ conn[p] = "up"
    /\ \A o \in ops[p] : o.name # n
    /\ AddOp(p, "refresh", n, held[p][n])
    /\ UNCHANGED <<key, held, working, watched, dirty, conn, deferred, young, crossed, counts>>

\* heldLocks.delete comes first; without a token there is nothing to delete,
\* and during the cooldown the attempt fails at once and is deferred.
StartRelease(p, n) ==
    /\ n \in working[p]
    /\ working' = [working EXCEPT ![p] = @ \ {n}]
    /\ held' = [held EXCEPT ![p][n] = 0]
    /\ CASE held[p][n] = 0 -> UNCHANGED <<ops, deferred>>
         [] held[p][n] # 0 /\ conn[p] = "up" ->
              AddOp(p, "release", n, held[p][n]) /\ UNCHANGED deferred
         [] held[p][n] # 0 /\ conn[p] = "cooldown" ->
              /\ deferred' = [deferred EXCEPT ![p] = @ \cup {[name |-> n, token |-> held[p][n]]}]
              /\ UNCHANGED ops
    /\ UNCHANGED <<key, watched, dirty, conn, young, crossed, counts>>

DeferredRelease(p, r) ==
    /\ r \in deferred[p] /\ conn[p] = "up"
    /\ AddOp(p, "retry", r.name, r.token)
    /\ deferred' = [deferred EXCEPT ![p] = @ \ {r}]
    /\ UNCHANGED <<key, held, working, watched, dirty, conn, young, crossed, counts>>

OpWatch(p, o) ==
    /\ o \in ops[p] /\ o.pc = "watch"
    /\ ops' = [ops EXCEPT ![p] = (@ \ {o}) \cup {[o EXCEPT !.pc = "get"]}]
    /\ watched' = [watched EXCEPT ![p] = @ \cup {o.name}]
    /\ UNCHANGED <<key, held, working, dirty, conn, deferred, young, crossed, counts>>

\* The end of o on the connection of p clears the marks of every other call on it.
Unmark(p, o) ==
    /\ ops' = [ops EXCEPT ![p] = @ \ {o}]
    /\ watched' = [watched EXCEPT ![p] = {}]
    /\ crossed' = [crossed EXCEPT ![p] = (@ \ {CallOf(o)}) \cup
                     {CallOf(x) : x \in {y \in ops[p] \ {o} : y.pc # "watch"}}]

\* Mutant of OpGet: the token is not compared.
OpGetBlind(p, o) ==
    /\ o \in ops[p] /\ o.pc = "get"
    /\ ops' = [ops EXCEPT ![p] = (@ \ {o}) \cup {[o EXCEPT !.pc = "exec"]}]
    /\ UNCHANGED <<key, held, working, watched, dirty, conn, deferred, young, crossed, counts>>

\* GET, and UNWATCH when the token is not ours.
OpGet(p, o) ==
    /\ o \in ops[p] /\ o.pc = "get"
    /\ IF key[o.name] = o.token
       THEN /\ ops' = [ops EXCEPT ![p] = (@ \ {o}) \cup {[o EXCEPT !.pc = "exec"]}]
            /\ UNCHANGED <<watched, dirty, crossed>>
       ELSE Unmark(p, o) /\ dirty' = [dirty EXCEPT ![p] = FALSE]
    /\ KeepTtls
    /\ UNCHANGED <<key, held, working, conn, deferred, counts>>

\* What the server does with MULTI, DEL or EXPIRE, EXEC, sent in one batch: a
\* dirty connection aborts it; otherwise the key is changed without looking at
\* its value, and every connection that watches it is marked.
ExecEffect(p, o) ==
    IF dirty[p] \/ key[o.name] = 0
    THEN dirty' = [dirty EXCEPT ![p] = FALSE] /\ KeepTtls /\ UNCHANGED key
    ELSE /\ dirty' = [Touched(o.name) EXCEPT ![p] = FALSE]
         /\ IF o.kind = "refresh"
            THEN SetTtl(o.name) /\ UNCHANGED key
            ELSE key' = [key EXCEPT ![o.name] = 0] /\ KeepTtls

OpExec(p, o) ==
    /\ o \in ops[p] /\ o.pc = "exec"
    /\ Unmark(p, o)
    /\ ExecEffect(p, o)
    /\ UNCHANGED <<held, working, conn, deferred, counts>>

-----------------------------------------------------------------------------
(* Redis itself. *)

CommandTimesOut(p) ==
    /\ ops[p] # {} /\ Hiccup
    /\ Drop(p) /\ KeepTtls /\ dirty' = [dirty EXCEPT ![p] = FALSE]
    /\ UNCHANGED <<key, held, working, issued, lapses>>

\* The EXEC was run, but its answer came too late.
ExecTimesOut(p, o) ==
    /\ o \in ops[p] /\ o.pc = "exec" /\ Hiccup
    /\ Drop(p)
    /\ ExecEffect(p, o)
    /\ UNCHANGED <<held, working, issued, lapses>>

Reconnect(p) ==
    /\ conn[p] = "cooldown"
    /\ conn' = [conn EXCEPT ![p] = "up"]
    /\ UNCHANGED <<key, held, working, ops, watched, dirty, deferred, young, crossed, counts>>

Lapse(n) ==
    /\ key[n] # 0 /\ young[n] \cap Calls = {}
    /\ lapses < MaxLapses /\ lapses' = lapses + 1
    /\ key' = [key EXCEPT ![n] = 0]
    /\ dirty' = Touched(n)
    /\ UNCHANGED <<held, working, ops, watched, conn, deferred, young, crossed, issued, hiccups>>

OpStep(p, n) == \E o \in ops[p] : o.name = n /\ (OpWatch(p, o) \/ OpGet(p, o) \/ OpExec(p, o))
RetryRelease(p, n) == \E r \in deferred[p] : r.name = n /\ DeferredRelease(p, r)

Next ==
    \/ \E p \in Pod, n \in Name : \/ AcquireOpen(p, n) \/ Acquire(p, n)
                                  \/ StartRefresh(p, n) \/ StartRelease(p, n)
                                  \/ OpStep(p, n) \/ RetryRelease(p, n)
                                  \/ \E applied \in BOOLEAN : AcquireFails(p, n, applied)
    \/ \E p \in Pod : Reconnect(p) \/ CommandTimesOut(p) \/ \E o \in ops[p] : ExecTimesOut(p, o)
    \/ \E n \in Name : Lapse(n)

Spec == Init /\ [][Next]_vars

\* Commands in flight are answered, the cooldown ends and the timer of a deferred
\* release fires; MaxOps, a bound of the model, may keep that one waiting.  TTLs
\* are not needed.
FairSpec ==
    /\ Spec
    /\ \A p \in Pod : WF_vars(Reconnect(p))
    /\ \A p \in Pod, n \in Name : WF_vars(OpStep(p, n)) /\ SF_vars(RetryRelease(p, n))

-----------------------------------------------------------------------------
(* Properties. *)

\* "releaseLock deletes the key only while it still holds that token, so a late
\* release after the TTL lapsed cannot delete a peer's lock": a token leaves its key
\* only when it lapses, when the release of that very token ends, or in one other
\* way: by a release whose WATCH was cleared by another call of its own process.
EndsRelease(p, o) == o \in ops[p] \ ops'[p] /\ o.kind # "refresh"
ReleasedBy(n) == \E p \in Pod : \E o \in ops[p] : EndsRelease(p, o) /\ o.name = n /\ o.token = key[n]
CrossedBy(n) == \E p \in Pod : \E o \in ops[p] : EndsRelease(p, o) /\ o.name = n /\ CallOf(o) \in crossed[p]
KeepsPeerLocks ==
    \A n \in Name : key[n] # 0 /\ key'[n] # key[n] /\ lapses' = lapses => ReleasedBy(n) \/ CrossedBy(n)
PeerLockUntouched == [][KeepsPeerLocks]_vars

\* Why the comparison still holds at EXEC: from its WATCH on the call's name is
\* marked, and a clean connection means that the token compared is still there;
\* unless another call of the process has cleared the marks.
WatchInv ==
    \A p \in Pod : \A o \in ops[p] : CallOf(o) \notin crossed[p] =>
        /\ o.pc \in {"get", "exec"} => o.name \in watched[p]
        /\ o.pc = "exec" /\ ~dirty[p] => key[o.name] = o.token

\* "One 500 ms Redis hiccup cannot leave a lock held for its whole TTL": once
\* its holder has called releaseLock a token leaves the key, without any lapse.
Releasing(p, n, t) ==
    \/ [name |-> n, token |-> t] \in deferred[p]
    \/ \E o \in ops[p] : o.kind \in {"release", "retry"} /\ o.name = n /\ o.token = t
ReleaseFrees ==
    \A p \in Pod, n \in Name, t \in 1 .. MaxTokens : Releasing(p, n, t) ~> key[n] # t

-----------------------------------------------------------------------------
(* What the repository says and the code does not do: stated here, refuted  *)
(* by TLC in the instances the README names under "Divergences".            *)

\* "EXEC returns nil when the key changed under us, so a peer's fresh lock is never
\* touched" (src/lib/redis.ts:198-199), whatever else the connection carries.
NeverTouched ==
    [][\A n \in Name : key[n] # 0 /\ key'[n] # key[n] /\ lapses' = lapses => ReleasedBy(n)]_vars

\* "FAIL-OPEN: returns true when Redis is unavailable [...] an op-level failure
\* already logged and we fail-open": a SET that fails does not keep its caller out.
FailsOpen ==
    [][\A p \in Pod, n \in Name, applied \in BOOLEAN : AcquireFails(p, n, applied) => n \in working'[p]]_vars
=============================================================================
