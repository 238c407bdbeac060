------------------------- MODULE EventDeliveryProofs -------------------------
(***************************************************************************)
(* Theorems about EventDelivery, for every set of deliveries, consumers    *)
(* and keys and every bound.                                               *)
(***************************************************************************)
EXTENDS EventDelivery, TLAPS

USE DEF Receipt, Task, Write, WriteKind, Statement, PC, Idle, NoReceipt, Status

\* The tables are well typed after any write, in time or late.
LEMMA EffectType ==
    ASSUME TypeOK, NEW w \in Write, Effect(w)
    PROVE  /\ status' \in [Delivery -> Status]
           /\ attempts' \in [Delivery -> Nat]
           /\ claimedBy' \in [Delivery -> Consumer \cup {NoConsumer}]
           /\ receipt' \in [Key -> Receipt]
           /\ handled' \subseteq Key
           /\ overtaken' \subseteq Delivery
<1> USE KeysAssumption DEF TypeOK, Effect
<1>0. w.kind \notin Statement => overtaken' = overtaken
  OBVIOUS
<1>1. CASE w.kind = "complete"
  <2>1. MarkDone(w.by, w.row, w.attempt)
    BY <1>1 DEF CompleteEffect
  <2>2. /\ receipt' \in [Key -> Receipt]
        /\ handled' \subseteq Key
    <3>1. \/ receipt' = receipt /\ handled' = handled
          \/ /\ KeyOf[w.row] \in Key
             /\ receipt' = [receipt EXCEPT ![KeyOf[w.row]] = Completed(w.row)]
             /\ handled' = handled \cup {KeyOf[w.row]}
      BY <1>1 DEF CompleteEffect, HasKey
    <3>2. Completed(w.row) \in Receipt
      BY DEF Completed
    <3>3. receipt \in [Key -> Receipt] /\ handled \subseteq Key
      OBVIOUS
    <3> HIDE DEF Effect, TypeOK
    <3> QED BY <3>1, <3>2, <3>3
  <2> QED BY <1>0, <1>1, <2>1, <2>2 DEF MarkDone
<1>2. CASE w.kind = "skip"
  BY <1>2 DEF SkipEffect, MarkDone
<1>3. CASE w.kind = "release"
  <2>1. CASE Holds(w.by, w.row, w.attempt)
    <3>1. attempts' = [attempts EXCEPT ![w.row] =
                          IF attempts[w.row] > 0 THEN attempts[w.row] - 1 ELSE 0]
      BY <1>3, <2>1 DEF ReleaseEffect
    <3>2. attempts[w.row] \in Nat
      OBVIOUS
    <3>3. attempts' \in [Delivery -> Nat]
      BY <3>1, <3>2
    <3>4. /\ status' = [status EXCEPT ![w.row] = "pending"]
          /\ claimedBy' = [claimedBy EXCEPT ![w.row] = NoConsumer]
          /\ DropReceipts({w.row})
          /\ handled' = handled
      BY <1>3, <2>1 DEF ReleaseEffect
    <3> QED BY <1>0, <1>3, <3>3, <3>4 DEF DropReceipts
  <2>2. CASE ~Holds(w.by, w.row, w.attempt)
    BY <1>3, <2>2 DEF ReleaseEffect, rows
  <2> QED BY <2>1, <2>2
<1>4. CASE w.kind = "fail"
  BY <1>4 DEF FailEffect, DropReceipts, rows
<1>5. CASE w.kind \in Statement
  <2>1. CASE After(w.row, w.kind) = "handler"
    <3>1. /\ receipt' = [receipt EXCEPT ![KeyOf[w.row]] = Reserved(w.row)]
          /\ overtaken' = overtaken \cup {w.row} \/ overtaken' = overtaken \ {w.row}
          /\ UNCHANGED <<status, attempts, claimedBy, handled>>
      BY <1>5, <2>1 DEF ReserveEffect, rows
    <3>2. Reserved(w.row) \in Receipt
      BY DEF Reserved
    <3> QED BY <3>1, <3>2
  <2>2. CASE After(w.row, w.kind) # "handler"
    BY <1>5, <2>2 DEF ReserveEffect, rows
  <2> QED BY <2>1, <2>2
<1> QED BY <1>1, <1>2, <1>3, <1>4, <1>5

\* Where a statement of a reservation can lead, and why.
LEMMA AfterGoes ==
    ASSUME TypeOK, NEW d \in Delivery, HasKey(d), NEW at \in Statement
    PROVE  /\ After(d, at) \in (Statement \ {"claimed"}) \cup {"handler", "skip", "release"}
           /\ After(d, at) = "skip" => receipt[KeyOf[d]].state = "completed"
           /\ After(d, at) = "handler" => at # "judge"
           /\ After(d, at) = "handler" /\ at # "orphan" => receipt[KeyOf[d]].state = "none"
           /\ After(d, at) = "orphan" => at = "judge" /\ Judgement(d) = "orphan"
<1>1. KeyOf[d] \in Key
  BY KeysAssumption DEF HasKey
<1>2. receipt[KeyOf[d]] \in Receipt
  BY <1>1 DEF TypeOK
<1>3. /\ Judgement(d) \in {"release", "skip", "orphan"}
      /\ Judgement(d) = "skip" => receipt[KeyOf[d]].state = "completed"
  BY <1>2 DEF Judgement
<1> QED BY <1>3 DEF After

\* GoTo and Finish change one task and leave the others alone.
LEMMA GoToTask ==
    ASSUME TypeOK, NEW c \in Consumer, NEW d \in Delivery, NEW p \in PC, GoTo(c, d, p)
    PROVE  /\ task' \in [Consumer -> [Delivery -> Task]]
           /\ task'[c][d] = [pc |-> p, attempt |-> task[c][d].attempt]
           /\ \A b \in Consumer, e \in Delivery : b # c \/ e # d => task'[b][e] = task[b][e]
<1> DEFINE new == [task[c][d] EXCEPT !.pc = p]
<1>1. task[c][d] \in Task
  BY DEF TypeOK
<1>2. new \in Task /\ new = [pc |-> p, attempt |-> task[c][d].attempt]
  BY <1>1
<1>3. task' = [task EXCEPT ![c] = [task[c] EXCEPT ![d] = new]]
  BY DEF GoTo
<1> HIDE DEF new
<1>4. task \in [Consumer -> [Delivery -> Task]]
  BY DEF TypeOK
<1> QED BY <1>2, <1>3, <1>4

\* A task that finishes is idle again, and only it changes.
LEMMA FinishTask ==
    ASSUME TypeOK, NEW c \in Consumer, NEW d \in Delivery, Finish(c, d)
    PROVE  /\ task' \in [Consumer -> [Delivery -> Task]]
           /\ task'[c][d] = Idle
           /\ \A b \in Consumer, e \in Delivery : b # c \/ e # d => task'[b][e] = task[b][e]
<1>1. task' = [task EXCEPT ![c] = [task[c] EXCEPT ![d] = Idle]]
  BY DEF Finish
<1>2. task \in [Consumer -> [Delivery -> Task]] /\ Idle \in Task
  BY DEF TypeOK
<1> QED BY <1>1, <1>2

\* A step of one task leaves the others where they are.
LEMMA OtherTasksStay ==
    ASSUME TypeOK, NEW b \in Consumer, NEW e \in Delivery, NEW c \in Consumer, NEW d \in Delivery,
           b # c \/ e # d, Finish(b, e) \/ \E p \in PC : GoTo(b, e, p)
    PROVE  task'[c][d] = task[c][d]
<1>1. CASE Finish(b, e)
  BY <1>1, FinishTask
<1>2. ASSUME NEW p \in PC, GoTo(b, e, p) PROVE task'[c][d] = task[c][d]
  BY <1>2 DEF GoTo, TypeOK
<1> QED BY <1>1, <1>2

\* Every reachable state is well typed: no write, late or in time, leaves a row,
\* a receipt or a process outside its columns' values.
THEOREM TypeCorrect == Spec => []TypeOK
<1>1. Init => TypeOK
  BY BoundsAssumption, KeysAssumption DEF Init, TypeOK
<1>2. TypeOK /\ [Next]_vars => TypeOK'
  <2> SUFFICES ASSUME TypeOK, [Next]_vars PROVE TypeOK'
    OBVIOUS
  <2> USE KeysAssumption, BoundsAssumption, RunnableAssumption
  <2>1. ASSUME NEW d \in Delivery, Publish(d) PROVE TypeOK'
    BY <2>1 DEF TypeOK, Publish
  <2>2. ASSUME NEW d \in Delivery, Replay(d) PROVE TypeOK'
    BY <2>2 DEF TypeOK, Replay, AdminStep
  <2>3. ASSUME NEW d \in Delivery, PurgeDone(d) PROVE TypeOK'
    <3>1. receipt' \in [Key -> Receipt]
      <4>1. ASSUME NEW k \in Key PROVE [receipt[k] EXCEPT !.owner = NoDelivery] \in Receipt
        <5>1. receipt[k] \in Receipt
          BY DEF TypeOK
        <5> QED BY <5>1
      <4> QED BY <2>3, <4>1 DEF TypeOK, PurgeDone
    <3> QED BY <2>3, <3>1 DEF TypeOK, PurgeDone, AdminStep
  <2>4. ASSUME NEW d \in Delivery, SweepEvent(d) PROVE TypeOK'
    BY <2>4 DEF TypeOK, SweepEvent, AdminStep
  <2>5. ASSUME SwitchSubscription PROVE TypeOK'
    <3>1. active' \in BOOLEAN
      BY <2>5, Zenon DEF SwitchSubscription
    <3> QED BY <2>5, <3>1 DEF TypeOK, SwitchSubscription, AdminStep, rows
  <2>6. ASSUME NEW c \in Consumer, NEW S \in SUBSET Delivery, Claim(c, S) PROVE TypeOK'
    <3>1. task' \in [Consumer -> [Delivery -> Task]]
      BY <2>6 DEF TypeOK, Claim
    <3> QED BY <2>6, <3>1 DEF TypeOK, Claim, ClaimRows
  <2>7. ASSUME NEW c \in Consumer, NEW S \in SUBSET Delivery, ClaimCommitsLate(c, S)
        PROVE TypeOK'
    <3>1. late' \subseteq Write
      BY <2>7 DEF TypeOK, ClaimCommitsLate
    <3> QED BY <2>7, <3>1 DEF TypeOK, ClaimCommitsLate, ClaimRows, Fault
  <2>8. ASSUME NEW c \in Consumer, NEW d \in Delivery, StartUnkeyed(c, d) PROVE TypeOK'
    <3>1. GoTo(c, d, "handler")
      BY <2>8 DEF StartUnkeyed
    <3>2. task' \in [Consumer -> [Delivery -> Task]]
      BY <3>1, GoToTask
    <3> QED BY <2>8, <3>2 DEF TypeOK, StartUnkeyed, rows
  <2>9. ASSUME NEW c \in Consumer, NEW d \in Delivery, Reserve(c, d) PROVE TypeOK'
    <3> DEFINE p == After(d, task[c][d].pc)
    <3>1. p \in PC /\ GoTo(c, d, p)
      BY <2>9, AfterGoes DEF Reserve
    <3>2. ReserveEffect(d, task[c][d].pc)
      BY <2>9 DEF Reserve
    <3> HIDE DEF p
    <3>3. task' \in [Consumer -> [Delivery -> Task]]
      BY <3>1, GoToTask
    <3>4. receipt' \in [Key -> Receipt] /\ overtaken' \subseteq Delivery
      <4>1. /\ receipt' = receipt \/ receipt' = [receipt EXCEPT ![KeyOf[d]] = Reserved(d)]
            /\ \/ overtaken' = overtaken \/ overtaken' = overtaken \cup {d}
               \/ overtaken' = overtaken \ {d}
        BY <3>2 DEF ReserveEffect
      <4>2. Reserved(d) \in Receipt
        BY DEF Reserved
      <4> QED BY <4>1, <4>2 DEF TypeOK
    <3> QED BY <2>9, <3>2, <3>3, <3>4 DEF TypeOK, Reserve, ReserveEffect, rows
  <2>10. ASSUME NEW c \in Consumer, NEW d \in Delivery, NEW b \in BOOLEAN, ReserveFails(c, d, b)
         PROVE TypeOK'
    <3>1. GoTo(c, d, "fail")
      BY <2>10 DEF ReserveFails
    <3>2. task' \in [Consumer -> [Delivery -> Task]]
      BY <3>1, GoToTask
    <3> QED BY <2>10, <3>2 DEF TypeOK, ReserveFails, Fault, AsWrite, rows
  <2>11. ASSUME NEW c \in Consumer, NEW d \in Delivery, HandlerSucceeds(c, d) PROVE TypeOK'
    <3>1. GoTo(c, d, "complete")
      BY <2>11 DEF HandlerSucceeds
    <3>2. task' \in [Consumer -> [Delivery -> Task]]
      BY <3>1, GoToTask
    <3> QED BY <2>11, <3>2 DEF TypeOK, HandlerSucceeds, rows
  <2>12. ASSUME NEW c \in Consumer, NEW d \in Delivery, HandlerFails(c, d) PROVE TypeOK'
    <3>1. GoTo(c, d, "fail")
      BY <2>12 DEF HandlerFails
    <3>2. task' \in [Consumer -> [Delivery -> Task]]
      BY <3>1, GoToTask
    <3> QED BY <2>12, <3>2 DEF TypeOK, HandlerFails, rows
  <2>13. ASSUME NEW c \in Consumer, NEW d \in Delivery, WriteCommits(c, d) PROVE TypeOK'
    <3>1. AsWrite(c, d, task[c][d].pc) \in Write
      BY <2>13 DEF TypeOK, WriteCommits, AsWrite
    <3>2. task' \in [Consumer -> [Delivery -> Task]]
      BY <2>13, FinishTask DEF WriteCommits
    <3>3. Effect(AsWrite(c, d, task[c][d].pc))
      BY <2>13 DEF WriteCommits
    <3> QED BY <2>13, <3>1, <3>2, <3>3, EffectType DEF TypeOK, WriteCommits
  <2>14. ASSUME NEW c \in Consumer, NEW d \in Delivery, NEW b \in BOOLEAN, WriteFails(c, d, b)
         PROVE TypeOK'
    <3>1. AsWrite(c, d, task[c][d].pc) \in Write
      BY <2>14 DEF TypeOK, WriteFails, AsWrite
    <3>2. task' \in [Consumer -> [Delivery -> Task]]
      <4>1. Finish(c, d) \/ GoTo(c, d, "fail")
        BY <2>14 DEF WriteFails
      <4> QED BY <4>1, FinishTask, GoToTask
    <3> QED BY <2>14, <3>1, <3>2 DEF TypeOK, WriteFails, Fault, rows
  <2>15. ASSUME NEW w \in late, LateWriteCommits(w) PROVE TypeOK'
    <3>1. w \in Write
      BY DEF TypeOK
    <3>2. Effect(w)
      BY <2>15 DEF LateWriteCommits
    <3>3. Rest(w) \subseteq Write
      BY <3>1 DEF Rest
    <3> QED BY <2>15, <3>1, <3>2, <3>3, EffectType DEF TypeOK, LateWriteCommits
  <2>16. ASSUME NEW w \in late, LateWriteLost(w) PROVE TypeOK'
    BY <2>16 DEF TypeOK, LateWriteLost, rows
  <2>17. ASSUME NEW c \in Consumer, Crash(c) PROVE TypeOK'
    <3>1. Writing(c) \subseteq Write
      BY DEF TypeOK, Writing, AsWrite
    <3>2. InFlight(c) \subseteq Write
      BY <3>1 DEF InFlight
    <3> QED BY <2>17, <3>2 DEF TypeOK, Crash, Fault, rows
  <2>18. ASSUME NEW S \in SUBSET Delivery, RequeueStale(S) PROVE TypeOK'
    <3>1. faults' \in 0 .. MaxFaults
      BY <2>18 DEF TypeOK, RequeueStale, Fault
    <3> QED BY <2>18, <3>1 DEF TypeOK, RequeueStale, DropReceipts
  <2>19. ASSUME NEW c \in Consumer, NEW d \in Delivery, HandlerTimesOut(c, d) PROVE TypeOK'
    <3>1. GoTo(c, d, "fail")
      BY <2>19 DEF HandlerTimesOut
    <3>2. task' \in [Consumer -> [Delivery -> Task]]
      BY <3>1, GoToTask
    <3> QED BY <2>19, <3>2 DEF TypeOK, HandlerTimesOut, Fault, AsWrite, rows
  <2>20. ASSUME NEW w \in late, HandlerEndsLate(w) PROVE TypeOK'
    BY <2>20 DEF TypeOK, HandlerEndsLate, rows
  <2>21. CASE UNCHANGED vars
    BY <2>21 DEF TypeOK, vars
  <2> QED
    BY <2>1, <2>2, <2>3, <2>4, <2>5, <2>6, <2>7, <2>8, <2>9, <2>10, <2>11, <2>12, <2>13,
       <2>14, <2>15, <2>16, <2>17, <2>18, <2>19, <2>20, <2>21
    DEF Next, ConsumerStep, FaultStep
<1> QED BY <1>1, <1>2, PTL DEF Spec

-----------------------------------------------------------------------------
(* Done rows were handled. *)

\* A write that says "done" only of a served delivery keeps the tables honest.
LEMMA EffectHandled ==
    ASSUME TypeOK, HandledInv, NEW w \in Write, Effect(w), succeeded' = succeeded,
           w.kind \in {"complete", "skip"} => Served(w.row)
    PROVE  /\ DoneMeansHandled'
           /\ \A k \in Key : receipt'[k].state = "completed" => \E e \in succeeded : KeyOf[e] = k
<1> USE KeysAssumption
<1>0. \A d \in Delivery : Served(d)' <=> Served(d)
  BY DEF Served, Shared, HasKey
<1>1. \A d \in Delivery : status'[d] \in {"done", "purged"} =>
         \/ status[d] = status'[d]
         \/ d = w.row /\ w.kind \in {"complete", "skip"}
  BY DEF TypeOK, Effect, CompleteEffect, SkipEffect, MarkDone, ReleaseEffect, FailEffect,
         ReserveEffect, rows
<1>2. DoneMeansHandled'
  BY <1>0, <1>1 DEF DoneMeansHandled, HandledInv
<1>3. ASSUME NEW k \in Key, receipt'[k].state = "completed"
      PROVE  \E e \in succeeded : KeyOf[e] = k
  <2>1. CASE w.kind = "complete"
    <3>1. CompleteEffect(w.by, w.row, w.attempt) /\ Served(w.row)
      BY <2>1 DEF Effect
    <3>2. receipt'[k] = receipt[k] \/ (KeyOf[w.row] = k /\ HasKey(w.row))
      BY <3>1 DEF CompleteEffect, TypeOK
    <3> QED BY <1>3, <3>1, <3>2 DEF HandledInv, Served, Shared, TypeOK
  <2>2. CASE w.kind # "complete"
    <3>1. receipt[k].state = "completed"
      <4>1. CASE SkipEffect(w.by, w.row, w.attempt)
        BY <1>3, <4>1 DEF SkipEffect
      <4>2. CASE ReleaseEffect(w.by, w.row, w.attempt) \/ FailEffect(w.by, w.row, w.attempt)
        BY <1>3, <4>2 DEF ReleaseEffect, FailEffect, DropReceipts, TypeOK
      <4>3. CASE ReserveEffect(w.row, w.kind)
        BY <1>3, <4>3 DEF ReserveEffect, Reserved, TypeOK
      <4> QED BY <2>2, <4>1, <4>2, <4>3 DEF Effect
    <3> QED BY <3>1 DEF HandledInv
  <2> QED BY <2>1, <2>2
<1> QED BY <1>2, <1>3

\* The evidence behind a row marked done outlives every step of the ledger.
LEMMA EvidenceBehindDone == Spec => []HandledInv
<1>1. Init => HandledInv
  BY DEF Init, HandledInv, DoneMeansHandled
<1>2. TypeOK /\ HandledInv /\ [Next]_vars => HandledInv'
  <2> SUFFICES ASSUME TypeOK, HandledInv, [Next]_vars PROVE HandledInv'
    OBVIOUS
  <2> USE KeysAssumption
  <2>a. ASSUME NEW d, Served(d), succeeded \subseteq succeeded' PROVE Served(d)'
    BY <2>a DEF Served, Shared, HasKey
  \* What is left to show of a step that changes none of the evidence.
  <2>b. ASSUME succeeded' = succeeded, late' = late, receipt' = receipt,
               \A d \in Delivery : status'[d] \in {"done", "purged"} => Served(d),
               \A c \in Consumer, d \in Delivery :
                   task'[c][d].pc \in {"complete", "skip"} => Served(d)
        PROVE HandledInv'
    BY <2>a, <2>b DEF HandledInv, DoneMeansHandled
  <2>1. ASSUME NEW d \in Delivery, Publish(d) PROVE HandledInv'
    BY <2>1, <2>b DEF Publish, TypeOK, HandledInv, DoneMeansHandled
  <2>2. ASSUME NEW d \in Delivery, Replay(d) PROVE HandledInv'
    BY <2>2, <2>b DEF Replay, TypeOK, HandledInv, DoneMeansHandled
  <2>3. ASSUME NEW d \in Delivery, PurgeDone(d) PROVE HandledInv'
    <3>1. \A e \in Delivery : status'[e] \in {"done", "purged"} => Served(e)
      BY <2>3 DEF PurgeDone, TypeOK, HandledInv, DoneMeansHandled
    <3>2. \A k \in Key : receipt'[k].state = receipt[k].state
      <4>1. ASSUME NEW k \in Key PROVE receipt'[k].state = receipt[k].state
        <5>1. receipt[k] \in Receipt
          BY DEF TypeOK
        <5> QED BY <2>3, <5>1 DEF PurgeDone
      <4> QED BY <4>1
    <3>3. succeeded' = succeeded /\ task' = task /\ late' = late
      BY <2>3 DEF PurgeDone
    <3> QED BY <2>a, <3>1, <3>2, <3>3 DEF HandledInv, DoneMeansHandled
  <2>4. ASSUME NEW d \in Delivery, SweepEvent(d) PROVE HandledInv'
    <3>1. \A e \in Delivery : status'[e] \in {"done", "purged"} => Served(e)
      BY <2>4 DEF SweepEvent, TypeOK, HandledInv, DoneMeansHandled
    <3>2. \A k \in Key : receipt'[k].state = "completed" => receipt[k].state = "completed"
      BY <2>4 DEF SweepEvent, TypeOK
    <3>3. succeeded' = succeeded /\ task' = task /\ late' = late
      BY <2>4 DEF SweepEvent
    <3> QED BY <2>a, <3>1, <3>2, <3>3 DEF HandledInv, DoneMeansHandled
  <2>5. ASSUME SwitchSubscription PROVE HandledInv'
    BY <2>5, <2>b DEF SwitchSubscription, rows, HandledInv, DoneMeansHandled
  <2>6. ASSUME NEW c \in Consumer, NEW S \in SUBSET Delivery, Claim(c, S) PROVE HandledInv'
    <3>1. \A d \in Delivery : status'[d] \in {"done", "purged"} => Served(d)
      BY <2>6 DEF Claim, ClaimRows, HandledInv, DoneMeansHandled
    <3>2. \A b \in Consumer, d \in Delivery :
             task'[b][d].pc \in {"complete", "skip"} => task'[b][d] = task[b][d]
      BY <2>6 DEF Claim, TypeOK
    <3> QED BY <2>6, <2>b, <3>1, <3>2 DEF Claim, HandledInv
  <2>7. ASSUME NEW c \in Consumer, NEW S \in SUBSET Delivery, ClaimCommitsLate(c, S)
        PROVE HandledInv'
    <3>1. \A d \in Delivery : status'[d] \in {"done", "purged"} => Served(d)
      BY <2>7 DEF ClaimCommitsLate, ClaimRows, HandledInv, DoneMeansHandled
    <3>2. \A w \in late' : w \in late \/ w.kind = "release"
      BY <2>7 DEF ClaimCommitsLate
    <3>3. succeeded' = succeeded /\ task' = task /\ receipt' = receipt
      BY <2>7 DEF ClaimCommitsLate
    <3> QED BY <2>a, <3>1, <3>2, <3>3 DEF HandledInv, DoneMeansHandled
  <2>8. ASSUME NEW c \in Consumer, NEW d \in Delivery, StartUnkeyed(c, d) PROVE HandledInv'
    <3>1. GoTo(c, d, "handler")
      BY <2>8 DEF StartUnkeyed
    <3>2. \A b \in Consumer, e \in Delivery :
             task'[b][e].pc \in {"complete", "skip"} => task'[b][e] = task[b][e]
      <4>1. TypeOK /\ "handler" \in PC /\ GoTo(c, d, "handler")
        BY <3>1
      <4>2. task'[c][d] = [pc |-> "handler", attempt |-> task[c][d].attempt]
        BY <4>1, GoToTask, Zenon
      <4>3. \A b \in Consumer, e \in Delivery : b # c \/ e # d => task'[b][e] = task[b][e]
        BY <4>1, GoToTask, Zenon
      <4> QED BY <4>2, <4>3
    <3> QED BY <2>8, <2>b, <3>2 DEF StartUnkeyed, rows, HandledInv, DoneMeansHandled
  <2>9. ASSUME NEW c \in Consumer, NEW d \in Delivery, Reserve(c, d) PROVE HandledInv'
    <3> DEFINE p == After(d, task[c][d].pc)
    <3>1. HasKey(d) /\ KeyOf[d] \in Key
      BY <2>9 DEF Reserve, HasKey
    <3>2. /\ p \in PC /\ p # "complete" /\ GoTo(c, d, p)
          /\ p = "skip" => receipt[KeyOf[d]].state = "completed"
      BY <2>9, AfterGoes DEF Reserve
    <3> HIDE DEF p
    <3>3. p = "skip" => Served(d)
      BY <3>1, <3>2 DEF HandledInv, Served, Shared
    <3>4. \A b \in Consumer, e \in Delivery :
             task'[b][e].pc \in {"complete", "skip"} => Served(e)
      <4>1. TypeOK /\ p \in PC /\ GoTo(c, d, p)
        BY <3>2
      <4>2. task'[c][d] = [pc |-> p, attempt |-> task[c][d].attempt]
        BY <4>1, GoToTask, Zenon
      <4>3. \A b \in Consumer, e \in Delivery : b # c \/ e # d => task'[b][e] = task[b][e]
        BY <4>1, GoToTask, Zenon
      <4> QED BY <3>2, <3>3, <4>2, <4>3 DEF HandledInv
    <3>5. \A k \in Key : receipt'[k].state = "completed" => receipt[k].state = "completed"
      <4>1. receipt' = receipt \/ receipt' = [receipt EXCEPT ![KeyOf[d]] = Reserved(d)]
        BY <2>9 DEF Reserve, ReserveEffect
      <4>2. Reserved(d).state = "reserved"
        BY DEF Reserved
      <4> QED BY <3>1, <4>1, <4>2 DEF TypeOK
    <3>6. succeeded' = succeeded /\ status' = status /\ late' = late
      BY <2>9 DEF Reserve, ReserveEffect, rows
    <3> QED BY <2>a, <3>4, <3>5, <3>6 DEF HandledInv, DoneMeansHandled
  <2>10. ASSUME NEW c \in Consumer, NEW d \in Delivery, NEW b \in BOOLEAN, ReserveFails(c, d, b)
         PROVE HandledInv'
    <3>1. GoTo(c, d, "fail")
      BY <2>10 DEF ReserveFails
    <3>2. \A x \in Consumer, e \in Delivery :
             task'[x][e].pc \in {"complete", "skip"} => task'[x][e] = task[x][e]
      <4>1. TypeOK /\ "fail" \in PC /\ GoTo(c, d, "fail")
        BY <3>1
      <4>2. task'[c][d] = [pc |-> "fail", attempt |-> task[c][d].attempt]
        BY <4>1, GoToTask, Zenon
      <4>3. \A x \in Consumer, e \in Delivery : x # c \/ e # d => task'[x][e] = task[x][e]
        BY <4>1, GoToTask, Zenon
      <4> QED BY <4>2, <4>3
    <3>3. \A w \in late' : w \in late \/ w.kind \in Statement
      BY <2>10 DEF ReserveFails, AsWrite
    <3>4. succeeded' = succeeded /\ status' = status /\ receipt' = receipt
      BY <2>10 DEF ReserveFails, rows
    <3> QED BY <2>a, <3>2, <3>3, <3>4 DEF HandledInv, DoneMeansHandled
  <2>11. ASSUME NEW c \in Consumer, NEW d \in Delivery, HandlerSucceeds(c, d) PROVE HandledInv'
    <3>1. GoTo(c, d, "complete") /\ succeeded' = succeeded \cup {d}
      BY <2>11 DEF HandlerSucceeds
    <3>2. Served(d)'
      BY <3>1 DEF Served
    <3>3. \A x \in Consumer, e \in Delivery :
             task'[x][e].pc \in {"complete", "skip"} => e = d \/ task'[x][e] = task[x][e]
      <4>1. TypeOK /\ "complete" \in PC /\ GoTo(c, d, "complete")
        BY <3>1
      <4>2. \A x \in Consumer, e \in Delivery : x # c \/ e # d => task'[x][e] = task[x][e]
        BY <4>1, GoToTask, Zenon
      <4> QED BY <4>2
    <3>4. status' = status /\ receipt' = receipt /\ late' = late
      BY <2>11 DEF HandlerSucceeds, rows
    <3> QED BY <2>a, <3>1, <3>2, <3>3, <3>4 DEF HandledInv, DoneMeansHandled
  <2>12. ASSUME NEW c \in Consumer, NEW d \in Delivery, HandlerFails(c, d) PROVE HandledInv'
    <3>1. GoTo(c, d, "fail")
      BY <2>12 DEF HandlerFails
    <3>2. \A x \in Consumer, e \in Delivery :
             task'[x][e].pc \in {"complete", "skip"} => task'[x][e] = task[x][e]
      <4>1. TypeOK /\ "fail" \in PC /\ GoTo(c, d, "fail")
        BY <3>1
      <4>2. task'[c][d] = [pc |-> "fail", attempt |-> task[c][d].attempt]
        BY <4>1, GoToTask, Zenon
      <4>3. \A x \in Consumer, e \in Delivery : x # c \/ e # d => task'[x][e] = task[x][e]
        BY <4>1, GoToTask, Zenon
      <4> QED BY <4>2, <4>3
    <3> QED BY <2>12, <2>b, <3>2 DEF HandlerFails, rows, HandledInv, DoneMeansHandled
  <2>13. ASSUME NEW c \in Consumer, NEW d \in Delivery, WriteCommits(c, d) PROVE HandledInv'
    <3> DEFINE w == AsWrite(c, d, task[c][d].pc)
    <3>1. w \in Write /\ w.row = d /\ w.kind = task[c][d].pc
      BY <2>13 DEF TypeOK, WriteCommits, AsWrite
    <3>2. Effect(w) /\ succeeded' = succeeded /\ late' = late /\ Finish(c, d)
      BY <2>13 DEF WriteCommits
    <3>3. w.kind \in {"complete", "skip"} => Served(w.row)
      BY <3>1 DEF HandledInv
    <3> HIDE DEF w
    <3>4. /\ DoneMeansHandled'
          /\ \A k \in Key : receipt'[k].state = "completed" => \E e \in succeeded : KeyOf[e] = k
      BY <3>1, <3>2, <3>3, EffectHandled
    <3>5. \A x \in Consumer, e \in Delivery :
             task'[x][e].pc \in {"complete", "skip"} => task'[x][e] = task[x][e]
      BY <3>2, FinishTask
    <3> QED BY <2>a, <3>2, <3>4, <3>5 DEF HandledInv
  <2>14. ASSUME NEW c \in Consumer, NEW d \in Delivery, NEW b \in BOOLEAN, WriteFails(c, d, b)
         PROVE HandledInv'
    <3>1. Finish(c, d) \/ GoTo(c, d, "fail")
      BY <2>14 DEF WriteFails
    <3>2. \A x \in Consumer, e \in Delivery :
             task'[x][e].pc \in {"complete", "skip"} => task'[x][e] = task[x][e]
      <4>1. CASE Finish(c, d)
        <5>1. task'[c][d] = Idle
          BY <4>1, FinishTask, Zenon
        <5>2. \A x \in Consumer, e \in Delivery : x # c \/ e # d => task'[x][e] = task[x][e]
          BY <4>1, FinishTask, Zenon
        <5> QED BY <5>1, <5>2
      <4>2. CASE GoTo(c, d, "fail")
        <5>1. TypeOK /\ "fail" \in PC /\ GoTo(c, d, "fail")
          BY <4>2
        <5>2. task'[c][d] = [pc |-> "fail", attempt |-> task[c][d].attempt]
          BY <5>1, GoToTask, Zenon
        <5>3. \A x \in Consumer, e \in Delivery : x # c \/ e # d => task'[x][e] = task[x][e]
          BY <5>1, GoToTask, Zenon
        <5> QED BY <5>2, <5>3
      <4> QED BY <3>1, <4>1, <4>2
    <3>3. \A w \in late' : w \in late \/ (w.kind = task[c][d].pc /\ w.row = d)
      BY <2>14 DEF WriteFails, AsWrite
    <3>4. succeeded' = succeeded /\ status' = status /\ receipt' = receipt
      BY <2>14 DEF WriteFails, rows
    <3> QED BY <2>a, <3>2, <3>3, <3>4 DEF HandledInv, DoneMeansHandled
  <2>15. ASSUME NEW w \in late, LateWriteCommits(w) PROVE HandledInv'
    <3>1. w \in Write /\ Effect(w) /\ succeeded' = succeeded /\ task' = task
      BY <2>15 DEF TypeOK, LateWriteCommits
    <3>2. \A v \in late' : v \in late \/ v.kind \in Statement
      <4>1. \A v \in Rest(w) : v.kind \in Statement
        BY <3>1 DEF Rest
      <4> QED BY <2>15, <4>1 DEF LateWriteCommits
    <3>3. /\ DoneMeansHandled'
          /\ \A k \in Key : receipt'[k].state = "completed" => \E e \in succeeded : KeyOf[e] = k
      BY <3>1, EffectHandled DEF HandledInv
    <3> QED BY <2>a, <3>1, <3>2, <3>3 DEF HandledInv
  <2>16. ASSUME NEW w \in late, LateWriteLost(w) PROVE HandledInv'
    <3>1. UNCHANGED <<status, receipt, task, succeeded>> /\ late' \subseteq late
      BY <2>16 DEF LateWriteLost, rows
    <3> QED BY <2>a, <3>1 DEF HandledInv, DoneMeansHandled
  <2>17. ASSUME NEW c \in Consumer, Crash(c) PROVE HandledInv'
    <3>1. \A x \in Consumer, e \in Delivery :
             task'[x][e].pc \in {"complete", "skip"} => task'[x][e] = task[x][e]
      BY <2>17 DEF Crash, TypeOK
    <3>2. \A w \in InFlight(c) : w.kind \in {"complete", "skip"} => Served(w.row)
      <4>1. \A w \in Writing(c) : w.kind \in {"complete", "skip"} => Served(w.row)
        BY DEF Writing, AsWrite, HandledInv
      <4>2. \A w \in InFlight(c) : w \in Writing(c) \/ w.kind \in Statement
        BY DEF InFlight, Writing, AsWrite, TypeOK
      <4> QED BY <4>1, <4>2
    <3>3. UNCHANGED <<status, receipt, succeeded>> /\ late' \subseteq late \cup InFlight(c)
      BY <2>17 DEF Crash, rows
    <3> QED BY <2>a, <3>1, <3>2, <3>3 DEF HandledInv, DoneMeansHandled
  <2>18. ASSUME NEW S \in SUBSET Delivery, RequeueStale(S) PROVE HandledInv'
    <3>1. \A d \in Delivery : status'[d] \in {"done", "purged"} => Served(d)
      BY <2>18 DEF RequeueStale, HandledInv, DoneMeansHandled
    <3>2. \A k \in Key : receipt'[k].state = "completed" => receipt[k].state = "completed"
      BY <2>18 DEF RequeueStale, DropReceipts, TypeOK
    <3>3. succeeded' = succeeded /\ task' = task /\ late' = late
      BY <2>18 DEF RequeueStale
    <3> QED BY <2>a, <3>1, <3>2, <3>3 DEF HandledInv, DoneMeansHandled
  <2>19. ASSUME NEW c \in Consumer, NEW d \in Delivery, HandlerTimesOut(c, d) PROVE HandledInv'
    <3>1. \A x \in Consumer, e \in Delivery :
             task'[x][e].pc \in {"complete", "skip"} => task'[x][e] = task[x][e]
      <4>1. TypeOK /\ "fail" \in PC /\ GoTo(c, d, "fail")
        BY <2>19 DEF HandlerTimesOut
      <4>2. task'[c][d] = [pc |-> "fail", attempt |-> task[c][d].attempt]
        BY <4>1, GoToTask, Zenon
      <4>3. \A x \in Consumer, e \in Delivery : x # c \/ e # d => task'[x][e] = task[x][e]
        BY <4>1, GoToTask, Zenon
      <4> QED BY <4>2, <4>3
    <3>2. \A w \in late' : w \in late \/ w.kind = "handler"
      BY <2>19 DEF HandlerTimesOut, AsWrite
    <3>3. succeeded' = succeeded /\ status' = status /\ receipt' = receipt
      BY <2>19 DEF HandlerTimesOut, rows
    <3> QED BY <2>a, <3>1, <3>2, <3>3 DEF HandledInv, DoneMeansHandled
  <2>20. ASSUME NEW w \in late, HandlerEndsLate(w) PROVE HandledInv'
    <3>1. /\ UNCHANGED <<status, receipt, task>> /\ late' \subseteq late
          /\ succeeded \subseteq succeeded'
      BY <2>20 DEF HandlerEndsLate, rows
    <3> QED BY <2>a, <3>1 DEF HandledInv, DoneMeansHandled
  <2>21. CASE UNCHANGED vars
    BY <2>b, <2>21 DEF vars, HandledInv, DoneMeansHandled
  <2> QED
    BY <2>1, <2>2, <2>3, <2>4, <2>5, <2>6, <2>7, <2>8, <2>9, <2>10, <2>11, <2>12, <2>13,
       <2>14, <2>15, <2>16, <2>17, <2>18, <2>19, <2>20, <2>21
    DEF Next, ConsumerStep, FaultStep
<1> QED BY <1>1, <1>2, TypeCorrect, PTL DEF Spec

\* DoneMeansHandled for every instance: whatever crashes, reaps, replays, takes
\* over reservations or commits late, no row is done before its handler (or the
\* handler of a delivery with its key) has succeeded.
THEOREM DoneRowsWereHandled == Spec => []DoneMeansHandled
<1>1. HandledInv => DoneMeansHandled
  BY DEF HandledInv
<1> QED BY <1>1, EvidenceBehindDone, PTL

-----------------------------------------------------------------------------
(* One live handler run per key. *)

\* The receipts' part of KeyInv.
ReceiptsOwned == /\ \A k \in Key : receipt[k].state = "none" => receipt[k].owner = NoDelivery
                 /\ \A k \in Key : receipt[k].owner # NoDelivery => receipt[k].event = receipt[k].owner

\* A step that starts no run keeps the claims it does not end, and their keys.
Keeps == /\ ReceiptsOwned'
         /\ \A d \in Delivery : status'[d] = "running" =>
               /\ status[d] = "running" /\ claimedBy'[d] = claimedBy[d] /\ attempts'[d] = attempts[d]
               /\ HasKey(d) /\ d \notin overtaken' /\ (Owns(d) \/ d \in overtaken) => Owns(d)'

\* No new takeover is under way.
NoneJudges == \A e \in Delivery : Judging(e)' => Judging(e)

\* If none is, and no receipt of a running row is touched, the keys are kept.
LEMMA SameKeys ==
    ASSUME NoneJudges, ReceiptsOwned', overtaken' = overtaken,
           \A d \in Delivery : status'[d] = "running" =>
               /\ status[d] = "running" /\ claimedBy'[d] = claimedBy[d] /\ attempts'[d] = attempts[d]
               /\ HasKey(d) /\ receipt[KeyOf[d]].owner = d => receipt'[KeyOf[d]].owner = d
    PROVE  Keeps
  BY DEF NoneJudges, Keeps, Owns, Judged, HasKey

\* The takeovers under way after a statement of w's transaction: no other, and w's
\* own if that is where the statement leads.
WriterJudges(w) ==
    /\ w.kind = "orphan" => Judging(w.row)
    /\ \A e \in Delivery : Judging(e)' =>
          Judging(e) \/ (e = w.row /\ w.kind \in Statement /\ After(e, w.kind) = "orphan")

\* No write, in time or late, takes a key from a row that is still running and was
\* not overtaken; and a reservation that gets the key owns it.
LEMMA EffectKeeps ==
    ASSUME TypeOK, ReceiptsOwned, NEW w \in Write, Effect(w), WriterJudges(w)
    PROVE  /\ Keeps
           /\ w.kind \in Statement /\ HasKey(w.row) /\ After(w.row, w.kind) = "handler" =>
                 w.row \in overtaken' \/ Owns(w.row)'
<1> USE KeysAssumption
<1>0. w.kind \notin Statement => NoneJudges /\ overtaken' = overtaken
  BY DEF WriterJudges, NoneJudges, Effect
<1>1. CASE w.kind = "complete"
  <2>1. CompleteEffect(w.by, w.row, w.attempt) /\ NoneJudges /\ overtaken' = overtaken
    BY <1>0, <1>1 DEF Effect
  <2>2. UNCHANGED <<attempts, claimedBy>> /\ \A d \in Delivery : status'[d] = "running" => status[d] = "running"
    BY <2>1 DEF CompleteEffect, MarkDone, TypeOK
  <2>3. CASE HasKey(w.row) /\ (receipt[KeyOf[w.row]].state = "none" \/ receipt[KeyOf[w.row]].owner = w.row)
    <3>1. receipt' = [receipt EXCEPT ![KeyOf[w.row]] = Completed(w.row)]
      BY <2>1, <2>3 DEF CompleteEffect
    <3>2. ReceiptsOwned'
      BY <3>1 DEF ReceiptsOwned, Completed, TypeOK
    <3>3. \A d \in Delivery : HasKey(d) /\ receipt[KeyOf[d]].owner = d => receipt'[KeyOf[d]].owner = d
      BY <2>3, <3>1 DEF ReceiptsOwned, Completed, TypeOK, HasKey
    <3> QED BY <1>1, <2>1, <2>2, <3>2, <3>3, SameKeys
  <2>4. CASE ~(HasKey(w.row) /\ (receipt[KeyOf[w.row]].state = "none" \/ receipt[KeyOf[w.row]].owner = w.row))
    <3>1. receipt' = receipt
      BY <2>1, <2>4 DEF CompleteEffect
    <3>2. ReceiptsOwned'
      BY <3>1 DEF ReceiptsOwned
    <3> QED BY <1>1, <2>1, <2>2, <3>1, <3>2, SameKeys
  <2> QED BY <2>3, <2>4
<1>2. CASE w.kind = "skip"
  <2>1. SkipEffect(w.by, w.row, w.attempt) /\ NoneJudges /\ overtaken' = overtaken
    BY <1>0, <1>2 DEF Effect
  <2>2. /\ UNCHANGED <<attempts, claimedBy, receipt>> /\ ReceiptsOwned'
        /\ \A d \in Delivery : status'[d] = "running" => status[d] = "running"
    BY <2>1 DEF SkipEffect, MarkDone, TypeOK, ReceiptsOwned
  <2> QED BY <1>2, <2>1, <2>2, SameKeys
<1>3. CASE w.kind \in {"release", "fail"}
  <2>0. NoneJudges /\ overtaken' = overtaken
    BY <1>0, <1>3
  <2>1. CASE Holds(w.by, w.row, w.attempt)
    <3>1. DropReceipts({w.row}) /\ status'[w.row] # "running"
      BY <1>3, <2>1 DEF Effect, ReleaseEffect, FailEffect, TypeOK
    <3>2. \A d \in Delivery : d # w.row =>
             status'[d] = status[d] /\ claimedBy'[d] = claimedBy[d] /\ attempts'[d] = attempts[d]
      BY <1>3, <2>1 DEF Effect, ReleaseEffect, FailEffect, TypeOK
    <3>3. ReceiptsOwned'
      BY <3>1 DEF DropReceipts, ReceiptsOwned, TypeOK
    <3>4. \A d \in Delivery : d # w.row /\ HasKey(d) /\ receipt[KeyOf[d]].owner = d
                                  => receipt'[KeyOf[d]].owner = d
      BY <3>1 DEF DropReceipts, HasKey, TypeOK
    <3> QED BY <1>3, <2>0, <3>1, <3>2, <3>3, <3>4, SameKeys
  <2>2. CASE ~Holds(w.by, w.row, w.attempt)
    <3>1. UNCHANGED <<status, attempts, claimedBy, receipt>>
      BY <1>3, <2>2 DEF Effect, ReleaseEffect, FailEffect, rows
    <3>2. ReceiptsOwned'
      BY <3>1 DEF ReceiptsOwned
    <3> QED BY <1>3, <2>0, <3>1, <3>2, SameKeys
  <2> QED BY <2>1, <2>2
<1>4. CASE w.kind \in Statement
  <2> DEFINE r == w.row
             at == w.kind
  <2>0. r \in Delivery /\ at \in Statement
    BY <1>4
  <2>1. /\ ReserveEffect(r, at)
        /\ UNCHANGED <<status, attempts, claimedBy>>
    BY <1>4 DEF Effect, ReserveEffect, rows
  <2>2. at = "orphan" => Judging(r)
    BY DEF WriterJudges
  <2>3. ASSUME NEW e \in Delivery, Judging(e)'
        PROVE  Judging(e) \/ (e = r /\ After(r, at) = "orphan")
    BY <2>3 DEF WriterJudges
  <2> HIDE DEF r, at
  <2>4. CASE ~HasKey(r)
    <3>1. receipt' = receipt
      BY <2>0, <2>1, <2>4 DEF ReserveEffect, HasKey, TypeOK
    <3>2. ReceiptsOwned'
      BY <3>1, KeysAssumption DEF ReceiptsOwned
    <3>3. \A e \in Delivery : HasKey(e) /\ Judging(e)' => Judging(e)
      BY <2>3, <2>4
    <3>4. \A d \in Delivery : HasKey(d) => (d \in overtaken' <=> d \in overtaken)
      BY <2>1, <2>4 DEF ReserveEffect
    <3>5. \A d \in Delivery : HasKey(d) /\ Owns(d) => Owns(d)'
      BY <3>1, <3>3 DEF Owns, Judged, HasKey
    <3> QED BY <2>1, <2>4, <3>2, <3>4, <3>5 DEF Keeps, r
  <2>5. CASE HasKey(r) /\ After(r, at) = "handler"
    <3>1. /\ receipt' = [receipt EXCEPT ![KeyOf[r]] = Reserved(r)]
          /\ overtaken' = IF Judged(r) THEN overtaken \cup {r} ELSE overtaken \ {r}
      BY <2>1, <2>5 DEF ReserveEffect
    <3>2. KeyOf[r] \in Key
      BY <2>0, <2>5 DEF HasKey
    <3>3. ReceiptsOwned'
      BY <3>1, <3>2 DEF ReceiptsOwned, Reserved, TypeOK
    <3>4. \A e \in Delivery : Judging(e)' => Judging(e)
      BY <2>3, <2>5
    <3>5. \A d \in Delivery : Judged(d)' => Judged(d)
      BY <3>4 DEF Judged
    <3>6. receipt[KeyOf[r]].owner = NoDelivery \/ Judging(r)
      <4>1. receipt[KeyOf[r]].state = "none" \/ at = "orphan"
        BY <2>0, <2>5, AfterGoes
      <4> QED BY <2>2, <3>2, <4>1 DEF ReceiptsOwned
    <3>7. receipt'[KeyOf[r]].owner = r
      BY <3>1, <3>2 DEF Reserved, TypeOK
    <3>8. r \in overtaken' \/ Owns(r)'
      <4>1. CASE Judged(r)
        BY <2>0, <3>1, <4>1
      <4>2. CASE ~Judged(r)
        BY <2>0, <3>5, <3>7, <4>2 DEF Owns
      <4> QED BY <4>1, <4>2
    <3>9. ASSUME NEW d \in Delivery, HasKey(d), d \notin overtaken', Owns(d) \/ d \in overtaken
          PROVE  Owns(d)'
      <4>1. CASE d = r
        BY <3>8, <3>9, <4>1
      <4>2. CASE d # r
        <5>1. Owns(d)
          BY <3>1, <3>9, <4>2
        <5>2. KeyOf[d] # KeyOf[r]
          <6>1. SUFFICES ASSUME KeyOf[d] = KeyOf[r] PROVE FALSE
            OBVIOUS
          <6>2. receipt[KeyOf[r]].owner = d /\ ~Judged(d)
            BY <5>1, <6>1 DEF Owns
          <6>3. Judging(r)
            BY <3>6, <6>2
          <6> QED BY <2>0, <4>2, <6>1, <6>2, <6>3 DEF Judged
        <5>3. receipt'[KeyOf[d]] = receipt[KeyOf[d]]
          BY <3>1, <3>9, <5>2 DEF HasKey, TypeOK
        <5> QED BY <3>5, <5>1, <5>3 DEF Owns
      <4> QED BY <4>1, <4>2
    <3> QED BY <2>1, <3>3, <3>8, <3>9 DEF Keeps, r
  <2>6. CASE HasKey(r) /\ After(r, at) # "handler"
    <3>1. receipt' = receipt /\ overtaken' = overtaken
      BY <2>1, <2>6 DEF ReserveEffect
    <3>2. ReceiptsOwned'
      BY <3>1 DEF ReceiptsOwned
    <3>3. ASSUME NEW d \in Delivery, status[d] = "running", Owns(d) PROVE Owns(d)'
      <4>1. SUFFICES ASSUME Judged(d)' PROVE FALSE
        BY <3>1, <3>3 DEF Owns
      <4>2. PICK e \in Delivery \ {d} : KeyOf[e] = KeyOf[d] /\ Judging(e)'
        BY <4>1 DEF Judged
      <4>3. receipt[KeyOf[d]].owner = d /\ ~Judging(e)
        BY <3>3, <4>2 DEF Owns, Judged
      <4>4. e = r /\ After(r, at) = "orphan"
        BY <2>3, <4>2, <4>3
      <4>5. Judgement(r) = "orphan"
        BY <2>0, <2>6, <4>4, AfterGoes
      <4>6. KeyOf[r] \in Key /\ receipt[KeyOf[r]].owner = d /\ d # r /\ d # NoDelivery
        BY <2>0, <2>6, <4>2, <4>3, <4>4 DEF HasKey
      <4>7. receipt[KeyOf[r]].state \in {"reserved", "completed"}
        BY <4>6 DEF ReceiptsOwned, TypeOK
      <4> QED BY <3>3, <4>5, <4>6, <4>7 DEF Judgement
    <3> QED BY <2>1, <2>6, <3>1, <3>2, <3>3 DEF Keeps, r, at
  <2> QED BY <2>4, <2>5, <2>6
<1> QED BY <1>1, <1>2, <1>3, <1>4 DEF Effect

\* The general step of KeyMutex: claims are kept and no run is started.
LEMMA KeepsKeyInv ==
    ASSUME KeyInv, Keeps,
           \A x \in Consumer, e \in Delivery : task'[x][e].pc = "handler" => task'[x][e] = task[x][e]
    PROVE  KeyInv'
<1>1. ReceiptsOwned'
  BY DEF Keeps
<1>2. ASSUME NEW c \in Consumer, NEW d \in Delivery, InHandler(c, d)', HasKey(d), d \notin overtaken'
      PROVE  Owns(d)'
  <2>1. task'[c][d].pc = "handler" /\ status'[d] = "running" /\ claimedBy'[d] = c
        /\ attempts'[d] = task'[c][d].attempt
    BY <1>2 DEF InHandler, Holds
  <2>2. task'[c][d] = task[c][d]
    BY <2>1
  <2>3. InHandler(c, d)
    BY <2>1, <2>2 DEF InHandler, Holds, Keeps
  <2>4. Owns(d) \/ d \in overtaken
    BY <1>2, <2>3 DEF KeyInv
  <2> QED BY <1>2, <2>1, <2>4 DEF Keeps
<1>3. \A d \in Delivery : HasKey(d)' <=> HasKey(d)
  BY DEF HasKey
<1> QED BY <1>1, <1>2, <1>3 DEF KeyInv, ReceiptsOwned

\* A step of one task that does not take it to the DELETE leads to no new takeover,
\* if no late write does.
LEMMA TaskJudges ==
    ASSUME TypeOK, NEW c \in Consumer, NEW d \in Delivery,
           Finish(c, d) \/ \E p \in PC \ {"orphan"} : GoTo(c, d, p),
           \A w \in late' : w.kind = "orphan" => w \in late \/ (w.row = d /\ task[c][d].pc = "orphan")
    PROVE  NoneJudges
<1>1. ASSUME NEW b \in Consumer, NEW e \in Delivery, task'[b][e].pc = "orphan"
      PROVE  task[b][e].pc = "orphan"
  <2>1. CASE b = c /\ e = d
    <3>1. CASE Finish(c, d)
      BY <1>1, <2>1, <3>1, FinishTask
    <3>2. ASSUME NEW p \in PC \ {"orphan"}, GoTo(c, d, p) PROVE FALSE
      <4>1. task'[c][d] = [pc |-> p, attempt |-> task[c][d].attempt]
        BY <3>2, GoToTask
      <4> QED BY <1>1, <2>1, <4>1
    <3> QED BY <3>1, <3>2
  <2>2. CASE b # c \/ e # d
    BY <1>1, <2>2, OtherTasksStay
  <2> QED BY <2>1, <2>2
<1> QED BY <1>1 DEF NoneJudges, Judging

\* A step that changes no row and no receipt, starts no run and no takeover.
LEMMA QuietStep ==
    ASSUME TypeOK, KeyInv, UNCHANGED <<status, claimedBy, attempts, receipt, overtaken>>, NoneJudges,
           \A x \in Consumer, e \in Delivery : task'[x][e].pc = "handler" => task'[x][e] = task[x][e]
    PROVE  KeyInv'
<1>1. ReceiptsOwned'
  BY DEF KeyInv, ReceiptsOwned
<1>2. Keeps
  BY <1>1, SameKeys
<1> QED BY <1>2, KeepsKeyInv

\* The same for a step of one task.
LEMMA QuietTask ==
    ASSUME TypeOK, KeyInv, UNCHANGED <<status, claimedBy, attempts, receipt, overtaken>>,
           NEW c \in Consumer, NEW d \in Delivery,
           Finish(c, d) \/ \E p \in PC \ {"orphan", "handler"} : GoTo(c, d, p),
           \A w \in late' : w.kind = "orphan" => w \in late \/ (w.row = d /\ task[c][d].pc = "orphan")
    PROVE  KeyInv'
<1>1. NoneJudges
  BY TaskJudges
<1>2. ASSUME NEW x \in Consumer, NEW e \in Delivery, task'[x][e].pc = "handler"
      PROVE  task'[x][e] = task[x][e]
  <2>1. CASE x = c /\ e = d
    <3>1. CASE Finish(c, d)
      BY <1>2, <2>1, <3>1, FinishTask
    <3>2. ASSUME NEW p \in PC \ {"orphan", "handler"}, GoTo(c, d, p) PROVE FALSE
      <4>1. task'[c][d] = [pc |-> p, attempt |-> task[c][d].attempt]
        BY <3>2, GoToTask
      <4> QED BY <1>2, <2>1, <4>1
    <3> QED BY <3>1, <3>2
  <2>2. CASE x # c \/ e # d
    BY <2>2, OtherTasksStay
  <2> QED BY <2>1, <2>2
<1> QED BY <1>1, <1>2, QuietStep

\* KeyMutex for every instance: two deliveries with one idempotency key never run
\* their handler together under live claims, unless one of them reserved the key
\* between the SELECT and the DELETE of another's takeover.
THEOREM OneRunPerKey == Spec => []KeyMutex
<1>1. Init => KeyInv
  BY DEF Init, KeyInv, InHandler
<1>2. TypeOK /\ KeyInv /\ [Next]_vars => KeyInv'
  <2> SUFFICES ASSUME TypeOK, KeyInv, [Next]_vars PROVE KeyInv'
    OBVIOUS
  <2> USE KeysAssumption
  <2>a. ReceiptsOwned
    BY DEF KeyInv, ReceiptsOwned
  <2>b. UNCHANGED <<task, late>> => NoneJudges
    BY DEF NoneJudges, Judging
  <2>1. ASSUME NEW d \in Delivery, Publish(d) PROVE KeyInv'
    <3>1. Keeps
      BY <2>1, <2>a, <2>b, SameKeys DEF Publish, ReceiptsOwned, TypeOK
    <3> QED BY <2>1, <3>1, KeepsKeyInv DEF Publish
  <2>2. ASSUME NEW d \in Delivery, Replay(d) PROVE KeyInv'
    <3>1. Keeps
      BY <2>2, <2>a, <2>b, SameKeys DEF Replay, ReceiptsOwned, TypeOK
    <3> QED BY <2>2, <3>1, KeepsKeyInv DEF Replay
  <2>3. ASSUME NEW d \in Delivery, PurgeDone(d) PROVE KeyInv'
    <3>1. ASSUME NEW k \in Key
          PROVE  /\ receipt'[k].state = receipt[k].state /\ receipt'[k].event = receipt[k].event
                 /\ receipt'[k].owner = IF receipt[k].owner = d THEN NoDelivery ELSE receipt[k].owner
      <4>1. receipt[k] \in Receipt
        BY DEF TypeOK
      <4> QED BY <2>3, <4>1 DEF PurgeDone
    <3>2. ReceiptsOwned'
      BY <2>a, <3>1 DEF ReceiptsOwned
    <3>3. /\ status' = [status EXCEPT ![d] = "purged"]
          /\ UNCHANGED <<attempts, claimedBy, task, late, overtaken>>
      BY <2>3 DEF PurgeDone
    <3>4. \A e \in Delivery : status'[e] = "running" =>
             /\ status[e] = "running"
             /\ HasKey(e) /\ receipt[KeyOf[e]].owner = e => receipt'[KeyOf[e]].owner = e
      BY <3>1, <3>3 DEF TypeOK, HasKey
    <3>5. Keeps
      BY <2>b, <3>2, <3>3, <3>4, SameKeys
    <3> QED BY <3>3, <3>5, KeepsKeyInv
  <2>4. ASSUME NEW d \in Delivery, SweepEvent(d) PROVE KeyInv'
    <3>1. /\ status' = [status EXCEPT ![d] = "swept"]
          /\ receipt' = [k \in Key |-> IF receipt[k].event = d THEN NoReceipt ELSE receipt[k]]
          /\ UNCHANGED <<attempts, claimedBy, task, late, overtaken>>
      BY <2>4 DEF SweepEvent
    <3>2. ReceiptsOwned'
      BY <2>a, <3>1 DEF ReceiptsOwned, TypeOK
    <3>3. \A e \in Delivery : status'[e] = "running" =>
             /\ status[e] = "running"
             /\ HasKey(e) /\ receipt[KeyOf[e]].owner = e => receipt'[KeyOf[e]].owner = e
      BY <2>a, <3>1 DEF ReceiptsOwned, TypeOK, HasKey
    <3>4. Keeps
      BY <2>b, <3>1, <3>2, <3>3, SameKeys
    <3> QED BY <3>1, <3>4, KeepsKeyInv
  <2>5. ASSUME SwitchSubscription PROVE KeyInv'
    BY <2>5, <2>b, QuietStep DEF SwitchSubscription, rows
  <2>6. ASSUME NEW c \in Consumer, NEW S \in SUBSET Delivery, Claim(c, S) PROVE KeyInv'
    <3>1. ASSUME NEW b \in Consumer, NEW d \in Delivery, InHandler(b, d)'
          PROVE  InHandler(b, d)
      <4>1. task'[b][d].pc = "handler" /\ status'[d] = "running" /\ claimedBy'[d] = b
            /\ attempts'[d] = task'[b][d].attempt
        BY <3>1 DEF InHandler, Holds
      <4>2. b # c /\ task'[b][d] = task[b][d]
        BY <2>6, <4>1 DEF Claim, TypeOK
      <4>3. d \notin S
        BY <2>6, <4>1, <4>2 DEF Claim, ClaimRows
      <4> QED BY <2>6, <4>1, <4>2, <4>3 DEF Claim, ClaimRows, InHandler, Holds
    <3>2. receipt' = receipt /\ overtaken' = overtaken /\ late' = late
      BY <2>6 DEF Claim
    <3>3. \A b \in Consumer, e \in Delivery : task'[b][e].pc = "orphan" => task[b][e].pc = "orphan"
      BY <2>6 DEF Claim, TypeOK
    <3>4. \A d \in Delivery : Owns(d) => Owns(d)'
      BY <3>2, <3>3 DEF Owns, Judged, Judging
    <3> QED BY <2>a, <3>1, <3>2, <3>4 DEF KeyInv, ReceiptsOwned, HasKey
  <2>7. ASSUME NEW c \in Consumer, NEW S \in SUBSET Delivery, ClaimCommitsLate(c, S)
        PROVE KeyInv'
    <3>1. ASSUME NEW b \in Consumer, NEW d \in Delivery, InHandler(b, d)'
          PROVE  InHandler(b, d)
      <4>1. task[b][d].pc = "handler" /\ status'[d] = "running" /\ claimedBy'[d] = b
            /\ attempts'[d] = task[b][d].attempt
        BY <2>7, <3>1 DEF InHandler, Holds, ClaimCommitsLate
      <4>2. b # c
        BY <2>7, <4>1 DEF ClaimCommitsLate, ClaimRows, Free
      <4>3. d \notin S
        BY <2>7, <4>1, <4>2 DEF ClaimCommitsLate, ClaimRows
      <4> QED BY <2>7, <4>1, <4>3 DEF ClaimCommitsLate, ClaimRows, InHandler, Holds
    <3>2. receipt' = receipt /\ overtaken' = overtaken /\ task' = task
      BY <2>7 DEF ClaimCommitsLate
    <3>3. \A w \in late' : w.kind = "orphan" => w \in late
      BY <2>7 DEF ClaimCommitsLate
    <3>4. \A d \in Delivery : Owns(d) => Owns(d)'
      BY <3>2, <3>3 DEF Owns, Judged, Judging
    <3> QED BY <2>a, <3>1, <3>2, <3>4 DEF KeyInv, ReceiptsOwned, HasKey
  <2>8. ASSUME NEW c \in Consumer, NEW d \in Delivery, StartUnkeyed(c, d) PROVE KeyInv'
    <3>1. ~HasKey(d) /\ UNCHANGED <<status, attempts, claimedBy, receipt, overtaken, late>>
      BY <2>8 DEF StartUnkeyed, rows
    <3>2. \A b \in Consumer, e \in Delivery : b # c \/ e # d => task'[b][e] = task[b][e]
      <4>1. TypeOK /\ "handler" \in PC /\ GoTo(c, d, "handler")
        BY <2>8 DEF StartUnkeyed
      <4> QED BY <4>1, GoToTask, Zenon
    <3>3. ASSUME NEW b \in Consumer, NEW e \in Delivery, InHandler(b, e)', HasKey(e)
          PROVE  InHandler(b, e)
      <4>1. e # d
        BY <3>1, <3>3
      <4> QED BY <3>1, <3>2, <3>3, <4>1 DEF InHandler, Holds
    <3>4. NoneJudges
      <4>1. \E p \in PC \ {"orphan"} : GoTo(c, d, p)
        BY <2>8 DEF StartUnkeyed
      <4> QED BY <3>1, <4>1, TaskJudges
    <3>5. \A e \in Delivery : Owns(e) => Owns(e)'
      BY <3>1, <3>4 DEF NoneJudges, Owns, Judged
    <3> QED BY <2>a, <3>1, <3>3, <3>5 DEF KeyInv, ReceiptsOwned, HasKey
  <2>9. ASSUME NEW c \in Consumer, NEW d \in Delivery, Reserve(c, d) PROVE KeyInv'
    <3> DEFINE at == task[c][d].pc
               p == After(d, at)
               w == [kind |-> at, by |-> c, row |-> d, attempt |-> 0]
    <3>1. HasKey(d) /\ at \in Statement /\ ReserveEffect(d, at) /\ late' = late
      BY <2>9 DEF Reserve
    <3>2. p \in PC /\ GoTo(c, d, p)
      BY <2>9, <3>1, AfterGoes DEF Reserve
    <3>3. TypeOK /\ p \in PC /\ GoTo(c, d, p)
      BY <3>2
    <3> HIDE DEF p
    <3>4. task'[c][d] = [pc |-> p, attempt |-> task[c][d].attempt]
      BY <3>3, GoToTask, Zenon
    <3>5. \A b \in Consumer, e \in Delivery : b # c \/ e # d => task'[b][e] = task[b][e]
      BY <3>3, GoToTask, Zenon
    <3>6. w \in Write /\ w.kind = at /\ w.row = d
      BY <3>1
    <3>7. Effect(w)
      BY <3>1, <3>6 DEF Effect
    <3>8. WriterJudges(w)
      <4>1. ASSUME NEW e \in Delivery, Judging(e)'
            PROVE  Judging(e) \/ (e = d /\ p = "orphan")
        BY <3>1, <3>4, <3>5, <4>1 DEF Judging
      <4>2. at = "orphan" => Judging(d)
        BY DEF Judging
      <4> QED BY <3>1, <3>6, <4>1, <4>2 DEF WriterJudges, p
    <3> HIDE DEF w
    <3>9. /\ Keeps
          /\ p = "handler" => d \in overtaken' \/ Owns(d)'
      BY <2>a, <3>1, <3>6, <3>7, <3>8, EffectKeeps DEF p
    <3> HIDE DEF at
    <3>10. ASSUME NEW b \in Consumer, NEW e \in Delivery, InHandler(b, e)', HasKey(e), e \notin overtaken'
           PROVE  Owns(e)'
      <4>1. task'[b][e].pc = "handler" /\ status'[e] = "running" /\ claimedBy'[e] = b
            /\ attempts'[e] = task'[b][e].attempt
        BY <3>10 DEF InHandler, Holds
      <4>2. CASE b = c /\ e = d
        BY <3>4, <3>9, <3>10, <4>1, <4>2
      <4>3. CASE b # c \/ e # d
        <5>1. task'[b][e] = task[b][e]
          BY <3>5, <4>3
        <5>2. InHandler(b, e)
          BY <3>9, <4>1, <5>1 DEF Keeps, InHandler, Holds
        <5>3. Owns(e) \/ e \in overtaken
          BY <3>10, <5>2 DEF KeyInv
        <5> QED BY <3>9, <3>10, <4>1, <5>3 DEF Keeps
      <4> QED BY <4>2, <4>3
    <3> QED BY <3>9, <3>10 DEF KeyInv, Keeps, ReceiptsOwned, HasKey
  <2>10. ASSUME NEW c \in Consumer, NEW d \in Delivery, NEW l \in BOOLEAN, ReserveFails(c, d, l)
         PROVE KeyInv'
    <3>1. GoTo(c, d, "fail") /\ UNCHANGED <<status, claimedBy, attempts, receipt, overtaken>>
      BY <2>10 DEF ReserveFails, rows
    <3>2. \A w \in late' : w \in late \/ (w.row = d /\ w.kind = task[c][d].pc)
      BY <2>10 DEF ReserveFails, AsWrite
    <3> QED BY <3>1, <3>2, QuietTask
  <2>11. ASSUME NEW c \in Consumer, NEW d \in Delivery, HandlerSucceeds(c, d) PROVE KeyInv'
    <3>1. GoTo(c, d, "complete") /\ UNCHANGED <<status, claimedBy, attempts, receipt, overtaken, late>>
      BY <2>11 DEF HandlerSucceeds, rows
    <3> QED BY <3>1, QuietTask
  <2>12. ASSUME NEW c \in Consumer, NEW d \in Delivery, HandlerFails(c, d) PROVE KeyInv'
    <3>1. GoTo(c, d, "fail") /\ UNCHANGED <<status, claimedBy, attempts, receipt, overtaken, late>>
      BY <2>12 DEF HandlerFails, rows
    <3> QED BY <3>1, QuietTask
  <2>13. ASSUME NEW c \in Consumer, NEW d \in Delivery, WriteCommits(c, d) PROVE KeyInv'
    <3> DEFINE w == AsWrite(c, d, task[c][d].pc)
    <3>1. w \in Write /\ Effect(w) /\ w.kind \in WriteKind
      BY <2>13 DEF TypeOK, WriteCommits, AsWrite
    <3>2. Finish(c, d) /\ late' = late
      BY <2>13 DEF WriteCommits
    <3> HIDE DEF w
    <3>3. WriterJudges(w)
      <4>1. NoneJudges
        BY <3>2, TaskJudges
      <4> QED BY <3>1, <4>1 DEF NoneJudges, WriterJudges
    <3>4. Keeps
      BY <2>a, <3>1, <3>3, EffectKeeps
    <3>5. \A x \in Consumer, e \in Delivery : task'[x][e].pc = "handler" => task'[x][e] = task[x][e]
      <4>1. task'[c][d] = Idle
        BY <3>2, FinishTask, Zenon
      <4>2. \A b \in Consumer, e \in Delivery : b # c \/ e # d => task'[b][e] = task[b][e]
        BY <3>2, FinishTask, Zenon
      <4> QED BY <4>1, <4>2
    <3> QED BY <3>4, <3>5, KeepsKeyInv
  <2>14. ASSUME NEW c \in Consumer, NEW d \in Delivery, NEW l \in BOOLEAN, WriteFails(c, d, l)
         PROVE KeyInv'
    <3>1. /\ Finish(c, d) \/ GoTo(c, d, "fail")
          /\ UNCHANGED <<status, claimedBy, attempts, receipt, overtaken>>
      BY <2>14 DEF WriteFails, rows
    <3>2. \A w \in late' : w \in late \/ (w.row = d /\ w.kind = task[c][d].pc)
      BY <2>14 DEF WriteFails, AsWrite
    <3> QED BY <3>1, <3>2, QuietTask
  <2>15. ASSUME NEW w \in late, LateWriteCommits(w) PROVE KeyInv'
    <3>1. w \in Write /\ Effect(w) /\ task' = task /\ late' = (late \ {w}) \cup Rest(w)
      BY <2>15 DEF TypeOK, LateWriteCommits
    <3>2. WriterJudges(w)
      <4>1. \A v \in Rest(w) : v.kind = "orphan" =>
               v.row = w.row /\ w.kind \in Statement /\ After(w.row, w.kind) = "orphan"
        BY <3>1 DEF Rest
      <4>2. w.kind = "orphan" => Judging(w.row)
        BY DEF Judging
      <4>3. \A e \in Delivery : Judging(e)' =>
               Judging(e) \/ (e = w.row /\ w.kind \in Statement /\ After(e, w.kind) = "orphan")
        BY <3>1, <4>1 DEF Judging
      <4> QED BY <4>2, <4>3 DEF WriterJudges
    <3>3. Keeps
      BY <2>a, <3>1, <3>2, EffectKeeps
    <3> QED BY <3>1, <3>3, KeepsKeyInv
  <2>16. ASSUME NEW w \in late, LateWriteLost(w) PROVE KeyInv'
    <3>1. UNCHANGED <<status, claimedBy, attempts, receipt, overtaken, task>> /\ late' \subseteq late
      BY <2>16 DEF LateWriteLost, rows
    <3>2. NoneJudges
      BY <3>1 DEF NoneJudges, Judging
    <3> QED BY <3>1, <3>2, QuietStep
  <2>17. ASSUME NEW c \in Consumer, Crash(c) PROVE KeyInv'
    <3>1. \A x \in Consumer, e \in Delivery :
             task'[x][e].pc \in {"handler", "orphan"} => task'[x][e] = task[x][e]
      BY <2>17 DEF Crash, TypeOK
    <3>2. \A w \in InFlight(c) : w.kind = "orphan" => Judging(w.row)
      <4>1. \A w \in Writing(c) : w \in Write /\ (w.kind = "orphan" => Judging(w.row))
        BY DEF Writing, AsWrite, Judging, TypeOK
      <4> QED BY <4>1 DEF InFlight
    <3>3. UNCHANGED <<status, claimedBy, attempts, receipt, overtaken>> /\ late' \subseteq late \cup InFlight(c)
      BY <2>17 DEF Crash, rows
    <3>4. NoneJudges
      BY <3>1, <3>2, <3>3 DEF NoneJudges, Judging
    <3> QED BY <3>1, <3>3, <3>4, QuietStep
  <2>18. ASSUME NEW S \in SUBSET Delivery, RequeueStale(S) PROVE KeyInv'
    <3>1. ReceiptsOwned'
      BY <2>18, <2>a DEF RequeueStale, DropReceipts, ReceiptsOwned, TypeOK
    <3>2. \A e \in Delivery : status'[e] = "running" =>
             /\ status[e] = "running"
             /\ HasKey(e) /\ receipt[KeyOf[e]].owner = e => receipt'[KeyOf[e]].owner = e
      BY <2>18 DEF RequeueStale, DropReceipts, TypeOK, HasKey
    <3>3. UNCHANGED <<claimedBy, attempts, task, late, overtaken>>
      BY <2>18 DEF RequeueStale
    <3>4. Keeps
      BY <2>b, <3>1, <3>2, <3>3, SameKeys
    <3> QED BY <3>3, <3>4, KeepsKeyInv
  <2>19. ASSUME NEW c \in Consumer, NEW d \in Delivery, HandlerTimesOut(c, d) PROVE KeyInv'
    <3>1. GoTo(c, d, "fail") /\ UNCHANGED <<status, claimedBy, attempts, receipt, overtaken>>
      BY <2>19 DEF HandlerTimesOut, rows
    <3>2. \A w \in late' : w \in late \/ w.kind = "handler"
      BY <2>19 DEF HandlerTimesOut, AsWrite
    <3> QED BY <3>1, <3>2, QuietTask
  <2>20. ASSUME NEW w \in late, HandlerEndsLate(w) PROVE KeyInv'
    <3>1. UNCHANGED <<status, claimedBy, attempts, receipt, overtaken, task>> /\ late' \subseteq late
      BY <2>20 DEF HandlerEndsLate, rows
    <3>2. NoneJudges
      BY <3>1 DEF NoneJudges, Judging
    <3> QED BY <3>1, <3>2, QuietStep
  <2>21. CASE UNCHANGED vars
    BY <2>b, <2>21, QuietStep DEF vars
  <2> QED
    BY <2>1, <2>2, <2>3, <2>4, <2>5, <2>6, <2>7, <2>8, <2>9, <2>10, <2>11, <2>12, <2>13,
       <2>14, <2>15, <2>16, <2>17, <2>18, <2>19, <2>20, <2>21
    DEF Next, ConsumerStep, FaultStep
<1>3. KeyInv => KeyMutex
  BY DEF KeyInv, KeyMutex, Owns, Shared, HasKey
<1> QED BY <1>1, <1>2, <1>3, TypeCorrect, PTL DEF Spec

-----------------------------------------------------------------------------
\* The steps that write a row of event_deliveries.
LEMMA RowWriters ==
    ASSUME TypeOK, [Next]_vars
    PROVE  \/ \E d \in Delivery : Publish(d) \/ Replay(d) \/ PurgeDone(d) \/ SweepEvent(d)
           \/ \E c \in Consumer, S \in SUBSET Delivery : ClaimRows(c, S)
           \/ \E c \in Consumer, d \in Delivery : WriteCommits(c, d)
           \/ \E w \in late : LateWriteCommits(w)
           \/ \E S \in SUBSET Delivery : RequeueStale(S)
           \/ UNCHANGED <<status, attempts>>
  BY DEF Next, ConsumerStep, FaultStep, SwitchSubscription, Claim, ClaimCommitsLate, StartUnkeyed,
         Reserve, ReserveEffect, HandlerSucceeds, HandlerFails, Crash, ReserveFails, WriteFails,
         LateWriteLost, HandlerTimesOut, HandlerEndsLate, rows, vars

-----------------------------------------------------------------------------
(* The budget of attempts. *)

\* A write that ends a run keeps the budget: a release gives the attempt back, a
\* failure dies with the last one, and a write past its fence changes no row.
LEMMA EffectBudget ==
    ASSUME TypeOK, BudgetInv, NEW w \in Write, Effect(w)
    PROVE  BudgetInv'
<1> USE BoundsAssumption DEF TypeOK, BudgetInv, BudgetRespected
<1>1. CASE w.kind \in {"complete", "skip"}
  BY <1>1 DEF Effect, CompleteEffect, SkipEffect, MarkDone, Holds
<1>2. CASE w.kind = "release"
  <2>1. CASE UNCHANGED <<status, attempts>>
    BY <2>1
  <2>2. CASE Holds(w.by, w.row, w.attempt)
    <3>1. /\ status' = [status EXCEPT ![w.row] = "pending"] /\ w.row \in Delivery
          /\ attempts' = [attempts EXCEPT ![w.row] = IF attempts[w.row] > 0 THEN attempts[w.row] - 1 ELSE 0]
      BY <1>2, <2>2 DEF Effect, ReleaseEffect, Write
    <3>2. attempts[w.row] \in 1 .. MaxAttempts
      BY <2>2, <3>1 DEF Holds
    <3>3. status'[w.row] = "pending" /\ attempts'[w.row] = attempts[w.row] - 1
      BY <3>1, <3>2
    <3>4. \A d \in Delivery : d # w.row => status'[d] = status[d] /\ attempts'[d] = attempts[d]
      BY <3>1
    <3> HIDE DEF TypeOK
    <3> QED BY <3>2, <3>3, <3>4
  <2> QED BY <1>2, <2>1, <2>2 DEF Effect, ReleaseEffect, rows
<1>3. CASE w.kind = "fail"
  BY <1>3 DEF Effect, FailEffect, Holds, rows
<1>4. CASE w.kind \in Statement
  BY <1>4 DEF Effect, ReserveEffect, rows
<1> QED BY <1>1, <1>2, <1>3, <1>4 DEF Effect

\* BudgetRespected for every instance: no row is tried more than MaxAttempts
\* times, and none is dead before (claimDeliveries, failDelivery, releaseClaims,
\* requeueStaleDeliveries).
THEOREM AttemptsStayInBudget == Spec => []BudgetRespected
<1>1. Init => BudgetInv
  BY BoundsAssumption DEF Init, BudgetInv, BudgetRespected
<1>2. TypeOK /\ BudgetInv /\ [Next]_vars => BudgetInv'
  <2> SUFFICES ASSUME TypeOK, BudgetInv, [Next]_vars PROVE BudgetInv'
    OBVIOUS
  <2>a. ASSUME UNCHANGED <<status, attempts>> PROVE BudgetInv'
    BY <2>a DEF BudgetInv, BudgetRespected
  <2>1. ASSUME NEW d \in Delivery, Publish(d) \/ Replay(d) \/ PurgeDone(d) \/ SweepEvent(d)
        PROVE  BudgetInv'
    BY <2>1, BoundsAssumption DEF Publish, Replay, PurgeDone, SweepEvent, TypeOK, BudgetInv, BudgetRespected
  <2>2. ASSUME NEW c \in Consumer, NEW S \in SUBSET Delivery, ClaimRows(c, S)
        PROVE  BudgetInv'
    <3>1. \A d \in S : status[d] \in {"pending", "failed"}
      BY <2>2 DEF ClaimRows, Claimable
    <3> QED BY <2>2, <3>1, BoundsAssumption DEF ClaimRows, TypeOK, BudgetInv, BudgetRespected
  <2>3. ASSUME NEW c \in Consumer, NEW d \in Delivery, WriteCommits(c, d)
        PROVE  BudgetInv'
    <3> DEFINE w == AsWrite(c, d, task[c][d].pc)
    <3>1. w \in Write /\ Effect(w)
      BY <2>3 DEF TypeOK, WriteCommits, AsWrite
    <3> HIDE DEF w
    <3> QED BY <3>1, EffectBudget
  <2>4. ASSUME NEW w \in late, LateWriteCommits(w)
        PROVE  BudgetInv'
    <3>1. w \in Write /\ Effect(w)
      BY <2>4 DEF TypeOK, LateWriteCommits
    <3> QED BY <3>1, EffectBudget
  <2>5. ASSUME NEW S \in SUBSET Delivery, RequeueStale(S)
        PROVE  BudgetInv'
    <3>1. /\ attempts' = attempts
          /\ \A d \in Delivery :
                \/ status'[d] = status[d]
                \/ /\ status[d] = "running"
                   /\ status'[d] = IF attempts[d] >= MaxAttempts THEN "dead" ELSE "failed"
      BY <2>5 DEF RequeueStale
    <3>2. attempts \in [Delivery -> Nat]
      BY DEF TypeOK
    <3>3. ASSUME NEW d \in Delivery
          PROVE  /\ status'[d] \in {"pending", "failed"} => attempts[d] < MaxAttempts
                 /\ status'[d] = "running" => attempts[d] \in 1 .. MaxAttempts
                 /\ status'[d] = "dead" => attempts[d] = MaxAttempts
                 /\ status'[d] = "absent" => attempts[d] = 0
      <4>1. CASE status'[d] = status[d]
        BY <4>1 DEF BudgetInv, BudgetRespected
      <4>2. CASE status[d] = "running" /\ attempts[d] >= MaxAttempts /\ status'[d] = "dead"
        BY <4>2, <3>2, BoundsAssumption DEF BudgetInv, BudgetRespected
      <4>3. CASE status[d] = "running" /\ ~(attempts[d] >= MaxAttempts) /\ status'[d] = "failed"
        BY <4>3, <3>2, BoundsAssumption DEF BudgetInv, BudgetRespected
      <4> QED BY <3>1, <4>1, <4>2, <4>3
    <3> QED BY <3>1, <3>3 DEF BudgetInv, BudgetRespected
  <2> QED BY <2>a, <2>1, <2>2, <2>3, <2>4, <2>5, RowWriters
<1>3. BudgetInv => BudgetRespected
  BY DEF BudgetInv
<1> QED BY <1>1, <1>2, <1>3, TypeCorrect, PTL DEF Spec

-----------------------------------------------------------------------------
(* The fence on the claim token. *)

\* A write changes the row of a delivery only under the claim it was made by.
LEMMA EffectFenced ==
    ASSUME TypeOK, NEW w \in Write, Effect(w), NEW d \in Delivery
    PROVE  \/ status'[d] = status[d] /\ attempts'[d] = attempts[d]
           \/ w.row = d /\ claimedBy[d] = w.by
<1> USE DEF TypeOK
<1>1. CASE Holds(w.by, w.row, w.attempt)
  BY <1>1 DEF Effect, CompleteEffect, SkipEffect, MarkDone, ReleaseEffect, FailEffect,
              ReserveEffect, Holds, rows
<1>2. CASE ~Holds(w.by, w.row, w.attempt)
  BY <1>2 DEF Effect, CompleteEffect, SkipEffect, MarkDone, ReleaseEffect, FailEffect, ReserveEffect, rows
<1> QED BY <1>1, <1>2

\* PeerRunKept for every instance: a superseded claim's write, in time or late,
\* never lands on a peer's live run (the fence of completeDelivery, failDelivery
\* and releaseClaims).
THEOREM PeerRunsAreKept == Spec => PeerRunKept
<1> DEFINE ByAnother(c, d) == \E b \in Consumer \ {c} : WroteOn(b, d)
           Same(d) == status'[d] = status[d] /\ attempts'[d] = attempts[d]
<1>1. ASSUME TypeOK, [Next]_vars, NEW c \in Consumer, NEW d \in Delivery,
             InHandler(c, d), ByAnother(c, d)
      PROVE  Same(d)
  <2> USE <1>1
  <2>0. status[d] = "running" /\ claimedBy[d] = c /\ task[c][d] # Idle
    BY DEF InHandler, Holds
  <2>1. ASSUME NEW e \in Delivery, Publish(e) \/ Replay(e) \/ PurgeDone(e) \/ SweepEvent(e)
        PROVE  Same(d)
    <3>1. e # d
      BY <2>0, <2>1 DEF Publish, Replay, PurgeDone, SweepEvent, Quiet
    <3> QED BY <2>1, <3>1 DEF Publish, Replay, PurgeDone, SweepEvent, TypeOK
  <2>2. ASSUME NEW b \in Consumer, NEW S \in SUBSET Delivery, ClaimRows(b, S)
        PROVE  Same(d)
    BY <2>0, <2>2 DEF ClaimRows, Claimable
  <2>3. ASSUME NEW b \in Consumer, NEW e \in Delivery, WriteCommits(b, e)
        PROVE  Same(d)
    <3> DEFINE w == AsWrite(b, e, task[b][e].pc)
    <3>1. w \in Write /\ Effect(w) /\ w.by = b /\ w.row = e
      BY <2>3 DEF TypeOK, WriteCommits, AsWrite
    <3> HIDE DEF w
    <3>2. late' = late /\ Finish(b, e)
      BY <2>3 DEF WriteCommits
    <3>3. \A x \in Consumer, f \in Delivery : x # b \/ f # e => task'[x][f] = task[x][f]
      BY <3>2, FinishTask, Zenon
    <3>4. b # c \/ e # d
      BY <3>2, <3>3 DEF WroteOn
    <3>5. ~(w.row = d /\ claimedBy[d] = w.by)
      BY <2>0, <3>1, <3>4
    <3> QED BY <3>1, <3>5, EffectFenced
  <2>4. ASSUME NEW w \in late, LateWriteCommits(w)
        PROVE  Same(d)
    <3>1. w \in Write /\ Effect(w) /\ task' = task /\ late \ late' \subseteq {w}
      BY <2>4 DEF TypeOK, LateWriteCommits
    <3>2. w.by # c
      BY <3>1 DEF WroteOn
    <3>3. ~(w.row = d /\ claimedBy[d] = w.by)
      BY <2>0, <3>2
    <3> QED BY <3>1, <3>3, EffectFenced
  <2>5. ASSUME NEW S \in SUBSET Delivery, RequeueStale(S)
        PROVE  Same(d)
    BY <2>5 DEF RequeueStale, WroteOn
  <2>6. CASE UNCHANGED <<status, attempts>>
    BY <2>6
  <2> QED BY <2>1, <2>2, <2>3, <2>4, <2>5, <2>6, RowWriters
<1>2. TypeOK /\ [Next]_vars => [KeepsPeerRuns]_vars
  BY <1>1 DEF KeepsPeerRuns, InHandler, Holds
<1> QED BY <1>2, TypeCorrect, PTL DEF Spec, PeerRunKept

-----------------------------------------------------------------------------
(* The ledger implements the promise of AtLeastOnce.                       *)

\* The phase of a row, by its status.
LEMMA PhaseOfStatus ==
    ASSUME NEW d \in Delivery, status[d] \in Status
    PROVE  /\ Phase(d) = "open" <=> status[d] \in {"pending", "running", "failed"}
           /\ Phase(d) = "gone" <=> status[d] \in {"purged", "swept"}
           /\ \A p \in {"absent", "done", "dead"} : Phase(d) = p <=> status[d] = p
  BY DEF Phase, Status

\* Rows that change phase together are one move of the promise.
LEMMA PhasesMove ==
    ASSUME NEW S \in SUBSET Delivery, S # {}, NEW from, NEW to,
           \A d \in S : Phase(d) \in from /\ Phase(d)' = to,
           \A d \in Delivery \ S : Phase(d)' = Phase(d)
    PROVE  Promise!Move(S, from, to)
  BY DEF Promise!Move

\* A step that changes no phase is a stutter of the promise.
LEMMA PhasesStay ==
    ASSUME \A d \in Delivery : Phase(d)' = Phase(d), UNCHANGED <<succeeded, active>>
    PROVE  UNCHANGED Promise!avars
  BY DEF Promise!avars

\* A row on which a handler runs, or has run, was published (publishEvent inserts
\* the row that claimDeliveries finds).
LEMMA WorkIsPublished == Spec => []WorkInv
<1>1. Init => WorkInv
  BY DEF Init, WorkInv, Idle
<1>2. TypeOK /\ WorkInv /\ [Next]_vars => WorkInv'
  <2> SUFFICES ASSUME TypeOK, WorkInv, [Next]_vars PROVE WorkInv'
    OBVIOUS
  <2> USE DEF TypeOK
  <2>1. ASSUME NEW d \in Delivery, status'[d] = "absent" PROVE status[d] = "absent"
    <3>1. ASSUME NEW w \in Write, Effect(w) PROVE status[d] = "absent"
      BY <2>1, <3>1 DEF Effect, CompleteEffect, SkipEffect, ReleaseEffect, FailEffect, MarkDone,
                  ReserveEffect, rows
    <3>2. ASSUME NEW e \in Delivery, Publish(e) \/ Replay(e) \/ PurgeDone(e) \/ SweepEvent(e)
          PROVE  status[d] = "absent"
      BY <2>1, <3>2 DEF Publish, Replay, PurgeDone, SweepEvent
    <3>3. ASSUME NEW b \in Consumer, NEW S \in SUBSET Delivery, ClaimRows(b, S)
          PROVE  status[d] = "absent"
      BY <2>1, <3>3 DEF ClaimRows
    <3>4. ASSUME NEW b \in Consumer, NEW e \in Delivery, WriteCommits(b, e)
          PROVE  status[d] = "absent"
      <4>1. AsWrite(b, e, task[b][e].pc) \in Write
        BY <3>4 DEF WriteCommits, AsWrite
      <4> QED BY <3>1, <3>4, <4>1 DEF WriteCommits
    <3>5. ASSUME NEW w \in late, LateWriteCommits(w) PROVE status[d] = "absent"
      BY <3>1, <3>5 DEF LateWriteCommits
    <3>6. ASSUME NEW S \in SUBSET Delivery, RequeueStale(S) PROVE status[d] = "absent"
      BY <2>1, <3>6 DEF RequeueStale
    <3>7. CASE UNCHANGED <<status, attempts>>
      BY <2>1, <3>7
    <3> QED BY <3>2, <3>3, <3>4, <3>5, <3>6, <3>7, RowWriters
  \* What is left to show: a task or a write that is new is about a published row.
  <2>2. ASSUME \A c \in Consumer, d \in Delivery :
                  task'[c][d].pc # "idle" => task[c][d].pc # "idle" \/ status[d] # "absent",
               \A w \in late' : status[w.row] # "absent" /\ w \in Write
        PROVE  WorkInv'
    BY <2>1, <2>2 DEF WorkInv
  <2>3. ASSUME NEW c \in Consumer, NEW S \in SUBSET Delivery, Claim(c, S) PROVE WorkInv'
    <3>1. \A d \in S : status[d] # "absent"
      BY <2>3 DEF Claim, ClaimRows, Claimable
    <3> QED BY <2>2, <2>3, <3>1 DEF Claim, WorkInv
  <2>4. ASSUME NEW c \in Consumer, NEW S \in SUBSET Delivery, ClaimCommitsLate(c, S) PROVE WorkInv'
    <3>1. \A d \in S : status[d] # "absent"
      BY <2>4 DEF ClaimCommitsLate, ClaimRows, Claimable
    <3>2. \A w \in late' : status[w.row] # "absent" /\ w \in Write
      BY <2>4, <3>1 DEF ClaimCommitsLate, WorkInv
    <3> QED BY <2>2, <2>4, <3>2 DEF ClaimCommitsLate
  <2>5. ASSUME NEW c \in Consumer, NEW d \in Delivery, task[c][d].pc # "idle",
               Finish(c, d) \/ \E p \in PC : GoTo(c, d, p),
               \A w \in late' : w \in late \/ (w \in Write /\ w.row = d)
        PROVE  WorkInv'
    <3>1. \A b \in Consumer, e \in Delivery : b # c \/ e # d => task'[b][e] = task[b][e]
      BY <2>5, OtherTasksStay
    <3>2. \A w \in late' : status[w.row] # "absent" /\ w \in Write
      BY <2>5 DEF WorkInv
    <3> QED BY <2>2, <2>5, <3>1, <3>2
  <2>6. ASSUME NEW c \in Consumer, NEW d \in Delivery, ConsumerStep(c, d) PROVE WorkInv'
    <3>1. late' = late /\ task[c][d].pc # "idle"
      BY <2>6 DEF ConsumerStep, StartUnkeyed, Reserve, HandlerSucceeds, HandlerFails, WriteCommits
    <3>2. Finish(c, d) \/ \E p \in PC : GoTo(c, d, p)
      <4>1. CASE Reserve(c, d)
        <5> DEFINE p == After(d, task[c][d].pc)
        <5>1. p \in PC /\ GoTo(c, d, p)
          BY <4>1, AfterGoes DEF Reserve
        <5> QED BY <5>1
      <4>2. CASE ~Reserve(c, d)
        BY <2>6, <4>2 DEF ConsumerStep, StartUnkeyed, HandlerSucceeds, HandlerFails, WriteCommits
      <4> QED BY <4>1, <4>2
    <3> QED BY <2>5, <3>1, <3>2
  <2>7. ASSUME NEW c \in Consumer, NEW d \in Delivery, NEW x \in BOOLEAN,
               ReserveFails(c, d, x) \/ WriteFails(c, d, x) \/ HandlerTimesOut(c, d)
        PROVE  WorkInv'
    <3>1. task[c][d].pc # "idle" /\ (Finish(c, d) \/ \E p \in PC : GoTo(c, d, p))
      BY <2>7 DEF ReserveFails, WriteFails, HandlerTimesOut
    <3>2. \A w \in late' : w \in late \/ (w \in Write /\ w.row = d)
      BY <2>7 DEF ReserveFails, WriteFails, HandlerTimesOut, AsWrite
    <3> QED BY <2>5, <3>1, <3>2
  <2>8. ASSUME NEW c \in Consumer, Crash(c) PROVE WorkInv'
    <3>1. \A w \in Writing(c) : status[w.row] # "absent" /\ w \in Write
      <4>1. ASSUME NEW w \in Writing(c) PROVE status[w.row] # "absent" /\ w \in Write
        <5>1. CASE w \in late
          BY <5>1 DEF WorkInv
        <5>2. ASSUME NEW d \in Delivery, task[c][d].pc \in WriteKind \cup Statement,
                     w = AsWrite(c, d, task[c][d].pc)
              PROVE  status[w.row] # "absent" /\ w \in Write
          BY <5>2 DEF AsWrite, WorkInv
        <5> QED BY <5>1, <5>2 DEF Writing
      <4> QED BY <4>1
    <3>2. \A w \in InFlight(c) : status[w.row] # "absent" /\ w \in Write
      <4> DEFINE Last(v) == [v EXCEPT !.kind = IF v.kind = "orphan" THEN "orphan" ELSE "again"]
      <4>1. ASSUME NEW v \in Writing(c)
            PROVE  status[Last(v).row] # "absent" /\ Last(v) \in Write
        BY <3>1, <4>1
      <4>2. InFlight(c) \subseteq Writing(c) \cup {Last(v) : v \in Writing(c)}
        BY DEF InFlight
      <4> HIDE DEF Last
      <4> QED BY <3>1, <4>1, <4>2
    <3>3. \A w \in late' : status[w.row] # "absent" /\ w \in Write
      BY <2>8, <3>2 DEF Crash, WorkInv
    <3>4. \A b \in Consumer, e \in Delivery : task'[b][e].pc # "idle" => task[b][e].pc # "idle"
      BY <2>8 DEF Crash
    <3> QED BY <2>2, <3>3, <3>4
  <2>9. ASSUME NEW w \in late, LateWriteCommits(w) \/ HandlerEndsLate(w) \/ LateWriteLost(w)
        PROVE  WorkInv'
    <3>1. \A v \in Rest(w) : v.row = w.row /\ v \in Write
      BY DEF Rest
    <3>2. \A v \in late' : status[v.row] # "absent" /\ v \in Write
      BY <2>9, <3>1 DEF LateWriteCommits, HandlerEndsLate, LateWriteLost, WorkInv
    <3> QED BY <2>2, <2>9, <3>2 DEF LateWriteCommits, HandlerEndsLate, LateWriteLost
  <2>10. CASE UNCHANGED <<task, late>>
    BY <2>2, <2>10 DEF WorkInv
  <2> QED
    BY <2>3, <2>4, <2>6, <2>7, <2>8, <2>9, <2>10
    DEF Next, FaultStep, Publish, Replay, PurgeDone, SweepEvent, SwitchSubscription, RequeueStale, vars
<1> QED BY <1>1, <1>2, TypeCorrect, PTL DEF Spec

\* What a write that ends a run does to the phases: it settles its own delivery,
\* dead-letters it, or leaves it open.
LEMMA EffectMoves ==
    ASSUME TypeOK, TypeOK', NEW w \in Write, Effect(w), UNCHANGED <<succeeded, active>>,
           w.kind \in {"complete", "skip"} => Served(w.row)
    PROVE  [Promise!ANext]_(Promise!avars)
<1> DEFINE r == w.row
<1>0. r \in Delivery /\ (\A d \in Delivery : status[d] \in Status /\ status'[d] \in Status)
  BY DEF Write, TypeOK
<1>1. \A d \in Delivery : d # r => status'[d] = status[d]
  BY DEF TypeOK, Effect, CompleteEffect, SkipEffect, MarkDone, ReleaseEffect, FailEffect, ReserveEffect, rows
<1>2. \/ status'[r] = status[r]
      \/ status[r] = "running" /\ status'[r] \in {"pending", "failed"}
      \/ status[r] = "running" /\ status'[r] = "dead"
      \/ status[r] = "running" /\ status'[r] = "done" /\ w.kind \in {"complete", "skip"}
  BY <1>0 DEF TypeOK, Effect, CompleteEffect, SkipEffect, MarkDone, ReleaseEffect, FailEffect,
              ReserveEffect, Holds, rows
<1>3. \A d \in Delivery : status'[d] = status[d] => Phase(d)' = Phase(d)
  BY DEF Phase
<1>4. CASE status'[r] = status[r]
  BY <1>1, <1>3, <1>4, PhasesStay
<1>5. CASE status[r] = "running" /\ status'[r] \in {"pending", "failed"}
  <2>1. Phase(r)' = Phase(r)
    BY <1>0, <1>5 DEF Phase
  <2> QED BY <1>1, <1>3, <2>1, PhasesStay
<1>6. CASE status[r] = "running" /\ status'[r] = "dead"
  <2>1. Phase(r) = "open" /\ Phase(r)' = "dead"
    BY <1>0, <1>6 DEF Phase
  <2>2. Promise!Move({r}, {"open"}, "dead")
    BY <1>0, <1>1, <1>3, <2>1, PhasesMove
  <2>3. Promise!ADeadLetter({r})
    BY <2>2 DEF Promise!ADeadLetter
  <2> QED BY <1>0, <2>3 DEF Promise!ANext
<1>7. CASE status[r] = "running" /\ status'[r] = "done" /\ w.kind \in {"complete", "skip"}
  <2>1. Phase(r) = "open" /\ Phase(r)' = "done"
    BY <1>0, <1>7 DEF Phase
  <2>2. Promise!Move({r}, {"open"}, "done")
    BY <1>0, <1>1, <1>3, <2>1, PhasesMove
  <2>3. Promise!Served(r)
    BY <1>7 DEF Served, Promise!Served
  <2>4. Promise!ASettle({r})
    BY <2>2, <2>3 DEF Promise!ASettle
  <2> QED BY <1>0, <2>4 DEF Promise!ANext
<1> QED BY <1>2, <1>4, <1>5, <1>6, <1>7

\* KeepsPromise for every instance: every step of the ledger, with its claims,
\* receipts, late writes and reaper, is a step of the promise or none at all.
THEOREM LedgerKeepsPromise == Spec => KeepsPromise
<1>1. Init => Promise!AInit
  BY DEF Init, Promise!AInit, Phase
<1>2. TypeOK /\ TypeOK' /\ HandledInv /\ WorkInv /\ [Next]_vars => [Promise!ANext]_(Promise!avars)
  <2> SUFFICES ASSUME TypeOK, TypeOK', HandledInv, WorkInv, [Next]_vars
               PROVE  [Promise!ANext]_(Promise!avars)
    OBVIOUS
  <2>0. \A d \in Delivery : status[d] \in Status /\ status'[d] \in Status
    BY DEF TypeOK
  <2>a. ASSUME status' = status PROVE \A d \in Delivery : Phase(d)' = Phase(d)
    BY <2>a DEF Phase
  <2>b. ASSUME status' = status, UNCHANGED <<succeeded, active>> PROVE [Promise!ANext]_(Promise!avars)
    BY <2>a, <2>b, PhasesStay
  <2>c. \A d \in Delivery : status'[d] = status[d] => Phase(d)' = Phase(d)
    BY DEF Phase
  <2>1. ASSUME NEW d \in Delivery, Publish(d) PROVE [Promise!ANext]_(Promise!avars)
    <3>1. Phase(d) = "absent" /\ Phase(d)' = "open"
      BY <2>0, <2>1 DEF Publish, Phase, TypeOK
    <3>2. \A e \in Delivery \ {d} : Phase(e)' = Phase(e)
      BY <2>1, <2>c DEF Publish, TypeOK
    <3>3. Promise!Move({d}, {"absent"}, "open")
      BY <3>1, <3>2, PhasesMove
    <3>4. Promise!APublish({d})
      BY <2>1, <3>3 DEF Publish, Promise!APublish
    <3> QED BY <3>4 DEF Promise!ANext
  <2>2. ASSUME NEW d \in Delivery, Replay(d) PROVE [Promise!ANext]_(Promise!avars)
    <3>1. \A e \in Delivery \ {d} : Phase(e)' = Phase(e)
      BY <2>2, <2>c DEF Replay, TypeOK
    <3>2. status'[d] = "pending" /\ UNCHANGED <<succeeded, active>>
      BY <2>2 DEF Replay, TypeOK
    <3>3. Phase(d)' = "open"
      BY <3>2 DEF Phase
    <3>4. CASE status[d] = "failed"
      <4>1. Phase(d) = "open"
        BY <3>4 DEF Phase
      <4> QED BY <3>1, <3>2, <3>3, <4>1, PhasesStay
    <3>5. CASE status[d] \in {"dead", "done"}
      <4>1. Phase(d) \in {"dead", "done"}
        BY <3>5 DEF Phase
      <4>2. Promise!Move({d}, {"dead", "done"}, "open")
        BY <3>1, <3>3, <4>1, PhasesMove
      <4>3. Promise!AReplay({d})
        BY <3>2, <4>2 DEF Promise!AReplay
      <4> QED BY <4>3 DEF Promise!ANext
    <3> QED BY <2>2, <3>4, <3>5 DEF Replay
  <2>3. ASSUME NEW d \in Delivery, PurgeDone(d) \/ SweepEvent(d) PROVE [Promise!ANext]_(Promise!avars)
    <3>1. \A e \in Delivery \ {d} : Phase(e)' = Phase(e)
      BY <2>3, <2>c DEF PurgeDone, SweepEvent, TypeOK
    <3>2. status'[d] \in {"purged", "swept"} /\ UNCHANGED <<succeeded, active>>
      BY <2>3 DEF PurgeDone, SweepEvent, TypeOK
    <3>3. Phase(d)' = "gone"
      BY <3>2 DEF Phase
    <3>4. /\ status[d] # "absent"
          /\ active => status[d] \notin {"pending", "running", "failed"}
      BY <2>3 DEF PurgeDone, SweepEvent
    <3>5. Phase(d) \in {"open", "done", "dead", "gone"} /\ (active => Phase(d) # "open")
      BY <2>0, <3>4 DEF Phase, Status
    <3>6. Promise!Move({d}, {"open", "done", "dead", "gone"}, "gone")
      BY <3>1, <3>3, <3>5, PhasesMove
    <3>7. Promise!AExpire({d})
      BY <3>2, <3>5, <3>6 DEF Promise!AExpire
    <3> QED BY <3>7 DEF Promise!ANext
  <2>4. CASE SwitchSubscription
    <3>1. status' = status /\ succeeded' = succeeded /\ active' = ~active
      BY <2>4 DEF SwitchSubscription, rows
    <3>2. Promise!ASwitch
      BY <2>a, <3>1 DEF Promise!ASwitch
    <3> QED BY <3>2 DEF Promise!ANext
  <2>5. ASSUME NEW c \in Consumer, NEW S \in SUBSET Delivery, ClaimRows(c, S), UNCHANGED <<succeeded, active>>
        PROVE  [Promise!ANext]_(Promise!avars)
    <3>1. \A d \in Delivery : \/ status'[d] = status[d]
                              \/ status[d] \in {"pending", "failed"} /\ status'[d] = "running"
      BY <2>5 DEF ClaimRows, Claimable
    <3>2. \A d \in Delivery : Phase(d)' = Phase(d)
      BY <3>1, <2>c DEF Phase
    <3> QED BY <2>5, <3>2, PhasesStay
  <2>6. ASSUME NEW c \in Consumer, NEW d \in Delivery, HandlerSucceeds(c, d)
        PROVE  [Promise!ANext]_(Promise!avars)
    <3>1. status' = status /\ active' = active /\ succeeded' = succeeded \cup {d}
      BY <2>6 DEF HandlerSucceeds, rows
    <3>2. Phase(d) # "absent"
      BY <2>0, <2>6 DEF HandlerSucceeds, WorkInv, Phase, Status
    <3>3. Promise!ASucceed(d)
      BY <2>a, <3>1, <3>2 DEF Promise!ASucceed
    <3> QED BY <3>3 DEF Promise!ANext
  <2>11. ASSUME NEW w \in late, HandlerEndsLate(w) PROVE [Promise!ANext]_(Promise!avars)
    <3>1. w.row \in Delivery /\ status' = status /\ active' = active /\ succeeded' = succeeded \cup {w.row}
      BY <2>11 DEF HandlerEndsLate, TypeOK, rows
    <3>2. Phase(w.row) # "absent"
      BY <2>0, <3>1 DEF WorkInv, Phase, Status
    <3>3. Promise!ASucceed(w.row)
      BY <2>a, <3>1, <3>2 DEF Promise!ASucceed
    <3> QED BY <3>1, <3>3 DEF Promise!ANext
  <2>7. ASSUME NEW c \in Consumer, NEW d \in Delivery, WriteCommits(c, d)
        PROVE  [Promise!ANext]_(Promise!avars)
    <3> DEFINE w == AsWrite(c, d, task[c][d].pc)
    <3>1. /\ w \in Write /\ Effect(w) /\ UNCHANGED <<succeeded, active>>
          /\ w.kind = task[c][d].pc /\ w.row = d
      BY <2>7 DEF TypeOK, WriteCommits, AsWrite
    <3> HIDE DEF w
    <3>2. w.kind \in {"complete", "skip"} => Served(w.row)
      BY <3>1 DEF HandledInv
    <3> QED BY <3>1, <3>2, EffectMoves
  <2>8. ASSUME NEW w \in late, LateWriteCommits(w)
        PROVE  [Promise!ANext]_(Promise!avars)
    <3>1. w \in Write /\ Effect(w) /\ UNCHANGED <<succeeded, active>>
      BY <2>8 DEF TypeOK, LateWriteCommits
    <3>2. w.kind \in {"complete", "skip"} => Served(w.row)
      BY DEF HandledInv
    <3> QED BY <3>1, <3>2, EffectMoves
  <2>9. ASSUME NEW S \in SUBSET Delivery, RequeueStale(S)
        PROVE  [Promise!ANext]_(Promise!avars)
    <3> DEFINE D == {d \in S : attempts[d] >= MaxAttempts}
    <3>1. /\ \A d \in D : status[d] = "running" /\ status'[d] = "dead"
          /\ \A d \in S \ D : status[d] = "running" /\ status'[d] = "failed"
          /\ \A d \in Delivery \ S : status'[d] = status[d]
          /\ UNCHANGED <<succeeded, active>>
      BY <2>9 DEF RequeueStale
    <3>2. D \subseteq Delivery
      OBVIOUS
    <3> HIDE DEF D
    <3>3. \A d \in D : Phase(d) \in {"open"} /\ Phase(d)' = "dead"
      BY <3>1 DEF Phase
    <3>4. \A d \in Delivery \ D : Phase(d)' = Phase(d)
      BY <3>1, <2>c DEF Phase
    <3>5. CASE D = {}
      BY <3>1, <3>4, <3>5, PhasesStay
    <3>6. CASE D # {}
      <4>1. Promise!Move(D, {"open"}, "dead")
        BY <3>2, <3>3, <3>4, <3>6, PhasesMove
      <4>2. Promise!ADeadLetter(D)
        BY <3>1, <4>1 DEF Promise!ADeadLetter
      <4> QED BY <3>2, <4>2 DEF Promise!ANext
    <3> QED BY <3>5, <3>6
  <2>10. \/ \E d \in Delivery : Publish(d) \/ Replay(d) \/ PurgeDone(d) \/ SweepEvent(d)
         \/ SwitchSubscription
         \/ \E c \in Consumer, S \in SUBSET Delivery : ClaimRows(c, S) /\ UNCHANGED <<succeeded, active>>
         \/ \E c \in Consumer, d \in Delivery : HandlerSucceeds(c, d) \/ WriteCommits(c, d)
         \/ \E w \in late : LateWriteCommits(w) \/ HandlerEndsLate(w)
         \/ \E S \in SUBSET Delivery : RequeueStale(S)
         \/ status' = status /\ UNCHANGED <<succeeded, active>>
    BY DEF Next, ConsumerStep, FaultStep, Claim, ClaimCommitsLate, StartUnkeyed, Reserve, ReserveEffect,
           HandlerFails, Crash, ReserveFails, WriteFails, LateWriteLost, HandlerTimesOut, rows, vars
  <2> QED BY <2>b, <2>1, <2>2, <2>3, <2>4, <2>5, <2>6, <2>7, <2>8, <2>9, <2>10, <2>11
<1> QED BY <1>1, <1>2, TypeCorrect, EvidenceBehindDone, WorkIsPublished, PTL DEF Spec, KeepsPromise, Promise!ASpec
=============================================================================
