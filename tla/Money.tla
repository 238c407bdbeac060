-------------------------------- MODULE Money --------------------------------
(***************************************************************************)
(* The four ways money comes in: prepaid credits (CreditLedger), products  *)
(* sold through the app's own Stripe account (Purchases), payments hosted  *)
(* by Chipp (HostedPayments), and machines paying per call (Mpp).  They    *)
(* share no row: a behaviour is about one of them, `focus`.                *)
(***************************************************************************)
EXTENDS CreditLedger, FiniteSetTheorems, TLAPS

CONSTANTS
    Sold, Worker, None, MaxChanges, MaxRepeats,                             \* Purchases
    Hosted, Gift, ModeOf, ProductOf, Request, MaxSeq, MaxChippFaults,       \* HostedPayments
    Caller, Pod, Lane, MaxAddress, MaxPayments                              \* Mpp

ASSUME HostedAssumption == ModeOf \in [Hosted -> {"test", "live"}] /\ MaxSeq \in Nat
ASSUME SalesAssumption == MaxChanges \in Nat /\ MaxRepeats \in Nat
ASSUME ProcessAssumption == Pod # {}

\* Two packs of one organization, one of another; calls that race for the same
\* credits, at costs that do not divide them.
Orgs == [z \in {"cs1", "inv1", "cs2", "route1", "route2", "tool1", "tool2"} |->
            IF z \in {"cs2", "tool2"} THEN "org2" ELSE "org1"]
Amounts == [z \in DOMAIN Orgs |-> IF z \in {"cs1", "cs2", "route1"} THEN 2 ELSE IF z = "inv1" THEN 3 ELSE 1]
\* A gift given in test mode and a live sale, of one product.
Modes == [s \in {"h1", "h2"} |-> IF s = "h1" THEN "test" ELSE "live"]
Products == [s \in {"h1", "h2"} |-> "p1"]

VARIABLES
    focus,
    oneByOne, mode, checkout, customer, customers, stripe, pending, acked, row, worker, repeats,
    seq, listed, mirrored, deployed, pushes, pull, mirror, missed, chippFaults,
    minted, cache, offer, credential, payments, asked, excused, state

P == INSTANCE Purchases WITH Sale <- Sold
H == INSTANCE HostedPayments WITH
        Sale <- Hosted, MaxFaults <- MaxChippFaults, mode <- deployed, row <- mirror, faults <- chippFaults
M == INSTANCE Mpp

saleVars == <<oneByOne, mode, checkout, customer, customers, stripe, pending, acked, row, worker, repeats>>
hostedVars == <<seq, listed, mirrored, deployed, pushes, pull, mirror, missed, chippFaults>>
machineVars == <<minted, cache, offer, credential, payments, asked, excused, state>>
allVars == <<focus, vars, saleVars, hostedVars, machineVars>>

AllInit ==
    /\ focus \in {"credits", "sales", "hosted", "machines"}
    /\ Init /\ P!Init /\ H!Init /\ M!Init
    /\ focus # "sales" => oneByOne /\ mode = [s \in Sold |-> "payment"]

Sales(A) == focus = "sales" /\ A /\ UNCHANGED <<focus, vars, hostedVars, machineVars>>

AllNext ==
    \/ focus = "credits" /\ Next /\ UNCHANGED <<focus, saleVars, hostedVars, machineVars>>
    \/ focus = "sales" /\ P!Next /\ UNCHANGED <<focus, vars, hostedVars, machineVars>>
    \/ focus = "hosted" /\ H!Next /\ UNCHANGED <<focus, vars, saleVars, machineVars>>
    \/ focus = "machines" /\ M!Next /\ UNCHANGED <<focus, vars, saleVars, hostedVars>>

Safely == AllInit /\ [][AllNext]_allVars

\* Requests end, and Stripe tells a checkout until it is answered.
AllSpec ==
    /\ Safely
    /\ \A w \in Worker : WF_allVars(Sales(P!Handle(w)))
    /\ \A s \in Sold : SF_allVars(Sales(\E w \in Worker : P!Deliver(w, P!Checkout(s))))

-----------------------------------------------------------------------------
\* The local rows follow Stripe: a purchase is active only when Stripe said so, and
\* told in order its row is what Stripe has (Purchases); pushes and pulls in any
\* order leave the newest state of a hosted payment (HostedPayments).
RowsFollowStripe == P!EntitlementIsEarned /\ P!AgreesInOrder /\ H!NewestStateShows
\* A caller that pays in time pays once (Mpp).
PaidOnceInTime == M!PaidOnceInTime
\* A late checkout event revives no purchase that ended, and a paid checkout has a
\* row in the end (Purchases).
PaymentsStand == P!CheckoutRevivesNothing /\ P!PaymentsAreRecorded

-----------------------------------------------------------------------------
(* Credits, for any organizations, packs, calls and costs: the balance never *)
(* goes below zero, and without faults only work that was done stays        *)
(* charged.  The type invariant is needed for the arithmetic, and is an     *)
(* invariant by itself: what a call may have charged follows from how far   *)
(* it is.                                                                   *)

\* The ledger keeps its types, charges in particular: a call that was blocked or
\* refunded (credit.service.ts debit, refund) is not charged.
THEOREM LedgerTypeCorrect == Spec => []TypeOK
<1>1. Init => TypeOK
  BY LedgerAssumption DEF Init, TypeOK, Ends
<1>2. TypeOK /\ [Next]_vars => TypeOK'
  <2> SUFFICES ASSUME TypeOK, [Next]_vars
               PROVE  TypeOK'
    OBVIOUS
  <2> USE LedgerAssumption DEF TypeOK, Ends
  <2>1. ASSUME NEW r \in Ref, Grant(r)
        PROVE  TypeOK'
    BY <2>1 DEF Grant
  <2>2. ASSUME NEW r \in Ref, WebhookHandles(r)
        PROVE  TypeOK'
    BY <2>2 DEF WebhookHandles
  <2>3. ASSUME NEW c \in Call, Debit(c)
        PROVE  TypeOK'
    BY <2>3 DEF Debit, Spend, Move
  <2>4. ASSUME NEW c \in Call, EndWork(c)
        PROVE  TypeOK'
    BY <2>4 DEF EndWork, Move
  <2>5. ASSUME NEW c \in Call, Refund(c)
        PROVE  TypeOK'
    BY <2>5 DEF Refund, GiveBack, Move
  <2>6. ASSUME NEW c \in Call, DebitThrows(c)
        PROVE  TypeOK'
    BY <2>6 DEF DebitThrows, Spend, Move, Fault
  <2>7. ASSUME NEW c \in Call, RefundFails(c)
        PROVE  TypeOK'
    BY <2>7 DEF RefundFails, GiveBack, Move, Fault
  <2>8. ASSUME NEW c \in Call, Crash(c)
        PROVE  TypeOK'
    BY <2>8 DEF Crash, Move, Fault
  <2>9. CASE UNCHANGED vars
    BY <2>9 DEF vars
  <2> QED
    BY <2>1, <2>2, <2>3, <2>4, <2>5, <2>6, <2>7, <2>8, <2>9 DEF Next, Progress
<1> QED
  BY <1>1, <1>2, PTL DEF Spec

\* "[N]ever negative balances": only the two debits take credits away, and both
\* under the condition of the UPDATE (credit.service.ts debit).
THEOREM BalanceNeverNegative == Spec => []NeverNegative
<1>1. Init => NeverNegative
  BY DEF Init, NeverNegative
<1>2. TypeOK /\ NeverNegative /\ [Next]_vars => NeverNegative'
  <2> SUFFICES ASSUME TypeOK, NeverNegative, [Next]_vars
               PROVE  NeverNegative'
    OBVIOUS
  <2> USE LedgerAssumption DEF TypeOK, NeverNegative
  <2>1. ASSUME NEW r \in Ref, Grant(r)
        PROVE  NeverNegative'
    BY <2>1 DEF Grant
  <2>2. ASSUME NEW c \in Call, Affordable(c), Spend(c)
        PROVE  NeverNegative'
    BY <2>2 DEF Affordable, Spend
  <2>3. ASSUME NEW c \in Call, GiveBack(c)
        PROVE  NeverNegative'
    BY <2>3 DEF GiveBack
  <2>4. CASE UNCHANGED balance
    BY <2>4
  <2>5. \/ \E r \in Ref : Grant(r)
        \/ \E c \in Call : (Affordable(c) /\ Spend(c)) \/ GiveBack(c)
        \/ UNCHANGED balance
    BY DEF Next, Progress, WebhookHandles, Debit, EndWork, Refund, DebitThrows, RefundFails, Crash, vars
  <2> QED
    BY <2>1, <2>2, <2>3, <2>4, <2>5
<1> QED
  BY <1>1, <1>2, LedgerTypeCorrect, PTL DEF Spec

\* What makes it inductive: without faults a charge belongs to a call that runs,
\* is about to be refunded, or is done.
ChargeInv == faults = 0 => \A c \in charged : call[c] \in {"running", "failed", "done"}

\* "[C]harge -> run -> refund-on-failure": unless a statement fails or a process
\* dies, a call that ended and is still charged was done (chargeCredits of
\* monetize.ts, the tool wrapper of mcp/server.ts, refund).
THEOREM OnlyWorkIsCharged == Spec => []ChargedForWork
<1>1. Init => ChargeInv
  BY DEF Init, ChargeInv
<1>2. TypeOK /\ ChargeInv /\ [Next]_vars => ChargeInv'
  <2> SUFFICES ASSUME TypeOK, ChargeInv, [Next]_vars, faults' = 0
               PROVE  \A c \in charged' : call'[c] \in {"running", "failed", "done"}
    BY DEF ChargeInv
  <2> USE DEF TypeOK
  <2>1. faults' = faults
    <3>1. ASSUME Fault PROVE FALSE
      BY <3>1, LedgerAssumption DEF Fault
    <3> QED
      BY <3>1 DEF Next, Progress, Grant, WebhookHandles, Debit, EndWork, Refund, DebitThrows, RefundFails, Crash, vars
  <2>2. \A c \in charged : call[c] \in {"running", "failed", "done"}
    BY <2>1 DEF ChargeInv
  <2>3. ASSUME NEW x \in Call, Debit(x)
        PROVE  \A c \in charged' : call'[c] \in {"running", "failed", "done"}
    BY <2>2, <2>3 DEF Debit, Spend, Move
  <2>4. ASSUME NEW x \in Call, EndWork(x)
        PROVE  \A c \in charged' : call'[c] \in {"running", "failed", "done"}
    BY <2>2, <2>4 DEF EndWork, Move
  <2>5. ASSUME NEW x \in Call, Refund(x)
        PROVE  \A c \in charged' : call'[c] \in {"running", "failed", "done"}
    BY <2>2, <2>5 DEF Refund, GiveBack, Move
  <2>6. ASSUME NEW x \in Call, DebitThrows(x) \/ RefundFails(x) \/ Crash(x)
        PROVE  FALSE
    BY <2>1, <2>6 DEF DebitThrows, RefundFails, Crash, Fault
  <2>7. CASE UNCHANGED <<call, charged>>
    BY <2>2, <2>7
  <2> QED
    BY <2>3, <2>4, <2>5, <2>6, <2>7 DEF Next, Progress, Grant, WebhookHandles, vars
<1>3. ChargeInv => ChargedForWork
  BY DEF ChargeInv, ChargedForWork, Ends
<1> QED
  BY <1>1, <1>2, <1>3, LedgerTypeCorrect, PTL DEF Spec

-----------------------------------------------------------------------------
(* Credits are conserved.  The sums are taken credit by credit: what a       *)
(* reference or a call adds to one is disjoint from what is in it, and has    *)
(* as many credits as its amount.  The invariant adds that what runs or has  *)
(* failed is charged, so that a refund gives back what was taken.            *)

\* One more reference or call adds its amount to the total of its organization.
LEMMA OneMore ==
    ASSUME NEW S, NEW x \in Ref \cup Call, x \notin S, NEW o \in Org, IsFiniteSet(Credits(S, o))
    PROVE  /\ IsFiniteSet(Credits(S \cup {x}, o)) /\ Total(S, o) \in Nat
           /\ OrgOf[x] = o => Total(S \cup {x}, o) = Total(S, o) + Amount[x]
           /\ OrgOf[x] # o => Total(S \cup {x}, o) = Total(S, o)
<1> DEFINE New == {x} \X (1 .. Amount[x])
<1>1. Amount[x] \in Nat
  BY LedgerAssumption
<1>2. IsFiniteSet(New) /\ Cardinality(New) = Amount[x]
  <2>1. IsFiniteSet({x}) /\ Cardinality({x}) = 1
    BY FS_Singleton
  <2>2. IsFiniteSet(1 .. Amount[x]) /\ Cardinality(1 .. Amount[x]) = Amount[x]
    BY <1>1, FS_Interval
  <2>3. IsFiniteSet(New) /\ Cardinality(New) = Cardinality({x}) * Cardinality(1 .. Amount[x])
    BY <2>1, <2>2, FS_Product, Zenon
  <2>4. Cardinality(New) = 1 * Amount[x]
    BY <2>1, <2>2, <2>3, Zenon
  <2> HIDE DEF New
  <2> QED BY <1>1, <2>3, <2>4
<1>3. Credits(S, o) \cap New = {}
  BY DEF Credits
<1>4. Total(S, o) \in Nat
  BY FS_CardinalityType DEF Total
<1>5. CASE OrgOf[x] = o
  <2>1. Credits(S \cup {x}, o) = Credits(S, o) \cup New
    BY <1>5 DEF Credits
  <2> HIDE DEF New
  <2>2. Cardinality(Credits(S, o) \cap New) = 0
    BY <1>3, FS_EmptySet
  <2>3. IsFiniteSet(Credits(S, o) \cup New) /\ Cardinality(Credits(S, o) \cup New) = Total(S, o) + Amount[x] - 0
    BY <1>2, <2>2, FS_Union DEF Total
  <2>4. Total(S \cup {x}, o) = Total(S, o) + Amount[x] - 0
    BY <2>1, <2>3, Zenon DEF Total
  <2>5. IsFiniteSet(Credits(S \cup {x}, o))
    BY <2>1, <2>3, Zenon
  <2>6. Total(S \cup {x}, o) = Total(S, o) + Amount[x]
    BY <1>1, <1>4, <2>4
  <2> QED BY <1>4, <1>5, <2>5, <2>6, Zenon
<1>6. CASE OrgOf[x] # o
  <2>1. Credits(S \cup {x}, o) = Credits(S, o)
    BY <1>6 DEF Credits
  <2> QED BY <1>4, <1>6, <2>1 DEF Total
<1> QED BY <1>4, <1>5, <1>6

Counted(o) == IsFiniteSet(Credits(granted, o)) /\ IsFiniteSet(Credits(charged, o))
ConservedInv ==
    /\ Conserved /\ \A o \in Org : Counted(o)
    /\ \A c \in Call : call[c] \in {"running", "failed"} => c \in charged

\* Conserved for every instance: the balance is what each reference granted once,
\* less what the calls that are charged cost (grant, debit, refund).
THEOREM CreditsAreConserved == Spec => []Conserved
<1>1. Init => ConservedInv
  <2> SUFFICES ASSUME Init PROVE ConservedInv
    OBVIOUS
  <2>1. \A o \in Org : Credits(granted, o) = {} /\ Credits(charged, o) = {} /\ balance[o] = 0
    BY DEF Init, Credits
  <2>2. IsFiniteSet({}) /\ Cardinality({}) = 0
    BY FS_EmptySet
  <2>3. \A c \in Call : call[c] = "new"
    BY DEF Init
  <2> QED BY <2>1, <2>2, <2>3 DEF ConservedInv, Conserved, Counted, Total
<1>2. TypeOK /\ ConservedInv /\ [Next]_vars => ConservedInv'
  <2> SUFFICES ASSUME TypeOK, ConservedInv, [Next]_vars
               PROVE  ConservedInv'
    OBVIOUS
  <2>0. /\ balance \in [Org -> Int] /\ granted \subseteq Ref /\ charged \subseteq Call
        /\ charged \subseteq {c \in Call : call[c] \notin {"new", "blocked", "refunded"}}
        /\ DOMAIN call = Call /\ OrgOf \in [Ref \cup Call -> Org] /\ Amount \in [Ref \cup Call -> Nat \ {0}]
    BY LedgerAssumption DEF TypeOK
  <2>1. ASSUME NEW o \in Org
        PROVE  /\ balance[o] \in Int /\ balance[o] = Total(granted, o) - Total(charged, o)
               /\ Total(granted, o) \in Nat /\ Total(charged, o) \in Nat
               /\ IsFiniteSet(Credits(granted, o)) /\ IsFiniteSet(Credits(charged, o))
    BY <2>0, FS_CardinalityType DEF ConservedInv, Conserved, Counted, Total
  <2>2. ASSUME NEW r \in Ref, Grant(r)
        PROVE  ConservedInv'
    <3>1. CASE r \in granted
      <4>1. UNCHANGED <<granted, balance, charged, call>>
        BY <2>2, <3>1 DEF Grant, IsNew
      <4> QED BY <4>1 DEF ConservedInv, Conserved, Counted, Total, Credits
    <3>2. CASE r \notin granted
      <4>1. /\ granted' = granted \cup {r} /\ charged' = charged /\ call' = call
            /\ balance' = [balance EXCEPT ![OrgOf[r]] = @ + Amount[r]]
        BY <2>2, <3>2 DEF Grant, IsNew
      <4>2. ASSUME NEW o \in Org
            PROVE  Counted(o)' /\ balance'[o] = Total(granted', o) - Total(charged', o)
        <5>1. /\ IsFiniteSet(Credits(granted', o))
              /\ OrgOf[r] = o => Total(granted', o) = Total(granted, o) + Amount[r]
              /\ OrgOf[r] # o => Total(granted', o) = Total(granted, o)
          BY <2>1, <3>2, <4>1, OneMore
        <5>2. /\ OrgOf[r] = o => balance'[o] = balance[o] + Amount[r]
              /\ OrgOf[r] # o => balance'[o] = balance[o]
          BY <2>0, <4>1
        <5>3. Total(charged', o) = Total(charged, o) /\ IsFiniteSet(Credits(charged', o)) /\ Amount[r] \in Nat
          BY <2>0, <2>1, <4>1
        <5>4. Counted(o)'
          BY <5>1, <5>3, Zenon DEF Counted, Credits
        <5> QED BY <2>1, <5>1, <5>2, <5>3, <5>4
      <4> QED BY <4>1, <4>2 DEF ConservedInv, Conserved, Total, Credits
    <3> QED BY <3>1, <3>2
  <2>3. ASSUME NEW c \in Call, c \notin charged, Spend(c), granted' = granted,
               NEW to, Move(c, to)
        PROVE  ConservedInv'
    <3>1. ASSUME NEW o \in Org
          PROVE  Counted(o)' /\ balance'[o] = Total(granted', o) - Total(charged', o)
      <4>1. /\ IsFiniteSet(Credits(charged', o))
            /\ OrgOf[c] = o => Total(charged', o) = Total(charged, o) + Amount[c]
            /\ OrgOf[c] # o => Total(charged', o) = Total(charged, o)
        BY <2>1, <2>3, OneMore DEF Spend
      <4>2. /\ OrgOf[c] = o => balance'[o] = balance[o] - Amount[c]
            /\ OrgOf[c] # o => balance'[o] = balance[o]
        BY <2>0, <2>3 DEF Spend
      <4>3. Total(granted', o) = Total(granted, o) /\ IsFiniteSet(Credits(granted', o)) /\ Amount[c] \in Nat
        BY <2>0, <2>1, <2>3
      <4>4. Counted(o)'
        BY <4>1, <4>3, Zenon DEF Counted, Credits
      <4> QED BY <2>0, <2>1, <4>1, <4>2, <4>3, <4>4
    <3>2. \A d \in Call : call'[d] \in {"running", "failed"} => d \in charged'
      BY <2>0, <2>3 DEF Spend, Move, ConservedInv
    <3> QED BY <3>1, <3>2 DEF ConservedInv, Conserved, Total, Credits
  <2>4. ASSUME NEW c \in Call, c \in charged, GiveBack(c), granted' = granted,
               NEW to, Move(c, to), to \notin {"running", "failed"}
        PROVE  ConservedInv'
    <3>1. ASSUME NEW o \in Org
          PROVE  Counted(o)' /\ balance'[o] = Total(granted', o) - Total(charged', o)
      <4>0. charged = charged' \cup {c} /\ c \notin charged'
        BY <2>4 DEF GiveBack
      <4>a. Credits(charged', o) \subseteq Credits(charged, o)
        BY <4>0 DEF Credits
      <4>b. IsFiniteSet(Credits(charged', o))
        BY <2>1, <4>a, FS_Subset
      <4>1. /\ Total(charged', o) \in Nat
            /\ OrgOf[c] = o => Total(charged, o) = Total(charged', o) + Amount[c]
            /\ OrgOf[c] # o => Total(charged, o) = Total(charged', o)
        BY <4>0, <4>b, OneMore
      <4>2. /\ OrgOf[c] = o => balance'[o] = balance[o] + Amount[c]
            /\ OrgOf[c] # o => balance'[o] = balance[o]
        BY <2>0, <2>4 DEF GiveBack
      <4>3. Total(granted', o) = Total(granted, o) /\ IsFiniteSet(Credits(granted', o)) /\ Amount[c] \in Nat
        BY <2>0, <2>1, <2>4
      <4>4. Counted(o)'
        BY <4>b, <4>3, Zenon DEF Counted, Credits
      <4> QED BY <2>0, <2>1, <4>1, <4>2, <4>3, <4>4
    <3>2. \A d \in Call : call'[d] \in {"running", "failed"} => d \in charged'
      BY <2>0, <2>4 DEF GiveBack, Move, ConservedInv
    <3> QED BY <3>1, <3>2 DEF ConservedInv, Conserved, Total, Credits
  <2>5. ASSUME UNCHANGED <<granted, balance, charged>>,
               \A c \in Call : call'[c] \in {"running", "failed"} => call[c] \in {"running", "failed"}
        PROVE  ConservedInv'
    BY <2>5 DEF ConservedInv, Conserved, Counted, Total, Credits
  <2>6. ASSUME NEW c \in Call, Debit(c)
        PROVE  ConservedInv'
    <3>1. CASE Spend(c) /\ Move(c, "running")
      BY <2>0, <2>3, <2>6, <3>1 DEF Debit
    <3>2. CASE Move(c, "blocked") /\ UNCHANGED <<balance, charged>>
      BY <2>0, <2>5, <2>6, <3>2 DEF Debit, Move
    <3> QED BY <2>6, <3>1, <3>2 DEF Debit
  <2>7. ASSUME NEW c \in Call, DebitThrows(c)
        PROVE  ConservedInv'
    <3>1. CASE Spend(c)
      BY <2>0, <2>3, <2>7, <3>1 DEF DebitThrows
    <3>2. CASE UNCHANGED <<balance, charged>>
      BY <2>0, <2>5, <2>7, <3>2 DEF DebitThrows, Move
    <3> QED BY <2>7, <3>1, <3>2 DEF DebitThrows
  <2>8. ASSUME NEW c \in Call, EndWork(c)
        PROVE  ConservedInv'
    BY <2>0, <2>5, <2>8 DEF EndWork, Move
  <2>9. ASSUME NEW c \in Call, Refund(c)
        PROVE  ConservedInv'
    <3>1. c \in charged
      BY <2>9 DEF Refund, ConservedInv
    <3> QED BY <2>4, <2>9, <3>1 DEF Refund
  <2>10. ASSUME NEW c \in Call, RefundFails(c)
         PROVE  ConservedInv'
    <3>0. c \in charged
      BY <2>10 DEF RefundFails, ConservedInv
    <3>1. CASE GiveBack(c)
      BY <2>4, <2>10, <3>0, <3>1 DEF RefundFails
    <3>2. CASE UNCHANGED <<balance, charged>>
      BY <2>0, <2>5, <2>10, <3>2 DEF RefundFails, Move
    <3> QED BY <2>10, <3>1, <3>2 DEF RefundFails
  <2>11. ASSUME NEW c \in Call, Crash(c)
         PROVE  ConservedInv'
    BY <2>0, <2>5, <2>11 DEF Crash, Move
  <2>12. CASE UNCHANGED <<granted, balance, charged, call>>
    BY <2>5, <2>12
  <2> QED
    BY <2>2, <2>6, <2>7, <2>8, <2>9, <2>10, <2>11, <2>12 DEF Next, Progress, WebhookHandles, vars
<1>3. ConservedInv => Conserved
  BY DEF ConservedInv
<1> QED
  BY <1>1, <1>2, <1>3, LedgerTypeCorrect, PTL DEF Spec

-----------------------------------------------------------------------------
(* Machine payments, for any callers, processes, lanes and bounds. *)

\* Process p would accept a payment of the challenge.
Honoured(ch, p) == ch \in M!Others \/ (ch = <<"tempo", ch[2]>> /\ ch[2] \in cache[p])

\* A caller who is in time has paid exactly when it holds a credential or is done,
\* and what it was offered, or paid, is still known to the process that asked.
CallerOK(c) ==
    /\ payments[c] \in {0, 1}
    /\ payments[c] = 0 => credential[c] = {}
    /\ payments[c] = 1 => state[c] # "challenged" /\ (state[c] = "calling" => credential[c] # {})
    /\ state[c] = "challenged" => \A ch \in offer[c] : Honoured(ch, asked[c])
    /\ state[c] = "calling" => \A ch \in credential[c] : Honoured(ch, asked[c])

MachinesInv ==
    /\ cache = [p \in Pod |-> cache[p]] /\ offer = [c \in Caller |-> offer[c]]
    /\ credential = [c \in Caller |-> credential[c]] /\ payments = [c \in Caller |-> payments[c]]
    /\ asked \in [Caller -> Pod] /\ state = [c \in Caller |-> state[c]]
    /\ \A c \in Caller \ excused : CallerOK(c)

\* A caller whose own state a step leaves alone stays in order if the process that
\* asked it forgets nothing of its challenges.
LEMMA CallerLeftAlone ==
    ASSUME NEW c \in Caller, CallerOK(c), payments'[c] = payments[c], credential'[c] = credential[c],
           state'[c] = state[c], offer'[c] = offer[c], asked'[c] = asked[c],
           \A ch \in offer[c] \cup credential[c] : Honoured(ch, asked[c]) => Honoured(ch, asked[c])'
    PROVE  CallerOK(c)'
  BY DEF CallerOK

\* The first call: what it is offered the process that answers has just noted.
LEMMA UnpaidCalls ==
    ASSUME MachinesInv, NEW c \in Caller, NEW p \in Pod, M!CallUnpaid(c, p)
    PROVE  MachinesInv'
<1>1. PICK X : /\ offer' = [offer EXCEPT ![c] = X] /\ \A ch \in X : Honoured(ch, p)'
               /\ state' = [state EXCEPT ![c] = IF X = {} THEN "refused" ELSE "challenged"]
               /\ cache' = [q \in Pod |-> cache'[q]] /\ \A q \in Pod : cache[q] \subseteq cache'[q]
  <2>1. CASE UNCHANGED <<minted, cache>> /\ M!Answer(c, M!Others)
    BY <2>1 DEF M!Answer, Honoured, MachinesInv
  <2>2. CASE M!Remember(p) /\ M!Answer(c, M!Others \cup {<<"tempo", minted + 1>>})
    <3>1. cache' = [cache EXCEPT ![p] = cache[p] \cup {minted + 1}]
      BY <2>2 DEF M!Remember
    <3>2. cache' = [q \in Pod |-> cache'[q]] /\ minted + 1 \in cache'[p] /\ \A q \in Pod : cache[q] \subseteq cache'[q]
      BY <3>1 DEF MachinesInv
    <3>3. \A ch \in M!Others \cup {<<"tempo", minted + 1>>} : Honoured(ch, p)'
      BY <3>2 DEF Honoured
    <3> QED BY <2>2, <3>2, <3>3 DEF M!Answer
  <2> QED BY <2>1, <2>2 DEF M!CallUnpaid
<1>2. /\ state[c] = "calling" /\ credential[c] = {} /\ asked' = [asked EXCEPT ![c] = p]
      /\ UNCHANGED <<credential, payments, excused>>
  BY DEF M!CallUnpaid
<1>3. asked' \in [Caller -> Pod] /\ asked'[c] = p /\ \A d \in Caller : d # c => asked'[d] = asked[d]
  BY <1>2 DEF MachinesInv
<1>4. /\ offer' = [d \in Caller |-> offer'[d]] /\ offer'[c] = X /\ \A d \in Caller : d # c => offer'[d] = offer[d]
      /\ state' = [d \in Caller |-> state'[d]] /\ state'[c] # "calling" /\ \A d \in Caller : d # c => state'[d] = state[d]
  BY <1>1 DEF MachinesInv
<1>5. \A ch : \A d \in Caller : d # c /\ Honoured(ch, asked[d]) => Honoured(ch, asked[d])'
  BY <1>1, <1>3 DEF Honoured, MachinesInv
<1>6. ASSUME NEW d \in Caller \ excused PROVE CallerOK(d)'
  <2>1. CallerOK(d)
    BY DEF MachinesInv
  <2>2. CASE d = c
    <3>1. payments[c] = 0
      BY <1>2, <2>1, <2>2 DEF CallerOK
    <3> QED BY <1>1, <1>2, <1>3, <1>4, <2>2, <3>1 DEF CallerOK
  <2>3. CASE d # c
    BY <1>2, <1>3, <1>4, <1>5, <2>1, <2>3, CallerLeftAlone
  <2> QED BY <2>2, <2>3
<1> QED BY <1>1, <1>2, <1>3, <1>4, <1>6 DEF MachinesInv

\* The caller pays what it was offered.
LEMMA CallerPays ==
    ASSUME MachinesInv, NEW c \in Caller, NEW ch \in offer[c], M!Pay(c, ch)
    PROVE  MachinesInv'
<1>1. /\ state[c] = "challenged" /\ payments' = [payments EXCEPT ![c] = payments[c] + 1]
      /\ credential' = [credential EXCEPT ![c] = {ch}] /\ state' = [state EXCEPT ![c] = "calling"]
      /\ UNCHANGED <<minted, cache, offer, asked, excused>>
  BY DEF M!Pay
<1>2. \A x, p : Honoured(x, p)' = Honoured(x, p)
  BY <1>1 DEF Honoured
<1>3. /\ payments' = [d \in Caller |-> payments'[d]] /\ payments'[c] = payments[c] + 1
      /\ credential' = [d \in Caller |-> credential'[d]] /\ credential'[c] = {ch}
      /\ state' = [d \in Caller |-> state'[d]] /\ state'[c] = "calling"
      /\ \A d \in Caller : d # c => payments'[d] = payments[d] /\ credential'[d] = credential[d] /\ state'[d] = state[d]
  BY <1>1 DEF MachinesInv
<1>4. ASSUME NEW d \in Caller \ excused PROVE CallerOK(d)'
  <2>1. CallerOK(d)
    BY DEF MachinesInv
  <2>2. CASE d = c
    <3>1. payments[c] = 0 /\ Honoured(ch, asked[c])
      BY <1>1, <2>1, <2>2 DEF CallerOK
    <3>2. Honoured(ch, asked[c])'
      BY <1>1, <1>2, <3>1
    <3> QED BY <1>3, <2>2, <3>1, <3>2 DEF CallerOK
  <2>3. CASE d # c
    BY <1>1, <1>2, <1>3, <2>1, <2>3, CallerLeftAlone
  <2> QED BY <2>2, <2>3
<1> QED BY <1>1, <1>3, <1>4 DEF MachinesInv

\* A credential brought back in time to the process that asked is honoured.
LEMMA PaidCalls ==
    ASSUME MachinesInv, NEW c \in Caller, NEW p \in Pod, M!CallPaid(c, p)
    PROVE  MachinesInv'
<1>1. /\ state[c] = "calling" /\ credential' = [credential EXCEPT ![c] = {}]
      /\ UNCHANGED <<minted, cache, payments, asked>>
  BY DEF M!CallPaid
<1>2. PICK ch \in credential[c] :
          IF ch \in M!Lanes(p, ch)
          THEN state' = [state EXCEPT ![c] = "served"] /\ UNCHANGED <<offer, excused>>
          ELSE M!Answer(c, M!Lanes(p, ch)) /\ excused' = IF p # asked[c] THEN excused \cup {c} ELSE excused
  BY DEF M!CallPaid
<1>3. \A x, q : Honoured(x, q)' = Honoured(x, q)
  BY <1>1 DEF Honoured
<1>4. /\ credential' = [d \in Caller |-> credential'[d]] /\ credential'[c] = {}
      /\ offer' = [d \in Caller |-> offer'[d]] /\ state' = [d \in Caller |-> state'[d]]
      /\ \A d \in Caller : d # c => credential'[d] = credential[d] /\ state'[d] = state[d] /\ offer'[d] = offer[d]
      /\ excused \subseteq excused'
  BY <1>1, <1>2 DEF MachinesInv, M!Answer
<1>5. ASSUME NEW d \in Caller, d \notin excused' PROVE CallerOK(d)'
  <2>1. CallerOK(d)
    BY <1>4, <1>5 DEF MachinesInv
  <2>2. CASE d = c
    <3>1. Honoured(ch, asked[c]) /\ payments[c] = 1
      BY <1>1, <2>1, <2>2 DEF CallerOK
    <3>2. CASE ch \in M!Lanes(p, ch)
      <4>1. state'[c] = "served"
        BY <1>2, <3>2 DEF MachinesInv
      <4> QED BY <1>1, <2>2, <3>1, <4>1 DEF CallerOK
    <3>3. CASE ch \notin M!Lanes(p, ch)
      <4>1. p = asked[c]
        BY <1>2, <1>5, <2>2, <3>3
      <4> QED BY <3>1, <3>3, <4>1 DEF Honoured, M!Lanes
    <3> QED BY <3>2, <3>3
  <2>3. CASE d # c
    BY <1>1, <1>3, <1>4, <2>1, <2>3, CallerLeftAlone
  <2> QED BY <2>2, <2>3
<1> QED BY <1>1, <1>4, <1>5 DEF MachinesInv

\* An address that is forgotten excuses the callers it was made for, and no other.
LEMMA AddressForgotten ==
    ASSUME MachinesInv, NEW p \in Pod, NEW a \in cache[p], M!Forget(p, a)
    PROVE  MachinesInv'
<1>1. /\ cache' = [cache EXCEPT ![p] = cache[p] \ {a}]
      /\ excused' = excused \cup {c \in Caller : <<"tempo", a>> \in offer[c] \cup credential[c]}
      /\ UNCHANGED <<minted, offer, credential, payments, asked, state>>
  BY DEF M!Forget
<1>2. cache' = [q \in Pod |-> cache'[q]] /\ \A q \in Pod : \A b \in cache[q] : b # a => b \in cache'[q]
  BY <1>1 DEF MachinesInv
<1>3. ASSUME NEW c \in Caller, c \notin excused' PROVE CallerOK(c)'
  <2>1. CallerOK(c) /\ <<"tempo", a>> \notin offer[c] \cup credential[c]
    BY <1>1, <1>3 DEF MachinesInv
  <2>2. \A ch \in offer[c] \cup credential[c] : Honoured(ch, asked[c]) => Honoured(ch, asked[c])'
    BY <1>1, <1>2, <2>1 DEF Honoured, MachinesInv
  <2> QED BY <1>1, <2>1, <2>2, CallerLeftAlone
<1> QED BY <1>1, <1>2, <1>3 DEF MachinesInv

\* PaidOnceInTime for every instance: a caller that pays and comes back in time, to
\* the process that challenged it, pays once, however many callers are challenged in
\* between (createPayToAddress and resolveCryptoRecipient in
\* src/services/mpp.service.ts).
THEOREM CallersPayOnce == M!Spec => []PaidOnceInTime
<1>1. M!Init => MachinesInv
  <2> SUFFICES ASSUME M!Init PROVE MachinesInv
    OBVIOUS
  <2>1. (CHOOSE p \in Pod : TRUE) \in Pod
    BY ProcessAssumption
  <2>2. asked \in [Caller -> Pod]
    BY <2>1 DEF M!Init
  <2>3. \A c \in Caller : CallerOK(c)
    BY DEF M!Init, CallerOK
  <2> QED BY <2>2, <2>3 DEF M!Init, MachinesInv
<1>2. MachinesInv /\ [M!Next]_(M!vars) => MachinesInv'
  <2>1. ASSUME MachinesInv, UNCHANGED M!vars PROVE MachinesInv'
    BY <2>1 DEF M!vars, MachinesInv, CallerOK, Honoured
  <2> QED BY <2>1, UnpaidCalls, CallerPays, PaidCalls, AddressForgotten DEF M!Next
<1>3. MachinesInv => PaidOnceInTime
  BY DEF MachinesInv, CallerOK, PaidOnceInTime, M!PaidOnceInTime
<1> QED BY <1>1, <1>2, <1>3, PTL DEF M!Spec

-----------------------------------------------------------------------------
(* Hosted payments, for any sales, gifts, requests and bounds. *)

StateOK(x) == x = <<x[1], x[2]>> /\ x[1] \in Hosted /\ x[2] \in Nat /\ x[2] <= seq[x[1]]

\* The mirror is up to date, or the push of the newest state is still to be handled,
\* or the sale is of another mode or counted as missed.
SaleShown(s) == ModeOf[s] = deployed /\ s \notin missed => mirror[s] = seq[s] \/ <<s, seq[s]>> \in pushes

\* Nothing is mirrored or under way that Chipp has not numbered.
HostedInv ==
    /\ seq \in [Hosted -> Nat] /\ mirror \in [Hosted -> Nat] /\ \A s \in Hosted : mirror[s] <= seq[s]
    /\ \A x \in pushes : StateOK(x)
    /\ pull = [r \in Request |-> pull[r]] /\ \A r \in Request : \A x \in pull[r] : StateOK(x)
    /\ \A s \in Hosted : SaleShown(s)

\* A new state is numbered one more, and pushed.
LEMMA SaleMoves ==
    ASSUME HostedInv, NEW s \in Hosted, H!SaleChanges(s)
    PROVE  HostedInv'
<1>1. /\ seq' = [seq EXCEPT ![s] = seq[s] + 1] /\ pushes' = pushes \cup {<<s, seq[s] + 1>>}
      /\ UNCHANGED <<deployed, pull, mirror, missed>>
  BY DEF H!SaleChanges
<1>2. /\ seq' \in [Hosted -> Nat] /\ seq'[s] = seq[s] + 1 /\ \A t \in Hosted : t # s => seq'[t] = seq[t]
      /\ \A t \in Hosted : seq[t] \in Nat /\ seq[t] <= seq'[t] /\ mirror[t] \in Nat
  BY <1>1 DEF HostedInv
<1>3. \A x : StateOK(x) => StateOK(x)'
  BY <1>2 DEF StateOK
<1>4. ASSUME NEW x \in pushes' PROVE StateOK(x)'
  <2>1. CASE x \in pushes
    BY <1>3, <2>1 DEF HostedInv
  <2>2. CASE x = <<s, seq[s] + 1>>
    BY <1>2, <2>2 DEF StateOK
  <2> QED BY <1>1, <2>1, <2>2
<1>5. \A t \in Hosted : SaleShown(t)'
  BY <1>1, <1>2 DEF SaleShown, HostedInv
<1> QED BY <1>1, <1>2, <1>3, <1>4, <1>5 DEF HostedInv

\* applyChippEntitlement and applyChippDonation write a state only over an older one;
\* the newest state is in the mirror afterwards, or counted as missed.
LEMMA ApplyWrites ==
    ASSUME HostedInv, NEW x, StateOK(x), H!Apply(x), UNCHANGED <<seq, deployed>>
    PROVE  /\ mirror' \in [Hosted -> Nat] /\ \A s \in Hosted : mirror'[s] <= seq[s]
           /\ \A s \in Hosted : mirror[s] = seq[s] => mirror'[s] = seq[s]
           /\ \A s \in Hosted : s # x[1] => mirror'[s] = mirror[s] /\ (s \in missed' <=> s \in missed)
           /\ x[2] # seq[x[1]] => missed' = missed
           /\ x[2] = seq[x[1]] /\ x[1] \notin missed' => mirror'[x[1]] = seq[x[1]]
<1>1. x[1] \in Hosted /\ x[2] \in Nat /\ x[2] <= seq[x[1]] /\ mirror \in [Hosted -> Nat] /\ seq \in [Hosted -> Nat]
      /\ \A s \in Hosted : mirror[s] <= seq[s]
  BY DEF StateOK, HostedInv
<1>2. /\ mirror' = IF H!Outcome(x) = "applied" /\ mirror[x[1]] < x[2] THEN [mirror EXCEPT ![x[1]] = x[2]] ELSE mirror
      /\ missed' = IF x[2] # seq[x[1]] THEN missed
                   ELSE IF H!Outcome(x) = "applied" THEN missed \ {x[1]} ELSE missed \cup {x[1]}
  BY DEF H!Apply, H!Newer
<1>3. CASE H!Outcome(x) = "applied"
  BY <1>1, <1>2, <1>3
<1>4. CASE H!Outcome(x) # "applied"
  BY <1>1, <1>2, <1>4
<1> QED BY <1>3, <1>4

\* A state that came in is handled: by push, once or again, or by pull.
LEMMA StateHandled ==
    ASSUME HostedInv,
           \/ \E x \in pushes : H!HandlePush(x)
           \/ \E r \in Request : \E x \in pull[r] : H!ApplyPulled(r, x)
    PROVE  HostedInv'
<1>1. PICK x : /\ StateOK(x) /\ H!Apply(x) /\ UNCHANGED <<seq, deployed>>
               /\ pushes' \subseteq pushes /\ \A y \in pushes : y # x => y \in pushes'
  BY DEF H!HandlePush, H!ApplyPulled, HostedInv
<1>2. pull' = [r \in Request |-> pull'[r]] /\ \A r \in Request : pull'[r] \subseteq pull[r]
  BY DEF H!HandlePush, H!ApplyPulled, HostedInv
<1>3. /\ mirror' \in [Hosted -> Nat] /\ \A s \in Hosted : mirror'[s] <= seq[s]
      /\ \A s \in Hosted : mirror[s] = seq[s] => mirror'[s] = seq[s]
      /\ \A s \in Hosted : s # x[1] => mirror'[s] = mirror[s] /\ (s \in missed' <=> s \in missed)
      /\ x[2] # seq[x[1]] => missed' = missed
      /\ x[2] = seq[x[1]] /\ x[1] \notin missed' => mirror'[x[1]] = seq[x[1]]
  BY <1>1, ApplyWrites
<1>4. \A y : StateOK(y) => StateOK(y)'
  BY <1>1 DEF StateOK
<1>5. ASSUME NEW s \in Hosted PROVE SaleShown(s)'
  <2>1. SaleShown(s)
    BY DEF HostedInv
  <2>2. CASE x = <<s, seq[s]>>
    BY <1>1, <1>3, <2>1, <2>2 DEF SaleShown
  <2>3. CASE x # <<s, seq[s]>>
    <3>1. s \in missed' <=> s \in missed
      BY <1>1, <1>3, <2>3 DEF StateOK
    <3> QED BY <1>1, <1>3, <2>1, <2>3, <3>1 DEF SaleShown
  <2> QED BY <2>2, <2>3
<1> QED BY <1>1, <1>2, <1>3, <1>4, <1>5 DEF HostedInv

\* What is lost, read, given up or left behind by going live is counted.
LEMMA StateLost ==
    ASSUME HostedInv,
           \/ \E x \in pushes : H!LosePush(x)
           \/ \E r \in Request : H!PullFails(r) \/ \E S : H!Pull(r, S)
           \/ H!GoLive
    PROVE  HostedInv'
<1>1. UNCHANGED <<seq, mirror>> /\ pushes' \subseteq pushes /\ missed \subseteq missed'
  BY DEF H!LosePush, H!PullFails, H!Pull, H!GoLive
<1>2. \A y : StateOK(y) => StateOK(y)'
  BY <1>1 DEF StateOK
<1>3. pull' = [r \in Request |-> pull'[r]] /\ \A r \in Request : \A x \in pull'[r] : StateOK(x)
  <2>1. \A x : x \in H!State /\ x[2] = seq[x[1]] => StateOK(x)
    BY HostedAssumption DEF H!State, StateOK
  <2> QED BY <2>1 DEF HostedInv, H!LosePush, H!PullFails, H!Pull, H!GoLive
<1>4. ASSUME NEW s \in Hosted PROVE SaleShown(s)'
  <2>1. SaleShown(s) /\ mirror[s] \in Nat /\ seq[s] \in Nat /\ mirror[s] <= seq[s]
    BY DEF HostedInv
  <2>2. ASSUME NEW x \in pushes, H!LosePush(x) PROVE SaleShown(s)'
    <3>1. /\ deployed' = deployed /\ pushes' = pushes \ {x}
          /\ missed' = IF x[2] = seq[x[1]] /\ mirror[x[1]] < x[2] THEN missed \cup {x[1]} ELSE missed
      BY <2>2 DEF H!LosePush
    <3>2. CASE x = <<s, seq[s]>>
      BY <1>1, <2>1, <3>1, <3>2 DEF SaleShown
    <3>3. CASE x # <<s, seq[s]>>
      BY <1>1, <2>1, <3>1, <3>3 DEF SaleShown
    <3> QED BY <3>2, <3>3
  <2>3. CASE UNCHANGED <<deployed, pushes, missed>>
    BY <1>1, <2>1, <2>3 DEF SaleShown
  <2>4. CASE H!GoLive
    BY <2>4 DEF H!GoLive, SaleShown
  <2> QED BY <2>2, <2>3, <2>4 DEF H!PullFails, H!Pull
<1> QED BY <1>1, <1>2, <1>3, <1>4 DEF HostedInv

\* NewestStateShows for every instance: in whatever order pushes and pulls come in,
\* and however often, the mirror of a sale that nothing is in transit for shows its
\* newest state, unless that was skipped or lost (applyChippEntitlement and
\* syncChippEntitlements in src/services/chipp-entitlements.ts).
THEOREM MirrorsCatchUp == H!Spec => []H!NewestStateShows
<1>1. H!Init => HostedInv
  BY DEF H!Init, HostedInv, SaleShown
<1>2. HostedInv /\ [H!Next]_(H!vars) => HostedInv'
  <2> SUFFICES ASSUME HostedInv, [H!Next]_(H!vars) PROVE HostedInv'
    OBVIOUS
  <2>1. CASE UNCHANGED <<seq, deployed, pushes, pull, mirror, missed>>
    BY <2>1 DEF HostedInv, StateOK, SaleShown
  <2> QED BY <2>1, SaleMoves, StateHandled, StateLost DEF H!Next, H!vars, H!CatalogChanges, H!SyncChippCatalog
<1>3. HostedInv => H!NewestStateShows
  BY DEF HostedInv, SaleShown, H!NewestStateShows, H!InTransit
<1> QED BY <1>1, <1>2, <1>3, PTL DEF H!Spec

-----------------------------------------------------------------------------
(* Sales and their webhook, for any sales, webhook requests and bounds. *)

SaleEvents == [kind : {"checkout", "refund"}, sale : Sold, status : {"none"}, n : {0}]
ChangeEvents == [kind : {"subscription"}, sale : P!Subscription, status : P!Status, n : 1 .. MaxChanges]

\* What an event says of its sale.
LEMMA EventFacts ==
    ASSUME NEW e \in P!Event
    PROVE  /\ e.sale \in Sold /\ e.n \in Nat /\ e.kind \in {"checkout", "refund", "subscription"}
           /\ e.kind = "subscription" => /\ e.sale \in P!Subscription /\ e.status \in P!Status /\ e.n # 0
                                         /\ e = P!Change(e.sale, e.status, e.n)
           /\ e.kind = "checkout" => e = P!Checkout(e.sale) /\ e.n = 0
           /\ e.kind = "refund" => e = P!Refund(e.sale) /\ e.n = 0
<1>1. CASE e \in SaleEvents
  BY <1>1 DEF SaleEvents, P!Checkout, P!Refund
<1>2. CASE e \in ChangeEvents
  BY <1>2, SalesAssumption DEF ChangeEvents, P!Change, P!Subscription
<1> QED BY <1>1, <1>2 DEF P!Event, SaleEvents, ChangeEvents

\* A request in progress: its event and its next statement.
LEMMA WorkerFacts ==
    ASSUME P!TypeOK, NEW w \in Worker, worker[w] # P!Idle
    PROVE  /\ worker[w].event \in P!Event /\ worker[w] = [event |-> worker[w].event, at |-> worker[w].at]
           /\ \A x : LET v == [worker[w] EXCEPT !.at = x] IN v = [event |-> worker[w].event, at |-> x]
  BY DEF P!TypeOK

RowType == [there : BOOLEAN, status : P!Status \cup {"none", "refunded"}, session : BOOLEAN]

\* What the statements of the webhook write in a row.
LEMMA RowFacts ==
    ASSUME NEW r \in RowType
    PROVE  /\ \A x \in P!Status \cup {"refunded"} :
                  LET q == [r EXCEPT !.status = x] IN
                  q \in RowType /\ q.status = x /\ q.there = r.there /\ q.session = r.session
           /\ \A b \in BOOLEAN :
                  LET q == [r EXCEPT !.session = b] IN
                  q \in RowType /\ q.status = r.status /\ q.there = r.there /\ q.session = b
  BY DEF RowType

\* A row r and the row q that an answered event leaves of it, its handler being at
\* statement `at`.
Result(e, at, r, q) ==
    \/ /\ e.kind = "checkout"
       /\ \/ r.there /\ q = r
          \/ at = "fill" /\ q.session /\ q.status = r.status /\ q.there = r.there
          \/ ~r.there /\ q.there /\ q.session /\ q.status = "active"
    \/ /\ e.kind = "subscription"
       /\ \/ q.there /\ q.status = e.status
          \/ at = "insert" /\ r.there /\ q = r
    \/ /\ e.kind = "refund"
       /\ \/ r.there /\ q.there /\ q.status = "refunded"
          \/ ~r.there /\ q = r

\* A statement of a handler leaves it at its next one, or ends it: with an answer,
\* after which Stripe may tell the event again, or without.
GoesOn(w, e) ==
    \E x \in {"fill", "insert"} :
        /\ worker' = [worker EXCEPT ![w] = [event |-> e, at |-> x]] /\ UNCHANGED <<pending, acked, row, repeats>>
        /\ x = "fill" <=> row[e.sale].there
Ends500(w) == worker' = [worker EXCEPT ![w] = P!Idle] /\ UNCHANGED <<pending, acked, row>>
Ends200(w, e) ==
    /\ worker' = [worker EXCEPT ![w] = P!Idle] /\ acked' = acked \cup {e}
    /\ pending' = pending \/ pending' = pending \ {e}
    /\ \E q \in RowType : /\ row' = [row EXCEPT ![e.sale] = q] /\ Result(e, worker[w].at, row[e.sale], q)
                          /\ q.there <=> q.status # "none"

\* Each statement of a handler is one of the three, and tells Stripe's side nothing.
LEMMA HandleDoes ==
    ASSUME P!TypeOK, NEW w \in Worker, P!Handle(w), NEW e, e = worker[w].event
    PROVE  /\ worker[w] # P!Idle /\ UNCHANGED P!sales
           /\ repeats' = repeats \/ (repeats < MaxRepeats /\ repeats' = repeats + 1)
           /\ GoesOn(w, e) \/ Ends500(w) \/ Ends200(w, e)
<1>1. /\ worker[w] # P!Idle /\ UNCHANGED P!sales
      /\ repeats' = repeats \/ (repeats < MaxRepeats /\ repeats' = repeats + 1)
  BY DEF P!Handle, P!CheckoutReads, P!CheckoutFills, P!CheckoutInserts, P!SubscriptionUpdates, P!SubscriptionInserts,
         P!RefundUpdates, P!At, P!Answer, P!GoTo, P!Throw
<1> SUFFICES GoesOn(w, e) \/ Ends500(w) \/ Ends200(w, e)
  BY <1>1
<1>2. e \in P!Event /\ e.sale \in Sold /\ worker[w] = [event |-> e, at |-> worker[w].at]
  BY <1>1, WorkerFacts, EventFacts
<1>3. row \in [Sold -> RowType] /\ row[e.sale] \in RowType /\ (row[e.sale].there <=> row[e.sale].status # "none")
  BY <1>2 DEF P!TypeOK, RowType
<1>4. ASSUME NEW q \in RowType, row' = [row EXCEPT ![e.sale] = q], P!Answer(w), Result(e, worker[w].at, row[e.sale], q),
             q.there <=> q.status # "none"
      PROVE  Ends200(w, e)
  BY <1>4 DEF P!Answer, Ends200
<1>5. ASSUME UNCHANGED row, P!Answer(w), Result(e, worker[w].at, row[e.sale], row[e.sale])
      PROVE  Ends200(w, e)
  <2>1. row' = [row EXCEPT ![e.sale] = row[e.sale]]
    BY <1>3, <1>5
  <2> QED BY <1>3, <1>4, <1>5, <2>1
<1>6. ASSUME NEW x \in {"fill", "insert"}, P!GoTo(w, x), UNCHANGED row, x = "fill" <=> row[e.sale].there
      PROVE  GoesOn(w, e)
  <2>1. worker' = [worker EXCEPT ![w] = [worker[w] EXCEPT !.at = x]]
    BY <1>6 DEF P!GoTo
  <2>2. [worker[w] EXCEPT !.at = x] = [event |-> e, at |-> x]
    BY <1>1, WorkerFacts
  <2> QED BY <1>6, <2>1, <2>2 DEF GoesOn, P!GoTo
<1>7. CASE P!CheckoutReads(w)
  BY <1>3, <1>5, <1>6, <1>7 DEF P!CheckoutReads, P!At, Result
<1>8. CASE P!CheckoutFills(w)
  <2>1. row' = [row EXCEPT ![e.sale] = [row[e.sale] EXCEPT !.session = TRUE]] /\ P!Answer(w)
    BY <1>8 DEF P!CheckoutFills, P!Filled
  <2>2. PICK q \in RowType : q = [row[e.sale] EXCEPT !.session = TRUE] /\ q.status = row[e.sale].status
                             /\ q.there = row[e.sale].there /\ q.session = TRUE
    BY <1>3, RowFacts
  <2>3. Result(e, worker[w].at, row[e.sale], q)
    BY <1>8, <2>2 DEF Result, P!CheckoutFills, P!At
  <2> QED BY <1>3, <1>4, <2>1, <2>2, <2>3
<1>9. CASE P!CheckoutInserts(w)
  <2>1. CASE row[e.sale].there /\ ~P!SubscriptionConflict(row[e.sale]) /\ UNCHANGED row /\ P!Answer(w)
    BY <1>5, <1>9, <2>1 DEF Result, P!CheckoutInserts, P!At
  <2>2. CASE UNCHANGED row /\ P!Throw(w)
    BY <2>2 DEF Ends500, P!Throw
  <2>3. CASE ~row[e.sale].there /\ P!Answer(w)
             /\ row' = [row EXCEPT ![e.sale] = [there |-> TRUE, status |-> "active", session |-> TRUE]]
    <3>1. PICK q : q = [there |-> TRUE, status |-> "active", session |-> TRUE]
      OBVIOUS
    <3>2. q \in RowType /\ q.there /\ q.session /\ q.status = "active"
      BY <3>1 DEF RowType, P!Status
    <3>3. Result(e, worker[w].at, row[e.sale], q)
      BY <1>9, <2>3, <3>2 DEF Result, P!CheckoutInserts, P!At
    <3> QED BY <1>4, <2>3, <3>1, <3>2, <3>3
  <2> QED BY <1>9, <2>1, <2>2, <2>3 DEF P!CheckoutInserts
<1>10. ASSUME P!SubscriptionUpdates(w) \/ P!SubscriptionInserts(w)
       PROVE  GoesOn(w, e) \/ Ends200(w, e)
  <2>1. e.kind = "subscription" /\ e.status \in P!Status
    BY <1>2, <1>10, EventFacts DEF P!SubscriptionUpdates, P!SubscriptionInserts, P!At
  <2>2. CASE ~row[e.sale].there /\ UNCHANGED row /\ P!GoTo(w, "insert")
    BY <1>6, <2>2
  <2>3. CASE row[e.sale].there /\ row' = [row EXCEPT ![e.sale] = [row[e.sale] EXCEPT !.status = e.status]] /\ P!Answer(w)
    <3>1. PICK q \in RowType : q = [row[e.sale] EXCEPT !.status = e.status] /\ q.status = e.status
                               /\ q.there = row[e.sale].there
      <4> DEFINE v == [row[e.sale] EXCEPT !.status = e.status]
      <4>1. v \in RowType /\ v.status = e.status /\ v.there = row[e.sale].there
        BY <1>3, <2>1, RowFacts
      <4> HIDE DEF v
      <4> QED BY <4>1 DEF v
    <3>2. Result(e, worker[w].at, row[e.sale], q) /\ q.status # "none"
      BY <2>1, <2>3, <3>1 DEF Result, P!Status
    <3> QED BY <1>4, <2>3, <3>1, <3>2
  <2>4. CASE worker[w].at = "insert" /\ row[e.sale].there /\ UNCHANGED row /\ P!Answer(w)
    <3>1. Result(e, worker[w].at, row[e.sale], row[e.sale])
      BY <2>1, <2>4 DEF Result
    <3> QED BY <1>5, <2>4, <3>1
  <2>5. CASE row' = [row EXCEPT ![e.sale] = P!Created(e)] /\ P!Answer(w)
    <3>1. PICK q : q = [there |-> TRUE, status |-> e.status, session |-> FALSE]
      OBVIOUS
    <3>2. q \in RowType /\ q.there /\ q.status = e.status /\ q.status # "none"
      BY <2>1, <3>1 DEF RowType, P!Status
    <3>3. Result(e, worker[w].at, row[e.sale], q)
      BY <2>1, <3>2 DEF Result
    <3> QED BY <1>4, <2>5, <3>1, <3>2, <3>3 DEF P!Created
  <2> QED BY <1>10, <2>2, <2>3, <2>4, <2>5 DEF P!SubscriptionUpdates, P!SubscriptionInserts, P!Updated, P!At
<1>11. ASSUME P!RefundUpdates(w) PROVE Ends200(w, e)
  <2>1. e.kind = "refund" /\ P!Answer(w)
    BY <1>11 DEF P!RefundUpdates, P!At
  <2>2. CASE ~row[e.sale].there
    <3>1. Result(e, worker[w].at, row[e.sale], row[e.sale]) /\ UNCHANGED row
      BY <1>11, <2>1, <2>2 DEF Result, P!RefundUpdates
    <3> QED BY <1>5, <2>1, <3>1
  <2>3. CASE row[e.sale].there
    <3>1. row' = [row EXCEPT ![e.sale] = [row[e.sale] EXCEPT !.status = "refunded"]]
      BY <1>11, <2>3 DEF P!RefundUpdates
    <3>2. PICK q \in RowType : q = [row[e.sale] EXCEPT !.status = "refunded"] /\ q.status = "refunded"
                               /\ q.there = row[e.sale].there
      <4> DEFINE v == [row[e.sale] EXCEPT !.status = "refunded"]
      <4>1. v \in RowType /\ v.status = "refunded" /\ v.there = row[e.sale].there
        BY <1>3, RowFacts
      <4> HIDE DEF v
      <4> QED BY <4>1 DEF v
    <3>3. Result(e, worker[w].at, row[e.sale], q)
      BY <2>1, <2>3, <3>2 DEF Result
    <3> QED BY <1>4, <2>1, <2>3, <3>1, <3>2, <3>3
  <2> QED BY <2>2, <2>3
<1> QED BY <1>7, <1>8, <1>9, <1>10, <1>11 DEF P!Handle

\* Stripe's side and the checkout: events come into `pending` as they happen.
SaleSteps(s) ==
    \/ P!CreateProductCheckout(s) \/ P!CreateCustomer(s) \/ P!SaveCustomer(s) \/ P!CreateSession(s)
    \/ P!Pay(s) \/ P!RefundCharge(s) \/ \E status \in P!Status : P!SubscriptionChanges(s, status)

\* Every step keeps the types, and a row's status for as long as it is there.
LEMMA SaleTypes ==
    ASSUME P!TypeOK, [P!Next]_(P!vars)
    PROVE  P!TypeOK'
<1>1. CASE mode' # mode
  BY <1>1 DEF P!Next, P!vars, P!CreateProductCheckout, P!CreateCustomer, P!SaveCustomer, P!CreateSession, P!Pay,
         P!RefundCharge, P!SubscriptionChanges, P!Handle, P!CheckoutReads, P!CheckoutFills, P!CheckoutInserts,
         P!SubscriptionUpdates, P!SubscriptionInserts, P!RefundUpdates, P!Answer, P!GoTo, P!Throw, P!RequestFails,
         P!Deliver, P!setting, P!sales
<1>2. CASE mode' = mode
  <2>1. P!Subscription' = P!Subscription
    BY <1>2 DEF P!Subscription
  <2>2. P!Event' = P!Event
    BY <2>1 DEF P!Event
  <2>3. ASSUME NEW s \in Sold, SaleSteps(s) PROVE P!TypeOK'
    <3>1. UNCHANGED <<P!setting, acked, row, worker, repeats>>
      BY <2>3 DEF SaleSteps, P!CreateProductCheckout, P!CreateCustomer, P!SaveCustomer, P!CreateSession, P!Pay,
                  P!RefundCharge, P!SubscriptionChanges
    <3>2. /\ checkout' \in [Sold -> {"none", "create", "save", "session", "open", "paid", "refunded"}]
          /\ customer' \in Sold \cup {None} /\ customers' \in Nat
      BY <2>3 DEF P!TypeOK, SaleSteps, P!CreateProductCheckout, P!CreateCustomer, P!SaveCustomer, P!CreateSession,
                  P!Pay, P!RefundCharge, P!SubscriptionChanges
    <3>3. /\ stripe' \in [Sold -> [status : P!Status \cup {"none"}, changes : 0 .. MaxChanges]] /\ pending' \subseteq P!Event
      <4>1. CASE UNCHANGED <<stripe, pending>>
        BY <4>1 DEF P!TypeOK
      <4>2. CASE P!Pay(s) \/ P!RefundCharge(s)
        <5>1. P!Checkout(s) \in P!Event /\ P!Refund(s) \in P!Event
          BY DEF P!Checkout, P!Refund, P!Event
        <5> QED BY <4>2, <5>1 DEF P!TypeOK, P!Pay, P!RefundCharge
      <4>3. ASSUME NEW status \in P!Status, P!SubscriptionChanges(s, status)
            PROVE  /\ stripe' \in [Sold -> [status : P!Status \cup {"none"}, changes : 0 .. MaxChanges]]
                   /\ pending' \subseteq P!Event
        <5>1. stripe[s].changes \in Nat /\ stripe[s].changes + 1 \in 1 .. MaxChanges
          BY <4>3, SalesAssumption DEF P!TypeOK, P!SubscriptionChanges
        <5>2. stripe' = [stripe EXCEPT ![s] = [status |-> status, changes |-> stripe[s].changes + 1]]
              /\ pending' = pending \cup {P!Change(s, status, stripe[s].changes + 1)} /\ s \in P!Subscription
          BY <4>3 DEF P!SubscriptionChanges
        <5>3. P!Change(s, status, stripe[s].changes + 1) \in P!Event
          BY <5>1, <5>2 DEF P!Change, P!Event
        <5> QED BY <5>1, <5>2, <5>3 DEF P!TypeOK
      <4> QED BY <2>3, <4>1, <4>2, <4>3 DEF SaleSteps, P!CreateProductCheckout, P!CreateCustomer, P!SaveCustomer,
                 P!CreateSession
    <3> QED BY <2>2, <3>1, <3>2, <3>3 DEF P!TypeOK, P!setting
  <2>4. ASSUME NEW w \in Worker, NEW e \in pending, P!Deliver(w, e) PROVE P!TypeOK'
    <3>1. /\ worker' = [worker EXCEPT ![w] = [event |-> e, at |-> P!FirstStep(e)]]
          /\ UNCHANGED <<P!sales, pending, acked, row, repeats>>
      BY <2>4 DEF P!Deliver
    <3>2. e \in P!Event /\ P!FirstStep(e) \in {"read", "fill", "insert", "update", "refund"}
      BY EventFacts DEF P!FirstStep, P!TypeOK
    <3>3. worker' \in [Worker -> {P!Idle} \cup [event : P!Event, at : {"read", "fill", "insert", "update", "refund"}]]
      BY <3>1, <3>2 DEF P!TypeOK
    <3> QED BY <2>2, <3>1, <3>3 DEF P!TypeOK, P!sales
  <2>5. ASSUME NEW w \in Worker, P!RequestFails(w) PROVE P!TypeOK'
    BY <2>2, <2>5, SalesAssumption DEF P!TypeOK, P!RequestFails, P!sales
  <2>6. ASSUME NEW w \in Worker, P!Handle(w) PROVE P!TypeOK'
    <3>1. PICK e : e = worker[w].event
      OBVIOUS
    <3>2. /\ worker[w] # P!Idle /\ UNCHANGED P!sales
          /\ repeats' = repeats \/ (repeats < MaxRepeats /\ repeats' = repeats + 1)
          /\ GoesOn(w, e) \/ Ends500(w) \/ Ends200(w, e)
      BY <2>6, <3>1, HandleDoes
    <3>3. repeats' \in 0 .. MaxRepeats
      BY <3>2, SalesAssumption DEF P!TypeOK
    <3>4. e \in P!Event /\ e.sale \in Sold
      BY <3>1, <3>2, WorkerFacts, EventFacts
    <3>5. worker' \in [Worker -> {P!Idle} \cup [event : P!Event, at : {"read", "fill", "insert", "update", "refund"}]]
      BY <3>2, <3>4 DEF P!TypeOK, GoesOn, Ends500, Ends200
    <3>6. pending' \subseteq P!Event /\ acked' \subseteq P!Event
      BY <3>2, <3>4 DEF P!TypeOK, GoesOn, Ends500, Ends200
    <3>7. row' \in [Sold -> RowType] /\ \A s \in Sold : row'[s].there <=> row'[s].status # "none"
      <4>1. row \in [Sold -> RowType] /\ \A s \in Sold : row[s].there <=> row[s].status # "none"
        BY DEF P!TypeOK, RowType
      <4>2. CASE UNCHANGED row
        BY <4>1, <4>2
      <4>3. CASE Ends200(w, e)
        BY <3>4, <4>1, <4>3 DEF Ends200
      <4> QED BY <3>2, <4>2, <4>3 DEF GoesOn, Ends500
    <3> QED BY <2>2, <3>2, <3>3, <3>5, <3>6, <3>7 DEF P!TypeOK, P!sales, RowType
  <2>7. CASE UNCHANGED P!vars
    BY <2>2, <2>7 DEF P!TypeOK, P!vars
  <2> QED BY <2>3, <2>4, <2>5, <2>6, <2>7 DEF P!Next, SaleSteps
<1> QED BY <1>1, <1>2

Known(e) == e.n <= stripe[e.sale].changes /\ checkout[e.sale] \in {"paid", "refunded"}
Earned(s) ==
    row[s].status \in {"active", "past_due"} =>
        \/ checkout[s] \in {"paid", "refunded"} /\ row[s].session
        \/ \E e \in P!Event : e.sale = s /\ e.status = row[s].status /\ e.n <= stripe[s].changes /\ e \in acked

\* The webhook is told of what has happened only, and a row's status comes from it.
EarnedInv ==
    /\ \A e \in pending : Known(e)
    /\ \A w \in Worker : worker[w] # P!Idle => Known(worker[w].event)
    /\ \A s \in Sold : Earned(s)

Before(f, e) == f.sale = e.sale /\ f # e /\ (f.n < e.n \/ (e.kind = "refund" /\ f.kind = "checkout"))
Latest(s) == P!Change(s, stripe[s].status, stripe[s].changes)
Quiet(s) == \A e \in pending : e.sale # s

\* The row has what Stripe has, or the event that tells it is still pending.
SaleInOrder(s) ==
    /\ stripe[s].changes # 0 => /\ s \in P!Subscription /\ checkout[s] \in {"paid", "refunded"}
                                /\ Latest(s) \in pending \/ (Quiet(s) /\ row[s].status = stripe[s].status)
    /\ checkout[s] = "refunded" => /\ s \notin P!Subscription
                                   /\ P!Refund(s) \in pending \/ (Quiet(s) /\ row[s].status = "refunded")
    /\ s \notin P!Subscription /\ checkout[s] \in {"paid", "refunded"} => P!Checkout(s) \in pending \/ row[s].there

\* A request handles an event that is pending and has none before it; nobody else
\* works on its sale, so what it read of the row is still so.
WorkerInOrder(w) ==
    worker[w] # P!Idle =>
        /\ worker[w].event \in pending /\ \A f \in pending : ~Before(f, worker[w].event)
        /\ \A v \in Worker : worker[v] # P!Idle /\ worker[v].event.sale = worker[w].event.sale => v = w
        /\ worker[w].event.kind = "subscription" /\ worker[w].at = "insert" => ~row[worker[w].event.sale].there
        /\ worker[w].at = "fill" => row[worker[w].event.sale].there

OrderInv ==
    oneByOne => /\ \A w \in Worker : WorkerInOrder(w)
                /\ \A e, f \in pending : e.kind = "subscription" /\ e.sale = f.sale /\ e.n = f.n => e = f
                /\ \A s \in Sold : SaleInOrder(s)

\* What a step leaves of the past: the kind of a sale, what was paid, reported and
\* answered.
LEMMA PastStays ==
    ASSUME P!TypeOK, [P!Next]_(P!vars)
    PROVE  /\ oneByOne' = oneByOne /\ P!Subscription' = P!Subscription /\ P!Event' = P!Event /\ acked \subseteq acked'
           /\ \A s \in Sold : /\ stripe[s].changes \in Nat /\ stripe'[s].changes \in Nat
                              /\ stripe[s].changes <= stripe'[s].changes
                              /\ checkout[s] \in {"paid", "refunded"} => checkout'[s] \in {"paid", "refunded"}
<1>0. \A s \in Sold : stripe[s].changes \in Nat
  BY SalesAssumption DEF P!TypeOK
<1>1. oneByOne' = oneByOne /\ mode' = mode /\ acked \subseteq acked'
  BY DEF P!Next, P!vars, P!CreateProductCheckout, P!CreateCustomer, P!SaveCustomer, P!CreateSession, P!Pay,
         P!RefundCharge, P!SubscriptionChanges, P!Handle, P!CheckoutReads, P!CheckoutFills, P!CheckoutInserts,
         P!SubscriptionUpdates, P!SubscriptionInserts, P!RefundUpdates, P!Answer, P!GoTo, P!Throw, P!RequestFails,
         P!Deliver, P!setting, P!sales
<1>2. P!Subscription' = P!Subscription
  BY <1>1 DEF P!Subscription
<1>3. P!Event' = P!Event
  BY <1>2 DEF P!Event
<1>4. \A s \in Sold : checkout[s] \in {"paid", "refunded"} => checkout'[s] \in {"paid", "refunded"}
  <2>1. ASSUME NEW t \in Sold, SaleSteps(t)
        PROVE  \A s \in Sold : checkout[s] \in {"paid", "refunded"} => checkout'[s] \in {"paid", "refunded"}
    BY <2>1 DEF P!TypeOK, SaleSteps, P!CreateProductCheckout, P!CreateCustomer, P!SaveCustomer, P!CreateSession, P!Pay,
           P!RefundCharge, P!SubscriptionChanges
  <2>2. CASE checkout' = checkout
    BY <2>2
  <2> QED BY <2>1, <2>2 DEF SaleSteps, P!Next, P!vars, P!Handle, P!CheckoutReads, P!CheckoutFills, P!CheckoutInserts,
         P!SubscriptionUpdates, P!SubscriptionInserts, P!RefundUpdates, P!Answer, P!GoTo, P!Throw, P!RequestFails,
         P!Deliver, P!sales
<1>5. \A s \in Sold : stripe'[s].changes \in Nat /\ stripe[s].changes <= stripe'[s].changes
  <2>1. CASE stripe' = stripe
    BY <1>0, <2>1
  <2>2. ASSUME NEW t \in Sold, NEW status \in P!Status, P!SubscriptionChanges(t, status)
        PROVE  \A s \in Sold : stripe'[s].changes \in Nat /\ stripe[s].changes <= stripe'[s].changes
    <3>1. stripe' = [stripe EXCEPT ![t] = [status |-> status, changes |-> stripe[t].changes + 1]]
      BY <2>2 DEF P!SubscriptionChanges
    <3>2. stripe'[t].changes = stripe[t].changes + 1 /\ \A s \in Sold : s # t => stripe'[s] = stripe[s]
      BY <3>1 DEF P!TypeOK
    <3> QED BY <1>0, <3>2
  <2> QED BY <2>1, <2>2 DEF P!Next, P!vars, P!CreateProductCheckout, P!CreateCustomer, P!SaveCustomer, P!CreateSession,
         P!Pay, P!RefundCharge, P!Handle, P!CheckoutReads, P!CheckoutFills, P!CheckoutInserts,
         P!SubscriptionUpdates, P!SubscriptionInserts, P!RefundUpdates, P!Answer, P!GoTo, P!Throw, P!RequestFails,
         P!Deliver, P!sales
<1> QED BY <1>0, <1>1, <1>2, <1>3, <1>4, <1>5

\* Stripe tells what happened, and the handlers write what they are told.
LEMMA EarnedStep ==
    ASSUME P!TypeOK, EarnedInv, [P!Next]_(P!vars)
    PROVE  EarnedInv'
<1>1. /\ P!Event' = P!Event /\ acked \subseteq acked'
      /\ \A s \in Sold : /\ stripe[s].changes \in Nat /\ stripe'[s].changes \in Nat
                         /\ stripe[s].changes <= stripe'[s].changes
                         /\ checkout[s] \in {"paid", "refunded"} => checkout'[s] \in {"paid", "refunded"}
  BY PastStays
<1>2. ASSUME NEW e \in P!Event, Known(e) PROVE Known(e)'
  <2>1. e.sale \in Sold /\ e.n \in Nat
    BY EventFacts
  <2> QED BY <1>1, <1>2, <2>1 DEF Known
<1>3. ASSUME NEW s \in Sold, row'[s] = row[s] PROVE Earned(s)'
  <2>1. Earned(s)
    BY DEF EarnedInv
  <2>2. CASE \E e \in P!Event : e.sale = s /\ e.status = row[s].status /\ e.n <= stripe[s].changes /\ e \in acked
    <3>1. PICK e \in P!Event : e.sale = s /\ e.status = row[s].status /\ e.n <= stripe[s].changes /\ e \in acked
      BY <2>2
    <3>2. e.n \in Nat
      BY EventFacts
    <3>3. e.n <= stripe'[s].changes
      BY <1>1, <3>1, <3>2
    <3> QED BY <1>1, <1>3, <3>1, <3>3 DEF Earned
  <2> QED BY <1>1, <1>3, <2>1, <2>2 DEF Earned
<1>4. pending \subseteq P!Event /\ \A w \in Worker : worker[w] # P!Idle => worker[w].event \in P!Event
  BY WorkerFacts DEF P!TypeOK
<1>5. ASSUME UNCHANGED <<row, worker>>, \A e \in pending' : e \in pending \/ Known(e)' PROVE EarnedInv'
  BY <1>2, <1>3, <1>4, <1>5 DEF EarnedInv, P!Idle
<1>6. ASSUME NEW s \in Sold, SaleSteps(s) PROVE EarnedInv'
  <2>1. UNCHANGED <<row, worker>>
    BY <1>6 DEF SaleSteps, P!CreateProductCheckout, P!CreateCustomer, P!SaveCustomer, P!CreateSession, P!Pay,
                P!RefundCharge, P!SubscriptionChanges
  <2>2. CASE pending' = pending
    BY <1>5, <2>1, <2>2
  <2>3. CASE P!Pay(s) \/ P!RefundCharge(s)
    <3>1. checkout'[s] \in {"paid", "refunded"} /\ pending' \subseteq pending \cup {P!Checkout(s), P!Refund(s)}
      BY <2>3 DEF P!Pay, P!RefundCharge, P!TypeOK
    <3>2. Known(P!Checkout(s))' /\ Known(P!Refund(s))'
      BY <1>1, <3>1 DEF Known, P!Checkout, P!Refund
    <3>3. \A e \in pending' : e \in pending \/ Known(e)'
      BY <3>1, <3>2
    <3> QED BY <1>5, <2>1, <3>3
  <2>4. ASSUME NEW status \in P!Status, P!SubscriptionChanges(s, status) PROVE EarnedInv'
    <3>1. /\ checkout[s] = "paid" /\ pending' = pending \cup {P!Change(s, status, stripe[s].changes + 1)}
          /\ stripe' = [stripe EXCEPT ![s] = [status |-> status, changes |-> stripe[s].changes + 1]]
      BY <2>4 DEF P!SubscriptionChanges
    <3>2. stripe'[s].changes = stripe[s].changes + 1 /\ checkout'[s] \in {"paid", "refunded"}
      BY <1>1, <3>1 DEF P!TypeOK
    <3>3. PICK e : e = P!Change(s, status, stripe[s].changes + 1)
      OBVIOUS
    <3>4. e.sale = s /\ e.n = stripe[s].changes + 1
      BY <3>3 DEF P!Change
    <3>5. Known(e)'
      BY <1>1, <3>2, <3>4 DEF Known
    <3>6. \A f \in pending' : f \in pending \/ Known(f)'
      BY <3>1, <3>3, <3>5
    <3> QED BY <1>5, <2>1, <3>6
  <2> QED BY <1>6, <2>2, <2>3, <2>4 DEF SaleSteps, P!CreateProductCheckout, P!CreateCustomer, P!SaveCustomer,
             P!CreateSession
<1>7. ASSUME NEW w \in Worker, NEW e \in pending, P!Deliver(w, e) PROVE EarnedInv'
  <2>1. /\ worker' = [worker EXCEPT ![w] = [event |-> e, at |-> P!FirstStep(e)]] /\ UNCHANGED <<row, pending>>
    BY <1>7 DEF P!Deliver
  <2>2. worker'[w].event = e /\ \A v \in Worker : v # w => worker'[v] = worker[v]
    BY <2>1 DEF P!TypeOK
  <2> QED BY <1>2, <1>3, <1>4, <2>1, <2>2 DEF EarnedInv, P!Idle
<1>8. ASSUME NEW w \in Worker, P!RequestFails(w) PROVE EarnedInv'
  <2>1. worker' = [worker EXCEPT ![w] = P!Idle] /\ UNCHANGED <<row, pending>>
    BY <1>8 DEF P!RequestFails
  <2>2. worker'[w] = P!Idle /\ \A v \in Worker : v # w => worker'[v] = worker[v]
    BY <2>1 DEF P!TypeOK
  <2> QED BY <1>2, <1>3, <1>4, <2>1, <2>2 DEF EarnedInv, P!Idle
<1>9. ASSUME NEW w \in Worker, P!Handle(w) PROVE EarnedInv'
  <2>1. PICK e : e = worker[w].event
    OBVIOUS
  <2>2. worker[w] # P!Idle /\ UNCHANGED P!sales /\ (GoesOn(w, e) \/ Ends500(w) \/ Ends200(w, e))
    BY <1>9, <2>1, HandleDoes
  <2>3. e \in P!Event /\ Known(e) /\ e.sale \in Sold
    BY <1>4, <2>1, <2>2, EventFacts DEF EarnedInv
  <2>4. pending' \subseteq pending
    BY <2>2 DEF GoesOn, Ends500, Ends200
  <2>5. /\ worker'[w] = P!Idle \/ worker'[w].event = e
        /\ \A v \in Worker : v # w => worker'[v] = worker[v]
    BY <2>2 DEF P!TypeOK, GoesOn, Ends500, Ends200
  <2>6. ASSUME NEW s \in Sold PROVE Earned(s)'
    <3>1. CASE row'[s] = row[s]
      BY <1>3, <3>1
    <3>2. CASE row'[s] # row[s]
      <4>1. PICK q \in RowType : /\ row' = [row EXCEPT ![e.sale] = q] /\ Result(e, worker[w].at, row[e.sale], q)
                                 /\ e \in acked'
        BY <2>2, <3>2 DEF GoesOn, Ends500, Ends200
      <4>2. s = e.sale /\ row'[s] = q /\ row[s] # q
        BY <3>2, <4>1 DEF P!TypeOK
      <4>3. e.n <= stripe'[s].changes /\ checkout'[s] \in {"paid", "refunded"}
        BY <1>2, <2>3, <4>2 DEF Known
      <4>4. CASE e.kind = "subscription" /\ q.status = e.status
        BY <1>1, <2>3, <4>1, <4>2, <4>3, <4>4 DEF Earned
      <4>5. CASE q.session \/ q.status = "refunded"
        BY <4>2, <4>3, <4>5 DEF Earned
      <4> QED BY <4>1, <4>2, <4>4, <4>5 DEF Result
    <3> QED BY <3>1, <3>2
  <2> QED BY <1>2, <1>4, <2>3, <2>4, <2>5, <2>6 DEF EarnedInv, P!Idle
<1>10. CASE UNCHANGED P!vars
  BY <1>5, <1>10 DEF P!vars
<1> QED BY <1>6, <1>7, <1>8, <1>9, <1>10 DEF P!Next, SaleSteps

\* A sale that a step leaves alone, its events included, stays in order.
LEMMA SaleLeftAlone ==
    ASSUME NEW t, SaleInOrder(t), P!Subscription' = P!Subscription, stripe'[t] = stripe[t], row'[t] = row[t],
           checkout'[t] = checkout[t] \/ {checkout[t], checkout'[t]} \cap {"paid", "refunded"} = {},
           \A e : e.sale = t => (e \in pending' <=> e \in pending)
    PROVE  SaleInOrder(t)'
<1>1. Latest(t).sale = t /\ P!Refund(t).sale = t /\ P!Checkout(t).sale = t
  BY DEF Latest, P!Change, P!Refund, P!Checkout
<1>2. Latest(t)' = Latest(t) /\ (Quiet(t)' <=> Quiet(t)) /\ P!Refund(t)' = P!Refund(t) /\ P!Checkout(t)' = P!Checkout(t)
  BY DEF Latest, P!Change, Quiet, P!Refund, P!Checkout
<1> QED BY <1>1, <1>2 DEF SaleInOrder

\* A new event is after all events of its sale that are still pending.
LEMMA OrderOfNews ==
    ASSUME P!TypeOK, EarnedInv, OrderInv, oneByOne, oneByOne', P!Subscription' = P!Subscription,
           NEW s \in Sold, SaleSteps(s)
    PROVE  OrderInv'
<1>1. UNCHANGED <<row, worker>> /\ \A t \in Sold : t # s => stripe'[t] = stripe[t] /\ checkout'[t] = checkout[t]
  BY DEF P!TypeOK, SaleSteps, P!CreateProductCheckout, P!CreateCustomer, P!SaveCustomer, P!CreateSession, P!Pay,
         P!RefundCharge, P!SubscriptionChanges
<1>2. ASSUME NEW g, g.sale = s, pending' = pending \cup {g}, \A e \in pending : ~Before(g, e),
             \A e \in pending : (e.kind = "subscription" \/ g.kind = "subscription") /\ e.sale = g.sale /\ e.n = g.n => e = g,
             SaleInOrder(s)'
      PROVE  OrderInv'
  <2>1. ASSUME NEW t \in Sold PROVE SaleInOrder(t)'
    <3>1. CASE t = s
      BY <1>2, <3>1
    <3>2. CASE t # s
      <4>1. SaleInOrder(t) /\ \A e : e.sale = t => (e \in pending' <=> e \in pending)
        BY <1>2, <3>2 DEF OrderInv
      <4> QED BY <1>1, <3>2, <4>1, SaleLeftAlone
    <3> QED BY <3>1, <3>2
  <2>2. ASSUME NEW w \in Worker PROVE WorkerInOrder(w)'
    <3>1. WorkerInOrder(w)
      BY DEF OrderInv
    <3> QED BY <1>1, <1>2, <3>1 DEF WorkerInOrder, Before, P!Idle
  <2>3. \A e, f \in pending' : e.kind = "subscription" /\ e.sale = f.sale /\ e.n = f.n => e = f
    BY <1>2 DEF OrderInv
  <2> QED BY <2>1, <2>2, <2>3 DEF OrderInv
<1>3. pending \subseteq P!Event /\ SaleInOrder(s) /\ stripe[s].changes \in Nat /\ \A e \in pending : Known(e)
  BY SalesAssumption DEF P!TypeOK, OrderInv, EarnedInv
<1>4. \A e \in pending : e.n \in Nat /\ (e.kind = "subscription" => e.n # 0 /\ e.sale \in P!Subscription)
                         /\ (e.kind # "subscription" => e.n = 0)
  BY <1>3, EventFacts
<1>5. CASE P!CreateProductCheckout(s) \/ P!CreateCustomer(s) \/ P!SaveCustomer(s) \/ P!CreateSession(s)
  <2>1. /\ UNCHANGED <<stripe, pending>>
        /\ {checkout[s], checkout'[s]} \cap {"paid", "refunded"} = {}
    BY <1>5 DEF P!TypeOK, P!CreateProductCheckout, P!CreateCustomer, P!SaveCustomer, P!CreateSession
  <2>2. ASSUME NEW t \in Sold PROVE SaleInOrder(t)'
    <3>1. SaleInOrder(t)
      BY DEF OrderInv
    <3> QED BY <1>1, <2>1, <3>1, SaleLeftAlone
  <2>3. \A w \in Worker : WorkerInOrder(w)'
    BY <1>1, <2>1 DEF OrderInv, WorkerInOrder, Before, P!Idle
  <2> QED BY <2>1, <2>2, <2>3 DEF OrderInv
<1>6. CASE P!Pay(s)
  <2>1. /\ checkout[s] = "open" /\ checkout'[s] = "paid" /\ stripe' = stripe
        /\ pending' = pending \cup {P!Checkout(s)}
    BY <1>6 DEF P!Pay, P!TypeOK
  <2>2. stripe[s].changes = 0 /\ \A e \in pending : e.sale # s
    BY <1>3, <2>1 DEF SaleInOrder, Known
  <2>3. SaleInOrder(s)'
    BY <2>1, <2>2 DEF SaleInOrder, P!Checkout
  <2>4. P!Checkout(s).sale = s
    BY DEF P!Checkout
  <2> QED BY <1>2, <2>1, <2>2, <2>3, <2>4 DEF Before
<1>7. CASE P!RefundCharge(s)
  <2>1. /\ s \notin P!Subscription /\ checkout[s] = "paid" /\ checkout'[s] = "refunded" /\ stripe' = stripe
        /\ pending' = pending \cup {P!Refund(s)}
    BY <1>7 DEF P!RefundCharge, P!TypeOK
  <2>2. P!Refund(s).sale = s /\ P!Refund(s).n = 0 /\ P!Refund(s).kind = "refund"
    BY DEF P!Refund
  <2>3. SaleInOrder(s)'
    BY <1>1, <1>3, <2>1 DEF SaleInOrder, P!Refund, P!Checkout
  <2>4. \A e \in pending : e.sale = s => e.kind # "subscription" /\ e.n = 0
    BY <1>4, <2>1
  <2> QED BY <1>2, <2>1, <2>2, <2>3, <2>4 DEF Before
<1>8. ASSUME NEW status \in P!Status, P!SubscriptionChanges(s, status) PROVE OrderInv'
  <2>1. PICK g : g = P!Change(s, status, stripe[s].changes + 1)
    OBVIOUS
  <2>2. g.sale = s /\ g.n = stripe[s].changes + 1 /\ g.kind = "subscription"
    BY <2>1 DEF P!Change
  <2>3. /\ s \in P!Subscription /\ checkout[s] = "paid" /\ checkout' = checkout /\ pending' = pending \cup {g}
        /\ stripe' = [stripe EXCEPT ![s] = [status |-> status, changes |-> stripe[s].changes + 1]]
    BY <1>8, <2>1 DEF P!SubscriptionChanges
  <2>4. stripe'[s].status = status /\ stripe'[s].changes = stripe[s].changes + 1
    BY <2>3 DEF P!TypeOK
  <2>5. Latest(s)' = g
    BY <2>1, <2>4 DEF Latest, P!Change
  <2>6. SaleInOrder(s)'
    BY <2>3, <2>5 DEF SaleInOrder
  <2>7. \A e \in pending : e.sale = s => e.n < g.n
    BY <1>3, <1>4, <2>2 DEF Known
  <2>8. \A e \in pending : ~Before(g, e)
    BY <1>3, <1>4, <2>2, <2>7 DEF Before
  <2>9. \A e \in pending : e.sale = g.sale => e.n # g.n
    BY <1>3, <1>4, <2>2, <2>7
  <2> QED BY <1>2, <2>2, <2>3, <2>6, <2>8, <2>9
<1> QED BY <1>5, <1>6, <1>7, <1>8 DEF SaleSteps

\* An event is delivered after those before it, to one request only.
LEMMA OrderOfDelivery ==
    ASSUME P!TypeOK, OrderInv, oneByOne, oneByOne', P!Subscription' = P!Subscription,
           NEW w \in Worker, NEW e \in pending, P!Deliver(w, e)
    PROVE  OrderInv'
<1>1. /\ worker' = [worker EXCEPT ![w] = [event |-> e, at |-> P!FirstStep(e)]]
      /\ UNCHANGED <<stripe, checkout, pending, row>> /\ P!InTurn(e)
  BY DEF P!Deliver, P!sales
<1>2. /\ worker'[w] = [event |-> e, at |-> P!FirstStep(e)] /\ worker'[w].event = e /\ worker'[w].at = P!FirstStep(e)
      /\ \A v \in Worker : v # w => worker'[v] = worker[v]
  BY <1>1 DEF P!TypeOK
<1>3. /\ \A f \in pending : ~Before(f, e)
      /\ \A v \in Worker : worker[v] # P!Idle => worker[v].event # e /\ ~Before(worker[v].event, e)
  BY <1>1 DEF P!InTurn, Before
<1>4. \A f \in pending : f \in P!Event
  BY DEF P!TypeOK
<1>5. ASSUME NEW v \in Worker, worker[v] # P!Idle PROVE worker[v].event.sale # e.sale
  <2> DEFINE f == worker[v].event
  <2>1. f \in pending /\ ~Before(e, f) /\ ~Before(f, e) /\ f # e
    BY <1>3, <1>5 DEF OrderInv, WorkerInOrder
  <2>2. f.kind = "subscription" /\ e.sale = f.sale /\ e.n = f.n => f = e
    BY <2>1 DEF OrderInv
  <2>3. e.kind = "subscription" /\ e.sale = f.sale /\ e.n = f.n => f = e
    BY <2>1 DEF OrderInv
  <2> HIDE DEF f
  <2>4. f \in P!Event /\ e \in P!Event
    BY <1>4, <2>1
  <2>5. SUFFICES ASSUME f.sale = e.sale PROVE FALSE
    BY DEF f
  <2>6. f.n = e.n
    BY <2>1, <2>4, <2>5, EventFacts DEF Before
  <2>7. f.kind # "subscription" /\ e.kind # "subscription"
    BY <2>1, <2>2, <2>3, <2>5, <2>6
  <2>8. f = P!Checkout(f.sale) \/ f = P!Refund(f.sale)
    BY <2>4, <2>7, EventFacts
  <2>9. e = P!Checkout(e.sale) \/ e = P!Refund(e.sale)
    BY <2>4, <2>7, EventFacts
  <2>10. P!Checkout(e.sale).kind = "checkout" /\ P!Refund(e.sale).kind = "refund"
    BY DEF P!Checkout, P!Refund
  <2> QED BY <2>1, <2>5, <2>8, <2>9, <2>10 DEF Before
<1>6. e.kind = "subscription" => P!FirstStep(e) = "update"
  BY DEF P!FirstStep
<1>7. P!FirstStep(e) # "fill"
  BY <1>4, EventFacts DEF P!FirstStep
<1>8. WorkerInOrder(w)'
  BY <1>1, <1>2, <1>3, <1>5, <1>6, <1>7 DEF WorkerInOrder, Before, P!Idle
<1>9. ASSUME NEW v \in Worker, v # w PROVE WorkerInOrder(v)'
  <2>1. WorkerInOrder(v)
    BY DEF OrderInv
  <2> QED BY <1>1, <1>2, <1>5, <1>9, <2>1 DEF WorkerInOrder, Before, P!Idle
<1>10. ASSUME NEW t \in Sold PROVE SaleInOrder(t)'
  <2>1. SaleInOrder(t)
    BY DEF OrderInv
  <2> QED BY <1>1, <2>1, SaleLeftAlone
<1> QED BY <1>1, <1>8, <1>9, <1>10 DEF OrderInv

\* The request w takes a step with its event e: the row of e's sale stays if it is
\* there, and e leaves `pending` or stays.
LEMMA OrderOfHandling ==
    ASSUME P!TypeOK, EarnedInv, OrderInv, oneByOne, oneByOne', P!Subscription' = P!Subscription,
           NEW w \in Worker, NEW e, e = worker[w].event, worker[w] # P!Idle, UNCHANGED P!sales,
           GoesOn(w, e) \/ Ends500(w) \/ Ends200(w, e)
    PROVE  OrderInv'
<1>1. WorkerInOrder(w) /\ e \in pending /\ e \in P!Event /\ e.sale \in Sold /\ e.n \in Nat
  BY EventFacts DEF OrderInv, WorkerInOrder, P!TypeOK
<1>2. pending' = pending \/ pending' = pending \ {e}
  BY DEF GoesOn, Ends500, Ends200
<1>3. /\ \A t \in Sold : t # e.sale => row'[t] = row[t]
      /\ \A v \in Worker : v # w => worker'[v] = worker[v]
      /\ UNCHANGED <<stripe, checkout>>
  BY DEF P!TypeOK, GoesOn, Ends500, Ends200, P!sales
<1>4. \/ UNCHANGED <<pending, row>>
      \/ \E q \in RowType : row'[e.sale] = q /\ Result(e, worker[w].at, row[e.sale], q)
  BY <1>1 DEF P!TypeOK, GoesOn, Ends500, Ends200
<1>5. row[e.sale].there => row'[e.sale].there
  BY <1>4 DEF Result
<1>6. ASSUME NEW v \in Worker, v # w, worker[v] # P!Idle
      PROVE  worker[v].event.sale # e.sale /\ worker[v].event.sale \in Sold /\ worker[v].event \in pending'
  <2>1. worker[v].event \in pending /\ worker[v].event \in P!Event /\ worker[v].event.sale # e.sale
    BY <1>6, WorkerFacts DEF OrderInv, WorkerInOrder
  <2> QED BY <1>2, <2>1, EventFacts
<1>7. worker'[w] = P!Idle \/ GoesOn(w, e)
  BY DEF P!TypeOK, Ends500, Ends200
<1>8. ASSUME NEW v \in Worker, v # w PROVE WorkerInOrder(v)'
  <2>1. WorkerInOrder(v) /\ worker'[v] = worker[v]
    BY <1>3, <1>8 DEF OrderInv
  <2>2. worker'[w] # P!Idle => worker'[w].event = e
    BY <1>7 DEF GoesOn, P!TypeOK
  <2>3. SUFFICES ASSUME worker[v] # P!Idle PROVE WorkerInOrder(v)'
    BY <2>1 DEF WorkerInOrder, P!Idle
  <2>4. row'[worker[v].event.sale] = row[worker[v].event.sale]
    BY <1>3, <1>6, <1>8, <2>3
  <2>5. \A f \in pending' : f \in pending
    BY <1>2
  <2>6. \A u \in Worker : worker'[u] # P!Idle /\ worker'[u].event.sale = worker[v].event.sale => u = v
    BY <1>3, <1>6, <1>8, <2>1, <2>2, <2>3 DEF WorkerInOrder
  <2> QED BY <1>6, <1>8, <2>1, <2>3, <2>4, <2>5, <2>6 DEF WorkerInOrder, Before, P!Idle
<1>9. WorkerInOrder(w)'
  <2>1. CASE worker'[w] = P!Idle
    BY <2>1 DEF WorkerInOrder, P!Idle
  <2>2. CASE GoesOn(w, e)
    <3>1. PICK x \in {"fill", "insert"} :
              /\ worker' = [worker EXCEPT ![w] = [event |-> e, at |-> x]] /\ UNCHANGED <<pending, row>>
              /\ (x = "fill" <=> row[e.sale].there)
      BY <2>2 DEF GoesOn
    <3>2. worker'[w].event = e /\ worker'[w].at = x
      BY <3>1 DEF P!TypeOK
    <3>3. \A v \in Worker : worker'[v] # P!Idle /\ worker'[v].event.sale = e.sale => v = w
      BY <1>3, <1>6
    <3> QED BY <1>1, <3>1, <3>2, <3>3 DEF WorkerInOrder, Before, P!Idle
  <2> QED BY <1>7, <2>1, <2>2
<1>10. \A f, g \in pending' : f.kind = "subscription" /\ f.sale = g.sale /\ f.n = g.n => f = g
  BY <1>2 DEF OrderInv
<1>11. ASSUME NEW t \in Sold, t # e.sale \/ UNCHANGED <<pending, row>> PROVE SaleInOrder(t)'
  <2>1. SaleInOrder(t) /\ row'[t] = row[t] /\ \A f : f.sale = t => (f \in pending' <=> f \in pending)
    BY <1>2, <1>3, <1>11 DEF OrderInv
  <2> QED BY <1>3, <2>1, SaleLeftAlone
<1>12. ASSUME ~UNCHANGED <<pending, row>> PROVE SaleInOrder(e.sale)'
  <2> DEFINE s == e.sale
  <2>1. s \in Sold /\ SaleInOrder(s) /\ ~Quiet(s)
    BY <1>1 DEF OrderInv, Quiet
  <2>2. PICK q \in RowType : row'[s] = q /\ Result(e, worker[w].at, row[s], q)
    BY <1>4, <1>12
  <2>3. \A f \in pending : f.sale = s => f.n \in Nat /\ f \in P!Event /\ f.n <= stripe[s].changes /\ stripe[s].changes \in Nat
    BY <2>1, EventFacts, SalesAssumption DEF P!TypeOK, EarnedInv, Known
  <2>4. Latest(s)' = Latest(s) /\ P!Refund(s)' = P!Refund(s) /\ P!Checkout(s)' = P!Checkout(s)
    BY <1>3 DEF Latest, P!Change, P!Refund, P!Checkout
  <2>5. \A f \in pending : f.sale = s => ~Before(f, e)
    BY <1>1 DEF WorkerInOrder
  <2>6. ASSUME stripe[s].changes # 0
        PROVE  Latest(s) \in pending' \/ (Quiet(s)' /\ q.status = stripe[s].status)
    <3>1. Latest(s) \in pending
      BY <2>1, <2>6 DEF SaleInOrder
    <3>2. CASE e = Latest(s)
      <4>1. e.kind = "subscription" /\ e.n = stripe[s].changes /\ e.status = stripe[s].status
        BY <3>2 DEF Latest, P!Change
      <4>2. q.status = e.status
        BY <1>1, <2>2, <4>1 DEF Result, WorkerInOrder
      <4>3. ASSUME NEW f \in pending, f.sale = s PROVE f = e
        <5>1. f = e \/ f.n = e.n
          BY <2>3, <2>5, <4>1, <4>3 DEF Before
        <5> QED BY <1>1, <4>1, <4>3, <5>1 DEF OrderInv
      <4>4. pending' = pending \/ Quiet(s)'
        BY <1>2, <4>3 DEF Quiet
      <4> QED BY <3>1, <4>1, <4>2, <4>4
    <3> QED BY <1>2, <3>1, <3>2
  <2>7. ASSUME checkout[s] = "refunded"
        PROVE  P!Refund(s) \in pending' \/ (Quiet(s)' /\ q.status = "refunded")
    <3>1. P!Refund(s) \in pending /\ s \notin P!Subscription /\ (P!Checkout(s) \in pending \/ row[s].there)
      BY <2>1, <2>7 DEF SaleInOrder
    <3>2. CASE e = P!Refund(s)
      <4>1. e.kind = "refund" /\ P!Checkout(s).kind = "checkout" /\ P!Checkout(s).sale = s
        BY <3>2 DEF P!Refund, P!Checkout
      <4>2. P!Checkout(s) \notin pending
        BY <2>5, <4>1 DEF Before
      <4>3. q.status = "refunded"
        BY <2>2, <3>1, <4>1, <4>2 DEF Result
      <4>4. ASSUME NEW f \in pending, f.sale = s PROVE f = e
        <5>1. f.kind # "subscription" /\ f # P!Checkout(s)
          BY <2>3, <3>1, <4>2, <4>4, EventFacts
        <5> QED BY <2>3, <3>2, <4>4, <5>1, EventFacts
      <4>5. pending' = pending \/ Quiet(s)'
        BY <1>2, <4>4 DEF Quiet
      <4> QED BY <3>1, <4>3, <4>5
    <3> QED BY <1>2, <3>1, <3>2
  <2>8. ASSUME s \notin P!Subscription, checkout[s] \in {"paid", "refunded"}
        PROVE  P!Checkout(s) \in pending' \/ q.there
    <3>1. P!Checkout(s) \in pending \/ row[s].there
      BY <2>1, <2>8 DEF SaleInOrder
    <3>2. CASE e = P!Checkout(s)
      <4>1. e.kind = "checkout"
        BY <3>2 DEF P!Checkout
      <4> QED BY <1>1, <2>2, <4>1 DEF Result, WorkerInOrder
    <3> QED BY <1>2, <1>5, <2>2, <3>1, <3>2
  <2>9. UNCHANGED <<stripe, checkout>>
    BY <1>3
  <2> HIDE DEF s
  <2>10. SaleInOrder(s)'
    BY <2>1, <2>2, <2>4, <2>6, <2>7, <2>8, <2>9 DEF SaleInOrder
  <2> QED BY <2>10 DEF s
<1>13. \A t \in Sold : SaleInOrder(t)'
  <2> TAKE t \in Sold
  <2>1. CASE t # e.sale \/ UNCHANGED <<pending, row>>
    BY <1>11, <2>1
  <2>2. CASE t = e.sale /\ ~UNCHANGED <<pending, row>>
    BY <1>12, <2>2
  <2> QED BY <2>1, <2>2
<1> QED BY <1>8, <1>9, <1>10, <1>13 DEF OrderInv

\* The three invariants of the sales are kept by every step.
LEMMA SaleStep ==
    ASSUME P!TypeOK, EarnedInv, OrderInv, [P!Next]_(P!vars)
    PROVE  P!TypeOK' /\ EarnedInv' /\ OrderInv'
<1>1. oneByOne' = oneByOne /\ P!Subscription' = P!Subscription
  BY PastStays
<1>2. SUFFICES ASSUME oneByOne, oneByOne' PROVE OrderInv'
  BY <1>1, SaleTypes, EarnedStep DEF OrderInv
<1>3. ASSUME NEW s \in Sold, SaleSteps(s) PROVE OrderInv'
  BY <1>1, <1>2, <1>3, OrderOfNews
<1>4. ASSUME NEW w \in Worker, NEW e \in pending, P!Deliver(w, e) PROVE OrderInv'
  BY <1>1, <1>2, <1>4, OrderOfDelivery
<1>5. ASSUME NEW w \in Worker, P!Handle(w) \/ P!RequestFails(w) PROVE OrderInv'
  <2>1. PICK e : e = worker[w].event
    OBVIOUS
  <2>2. worker[w] # P!Idle /\ UNCHANGED P!sales /\ (GoesOn(w, e) \/ Ends500(w) \/ Ends200(w, e))
    <3>1. CASE P!Handle(w)
      BY <2>1, <3>1, HandleDoes
    <3>2. CASE P!RequestFails(w)
      BY <3>2 DEF P!RequestFails, Ends500
    <3> QED BY <1>5, <3>1, <3>2
  <2> QED BY <1>1, <1>2, <2>1, <2>2, OrderOfHandling
<1>6. CASE UNCHANGED P!vars
  <2>1. \A t \in Sold : SaleInOrder(t)'
    <3> TAKE t \in Sold
    <3>1. SaleInOrder(t) /\ UNCHANGED <<stripe, row, checkout, pending>>
      BY <1>2, <1>6 DEF OrderInv, P!vars
    <3> QED BY <1>1, <3>1, SaleLeftAlone
  <2>2. \A w \in Worker : WorkerInOrder(w)'
    BY <1>2, <1>6 DEF OrderInv, P!vars, WorkerInOrder, Before, P!Idle
  <2> QED BY <1>2, <1>6, <2>1, <2>2 DEF OrderInv, P!vars
<1> QED BY <1>3, <1>4, <1>5, <1>6 DEF P!Next, SaleSteps

\* TypeOK for every instance: a row is there exactly when it has a status, and a
\* request in progress holds an event that Stripe can tell.
THEOREM SalesTypeCorrect == P!Spec => []P!TypeOK
<1>1. P!Init => P!TypeOK
  BY SalesAssumption DEF P!Init, P!TypeOK, P!NoRow
<1>2. P!TypeOK /\ [P!Next]_(P!vars) => P!TypeOK'
  BY SaleTypes
<1> QED BY <1>1, <1>2, PTL DEF P!Spec

\* EntitlementIsEarned and AgreesInOrder for every instance: a purchase is active or
\* past due only by a paid checkout or an answered event that said so; and if Stripe
\* tells events one by one, repeats and failed requests included, the row has what
\* Stripe has once all are answered (recordProductPurchase, applyProductSubscriptionEvent
\* and markPurchaseRefunded in src/services/product.service.ts).
THEOREM SalesFollowStripe == P!Spec => [](P!EntitlementIsEarned /\ P!AgreesInOrder)
<1>1. P!Init => P!TypeOK /\ EarnedInv /\ OrderInv
  <2> SUFFICES ASSUME P!Init PROVE P!TypeOK /\ EarnedInv /\ OrderInv
    OBVIOUS
  <2>1. P!TypeOK
    BY SalesAssumption DEF P!Init, P!TypeOK, P!NoRow
  <2>2. EarnedInv
    BY DEF P!Init, EarnedInv, Earned, P!NoRow
  <2>3. OrderInv
    BY DEF P!Init, OrderInv, WorkerInOrder, SaleInOrder
  <2> QED BY <2>1, <2>2, <2>3
<1>2. P!TypeOK /\ EarnedInv /\ OrderInv /\ [P!Next]_(P!vars) => P!TypeOK' /\ EarnedInv' /\ OrderInv'
  BY SaleStep
<1>3. P!TypeOK /\ EarnedInv /\ OrderInv => P!EntitlementIsEarned /\ P!AgreesInOrder
  <2> SUFFICES ASSUME P!TypeOK, EarnedInv, OrderInv PROVE P!EntitlementIsEarned /\ P!AgreesInOrder
    OBVIOUS
  <2>1. P!EntitlementIsEarned
    BY DEF EarnedInv, Earned, P!EntitlementIsEarned
  <2>2. P!AgreesInOrder
    <3> SUFFICES ASSUME oneByOne, pending = {}, NEW s \in Sold
                 PROVE  /\ stripe[s].changes > 0 => row[s].status = stripe[s].status
                        /\ checkout[s] = "refunded" => row[s].status = "refunded"
      BY DEF P!AgreesInOrder
    <3>1. SaleInOrder(s) /\ (stripe[s].changes > 0 => stripe[s].changes # 0)
      BY DEF OrderInv
    <3> QED BY <3>1 DEF SaleInOrder
  <2> QED BY <2>1, <2>2
<1> QED BY <1>1, <1>2, <1>3, PTL DEF P!Spec

\* CheckoutRevivesNothing for every instance: a checkout event, however late, leaves
\* the status of a row that is there (recordProductPurchase).
THEOREM LateCheckoutsReviveNothing == P!Spec => P!CheckoutRevivesNothing
<1>1. P!TypeOK /\ [P!Next]_(P!vars) => [P!StatusStands]_(P!vars)
  <2> SUFFICES ASSUME P!TypeOK, P!Next, NEW w \in Worker, NEW s \in Sold, worker[w] # P!Idle,
                      worker[w].event = P!Checkout(s), worker'[w] = P!Idle, row[s].there
               PROVE  row'[s].status = row[s].status
    BY DEF P!StatusStands
  <2>1. CASE UNCHANGED row
    BY <2>1
  <2>2. ASSUME NEW v \in Worker, P!Handle(v) PROVE row'[s].status = row[s].status
    <3>1. PICK e : e = worker[v].event
      OBVIOUS
    <3>2. GoesOn(v, e) \/ Ends500(v) \/ Ends200(v, e)
      BY <2>2, <3>1, HandleDoes
    <3>3. v = w
      BY <3>2 DEF P!TypeOK, GoesOn, Ends500, Ends200
    <3>4. e.kind = "checkout" /\ e.sale = s
      BY <3>1, <3>3 DEF P!Checkout
    <3>5. CASE Ends200(w, e)
      <4>1. PICK q \in RowType : row' = [row EXCEPT ![s] = q] /\ Result(e, worker[w].at, row[s], q)
        BY <3>4, <3>5 DEF Ends200
      <4>2. row'[s] = q
        BY <4>1 DEF P!TypeOK
      <4> QED BY <3>4, <4>1, <4>2 DEF Result
    <3> QED BY <2>1, <3>2, <3>3, <3>5 DEF GoesOn, Ends500
  <2> QED BY <2>1, <2>2 DEF P!Next, P!CreateProductCheckout, P!CreateCustomer, P!SaveCustomer, P!CreateSession, P!Pay,
             P!RefundCharge, P!SubscriptionChanges, P!RequestFails, P!Deliver
<1> QED BY <1>1, SalesTypeCorrect, PTL DEF P!Spec, P!CheckoutRevivesNothing

-----------------------------------------------------------------------------
\* A step of one of the four leaves the others as they are: each of them runs its
\* own specification.
LEMMA Projections == Safely => Spec /\ P!Spec /\ H!Spec /\ M!Spec
<1>1. AllInit => Init /\ P!Init /\ H!Init /\ M!Init
  BY DEF AllInit
<1> USE DEF AllNext, allVars, saleVars, hostedVars, machineVars
<1>2. [AllNext]_allVars => [Next]_vars
  OBVIOUS
<1>3. [AllNext]_allVars => [P!Next]_(P!vars)
  BY DEF P!vars
<1>4. [AllNext]_allVars => [H!Next]_(H!vars)
  BY DEF H!vars
<1>5. [AllNext]_allVars => [M!Next]_(M!vars)
  BY DEF M!vars
<1> QED BY <1>1, <1>2, <1>3, <1>4, <1>5, PTL DEF Safely, Spec, P!Spec, H!Spec, M!Spec

\* RowsFollowStripe for every instance of the four together.
THEOREM RowsAreStripes == Safely => []RowsFollowStripe
  BY Projections, SalesFollowStripe, MirrorsCatchUp, PTL DEF RowsFollowStripe

\* What the run checks of money on one instance holds of every one: no balance goes
\* below zero, credits are conserved, only work is charged, rows follow Stripe, and
\* callers in time pay once.
THEOREM MoneyIsKept ==
    Safely => [](NeverNegative /\ Conserved /\ ChargedForWork /\ RowsFollowStripe /\ PaidOnceInTime)
  BY Projections, BalanceNeverNegative, CreditsAreConserved, OnlyWorkIsCharged, RowsAreStripes, CallersPayOnce, PTL
=============================================================================
