---------------------------- MODULE CreditLedger ----------------------------
(***************************************************************************)
(* Prepaid credits: the ledger of src/services/credit.service.ts and the   *)
(* two meters that spend from it, chargeCredits for HTTP routes            *)
(* (src/api/middleware/monetize.ts) and the tool wrapper of                *)
(* src/mcp/server.ts with its gates (src/mcp/gates.ts).                    *)
(*                                                                         *)
(* grant and debit are database transactions, and atomic here; the calls   *)
(* around them are not.  A tool with a price has no credit cost            *)
(* (registerMcpTool refuses it), so no payment gate follows the debit.     *)
(***************************************************************************)
EXTENDS Integers, FiniteSets

CONSTANTS
    Org,
    Ref,     \* external references of grants: checkout sessions, invoices
    Call,    \* metered calls of routes and tools
    OrgOf,   \* the organization of a reference or a call
    Amount,  \* Amount[r]: credits of a pack; Amount[c]: cost of a call
    MaxFaults

ASSUME LedgerAssumption ==
    /\ OrgOf \in [Ref \cup Call -> Org] /\ Amount \in [Ref \cup Call -> Nat \ {0}]
    /\ MaxFaults \in Nat

VARIABLES
    balance, \* balance[o]: credit_balances.balance, 0 without a row
    granted, \* references with a ledger entry
    paid,    \* checkouts the billing webhook has processed
    call,    \* call[c]: how far the call is
    charged, \* calls whose debit has been committed and not refunded
    faults

vars == <<balance, granted, paid, call, charged, faults>>

\* blocked: cannot afford it; kept: the refund failed; error: the debit did;
\* gone: the process died
Ends == {"blocked", "done", "refunded", "kept", "error", "gone"}

TypeOK ==
    /\ balance \in [Org -> Int]
    /\ granted \subseteq Ref /\ paid \subseteq Ref
    /\ call \in [Call -> {"new", "running", "failed"} \cup Ends]
    /\ charged \subseteq {c \in Call : call[c] \notin {"new", "blocked", "refunded"}}
    /\ faults \in 0 .. MaxFaults

Init ==
    /\ balance = [o \in Org |-> 0] /\ granted = {} /\ paid = {}
    /\ call = [c \in Call |-> "new"] /\ charged = {} /\ faults = 0

Fault == faults < MaxFaults /\ faults' = faults + 1
Move(c, to) == call' = [call EXCEPT ![c] = to]

-----------------------------------------------------------------------------
\* Mutant of IsNew: every delivery of a webhook grants.
AlwaysNew(r) == TRUE

\* The insert of the ledger entry wins on its UNIQUE external_ref.
IsNew(r) == r \notin granted

\* grant with a reference, as often as it is called.
Grant(r) ==
    /\ granted' = granted \cup {r}
    /\ balance' = IF IsNew(r) THEN [balance EXCEPT ![OrgOf[r]] = @ + Amount[r]] ELSE balance
    /\ UNCHANGED <<paid, call, charged, faults>>

\* The billing webhook handles a paid checkout or invoice of a product that
\* grants credits: it records the purchase, or logs the invoice.
WebhookHandles(r) ==
    /\ r \notin paid
    /\ paid' = paid \cup {r}
    /\ UNCHANGED <<balance, granted, call, charged, faults>>

\* Mutant of Affordable: the balance is only required to be positive.
AffordableIfAny(c) == balance[OrgOf[c]] > 0

\* The condition of the debit's UPDATE.
Affordable(c) == balance[OrgOf[c]] >= Amount[c]

Spend(c) ==
    /\ balance' = [balance EXCEPT ![OrgOf[c]] = @ - Amount[c]]
    /\ charged' = charged \cup {c}

\* debit, before the work; without the credits the caller is sent to checkout.
Debit(c) ==
    /\ call[c] = "new"
    /\ \/ Affordable(c) /\ Spend(c) /\ Move(c, "running")
       \/ ~Affordable(c) /\ Move(c, "blocked") /\ UNCHANGED <<balance, charged>>
    /\ UNCHANGED <<granted, paid, faults>>

\* debit throws: rolled back, or committed with the answer lost.
DebitThrows(c) ==
    /\ call[c] = "new" /\ Fault
    /\ Move(c, "error")
    /\ \/ UNCHANGED <<balance, charged>>
       \/ Affordable(c) /\ Spend(c)
    /\ UNCHANGED <<granted, paid>>

\* The handler returns, or throws (c.error for a route, the catch for a tool).
EndWork(c) ==
    /\ call[c] = "running"
    /\ \E to \in {"done", "failed"} : Move(c, to)
    /\ UNCHANGED <<balance, granted, paid, charged, faults>>

\* Mutant of Refund: the failed call just ends.
RefundSkipped(c) ==
    /\ call[c] = "failed"
    /\ Move(c, "error")
    /\ UNCHANGED <<balance, charged, granted, paid, faults>>

GiveBack(c) ==
    /\ balance' = [balance EXCEPT ![OrgOf[c]] = @ + Amount[c]]
    /\ charged' = charged \ {c}

\* refund: a grant without a reference.
Refund(c) ==
    /\ call[c] = "failed"
    /\ GiveBack(c) /\ Move(c, "refunded")
    /\ UNCHANGED <<granted, paid, faults>>

\* The refund throws, rolled back or with its answer lost; it is logged.
RefundFails(c) ==
    /\ call[c] = "failed" /\ Fault
    /\ Move(c, "kept")
    /\ GiveBack(c) \/ UNCHANGED <<balance, charged>>
    /\ UNCHANGED <<granted, paid>>

Crash(c) ==
    /\ call[c] \in {"running", "failed"} /\ Fault
    /\ Move(c, "gone")
    /\ UNCHANGED <<balance, charged, granted, paid>>

-----------------------------------------------------------------------------
Progress(c) == Debit(c) \/ EndWork(c) \/ Refund(c)

Next ==
    \/ \E r \in Ref : Grant(r) \/ WebhookHandles(r)
    \/ \E c \in Call : Progress(c) \/ DebitThrows(c) \/ RefundFails(c) \/ Crash(c)

Spec == Init /\ [][Next]_vars

\* Awaits settle; Stripe tells of payments until the webhook answers.
FairSpec ==
    /\ Spec
    /\ \A c \in Call : WF_vars(Progress(c))
    /\ \A r \in Ref : WF_vars(WebhookHandles(r))

-----------------------------------------------------------------------------
(* Properties. *)

\* The credits that references or calls stand for at an organization, one by one.
Credits(S, o) == UNION {{x} \X (1 .. Amount[x]) : x \in {y \in S : OrgOf[y] = o}}
Total(S, o) == Cardinality(Credits(S, o))

\* "Debits are ATOMIC [...] never negative balances": however calls race for the
\* last credits.
NeverNegative == \A o \in Org : balance[o] >= 0

\* Credits are neither made nor lost: the balance is what each reference granted
\* once, however often it was delivered, less what the calls that were charged
\* and not refunded cost, through lost answers, failed refunds and crashes.
Conserved == \A o \in Org : balance[o] = Total(granted, o) - Total(charged, o)

\* "[C]harge -> run -> refund-on-failure": unless a statement fails or a process
\* dies, a call that ends charged has run to its end.
ChargedForWork == faults = 0 => \A c \in charged : call[c] \in Ends => call[c] = "done"

-----------------------------------------------------------------------------
(* What the repository says and the code does not do: stated here, refuted  *)
(* by TLC in the instances the README names under "Divergences".            *)

\* "[C]allers never pay for work that did not happen", whatever fails.
NeverPaysForNothing == \A c \in charged : call[c] \in Ends => call[c] = "done"

\* "[A] product that grants credits when bought": every payment the webhook has
\* processed is granted in the end.
PaymentsGrantCredits == \A r \in Ref : r \in paid ~> r \in granted
=============================================================================
