-------------------------------- MODULE Mpp ---------------------------------
(***************************************************************************)
(* Machine payments (src/services/mpp.service.ts for routes,               *)
(* src/mcp/mpp.ts for tools): a call without a credential is answered with *)
(* a challenge per configured lane; the caller pays one and repeats the    *)
(* call with the credential.  The crypto lane of a challenge names a       *)
(* deposit address, minted for it at Stripe and remembered by the process  *)
(* that minted it, for a while.  Verification is the payment library's.    *)
(***************************************************************************)
EXTENDS Naturals, FiniteSets

CONSTANTS
    Caller, Pod,
    Lane,       \* lanes that are priced and configured, of tempo, evm, stripe
    MaxAddress, MaxPayments   \* bounds

VARIABLES
    minted,    \* deposit addresses made so far: 1 .. minted
    cache,     \* cache[p]: addresses process p remembers (depositAddressCache)
    offer,     \* offer[c]: the challenges c holds: <<lane, address>>
    credential,\* credential[c]: the challenge c has paid, or {}
    payments,  \* payments[c]: how often c has paid for its call
    asked,     \* asked[c]: the process that made c's challenge
    excused,   \* callers that came back to another process, or too late
    state      \* state[c]: calling, challenged, served, refused (503)

vars == <<minted, cache, offer, credential, payments, asked, excused, state>>

Challenge == Lane \X (0 .. MaxAddress)

TypeOK ==
    /\ minted \in 0 .. MaxAddress /\ cache \in [Pod -> SUBSET (1 .. minted)]
    /\ offer \in [Caller -> SUBSET Challenge] /\ payments \in [Caller -> 0 .. MaxPayments]
    /\ credential \in [Caller -> SUBSET Challenge] /\ excused \subseteq Caller
    /\ state \in [Caller -> {"calling", "challenged", "served", "refused"}]

Init ==
    /\ minted = 0 /\ cache = [p \in Pod |-> {}] /\ offer = [c \in Caller |-> {}]
    /\ credential = [c \in Caller |-> {}] /\ payments = [c \in Caller |-> 0]
    /\ asked \in [Caller -> {CHOOSE p \in Pod : TRUE}] /\ excused = {}
    /\ state = [c \in Caller |-> "calling"]

Others == {<<l, 0>> : l \in Lane \ {"tempo"}}

\* The gate's answer when it has handlers for H: a challenge, or 503 with none.
Answer(c, H) ==
    /\ offer' = [offer EXCEPT ![c] = H]
    /\ state' = [state EXCEPT ![c] = IF H = {} THEN "refused" ELSE "challenged"]

\* Mutant of Remember: the newest address replaces the ones before it.
RememberOne(p) == cache' = [cache EXCEPT ![p] = {minted + 1}]

\* cacheAddress.
Remember(p) == cache' = [cache EXCEPT ![p] = @ \cup {minted + 1}]

\* A first call: createPayToAddress mints a deposit address for the crypto lane,
\* or fails, and the lane is left out.
CallUnpaid(c, p) ==
    /\ state[c] = "calling" /\ credential[c] = {}
    /\ asked' = [asked EXCEPT ![c] = p]
    /\ \/ /\ "tempo" \in Lane /\ minted < MaxAddress /\ minted' = minted + 1
          /\ Remember(p) /\ Answer(c, Others \cup {<<"tempo", minted + 1>>})
       \/ UNCHANGED <<minted, cache>> /\ Answer(c, Others)
    /\ UNCHANGED <<credential, payments, excused>>

\* The caller pays a challenge and will call again.
Pay(c, ch) ==
    /\ state[c] = "challenged" /\ ch \in offer[c] /\ payments[c] < MaxPayments
    /\ payments' = [payments EXCEPT ![c] = @ + 1]
    /\ credential' = [credential EXCEPT ![c] = {ch}]
    /\ state' = [state EXCEPT ![c] = "calling"]
    /\ UNCHANGED <<minted, cache, offer, asked, excused>>

\* resolveCryptoRecipient for a call with a credential: an address this process
\* remembers, or the crypto lane is left out; none is minted.
Lanes(p, ch) == Others \cup {x \in {ch} : x[1] = "tempo" /\ x[2] \in cache[p]}

\* A call with a credential: gatePaidRequest composes the handlers, and
\* gatePaidToolCall takes the one of the credential's method; a credential that
\* fits none is answered with a challenge.
CallPaid(c, p) ==
    /\ state[c] = "calling" /\ credential[c] # {}
    /\ \E ch \in credential[c] :
          IF ch \in Lanes(p, ch)
          THEN state' = [state EXCEPT ![c] = "served"] /\ UNCHANGED <<offer, excused>>
          ELSE /\ Answer(c, Lanes(p, ch))
               /\ excused' = IF p # asked[c] THEN excused \cup {c} ELSE excused
    /\ credential' = [credential EXCEPT ![c] = {}]
    /\ UNCHANGED <<minted, cache, payments, asked>>

\* Five minutes pass for an address; or the process starts again.
Forget(p, a) ==
    /\ a \in cache[p] /\ cache' = [cache EXCEPT ![p] = @ \ {a}]
    /\ excused' = excused \cup {c \in Caller : <<"tempo", a>> \in offer[c] \cup credential[c]}
    /\ UNCHANGED <<minted, offer, credential, payments, asked, state>>

Next ==
    \/ \E c \in Caller, p \in Pod : CallUnpaid(c, p) \/ CallPaid(c, p)
    \/ \E c \in Caller : \E ch \in offer[c] : Pay(c, ch)
    \/ \E p \in Pod : \E a \in cache[p] : Forget(p, a)

Spec == Init /\ [][Next]_vars

-----------------------------------------------------------------------------
(* Properties. *)

\* A caller that pays and comes back in time, to the process that challenged it,
\* is not asked to pay again, however many callers are challenged in between.
PaidOnceInTime == \A c \in Caller \ excused : payments[c] <= 1 /\ (payments[c] = 1 => state[c] # "challenged")

-----------------------------------------------------------------------------
(* What the repository says and the code does not do. *)

\* A challenge is paid once.  Does not hold, as the code notes ("NOTE for
\* multi-replica deploys"): another process, or the same one after it forgot the
\* address, challenges the caller again.
PaidOnce == \A c \in Caller : payments[c] <= 1
=============================================================================
