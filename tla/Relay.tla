-------------------------------- MODULE Relay --------------------------------
(***************************************************************************)
(* Events from and to the outside: the signed inbox (src/api/routes/events *)
(* with src/lib/event-signing.ts) and the outgoing webhooks                *)
(* (src/lib/event-webhooks.ts) that ride the event bus.  A sender signs a  *)
(* request with its clock; the network keeps a copy and may deliver it     *)
(* again at any time.  Deliveries to handlers are EventDelivery's; here    *)
(* the event's only subscriber is a webhook.  Which hosts a webhook may    *)
(* name is a pure check: an IPv4 address is four numbers, the text of an   *)
(* IPv6 address its 16-bit groups before and after the "::", if any.      *)
(***************************************************************************)
EXTENDS Integers, Sequences, FiniteSets

CONSTANTS
    Event,        \* ids, made by the sender
    Tolerance,    \* EVENTS_INBOX_TOLERANCE_S
    Retention,    \* eventsAfterDays
    MaxAttempts,  \* the subscription's retries + 1
    MaxTime, MaxRequests   \* bounds

VARIABLES
    now,
    secret,      \* EVENTS_INBOX_SECRET of the deployment: "unset", or its version
    senders,     \* the version the senders sign with
    wire,        \* signed requests that exist: [id, at, key]
    accepted,    \* accepted[r]: how often request r put an event in the log
    log,         \* log[e]: when the events row was inserted, or -1
    hook,        \* the webhook subscription: "none", "active", "off"
    signing,     \* its secret_ref is set on the deployment
    delivery,    \* delivery[e]: the event_deliveries row
    tries,       \* its attempts
    posted       \* events whose body the receiver has answered with 2xx

vars == <<now, secret, senders, wire, accepted, log, hook, signing, delivery, tries, posted>>

Requests == [id : Event, at : 0 .. MaxTime + Tolerance, key : {"v1", "v2"}]

TypeOK ==
    /\ now \in 0..MaxTime /\ secret \in {"unset", "v1", "v2"} /\ senders \in {"v1", "v2"}
    /\ wire \subseteq Requests /\ DOMAIN accepted = wire /\ log \in [Event -> -1..MaxTime]
    /\ hook \in {"none", "active", "off"} /\ signing \in BOOLEAN
    /\ delivery \in [Event -> {"none", "pending", "running", "done", "dead"}] /\ tries \in [Event -> 0..MaxAttempts]
    /\ posted \subseteq Event

Init ==
    /\ now = 0 /\ secret = "v1" /\ senders = "v1" /\ wire = {} /\ accepted = << >>
    /\ log = [e \in Event |-> -1] /\ hook = "none" /\ signing = TRUE
    /\ delivery = [e \in Event |-> "none"] /\ tries = [e \in Event |-> 0] /\ posted = {}

inbox == <<secret, senders, wire>>
webhook == <<hook, signing, delivery, tries, posted>>

-----------------------------------------------------------------------------
(* The inbox. *)

\* A sender signs an event, for the first time or again, by a clock that may be ahead.
Sign(e, skew) ==
    LET r == [id |-> e, at |-> now + skew, key |-> senders] IN
    /\ r \notin wire /\ Cardinality(wire) < MaxRequests
    /\ wire' = wire \cup {r} /\ accepted' = [q \in wire' |-> IF q \in wire THEN accepted[q] ELSE 0]
    /\ UNCHANGED <<now, secret, senders, log, webhook>>

\* Mutant of Verified: the signature is checked and the timestamp is not.
VerifiedBySignature(r) == r.key = secret
\* verifyEventSignature: the timestamp within the tolerance on either side, then the
\* HMAC; without a secret every request is rejected.
Verified(r) == r.key = secret /\ now - r.at <= Tolerance /\ r.at - now <= Tolerance

\* publishEventAndNudge: a new row and a delivery for an active subscription, or
\* nothing when the id is there.
Accept(r) ==
    /\ r \in wire /\ Verified(r)
    /\ IF log[r.id] # -1
       THEN UNCHANGED <<accepted, log, delivery, tries>>
       ELSE /\ log' = [log EXCEPT ![r.id] = now] /\ accepted' = [accepted EXCEPT ![r] = @ + 1]
            /\ delivery' = [delivery EXCEPT ![r.id] = IF hook = "active" THEN "pending" ELSE "none"]
            /\ tries' = [tries EXCEPT ![r.id] = 0]
    /\ UNCHANGED <<now, inbox, hook, signing, posted>>

\* The operator unsets or rotates the secret, the senders follow.
ChangeSecret(s) ==
    /\ s # secret /\ (s = "v1" => secret # "v2") /\ secret' = s
    /\ UNCHANGED <<now, senders, wire, accepted, log, webhook>>
SendersFollow ==
    /\ secret = "v2" /\ senders = "v1" /\ senders' = "v2"
    /\ UNCHANGED <<now, secret, wire, accepted, log, webhook>>

\* sweepEventRetention: old, and no open delivery of an active subscription.
Sweep(e) ==
    /\ log[e] # -1 /\ now - log[e] > Retention
    /\ ~ (delivery[e] \in {"pending", "running"} /\ hook = "active")
    /\ log' = [log EXCEPT ![e] = -1] /\ delivery' = [delivery EXCEPT ![e] = "none"]
    /\ UNCHANGED <<now, inbox, accepted, hook, signing, tries, posted>>

-----------------------------------------------------------------------------
(* Webhooks. *)

\* createWebhookSubscription: refused unless the secret it names is set.
CreateWebhook ==
    /\ hook = "none" /\ signing /\ hook' = "active"
    /\ UNCHANGED <<now, inbox, accepted, log, signing, delivery, tries, posted>>
DeactivateWebhook ==
    /\ hook = "active" /\ hook' = "off"
    /\ UNCHANGED <<now, inbox, accepted, log, signing, delivery, tries, posted>>
SecretRemoved ==
    /\ signing /\ signing' = FALSE
    /\ UNCHANGED <<now, inbox, accepted, log, hook, delivery, tries, posted>>

ClaimHook(e) ==
    /\ hook = "active" /\ delivery[e] = "pending" /\ tries[e] < MaxAttempts
    /\ delivery' = [delivery EXCEPT ![e] = "running"] /\ tries' = [tries EXCEPT ![e] = @ + 1]
    /\ UNCHANGED <<now, inbox, accepted, log, hook, signing, posted>>

Failed(e) == delivery' = [delivery EXCEPT ![e] = IF tries[e] < MaxAttempts THEN "pending" ELSE "dead"]

\* Mutant of DeliverWebhook: any answer is taken for a success.
DeliverAnyAnswer(e, answer) ==
    /\ delivery[e] = "running" /\ log[e] # -1
    /\ IF answer = "ok" THEN posted' = posted \cup {e} ELSE UNCHANGED posted
    /\ delivery' = [delivery EXCEPT ![e] = "done"]
    /\ UNCHANGED <<now, inbox, accepted, log, hook, signing, tries>>

\* deliverWebhook: a 2xx is success; another status, a redirect, a timeout or a
\* secret that is gone fails the attempt.
DeliverWebhook(e, answer) ==
    /\ delivery[e] = "running" /\ log[e] # -1 /\ (~ signing => answer = "unsent")
    /\ CASE answer = "ok" -> posted' = posted \cup {e} /\ delivery' = [delivery EXCEPT ![e] = "done"]
         [] answer = "lost" -> posted' = posted \cup {e} /\ Failed(e)
         [] OTHER -> Failed(e) /\ UNCHANGED posted
    /\ UNCHANGED <<now, inbox, accepted, log, hook, signing, tries>>

Tick ==
    /\ now < MaxTime /\ now' = now + 1
    /\ UNCHANGED <<inbox, accepted, log, webhook>>

-----------------------------------------------------------------------------
Next ==
    \/ Tick \/ SendersFollow \/ CreateWebhook \/ DeactivateWebhook \/ SecretRemoved
    \/ \E s \in {"unset", "v1", "v2"} : ChangeSecret(s)
    \/ \E e \in Event : \/ Sweep(e) \/ ClaimHook(e) \/ (\E skew \in 0..Tolerance : Sign(e, skew))
                        \/ \E answer \in {"ok", "lost", "refused", "unsent"} : DeliverWebhook(e, answer)
    \/ \E r \in wire : Accept(r)
Spec == Init /\ [][Next]_vars

-----------------------------------------------------------------------------
\* One signed request puts an event in the log once at most, however often the
\* network repeats it and whatever retention has deleted meanwhile: the window
\* of the signature closes before the id that de-duplicates is swept
\* (verifyEventSignature, publishEvent, sweepEventRetention).
ReplayNeverReinserts == \A r \in wire : accepted[r] <= 1

\* What keeps that so: while a request that was taken could still be verified, the
\* row it made is there, and not yet old enough to be swept.
RelayInv ==
    /\ now \in Nat /\ senders \in {"v1", "v2"}
    /\ wire \subseteq [id : Event, at : Nat, key : {"v1", "v2"}]
    /\ accepted \in [wire -> {0, 1}] /\ log \in [Event -> Int]
    /\ delivery \in [Event -> {"none", "pending", "running", "done", "dead"}]
    /\ \A r \in wire : accepted[r] = 1 =>
         (log[r.id] # -1 /\ r.at <= log[r.id] + Tolerance) \/ now > r.at + Tolerance
    /\ \A e \in Event : delivery[e] = "done" => e \in posted

\* A webhook delivery counts as done only when its receiver took the event.
DoneWasTaken == \A e \in Event : delivery[e] = "done" => e \in posted

-----------------------------------------------------------------------------
(* What the repository says and the code does not do. *)

\* routes/events: "it lands in `events` with the sender's own id, so a sender
\* that retries can never create a duplicate".  One that retries after the
\* retention window, with a fresh signature, creates it again.
RetriesNeverDuplicate ==
    \A r, q \in wire : r.id = q.id /\ r # q => accepted[r] + accepted[q] <= 1

-----------------------------------------------------------------------------
(* validateWebhookUrl *)

\* Mutant of IsBlockedIpv4: the carrier range ends too early.
IsBlockedShort(p) ==
    \/ p[1] \in {0, 10, 127} \/ p[1] >= 224
    \/ p[1] = 100 /\ p[2] \in 64..126
    \/ p[1] = 169 /\ p[2] = 254
    \/ p[1] = 172 /\ p[2] \in 16..31
    \/ p[1] = 192 /\ (p[2] = 168 \/ (p[2] = 0 /\ p[3] = 0))
    \/ p[1] = 198 /\ p[2] \in {18, 19}

IsBlockedIpv4(p) ==
    \/ p[1] \in {0, 10, 127} \/ p[1] >= 224
    \/ p[1] = 100 /\ p[2] \in 64..127
    \/ p[1] = 169 /\ p[2] = 254
    \/ p[1] = 172 /\ p[2] \in 16..31
    \/ p[1] = 192 /\ (p[2] = 168 \/ (p[2] = 0 /\ p[3] = 0))
    \/ p[1] = 198 /\ p[2] \in {18, 19}

Malformed == <<>>

\* parseIpv6: with a "::" at least one group is missing, without it none is.
ParseIpv6(text) ==
    LET missing == 8 - Len(text.head) - Len(text.tail)
    IN  IF (IF text.gap THEN missing < 1 ELSE missing # 0) THEN Malformed
        ELSE text.head \o [i \in 1..missing |-> 0] \o text.tail

Zeros(h, from, to) == \A i \in from..to : h[i] = 0
IsBlockedIpv6(h) ==
    \/ Zeros(h, 1, 7) /\ h[8] \in {0, 1}
    \/ /\ Zeros(h, 1, 5) /\ h[6] = 65535
       /\ IsBlockedIpv4(<<h[7] \div 256, h[7] % 256, h[8] \div 256, h[8] % 256>>)
    \/ h[1] \div 512 = 126      \* fc00::/7
    \/ h[1] \div 64 = 1018      \* fe80::/10
    \/ h[1] \div 256 = 255      \* ff00::/8
    \/ h[1] = 8193 /\ h[2] = 3512
    \/ h[1] = 100 /\ h[2] = 65435

\* validateWebhookUrl: an https URL without credentials whose host is a public
\* address or a name with a dot that is not a local one.
ValidateWebhookUrl(url) ==
    /\ url.scheme = "https" /\ ~ url.credentials
    /\ CASE url.kind = "v4" -> ~ IsBlockedIpv4(url.host)
         [] url.kind = "v6" -> ParseIpv6(url.host) # Malformed /\ ~ IsBlockedIpv6(ParseIpv6(url.host))
         [] url.kind = "name" -> url.host = "public"

-----------------------------------------------------------------------------
(* References. *)

\* The blocks that are no public host, as first address and size in networks of
\* 256 addresses: a prefix of 8 bits leaves 65536 of them, one of 24 bits leaves 1.
Block == {<<0, 0, 0, 65536>>, <<10, 0, 0, 65536>>, <<127, 0, 0, 65536>>, <<100, 64, 0, 16384>>,
          <<169, 254, 0, 256>>, <<172, 16, 0, 4096>>, <<192, 168, 0, 256>>, <<192, 0, 0, 1>>,
          <<198, 18, 0, 512>>, <<224, 0, 0, 2097152>>}
Network(p) == p[1] * 65536 + p[2] * 256 + p[3]
InBlock(p, b) == Network(b) <= Network(p) /\ Network(p) < Network(b) + b[4]

\* An IPv4 address is refused if and only if it lies in one of the blocks, alone
\* and as an IPv4-mapped IPv6 address.
Judged4(p) ==
    LET mapped == [head |-> <<>>, tail |-> <<65535, p[1] * 256 + p[2], p[3] * 256 + p[4]>>, gap |-> TRUE]
        url(kind, host) == [scheme |-> "https", credentials |-> FALSE, kind |-> kind, host |-> host]
    IN  /\ ValidateWebhookUrl(url("v4", p)) <=> ~ \E b \in Block : InBlock(p, b)
        /\ ValidateWebhookUrl(url("v6", mapped)) <=> ValidateWebhookUrl(url("v4", p))

\* However a run of zero groups is abbreviated, the address is read the same.
Judged6(h) ==
    \A i \in 0..7, j \in 2..9 : (i + 1 < j /\ Zeros(h, i + 1, j - 1)) =>
        ParseIpv6([head |-> SubSeq(h, 1, i), tail |-> SubSeq(h, j, 8), gap |-> TRUE]) = h
=============================================================================
