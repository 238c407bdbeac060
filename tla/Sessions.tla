------------------------------ MODULE Sessions ------------------------------
(***************************************************************************)
(* Session tokens (src/api/middleware/auth.ts, auth/index.ts, auth/        *)
(* verification-session.ts): JWTs with an issue time in whole seconds, the *)
(* logout-all cutoff kept per user in finer time, the touch that renews a  *)
(* session, and read-only verification sessions bought with a single-use   *)
(* platform token.  One account of each kind: its tokens never act for     *)
(* another.  A second has two instants; clocks of pods agree.              *)
(***************************************************************************)
EXTENDS Naturals, FiniteSets, Bags

CONSTANTS
    Ttl,           \* session duration in seconds
    VerifyTtl,     \* duration of a verification session
    Jti,           \* platform tokens
    MaxTime,       \* bound: instants
    MaxTokens,     \* bound: live tokens
    MaxRequests    \* bound: requests in progress together

VARIABLES
    now,        \* instants, two in a second
    tokens,     \* JWTs issued: iat, exp, vrf; born: the sign-in they go back to
    cutoff,     \* users.tokenInvalidatedBefore of each account, 0: null
    requests,   \* authenticated requests that have not acted yet
    claimed,    \* verification_sessions: jti by status
    survivors   \* tokens of the second of a logout-all, and those renewed from them or by
                \* a touch that was past its check at a logout-all

vars == <<now, tokens, cutoff, requests, claimed, survivors>>

Account == {"user", "verifier"}
Sec(t) == t \div 2
Token == [of : Account, iat : Nat, exp : Nat, vrf : BOOLEAN, born : Nat]

TypeOK ==
    /\ now \in Nat /\ tokens \subseteq Token /\ survivors \subseteq Token
    /\ cutoff \in [Account -> Nat]
    /\ IsABag(requests)
    /\ BagToSet(requests) \subseteq [kind : {"touch", "logout-all", "mint"}, token : Token \cup {[of |-> "none"]}, jti : Jti \cup {"none"}]
    /\ claimed \in [Jti -> {"none", "claimed", "failed", "issued"}]

Init ==
    /\ now = 2 /\ tokens = {} /\ cutoff = [a \in Account |-> 0]
    /\ requests = EmptyBag /\ claimed = [j \in Jti |-> "none"] /\ survivors = {}

\* createSessionToken, createVerificationSessionToken
Issue(a, vrf, born) ==
    [of |-> a, iat |-> Sec(now), exp |-> Sec(now) + (IF vrf THEN VerifyTtl ELSE Ttl), vrf |-> vrf, born |-> born]

\* Mutant of ResolveUser: the token's expiry is compared with the cutoff.
ResolveByExpiry(t) == t.exp > Sec(now) /\ t.exp >= Sec(cutoff[t.of])

\* verifyToken and resolveUser: signed, not expired, and not issued before the
\* second of the cutoff.
ResolveUser(t) == t.exp > Sec(now) /\ t.iat >= Sec(cutoff[t.of])

\* Mutant of ReadOnlyGuard: renewing is allowed.
GuardAllowsTouch(t, path) == ~t.vrf \/ path \in {"logout", "touch"}

\* verificationReadOnlyGuard: a verification session may only sign out.
ReadOnlyGuard(t, path) == ~t.vrf \/ path = "logout"

Begin(r) == BagCardinality(requests) < MaxRequests /\ requests' = requests (+) SetToBag({r})
End(r) == r \in BagToSet(requests) /\ requests' = requests (-) SetToBag({r})
Authed(kind, t) == [kind |-> kind, token |-> t, jti |-> "none"]
Minting(j) == [kind |-> "mint", token |-> [of |-> "none"], jti |-> j]

\* A sign-in (SignIn has how it is earned).
SignsIn ==
    /\ Cardinality(tokens) < MaxTokens
    /\ tokens' = tokens \cup {Issue("user", FALSE, now)}
    /\ UNCHANGED <<now, cutoff, requests, claimed, survivors>>

\* requireAuth of POST /touch and POST /logout-all.
Authenticate(t, kind) ==
    /\ Cardinality(tokens) < MaxTokens
    /\ t \in tokens /\ ResolveUser(t) /\ ReadOnlyGuard(t, kind)
    /\ Begin(Authed(kind, t))
    /\ UNCHANGED <<now, tokens, cutoff, claimed, survivors>>

\* POST /touch: a fresh token for the user of the request.
Touch(t) ==
    LET fresh == Issue(t.of, FALSE, t.born)
    IN  /\ End(Authed("touch", t))
        /\ tokens' = tokens \cup {fresh}
        /\ survivors' = IF t.iat < Sec(cutoff[t.of]) \/ t \in survivors THEN survivors \cup {fresh} ELSE survivors
        /\ UNCHANGED <<now, cutoff, claimed>>

\* POST /logout-all
LogoutAll(t) ==
    /\ End(Authed("logout-all", t))
    /\ cutoff' = [cutoff EXCEPT ![t.of] = now]
    /\ survivors' = survivors \cup {u \in tokens : u.of = t.of /\ u.iat = Sec(now)}
    /\ UNCHANGED <<now, tokens, claimed>>

\* POST /verification-session: the platform token's id is claimed by an insert
\* that only one request wins...
ClaimJti(j) ==
    /\ claimed[j] = "none"
    /\ Begin(Minting(j))
    /\ claimed' = [claimed EXCEPT ![j] = "claimed"]
    /\ UNCHANGED <<now, tokens, cutoff, survivors>>

\* ... the account is provisioned and a read-only session minted, or not.
MintVerification(j) ==
    /\ End(Minting(j))
    /\ claimed' = [claimed EXCEPT ![j] = "issued"]
    /\ tokens' = tokens \cup {Issue("verifier", TRUE, now)}
    /\ UNCHANGED <<now, cutoff, survivors>>

ProvisioningFails(j) ==
    /\ End(Minting(j))
    /\ claimed' = [claimed EXCEPT ![j] = "failed"]
    /\ UNCHANGED <<now, tokens, cutoff, survivors>>

\* A request ends without its write.
Stops(r) == End(r) /\ UNCHANGED <<now, tokens, cutoff, claimed, survivors>>

\* Time passes; an expired token is good for nothing and forgotten.
Tick ==
    /\ now < MaxTime /\ now' = now + 1
    /\ tokens' = {t \in tokens : t.exp > Sec(now')}
    /\ UNCHANGED <<cutoff, requests, claimed, survivors>>

Next ==
    \/ SignsIn \/ Tick
    \/ \E t \in tokens :
        \E kind \in {"touch", "logout-all"} : Authenticate(t, kind)
    \/ \E j \in Jti : ClaimJti(j) \/ MintVerification(j) \/ ProvisioningFails(j)
    \/ \E r \in BagToSet(requests) : Touch(r.token) \/ LogoutAll(r.token) \/ Stops(r)

Spec == Init /\ [][Next]_vars

-----------------------------------------------------------------------------
(* Properties. *)

\* "Revokes every JWT issued before this instant": what still signs in after a
\* logout-all goes back to a sign-in after it, however often it was renewed, or
\* is one of the survivors: issued in the same second, or renewed by a touch
\* that had passed its check.
LogoutAllHolds ==
    \A t \in tokens : ResolveUser(t) /\ t \notin survivors => t.born >= cutoff[t.of]

\* A verification session never becomes one that can write: the verifier's
\* account only ever holds read-only tokens of at most VerifyTtl, one for each
\* platform token.
VerificationStaysReadOnly ==
    /\ \A t \in tokens : t.of = "verifier" => t.vrf /\ t.exp <= Sec(t.born) + VerifyTtl
    /\ Cardinality({t \in tokens : t.vrf}) <= Cardinality({j \in Jti : claimed[j] = "issued"})

-----------------------------------------------------------------------------
(* What the repository says and the code does not do. *)

\* logout-all: "Revokes every JWT issued before this instant for the current
\* user."  Tokens issued earlier in the same second still pass.
RevokedAtOnce == \A t \in tokens : ResolveUser(t) => t.born >= cutoff[t.of]
=============================================================================
