------------------------------ MODULE McpOAuth ------------------------------
(***************************************************************************)
(* The OAuth server for assistants (src/services/mcp-oauth/service.ts,     *)
(* src/api/routes/mcp/oauth.ts): approvals become single-use codes, a code *)
(* becomes a token pair, a refresh rotates the pair, and logout-all cuts   *)
(* every chain off.  One user and one client: rows of others are never     *)
(* touched.  `era` counts logout-all cutoffs: a row was created at or      *)
(* after the cutoff when its era is the current one.                       *)
(***************************************************************************)
EXTENDS Naturals, FiniteSets, Bags

CONSTANTS
    Code,          \* approvals
    MaxPairs,      \* bound: token pairs ever issued
    MaxLogouts,    \* bound: logout-all requests
    MaxRequests    \* bound: requests in progress together

VARIABLES
    code,       \* mcp_oauth_auth_codes: status by approval
    pairs,      \* mcp_oauth_tokens: id, code the chain goes back to, era, revoked, expired
    era,        \* users.token_invalidated_before
    requests,   \* handlers between two transactions
    began,      \* began[c]: era of the first pair of the chain, 0: none
    rotating    \* chains with a rotation in progress at a logout-all

vars == <<code, pairs, era, requests, began, rotating>>

Pair == [id : 1 .. MaxPairs, code : Code, era : Nat, revoked : BOOLEAN, expired : {"no", "access", "both"}]

TypeOK ==
    /\ code \in [Code -> {"none", "live", "used", "expired"}]
    /\ pairs \subseteq Pair /\ era \in 1 .. MaxLogouts + 1
    /\ IsABag(requests)
    /\ BagToSet(requests) \subseteq [kind : {"consumed", "rotated", "logout"}, code : Code \cup {"none"}]
    /\ began \in [Code -> 0 .. MaxLogouts + 1] /\ rotating \subseteq Code

Init ==
    /\ code = [c \in Code |-> "none"] /\ pairs = {} /\ era = 1
    /\ requests = EmptyBag /\ began = [c \in Code |-> 0] /\ rotating = {}

Begin(r) == BagCardinality(requests) < MaxRequests /\ requests' = requests (+) SetToBag({r})
End(r) == r \in BagToSet(requests) /\ requests' = requests (-) SetToBag({r})
Handler(kind, c) == [kind |-> kind, code |-> c]
Copies(r) == IF r \in BagToSet(requests) THEN requests[r] ELSE 0

\* Mutant of IssuedAfterLogoutAll: only is_revoked is looked at.
NoCutoff(p) == TRUE

\* issuedAfterLogoutAll
IssuedAfterLogoutAll(p) == p.era = era

\* lookupByAccessToken, and the read of refreshTokens.
Live(p) == ~p.revoked /\ IssuedAfterLogoutAll(p)
AccessWorks(p) == Live(p) /\ p.expired = "no"
RefreshWorks(p) == Live(p) /\ p.expired # "both"

\* POST /authorize, approved: a code, good for AUTH_CODE_TTL_MS.
Approve(c) ==
    /\ code[c] = "none"
    /\ code' = [code EXCEPT ![c] = "live"]
    /\ UNCHANGED <<pairs, era, requests, began, rotating>>
ExpireCode(c) ==
    /\ code[c] = "live"
    /\ code' = [code EXCEPT ![c] = "expired"]
    /\ UNCHANGED <<pairs, era, requests, began, rotating>>

\* Mutant of Consume: the code is read without its lock.
ConsumeUnlocked(c) ==
    /\ code[c] \in {"live", "used"}
    /\ code' = [code EXCEPT ![c] = "used"]
    /\ Begin(Handler("consumed", c))
    /\ UNCHANGED <<pairs, era, began, rotating>>

\* POST /token with a code: consumed under its row lock, once, also when the
\* checks of the client, the redirect and the verifier then refuse.
Consume(c) ==
    /\ code[c] = "live"
    /\ code' = [code EXCEPT ![c] = "used"]
    /\ Begin(Handler("consumed", c))
    /\ UNCHANGED <<pairs, era, began, rotating>>

\* POST /token with a refresh token: the pair is revoked under its lock...
Rotate(p) ==
    /\ p \in pairs /\ RefreshWorks(p)
    /\ pairs' = (pairs \ {p}) \cup {[p EXCEPT !.revoked = TRUE]}
    /\ Begin(Handler("rotated", p.code))
    /\ UNCHANGED <<code, era, began, rotating>>

\* ... and a new one inserted afterwards (issueTokens).
IssueTokens(c) ==
    /\ Cardinality(pairs) < MaxPairs
    /\ End(Handler("consumed", c)) \/ End(Handler("rotated", c))
    /\ pairs' = pairs \cup {[id |-> Cardinality(pairs) + 1, code |-> c, era |-> era, revoked |-> FALSE, expired |-> "no"]}
    /\ began' = [began EXCEPT ![c] = IF @ = 0 THEN era ELSE @]
    /\ UNCHANGED <<code, era, rotating>>

ExpirePair(p) ==
    /\ p \in pairs /\ p.expired # "both"
    /\ pairs' = (pairs \ {p}) \cup {[p EXCEPT !.expired = IF @ = "no" THEN "access" ELSE "both"]}
    /\ UNCHANGED <<code, era, requests, began, rotating>>

\* POST /revoke with either token.
RevokeToken(p) ==
    /\ p \in pairs
    /\ pairs' = (pairs \ {p}) \cup {[p EXCEPT !.revoked = TRUE]}
    /\ UNCHANGED <<code, era, requests, began, rotating>>

\* POST /api/auth/logout-all: the cutoff, and then revokeAllForUser.
SetCutoff ==
    /\ era <= MaxLogouts
    /\ Begin(Handler("logout", "none"))
    /\ era' = era + 1
    /\ rotating' = rotating \cup {r.code : r \in {q \in BagToSet(requests) : q.kind = "rotated"}}
    /\ UNCHANGED <<code, pairs, began>>

RevokeAllForUser ==
    /\ End(Handler("logout", "none"))
    /\ pairs' = {[p EXCEPT !.revoked = TRUE] : p \in pairs}
    /\ UNCHANGED <<code, era, began, rotating>>

\* A process dies, or a check refuses, between two transactions.
Stops(r) == End(r) /\ UNCHANGED <<code, pairs, era, began, rotating>>

Next ==
    \/ \E c \in Code : Approve(c) \/ ExpireCode(c) \/ Consume(c) \/ IssueTokens(c)
    \/ \E p \in pairs : Rotate(p) \/ ExpirePair(p) \/ RevokeToken(p)
    \/ SetCutoff \/ RevokeAllForUser
    \/ \E r \in BagToSet(requests) : Stops(r)

Spec == Init /\ [][Next]_vars

-----------------------------------------------------------------------------
(* Properties. *)

\* An approval has one pair that works, or one being issued, at a time: a code
\* redeemed twice and a refresh retried by the client never fork the chain.
OneChainPerApproval ==
    \A c \in Code :
        Cardinality({p \in pairs : p.code = c /\ RefreshWorks(p)})
            + Copies(Handler("consumed", c)) + Copies(Handler("rotated", c)) <= 1

\* Logout-all ends every chain that had a pair before it, also when the process
\* dies before revokeAllForUser, except a chain whose rotation was between its
\* two transactions at that moment.
LogoutDisconnects ==
    \A p \in pairs : RefreshWorks(p) => began[p.code] = era \/ p.code \in rotating

-----------------------------------------------------------------------------
(* What the repository says and the code does not do. *)

\* service.ts: "the filter also stops a chain that began before the cutoff from
\* refreshing".  A rotation that revoked the old pair before the cutoff
\* inserts the new one after it.
NoChainOutlivesLogout == \A p \in pairs : RefreshWorks(p) => began[p.code] = era
=============================================================================
