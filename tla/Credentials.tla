----------------------------- MODULE Credentials -----------------------------
(***************************************************************************)
(* What opens the app besides a sign-in: portal links                      *)
(* (src/services/portal-access.service.ts), API keys of the two services   *)
(* that share api_credentials, and agent tokens, with the tools they reach *)
(* (src/services/agent-tools).  A link binds an address to a record and    *)
(* may be used until it is revoked; issuing one retires the ones before.   *)
(***************************************************************************)
EXTENDS Naturals, FiniteSets, Bags

CONSTANTS
    Person, Record,
    Member,     \* people with an account that may write (app.write)
    MaxLinks, MaxKeys, MaxRequests   \* bounds

VARIABLES
    account,   \* people with a users row
    links,     \* portal_access_tokens by number: person, record, live, sent
    requests,  \* issues in progress: [step, who, what, before]
    session,   \* people with a session
    portal,    \* people who have signed in through a link
    keys,      \* api_credentials by number: owner, kind, active
    token,     \* token[u]: no agent token, a fresh or an expired one
    calls      \* the tool call that has read the bindings: <<person, bound>>

vars == <<account, links, requests, session, portal, keys, token, calls>>

Kind == {"api", "mcp"}
TypeOK ==
    /\ account \subseteq Person /\ session \subseteq account /\ portal \subseteq account
    /\ DOMAIN links \subseteq 1 .. MaxLinks /\ DOMAIN keys \subseteq 1 .. MaxKeys
    /\ token \in [Person -> {"none", "fresh", "expired"}]
    /\ \A l \in DOMAIN links : links[l].who \in account

Init ==
    /\ account = Member /\ session = Member /\ portal = {} /\ requests = EmptyBag /\ calls = {}
    /\ links = [l \in {} |-> {}] /\ keys = [k \in {} |-> {}]
    /\ token = [u \in Person |-> "none"]

Bound(u, d) == {l \in DOMAIN links : links[l].who = u /\ links[l].what = d}
Live(u) == {l \in DOMAIN links : links[l].who = u /\ links[l].live}
Advance(r, to) == requests' = (requests (-) SetToBag({r})) (+) SetToBag({[r EXCEPT !.step = to]})

-----------------------------------------------------------------------------
(* Portal links. *)

\* issuePortalAccess, by a member who may invite; resendPortalAccess issues for
\* the person and record of an existing link.  The account is found or made:
\* an existing one is not touched, and the address is UNIQUE.
Issue(u, d) ==
    /\ BagCardinality(requests) < MaxRequests
    /\ account' = account \cup {u}
    /\ requests' = requests (+) SetToBag({[step |-> "retire", who |-> u, what |-> d, before |-> Bound(u, d)]})
    /\ UNCHANGED <<links, session, portal, keys, token, calls>>
Resend(l) == l \in DOMAIN links /\ Issue(links[l].who, links[l].what)

\* Mutant of Retired: a resend retires the newest link.
RetiredNewest(u, d) == {l \in Bound(u, d) : \A m \in Bound(u, d) : m <= l}

\* The links the first UPDATE revokes.
Retired(u, d) == Bound(u, d)

Retire(r) ==
    /\ r.step = "retire" /\ Advance(r, "insert")
    /\ links' = [l \in DOMAIN links |->
           IF l \in Retired(r.who, r.what) THEN [links[l] EXCEPT !.live = FALSE] ELSE links[l]]
    /\ UNCHANGED <<account, session, portal, keys, token, calls>>
InsertLink(r) ==
    LET n == Cardinality(DOMAIN links) + 1
    IN  /\ r.step = "insert" /\ n <= MaxLinks /\ requests' = requests (-) SetToBag({r})
        /\ links' = [l \in 1 .. n |-> IF l = n THEN [who |-> r.who, what |-> r.what, live |-> TRUE] ELSE links[l]]
        /\ UNCHANGED <<account, session, portal, keys, token, calls>>

\* revokePortalAccess, or the day it expires.
EndLink(l) ==
    /\ l \in DOMAIN links /\ links[l].live /\ links' = [links EXCEPT ![l].live = FALSE]
    /\ UNCHANGED <<account, requests, session, portal, keys, token, calls>>

\* claimPortalAccess and the session of POST /claim; not single-use.
Claim(l) ==
    /\ l \in DOMAIN links /\ links[l].live
    /\ session' = session \cup {links[l].who} /\ portal' = portal \cup {links[l].who}
    /\ UNCHANGED <<account, links, requests, keys, token, calls>>

-----------------------------------------------------------------------------
(* API keys: each service mints, verifies and revokes keys of its own kind. *)

Mint(u, k) ==
    LET n == Cardinality(DOMAIN keys) + 1
    IN  /\ u \in session /\ n <= MaxKeys
        /\ keys' = [i \in 1 .. n |-> IF i = n THEN [owner |-> u, kind |-> k, active |-> TRUE] ELSE keys[i]]
        /\ UNCHANGED <<account, links, requests, session, portal, token, calls>>
Revoke(u, i, k) ==
    /\ u \in session /\ i \in DOMAIN keys
    /\ keys' = IF keys[i].owner = u /\ keys[i].kind = k THEN [keys EXCEPT ![i].active = FALSE] ELSE keys
    /\ UNCHANGED <<account, links, requests, session, portal, token, calls>>

\* verify, in the middleware of a kind: an active key of that kind.
Verifies(i, k) == i \in DOMAIN keys /\ keys[i].active /\ keys[i].kind = k

-----------------------------------------------------------------------------
(* Agent tokens and tools. *)

\* mintAgentToken for a signed-in user; it lasts 15 minutes.
MintAgentToken(u) ==
    /\ u \in session /\ token' = [token EXCEPT ![u] = "fresh"]
    /\ UNCHANGED <<account, links, requests, session, portal, keys, calls>>
TokenExpires(u) ==
    /\ token[u] = "fresh" /\ token' = [token EXCEPT ![u] = "expired"]
    /\ UNCHANGED <<account, links, requests, session, portal, keys, calls>>

\* portalBindingsFor: the live links of someone who cannot write.
PortalBindings(u) == IF u \in Member THEN {} ELSE Live(u)

\* tools/call over an agent token or an MCP key: the bindings are read (one call
\* at a time: a call writes nothing here)...
CallTool(u) ==
    /\ token[u] = "fresh" \/ \E i \in DOMAIN keys : keys[i].owner = u /\ Verifies(i, "mcp")
    /\ calls = {} /\ calls' = {<<u, PortalBindings(u)>>}
    /\ UNCHANGED <<account, links, requests, session, portal, keys, token>>
\* ... and the tool runs in their scope; toolAllowed keeps tools that are not
\* portal-safe from people who have one.
ToolAllowed(bound, safe) == bound = {} \/ safe
RunTool(call, safe) ==
    /\ call \in calls /\ ToolAllowed(call[2], safe) /\ calls' = calls \ {call}
    /\ UNCHANGED <<account, links, requests, session, portal, keys, token>>

Next ==
    \/ \E u \in Person, d \in Record : Issue(u, d)
    \/ \E l \in DOMAIN links : Resend(l) \/ EndLink(l) \/ Claim(l)
    \/ \E r \in BagToSet(requests) : Retire(r) \/ InsertLink(r)
    \/ \E u \in Person : MintAgentToken(u) \/ TokenExpires(u) \/ CallTool(u)
    \/ \E u \in Person, k \in Kind : Mint(u, k) \/ \E i \in DOMAIN keys : Revoke(u, i, k)
    \/ \E call \in calls, safe \in BOOLEAN : RunTool(call, safe)

Spec == Init /\ [][Next]_vars

-----------------------------------------------------------------------------
(* Properties. *)

\* "[I]t ISSUES A FRESH LINK and revokes the previous one": when a link is
\* inserted, every link the person had for the record when its request began is
\* dead, whatever other issues, resends and claims run beside it.
RotationRetires ==
    \A r \in BagToSet(requests) : r.step = "insert" => \A l \in r.before : ~links[l].live

-----------------------------------------------------------------------------
(* What the repository says and the code does not do. *)

\* portal-access.service.ts: "One live link per record keeps 'revoke'
\* meaningful".  Two issues in parallel retire, then insert one link each.
OneLiveLink == \A u \in Person, d \in Record : Cardinality({l \in Bound(u, d) : links[l].live}) <= 1

\* registry.ts: "Portal viewers (end users who signed in through a portal link)
\* see ONLY tools marked portalSafe".  Once the last link has ended there is no
\* binding left, and the tools of the viewer role are allowed.
PortalViewersSeeSafeTools == \A call \in calls : call[1] \in portal \ Member => ~ToolAllowed(call[2], FALSE)
==============================================================================
