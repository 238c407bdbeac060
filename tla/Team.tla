-------------------------------- MODULE Team --------------------------------
(***************************************************************************)
(* Invites, roles and membership (src/services/invite.service.ts,          *)
(* src/api/routes/org, src/api/routes/invite, src/lib/roles.ts).  A user   *)
(* is in one organization at a time.  A handler authenticates and reads,   *)
(* and writes later from what it read: it is in `requests` in between.     *)
(***************************************************************************)
EXTENDS Naturals, FiniteSets, Bags

CONSTANTS
    User, Org, Nowhere,
    Founder,       \* Founder[o]: the user who signed up first
    Invite,        \* invite ids, in no order
    MaxRequests    \* bound: requests in progress together

VARIABLES
    user,       \* users: organizationId, role
    invite,     \* invites: organizationId, email (of a user), role, status
    requests,   \* handlers between their reads and their write
    joined,     \* joined[i]: users placed in an organization by invite i
    revoked,    \* invites whose revocation was committed
    displaced   \* organizations a stale write has hit

vars == <<user, invite, requests, joined, revoked, displaced>>

Role == {"viewer", "admin", "owner"}
Granted == {"viewer", "admin"}     \* roles a request may name
Blank == [org |-> Nowhere, email |-> Nowhere, role |-> "viewer", status |-> "free"]

TypeOK ==
    /\ user \in [User -> [org : Org \cup {Nowhere}, role : Role]]
    /\ invite \in [Invite -> [org : Org \cup {Nowhere}, email : User \cup {Nowhere}, role : Granted,
                              status : {"free", "pending", "expired", "accepted", "revoked"}]]
    /\ joined \in [Invite -> Nat] /\ revoked \subseteq Invite /\ displaced \subseteq Org

Init ==
    /\ user = [u \in User |-> IF \E o \in Org : Founder[o] = u
                              THEN [org |-> CHOOSE o \in Org : Founder[o] = u, role |-> "owner"]
                              ELSE [org |-> Nowhere, role |-> "viewer"]]
    /\ invite = [i \in Invite |-> Blank] /\ requests = EmptyBag
    /\ joined = [i \in Invite |-> 0] /\ revoked = {} /\ displaced = {}

Handler(kind, org, by, target, role) ==
    [kind |-> kind, org |-> org, by |-> by, target |-> target, role |-> role]
Begin(r) == BagCardinality(requests) < MaxRequests /\ requests' = requests (+) SetToBag({r})
End(r) == requests' = requests (-) SetToBag({r})

\* requireAuth and requireCapability: a member, with the role the capability asks for.
Can(u, roles) == user[u].org # Nowhere /\ user[u].role \in roles
CanManage(actor, target) == target \in (IF actor = "owner" THEN {"viewer", "admin"} ELSE {"viewer"})

-----------------------------------------------------------------------------
(* Invites. *)

Pending(o, e) == {i \in Invite : invite[i].org = o /\ invite[i].email = e /\ invite[i].status \in {"pending", "expired"}}

\* createInvite: not for a member, not beside a live invite...
CheckInvite(u, e, role) ==
    LET o == user[u].org
        expired == {j \in Invite : j \in Pending(o, e) /\ invite[j].status = "expired"}
    IN  /\ \E j \in Invite : invite[j].status = "free"
        /\ Can(u, {"admin", "owner"}) /\ user[e].org # o
        /\ Pending(o, e) = expired
        /\ \E old \in IF expired = {} THEN {Nowhere} ELSE expired :
               Begin(Handler("invite", o, old, e, role))
        /\ UNCHANGED <<user, invite, joined, revoked, displaced>>

\* ... an expired one is revoked (a stamp that says nothing on one accepted
\* meanwhile), and the partial unique index decides between two inserts.
CreateInvite(r) ==
    LET others == {j \in Pending(r.org, r.target) : j # r.by}
    IN  /\ r.kind = "invite" /\ End(r)
        /\ \E i \in Invite : invite[i].status = "free" /\
               invite' = [j \in Invite |->
                   IF j = r.by /\ invite[j].status # "accepted" THEN [invite[j] EXCEPT !.status = "revoked"]
                   ELSE IF j = i /\ others = {}
                        THEN [org |-> r.org, email |-> r.target, role |-> r.role, status |-> "pending"]
                   ELSE invite[j]]
        /\ revoked' = revoked \cup {j \in Invite : j = r.by /\ invite[j].status # "accepted"}
        /\ UNCHANGED <<user, joined, displaced>>

\* revokeInvite; INVITE_TTL_DAYS pass.
RevokeInvite(u, i) ==
    /\ Can(u, {"admin", "owner"}) /\ invite[i].org = user[u].org /\ invite[i].status \in {"pending", "expired"}
    /\ invite' = [invite EXCEPT ![i].status = "revoked"]
    /\ revoked' = revoked \cup {i}
    /\ UNCHANGED <<user, requests, joined, displaced>>
ExpireInvite(i) ==
    /\ invite[i].status = "pending"
    /\ invite' = [invite EXCEPT ![i].status = "expired"]
    /\ UNCHANGED <<user, requests, joined, revoked, displaced>>

\* resolveInviteByToken, in acceptInvite (by the signed-in addressee) and in
\* claimInvite (by whoever holds the link, for the addressee).
ResolveInvite(i, by) ==
    /\ invite[i].status = "pending" /\ by = invite[i].email
    /\ Begin(Handler("resolved", invite[i].org, i, by, invite[i].role))
    /\ UNCHANGED <<user, invite, joined, revoked, displaced>>

\* Mutant of ClaimInvite: revoked_at is not part of the claim.
ClaimUnlessAccepted(r) ==
    /\ r.kind = "resolved"
    /\ IF invite[r.by].status # "accepted"
       THEN /\ requests' = (requests (-) SetToBag({r})) (+) SetToBag({[r EXCEPT !.kind = "claimed"]})
            /\ invite' = [invite EXCEPT ![r.by].status = "accepted"]
       ELSE End(r) /\ UNCHANGED invite
    /\ UNCHANGED <<user, joined, revoked, displaced>>

\* The atomic claim: neither accepted nor revoked; an invite that has expired
\* since it was resolved still passes.
ClaimInvite(r) ==
    /\ r.kind = "resolved"
    /\ IF invite[r.by].status \in {"pending", "expired"}
       THEN /\ requests' = (requests (-) SetToBag({r})) (+) SetToBag({[r EXCEPT !.kind = "claimed"]})
            /\ invite' = [invite EXCEPT ![r.by].status = "accepted"]
       ELSE End(r) /\ UNCHANGED invite
    /\ UNCHANGED <<user, joined, revoked, displaced>>

\* The second statement: the user is in the organization, at the role.
JoinOrg(r) ==
    /\ r.kind = "claimed" /\ End(r)
    /\ user' = [user EXCEPT ![r.target] = [org |-> r.org, role |-> r.role]]
    /\ joined' = [joined EXCEPT ![r.by] = @ + 1]
    /\ displaced' = IF user[r.target].role = "owner" THEN displaced \cup {user[r.target].org} ELSE displaced
    /\ UNCHANGED <<invite, revoked>>

-----------------------------------------------------------------------------
(* Roles and membership: reads, then a write by user id alone. *)

\* PATCH /members/:userId/role and DELETE /members/:userId up to their checks.
ReadTarget(u, t, kind, role) ==
    /\ kind = "remove" => role = "viewer"
    /\ t # u
    /\ Can(u, {"admin", "owner"}) /\ user[t].org = user[u].org /\ CanManage(user[u].role, user[t].role)
    /\ Begin(Handler(kind, user[u].org, u, t, role))
    /\ UNCHANGED <<user, invite, joined, revoked, displaced>>

\* A write that lands on an owner leaves an organization without one.
Hits(t) == IF user[t].role = "owner" THEN displaced \cup {user[t].org} ELSE displaced

UpdateRole(r) ==
    /\ r.kind = "role" /\ End(r)
    /\ user' = [user EXCEPT ![r.target].role = r.role]
    /\ displaced' = Hits(r.target)
    /\ UNCHANGED <<invite, joined, revoked>>

RemoveMember(r) ==
    /\ r.kind \in {"remove", "leave"} /\ End(r)
    /\ user' = [user EXCEPT ![r.target] = [org |-> Nowhere, role |-> "viewer"]]
    /\ displaced' = Hits(r.target)
    /\ UNCHANGED <<invite, joined, revoked>>

\* POST /leave: the role is the one requireAuth read.
Leave(u) ==
    /\ Can(u, {"viewer", "admin"})
    /\ Begin(Handler("leave", user[u].org, u, u, "viewer"))
    /\ UNCHANGED <<user, invite, joined, revoked, displaced>>

\* POST /transfer-ownership up to its transaction.
ReadSuccessor(u, t) ==
    /\ Can(u, {"owner"}) /\ t # u /\ user[t].org = user[u].org
    /\ Begin(Handler("transfer", user[u].org, u, t, "owner"))
    /\ UNCHANGED <<user, invite, joined, revoked, displaced>>

\* Mutant of TransferOwnership: the demotion is not predicated on the role.
TransferAnyway(r) ==
    /\ r.kind = "transfer" /\ End(r)
    /\ user' = [u \in User |->
           IF u = r.target /\ user[u].org = r.org THEN [user[u] EXCEPT !.role = "owner"]
           ELSE IF u = r.by THEN [user[u] EXCEPT !.role = "admin"] ELSE user[u]]
    /\ UNCHANGED <<invite, joined, revoked, displaced>>

\* The transaction: the caller is demoted while still an owner, and the
\* successor promoted if still a member; nobody checks that one was.
TransferOwnership(r) ==
    /\ r.kind = "transfer" /\ user[r.by].role = "owner" /\ End(r)
    /\ user' = [u \in User |->
           IF u = r.by THEN [user[u] EXCEPT !.role = "admin"]
           ELSE IF u = r.target /\ user[u].org = r.org THEN [user[u] EXCEPT !.role = "owner"] ELSE user[u]]
    /\ displaced' = IF user[r.by].org # r.org \/ user[r.target].org # r.org
                    THEN displaced \cup {user[r.by].org, r.org} ELSE displaced
    /\ UNCHANGED <<invite, joined, revoked>>

\* A request refused by its last guard, or cut off.
Stops(r) == End(r) /\ UNCHANGED <<user, invite, joined, revoked, displaced>>

Next ==
    \/ \E u \in User :
        \/ \E e \in User, role \in Granted : CheckInvite(u, e, role)
        \/ \E i \in Invite : RevokeInvite(u, i) \/ ResolveInvite(i, u)
        \/ \E t \in User, kind \in {"role", "remove"}, role \in Granted : ReadTarget(u, t, kind, role)
        \/ \E t \in User : ReadSuccessor(u, t)
        \/ Leave(u)
    \/ \E i \in Invite : ExpireInvite(i)
    \/ \E r \in BagToSet(requests) :
        \/ CreateInvite(r) \/ ClaimInvite(r) \/ JoinOrg(r) \/ UpdateRole(r) \/ RemoveMember(r) \/ TransferOwnership(r) \/ Stops(r)

Spec == Init /\ [][Next]_vars

-----------------------------------------------------------------------------
(* Properties. *)

\* An invite admits its addressee once at most, and never once its revocation
\* was committed: of parallel clicks and a revocation one wins.
InviteAdmitsOnce == \A i \in Invite : joined[i] <= (IF i \in revoked THEN 0 ELSE 1)

\* An organization has one owner, whatever transfers, removals, role changes
\* and moves are in flight, unless a write from an older read has hit an owner.
OneOwner ==
    \A o \in Org \ displaced : Cardinality({u \in User : user[u] = [org |-> o, role |-> "owner"]}) = 1

-----------------------------------------------------------------------------
(* What the repository says and the code does not do. *)

\* org/index.ts: "the one deliberate way the owner role moves between accounts".
\* A role change, a removal or a leave that read its target before a transfer,
\* a transfer to somebody who has just left, and an owner who accepts an invite
\* elsewhere leave the organization without an owner.
OrgKeepsOwner == \A o \in Org : \E u \in User : user[u] = [org |-> o, role |-> "owner"]
=============================================================================
