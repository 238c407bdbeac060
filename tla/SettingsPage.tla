----------------------------- MODULE SettingsPage -----------------------------
(***************************************************************************)
(* The settings page of the web client (web/src/routes/Settings.svelte     *)
(* over the organization and auth stores): it loads the team, the invites  *)
(* and the email settings once, sends each change and patches what it      *)
(* shows from the answer.                                                  *)
(***************************************************************************)
EXTENDS Naturals, FiniteSets

CONSTANTS
    Member, Me,     \* the team and whose page it is
    Address,        \* addresses invited or moved to
    Overlap,        \* a change may be sent while another is under way
    MaxChanges      \* bound: changes sent

VARIABLES
    role, invited, wants, email,        \* the server: roles ("gone" for none), invites, email settings, Me's address
    members, invites, shows, identity,  \* the page's copies; identity is authStore's user
    code,                               \* the address the server's last email-change code is for, {} or one
    form,                               \* the email-change form
    pending,                            \* requests under way
    changes

vars == <<role, invited, wants, email, members, invites, shows, identity, code, form, pending, changes>>

Rank == [owner |-> 100, admin |-> 80, editor |-> 50, viewer |-> 20, gone |-> 0]
Assignable == {"admin", "viewer"}
Setting == {"me", "org"}
Fetch == {"members", "invites", "settings", "session"}

\* permissions.ts, the same table as the server's.
HasAtLeast(r, minimum) == Rank[r] >= Rank[minimum]
CanManage(actor, target) ==
    HasAtLeast(actor, "admin") /\ target \notin {"owner", "gone"} /\ (target = "admin" => actor = "owner")

Init ==
    /\ role \in {r \in [Member -> {"owner", "admin", "viewer"}] : Cardinality({m \in Member : r[m] = "owner"}) = 1}
    /\ invited = {} /\ wants = [s \in Setting |-> TRUE] /\ email = "own" /\ code = {}
    /\ members = [m \in Member |-> "gone"] /\ invites = {} /\ shows = [s \in Setting |-> TRUE]
    /\ identity = [role |-> role[Me], email |-> "own"]
    /\ form = [open |-> FALSE, asked |-> FALSE, to |-> {}, busy |-> FALSE]
    /\ pending = {[kind |-> k, arg |-> {}, state |-> "sent", returned |-> {}] : k \in Fetch \ {"session"}}
    /\ changes = 0

TypeOK ==
    /\ role \in [Member -> DOMAIN Rank] /\ members \in [Member -> DOMAIN Rank] /\ changes \in 0..MaxChanges
    /\ invited \subseteq Address /\ invites \subseteq Address /\ wants \in [Setting -> BOOLEAN]
    /\ shows \in [Setting -> BOOLEAN] /\ code \subseteq Address /\ form.to \subseteq Address

server == <<role, invited, wants, email, code>>
view == <<members, invites, shows, identity>>

\* A change is sent.
Send(kind, arg) ==
    /\ changes < MaxChanges /\ changes' = changes + 1 /\ (Overlap \/ pending = {})
    /\ pending' = pending \cup {[kind |-> kind, arg |-> arg, state |-> "sent", returned |-> {}]}

-----------------------------------------------------------------------------
(* What the page lets its user do. *)

Invite(a) ==
    /\ HasAtLeast(identity.role, "admin") /\ Send("invite", {a}) /\ UNCHANGED <<server, view, form>>
Revoke(a) ==
    /\ HasAtLeast(identity.role, "admin") /\ a \in invites /\ Send("revoke", {a}) /\ UNCHANGED <<server, view, form>>
RoleChange(m, r) ==
    /\ m # Me /\ CanManage(identity.role, members[m]) /\ Send("role", <<m, r>>) /\ UNCHANGED <<server, view, form>>
Remove(m) ==
    /\ m # Me /\ CanManage(identity.role, members[m]) /\ Send("remove", m) /\ UNCHANGED <<server, view, form>>
TransferOwnership(m) ==
    /\ identity.role = "owner" /\ m # Me /\ members[m] \notin {"owner", "gone"}
    /\ Send("transfer", m) /\ UNCHANGED <<server, view, form>>
Toggle(s) ==
    /\ s = "org" => HasAtLeast(identity.role, "admin")
    /\ Send("toggle", <<s, ~ shows[s]>>) /\ UNCHANGED <<server, view, form>>

\* The email-change form: opened, typed into, cancelled at any time.
OpenForm ==
    /\ ~ form.open /\ form' = [form EXCEPT !.open = TRUE] /\ UNCHANGED <<server, view, pending, changes>>
TypeEmail(a) ==
    /\ form.open /\ ~ form.asked /\ form' = [form EXCEPT !.to = {a}] /\ UNCHANGED <<server, view, pending, changes>>
ResetEmailChange ==
    /\ form.open /\ form' = [form EXCEPT !.open = FALSE, !.asked = FALSE, !.to = {}]
    /\ UNCHANGED <<server, view, pending, changes>>
RequestEmailChange ==
    /\ form.open /\ ~ form.asked /\ ~ form.busy /\ form.to # {} /\ Send("code", form.to)
    /\ form' = [form EXCEPT !.busy = TRUE] /\ UNCHANGED <<server, view>>
ConfirmEmailChange ==
    /\ form.open /\ form.asked /\ ~ form.busy /\ Send("confirm", form.to)
    /\ form' = [form EXCEPT !.busy = TRUE] /\ UNCHANGED <<server, view>>

-----------------------------------------------------------------------------
\* The server's side of a change: what it allows it does.
Allows(k, arg) ==
    CASE k = "invite" -> HasAtLeast(role[Me], "admin") /\ arg \cap invited = {}
      [] k = "revoke" -> HasAtLeast(role[Me], "admin") /\ arg \subseteq invited
      [] k = "role" -> CanManage(role[Me], role[arg[1]])
      [] k = "remove" -> CanManage(role[Me], role[arg])
      [] k = "transfer" -> role[Me] = "owner" /\ role[arg] # "gone"
      [] k = "toggle" -> arg[1] = "org" => HasAtLeast(role[Me], "admin")
      [] k = "confirm" -> code # {} /\ code = arg
      [] OTHER -> TRUE
\* What a fetch reads.
Answer(k) ==
    CASE k = "members" -> {role} [] k = "invites" -> {invited} [] k = "settings" -> {wants}
      [] k = "session" -> {[role |-> role[Me], email |-> email]} [] OTHER -> {}
Serve(r) ==
    /\ r.state = "sent"
    /\ LET ok == Allows(r.kind, r.arg) IN
       /\ pending' = (pending \ {r}) \cup {[r EXCEPT !.state = IF ok THEN "done" ELSE "refused", !.returned = Answer(r.kind)]}
       /\ role' = IF ~ ok THEN role
                  ELSE CASE r.kind = "role" -> [role EXCEPT ![r.arg[1]] = r.arg[2]]
                         [] r.kind = "remove" -> [role EXCEPT ![r.arg] = "gone"]
                         [] r.kind = "transfer" -> [role EXCEPT ![r.arg] = "owner", ![Me] = "admin"]
                         [] OTHER -> role
       /\ invited' = CASE ok /\ r.kind = "invite" -> invited \cup r.arg
                       [] ok /\ r.kind = "revoke" -> invited \ r.arg [] OTHER -> invited
       /\ wants' = IF ok /\ r.kind = "toggle" THEN [wants EXCEPT ![r.arg[1]] = r.arg[2]] ELSE wants
       /\ code' = CASE r.kind = "code" -> r.arg [] ok /\ r.kind = "confirm" -> {} [] OTHER -> code
       /\ email' = IF ok /\ r.kind = "confirm" THEN CHOOSE a \in r.arg : TRUE ELSE email
    /\ UNCHANGED <<view, form, changes>>

-----------------------------------------------------------------------------
\* Mutant of Patched: the new owner is shown, the old one stays as it was.
PatchedOne(r) ==
    CASE r.kind = "members" -> CHOOSE x \in r.returned : TRUE
      [] r.kind = "role" -> [members EXCEPT ![r.arg[1]] = r.arg[2]]
      [] r.kind = "remove" -> [members EXCEPT ![r.arg] = "gone"]
      [] r.kind = "transfer" -> [members EXCEPT ![r.arg] = "owner"]
      [] OTHER -> members

\* The members after an answer: fetched, or patched in place.
Patched(r) ==
    CASE r.kind = "members" -> CHOOSE x \in r.returned : TRUE
      [] r.kind = "role" -> [members EXCEPT ![r.arg[1]] = r.arg[2]]
      [] r.kind = "remove" -> [members EXCEPT ![r.arg] = "gone"]
      [] r.kind = "transfer" -> [members EXCEPT ![r.arg] = "owner", ![Me] = "admin"]
      [] OTHER -> members

\* An answer lands: the copy is patched, and who the user is asked again where that changed.
Land(r) ==
    /\ r.state = "done"
    /\ pending' = (pending \ {r}) \cup
         IF r.kind \in {"transfer", "confirm"}
         THEN {[kind |-> "session", arg |-> {}, state |-> "sent", returned |-> {}]} ELSE {}
    /\ members' = Patched(r)
    /\ invites' = CASE r.kind = "invites" -> (CHOOSE x \in r.returned : TRUE)
                    [] r.kind = "invite" -> invites \cup r.arg [] r.kind = "revoke" -> invites \ r.arg
                    [] OTHER -> invites
    /\ shows' = CASE r.kind = "settings" -> (CHOOSE x \in r.returned : TRUE)
                  [] r.kind = "toggle" -> [shows EXCEPT ![r.arg[1]] = r.arg[2]] [] OTHER -> shows
    /\ identity' = IF r.kind = "session" THEN CHOOSE x \in r.returned : TRUE ELSE identity
    /\ form' = CASE r.kind = "code" -> [form EXCEPT !.asked = TRUE, !.busy = FALSE]
                 [] r.kind = "confirm" -> [open |-> FALSE, asked |-> FALSE, to |-> {}, busy |-> FALSE]
                 [] OTHER -> form
    /\ UNCHANGED <<server, changes>>
\* A refusal: the switch goes back to where it was, the rest stays as shown.
Refuse(r) ==
    /\ r.state = "refused" /\ pending' = pending \ {r}
    /\ shows' = IF r.kind = "toggle" THEN [shows EXCEPT ![r.arg[1]] = ~ r.arg[2]] ELSE shows
    /\ form' = IF r.kind \in {"code", "confirm"} THEN [form EXCEPT !.busy = FALSE] ELSE form
    /\ UNCHANGED <<server, members, invites, identity, changes>>

Next ==
    \/ \E a \in Address : Invite(a) \/ Revoke(a) \/ TypeEmail(a)
    \/ \E m \in Member : Remove(m) \/ TransferOwnership(m) \/ \E r \in Assignable : RoleChange(m, r)
    \/ \E s \in Setting : Toggle(s)
    \/ OpenForm \/ ResetEmailChange \/ RequestEmailChange \/ ConfirmEmailChange
    \/ \E r \in pending : Serve(r) \/ Land(r) \/ Refuse(r)
Spec == Init /\ [][Next]_vars

-----------------------------------------------------------------------------
\* When nothing is under way the page shows what the server holds: the team and
\* the user's own role after an ownership transfer, the invites, the email
\* settings, the address.  Holds while changes are sent one at a time; two toggles
\* whose answers cross leave the switch at the value the server dropped.
ShowsTheServer ==
    pending = {} =>
        /\ members = role /\ invites = invited /\ shows = wants
        /\ identity = [role |-> role[Me], email |-> email]
\* What keeps it so: of changes one is under way at most, and without fetches; a
\* copy that is not the server's is about to be fetched, or an answer is there that
\* patches it to what the server holds.
Patches(r, kinds) == r.state = "done" /\ r.kind \in kinds
Sound(r) ==
    /\ DOMAIN r = {"kind", "arg", "state", "returned"} /\ r.state \in {"sent", "done", "refused"}
    /\ r.kind \in Fetch => r.state # "refused" /\ (r.state = "done" => r.returned = Answer(r.kind))
    /\ r.kind \notin Fetch => pending = {r}
    /\ r.kind = "role" => r.arg[1] # Me /\ r.arg[2] \in Assignable
    /\ r.kind = "remove" => r.arg # Me
    /\ r.kind = "toggle" => r.arg[1] \in Setting /\ r.arg[2] = ~ shows[r.arg[1]]
    /\ Patches(r, {"role", "remove", "transfer"}) => role = Patched(r)
    /\ Patches(r, {"invite"}) => invited = invites \cup r.arg
    /\ Patches(r, {"revoke"}) => invited = invites \ r.arg
    /\ Patches(r, {"toggle"}) => wants = [shows EXCEPT ![r.arg[1]] = r.arg[2]]
SettingsInv ==
    /\ role \in [Member -> DOMAIN Rank] /\ shows \in [Setting -> BOOLEAN] /\ wants \in [Setting -> BOOLEAN]
    /\ \A r \in pending : Sound(r)
    /\ members = role \/ \E r \in pending : r.kind = "members" \/ Patches(r, {"role", "remove", "transfer"})
    /\ invites = invited \/ \E r \in pending : r.kind = "invites" \/ Patches(r, {"invite", "revoke"})
    /\ shows = wants \/ \E r \in pending : r.kind = "settings" \/ Patches(r, {"toggle"})
    /\ identity = [role |-> role[Me], email |-> email]
         \/ \E r \in pending : r.kind = "session" \/ Patches(r, {"transfer", "confirm"})
\* The code step of the form is shown for the address the code went to.  Does not
\* hold: cancelling and typing while the request is under way.
CodeForShownAddress == form.open /\ form.asked => form.to = code
=============================================================================
