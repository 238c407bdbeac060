------------------------------ MODULE SignInPage ------------------------------
(***************************************************************************)
(* The pages a visitor signs in on (web/src/routes/Login, Signup and       *)
(* InviteAccept over the auth store): a form in two steps whose requests   *)
(* land while it is used, and an invite that is claimed as soon as its     *)
(* page is open.  While the session is asked for App.svelte shows no page, *)
(* so the page that asked is gone when the answer is in.                   *)
(***************************************************************************)
EXTENDS Naturals, FiniteSets

CONSTANTS
    Address, Invitee,  \* addresses; the one the invite is for
    Overlap,           \* a page may be left while one of its requests is under way
    MaxMounts,         \* bound: pages mounted
    MaxResends         \* bound: resends under way

VARIABLES
    cookie,   \* whose session the browser holds, {} or one
    user,     \* authStore.user, {} or one
    loading,  \* authStore.isLoading
    page,     \* "login", "invite" or "home"
    mount,    \* pages mounted so far; a request remembers which one sent it
    form,     \* the form of Login and Signup
    invite,   \* the state of InviteAccept
    open,     \* the invite is open at the server
    pending   \* requests under way

vars == <<cookie, user, loading, page, mount, form, invite, open, pending>>

EmptyForm == [step |-> 1, email |-> {}, sentTo |-> {}, busy |-> FALSE]
FreshInvite == [preview |-> "loading", accepting |-> FALSE, error |-> FALSE]
Request(kind, who) == [kind |-> kind, who |-> who, mount |-> mount, state |-> "sent", answer |-> {}]

TypeOK ==
    /\ cookie \in SUBSET Address /\ user \in SUBSET Address /\ loading \in BOOLEAN /\ open \in BOOLEAN
    /\ page \in {"login", "invite", "home"} /\ mount \in 0..MaxMounts
    /\ form \in [step : {1, 2}, email : SUBSET Address, sentTo : SUBSET Address, busy : BOOLEAN]
    /\ invite \in [preview : {"loading", "shown", "failed"}, accepting : BOOLEAN, error : BOOLEAN]
    /\ \A r \in pending : r.state \in {"sent", "done", "failed"} /\ r.mount \in 0..MaxMounts

\* App.svelte mounts: the session is asked for before any page is shown.
Init ==
    /\ cookie \in {{}} \cup {{a} : a \in Address} /\ user = {} /\ loading = TRUE /\ page \in {"login", "invite"}
    /\ mount = 0 /\ form = EmptyForm /\ invite = FreshInvite /\ open = TRUE
    /\ pending = {[kind |-> "boot", who |-> {}, mount |-> 0, state |-> "sent", answer |-> {}]}

net == <<cookie, user, loading, page, mount, open>>
Send(r) == pending' = pending \cup {r}
\* A page comes up (p) with the requests rest still under way: InviteAccept asks for its preview.
Mount(p, rest) ==
    /\ mount < MaxMounts /\ mount' = mount + 1 /\ page' = p /\ form' = EmptyForm /\ invite' = FreshInvite
    /\ pending' = rest \cup
         IF p = "invite" THEN {[kind |-> "preview", who |-> {}, mount |-> mount + 1, state |-> "sent", answer |-> {}]}
         ELSE {}
Leave(p) == ~ loading /\ page # p /\ (Overlap \/ pending = {}) /\ Mount(p, pending) /\ UNCHANGED <<cookie, user, loading, open>>

-----------------------------------------------------------------------------
(* Login and Signup. *)

OnForm(step) == page = "login" /\ ~ loading /\ form.step = step

\* The address can be edited while the code is being sent.
TypeEmail(a) ==
    /\ OnForm(1) /\ form' = [form EXCEPT !.email = {a}] /\ UNCHANGED <<net, invite, pending>>
HandleSendOtp ==
    /\ OnForm(1) /\ form.email # {} /\ ~ form.busy /\ form' = [form EXCEPT !.busy = TRUE]
    /\ Send(Request("send", form.email)) /\ UNCHANGED <<net, invite>>
HandleVerifyOtp ==
    /\ OnForm(2) /\ ~ form.busy /\ form' = [form EXCEPT !.busy = TRUE]
    /\ Send(Request("verify", form.email)) /\ UNCHANGED <<net, invite>>
\* Never disabled.
HandleResend ==
    /\ OnForm(2) /\ Cardinality({r \in pending : r.kind = "resend"}) < MaxResends
    /\ Send(Request("resend", form.email)) /\ UNCHANGED <<net, form, invite>>

\* Mutant of GoBack: the form is free again while its request is under way.
GoBackFrees ==
    /\ OnForm(2) /\ form' = [form EXCEPT !.step = 1, !.busy = FALSE] /\ UNCHANGED <<net, invite, pending>>

\* The address is kept, and so is what is under way.
GoBack ==
    /\ OnForm(2) /\ form' = [form EXCEPT !.step = 1] /\ UNCHANGED <<net, invite, pending>>
\* The button of development builds.
HandleDevLogin ==
    /\ OnForm(1) /\ ~ form.busy /\ form.email # {} /\ form' = [form EXCEPT !.busy = TRUE]
    /\ Send(Request("dev", form.email)) /\ UNCHANGED <<net, invite>>

-----------------------------------------------------------------------------
(* InviteAccept. *)

\* The button, once the claim the page made of itself has failed.
AcceptInvite ==
    /\ page = "invite" /\ ~ loading /\ invite.preview = "shown" /\ ~ invite.accepting /\ (Overlap \/ pending = {})
    /\ invite' = [invite EXCEPT !.accepting = TRUE, !.error = FALSE]
    /\ Send(Request("claim", {Invitee})) /\ UNCHANGED <<net, form>>
\* The card shown to a user of another address, and the sidebar's button.
SignOut ==
    /\ ~ loading /\ user # {} /\ (Overlap \/ pending = {})
    /\ page = "home" \/ (page = "invite" /\ invite.preview = "shown" /\ user # {Invitee})
    /\ Send(Request("logout", {})) /\ UNCHANGED <<net, form, invite>>

-----------------------------------------------------------------------------
\* A request at the server; an answer that arrives sets the cookie before its handler runs.
Serve(r, ok, arrives) ==
    /\ r.state = "sent"
    /\ LET served == CASE r.kind \in {"preview", "claim"} -> open /\ ok [] OTHER -> ok
           sets == served /\ arrives
       IN  /\ pending' = (pending \ {r}) \cup
                {[r EXCEPT !.state = IF sets THEN "done" ELSE "failed",
                           !.answer = IF r.kind \in {"boot", "session"} THEN cookie ELSE r.who]}
           /\ open' = (open /\ ~ (served /\ r.kind = "claim"))
           /\ cookie' = CASE sets /\ r.kind \in {"verify", "dev", "claim"} -> r.who
                          [] sets /\ r.kind = "logout" -> {}
                          [] OTHER -> cookie
    /\ UNCHANGED <<user, loading, page, mount, form, invite>>

Mine(r) == r.mount = mount
Done(r, kinds) == r.state # "sent" /\ r.kind \in kinds

\* sendOtp ends: the form goes on.
SendLands(r) ==
    /\ Done(r, {"send", "resend"}) /\ pending' = pending \ {r}
    /\ form' = IF r.kind = "resend" \/ ~ Mine(r) THEN form
               ELSE IF r.state = "done" THEN [form EXCEPT !.step = 2, !.sentTo = r.who, !.busy = FALSE]
               ELSE [form EXCEPT !.busy = FALSE]
    /\ UNCHANGED <<net, invite>>
\* verifyOtp ends: the user is who the answer names, and the app is opened.
VerifyLands(r) ==
    /\ Done(r, {"verify"})
    /\ \/ r.state = "done" /\ user' = r.answer /\ Mount("home", pending \ {r})
       \/ /\ r.state = "failed" /\ pending' = pending \ {r}
          /\ form' = IF Mine(r) THEN [form EXCEPT !.busy = FALSE] ELSE form
          /\ UNCHANGED <<user, page, mount, invite>>
    /\ UNCHANGED <<cookie, loading, open>>
\* The dev login or the claim ends: the session is asked for, and the page taken down meanwhile.
AsksSession(r) ==
    /\ Done(r, {"dev", "claim"})
    /\ \/ /\ r.state = "done" /\ loading' = TRUE
          /\ pending' = (pending \ {r}) \cup {[r EXCEPT !.kind = "session", !.state = "sent"]}
          /\ UNCHANGED <<form, invite>>
       \/ /\ r.state = "failed" /\ pending' = pending \ {r} /\ UNCHANGED loading
          /\ form' = IF Mine(r) /\ r.kind = "dev" THEN [form EXCEPT !.busy = FALSE] ELSE form
          /\ invite' = IF Mine(r) /\ r.kind = "claim" THEN [invite EXCEPT !.accepting = FALSE, !.error = TRUE] ELSE invite
    /\ UNCHANGED <<cookie, user, page, mount, open>>
\* The preview is in: the effect claims at once, whoever is signed in.
PreviewLands(r) ==
    /\ Done(r, {"preview"})
    /\ LET shown == Mine(r) /\ r.state = "done" IN
       /\ pending' = (pending \ {r}) \cup IF shown THEN {Request("claim", {Invitee})} ELSE {}
       /\ invite' = IF ~ Mine(r) THEN invite
                    ELSE [invite EXCEPT !.preview = IF shown THEN "shown" ELSE "failed", !.accepting = shown]
    /\ UNCHANGED <<net, form>>
\* Signed in, or turned away by App.svelte.
App(u) == IF u = {} THEN "login" ELSE "home"
\* checkAuth ends: the page is mounted anew.  The dev login opens the app at once;
\* the claim loads the organization first, and opens the app in the end.
SessionLands(r) ==
    /\ Done(r, {"boot", "session"}) /\ loading' = FALSE
    /\ user' = IF r.state = "done" THEN r.answer ELSE {}
    /\ IF r.kind = "session" /\ page = "login" THEN Mount(App(user'), pending \ {r})
       ELSE Mount(page, (pending \ {r}) \cup
                          IF r.kind = "session" THEN {[r EXCEPT !.kind = "open", !.state = "done"]} ELSE {})
    /\ UNCHANGED <<cookie, open>>
OpensApp(r) ==
    /\ Done(r, {"open"}) /\ Mount(App(user), pending \ {r})
    /\ UNCHANGED <<cookie, user, loading, open>>
LogoutLands(r) ==
    /\ Done(r, {"logout"}) /\ user' = {} /\ Mount("login", pending \ {r}) /\ UNCHANGED <<cookie, loading, open>>

Next ==
    \/ \E a \in Address : TypeEmail(a)
    \/ HandleSendOtp \/ HandleVerifyOtp \/ HandleResend \/ GoBack \/ HandleDevLogin \/ AcceptInvite \/ SignOut
    \/ Leave("login") \/ Leave("invite")
    \/ \E r \in pending : SendLands(r) \/ VerifyLands(r) \/ AsksSession(r) \/ PreviewLands(r) \/ SessionLands(r)
                            \/ OpensApp(r) \/ LogoutLands(r)
    \/ \E r \in pending, ok, arrives \in BOOLEAN : Serve(r, ok, arrives)
Spec == Init /\ [][Next]_vars

-----------------------------------------------------------------------------
\* When nothing is under way the user the app shows is the one its cookie speaks
\* for, and the invite is claimed by one request at a time, though the form is
\* gone back on while a code is verified and the invite's page is mounted again
\* between its claim and its end.  Holds while a page with a request under way is
\* not left; with Overlap the answers of two sign-ins cross.
UserIsTheCookies ==
    /\ pending = {} /\ user # {} => cookie = user
    /\ \A r, q \in pending : r.kind = "claim" /\ q.kind = "claim" => r = q
\* What keeps it so: one request at a time sets the cookie or asks for it, each from
\* its page and without the others; a claim that is over has used the invite, so the
\* preview asked for meanwhile claims nothing.
Signs == {"boot", "session", "verify", "dev", "claim", "logout"}
OneSigns == \A r, q \in pending : r.kind \in Signs /\ q.kind \in Signs => r = q
IsRequest(r) == r = [kind |-> r.kind, who |-> r.who, mount |-> r.mount, state |-> r.state, answer |-> r.answer]
Fits(r) ==
    /\ IsRequest(r)
    /\ r.kind \in {"boot", "session"} => loading /\ page # "home"
    /\ r.kind = "logout" => pending = {r} /\ page # "login"
    /\ r.kind \in {"send", "verify", "dev"} =>
         /\ page = "login" /\ form.busy /\ r.mount = mount /\ ~ loading
         /\ \A q \in pending : q.kind \in {"send", "verify", "dev"} => q = r
    /\ r.kind \in {"claim", "open"} => page = "invite" /\ ~ loading
    /\ r.kind \in {"claim", "session", "boot"} /\ page = "invite" => \A q \in pending : q.kind \notin {"preview", "open"}
    /\ r.kind = "claim" /\ r.state = "done" => ~ open
    /\ r.kind = "session" /\ page = "invite" => ~ open
    /\ r.kind = "open" =>
         ~ open /\ \A q \in pending : /\ q.kind \notin Signs /\ (q.kind = "open" => q = r)
                                      /\ q.kind = "preview" => q.state # "done"
    /\ r.kind = "preview" => r.mount \in 0..mount
                             /\ (r.mount = mount => page = "invite")
                             /\ (page = "invite" => ~ loading /\ \A q \in pending : q.kind = "preview" => q = r)
    /\ r.kind \in {"boot", "session", "verify"} /\ r.state = "done" => r.answer = cookie
SignInInv ==
    /\ mount \in Nat /\ page \in {"login", "invite", "home"} /\ loading \in BOOLEAN /\ open \in BOOLEAN
    /\ form = [step |-> form.step, email |-> form.email, sentTo |-> form.sentTo, busy |-> form.busy]
    /\ \A r \in pending : Fits(r)
    /\ OneSigns
    /\ user # {} => cookie = user \/ \E r \in pending :
         \/ r.kind \in {"boot", "session"}
         \/ r.kind \in {"verify", "dev", "claim"} /\ r.state = "done"
         \/ r.kind = "logout" /\ r.state # "sent"

\* "We sent a code to <address>".  Does not hold: the address is edited while the
\* request is under way.
CodeWentWhereShown == form.step = 2 => form.email = form.sentTo
\* A user signed in with another address sees that the invite is not for them and
\* chooses.  Does not hold: the claim does not wait.
OnlyOwnInvite == \A r \in pending : r.kind = "claim" => user \subseteq {Invitee}
=============================================================================
