----------------------------- MODULE StaffPages -----------------------------
(***************************************************************************)
(* Three pages of the web client that show what others change: the file    *)
(* review queue (web/src/routes/ReviewQueue.svelte), the list of inbound   *)
(* emails (InboundEmails.svelte) and one email (InboundEmailDetail.svelte),*)
(* over createQuery, whose first fetch is armed by a read of `.data`.      *)
(***************************************************************************)
EXTENDS Naturals, FiniteSets

CONSTANTS
    File, Email,      \* uploads; inbound emails
    Foreign,          \* the emails of another organization
    Stored,           \* the emails whose attachments and raw message were stored
    MaxDecisions, MaxVisits  \* bounds: decisions sent; pages visited

VARIABLES
    status, reason,   \* uploaded_files: status[f], and the file its reason was written about, {} or one
    kind,             \* inbound_email: kind[e], its status
    route, mounted, instance,  \* the location; the one the page on screen was mounted for, in which visit
    filter,           \* the list's filter
    entry,            \* the cache: entry[key]
    detail,           \* the email page: what it loaded
    calls,            \* requests under way
    busy, rejecting, typed,  \* busyId, rejecting, and the file rejectReason was written about; each {} or one
    last,             \* last[f]: the reviewer's last decision on f that was not reported as failed
    decisions, visits

server == <<status, reason, kind>>
dialog == <<busy, rejecting, typed>>
page == <<route, mounted, instance>>
vars == <<server, page, filter, entry, detail, calls, dialog, last, decisions, visits>>

Filter == {"all", "received"}
Key == Filter \cup {"queue"}
Locations == {<<"review">>, <<"inbound">>} \cup {<<"detail", e>> : e \in Email}
Loading == [state |-> "loading", email |-> {}, links |-> "none"]
Empty == [data |-> {}, state |-> "never", fresh |-> FALSE, inFlight |-> FALSE]

TypeOK ==
    /\ status \in [File -> {"none", "pending_review", "approved", "rejected"}] /\ reason \in [File -> SUBSET File]
    /\ kind \in [Email -> {"received", "extracted"}] /\ {route, mounted} \subseteq Locations /\ filter \in Filter
    /\ \A k \in Key : entry[k].state \in {"never", "data", "error"} /\ entry[k].data \subseteq File \cup Email
    /\ detail.state \in {"loading", "email", "notFound", "error"} /\ detail.email \subseteq Email
    /\ busy \subseteq File /\ rejecting \subseteq File /\ typed \subseteq File
    /\ decisions \in 0..MaxDecisions /\ visits \in 0..MaxVisits

\* The request of an email page mounted in visit v.
DetailCall(r, v) == [op |-> "detail", arg |-> r[2], why |-> {}, n |-> 0, page |-> v, state |-> "sent"]

Init ==
    /\ status \in [File -> {"none", "pending_review"}] /\ reason = [f \in File |-> {}]
    /\ kind = [e \in Email |-> "received"]
    /\ route \in Locations /\ mounted = route /\ instance = 0 /\ filter = "all" /\ entry = [k \in Key |-> Empty]
    /\ detail = Loading /\ busy = {} /\ rejecting = {} /\ typed = {}
    /\ calls = {DetailCall(r, 0) : r \in {route} \ {<<"review">>, <<"inbound">>}}
    /\ last = [f \in File |-> "none"] /\ decisions = 0 /\ visits = 0

-----------------------------------------------------------------------------
(* The queries. *)

\* isLoading: the first fetch has not settled.
IsLoading(k) == entry[k].state = "never"
\* What the server answers to each.
ListPendingReview == {f \in File : status[f] = "pending_review"}
ListEmails(s) == {e \in Email \ Foreign : s = "all" \/ kind[e] = s}
Answer(k) == IF k = "queue" THEN ListPendingReview ELSE ListEmails(k)

\* The `.data` getter: a stale query is fetched, unless it is being fetched.
ReadData(k) ==
    /\ ~ entry[k].fresh /\ ~ entry[k].inFlight /\ entry' = [entry EXCEPT ![k].inFlight = TRUE]
    /\ UNCHANGED <<server, page, filter, detail, calls, dialog, last, decisions, visits>>

\* The review page reads it when it is mounted; its table whenever it is drawn.
ReadQueue == mounted = <<"review">> /\ ReadData("queue")
\* The list of emails is read by what is drawn once nothing is loading.
ReadList == mounted = <<"inbound">> /\ ~ IsLoading(filter) /\ ReadData(filter)

Fetched(k, ok) ==
    /\ entry[k].inFlight
    /\ entry' = [entry EXCEPT ![k] =
         IF ok THEN [data |-> Answer(k), state |-> "data", fresh |-> TRUE, inFlight |-> FALSE]
         ELSE [@ EXCEPT !.state = IF @ = "data" THEN @ ELSE "error", !.inFlight = FALSE]]
    /\ UNCHANGED <<server, page, filter, detail, calls, dialog, last, decisions, visits>>
\* staleTime passes.
GoesStale(k) ==
    /\ entry[k].fresh /\ entry' = [entry EXCEPT ![k].fresh = FALSE]
    /\ UNCHANGED <<server, page, filter, detail, calls, dialog, last, decisions, visits>>

-----------------------------------------------------------------------------
(* Moving between pages. *)

\* Mutant of RouterKey: the page mounts anew when its component changes, not when the path does.
RouterKeyByComponent(r) == IF r[1] = mounted[1] THEN mounted ELSE r

\* routerKey of App.svelte: a page is mounted anew for every location.
RouterKey(r) == r

\* What the page keeps is dropped with it; an email page asks for its email when mounted.
Visit(r) ==
    /\ visits < MaxVisits /\ visits' = visits + 1 /\ r # route /\ route' = r /\ mounted' = RouterKey(r)
    /\ IF mounted' = mounted THEN UNCHANGED <<instance, filter, detail, dialog, calls>>
       ELSE /\ instance' = visits' /\ filter' = "all" /\ detail' = Loading
            /\ busy' = {} /\ rejecting' = {} /\ typed' = {}
            /\ calls' = IF r[1] # "detail" THEN calls
                        ELSE calls \cup {DetailCall(r, visits')}
    /\ UNCHANGED <<server, entry, last, decisions>>

\* What the list shows, and the email a click on it opens.
ListView == IF IsLoading(filter) THEN "loading"
            ELSE IF entry[filter].data # {} THEN "table" ELSE IF entry[filter].state = "error" THEN "error" ELSE "empty"
OpenDetail(e) == mounted = <<"inbound">> /\ ListView = "table" /\ e \in entry[filter].data /\ Visit(<<"detail", e>>)
SetFilter(s) ==
    /\ mounted = <<"inbound">> /\ filter # s /\ filter' = s
    /\ UNCHANGED <<server, page, entry, detail, calls, dialog, last, decisions, visits>>
\* The links of the header and an address typed by hand.
Navigate(r) == (r[1] = "detail" => mounted # <<"inbound">>) /\ Visit(r)

\* GET /inbound-emails/:id: one answer for unknown ids and those of others; signed links where bytes are stored.
DetailAnswer(e) ==
    IF e \in Foreign THEN [state |-> "notFound", email |-> {}, links |-> "none"]
    ELSE [state |-> "email", email |-> {e}, links |-> IF e \in Stored THEN "good" ELSE "none"]
\* The page that asked takes the answer, if it is still there.
DetailLoads(c, ok) ==
    /\ c.op = "detail" /\ calls' = calls \ {c}
    /\ detail' = IF c.page # instance THEN detail
                 ELSE IF ok THEN DetailAnswer(c.arg) ELSE [Loading EXCEPT !.state = "error"]
    /\ UNCHANGED <<server, page, filter, entry, dialog, last, decisions, visits>>
\* What the page offers of a loaded email: the attachments and the raw message that were stored.
Loaded == IF mounted[1] = "detail" /\ detail.state = "email" THEN detail.email ELSE {}
Attachments == IF detail.links = "none" THEN {} ELSE Loaded
RawMessage == IF detail.links = "none" THEN {} ELSE Loaded
Downloads == Attachments \cup RawMessage
LinksExpire ==
    /\ detail.links = "good" /\ detail' = [detail EXCEPT !.links = "expired"]
    /\ UNCHANGED <<server, page, filter, entry, calls, dialog, last, decisions, visits>>

\* The extraction loop settles an email.
Process(e) ==
    /\ kind[e] = "received" /\ kind' = [kind EXCEPT ![e] = "extracted"]
    /\ UNCHANGED <<status, reason, page, filter, entry, detail, calls, dialog, last, decisions, visits>>

-----------------------------------------------------------------------------
(* Decisions on files. *)

QueueView == IF entry["queue"].data # {} THEN "table" ELSE IF IsLoading("queue") THEN "loading" ELSE "none"
\* The buttons of a row of the table; the dialog covers them.
Offered(f) ==
    /\ mounted = <<"review">> /\ QueueView = "table" /\ f \in entry["queue"].data /\ f \notin busy /\ rejecting = {}

\* A request that leaves f with the status op.
Send(f, op, why) ==
    /\ decisions < MaxDecisions /\ decisions' = decisions + 1 /\ last' = [last EXCEPT ![f] = op]
    /\ calls' = calls \cup {[op |-> op, arg |-> f, why |-> why, n |-> decisions', page |-> instance, state |-> "sent"]}
\* A file added on the page.
Upload(f) ==
    /\ mounted = <<"review">> /\ status[f] = "none" /\ last[f] = "none" /\ Send(f, "pending_review", {})
    /\ UNCHANGED <<server, page, filter, entry, detail, dialog, visits>>
Approve(f) ==
    /\ Offered(f) /\ Send(f, "approved", {}) /\ busy' = {f}
    /\ UNCHANGED <<server, page, filter, entry, detail, rejecting, typed, visits>>

\* Mutant of OpenReject: what was written for another file stays in the box.
OpenRejectKeeps(f) ==
    /\ Offered(f) /\ rejecting' = {f}
    /\ UNCHANGED <<server, page, filter, entry, detail, calls, busy, typed, last, decisions, visits>>

OpenReject(f) ==
    /\ Offered(f) /\ rejecting' = {f} /\ typed' = {}
    /\ UNCHANGED <<server, page, filter, entry, detail, calls, busy, last, decisions, visits>>
TypeReason ==
    /\ rejecting # {} /\ typed = {} /\ typed' = rejecting
    /\ UNCHANGED <<server, page, filter, entry, detail, calls, busy, rejecting, last, decisions, visits>>
CancelReject ==
    /\ rejecting # {} /\ rejecting' = {}
    /\ UNCHANGED <<server, page, filter, entry, detail, calls, busy, typed, last, decisions, visits>>
\* The dialog's button: no decision under way and a reason written.
ConfirmReject ==
    /\ busy = {} /\ typed # {} /\ busy' = rejecting /\ \E f \in rejecting : Send(f, "rejected", typed)
    /\ UNCHANGED <<server, page, filter, entry, detail, rejecting, typed, visits>>

\* approveUploadedFile, rejectUploadedFile: recordDecision, whatever was decided before.
RecordDecision(c) ==
    /\ c.op # "detail" /\ c.state = "sent"
    /\ status' = [status EXCEPT ![c.arg] = c.op] /\ reason' = [reason EXCEPT ![c.arg] = c.why]
    /\ calls' = (calls \ {c}) \cup {[c EXCEPT !.state = "done"]}
    /\ UNCHANGED <<kind, page, filter, entry, detail, dialog, last, decisions, visits>>
\* The answer: the queue is invalidated; where the page is still there a rejection
\* closes the dialog and the decision's button is free again.
DecisionLands(c, ok) ==
    /\ c.op # "detail" /\ (ok => c.state = "done") /\ calls' = calls \ {c}
    /\ busy' = IF c.page = instance /\ c.op # "pending_review" THEN {} ELSE busy
    /\ rejecting' = IF ok /\ c.page = instance /\ c.op = "rejected" THEN {} ELSE rejecting
    /\ IF ~ ok THEN UNCHANGED entry
       ELSE \E active \in BOOLEAN :
              /\ mounted = <<"review">> => active
              /\ entry' = [entry EXCEPT !["queue"].fresh = FALSE, !["queue"].inFlight = @ \/ active]
    /\ last' = IF ok THEN last ELSE [last EXCEPT ![c.arg] = "none"]
    /\ UNCHANGED <<server, page, filter, detail, typed, decisions, visits>>

Next ==
    \/ ReadQueue \/ ReadList \/ LinksExpire \/ TypeReason \/ CancelReject \/ ConfirmReject
    \/ \E k \in Key : GoesStale(k) \/ \E ok \in BOOLEAN : Fetched(k, ok)
    \/ \E r \in Locations : Navigate(r)
    \/ \E e \in Email : OpenDetail(e) \/ Process(e)
    \/ \E s \in Filter : SetFilter(s)
    \/ \E f \in File : Upload(f) \/ Approve(f) \/ OpenReject(f)
    \/ \E c \in calls : RecordDecision(c) \/ \E ok \in BOOLEAN : DetailLoads(c, ok) \/ DecisionLands(c, ok)
Spec == Init /\ [][Next]_vars
\* Pages are drawn and requests end.
Fairness ==
    /\ WF_vars(ReadQueue) /\ WF_vars(ReadList)
    /\ \A k \in Key : WF_vars(\E ok \in BOOLEAN : Fetched(k, ok))
FairSpec == Spec /\ Fairness

-----------------------------------------------------------------------------
\* "The reason is stored on the file, so the person who sent it can see what to
\* fix": the reason a rejected file carries was written about that file, and no
\* file that is not rejected carries one, whatever dialogs were opened,
\* cancelled and confirmed and however answers cross.
ReasonsBelong ==
    \A f \in File : reason[f] = IF status[f] = "rejected" THEN {f} ELSE {}

\* "/things/A -> /things/B remounts the detail page instead of leaving it on A's
\* data": what the email page shows, and lets its reader download, is the email of
\* the location, though the answer of a page left earlier comes in later.
DetailIsTheLocations ==
    /\ route[1] = "detail" => detail.email \subseteq {route[2]}
    /\ Downloads \subseteq Stored \ Foreign

\* What keeps these so: a reason travels with the file it was written about, and what
\* is written in the dialog is about the file it is open for; each visit has a number
\* of its own, which the request of its page carries.
Sent(c) ==
    /\ c.page \in Nat /\ c.page <= visits
    /\ c.op = "detail" => (c.page = instance => route = <<"detail", c.arg>>)
    /\ c.op # "detail" => c.op \in {"pending_review", "approved", "rejected"}
                          /\ c.arg \in File /\ c.why = IF c.op = "rejected" THEN {c.arg} ELSE {}
ReasonsInv ==
    /\ status \in [File -> {"none", "pending_review", "approved", "rejected"}] /\ reason \in [File -> SUBSET File]
    /\ rejecting = {} \/ \E f \in File : rejecting = {f} /\ typed \in {{}, {f}}
    /\ ReasonsBelong
LocationInv ==
    /\ visits \in Nat /\ instance = visits /\ mounted = route /\ route \in Locations
    /\ detail.state \in {"loading", "email", "notFound", "error"} /\ detail.links \in {"none", "good", "expired"}
    /\ detail.links # "none" => detail.email \subseteq Stored \ Foreign
    /\ route[1] = "detail" => detail.email \subseteq {route[2]}
PagesInv == (\A c \in calls : Sent(c)) /\ ReasonsInv /\ LocationInv

\* "keep it fresh in the background": the list of inbound emails gets past its
\* skeleton.  Does not hold: nothing drawn while it is loading reads `.data`, and
\* only a read of `.data` arms the fetch.
ListIsShown == route = <<"inbound">> ~> (route # <<"inbound">> \/ ListView # "loading")
\* The review queue's is.
QueueIsShown == route = <<"review">> ~> (route # <<"review">> \/ ~ IsLoading("queue"))
\* The reviewer's last decision is the file's.  Does not hold: busyId holds one id, a
\* decision on another file frees the first file's buttons, and the requests cross.
LastDecisionStands == (\A c \in calls : c.op = "detail") => \A f \in File : last[f] \in {"none", status[f]}
\* The links offered work.  Does not hold: they are signed for 15 minutes when the page loads.
LinksWork == Downloads # {} => detail.links = "good"
=============================================================================
