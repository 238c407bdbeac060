------------------------------- MODULE Mailing -------------------------------
(***************************************************************************)
(* The mailing list of one workspace (src/services/mailing): contacts,     *)
(* suppression, unsubscribing, and campaigns with their warm-up ramp, with *)
(* the communications gate every message passes on its way out.            *)
(*                                                                         *)
(* A transaction is one step, seen when it commits.  A handler with more   *)
(* than one transaction or a read before its write is a request in         *)
(* `requests` between them.  cancelCampaign is cut inside its transaction: *)
(* each of its statements picks rows from its own snapshot, and locks them *)
(* until the commit.  The outbox row of a recipient is unique by its       *)
(* idempotency key; EmailOutbox has its delivery in detail.                *)
(***************************************************************************)
EXTENDS Naturals, FiniteSets, Sequences, FiniteSetsExt, TLAPS

CONSTANTS
    Address,
    Imported,      \* addresses on the list from an import at the start
    AppUser,       \* addresses of users of this workspace
    Rejected,      \* addresses checkAddress refuses (typo, test, reserved)
    Campaign,
    BatchSizes,    \* WARMUP_BATCH_SIZES, which ascend
    MinSample,     \* WARMUP_MIN_SAMPLE
    MaxRequests,   \* bound: requests in progress together
    MaxEvents      \* bound: provider reports (duplicates included), resumes, changes of
                   \* the organization's switch and the sender, failing gate lookups,
                   \* requests that begin while another is in progress

VARIABLES
    contact,    \* email_contacts: status, origin is signup, first_sent_at is set
    appWide,    \* email_suppressions rows with no organization, by reason
    optOut,     \* addresses with an unsubscribed row of this workspace
    wants,      \* users.preferences.communicationsEnabled
    orgOn, senderOk,  \* organizations.communications_enabled; bulkSenderStatus
    campaign,   \* email_campaigns: status, startedAt, warmupStep, next batch is due
    recipient,  \* email_campaign_recipients.status
    cold,       \* cold[c]: recipients snapshotted as cold
    window,     \* window[c]: recipients queued since healthWindowStart
    outbox,     \* email_outbox.status of the campaign's rows
    requests,   \* handlers between two statements
    mailed,     \* <<c, a>> handed to the transport
    gone,       \* addresses whose unsubscribe was answered, until they opt in again
    overwritten,\* users whose preferences were written back from an older read
    bounced,    \* addresses reported as bounced or complaining
    events      \* counted against MaxEvents

lists == <<contact, appWide, optOut, wants>>
sends == <<campaign, recipient, cold, window, outbox>>
seen == <<mailed, gone, overwritten, bounced>>
vars == <<lists, orgOn, senderOk, sends, requests, seen, events>>

Absent == [status |-> "absent", organic |-> FALSE, mailed |-> FALSE]
Contact == [status : {"absent", "subscribed", "unsubscribed", "suppressed"},
            organic : BOOLEAN, mailed : BOOLEAN]
Draft == [status |-> "draft", started |-> FALSE, step |-> 0, due |-> FALSE]

TypeOK ==
    /\ contact \in [Address -> Contact]
    /\ appWide \in [Address -> {"none", "unsubscribed", "bounced"}] /\ optOut \subseteq Address
    /\ wants \in [AppUser -> BOOLEAN] /\ orgOn \in BOOLEAN /\ senderOk \in BOOLEAN
    /\ campaign \in [Campaign -> [status : {"draft", "scheduled", "sending", "sent", "paused", "cancelled"},
                                  started : BOOLEAN, step : 0 .. Cardinality(Address), due : BOOLEAN]]
    /\ recipient \in [Campaign -> [Address -> {"none", "pending", "queued", "skipped", "bounced"}]]
    /\ \A c \in Campaign : cold[c] \subseteq Address /\ window[c] \subseteq Address
    /\ outbox \in [Campaign -> [Address -> {"none", "pending", "done", "cancelled"}]]
    /\ mailed \subseteq Campaign \X Address
    /\ gone \cup bounced \subseteq Address /\ overwritten \subseteq AppUser

Init ==
    /\ contact = [a \in Address |-> IF a \in Imported
                                   THEN [status |-> "subscribed", organic |-> FALSE, mailed |-> FALSE]
                                   ELSE Absent]
    /\ appWide = [a \in Address |-> "none"] /\ optOut = {}
    /\ wants = [a \in AppUser |-> TRUE] /\ orgOn = TRUE /\ senderOk = TRUE
    /\ campaign = [c \in Campaign |-> Draft]
    /\ recipient = [c \in Campaign |-> [a \in Address |-> "none"]]
    /\ cold = [c \in Campaign |-> {}] /\ window = [c \in Campaign |-> {}]
    /\ outbox = [c \in Campaign |-> [a \in Address |-> "none"]]
    /\ requests = {} /\ mailed = {} /\ gone = {} /\ overwritten = {} /\ bounced = {}
    /\ events = 0

\* A request begins, and ends with its last statement or by failing before it.
\* Requests in progress together are about the same contact or campaign: the
\* statements of others touch different rows and commute.  Of equal requests one
\* is in progress at a time: the last statement of each is guarded by the row, or
\* writes what the other wrote.
Request(kind, on, picked) == [kind |-> kind, on |-> on, picked |-> picked]
Begin(r) ==
    /\ Cardinality(requests) < MaxRequests /\ r \notin requests
    /\ \A q \in requests : q.on = r.on
    /\ requests' = requests \cup {r}
End(r) == r \in requests /\ requests' = requests \ {r}
Event == events < MaxEvents /\ events' = events + 1
Overlap == IF requests = {} THEN UNCHANGED events ELSE Event
Step(r, s) == r \in requests /\ requests' = (requests \ {r}) \cup {s}

-----------------------------------------------------------------------------
(* Contacts: three doors (contacts.service.ts). *)

Suppressed(a) == appWide[a] # "none" \/ a \in optOut

\* addManualContact, and a row of the contacts import: the address is screened
\* and looked up...
ScreenAddress(a) ==
    /\ a \notin Rejected /\ ~Suppressed(a) /\ contact[a].status = "absent"
    /\ Begin(Request("add", a, {})) /\ Overlap
    /\ UNCHANGED <<lists, orgOn, senderOk, sends, seen>>

\* ... and inserted later; an address that got on the list meanwhile is left
\* as it is (unique index).
InsertContact(a) ==
    /\ End(Request("add", a, {}))
    /\ contact' = IF contact[a].status # "absent" THEN contact
                  ELSE [contact EXCEPT ![a] = [status |-> "subscribed", organic |-> FALSE, mailed |-> FALSE]]
    /\ UNCHANGED <<appWide, optOut, wants, orgOn, senderOk, sends, seen, events>>

\* addSignupContact: a new contact, or an unsubscribed one that is back.
SignUp(a) ==
    /\ a \notin Rejected /\ appWide[a] # "bounced"
    /\ Begin(Request("signup", a, {})) /\ Overlap
    /\ contact' = [contact EXCEPT ![a] =
          IF @.status = "absent" THEN [status |-> "subscribed", organic |-> TRUE, mailed |-> FALSE]
          ELSE IF @.status = "unsubscribed" THEN [@ EXCEPT !.status = "subscribed"] ELSE @]
    /\ gone' = gone \ {a}
    /\ UNCHANGED <<appWide, optOut, wants, orgOn, senderOk, sends, mailed, overwritten, bounced>>

\* Its second statement takes the workspace's own suppression away; the person
\* is opting in until then.
LiftOptOut(a) ==
    /\ End(Request("signup", a, {}))
    /\ optOut' = optOut \ {a} /\ gone' = gone \ {a}
    /\ UNCHANGED <<contact, appWide, wants, orgOn, senderOk, sends, mailed, overwritten, bounced, events>>

-----------------------------------------------------------------------------
(* Suppression (suppression.service.ts) and the users' own switch. *)

\* suppressAddress on the contact row.
Mark(a, reason) ==
    [contact EXCEPT ![a].status =
        IF @ = "absent" \/ (reason = "unsubscribed" /\ @ # "subscribed") THEN @
        ELSE IF reason = "unsubscribed" THEN "unsubscribed" ELSE "suppressed"]

\* recordProviderFeedback of a hard bounce or a complaint, perhaps for the
\* second time.  It lands on the latest send to the address, or on the send of
\* the campaign the provider names.
Feedback(a, c) ==
    /\ Event
    /\ \E d \in Campaign : <<d, a>> \in mailed
    /\ appWide' = [appWide EXCEPT ![a] = "bounced"]
    /\ contact' = Mark(a, "bounced")
    /\ recipient' = [recipient EXCEPT ![c][a] = IF @ = "queued" THEN "bounced" ELSE @]
    /\ bounced' = bounced \cup {a}
    /\ UNCHANGED <<optOut, wants, orgOn, senderOk, campaign, cold, window, outbox, requests,
                   mailed, gone, overwritten>>

\* recordProviderFeedback of an unsubscribe: with the workspace, or app-wide,
\* where it replaces the reason a row had.
ProviderUnsubscribe(a, everywhere) ==
    /\ Event
    /\ appWide' = [appWide EXCEPT ![a] = IF everywhere THEN "unsubscribed" ELSE @]
    /\ optOut' = IF everywhere THEN optOut ELSE optOut \cup {a}
    /\ contact' = Mark(a, "unsubscribed")
    /\ gone' = gone \cup {a}
    /\ UNCHANGED <<wants, orgOn, senderOk, sends, requests, mailed, overwritten, bounced>>

\* Mutant of Unsubscribe: only the contact row is touched.
UnsubscribeContact(a) ==
    /\ a \notin AppUser
    /\ contact' = Mark(a, "unsubscribed") /\ gone' = gone \cup {a}
    /\ UNCHANGED <<optOut, appWide, wants, orgOn, senderOk, sends, requests, mailed, overwritten, bounced, events>>

\* One-click unsubscribe of somebody who is no user: one transaction.
Unsubscribe(a) ==
    /\ a \notin AppUser
    /\ optOut' = optOut \cup {a}
    /\ contact' = Mark(a, "unsubscribed") /\ gone' = gone \cup {a}
    /\ UNCHANGED <<appWide, wants, orgOn, senderOk, sends, requests, mailed, overwritten, bounced, events>>

\* Of a user: the contact row first, then their switch, whose preferences
\* setUserCommunicationsEnabled reads and writes back whole.
UnsubscribeUser(a) ==
    /\ a \in AppUser
    /\ Begin(Request("off", a, {})) /\ Overlap
    /\ contact' = Mark(a, "unsubscribed")
    /\ UNCHANGED <<appWide, optOut, wants, orgOn, senderOk, sends, seen>>

SwitchOff(a) ==
    /\ End(Request("off", a, {}))
    /\ wants' = [wants EXCEPT ![a] = FALSE]
    /\ gone' = gone \cup {a} /\ overwritten' = overwritten \ {a}
    /\ UNCHANGED <<contact, appWide, optOut, orgOn, senderOk, sends, mailed, bounced, events>>

\* PATCH /me/preferences reads the preferences, merges and writes them: the
\* switch goes back to what was read unless the request names it.
ReadPreferences(a) ==
    /\ a \in AppUser
    /\ Begin(Request(IF wants[a] THEN "read on" ELSE "read off", a, {})) /\ Overlap
    /\ UNCHANGED <<lists, orgOn, senderOk, sends, seen>>

WritePreferences(a, read, on) ==
    /\ End(Request(IF read THEN "read on" ELSE "read off", a, {}))
    /\ on \in {read, TRUE}
    /\ wants' = [wants EXCEPT ![a] = on]
    /\ gone' = IF on # read THEN gone \ {a} ELSE gone
    /\ overwritten' = IF on = read /\ wants[a] # read THEN overwritten \cup {a} ELSE overwritten
    /\ UNCHANGED <<contact, appWide, optOut, orgOn, senderOk, sends, mailed, bounced, events>>

\* setOrgCommunicationsEnabled; a deployment with another sender (sender-policy.ts).
SetOrgCommunications ==
    /\ Event /\ orgOn' = ~orgOn
    /\ UNCHANGED <<lists, senderOk, sends, requests, seen>>
SenderChanges ==
    /\ Event /\ senderOk' = ~senderOk
    /\ UNCHANGED <<lists, orgOn, sends, requests, seen>>

-----------------------------------------------------------------------------
(* Campaigns (campaign.service.ts). *)

Status(c, s) == [campaign EXCEPT ![c].status = s]
Pending(c) == {a \in Address : recipient[c][a] = "pending"}

\* Rows an open cancel has updated: nobody else writes them before it ends.
Locked(c, table) ==
    {a \in Address : \E r \in requests : r.kind \in {"skipping", "stopping"} /\ r.on = c /\ <<table, a>> \in r.picked}

\* snapshotRecipients: a row for each subscribed contact that has none yet; the
\* suppressed and the refused are skipped at once.
Snapshot(c) ==
    [a \in Address |->
        LET old == recipient[c][a]
            row == IF old = "none" /\ contact[a].status = "subscribed" THEN "pending" ELSE old
        IN  IF row = "pending" /\ (Suppressed(a) \/ a \in Rejected) THEN "skipped" ELSE row]
SnapshotCold(c) ==
    cold[c] \cup {a \in Address : /\ recipient[c][a] = "none" /\ contact[a].status = "subscribed"
                                  /\ ~contact[a].organic /\ ~contact[a].mailed}
Started(c) == [campaign[c] EXCEPT !.status = "sending", !.started = TRUE, !.due = TRUE]

\* startCampaign: its checks up to the transaction come first (the switch is
\* read outside it).
StartChecks(c) ==
    /\ senderOk /\ orgOn
    /\ Begin(Request("start", c, {})) /\ Overlap
    /\ UNCHANGED <<lists, orgOn, senderOk, sends, seen>>

Startable(c) ==
    /\ campaign[c].status \in {"draft", "scheduled"}
    /\ \E a \in Address : contact[a].status = "subscribed"

StartNow(c) ==
    /\ End(Request("start", c, {})) /\ Startable(c)
    /\ recipient' = [recipient EXCEPT ![c] = Snapshot(c)]
    /\ cold' = [cold EXCEPT ![c] = SnapshotCold(c)]
    /\ campaign' = [campaign EXCEPT ![c] = Started(c)]
    /\ window' = [window EXCEPT ![c] = {}]
    /\ UNCHANGED <<lists, orgOn, senderOk, outbox, seen, events>>

Schedule(c) ==
    /\ End(Request("start", c, {})) /\ Startable(c)
    /\ campaign' = Status(c, "scheduled")
    /\ UNCHANGED <<lists, orgOn, senderOk, recipient, cold, window, outbox, seen, events>>

\* pauseCampaign: one guarded statement.
Pause(c) ==
    /\ campaign[c].status \in {"scheduled", "sending"}
    /\ campaign' = Status(c, "paused")
    /\ UNCHANGED <<lists, orgOn, senderOk, recipient, cold, window, outbox, requests, seen, events>>

\* resumeCampaign: the row is read, then written.  A campaign that never
\* started goes back to scheduled whatever its status has become.
ResumeReads(c) ==
    /\ senderOk /\ campaign[c].status = "paused"
    /\ Begin(Request(IF campaign[c].started THEN "resume sending" ELSE "resume scheduled", c, {}))
    /\ Event
    /\ UNCHANGED <<lists, orgOn, senderOk, sends, seen>>

ResumeScheduled(c) ==
    /\ End(Request("resume scheduled", c, {}))
    /\ campaign' = Status(c, "scheduled")
    /\ UNCHANGED <<lists, orgOn, senderOk, recipient, cold, window, outbox, seen, events>>

ResumeSending(c) ==
    /\ End(Request("resume sending", c, {}))
    /\ campaign[c].status = "paused"
    /\ campaign' = [campaign EXCEPT ![c].status = "sending", ![c].due = TRUE]
    /\ window' = [window EXCEPT ![c] = {}]
    /\ UNCHANGED <<lists, orgOn, senderOk, recipient, cold, outbox, seen, events>>

\* cancelCampaign: the status is read; a transaction then skips the pending
\* recipients, stops the pending outbox rows and closes the campaign, whatever
\* its status is by then.
CancelReads(c) ==
    /\ campaign[c].status \notin {"sent", "cancelled"}
    /\ Begin(Request("cancel", c, {})) /\ Overlap
    /\ UNCHANGED <<lists, orgOn, senderOk, sends, seen>>

CancelSkips(c) ==
    /\ Pending(c) \cap Locked(c, "recipient") = {}
    /\ Step(Request("cancel", c, {}), Request("skipping", c, {"recipient"} \X Pending(c)))
    /\ UNCHANGED <<lists, orgOn, senderOk, sends, seen, events>>

CancelStopsMail(c, picked) ==
    LET undelivered == {a \in Address : outbox[c][a] = "pending"}
    IN  /\ undelivered \cap Locked(c, "outbox") = {}
        /\ Step(Request("skipping", c, picked), Request("stopping", c, picked \cup ({"outbox"} \X undelivered)))
        /\ UNCHANGED <<lists, orgOn, senderOk, sends, seen, events>>

CancelCommits(c, picked) ==
    /\ End(Request("stopping", c, picked))
    /\ recipient' = [recipient EXCEPT ![c] = [a \in Address |->
                        IF <<"recipient", a>> \in picked THEN "skipped" ELSE @[a]]]
    /\ outbox' = [outbox EXCEPT ![c] = [a \in Address |->
                        IF <<"outbox", a>> \in picked THEN "cancelled" ELSE @[a]]]
    /\ campaign' = Status(c, "cancelled")
    /\ UNCHANGED <<lists, orgOn, senderOk, cold, window, seen, events>>

\* A request refused by a guard of its last statement, or cut off: the
\* statements already committed stay, an open transaction is rolled back (a
\* cancel that deadlocks with the runner ends here).
RequestFails(r) ==
    /\ End(r)
    /\ UNCHANGED <<lists, orgOn, senderOk, sends, seen, events>>

-----------------------------------------------------------------------------
(* The runner: advanceOne, under the campaign's row lock, and the outbox. *)

\* The size of a step: as many sizes are smaller as steps came before, and the
\* last size stays.
BatchSize(step) == CHOOSE n \in BatchSizes :
    Cardinality({m \in BatchSizes : m < n}) = Min({step, Cardinality(BatchSizes) - 1})

\* coldHealth: 2% of the cold sends of the window bounced, or 0.1% complained.
\* The two kinds of report are one here, held to the bounce limit.
Unhealthy(c) ==
    LET judged == {a \in window[c] \cap cold[c] : recipient[c][a] \in {"queued", "bounced"}}
        bad == {a \in judged : recipient[c][a] = "bounced"}
    IN  Cardinality(judged) >= MinSample /\ Cardinality(bad) * 1000 > Cardinality(judged) * 20

\* release: an outbox row each, and the contact has been mailed.
Release(c, row, batch) ==
    /\ recipient' = [recipient EXCEPT ![c] = [a \in Address |-> IF a \in batch THEN "queued" ELSE row[a]]]
    /\ outbox' = [outbox EXCEPT ![c] = [a \in Address |-> IF a \in batch THEN "pending" ELSE @[a]]]
    /\ contact' = [a \in Address |-> IF a \in batch THEN [contact[a] EXCEPT !.mailed = TRUE] ELSE contact[a]]

\* The row is not live, or the sender is blocked or the list is bad: paused.
AdvancePauses(c) ==
    /\ campaign[c].status \in {"scheduled", "sending"}
    /\ ~senderOk \/ (campaign[c].status = "sending" /\ Unhealthy(c))
    /\ campaign' = Status(c, "paused")
    /\ UNCHANGED <<lists, orgOn, senderOk, recipient, cold, window, outbox, requests, seen, events>>

\* Mutant of Left: a skipped recipient keeps the campaign open.
LeftOrSkipped(row, batch) == {a \in Address : row[a] \in {"pending", "skipped"}} \ batch

\* Recipients still to be released after this batch.
Left(row, batch) == {a \in Address : row[a] = "pending"} \ batch

\* Otherwise a scheduled campaign starts, every warm recipient and, when the
\* interval is over, one batch of cold ones are released, and a campaign with
\* nobody left is sent.
AdvanceTo(c, now, row, isCold) ==
    \E batch \in SUBSET Address :
        LET colds == {a \in batch : a \in isCold}
            pending == {a \in Address : row[a] = "pending"}
        IN  /\ batch \subseteq pending /\ batch \cap Locked(c, "recipient") = {}
            /\ batch \ isCold = pending \ isCold
            /\ Cardinality(colds) = IF ~now.due THEN 0
                                    ELSE Min({BatchSize(now.step), Cardinality(pending \cap isCold)})
            /\ Release(c, row, batch)
            /\ cold' = [cold EXCEPT ![c] = isCold]
            /\ window' = [window EXCEPT ![c] = (IF campaign[c].status = "scheduled" THEN {} ELSE @) \cup batch]
            /\ campaign' = [campaign EXCEPT ![c] =
                   [now EXCEPT !.status = IF Left(row, batch) = {} THEN "sent" ELSE "sending",
                               !.step = IF colds = {} THEN @ ELSE @ + 1,
                               !.due = @ /\ colds = {}]]
            /\ UNCHANGED <<appWide, optOut, wants, orgOn, senderOk, requests, seen, events>>

Advance(c) ==
    LET first == campaign[c].status = "scheduled"
    IN  /\ campaign[c].status \in {"scheduled", "sending"} /\ senderOk
        /\ first \/ ~Unhealthy(c)
        /\ IF first THEN AdvanceTo(c, Started(c), Snapshot(c), SnapshotCold(c))
                    ELSE AdvanceTo(c, campaign[c], recipient[c], cold[c])

\* WARMUP_BATCH_INTERVAL_MS passes.
Interval(c) ==
    /\ campaign[c].started /\ ~campaign[c].due
    /\ campaign' = [campaign EXCEPT ![c].due = TRUE]
    /\ UNCHANGED <<lists, orgOn, senderOk, recipient, cold, window, outbox, requests, seen, events>>

\* The communications gate of email-transport.ts: the switch of a user, the
\* suppression list, the workspace's switch.
Gate(a) == (a \in AppUser => wants[a]) /\ ~Suppressed(a) /\ orgOn

\* The runner claims the row; the transport is called right after the gate, and
\* what is answered between the two is too late for this message.
Deliver(c, a) ==
    /\ outbox[c][a] = "pending" /\ a \notin Locked(c, "outbox")
    /\ outbox' = [outbox EXCEPT ![c][a] = "done"]
    /\ mailed' = IF Gate(a) THEN mailed \cup {<<c, a>>} ELSE mailed
    /\ UNCHANGED <<lists, orgOn, senderOk, campaign, recipient, cold, window, requests,
                   gone, overwritten, bounced, events>>

\* A lookup of the gate fails: the message goes out.
DeliverUngated(c, a) ==
    /\ outbox[c][a] = "pending" /\ a \notin Locked(c, "outbox")
    /\ Event
    /\ outbox' = [outbox EXCEPT ![c][a] = "done"]
    /\ mailed' = mailed \cup {<<c, a>>}
    /\ UNCHANGED <<lists, orgOn, senderOk, campaign, recipient, cold, window, requests,
                   gone, overwritten, bounced>>

-----------------------------------------------------------------------------
Lists ==
    \E a \in Address :
        \/ ScreenAddress(a) \/ InsertContact(a) \/ SignUp(a) \/ LiftOptOut(a)
        \/ \E c \in Campaign : Feedback(a, c)
        \/ \E everywhere \in BOOLEAN : ProviderUnsubscribe(a, everywhere)
        \/ Unsubscribe(a) \/ UnsubscribeUser(a) \/ SwitchOff(a) \/ ReadPreferences(a)
        \/ \E read, on \in BOOLEAN : WritePreferences(a, read, on)

Admins ==
    \/ SetOrgCommunications \/ SenderChanges
    \/ \E c \in Campaign :
        \/ StartChecks(c) \/ StartNow(c) \/ Schedule(c) \/ Pause(c)
        \/ ResumeReads(c) \/ ResumeScheduled(c) \/ ResumeSending(c)
        \/ CancelReads(c) \/ CancelSkips(c)
        \/ \E r \in requests : r.on = c /\ (CancelStopsMail(c, r.picked) \/ CancelCommits(c, r.picked))

Runner ==
    \E c \in Campaign :
        \/ AdvancePauses(c) \/ Advance(c) \/ Interval(c)
        \/ \E a \in Address : Deliver(c, a) \/ DeliverUngated(c, a)

Next == Lists \/ Admins \/ Runner \/ \E r \in requests : RequestFails(r)

Spec == Init /\ [][Next]_vars

\* The runner ticks for as long as a process lives, a statement of its that
\* waits for a row is next in line for it (strong fairness: cancels that fail
\* for ever do not starve it), time passes, and an open transaction ends, at
\* the latest when its connection is cut.
Fairness ==
    /\ \A c \in Campaign : SF_vars(Advance(c)) /\ WF_vars(AdvancePauses(c)) /\ WF_vars(Interval(c))
    /\ WF_vars(\E r \in requests : r.kind \in {"skipping", "stopping"} /\ RequestFails(r))

FairSpec == Spec /\ Fairness

-----------------------------------------------------------------------------
(* Properties. *)

\* With the gate's lookups answering, nobody is mailed whose bounce or complaint
\* was reported, or whose unsubscribe was answered and who did not opt in again,
\* whatever was queued, imported or signed up in between.  Preferences
\* written back from an older read are set apart (PreferencesKeepOptOut).
MailsTheWilling ==
    \A c \in Campaign, a \in Address :
        <<c, a>> \in mailed' \ mailed /\ events' = events
            => a \notin bounced /\ a \notin gone \ overwritten
OptOutHolds == [][MailsTheWilling]_vars

\* Why it holds: what the gate looks at tells of every bounce and every opt-out,
\* and only users have a switch.
OptOutInv ==
    /\ wants \in [AppUser -> BOOLEAN]
    /\ appWide \in [Address -> {"none", "unsubscribed", "bounced"}]
    /\ gone \cup bounced \subseteq Address
    /\ \A r \in requests : r.kind \in {"off", "read on", "read off"} => r.on \in AppUser
    /\ \A a \in bounced : appWide[a] # "none"
    /\ \A a \in gone \ overwritten : Suppressed(a) \/ (a \in AppUser /\ ~wants[a])

\* A campaign that is sending is sent, paused or cancelled in the end: the ramp
\* never starves a cold recipient and the last batch closes the campaign.
CampaignEnds ==
    \A c \in Campaign : campaign[c].status = "sending" ~> campaign[c].status # "sending"

-----------------------------------------------------------------------------
(* What the repository says and the code does not do. *)

\* cancelCampaign: "Released but not delivered yet: stop those too."  The runner
\* starts a scheduled campaign between the cancel's statements: the rows it
\* queues are in neither statement's snapshot and go out after the cancel.
CancelStops ==
    [][\A c \in Campaign, a \in Address :
        <<c, a>> \in mailed' \ mailed => campaign[c].status # "cancelled"]_vars

\* "A cancelled campaign cannot be resumed": a resume that read the row before
\* the cancel writes scheduled over it.
CancelledIsFinal ==
    [][\A c \in Campaign : campaign[c].status = "cancelled" => campaign'[c].status = "cancelled"]_vars

\* An unsubscribe answered to a user lasts until the user opts in: a concurrent
\* PATCH /me/preferences that read before it writes it back on.
PreferencesKeepOptOut == overwritten \cap gone = {}

-----------------------------------------------------------------------------
(***************************************************************************)
(* Opt-outs hold, for any addresses, users, campaigns and batch sizes and  *)
(* any number of requests and events: what the gate of the transport reads *)
(* (the app-wide rows, the workspace's rows, the users' switches) tells of *)
(* every bounce and every opt-out that was answered, however the doors of  *)
(* the list, the preference writes and the provider's reports interleave.  *)
(***************************************************************************)

\* The requests that write a user's switch are about users.
UserRequests(R) == \A r \in R : r.kind \in {"off", "read on", "read off"} => r.on \in AppUser

\* The tables the gate reads, and who was told that he is off the list.
gate == <<appWide, optOut, wants, gone, overwritten, bounced>>

\* What a step that touches none of these tables has left to show.
LEMMA GateUntouched ==
    ASSUME OptOutInv, UNCHANGED gate, UserRequests(requests')
    PROVE  OptOutInv'
  BY DEF OptOutInv, Suppressed, gate, UserRequests

\* A request that ends leaves none that was not there.
LEMMA EndKeepsRequests ==
    ASSUME OptOutInv, NEW r, End(r)
    PROVE  r \in requests /\ UserRequests(requests')
  BY DEF OptOutInv, End, UserRequests

\* A new request joins requests that are in order.
LEMMA BeginKeepsRequests ==
    ASSUME OptOutInv, NEW kind, NEW on, NEW picked, Begin(Request(kind, on, picked)),
           kind \notin {"off", "read on", "read off"} \/ on \in AppUser
    PROVE  UserRequests(requests')
<1> DEFINE new == Request(kind, on, picked)
<1>1. new.kind = kind /\ new.on = on
  BY DEF Request
<1>2. requests' = requests \cup {new}
  BY DEF Begin
<1> HIDE DEF new
<1> QED BY <1>1, <1>2 DEF OptOutInv, UserRequests

\* A request that goes on to its next statement keeps its kind apart from those.
LEMMA StepKeepsRequests ==
    ASSUME OptOutInv, NEW r, NEW kind \in {"skipping", "stopping"}, NEW on, NEW picked,
           Step(r, Request(kind, on, picked))
    PROVE  UserRequests(requests')
<1> DEFINE new == Request(kind, on, picked)
<1>1. new.kind = kind
  BY DEF Request
<1>2. requests' = (requests \ {r}) \cup {new}
  BY DEF Step
<1> HIDE DEF new
<1> QED BY <1>1, <1>2 DEF OptOutInv, UserRequests

\* The doors of the list, the suppressions and the users' switches.
LEMMA ListsKeepOptOut ==
    ASSUME OptOutInv, NEW a \in Address,
           \/ ScreenAddress(a) \/ InsertContact(a) \/ SignUp(a) \/ LiftOptOut(a)
           \/ \E c \in Campaign : Feedback(a, c)
           \/ \E everywhere \in BOOLEAN : ProviderUnsubscribe(a, everywhere)
           \/ Unsubscribe(a) \/ UnsubscribeUser(a) \/ SwitchOff(a) \/ ReadPreferences(a)
           \/ \E read, on \in BOOLEAN : WritePreferences(a, read, on)
    PROVE  OptOutInv'
<1>1. CASE ScreenAddress(a)
  BY <1>1, GateUntouched, BeginKeepsRequests DEF ScreenAddress, lists, seen, gate
<1>2. CASE InsertContact(a)
  BY <1>2, GateUntouched, EndKeepsRequests DEF InsertContact, seen, gate
<1>3. CASE SignUp(a)
  <2>1. UserRequests(requests')
    BY <1>3, BeginKeepsRequests DEF SignUp
  <2> QED BY <1>3, <2>1 DEF SignUp, OptOutInv, Suppressed, UserRequests
<1>4. CASE LiftOptOut(a)
  <2>1. UserRequests(requests')
    BY <1>4, EndKeepsRequests DEF LiftOptOut
  <2> QED BY <1>4, <2>1 DEF LiftOptOut, OptOutInv, Suppressed, UserRequests
<1>5. ASSUME NEW c \in Campaign, Feedback(a, c) PROVE OptOutInv'
  BY <1>5 DEF Feedback, OptOutInv, Suppressed
<1>6. ASSUME NEW everywhere \in BOOLEAN, ProviderUnsubscribe(a, everywhere) PROVE OptOutInv'
  BY <1>6, ZenonT(60) DEF ProviderUnsubscribe, OptOutInv, Suppressed
<1>7. CASE Unsubscribe(a)
  BY <1>7 DEF Unsubscribe, OptOutInv, Suppressed
<1>8. CASE UnsubscribeUser(a)
  BY <1>8, GateUntouched, BeginKeepsRequests DEF UnsubscribeUser, seen, gate
<1>9. CASE SwitchOff(a)
  <2>1. Request("off", a, {}) \in requests /\ UserRequests(requests')
    BY <1>9, EndKeepsRequests DEF SwitchOff
  <2>2. a \in AppUser
    BY <2>1 DEF OptOutInv, Request
  <2> QED BY <1>9, <2>1, <2>2 DEF SwitchOff, OptOutInv, Suppressed, UserRequests
<1>10. CASE ReadPreferences(a)
  BY <1>10, GateUntouched, BeginKeepsRequests DEF ReadPreferences, lists, seen, gate
<1>11. ASSUME NEW read \in BOOLEAN, NEW on \in BOOLEAN, WritePreferences(a, read, on) PROVE OptOutInv'
  <2> DEFINE r == Request(IF read THEN "read on" ELSE "read off", a, {})
  <2>1. r \in requests /\ UserRequests(requests')
    BY <1>11, EndKeepsRequests DEF WritePreferences
  <2>2. a \in AppUser
    BY <2>1 DEF OptOutInv, Request
  <2>3. CASE on = read /\ wants[a] # read
    BY <1>11, <2>1, <2>2, <2>3 DEF WritePreferences, OptOutInv, Suppressed, UserRequests
  <2>4. CASE on = read /\ wants[a] = read
    BY <1>11, <2>1, <2>2, <2>4 DEF WritePreferences, OptOutInv, Suppressed, UserRequests
  <2>5. CASE on # read
    BY <1>11, <2>1, <2>2, <2>5 DEF WritePreferences, OptOutInv, Suppressed, UserRequests
  <2> QED BY <2>3, <2>4, <2>5
<1> QED BY <1>1, <1>2, <1>3, <1>4, <1>5, <1>6, <1>7, <1>8, <1>9, <1>10, <1>11

\* Campaigns and the runner change neither a suppression nor a switch.
LEMMA CampaignsKeepOptOut ==
    ASSUME OptOutInv, Admins \/ Runner \/ (\E r \in requests : RequestFails(r)) \/ UNCHANGED vars
    PROVE  OptOutInv'
<1>0. UserRequests(requests)
  BY DEF OptOutInv, UserRequests
<1>1. CASE SetOrgCommunications \/ SenderChanges
  BY <1>0, <1>1, GateUntouched DEF SetOrgCommunications, SenderChanges, lists, seen, gate
<1>2. ASSUME NEW c \in Campaign,
             \/ StartChecks(c) \/ StartNow(c) \/ Schedule(c) \/ Pause(c)
             \/ ResumeReads(c) \/ ResumeScheduled(c) \/ ResumeSending(c) \/ CancelReads(c)
      PROVE  OptOutInv'
  <2>1. UNCHANGED gate
    BY <1>2 DEF StartChecks, StartNow, Schedule, Pause, ResumeReads, ResumeScheduled, ResumeSending,
                CancelReads, lists, seen, gate
  <2>2. UserRequests(requests')
    BY <1>0, <1>2, EndKeepsRequests, BeginKeepsRequests
    DEF StartChecks, StartNow, Schedule, Pause, ResumeReads, ResumeScheduled, ResumeSending, CancelReads
  <2> QED BY <2>1, <2>2, GateUntouched
<1>3. ASSUME NEW c \in Campaign,
             \/ CancelSkips(c)
             \/ \E r \in requests : r.on = c /\ (CancelStopsMail(c, r.picked) \/ CancelCommits(c, r.picked))
      PROVE  OptOutInv'
  <2>1. UNCHANGED gate
    BY <1>3 DEF CancelSkips, CancelStopsMail, CancelCommits, lists, seen, gate
  <2>2. UserRequests(requests')
    <3>1. CASE CancelSkips(c)
      BY <3>1, StepKeepsRequests DEF CancelSkips
    <3>2. ASSUME NEW r \in requests, CancelStopsMail(c, r.picked) PROVE UserRequests(requests')
      BY <3>2, StepKeepsRequests DEF CancelStopsMail
    <3>3. ASSUME NEW r \in requests, CancelCommits(c, r.picked) PROVE UserRequests(requests')
      BY <3>3, EndKeepsRequests DEF CancelCommits
    <3> QED BY <1>3, <3>1, <3>2, <3>3
  <2> QED BY <2>1, <2>2, GateUntouched
<1>4. CASE Runner
  <2>1. UNCHANGED <<gate, requests>>
    BY <1>4, ZenonT(60) DEF Runner, AdvancePauses, Advance, AdvanceTo, Interval, Deliver, DeliverUngated, lists, seen, gate
  <2> QED BY <1>0, <2>1, GateUntouched
<1>5. ASSUME NEW r \in requests, RequestFails(r) PROVE OptOutInv'
  BY <1>5, GateUntouched, EndKeepsRequests DEF RequestFails, lists, seen, gate
<1>6. CASE UNCHANGED vars
  BY <1>0, <1>6, GateUntouched DEF vars, lists, seen, gate
<1> QED BY <1>1, <1>2, <1>3, <1>4, <1>5, <1>6 DEF Admins

\* The gate always knows who is off the list (suppression.service.ts, addSignupContact,
\* the preference writes of communications.service.ts).
THEOREM GateKnowsOptOuts == Spec => []OptOutInv
<1>1. Init => OptOutInv
  BY DEF Init, OptOutInv
<1>2. OptOutInv /\ [Next]_vars => OptOutInv'
  BY ListsKeepOptOut, CampaignsKeepOptOut DEF Next, Lists
<1> QED BY <1>1, <1>2, PTL DEF Spec

Counted == events \in Nat

\* Reports, failing lookups and overlaps are counted.
LEMMA EventsAreCounted == Spec => []Counted
<1>1. Init => Counted
  BY DEF Init, Counted
<1>2. Counted /\ [Next]_vars => Counted'
  <2> SUFFICES ASSUME [Next]_vars PROVE events' = events \/ Event
    BY DEF Event, Counted
  <2>1. CASE Lists
    BY <2>1 DEF Lists, ScreenAddress, InsertContact, SignUp, LiftOptOut, Feedback, ProviderUnsubscribe,
                Unsubscribe, UnsubscribeUser, SwitchOff, ReadPreferences, WritePreferences, Overlap
  <2>2. CASE Admins
    BY <2>2 DEF Admins, SetOrgCommunications, SenderChanges, StartChecks, StartNow, Schedule, Pause,
                ResumeReads, ResumeScheduled, ResumeSending, CancelReads, CancelSkips, CancelStopsMail,
                CancelCommits, Overlap
  <2>3. CASE Runner
    BY <2>3, ZenonT(60) DEF Runner, AdvancePauses, Advance, AdvanceTo, Interval, Deliver, DeliverUngated
  <2>4. ASSUME NEW r \in requests, RequestFails(r) PROVE events' = events
    BY <2>4 DEF RequestFails
  <2> QED BY <2>1, <2>2, <2>3, <2>4 DEF Next, vars
<1> QED BY <1>1, <1>2, PTL DEF Spec

\* OptOutHolds for every instance: nobody is mailed whose bounce was reported, or
\* whose unsubscribe was answered and who did not opt in again (the gate of
\* email-transport.ts in front of every send).
THEOREM OptOutsHold == Spec => OptOutHolds
<1>1. OptOutInv /\ Counted /\ [Next]_vars => [MailsTheWilling]_vars
  <2> SUFFICES ASSUME OptOutInv, Counted, [Next]_vars, NEW c \in Campaign, NEW a \in Address,
                      <<c, a>> \in mailed' \ mailed, events' = events
               PROVE  a \notin bounced /\ a \notin gone \ overwritten
    BY DEF MailsTheWilling
  <2>1. PICK d \in Campaign, b \in Address : Deliver(d, b) \/ DeliverUngated(d, b)
    <3>1. ~Lists
      BY DEF Lists, ScreenAddress, InsertContact, SignUp, LiftOptOut, Feedback, ProviderUnsubscribe,
             Unsubscribe, UnsubscribeUser, SwitchOff, ReadPreferences, WritePreferences, seen
    <3>2. ~Admins
      BY DEF Admins, SetOrgCommunications, SenderChanges, StartChecks, StartNow, Schedule, Pause,
             ResumeReads, ResumeScheduled, ResumeSending, CancelReads, CancelSkips, CancelStopsMail,
             CancelCommits, seen
    <3>3. ~(\E r \in requests : RequestFails(r)) /\ ~(UNCHANGED vars)
      BY DEF RequestFails, seen, vars
    <3>4. Runner
      BY <3>1, <3>2, <3>3 DEF Next
    <3> QED BY <3>4, ZenonT(60) DEF Runner, AdvancePauses, Advance, AdvanceTo, Interval, seen
  <2>2. ~Event
    BY DEF Event, Counted
  <2>3. a = b /\ Gate(a)
    BY <2>1, <2>2 DEF Deliver, DeliverUngated
  <2> QED BY <2>3 DEF Gate, OptOutInv, Suppressed
<1> QED BY <1>1, GateKnowsOptOuts, EventsAreCounted, PTL DEF Spec, OptOutHolds
=============================================================================
