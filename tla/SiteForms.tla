------------------------------ MODULE SiteForms ------------------------------
(***************************************************************************)
(* Forms of the landing site (src/api/routes/site-forms and                *)
(* src/services/site-forms.service.ts): a post passes the honeypot, the    *)
(* two rate limits and the checks of its form; the submission and the      *)
(* emails that announce it are written in one transaction.                 *)
(***************************************************************************)
EXTENDS Naturals, Sequences, FiniteSets, Functions

CONSTANTS
    Post, IpOf,         \* posts and where they come from
    Form,               \* the fields of the form: a sequence of [type, required, options]
    Sends,              \* Sends[p]: the values p has for each field, each a sequence of words
    Configured, Owner,  \* LEAD_NOTIFICATION_EMAIL; the oldest owner account, or none
    PerIp, Site,        \* SITE_FORM_LIMITS
    MaxFaults           \* bound

VARIABLES
    step,      \* step[p]: where the handler is
    ip, site,  \* the limiter's counters
    reply,     \* reply[p]: what the first of them said to p
    owner,     \* an owner account exists
    to,        \* to[p]: the recipients p's handler has read
    stored,    \* posts with a site_form_submissions row
    mails,     \* email_outbox: <<post, address>>
    faults

vars == <<step, ip, site, reply, owner, to, stored, mails, faults>>

Ips == Range(IpOf)
Answers == {"sent", "invalid", "limited", "error"}

TypeOK ==
    /\ step \in [Post -> {"new", "ip", "site", "check", "notify", "save"} \cup Answers]
    /\ ip \in [Ips -> Nat] /\ site \in Nat /\ reply \in [Post -> Nat] /\ owner \in BOOLEAN
    /\ to \in [Post -> SUBSET (Configured \cup Owner)] /\ stored \subseteq Post
    /\ mails \subseteq Post \X (Configured \cup Owner) /\ faults \in 0..MaxFaults

Init ==
    /\ step = [p \in Post |-> "new"] /\ ip = [i \in Ips |-> 0] /\ site = 0 /\ reply = [p \in Post |-> 0]
    /\ owner = FALSE
    /\ to = [p \in Post |-> {}] /\ stored = {} /\ mails = {} /\ faults = 0

-----------------------------------------------------------------------------
(* validateSubmission.  A field's input is the sequence of its words: "blank"  *)
(* is trimmed away, "long" is over the limit, "bad" fails the type's format.   *)

First(words) == IF words = <<>> \/ Head(words) = "blank" THEN "" ELSE Head(words)
Listed(words) == {words[i] : i \in {j \in DOMAIN words : words[j] # "blank"}}

\* A field's verdict: "error", "absent" or "value".
Verdict(f, words) ==
    CASE f.type = "checkboxes" ->
            IF ~ Listed(words) \subseteq f.options THEN "error"
            ELSE IF Listed(words) # {} THEN "value" ELSE IF f.required THEN "error" ELSE "absent"
      [] f.type = "checkbox" -> IF f.required /\ First(words) # "yes" THEN "error" ELSE "value"
      [] OTHER ->
            LET v == IF f.type = "hidden" THEN "fixed" ELSE First(words) IN
            IF v = "" THEN IF f.required THEN "error" ELSE "absent"
            ELSE IF v = "long" THEN "error"
            ELSE IF f.type = "choice" /\ v \notin f.options THEN "error"
            ELSE IF f.type \in {"email", "tel", "url", "number", "date"} /\ v = "bad" THEN "error"
            ELSE "value"
ValidateSubmission(sent) == \A i \in DOMAIN Form : Verdict(Form[i], sent[i]) # "error"

-----------------------------------------------------------------------------
(* The handler. *)

GoTo(p, s) == step' = [step EXCEPT ![p] = s]
data == <<ip, site, reply, owner, to, stored, mails>>

\* The form is found and the body read; what falls for the honeypot is told it was sent.
Receive(p, read) ==
    /\ step[p] = "new"
    /\ GoTo(p, CASE read = "unreadable" -> "invalid" [] read = "honeypot" -> "sent" [] OTHER -> "ip")
    /\ UNCHANGED <<data, faults>>
\* Both counters are taken, whatever the first one says.
CountIp(p) ==
    /\ step[p] = "ip" /\ ip' = [ip EXCEPT ![IpOf[p]] = @ + 1] /\ GoTo(p, "site")
    /\ reply' = [reply EXCEPT ![p] = ip[IpOf[p]] + 1]
    /\ UNCHANGED <<site, owner, to, stored, mails, faults>>
CountSite(p) ==
    /\ step[p] = "site" /\ site' = site + 1
    /\ GoTo(p, IF reply[p] > PerIp \/ site + 1 > Site THEN "limited" ELSE "check")
    /\ UNCHANGED <<ip, reply, owner, to, stored, mails, faults>>
Validate(p) ==
    /\ step[p] = "check" /\ GoTo(p, IF ValidateSubmission(Sends[p]) THEN "notify" ELSE "invalid")
    /\ UNCHANGED <<data, faults>>
\* siteFormRecipients.
ReadRecipients(p) ==
    /\ step[p] = "notify" /\ GoTo(p, "save")
    /\ to' = [to EXCEPT ![p] = IF Configured # {} THEN Configured ELSE IF owner THEN Owner ELSE {}]
    /\ UNCHANGED <<ip, site, reply, owner, stored, mails, faults>>

\* Mutant of CreateSubmission: the emails are queued outside the transaction.
CreateRowFirst(p, commits) ==
    /\ step[p] = "save" /\ stored' = stored \cup {p}
    /\ \/ commits /\ GoTo(p, "sent") /\ mails' = mails \cup ({p} \X to[p]) /\ UNCHANGED faults
       \/ ~ commits /\ faults < MaxFaults /\ faults' = faults + 1 /\ GoTo(p, "error") /\ UNCHANGED mails
    /\ UNCHANGED <<ip, site, reply, owner, to>>

\* createSiteFormSubmission: the row and one email for each recipient, or neither.
CreateSubmission(p, commits) ==
    /\ step[p] = "save"
    /\ \/ /\ commits /\ GoTo(p, "sent") /\ UNCHANGED faults
          /\ stored' = stored \cup {p} /\ mails' = mails \cup ({p} \X to[p])
       \/ /\ ~ commits /\ faults < MaxFaults /\ faults' = faults + 1
          /\ GoTo(p, "error") /\ UNCHANGED <<stored, mails>>
    /\ UNCHANGED <<ip, site, reply, owner, to>>

\* The first owner signs up (external to this handler).
OwnerSignsUp ==
    /\ ~ owner /\ Owner # {} /\ owner' = TRUE
    /\ UNCHANGED <<step, ip, site, reply, to, stored, mails, faults>>

Next ==
    \/ OwnerSignsUp
    \/ \E p \in Post :
        \/ CountIp(p) \/ CountSite(p) \/ Validate(p) \/ ReadRecipients(p)
        \/ \E read \in {"form", "unreadable", "honeypot"} : Receive(p, read)
        \/ \E commits \in BOOLEAN : CreateSubmission(p, commits)
Spec == Init /\ [][Next]_vars

-----------------------------------------------------------------------------
\* "stored as one row ..., and an email to the site owner is queued in the same
\* transaction": what is stored is announced to everyone whose address was known
\* when the handler asked, nothing else is, and only what the form allows is
\* stored, whatever fails.
StoredIsAnnounced ==
    /\ \A p \in stored : ({p} \X to[p]) \subseteq mails /\ ValidateSubmission(Sends[p])
    /\ \A m \in mails : m[1] \in stored

\* What keeps it so: a post comes to the recipients past the checks of its form, and
\* is stored at the end, when its recipients are read.
AnnounceInv ==
    /\ step \in [Post -> {"new", "ip", "site", "check", "notify", "save"} \cup Answers] /\ DOMAIN to = Post
    /\ \A p \in Post : step[p] \in {"notify", "save"} => ValidateSubmission(Sends[p])
    /\ \A p \in stored : p \in Post /\ step[p] = "sent"
    /\ StoredIsAnnounced
=============================================================================
