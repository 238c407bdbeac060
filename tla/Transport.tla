------------------------------ MODULE Transport ------------------------------
(***************************************************************************)
(* How a message leaves the application (services/email-transport.ts over  *)
(* email-kinds.ts and email-mailbox.ts), and the expiration digest that    *)
(* sends one through it to each recipient of each organization             *)
(* (services/expiration-digest.ts).  A send is a chain of gates; the       *)
(* settings it reads and the sender's standing may change between them.    *)
(***************************************************************************)
EXTENDS Naturals, Sequences, FiniteSets, SequencesExt

CONSTANTS
    Orgs,           \* the organizations in the order a digest scans them: a sequence
    Members,        \* per organization, its recipients in order
    Reserved,       \* recipients at reserved domains
    Capacity,       \* MAX_CAPTURED_EMAILS
    MaxSends, MaxChanges   \* bounds: messages beside the digest's, changes of settings

\* The registered kinds, and which of them are auth-critical.
Kinds == [invite |-> TRUE, otp |-> TRUE, portal_link |-> TRUE, expiration_digest |-> FALSE]

VARIABLES
    setup,          \* demo mode, SMTP credentials, a platform sender, the mailbox beside SMTP
    muted,          \* who the communications gate stops: recipients and organizations
    verified,       \* the provider accepts the configured sender
    sends,          \* every message, in order of its send
    mailbox, seq,   \* the captured ones, oldest first, and how many ever were
    inbox,          \* messages accepted for a recipient: their numbers and senders
    digest,         \* the run: the organization, the recipient, its message; the organizations counted
    changes

vars == <<setup, muted, verified, sends, mailbox, seq, inbox, digest, changes>>

Org == ToSet(Orgs)
Person == UNION {ToSet(Members[o]) : o \in Org}
NoDigest == [state |-> "off", org |-> 1, person |-> 1, message |-> 0, failed |-> {}, scanned |-> {}, found |-> {}]

Init ==
    /\ setup \in [demo : BOOLEAN, smtp : BOOLEAN, platform : BOOLEAN, capture : BOOLEAN]
    /\ muted = {} /\ verified = TRUE /\ sends = <<>> /\ mailbox = <<>> /\ seq = 0 /\ inbox = {}
    /\ digest = NoDigest /\ changes = 0

TypeOK ==
    /\ \A i \in DOMAIN sends : sends[i].at \in {"start", "headers", "smtp", "fallback", "quiet", "sent", "thrown"}
    /\ muted \subseteq Person \cup Org /\ Len(mailbox) <= Capacity /\ changes \in 0..MaxChanges

-----------------------------------------------------------------------------
(* sendEmail, one message. *)

Message(kind, org, to, test) ==
    [kind |-> kind, org |-> org, to |-> to, test |-> test, critical |-> Kinds[kind], at |-> "start"]
\* sendEmailKind for a code, an invite or a portal link; sendTestEmail for an admin's
\* test of any kind.
Send(kind, org, to, test) ==
    /\ (test \/ kind # "expiration_digest") /\ digest.state = "off"
    /\ Len(sends) < MaxSends /\ sends' = Append(sends, Message(kind, org, to, test))
    /\ UNCHANGED <<setup, muted, verified, mailbox, seq, inbox, digest, changes>>

\* Mutant of Gated: the gate is asked whatever the message.
GatedAlways(s) == ~ s.test
\* The communications gate is for ordinary mail.
Gated(s) == ~ s.critical /\ ~ s.test
\* The gates before the message is made: demo mode, then the settings, read as they
\* are now; a lookup that fails lets the message through.
Gate(i, failed) ==
    /\ sends[i].at = "start"
    /\ LET s == sends[i]
           stopped == setup.demo \/ (Gated(s) /\ ~ failed /\ {s.to, s.org} \cap muted # {})
       IN sends' = [sends EXCEPT ![i].at = IF stopped THEN "quiet" ELSE "headers"]
    /\ UNCHANGED <<setup, muted, verified, mailbox, seq, inbox, digest, changes>>

\* mailboxCaptureEnabled and captureEmail: a ring of the newest messages.
Captures == ~ setup.smtp \/ setup.capture
Captured(i) ==
    LET all == Append(mailbox, [seq |-> seq + 1, message |-> i])
    IN SubSeq(all, IF Len(all) > Capacity THEN 2 ELSE 1, Len(all))
\* Captured, then over to SMTP if there is one and the recipient can exist.
Capture(i) ==
    /\ sends[i].at = "headers"
    /\ mailbox' = (IF Captures THEN Captured(i) ELSE mailbox) /\ seq' = seq + (IF Captures THEN 1 ELSE 0)
    /\ sends' = [sends EXCEPT ![i].at = IF ~ setup.smtp \/ sends[i].to \in Reserved THEN "quiet" ELSE "smtp"]
    /\ UNCHANGED <<setup, muted, verified, inbox, digest, changes>>

\* Mutant of CanFallBack: any refusal sends the message again from the platform.
CanFallBackAlways(s, refusal) == setup.platform
\* A refusal of the sender, for an auth-critical message, where the platform has one.
CanFallBack(s, refusal) == s.critical /\ refusal = "sender" /\ setup.platform
\* The provider's answer, or a connection lost after the message was taken ("lost").
Smtp(i, answer) ==
    /\ sends[i].at = "smtp" /\ (answer = "sender" <=> ~ verified)
    /\ sends' = [sends EXCEPT ![i].at = CASE answer = "taken" -> "sent"
                                          [] CanFallBack(sends[i], answer) -> "fallback"
                                          [] OTHER -> "thrown"]
    /\ inbox' = IF answer \in {"taken", "lost"} THEN inbox \cup {<<i, "own">>} ELSE inbox
    /\ UNCHANGED <<setup, muted, verified, mailbox, seq, digest, changes>>
\* Once more, from the platform's sender; its failure is the first one's.
Fallback(i, taken) ==
    /\ sends[i].at = "fallback"
    /\ sends' = [sends EXCEPT ![i].at = IF taken THEN "sent" ELSE "thrown"]
    /\ inbox' = IF taken THEN inbox \cup {<<i, "platform">>} ELSE inbox
    /\ UNCHANGED <<setup, muted, verified, mailbox, seq, digest, changes>>

Change ==
    /\ changes < MaxChanges /\ changes' = changes + 1
    /\ \/ \E x \in Person \cup Org : muted' = (muted \ {x}) \cup ({x} \ muted) /\ UNCHANGED verified
       \/ verified' = ~ verified /\ UNCHANGED muted
    /\ UNCHANGED <<setup, sends, mailbox, seq, inbox, digest>>

-----------------------------------------------------------------------------
(* runExpirationDigest. *)

StartDigest ==
    /\ digest.state = "off" /\ Len(sends) = 0 /\ digest' = [NoDigest EXCEPT !.state = "scan"]
    /\ UNCHANGED <<setup, muted, verified, sends, mailbox, seq, inbox, changes>>

\* Mutant of NextOrg: an organization that fails ends the run.
NextOrgStops(d, failed) ==
    [d EXCEPT !.org = IF failed THEN Len(Orgs) + 1 ELSE @ + 1, !.person = 1, !.message = 0, !.state = "scan",
              !.failed = IF failed THEN @ \cup {Orgs[d.org]} ELSE @]
\* The next organization; this one counted if it failed.
NextOrg(d, failed) ==
    [d EXCEPT !.org = @ + 1, !.person = 1, !.message = 0, !.state = "scan",
              !.failed = IF failed THEN @ \cup {Orgs[d.org]} ELSE @]
\* The expiring records and the recipients are read: found, none, or a throw.
Scan(found) ==
    /\ digest.state = "scan" /\ digest.org <= Len(Orgs)
    /\ LET o == Orgs[digest.org]
           d == [digest EXCEPT !.scanned = @ \cup {o}, !.found = IF found = "records" THEN @ \cup {o} ELSE @] IN
       digest' = IF found = "records" /\ Members[o] # <<>> THEN [d EXCEPT !.state = "mail"]
                 ELSE NextOrg(d, found = "throws")
    /\ UNCHANGED <<setup, muted, verified, sends, mailbox, seq, inbox, changes>>
\* The next recipient's message is sent and waited for; a throw leaves the organization.
Mail ==
    LET o == Orgs[digest.org]  people == Members[o] IN
    /\ digest.state = "mail" /\ digest.message = 0 /\ digest.person <= Len(people)
    /\ sends' = Append(sends, Message("expiration_digest", o, people[digest.person], FALSE))
    /\ digest' = [digest EXCEPT !.message = Len(sends) + 1]
    /\ UNCHANGED <<setup, muted, verified, mailbox, seq, inbox, changes>>
Mailed ==
    /\ digest.state = "mail" /\ digest.message # 0
    /\ sends[digest.message].at \in {"quiet", "sent", "thrown"}
    /\ digest' = IF sends[digest.message].at = "thrown" THEN NextOrg(digest, TRUE)
                 ELSE IF digest.person = Len(Members[Orgs[digest.org]]) THEN NextOrg(digest, FALSE)
                 ELSE [digest EXCEPT !.person = @ + 1, !.message = 0]
    /\ UNCHANGED <<setup, muted, verified, sends, mailbox, seq, inbox, changes>>
EndDigest ==
    /\ digest.state = "scan" /\ digest.org > Len(Orgs) /\ digest' = [digest EXCEPT !.state = "done"]
    /\ UNCHANGED <<setup, muted, verified, sends, mailbox, seq, inbox, changes>>

Next ==
    \/ \E k \in DOMAIN Kinds, o \in Org, test \in BOOLEAN : \E p \in ToSet(Members[o]) : Send(k, o, p, test)
    \/ \E i \in DOMAIN sends :
         \/ \E failed \in BOOLEAN : Gate(i, failed)
         \/ Capture(i)
         \/ \E a \in {"taken", "sender", "refused", "lost"} : Smtp(i, a)
         \/ \E taken \in BOOLEAN : Fallback(i, taken)
    \/ Change
    \/ StartDigest \/ Mail \/ Mailed \/ EndDigest
    \/ \E found \in {"records", "none", "throws"} : Scan(found)
Spec == Init /\ [][Next]_vars

-----------------------------------------------------------------------------
\* A sign-in code, an invite or a portal link is never dropped in silence: outside
\* demo mode, with a mail server and a recipient that can exist, its send either
\* delivers it or throws to its caller, whatever settings change meanwhile; and no
\* send delivers one message twice, the platform's sender included.
CriticalIsNeverSilent ==
    \A i \in DOMAIN sends :
        /\ sends[i].critical /\ sends[i].at = "quiet" => setup.demo \/ ~ setup.smtp \/ sends[i].to \in Reserved
        /\ sends[i].at = "sent" => \E from \in {"own", "platform"} : <<i, from>> \in inbox
        /\ ~ ({<<i, "own">>, <<i, "platform">>} \subseteq inbox)
\* "a run that fails for one org still covers the rest": when the digest ends, each
\* organization it did not count as failed has had every message tried and none thrown.
DigestCoversTheRest ==
    digest.state = "done" =>
        /\ digest.scanned = Org
        /\ \A o \in digest.found \ digest.failed : \A p \in ToSet(Members[o]) : \E i \in DOMAIN sends :
             sends[i].org = o /\ sends[i].to = p /\ sends[i].at \in {"quiet", "sent"}
\* What keeps them so: a message still on its way has reached nobody; of the
\* organization at hand, the recipients before the one at hand were tried.
Msg == [kind : DOMAIN Kinds, org : Org, to : Person, test : BOOLEAN, critical : BOOLEAN,
        at : {"start", "headers", "smtp", "fallback", "quiet", "sent", "thrown"}]
SendInv ==
    /\ sends \in Seq(Msg) /\ \A m \in inbox : m[1] \in DOMAIN sends
    /\ \A i \in DOMAIN sends : sends[i].at \in {"start", "headers", "smtp", "fallback"} =>
         <<i, "own">> \notin inbox /\ <<i, "platform">> \notin inbox
    /\ CriticalIsNeverSilent
Tried(o, p) ==
    \E i \in DOMAIN sends : sends[i].org = o /\ sends[i].to = p /\ sends[i].at \in {"quiet", "sent"}
AtHand ==
    LET people == Members[Orgs[digest.org]] IN
    /\ digest.org <= Len(Orgs) /\ digest.person \in 1..Len(people)
    /\ \A k \in 1..(digest.person - 1) : Tried(Orgs[digest.org], people[k])
    /\ digest.message # 0 => /\ digest.message \in DOMAIN sends
                             /\ sends[digest.message].org = Orgs[digest.org]
                             /\ sends[digest.message].to = people[digest.person]
Digest == [state : {"off", "scan", "mail", "done"}, org : 1..(Len(Orgs) + 1), person : Nat, message : Nat,
           failed : SUBSET Org, scanned : SUBSET Org, found : SUBSET Org]
DigestInv ==
    /\ digest \in Digest
    /\ digest.scanned = {Orgs[k] : k \in 1..(IF digest.state = "mail" THEN digest.org ELSE digest.org - 1)}
    /\ digest.state \in {"off", "scan"} => digest.person = 1 /\ digest.message = 0
    /\ digest.state = "mail" => AtHand
    /\ digest.state = "done" => digest.org = Len(Orgs) + 1
    /\ \A o \in digest.found \ digest.failed :
         (\A p \in ToSet(Members[o]) : Tried(o, p)) \/ (digest.state = "mail" /\ o = Orgs[digest.org])

\* A failing address costs nobody else the digest.  Does not hold: the recipients
\* after it in the same organization are passed over.
FailureStaysWithItsAddress ==
    digest.state = "done" =>
        \A o \in digest.found :
            \A p \in ToSet(Members[o]) : \E i \in DOMAIN sends : sends[i].org = o /\ sends[i].to = p
=============================================================================
