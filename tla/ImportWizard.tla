----------------------------- MODULE ImportWizard -----------------------------
(***************************************************************************)
(* The spreadsheet importer's pages (web/src/components/ImportWizard and   *)
(* UploadField, with the uploads and imports stores): a file is uploaded,  *)
(* its columns matched, what would happen shown, and then done.  Requests  *)
(* land after the page has moved on.                                       *)
(***************************************************************************)
EXTENDS Naturals, FiniteSets

CONSTANTS
    File,        \* files the user picks
    Attests,     \* the definition asks where the list comes from
    Overlap,     \* a file may be picked while another's upload is under way
    MaxSessions, MaxEdits  \* bounds: import sessions; mappings other than the proposal

VARIABLES
    spec,      \* "loading", "ready", "forbidden" or "error"
    step,      \* the page shown
    session,   \* the import session, 0 for none
    mapping,   \* the mapping on screen, 0 the server's proposal
    preview,   \* the preview held, {} or one [session, mapping, rows]
    busy, attested,
    queue,     \* files of the upload field: uploading, done or error
    pending,   \* requests under way
    sessions,  \* sessions the server has begun
    saved,     \* saved[s]: the mapping the server holds
    commits    \* the last commit, and the preview the user was shown when asking for it

vars == <<spec, step, session, mapping, preview, busy, attested, queue, pending, sessions, saved, commits>>

Sessions == 1..MaxSessions
Mappings == 0..MaxEdits
Preview == [session : Sessions, mapping : Mappings, rows : BOOLEAN]

TypeOK ==
    /\ spec \in {"loading", "ready", "forbidden", "error"} /\ step \in {"upload", "map", "preview", "results"}
    /\ session \in 0..MaxSessions /\ mapping \in Mappings /\ preview \in SUBSET Preview /\ busy \in BOOLEAN
    /\ attested \in BOOLEAN /\ queue \in [File -> {"none", "uploading", "done", "error"}]
    /\ sessions \in 0..MaxSessions /\ saved \in [Sessions -> Mappings]
    /\ \A r \in pending : r.kind \in {"start", "save", "preview", "commit"}

Init ==
    /\ spec = "loading" /\ step = "upload" /\ session = 0 /\ mapping = 0 /\ preview = {} /\ busy = FALSE
    /\ attested = FALSE /\ queue = [f \in File |-> "none"] /\ pending = {} /\ sessions = 0
    /\ saved = [s \in Sessions |-> 0] /\ commits = {}

page == <<spec, step, session, mapping, preview, attested>>
server == <<sessions, saved, commits>>
Send(r) == pending' = pending \cup {r}
Request(kind, s, m, f) == [kind |-> kind, session |-> s, mapping |-> m, file |-> f, shown |-> {}]

\* What each page offers: the field of the first is off while the wizard is busy.
UploadStep == spec = "ready" /\ step = "upload" /\ ~ busy
MapStep == spec = "ready" /\ step = "map" /\ session # 0
PreviewStep == spec = "ready" /\ step = "preview" /\ preview # {}
ResultsStep == spec = "ready" /\ step = "results"

-----------------------------------------------------------------------------
\* loadSpec.
LoadSpec(outcome) ==
    /\ spec = "loading" /\ spec' = outcome
    /\ UNCHANGED <<step, session, mapping, preview, attested, busy, queue, pending, server>>

\* UploadField: a file is picked or dropped; what fails the check is not sent.  The
\* field stays on while its own upload runs.
Pick(f, fits) ==
    /\ UploadStep /\ queue[f] = "none"
    /\ queue' = [queue EXCEPT ![f] = IF fits THEN "uploading" ELSE "error"]
    /\ Overlap \/ \A g \in File : queue[g] # "uploading"
    /\ UNCHANGED <<page, busy, pending, server>>
\* The upload ends: onUploaded asks for a session, wherever the wizard is by now.
Uploaded(f, lands) ==
    /\ queue[f] = "uploading" /\ queue' = [queue EXCEPT ![f] = IF lands THEN "done" ELSE "error"]
    /\ IF lands THEN busy' = TRUE /\ Send(Request("start", 0, 0, f)) ELSE UNCHANGED <<busy, pending>>
    /\ UNCHANGED <<page, server>>
Dismiss(f) ==
    /\ step = "upload" /\ queue[f] \in {"done", "error"} /\ queue' = [queue EXCEPT ![f] = "none"]
    /\ UNCHANGED <<page, busy, pending, server>>

\* The session begins: its proposal is shown for confirmation.
StartLands(r, lands) ==
    /\ r.kind = "start" /\ pending' = pending \ {r} /\ busy' = FALSE
    /\ \/ /\ lands /\ sessions < MaxSessions /\ sessions' = sessions + 1
          /\ session' = sessions + 1 /\ mapping' = 0 /\ step' = "map"
       \/ ~ lands /\ UNCHANGED <<sessions, session, mapping, step>>
    /\ UNCHANGED <<spec, preview, attested, queue, saved, commits>>

\* setField; the name of a kept column can be edited while a request is under way.
SetField(custom) ==
    /\ MapStep /\ (custom \/ ~ busy) /\ mapping < MaxEdits /\ mapping' = mapping + 1
    /\ UNCHANGED <<spec, step, session, preview, attested, busy, queue, pending, server>>

\* Mutant of GoToPreview: the preview is asked for without waiting for the save.
GoToPreviewAtOnce ==
    /\ MapStep /\ ~ busy /\ busy' = TRUE
    /\ pending' = pending \cup {Request("save", session, mapping, 0), Request("preview", session, 0, 0)}
    /\ UNCHANGED <<page, queue, server>>

\* goToPreview: the mapping is saved, then the preview asked for ...
GoToPreview ==
    /\ MapStep /\ ~ busy /\ busy' = TRUE /\ Send(Request("save", session, mapping, 0))
    /\ UNCHANGED <<page, queue, server>>
\* ... of the session the page holds when the first answer is in.
SaveLands(r, lands) ==
    /\ r.kind = "save"
    /\ \/ /\ lands /\ saved' = [saved EXCEPT ![r.session] = r.mapping]
          /\ pending' = (pending \ {r}) \cup
               (IF session = 0 THEN {} ELSE {Request("preview", session, 0, 0)})
          /\ busy' = (session # 0)
       \/ ~ lands /\ pending' = pending \ {r} /\ busy' = FALSE /\ UNCHANGED saved
    /\ UNCHANGED <<page, queue, sessions, commits>>
PreviewLands(r, lands, rows) ==
    /\ r.kind = "preview" /\ pending' = pending \ {r} /\ busy' = FALSE
    /\ \/ /\ lands /\ step' = "preview"
          /\ preview' = {[session |-> r.session, mapping |-> saved[r.session], rows |-> rows]}
       \/ ~ lands /\ UNCHANGED <<step, preview>>
    /\ UNCHANGED <<spec, session, mapping, attested, queue, server>>

Back ==
    /\ PreviewStep /\ ~ busy /\ step' = "map"
    /\ UNCHANGED <<spec, session, mapping, preview, attested, busy, queue, pending, server>>
\* The answers about the list, complete or not.
Attest ==
    /\ PreviewStep /\ Attests /\ attested' = ~ attested
    /\ UNCHANGED <<spec, step, session, mapping, preview, busy, queue, pending, server>>

\* commit: some row would land, and the answers are complete where they are asked.
Commit ==
    /\ PreviewStep /\ session # 0 /\ ~ busy /\ (Attests => attested)
    /\ \E p \in preview : p.rows
    /\ busy' = TRUE /\ Send([Request("commit", session, 0, 0) EXCEPT !.shown = preview])
    /\ UNCHANGED <<page, queue, server>>
CommitLands(r, lands) ==
    /\ r.kind = "commit" /\ pending' = pending \ {r} /\ busy' = FALSE
    /\ \/ /\ lands /\ session' = r.session /\ step' = "results"
          /\ commits' = {[session |-> r.session, mapping |-> saved[r.session], shown |-> r.shown]}
       \/ ~ lands /\ UNCHANGED <<session, step, commits>>
    /\ UNCHANGED <<spec, mapping, preview, attested, queue, sessions, saved>>

StartOver ==
    /\ ResultsStep \/ (MapStep /\ ~ busy)
    /\ session' = 0 /\ mapping' = 0 /\ preview' = {} /\ step' = "upload"
    /\ queue' = [f \in File |-> IF queue[f] = "uploading" THEN queue[f] ELSE "none"]
    /\ UNCHANGED <<spec, attested, busy, pending, server>>

Next ==
    \/ \E outcome \in {"ready", "forbidden", "error"} : LoadSpec(outcome)
    \/ \E f \in File : Dismiss(f) \/ \E b \in BOOLEAN : Pick(f, b) \/ Uploaded(f, b)
    \/ \E r \in pending, lands \in BOOLEAN : StartLands(r, lands) \/ SaveLands(r, lands) \/ CommitLands(r, lands)
    \/ \E r \in pending, lands \in BOOLEAN, rows \in BOOLEAN : PreviewLands(r, lands, rows)
    \/ \E custom \in BOOLEAN : SetField(custom)
    \/ GoToPreview \/ Back \/ Attest \/ Commit \/ StartOver
Spec == Init /\ [][Next]_vars

-----------------------------------------------------------------------------
\* "what will happen, before it happens": what is committed is the session and the
\* mapping that the preview on screen was made from, whatever was edited, sent
\* back or lost on the way.  Holds while files are picked one at a time; with
\* Overlap the slower upload's session takes the page over between the preview and
\* the commit.
CommitsWhatWasShown ==
    \A c \in commits : \E p \in c.shown : p.session = c.session /\ p.mapping = c.mapping
\* What keeps it so: with files picked one at a time, one request is under way, for
\* the page that sent it and its session; a preview on screen is of what is saved.
Awaited(r) ==
    \/ r.kind = "start" /\ step = "upload"
    \/ r.kind \in {"save", "preview"} /\ step = "map" /\ r.session = session /\ session # 0 /\ r.mapping \in Mappings
    \/ r.kind = "commit" /\ step = "preview" /\ r.session = session /\ r.shown = preview
WizardInv ==
    /\ TypeOK
    /\ \A r \in pending : pending = {r} /\ busy /\ Awaited(r)
    /\ \A f \in File : queue[f] = "uploading" =>
         step = "upload" /\ pending = {} /\ \A g \in File : queue[g] = "uploading" => g = f
    /\ step = "preview" =>
         /\ session # 0
         /\ \E rows \in BOOLEAN : preview = {[session |-> session, mapping |-> saved[session], rows |-> rows]}
    /\ CommitsWhatWasShown
=============================================================================
