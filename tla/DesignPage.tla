----------------------------- MODULE DesignPage -----------------------------
(***************************************************************************)
(* The design page (web/src/routes/Design.svelte) and the file it edits,   *)
(* design.json, behind /api/dev/design (design.service.ts): the page loads *)
(* the file when it mounts, every control changes the design it previews,  *)
(* and saving sends the design of the moment.  An agent writes the file    *)
(* too, through the same routes or by hand.                                *)
(*                                                                         *)
(* A design is its preset and, of all it sets, an ink, a canvas and a type *)
(* size; a shade that is no hex colour is None, and shades that differ by  *)
(* Readable or more have the contrast that text needs.                     *)
(***************************************************************************)
EXTENDS Integers, FiniteSets

CONSTANTS
    Preset,     \* the presets: designs with a preset of their own, without errors
    Shade, Size,
    Readable, SizeLimits,
    Bundled,    \* the design.json the page was built with
    None,       \* no preset, no hex colour, no answer
    Overlap,    \* whether the user goes on while a request is under way
    MaxChanges  \* bound: edits, saves, mounts and writes from elsewhere

Design == [preset : {p.preset : p \in Preset} \cup {None},
           text : Shade \cup {None}, canvas : Shade \cup {None}, size : Size]

VARIABLES
    file,      \* design.json
    design, baseline, saveState,
    load, put, \* the requests under way: nothing, sent, or their answer
    behind,    \* whether the file may have changed since the page last knew it
    changes
vars == <<file, design, baseline, saveState, load, put, behind, changes>>

Quiet == [at |-> "none", design |-> None]
Request == [at : {"none", "sent", "answered"}, design : Design \cup {None}]

\* validateDesign, its errors: a colour that is none ends the checks.
Abs(n) == IF n < 0 THEN -n ELSE n
Errors(d) ==
    IF None \in {d.text, d.canvas} THEN {"color"}
    ELSE (IF Abs(d.text - d.canvas) < Readable THEN {"contrast"} ELSE {})
         \cup (IF d.size \notin SizeLimits THEN {"size"} ELSE {})

TypeOK ==
    /\ {file, design, baseline} \subseteq Design
    /\ saveState \in {"idle", "saving", "saved", "error"}
    /\ {load, put} \subseteq Request /\ behind \in BOOLEAN /\ changes \in 0 .. MaxChanges

Init ==
    /\ file \in Preset \cup {Bundled} /\ design = Bundled /\ baseline = Bundled
    /\ saveState = "idle" /\ load = [at |-> "sent", design |-> None] /\ put = Quiet
    /\ behind = TRUE /\ changes = 0

Change == changes < MaxChanges /\ changes' = changes + 1
Idle == Overlap \/ (load = Quiet /\ put = Quiet)

-----------------------------------------------------------------------------
(* The server. *)

\* GET /design: readDesign fails on a file with errors.
Get ==
    /\ load.at = "sent"
    /\ load' = [at |-> "answered", design |-> IF Errors(file) = {} THEN file ELSE None]
    /\ behind' = (behind /\ Errors(file) # {})
    /\ UNCHANGED <<file, design, baseline, saveState, put, changes>>

\* PUT /design: writeDesign refuses a design with errors.
Put ==
    /\ put.at = "sent"
    /\ IF Errors(put.design) = {}
       THEN file' = put.design /\ put' = [put EXCEPT !.at = "answered"] /\ behind' = FALSE
       ELSE put' = [at |-> "answered", design |-> None] /\ UNCHANGED <<file, behind>>
    /\ UNCHANGED <<design, baseline, saveState, load, changes>>

\* The answer never comes, whether or not the file was written.
Fails ==
    /\ \/ load.at # "none" /\ load' = [at |-> "answered", design |-> None] /\ UNCHANGED put
       \/ put.at # "none" /\ put' = [at |-> "answered", design |-> None] /\ UNCHANGED load
    /\ load' # load \/ put' # put
    /\ behind' = TRUE /\ Change
    /\ UNCHANGED <<file, design, baseline, saveState>>

\* An agent PUTs a design, or a preset (POST /design/preset); one with errors is
\* refused.
AgentPuts(d) ==
    /\ Errors(d) = {} /\ file' = d /\ behind' = TRUE /\ Change
    /\ UNCHANGED <<design, baseline, saveState, load, put>>

\* The file is edited by hand, to whatever.
EditByHand(d) ==
    /\ file' = d /\ behind' = TRUE /\ Change
    /\ UNCHANGED <<design, baseline, saveState, load, put>>

-----------------------------------------------------------------------------
(* The page. *)

\* The page is opened anew, or reloaded because the file has changed: what it was
\* waiting for is of no interest any more, though a PUT that was sent is served.
Mount ==
    /\ put.at # "sent" /\ Change
    /\ design' = Bundled /\ baseline' = Bundled /\ saveState' = "idle"
    /\ load' = [at |-> "sent", design |-> None] /\ put' = Quiet
    /\ behind' = TRUE /\ UNCHANGED file

\* The design of the server replaces what the page has; a failure leaves the
\* bundled one.
LoadLands ==
    /\ load.at = "answered"
    /\ IF load.design = None THEN UNCHANGED <<design, baseline>>
       ELSE design' = load.design /\ baseline' = load.design
    /\ load' = Quiet /\ UNCHANGED <<file, saveState, put, behind, changes>>

\* A control changes the design, which is custom from then on (markCustom).
Edit ==
    /\ Idle /\ Change
    /\ \E d \in Design :
        /\ Cardinality({f \in {"text", "canvas", "size"} : d[f] # design[f]}) = 1
        /\ design' = [d EXCEPT !.preset = None]
    /\ UNCHANGED <<file, baseline, saveState, load, put, behind>>

ApplyPreset ==
    /\ Idle /\ Change
    /\ design' \in Preset /\ design' # design
    /\ UNCHANGED <<file, baseline, saveState, load, put, behind>>

Reset ==
    /\ Idle /\ design # baseline
    /\ design' = baseline
    /\ UNCHANGED <<file, baseline, saveState, load, put, behind, changes>>

Save ==
    /\ Idle /\ Change
    /\ Errors(design) = {} /\ design # baseline /\ saveState # "saving"
    /\ saveState' = "saving" /\ put' = [at |-> "sent", design |-> design]
    /\ UNCHANGED <<file, design, baseline, load, behind>>

\* Mutant of SaveLands: the design that was saved is not recorded.
SaveForgets ==
    /\ put.at = "answered"
    /\ saveState' = IF put.design = None THEN "error" ELSE "saved"
    /\ put' = Quiet /\ UNCHANGED <<file, design, baseline, load, behind, changes>>

\* The answer makes what the page has by then the design that was saved.
SaveLands ==
    /\ put.at = "answered"
    /\ IF put.design = None THEN saveState' = "error" /\ UNCHANGED baseline
       ELSE saveState' = "saved" /\ baseline' = design
    /\ put' = Quiet /\ UNCHANGED <<file, design, load, behind, changes>>

\* The message of a save goes after a while, also when another save has begun.
MessageGoes ==
    /\ (saveState = "saved" \/ (Overlap /\ saveState = "saving"))
    /\ saveState' = "idle"
    /\ UNCHANGED <<file, design, baseline, load, put, behind, changes>>

Next ==
    \/ Get \/ Put \/ Fails \/ Mount \/ LoadLands \/ SaveLands \/ MessageGoes
    \/ Edit \/ ApplyPreset \/ Reset \/ Save
    \/ \E d \in Design : AgentPuts(d) \/ EditByHand(d)

Spec == Init /\ [][Next]_vars

-----------------------------------------------------------------------------
(* Properties. *)

\* "Save to project": the design the page calls saved is the file's, as soon as
\* nothing is under way, unless the file was written from elsewhere or a request
\* failed since; so "Reset" goes back to the file and a design that is not dirty
\* is safe.
SavedIsTheFiles == load = Quiet /\ put = Quiet /\ ~behind => baseline = file
\* What keeps it so: a load and a save are not under way together, the design that is
\* being saved is the page's, and an answer is the file's unless it changed since.
DesignInv ==
    /\ {file, design, baseline} \subseteq Design /\ {load, put} \subseteq Request /\ behind \in BOOLEAN
    /\ load = Quiet \/ put = Quiet
    /\ load.at = "none" => load = Quiet
    /\ put.at = "none" => put = Quiet
    /\ load.at = "sent" => behind
    /\ load.at = "answered" /\ ~ behind => load.design = file
    /\ put.at = "sent" => put.design = design
    /\ put.at = "answered" /\ ~ behind /\ put.design # None => put.design = design /\ design = file
    /\ load.at = "none" /\ ~ behind /\ (put.at = "answered" => put.design = None) => baseline = file
=============================================================================
