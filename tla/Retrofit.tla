------------------------------- MODULE Retrofit -------------------------------
(***************************************************************************)
(* The scripts that bring a template change into projects cloned earlier   *)
(* (scripts/apply-*-to-clones.sh): files are copied, existing ones patched *)
(* in place under sentinels, one project after another, and the script is  *)
(* run again after a failure or an interruption.  Of a file only matters   *)
(* whether the patch's sentinel and its body are in it and how often, and  *)
(* whether the file still has the shape the patch anchors on.              *)
(***************************************************************************)
EXTENDS Naturals, Sequences, FiniteSets, SequencesExt

CONSTANTS
    Clone,          \* the projects under ~/.alchemist/projects, in order: a sequence
    MaxOdd,         \* bound: files that are missing or have lost their anchor
    MaxRuns         \* bound: runs of the script

(* The patches, as the shell functions that make them.  kind: how the file    *)
(* is written; absent, odd: what becomes of the run when the file is missing  *)
(* and when its anchor is ("skip": said and passed over, "fail": exit 1).     *)
Patch(of, kind, absent, odd) == [of |-> of, kind |-> kind, absent |-> absent, odd |-> odd]

\* Copied whole on every run.
CopyNewFiles == Patch("new", "copy", "write", "write")
CopyOwnedFiles == Patch("owned", "copy", "write", "write")
CopyContextFiles == Patch("context", "copy", "write", "write")
CopyObservability == Patch("observability", "copy", "write", "write")
\* Written only where it is absent: the project's own design.
CopyDesignJson == Patch("design.json", "once", "write", "write")
\* Sentinel first, then the whole file rewritten at once.
PatchMainTs == Patch("main.ts", "atomic", "skip", "fail")
PatchRoutesTs == Patch("routes.ts", "atomic", "skip", "fail")
PatchSidebar == Patch("Sidebar", "atomic", "skip", "fail")
PatchDevRoutes == Patch("dev", "atomic", "skip", "fail")
PatchDesignTask == Patch("design task", "atomic", "skip", "fail")
PatchAppTs == Patch("app.ts", "atomic", "skip", "fail")
PatchWebMain == Patch("web main", "atomic", "skip", "write")
PatchAppSvelte == Patch("App.svelte", "atomic", "fail", "fail")
PatchQuery == Patch("query", "atomic", "skip", "fail")
PatchAuth == Patch("auth", "atomic", "fail", "fail")
\* The same, a missing anchor only warned of.
PatchOrg == Patch("org", "atomic", "skip", "skip")
PatchTransitions == Patch("transitions", "atomic", "skip", "skip")
PatchIndexHtml == Patch("index.html", "atomic", "skip", "skip")
PatchHub == Patch("hub", "atomic", "skip", "skip")
PatchContextHub == Patch("context hub", "atomic", "skip", "write")
PatchPermission == Patch("permission", "atomic", "skip", "skip")
PatchCheckTask == Patch("check task", "atomic", "skip", "skip")
PatchCi == Patch("ci", "atomic", "skip", "skip")
AddKyselyLint == Patch("lint", "once", "write", "skip")
\* The import, which holds the sentinel, is moved in first and the hook written after.
PatchLogger == Patch("logger", "two", "skip", "fail")
PatchDevActivity == Patch("dev-activity", "two", "skip", "fail")
\* Sentinel and block appended by one redirection.
PatchAppCss == Patch("app.css", "append", "skip", "write")

\* apply_to of each script.
Script == [
    design |-> <<CopyNewFiles, CopyDesignJson, PatchMainTs, PatchRoutesTs, PatchSidebar, PatchIndexHtml,
                 PatchDevRoutes, PatchDesignTask, PatchAppCss, PatchHub>>,
    context |-> <<CopyContextFiles, PatchAppSvelte, PatchQuery, PatchAuth, PatchOrg, PatchTransitions, PatchContextHub>>,
    trail |-> <<CopyObservability, PatchAppTs, PatchLogger, PatchDevActivity, PatchWebMain, PatchPermission>>,
    check |-> <<CopyOwnedFiles, PatchCheckTask, PatchCi, AddKyselyLint>>]

VARIABLES
    script,         \* the script this behaviour is about
    shape,          \* per clone and patch: "fits", "odd" or "absent"
    marks, bodies,  \* per clone and patch: sentinels and bodies in the file
    run,            \* the run under way: the clone, the step, whether a step is half done, what was passed over
    ends            \* how each run ended

vars == <<script, shape, marks, bodies, run, ends>>

Steps == Script[script]
Patches == ToSet(Steps)
At == DOMAIN Clone
Off == [on |-> FALSE, clone |-> 1, step |-> 1, half |-> FALSE, passed |-> {}]

Init ==
    /\ script \in DOMAIN Script
    /\ \E odd \in SUBSET (At \X Patches) :
         /\ Cardinality(odd) <= MaxOdd
         /\ \E how \in [odd -> {"odd", "absent"}] :
              shape = [c \in At |-> [p \in Patches |-> IF <<c, p>> \in odd THEN how[<<c, p>>] ELSE "fits"]]
    /\ marks = [c \in At |-> [p \in Patches |-> 0]] /\ bodies = marks
    /\ run = Off /\ ends = <<>>

TypeOK ==
    /\ \A c \in At : marks[c] \in [Patches -> Nat] /\ bodies[c] \in [Patches -> Nat]
    /\ Len(ends) <= MaxRuns

Start ==
    /\ ~ run.on /\ Len(ends) < MaxRuns /\ run' = [Off EXCEPT !.on = TRUE]
    /\ UNCHANGED <<script, shape, marks, bodies, ends>>
End(how) == run' = Off /\ ends' = Append(ends, [how |-> how, passed |-> run.passed])

\* The next patch of this clone, or the next clone; after the last the script says Done.
Advance(passed) ==
    /\ ends' = ends
    /\ run' = IF run.step < Len(Steps)
              THEN [run EXCEPT !.step = @ + 1, !.half = FALSE, !.passed = passed]
              ELSE [run EXCEPT !.step = 1, !.clone = @ + 1, !.half = FALSE, !.passed = passed]
Done ==
    /\ run.on /\ run.clone > Len(Clone) /\ End("done") /\ UNCHANGED <<script, shape, marks, bodies>>

\* What the patch meets: its sentinel, no file, no anchor, or a file that fits.
Patched(c, p) == p.kind # "copy" /\ marks[c][p] > 0
\* patch_ci wants the check task to run check-types.ts first.
Fits(c, p) == shape[c][p] = "fits" /\ (p = PatchCi => bodies[c][PatchCheckTask] > 0)
Meets(c, p) ==
    CASE Patched(c, p) -> "skip"
      [] shape[c][p] = "absent" -> p.absent
      [] ~ Fits(c, p) -> p.odd
      [] OTHER -> "write"
\* The two-step patches look for their second anchor only after the first step.
Marks(c, p) == p.kind \in {"two", "append"} /\ ~ Patched(c, p) /\ shape[c][p] # "absent"

\* A step of one write: copied over, or sentinel and body at once.
Written(c, p) ==
    /\ marks' = [marks EXCEPT ![c][p] = IF p.kind = "copy" THEN 1 ELSE @ + 1]
    /\ bodies' = [bodies EXCEPT ![c][p] = IF p.kind = "copy" THEN 1 ELSE @ + 1]

\* apply_to passes a directory over that does not look like a clone: the files
\* without which it would fail are looked for first.
IsClone(c) == \A p \in Patches : p.absent = "fail" => shape[c][p] # "absent"
SkipClone ==
    /\ run.on /\ run.clone \in At /\ ~ IsClone(run.clone)
    /\ run' = [run EXCEPT !.clone = @ + 1, !.passed = @ \cup {<<run.clone, p>> : p \in Patches}]
    /\ UNCHANGED <<script, shape, marks, bodies, ends>>

\* Mutant of Step: a patch that fails does not end the script.
StepFailsSoftly ==
    LET c == run.clone  p == Steps[run.step]  meets == Meets(c, p) IN
    /\ run.on /\ c \in At /\ IsClone(c) /\ ~ run.half /\ ~ Marks(c, p)
    /\ IF meets = "write" THEN Written(c, p) ELSE UNCHANGED <<marks, bodies>>
    /\ Advance(IF meets = "skip" /\ ~ Patched(c, p) THEN run.passed \cup {<<c, p>>} ELSE run.passed)
    /\ UNCHANGED <<script, shape>>

\* One patch function, where it writes once.
Step ==
    LET c == run.clone  p == Steps[run.step]  meets == Meets(c, p) IN
    /\ run.on /\ c \in At /\ IsClone(c) /\ ~ run.half /\ ~ Marks(c, p)
    /\ IF meets = "write" THEN Written(c, p) ELSE UNCHANGED <<marks, bodies>>
    /\ IF meets = "fail" THEN End("failed")
       ELSE Advance(IF meets = "skip" /\ ~ Patched(c, p) THEN run.passed \cup {<<c, p>>} ELSE run.passed)
    /\ UNCHANGED <<script, shape>>

\* Mutant of FirstHalf: the sentinel is not looked for.
FirstHalfAgain ==
    LET c == run.clone  p == Steps[run.step] IN
    /\ run.on /\ c \in At /\ ~ run.half /\ p.kind \in {"two", "append"} /\ shape[c][p] # "absent"
    /\ marks' = [marks EXCEPT ![c][p] = @ + 1] /\ run' = [run EXCEPT !.half = TRUE]
    /\ UNCHANGED <<script, shape, bodies, ends>>

\* The import with the sentinel, or the sentinel's lines of the append.
FirstHalf ==
    LET c == run.clone  p == Steps[run.step] IN
    /\ run.on /\ c \in At /\ ~ run.half /\ Marks(c, p)
    /\ marks' = [marks EXCEPT ![c][p] = @ + 1] /\ run' = [run EXCEPT !.half = TRUE]
    /\ UNCHANGED <<script, shape, bodies, ends>>
\* The hook, if the function it goes into is found; the rest of the append.
SecondHalf ==
    LET c == run.clone  p == Steps[run.step] IN
    /\ run.on /\ run.half
    /\ IF shape[c][p] = "odd" /\ p.odd = "fail"
       THEN End("failed") /\ UNCHANGED bodies
       ELSE bodies' = [bodies EXCEPT ![c][p] = @ + 1] /\ Advance(run.passed)
    /\ UNCHANGED <<script, shape, marks>>

\* The script is interrupted between two writes.
Interrupt == run.on /\ run.clone \in At /\ End("interrupted") /\ UNCHANGED <<script, shape, marks, bodies>>
\* Between runs the project's owner gives a file its anchor back.
Repair(c, p) ==
    /\ ~ run.on /\ shape[c][p] # "fits" /\ shape' = [shape EXCEPT ![c][p] = "fits"]
    /\ UNCHANGED <<script, marks, bodies, run, ends>>

Next ==
    \/ Start \/ SkipClone \/ Step \/ FirstHalf \/ SecondHalf \/ Done \/ Interrupt
    \/ \E c \in At : \E p \in Patches : Repair(c, p)
Spec == Init /\ [][Next]_vars

-----------------------------------------------------------------------------
\* However often a script fails, is interrupted and is run again, no patch is ever
\* in a file twice.
PatchedOnce ==
    \A c \in At : \A p \in Patches : marks[c][p] <= 1 /\ bodies[c][p] <= marks[c][p]
\* The last run ended well: every project has every patch that is written at once,
\* but for those the run reported and passed over; and the CI step that runs the
\* new type check is there only where the check task is.
DoneLeavesNothingOut ==
    /\ ends # <<>> /\ Last(ends).how = "done" /\ ~ run.on =>
         \A c \in At : \A p \in Patches :
             p.kind \in {"atomic", "copy", "once"} => bodies[c][p] = 1 \/ <<c, p>> \in Last(ends).passed
    /\ script = "check" => \A c \in At : bodies[c][PatchCi] > 0 => bodies[c][PatchCheckTask] > 0
\* "any patch step that can't apply ... is reported with a clear message and the
\* script exits non-zero" (apply-observability-to-clones.sh:27).  Does not hold: the
\* sentinel of logger.ts and dev-activity.ts is in the import moved in first, so the
\* run after a failed one skips the file without its hook; so does the run after an
\* append to app.css was cut short.
NothingSilentlyHalf ==
    ends # <<>> /\ Last(ends).how = "done" /\ ~ run.on =>
        \A c \in At : \A p \in Patches : bodies[c][p] = 1 \/ <<c, p>> \in Last(ends).passed
=============================================================================
