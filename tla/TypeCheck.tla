------------------------------ MODULE TypeCheck ------------------------------
(***************************************************************************)
(* The type check of the repository (scripts/check-types.ts over           *)
(* scripts/lib/tsgo-check.ts): the module graph is read with deno info,    *)
(* retried where the network failed, turned into a project for the native  *)
(* compiler and checked; whatever keeps that engine from an answer falls   *)
(* back to deno check.  A run is one invocation; the code under check may  *)
(* be wrong (a type error) and may import a file that is not there.        *)
(***************************************************************************)
EXTENDS Naturals, FiniteSets

CONSTANTS
    Attempts,       \* attempts of denoInfoGraph
    MaxRuns         \* bound: invocations

\* Where a diagnostic of the native compiler points.
Place == {"ignored code", "outside the repo", "generated", "config", "repo"}

VARIABLES
    wrong, missing,     \* the code has a type error; it imports a local file that is not there
    pc, attempt,
    exit,               \* of the last run: "clean" (0), "errors" (1), "refused" (2), "none" while it runs
    walks,              \* the arguments name the working directory: its files are entries
    files,              \* local files the native project lists: "code", a stale "entry"
    litter,             \* temporary files: the entry module of this run, those earlier runs left, the project
    runs

vars == <<wrong, missing, pc, attempt, exit, walks, files, litter, runs>>

Nothing == [entry |-> FALSE, stale |-> FALSE, project |-> FALSE]

Init ==
    /\ wrong \in BOOLEAN /\ missing \in BOOLEAN /\ walks \in BOOLEAN
    /\ pc = "idle" /\ attempt = 0 /\ exit = "none" /\ files = {} /\ litter = Nothing /\ runs = 0

TypeOK ==
    /\ pc \in {"idle", "info", "plan", "fetch", "generate", "compile", "deno check"}
    /\ exit \in {"none", "clean", "errors", "refused"} /\ attempt \in 0..Attempts /\ runs \in 0..MaxRuns

Exit(code) == exit' = code /\ pc' = "idle"
\* Deno.exit ends the process where it is called: no finally clause runs after it.
ExitAtOnce(code) == Exit(code) /\ litter' = [litter EXCEPT !.entry = FALSE, !.stale = @ \/ litter.entry]
Fallback == pc' = "deno check" /\ exit' = exit

-----------------------------------------------------------------------------
\* check-types.ts starts: an old Deno or CHECK_ENGINE=deno goes to deno check;
\* else an entry module importing every file is written into the working directory.
Start(native) ==
    /\ pc = "idle" /\ runs < MaxRuns /\ runs' = runs + 1 /\ exit' = "none" /\ attempt' = 1
    /\ pc' = IF native THEN "info" ELSE "deno check"
    /\ litter' = [litter EXCEPT !.entry = native]
    /\ UNCHANGED <<wrong, missing, walks, files>>

\* A stale entry of an earlier run is one of the files when the directory is walked:
\* expandEntries passes hidden directories over, not hidden files.
ExpandEntries == {"code"} \cup (IF walks /\ litter.stale THEN {"entry"} ELSE {})
\* A local module of the graph may not be there: one the code imports, or one a
\* stale entry still does.
LocalErrors == missing \/ "entry" \in ExpandEntries

\* One attempt of deno info: it fails, prints what cannot be parsed, or gives the
\* graph, in which remote modules may be missing.
InfoFails ==
    /\ pc = "info"
    /\ IF attempt < Attempts
       THEN attempt' = attempt + 1 /\ UNCHANGED <<pc, exit, litter>>
       ELSE ExitAtOnce("refused") /\ UNCHANGED attempt
    /\ UNCHANGED <<wrong, missing, walks, files, runs>>
InfoUnparsed ==
    /\ pc = "info" /\ ExitAtOnce("refused") /\ UNCHANGED <<wrong, missing, walks, files, attempt, runs>>
\* Modules that could not be loaded: local ones only is the code's fault, anything
\* else may be the network's and is tried again.
InfoModuleErrors(remote) ==
    /\ pc = "info" /\ (remote \/ LocalErrors)
    /\ IF remote /\ attempt < Attempts
       THEN attempt' = attempt + 1 /\ UNCHANGED <<pc, exit, litter>>
       ELSE ExitAtOnce(IF remote THEN "refused" ELSE "errors") /\ UNCHANGED attempt
    /\ UNCHANGED <<wrong, missing, walks, files, runs>>
\* The whole graph: the entry module is removed.
InfoGraph ==
    /\ pc = "info" /\ ~ missing /\ pc' = "plan" /\ files' = ExpandEntries
    /\ litter' = [litter EXCEPT !.entry = FALSE]
    /\ UNCHANGED <<wrong, missing, walks, attempt, exit, runs>>

\* planTsgoMemory, and the write permission asked first.
PlanTsgoMemory(mb) == CASE mb = "plenty" -> "parallel" [] mb = "some" -> "single-threaded" [] OTHER -> "insufficient"
Plan(mb, mayWrite) ==
    /\ pc = "plan"
    /\ IF mayWrite /\ PlanTsgoMemory(mb) # "insufficient" THEN pc' = "fetch" /\ UNCHANGED exit ELSE Fallback
    /\ UNCHANGED <<wrong, missing, walks, files, attempt, litter, runs>>
\* The compiler, @types/node and deno types are fetched, each tried again once.
Fetch(found) ==
    /\ pc = "fetch"
    /\ IF found THEN pc' = "generate" /\ UNCHANGED exit ELSE Fallback
    /\ litter' = [litter EXCEPT !.project = found]
    /\ UNCHANGED <<wrong, missing, walks, files, attempt, runs>>

\* What an import of the graph is bound to in the generated project.
DependencyKind == {"relative", "file", "remote", "typed", "ambient", "script", "untyped", "unresolved"}
TargetOf(kind) ==
    CASE kind \in {"relative", "unresolved"} -> "none"
      [] kind \in {"file", "remote", "typed", "script"} -> "path"
      [] kind = "ambient" -> "shim"
      [] OTHER -> "declared"
\* generateTsgoProject: links, mirrors, shims, paths and the tsconfig, or a throw.
Generate(thrown, kind) ==
    /\ pc = "generate"
    /\ IF thrown THEN Fallback /\ litter' = [litter EXCEPT !.project = FALSE]
       ELSE pc' = "compile" /\ TargetOf(kind) \in {"none", "path", "shim", "declared"} /\ UNCHANGED <<exit, litter>>
    /\ UNCHANGED <<wrong, missing, walks, files, attempt, runs>>

\* What the native compiler may answer: the diagnostics of a whole check, or it
\* is killed, or it gives up before it prints any.
Answers ==
    {[signal |-> FALSE, code |-> IF d = {} THEN 0 ELSE 2, diags |-> d] :
        d \in {x \in SUBSET Place : wrong <=> "repo" \in x}}
    \cup {[signal |-> s, code |-> 2, diags |-> {}] : s \in BOOLEAN}
\* filterLikeDeno.
FilterLikeDeno(diags) == diags \cap {"config", "repo"}

\* Mutant of Verdict: a compiler that fails without a word is taken at its silence.
VerdictSilent(a) ==
    CASE a.signal -> "fallback"
      [] "config" \in FilterLikeDeno(a.diags) -> "fallback"
      [] FilterLikeDeno(a.diags) # {} -> "type-errors"
      [] OTHER -> "ok"
Verdict(a) ==
    CASE a.signal -> "fallback"
      [] "config" \in FilterLikeDeno(a.diags) -> "fallback"
      [] a.code # 0 /\ a.diags = {} -> "fallback"
      [] FilterLikeDeno(a.diags) # {} -> "type-errors"
      [] OTHER -> "ok"
\* The compiler answers and the project is removed.
Compile(a) ==
    /\ pc = "compile" /\ litter' = [litter EXCEPT !.project = FALSE]
    /\ CASE Verdict(a) = "fallback" -> Fallback
         [] Verdict(a) = "type-errors" -> Exit("errors")
         [] OTHER -> Exit("clean")
    /\ UNCHANGED <<wrong, missing, walks, files, attempt, runs>>

\* deno check on the same arguments: its status, 0 or 1.
DenoCheck(unreachable) ==
    /\ pc = "deno check" /\ Exit(IF wrong \/ missing \/ unreachable THEN "errors" ELSE "clean")
    /\ UNCHANGED <<wrong, missing, walks, files, attempt, litter, runs>>

\* The code changes between two runs.
Edit ==
    /\ pc = "idle" /\ exit # "none" /\ wrong' \in BOOLEAN /\ missing' \in BOOLEAN /\ exit' = "none"
    /\ UNCHANGED <<pc, attempt, walks, files, litter, runs>>

Next ==
    \/ \E native \in BOOLEAN : Start(native)
    \/ InfoFails \/ InfoUnparsed \/ InfoGraph \/ \E remote \in BOOLEAN : InfoModuleErrors(remote)
    \/ \E mb \in {"plenty", "some", "little"}, w \in BOOLEAN : Plan(mb, w)
    \/ \E found \in BOOLEAN : Fetch(found)
    \/ \E thrown \in BOOLEAN, kind \in DependencyKind : Generate(thrown, kind)
    \/ \E a \in Answers : Compile(a)
    \/ \E unreachable \in BOOLEAN : DenoCheck(unreachable)
    \/ Edit
Spec == Init /\ [][Next]_vars

-----------------------------------------------------------------------------
\* A green check is a check: whatever failed on the way (the network, the memory,
\* the permission, the generated project, the compiler), exit 0 means that an engine
\* went through the whole graph and the code has no error.
GreenMeansChecked == exit = "clean" => ~ wrong /\ ~ missing
\* No run leaves its temporary files.  Does not hold: the exits inside the try of
\* check-types.ts:118 skip its finally, so a failed run leaves its entry module,
\* which a later run that walks the directory takes for one of the project's files.
NoLitter == pc = "idle" => ~ litter.stale /\ ~ litter.project
=============================================================================
