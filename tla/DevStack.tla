------------------------------ MODULE DevStack ------------------------------
(***************************************************************************)
(* scripts/setup.sh and scripts/dev.sh: the development stack on one       *)
(* machine.  dev.sh picks the backing services, migrates, starts the API   *)
(* and Vite in the background and stops them from a trap.  Any command may *)
(* fail, which under `set -euo pipefail` ends the script; a SIGTERM is     *)
(* handled between two commands and does not end it.                       *)
(***************************************************************************)
EXTENDS Naturals, FiniteSets

CONSTANTS
    MaxRuns, MaxSignals  \* bounds: scripts run; signals sent

VARIABLES
    machine,  \* bundled: the desktop's services answer; docker: Docker runs; envAnswers: .env's database answers;
              \* file, port, url: .env exists, has DB_PORT, has DATABASE_URL; modules: web/node_modules exists
    script,   \* the script under way, "none" before the first
    pc,       \* its next command
    trap,     \* its cleanup is installed
    db,       \* the database its children are given
    migrated, \* the databases whose migrations have run
    pids,     \* PIDS: the background processes it knows
    alive,    \* those that live: <<which, its database>>
    term,     \* a SIGTERM is pending
    heard, lost,  \* the script has handled a SIGTERM; one of its servers died while it waited
    runs, signals

control == <<script, pc, trap>>
others == <<term, heard, lost, runs, signals>>
vars == <<machine, control, db, migrated, pids, alive, others>>

Db == {"bundled", "env", "compose"}
Server == {"api", "vite"}

TypeOK ==
    /\ \A k \in DOMAIN machine : machine[k] \in BOOLEAN
    /\ script \in {"none", "setup", "dev"} /\ {trap, term, heard, lost} \subseteq BOOLEAN
    /\ db \in Db \cup {"none"} /\ migrated \subseteq Db /\ pids \subseteq Server
    /\ alive \subseteq Server \X (Db \cup {"none"}) /\ runs \in 0..MaxRuns /\ signals \in 0..MaxSignals

Init ==
    /\ machine \in [{"bundled", "docker", "envAnswers", "file", "port", "url", "modules"} -> BOOLEAN]
    /\ machine.port \/ machine.url => machine.file
    /\ machine.envAnswers => machine.url
    /\ script = "none" /\ pc = "ended" /\ trap = FALSE /\ db = "none" /\ migrated = {} /\ pids = {} /\ alive = {}
    /\ term = FALSE /\ heard = FALSE /\ lost = FALSE /\ runs = 0 /\ signals = 0

\* The arguments are there.
Start(s) ==
    /\ pc = "ended" /\ runs < MaxRuns /\ runs' = runs + 1 /\ script' = s /\ trap' = FALSE /\ db' = "none"
    /\ pc' = (IF s = "setup" THEN "tools" ELSE "port") /\ pids' = {} /\ heard' = FALSE /\ lost' = FALSE /\ term' = FALSE
    /\ UNCHANGED <<machine, migrated, alive, signals>>

\* The command at `from` succeeds and the script goes on to `to`.
Step(from, to) == pc = from /\ ~ term /\ pc' = to /\ UNCHANGED <<script, trap>>

\* Mutant of Exit: the trap is set for the signals only.
ExitUntrapped == pc' = "ended" /\ UNCHANGED <<script, trap>>

\* A failed command, `exit`, or the end: through the EXIT trap once it is set.
Exit == pc' = (IF trap THEN "cleanup" ELSE "ended") /\ UNCHANGED <<script, trap>>

\* Any of the commands that may fail.
Fails ==
    /\ pc \in {"tools", "npm", "composeUp", "ready", "createDb", "compose", "migrate", "webNpm"}
    /\ ~ term /\ Exit /\ UNCHANGED <<machine, db, migrated, pids, alive, others>>

-----------------------------------------------------------------------------
(* setup.sh *)

CheckTools == Step("tools", "copyEnv") /\ UNCHANGED <<machine, db, migrated, pids, alive, others>>
\* .env.example names both the port and the url.
CopyEnv ==
    /\ Step("copyEnv", "npm")
    /\ machine' = IF machine.file THEN machine ELSE [machine EXCEPT !.file = TRUE, !.port = TRUE, !.url = TRUE]
    /\ UNCHANGED <<db, migrated, pids, alive, others>>
NpmInstall ==
    /\ Step("npm", "composeUp") /\ machine' = [machine EXCEPT !.modules = TRUE]
    /\ UNCHANGED <<db, migrated, pids, alive, others>>
\* Docker must run; a .env without DB_PORT ends the script at its grep.
ComposeUp ==
    /\ machine.docker /\ machine.port /\ Step("composeUp", "ready")
    /\ UNCHANGED <<machine, db, migrated, pids, alive, others>>
Ready == Step("ready", "migrate") /\ db' = "compose" /\ UNCHANGED <<machine, migrated, pids, alive, others>>
Done ==
    /\ pc = "config" /\ script = "setup" /\ ~ term /\ Exit
    /\ UNCHANGED <<machine, db, migrated, pids, alive, others>>

-----------------------------------------------------------------------------
(* dev.sh *)

\* DB_PORT of .env: a grep that finds nothing fails the pipeline.
ReadPort ==
    /\ pc = "port" /\ ~ term
    /\ IF machine.file /\ ~ machine.port THEN Exit ELSE pc' = "services" /\ trap' = TRUE /\ UNCHANGED script
    /\ UNCHANGED <<machine, db, migrated, pids, alive, others>>
\* The desktop's services, if both answer.
UseBundled ==
    /\ machine.bundled /\ Step("services", "createDb") /\ db' = "bundled"
    /\ UNCHANGED <<machine, migrated, pids, alive, others>>
CreateDb == Step("createDb", "migrate") /\ UNCHANGED <<machine, db, migrated, pids, alive, others>>
\* Otherwise .env's database, if it answers; its grep, too, fails when it finds nothing.
ProbeEnv ==
    /\ pc = "services" /\ ~ term /\ ~ machine.bundled
    /\ IF ~ machine.url THEN Exit /\ UNCHANGED db
       ELSE /\ pc' = IF machine.envAnswers THEN "migrate" ELSE "compose"
            /\ db' = IF machine.envAnswers THEN "env" ELSE db
            /\ UNCHANGED <<script, trap>>
    /\ UNCHANGED <<machine, migrated, pids, alive, others>>
\* Otherwise Docker: up, and polled until Postgres is ready.
UseDocker ==
    /\ machine.docker /\ Step("compose", "migrate") /\ db' = "compose"
    /\ UNCHANGED <<machine, migrated, pids, alive, others>>

Migrate ==
    /\ Step("migrate", "config") /\ migrated' = migrated \cup {db}
    /\ UNCHANGED <<machine, db, pids, alive, others>>

\* The server is in the background before its pid is noted.
Spawn(s, from, to) ==
    /\ script = "dev" /\ Step(from, to) /\ alive' = alive \cup {<<s, db>>}
    /\ UNCHANGED <<machine, db, migrated, pids, others>>
Note(s, from, to) ==
    /\ Step(from, to) /\ pids' = pids \cup {s}
    /\ UNCHANGED <<machine, db, migrated, alive, others>>
StartApi == Spawn("api", "config", "noteApi") \/ Note("api", "noteApi", "webNpm")
WebDependencies ==
    /\ Step("webNpm", "vite") /\ machine' = [machine EXCEPT !.modules = TRUE]
    /\ UNCHANGED <<db, migrated, pids, alive, others>>
StartVite == Spawn("vite", "vite", "noteVite") \/ Note("vite", "noteVite", "check")

Living == {s[1] : s \in alive}
VerifyAlive ==
    /\ pc = "check" /\ ~ term
    /\ IF pids \subseteq Living THEN pc' = "wait" /\ UNCHANGED <<script, trap>> ELSE Exit
    /\ UNCHANGED <<machine, db, migrated, pids, alive, others>>
\* `wait` returns when every child has ended.
WaitReturns ==
    /\ pc = "wait" /\ ~ term /\ alive = {} /\ Exit
    /\ UNCHANGED <<machine, db, migrated, pids, alive, others>>

\* cleanup: the processes of PIDS are killed, at last with -9.
Killed == {s \in alive : s[1] \notin pids}
Cleanup ==
    /\ pc = "cleanup" /\ pc' = "ended" /\ alive' = Killed
    /\ UNCHANGED <<machine, script, trap, db, migrated, pids, others>>
\* A pending signal: without a trap the end; with it cleanup, and on, unless it interrupted `wait`.
HandleSignal ==
    /\ term /\ term' = FALSE /\ heard' = TRUE
    /\ IF ~ trap THEN pc' = "ended" /\ UNCHANGED <<script, trap, alive>>
       ELSE alive' = Killed /\ IF pc = "wait" THEN Exit ELSE UNCHANGED control
    /\ UNCHANGED <<machine, db, migrated, pids, lost, runs, signals>>

\* Somebody sends a SIGTERM; a server dies by itself.
SigTerm ==
    /\ pc \notin {"ended", "cleanup"} /\ ~ term /\ signals < MaxSignals /\ term' = TRUE /\ signals' = signals + 1
    /\ UNCHANGED <<machine, control, db, migrated, pids, alive, heard, lost, runs>>
ServerDies(s) ==
    /\ s \in alive /\ alive' = alive \ {s} /\ lost' = (lost \/ pc = "wait")
    /\ UNCHANGED <<machine, control, db, migrated, pids, term, heard, runs, signals>>

Next ==
    \/ \E s \in {"setup", "dev"} : Start(s)
    \/ Fails \/ CheckTools \/ CopyEnv \/ NpmInstall \/ ComposeUp \/ Ready \/ Done
    \/ ReadPort \/ UseBundled \/ CreateDb \/ ProbeEnv \/ UseDocker \/ Migrate \/ StartApi \/ WebDependencies
    \/ StartVite \/ VerifyAlive \/ WaitReturns \/ Cleanup \/ HandleSignal \/ SigTerm
    \/ \E s \in alive : ServerDies(s)
Spec == Init /\ [][Next]_vars

-----------------------------------------------------------------------------
\* The trap "cleanup SIGINT SIGTERM EXIT": a script that has ended leaves no server
\* behind, whatever failed and whenever it was signalled, also between the start
\* of a server and the note of its pid.
NoServerIsLeft == pc = "ended" => alive = {}
\* A server runs against a database whose migrations have run.
ServersFindTheirSchema == \A s \in alive : s[2] \in migrated

\* "Shutting down dev stack...": a signal stops the stack.  Does not hold: the handler
\* returns, and before the servers are up the script goes on to start them.
SignalStops == heard /\ pc = "wait" => FALSE
\* "Wait for any child to exit".  Does not hold: `wait` waits for all of them.
EndsWithAnyChild == pc = "wait" => ~ lost
=============================================================================
