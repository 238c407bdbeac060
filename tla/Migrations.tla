----------------------------- MODULE Migrations -----------------------------
(***************************************************************************)
(* The migration runner (db/_runner.ts).  Every pod runs it when it boots, *)
(* so several run at once over one database and nothing locks them out:    *)
(* each works through the list it read, and the primary key of             *)
(* schema_migrations decides between them.  A file is one transaction with *)
(* its ledger row, or (@no-transaction) statements that commit one by one  *)
(* before the row.  The database may turn read-only for a while.           *)
(***************************************************************************)
EXTENDS Naturals, Sequences, FiniteSets, SequencesExt

CONSTANTS
    Pod,
    Ships,        \* Ships[p]: the files of p's image are 1 .. Ships[p]
    Bare,         \* the files marked @no-transaction
    Statements,   \* statements in each of them
    Retries,      \* attempts that fit in READ_ONLY_RETRY_BUDGET_MS
    MaxFaults     \* bound: failovers, crashes and failed statements

VARIABLES
    exists,     \* the database exists
    ledger,     \* schema_migrations
    applied,    \* applied[v]: commits of a transactional file
    ran,        \* ran[v]: the statements of a bare file that have committed
    readOnly,
    pc,         \* where each pod is
    pending,    \* the versions its attempt has still to apply
    next,       \* statements of the first one it has run
    attempt,
    faults

vars == <<exists, ledger, applied, ran, readOnly, pc, pending, next, attempt, faults>>

Files == 1 .. Max({Ships[p] : p \in Pod})

TypeOK ==
    /\ exists \in BOOLEAN /\ readOnly \in BOOLEAN /\ ledger \subseteq Files
    /\ applied \in [Files -> 0..Cardinality(Pod)] /\ ran \in [Files -> SUBSET (1..Statements)]
    /\ pc \in [Pod -> {"down", "probe", "create", "ledger", "apply", "done"}]
    /\ pending \in [Pod -> SUBSET Files] /\ next \in [Pod -> 0..Statements]
    /\ attempt \in [Pod -> 0..Retries] /\ faults \in 0..MaxFaults

Init ==
    /\ exists = FALSE /\ ledger = {} /\ applied = [v \in Files |-> 0] /\ ran = [v \in Files |-> {}]
    /\ readOnly = FALSE /\ pc = [p \in Pod |-> "down"] /\ pending = [p \in Pod |-> {}]
    /\ next = [p \in Pod |-> 0] /\ attempt = [p \in Pod |-> 0] /\ faults = 0

database == <<exists, ledger, applied, ran>>
Fault == faults < MaxFaults /\ faults' = faults + 1

\* runMigrations throws: the process exits, and its pod is started again.
Throw(p) == pc' = [pc EXCEPT ![p] = "down"] /\ UNCHANGED <<pending, next, attempt>>

-----------------------------------------------------------------------------
(* ensureDatabaseExists: probe, and create it when the probe says it is missing. *)

Boot(p) ==
    /\ pc[p] = "down" /\ pc' = [pc EXCEPT ![p] = "probe"] /\ attempt' = [attempt EXCEPT ![p] = 0]
    /\ UNCHANGED <<database, readOnly, pending, next, faults>>
Probe(p) ==
    /\ pc[p] = "probe" /\ pc' = [pc EXCEPT ![p] = IF exists THEN "ledger" ELSE "create"]
    /\ UNCHANGED <<database, readOnly, pending, next, attempt, faults>>
CreateDatabase(p) ==
    /\ pc[p] = "create" /\ UNCHANGED <<ledger, applied, ran, readOnly, faults>>
    /\ \/ /\ ~ exists /\ ~ readOnly /\ exists' = TRUE /\ pc' = [pc EXCEPT ![p] = "ledger"]
          /\ UNCHANGED <<pending, next, attempt>>
       \/ (exists \/ readOnly) /\ Throw(p) /\ UNCHANGED exists

-----------------------------------------------------------------------------
(* applyPendingMigrations. *)

\* The files the ledger does not name.
Pending(p) == (1 .. Ships[p]) \ ledger

\* The ledger table is made if need be and read once.
ReadLedger(p) ==
    /\ pc[p] = "ledger" /\ ~ readOnly
    /\ pending' = [pending EXCEPT ![p] = Pending(p)] /\ next' = [next EXCEPT ![p] = 0]
    /\ pc' = [pc EXCEPT ![p] = IF Pending(p) = {} THEN "done" ELSE "apply"]
    /\ UNCHANGED <<database, readOnly, attempt, faults>>

First(p) == Min(pending[p])
Applies(p, v) == pc[p] = "apply" /\ v = First(p) /\ ~ readOnly
\* The file is applied: on to the next.
Applied(p, v) ==
    /\ pending' = [pending EXCEPT ![p] = @ \ {v}] /\ next' = [next EXCEPT ![p] = 0]
    /\ pc' = [pc EXCEPT ![p] = IF pending[p] = {v} THEN "done" ELSE "apply"] /\ UNCHANGED attempt

\* Mutant of ApplyInTransaction: a row that is there already is left alone.
ApplyOnConflictDoNothing(p, v) ==
    /\ Applies(p, v) /\ v \notin Bare
    /\ applied' = [applied EXCEPT ![v] = @ + 1] /\ ledger' = ledger \cup {v} /\ Applied(p, v)
    /\ UNCHANGED <<exists, ran, readOnly, faults>>

\* The file and its row in one transaction: a row that is there rolls both back.
ApplyInTransaction(p, v) ==
    /\ Applies(p, v) /\ v \notin Bare
    /\ IF v \in ledger
       THEN Throw(p) /\ UNCHANGED <<applied, ledger>>
       ELSE applied' = [applied EXCEPT ![v] = @ + 1] /\ ledger' = ledger \cup {v} /\ Applied(p, v)
    /\ UNCHANGED <<exists, ran, readOnly, faults>>

\* One statement of a bare file, which commits by itself.
RunStatement(p, v) ==
    /\ Applies(p, v) /\ v \in Bare /\ next[p] < Statements
    /\ next' = [next EXCEPT ![p] = @ + 1] /\ ran' = [ran EXCEPT ![v] = @ \cup {next[p] + 1}]
    /\ UNCHANGED <<exists, ledger, applied, readOnly, pc, pending, attempt, faults>>
\* Then its row.
RecordBare(p, v) ==
    /\ Applies(p, v) /\ v \in Bare /\ next[p] = Statements
    /\ IF v \in ledger THEN Throw(p) /\ UNCHANGED ledger ELSE ledger' = ledger \cup {v} /\ Applied(p, v)
    /\ UNCHANGED <<exists, applied, ran, readOnly, faults>>

\* A write meets a read-only database (isReadOnlyTransactionError): the whole
\* attempt starts over on a fresh connection, until the budget is spent.
MeetsReadOnly(p) ==
    /\ pc[p] \in {"ledger", "apply"} /\ readOnly
    /\ \/ /\ attempt[p] < Retries /\ attempt' = [attempt EXCEPT ![p] = @ + 1]
          /\ pc' = [pc EXCEPT ![p] = "ledger"] /\ UNCHANGED <<pending, next>>
       \/ attempt[p] = Retries /\ Throw(p)
    /\ UNCHANGED <<database, readOnly, faults>>

\* Any other error is fatal, and a pod may be killed: an open transaction rolls back.
Dies(p) == pc[p] \notin {"down", "done"} /\ Fault /\ Throw(p) /\ UNCHANGED <<database, readOnly>>

Failover ==
    /\ ~ readOnly /\ Fault /\ readOnly' = TRUE
    /\ UNCHANGED <<database, pc, pending, next, attempt>>
FailoverEnds ==
    /\ readOnly /\ readOnly' = FALSE
    /\ UNCHANGED <<database, pc, pending, next, attempt, faults>>

-----------------------------------------------------------------------------
Migrate(p) ==
    \/ Boot(p) \/ Probe(p) \/ CreateDatabase(p) \/ ReadLedger(p) \/ MeetsReadOnly(p)
    \/ \E v \in Files : ApplyInTransaction(p, v) \/ RunStatement(p, v) \/ RecordBare(p, v)
Next == Failover \/ FailoverEnds \/ \E p \in Pod : Migrate(p) \/ Dies(p)
\* A pod is started until it serves, and a failover ends.
Fairness == WF_vars(FailoverEnds) /\ \A p \in Pod : WF_vars(Migrate(p))
Spec == Init /\ [][Next]_vars /\ Fairness

-----------------------------------------------------------------------------
\* The ledger and the schema tell the same story whoever ran what: a
\* transactional file has been applied once if it is in the ledger and not at
\* all if it is not, a bare file in the ledger ran to its end, nothing of a file
\* ran before the files it follows were recorded, and a pod that serves finds
\* every file it ships (db/_runner.ts: applyPendingMigrations).
SchemaMatchesLedger ==
    /\ \A v \in Files \ Bare : applied[v] = IF v \in ledger THEN 1 ELSE 0
    /\ \A v \in Bare : v \in ledger => ran[v] = 1..Statements
    /\ \A v \in Files : applied[v] > 0 \/ ran[v] # {} => 1 .. (v - 1) \subseteq ledger
    /\ \A p \in Pod : pc[p] = "done" => 1 .. Ships[p] \subseteq ledger

\* Every pod comes up in the end: one that loses the race for a file, dies half
\* way or meets a failover finds its way from the ledger when it boots again
\* (runMigrations, MIGRATE_ON_START).
EveryPodComesUp == \A p \in Pod : <>(pc[p] = "done")

-----------------------------------------------------------------------------
(* splitSqlStatements: the scanner that cuts a @no-transaction file into      *)
(* statements.  A text is a sequence of characters, each a one-letter string  *)
(* or "LF"; "a" and "t" stand for letters, and the tag of a dollar quote is   *)
(* empty or one letter.                                                       *)

Letter == {"a", "t"}
CharAt(s, i) == IF i \in DOMAIN s THEN s[i] ELSE "end"
Here(s, i, word) == i + Len(word) - 1 <= Len(s) /\ SubSeq(s, i, i + Len(word) - 1) = word

\* trim(): the only blank of the model is a newline.
TrimBlank(s) ==
    LET kept == {i \in DOMAIN s : s[i] # "LF"} IN
    IF kept = {} THEN <<>>
    ELSE SubSeq(s, CHOOSE i \in kept : \A j \in kept : i <= j, CHOOSE i \in kept : \A j \in kept : i >= j)

\* The dollar tag that begins at i, or the empty sequence.
Tag(s, i) ==
    CASE Here(s, i, <<"$", "$">>) -> <<"$", "$">>
      [] CharAt(s, i) = "$" /\ CharAt(s, i + 1) \in Letter /\ CharAt(s, i + 2) = "$" -> SubSeq(s, i, i + 2)
      [] OTHER -> <<>>

\* A scanner is in `mode` (the top level, or what would close the quote or comment
\* it is in), has still to `skip` characters it has taken, and has a current statement.
Start == [mode |-> <<"top">>, skip |-> 0, current |-> <<>>, statements |-> <<>>]
Take(st, s, i, n, mode) ==
    [st EXCEPT !.mode = mode, !.skip = n - 1, !.current = @ \o SubSeq(s, i, i + n - 1)]
Flush(st) ==
    LET text == TrimBlank(st.current) IN
    [st EXCEPT !.current = <<>>, !.statements = IF text = <<>> THEN @ ELSE Append(@, text)]

\* Mutant of ScanStep: dollar quotes are not known.
ScanStepNoDollar(s, st, i) ==
    CASE st.skip > 0 -> [st EXCEPT !.skip = @ - 1]
      [] st.mode = <<"top">> /\ Here(s, i, <<"-", "-">>) -> Take(st, s, i, 1, <<"LF">>)
      [] st.mode = <<"top">> /\ Here(s, i, <<"/", "*">>) -> Take(st, s, i, 2, <<"*", "/">>)
      [] st.mode = <<"top">> /\ s[i] = "'" -> Take(st, s, i, 1, <<"'">>)
      [] st.mode = <<"top">> /\ s[i] = ";" -> Flush(st)
      [] st.mode = <<"'">> /\ Here(s, i, <<"'", "'">>) -> Take(st, s, i, 2, <<"'">>)
      [] st.mode # <<"top">> /\ Here(s, i, st.mode) -> Take(st, s, i, Len(st.mode), <<"top">>)
      [] OTHER -> Take(st, s, i, 1, st.mode)

\* One round of the loop: at the top level a comment, a string or a dollar quote
\* opens and a semicolon ends the statement; elsewhere only the closing mark
\* counts, a doubled quote being part of its string.
ScanStep(s, st, i) ==
    CASE st.skip > 0 -> [st EXCEPT !.skip = @ - 1]
      [] st.mode = <<"top">> /\ Here(s, i, <<"-", "-">>) -> Take(st, s, i, 1, <<"LF">>)
      [] st.mode = <<"top">> /\ Here(s, i, <<"/", "*">>) -> Take(st, s, i, 2, <<"*", "/">>)
      [] st.mode = <<"top">> /\ s[i] = "'" -> Take(st, s, i, 1, <<"'">>)
      [] st.mode = <<"top">> /\ Tag(s, i) # <<>> -> Take(st, s, i, Len(Tag(s, i)), Tag(s, i))
      [] st.mode = <<"top">> /\ s[i] = ";" -> Flush(st)
      [] st.mode = <<"'">> /\ Here(s, i, <<"'", "'">>) -> Take(st, s, i, 2, <<"'">>)
      [] st.mode # <<"top">> /\ Here(s, i, st.mode) -> Take(st, s, i, Len(st.mode), <<"top">>)
      [] OTHER -> Take(st, s, i, 1, st.mode)

\* The filter at the end: what is left of a chunk without its comments, as the two
\* regular expressions see them, has a character other than a blank, - / or *.
StripStep(s, st, i) ==
    CASE st.skip > 0 -> [st EXCEPT !.skip = @ - 1]
      [] st.mode = <<"top">> /\ Here(s, i, <<"-", "-">>) -> [st EXCEPT !.mode = <<"LF">>, !.skip = 1]
      [] st.mode = <<"LF">> /\ s[i] = "LF" -> [st EXCEPT !.mode = <<"top">>]
      [] st.mode = <<"top">> /\ Here(s, i, <<"/", "*">>) /\ \E j \in i + 2 .. Len(s) : Here(s, j, <<"*", "/">>)
            -> [st EXCEPT !.mode = <<"*", "/">>, !.skip = 1]
      [] st.mode = <<"*", "/">> /\ Here(s, i, <<"*", "/">>) -> [st EXCEPT !.mode = <<"top">>, !.skip = 1]
      [] st.mode # <<"top">> -> st
      [] OTHER -> [st EXCEPT !.current = Append(@, s[i])]
HasCode(s) ==
    LET left == FoldLeft(LAMBDA st, i : StripStep(s, st, i), Start, [i \in DOMAIN s |-> i]).current IN
    \E i \in DOMAIN left : left[i] \notin {"LF", "-", "/", "*"}

\* splitSqlStatements.
SplitSqlStatements(s) ==
    LET scanned == FoldLeft(LAMBDA st, i : ScanStep(s, st, i), Start, [i \in DOMAIN s |-> i])
    IN  SelectSeq(Flush(scanned).statements, HasCode)

-----------------------------------------------------------------------------
\* The pieces a statement is written with; each but the first holds a semicolon.
Code == {<<"a">>, <<"'", ";", "'">>, <<"'", "'", "'", ";", "'">>, <<"$", "$", ";", "'", "$", "$">>,
         <<"$", "t", "$", ";", "$", "$", "$", "t", "$">>}
Comment == {<<"-", "-", ";", "'", "LF">>, <<"/", "*", ";", "'", "*", "/">>}

\* Statements written one after the other, each a sequence of pieces, come back
\* one by one, and a chunk of comments alone is dropped
\* (splitSqlStatements: "Returns the SQL split on `;` at the top level").
SplitsBack(written) ==
    LET text == FlattenSeq([n \in DOMAIN written |-> Append(FlattenSeq(written[n]), ";")])
        real == SelectSeq(written, LAMBDA pieces : \E n \in DOMAIN pieces : pieces[n] \in Code)
    IN  SplitSqlStatements(text) = [n \in DOMAIN real |-> TrimBlank(FlattenSeq(real[n]))]
=============================================================================
