----------------------------- MODULE DevRoutes -----------------------------
(***************************************************************************)
(* The development routes of src/api/routes/dev/index.ts.  The first half  *)
(* is their hand on the database: instant login, seeding, reset, and the   *)
(* snapshots that a verification run takes and restores while the app, its *)
(* loops and migrations go on writing.  The second half is /app-state: the *)
(* page pushes its stores there (web/src/lib/devpanel), whoever verifies   *)
(* the app reads the last push.                                            *)
(*                                                                         *)
(* A row is named by the account it belongs to, in every table: the row of *)
(* an account refers to that account's rows in the tables its table        *)
(* references.                                                             *)
(***************************************************************************)
EXTENDS Integers, Sequences, SequencesExt

CONSTANTS
    Account,
    Names,        \* the tables of all schemas, in the order of their names
    Refs,         \* Refs[t]: the tables that t references
    Late,         \* the tables that a migration creates or drops meanwhile
    None,         \* no row, snapshot, file, reply or timer
    Debounce, Heartbeat,  \* DEBOUNCE_MS, HEARTBEAT_MS
    Latency,      \* bound: the time a push is under way
    MaxSnapshots, \* bound: snapshots taken
    MaxChanges,   \* bound: writes to the page's stores
    MaxTime       \* bound: the clock of the page

\* "organizations" and "users", which references it, are among them and not Late.
Table == Range(Names)

VARIABLES
    schema,    \* the tables there are
    db,        \* db[t]: the accounts with a row in t
    login,     \* login[a]: a request to /login for a, and what it read
    snap,      \* the snapshot being taken: tables to read, rows read
    file,      \* the file of the last snapshot taken
    written,   \* whether a row was written while it was taken
    reply,     \* the answer of the restore that has just ended, and its schema
    snapshots
database == <<schema, db, login, snap, file, written, reply, snapshots>>

VARIABLES
    now,
    value,     \* the number of writes to the stores so far
    changed,   \* changed[n]: when the n-th write happened
    timer,     \* when the debounce timer fires, or None
    beat,      \* when the heartbeat fires
    posts,     \* pushes under way: what they carry and when they were sent
    seen       \* lastClientSnapshot
panel == <<now, value, changed, timer, beat, posts, seen>>

vars == <<database, panel>>

\* What rows there may be: a row's references are there.
Sound(rows) == \A t \in Table : \A r \in Refs[t] : rows[t] \subseteq rows[r]

TypeOK ==
    /\ schema \subseteq Table /\ db \in [Table -> SUBSET Account]
    /\ \A t \in Table \ schema : db[t] = {}
    /\ login \in [Account -> {"none", "found", "absent"}]
    /\ snap = None \/ snap.todo \in Seq(Table)
    /\ file = None \/ DOMAIN file.rows \subseteq Table
    /\ written \in BOOLEAN /\ snapshots \in 0 .. MaxSnapshots
    /\ now \in 0 .. MaxTime /\ value \in 0 .. MaxChanges /\ seen \in 0 .. value

Init ==
    /\ schema = Table \ Late /\ db = [t \in Table |-> {}]
    /\ login = [a \in Account |-> "none"]
    /\ snap = None /\ file = None /\ written = FALSE /\ reply = None /\ snapshots = 0
    /\ now = 0 /\ value = 0 /\ changed = <<>> /\ timer = None
    /\ beat = Heartbeat /\ posts = {[carries |-> 0, sent |-> 0]} /\ seen = 0

-----------------------------------------------------------------------------
(* The database. *)

\* A transaction that would leave these rows fails as a whole when a reference
\* is not there.
Commit(rows) ==
    /\ db' = IF Sound(rows) THEN rows ELSE db
    /\ written' = (written \/ Sound(rows))

\* Mutant of DiscoverSnapshotTables: by name.
DiscoverByName == SelectSeq(Names, LAMBDA t : t \in schema)

\* The tables in an order that parents come first in, by name where there is a
\* choice (Kahn's algorithm); tables on a cycle of references are put last.
DiscoverSnapshotTables ==
    LET all == SelectSeq(Names, LAMBDA t : t \in schema)
        Ready(done) == SelectSeq(all, LAMBDA t :
                           t \notin Range(done) /\ (Refs[t] \cap schema) \ {t} \subseteq Range(done))
        kahn[n \in 0 .. Len(all)] ==
            IF n = 0 THEN <<>> ELSE kahn[n - 1] \o SubSeq(Ready(kahn[n - 1]), 1, 1)
        order == kahn[Len(all)]
    IN order \o SelectSeq(all, LAMBDA t : t \notin Range(order))

\* The tables named and those that reference them, directly or not.
Below(named) ==
    LET reach[n \in 0 .. Len(Names)] ==
            IF n = 0 THEN named ELSE reach[n - 1] \cup {t \in Table : Refs[t] \cap reach[n - 1] # {}}
    IN reach[Len(Names)]

\* TRUNCATE TABLE ... CASCADE.
Truncate(rows, named) == [t \in Table |-> IF t \in Below(named) THEN {} ELSE rows[t]]

\* A request or a loop of the app inserts a row, or deletes one and what refers
\* to it.
AppWrites(t, a) ==
    /\ t \in schema
    /\ Commit(IF a \notin db[t] THEN [db EXCEPT ![t] = @ \cup {a}]
              ELSE [u \in Table |-> IF u \in Below({t}) THEN db[u] \ {a} ELSE db[u]])
    /\ reply' = None /\ UNCHANGED <<schema, login, snap, file, snapshots>>

\* A migration creates or drops a table.
Migrate(t) ==
    /\ t \in Late
    /\ schema' = IF t \in schema THEN schema \ {t} ELSE schema \cup {t}
    /\ db' = [db EXCEPT ![t] = {}]
    /\ written' = TRUE /\ reply' = None /\ UNCHANGED <<login, snap, file, snapshots>>

\* /login: findOrCreateUserWithOrg reads the user ...
LoginReads(a) ==
    /\ login[a] = "none"
    /\ login' = [login EXCEPT ![a] = IF a \in db["users"] THEN "found" ELSE "absent"]
    /\ reply' = None /\ UNCHANGED <<schema, db, snap, file, written, snapshots>>

\* ... and inserts organization and user in one transaction, or reads the
\* organization: an email that is taken by now, or an organization that is gone,
\* fails the request.  The session cookie is set when neither does.
WithOrg(rows, a) == [rows EXCEPT !["organizations"] = @ \cup {a}, !["users"] = @ \cup {a}]

LoginEnds(a) ==
    /\ login[a] # "none"
    /\ LET ok == IF login[a] = "found" THEN a \in db["organizations"] ELSE a \notin db["users"] IN
       /\ db' = IF ok /\ login[a] = "absent" THEN WithOrg(db, a) ELSE db
       /\ written' = (written \/ db' # db)
    /\ login' = [login EXCEPT ![a] = "none"]
    /\ reply' = None /\ UNCHANGED <<schema, snap, file, snapshots>>

\* /seed: users that are missing and raw rows, in one transaction; a raw row that
\* is there already, or has no parent, takes the users back with it.
Seed(a, t) ==
    /\ t \in schema \cup {None}
    /\ LET users == IF a \in db["users"] THEN db ELSE WithOrg(db, a)
           rows == IF t = None THEN users ELSE [users EXCEPT ![t] = @ \cup {a}]
           ok == Sound(rows) /\ (t # None => a \notin users[t])
       IN IF ok THEN Commit(rows) ELSE UNCHANGED <<db, written>>
    /\ reply' = None /\ UNCHANGED <<schema, login, snap, file, snapshots>>

\* /reset: the tables named, or DEFAULT_TRUNCATE_TABLES.
Reset(named) ==
    /\ named \subseteq schema /\ named # {}
    /\ db' = Truncate(db, named) /\ written' = TRUE
    /\ reply' = None /\ UNCHANGED <<schema, login, snap, file, snapshots>>

\* /snapshot lists the tables, reads them one by one, outside a transaction, and
\* writes the file.  A table that is gone when its turn comes fails the request.
SnapshotBegins ==
    /\ snap = None /\ snapshots < MaxSnapshots
    /\ snap' = [todo |-> DiscoverSnapshotTables, rows |-> <<>>]
    /\ written' = FALSE /\ snapshots' = snapshots + 1
    /\ reply' = None /\ UNCHANGED <<schema, db, login, file>>

SnapshotReads ==
    /\ snap # None /\ snap.todo # <<>>
    /\ LET t == Head(snap.todo) IN
       snap' = IF t \notin schema THEN None
               ELSE [todo |-> Tail(snap.todo), rows |-> Append(snap.rows, <<t, db[t]>>)]
    /\ reply' = None /\ UNCHANGED <<schema, db, login, file, written, snapshots>>

SnapshotEnds ==
    /\ snap # None /\ snap.todo = <<>>
    /\ file' = [rows |-> [t \in {snap.rows[i][1] : i \in DOMAIN snap.rows} |->
                             snap.rows[CHOOSE i \in DOMAIN snap.rows : snap.rows[i][1] = t][2]],
                torn |-> written, schema |-> schema]
    /\ snap' = None
    /\ reply' = None /\ UNCHANGED <<schema, db, login, written, snapshots>>

\* The rows after the first n tables of the order have been filled, each by one
\* insert that fails when a parent's row is not there yet; None after a failure.
Filled(order, rows, n) ==
    LET fill[i \in 0 .. n] ==
            IF i = 0 THEN Truncate(db, DOMAIN rows \cap schema)
            ELSE LET t == order[i]
                     last == fill[i - 1]
                 IN IF last = None \/ t \notin DOMAIN rows \/ rows[t] = {} THEN last
                    ELSE IF last[t] = {} /\ \A r \in Refs[t] \ {t} : rows[t] \subseteq last[r]
                         THEN [last EXCEPT ![t] = rows[t]] ELSE None
    IN fill[n]

\* /restore, with the tables there are now: one transaction, TRUNCATE takes their
\* locks.
Restore ==
    /\ file # None
    /\ LET order == DiscoverSnapshotTables
           rows == Filled(order, file.rows, Len(order))
       IN /\ db' = IF rows = None THEN db ELSE rows
          /\ reply' = [of |-> schema, ok |-> rows # None]
    /\ written' = TRUE /\ UNCHANGED <<schema, login, snap, file, snapshots>>

Database ==
    /\ \/ \E t \in Table, a \in Account : AppWrites(t, a)
       \/ \E t \in Table : Migrate(t)
       \/ \E a \in Account : LoginReads(a) \/ LoginEnds(a) \/ \E t \in Table \cup {None} : Seed(a, t)
       \/ \E named \in {{t} : t \in Table} \cup {Table \ Late} : Reset(named)
       \/ SnapshotBegins \/ SnapshotReads \/ SnapshotEnds \/ Restore
    /\ UNCHANGED panel

-----------------------------------------------------------------------------
(* The dev panel. *)

\* A write to a store: at the top level, the store's proxy tells the subscriber,
\* which starts the debounce timer anew; a nested one passes it by.
StoreWrite(top) ==
    /\ value < MaxChanges
    /\ value' = value + 1 /\ changed' = Append(changed, now)
    /\ timer' = IF top THEN now + Debounce ELSE timer
    /\ UNCHANGED <<now, beat, posts, seen>>

\* pushNow: the snapshot of the moment goes out.  What a page sends arrives in the
\* end; a push that is lost is as good as the next heartbeat's.
Push == posts' = posts \cup {[carries |-> value, sent |-> now]}

TimerFires ==
    /\ timer = now /\ timer' = None
    /\ Push /\ UNCHANGED <<now, value, changed, beat, seen>>

HeartbeatFires ==
    /\ beat = now /\ beat' = now + Heartbeat
    /\ Push /\ UNCHANGED <<now, value, changed, timer, seen>>

\* POST /app-state keeps what arrives last.
AppStateArrives(p) ==
    /\ p \in posts
    /\ posts' = posts \ {p} /\ seen' = p.carries
    /\ UNCHANGED <<now, value, changed, timer, beat>>

\* Time passes when no timer is due and no push has been under way for too long.
PanelTick ==
    /\ now < MaxTime /\ timer # now /\ beat # now
    /\ \A p \in posts : now < p.sent + Latency
    /\ now' = now + 1
    /\ UNCHANGED <<value, changed, timer, beat, posts, seen>>

Panel ==
    /\ \/ \E top \in BOOLEAN : StoreWrite(top)
       \/ TimerFires \/ HeartbeatFires \/ PanelTick
       \/ \E p \in posts : AppStateArrives(p)
    /\ UNCHANGED database

Next == Database \/ Panel

Spec == Init /\ [][Next]_vars

-----------------------------------------------------------------------------
(* Properties. *)

\* "Parents come first in the returned order -- restore-time INSERT can run
\* sequentially without FK errors": a snapshot that nothing was written during
\* is restored whole into the schema it was taken from, to the row, however the
\* database has changed since.
QuietSnapshotsRestore ==
    reply # None /\ ~file.torn /\ reply.of = file.schema =>
        reply.ok /\ db = [t \in Table |-> IF t \in schema THEN file.rows[t] ELSE {}]

\* "5s heartbeat is the safety net: any change is visible to the dev panel within
\* 5s even when the rule is broken": a write to a store is in the last push kept,
\* for good, once a heartbeat and the time of two pushes have passed: an older push
\* may arrive after a newer one and hide it until the next heartbeat.
ChangesAreSeen == \A n \in 1 .. value : now > changed[n] + Heartbeat + 2 * Latency => n <= seen

\* What keeps them seen: a push that lacks a write was sent before it, so it is through
\* in time; and after that the write's heartbeat is to come, under way, or seen.
PanelInv ==
    /\ now \in Nat /\ value \in Nat /\ seen \in Nat /\ changed \in Seq(Nat) /\ Len(changed) = value
    /\ beat \in Nat /\ now <= beat /\ beat <= now + Heartbeat
    /\ \A n \in 1 .. value : changed[n] <= now
    /\ \A p \in posts :
         /\ p.carries \in Nat /\ p.sent \in Nat /\ p.sent <= now /\ now <= p.sent + Latency
         /\ \A n \in 1 .. value : p.carries < n => p.sent <= changed[n]
    /\ \A n \in 1 .. value : now > changed[n] + Latency =>
         \/ n <= seen \/ beat <= changed[n] + Latency + Heartbeat
         \/ \E p \in posts : n <= p.carries /\ p.sent <= changed[n] + Latency + Heartbeat

\* "The result is a DB whose row state matches the snapshot moment exactly": any
\* snapshot can be restored into its schema.
EverySnapshotRestores ==
    reply # None /\ reply.of = file.schema => reply.ok
=============================================================================
