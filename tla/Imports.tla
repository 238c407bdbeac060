------------------------------- MODULE Imports -------------------------------
(***************************************************************************)
(* Import sessions (src/services/import/import.service.ts, src/api/routes/ *)
(* imports): upload, map, preview, commit.  A commit reads the session,    *)
(* records the attestation, prepares the rows from the file, writes them   *)
(* in one transaction under a timeout, and stores the outcome; two people, *)
(* or one person's two clicks, may be in it at once.  Before that is the   *)
(* pure part (parse.ts, mapping.ts, prepareImport): CSV text to a grid, the*)
(* header row, headings to fields, cells to values (normalize.ts), rows to *)
(* creates and updates.  A text is a sequence of characters of which only  *)
(* the special ones differ; a heading is the set of fields it matches at   *)
(* each tier.                                                              *)
(***************************************************************************)
EXTENDS Integers, Sequences, FiniteSets, SequencesExt

CONSTANTS
    Field,        \* fields of the definition
    Blank,        \* an empty cell after normalization
    Session,      \* sessions over one file
    Rows,         \* the rows of that file, normalized
    MatchBy,      \* the definition's identity tuples
    MaxAttempts, MaxFaults, MaxRecords   \* bounds

VARIABLES
    unique,     \* the table has a unique index on the first tuple
    records,    \* the definition's table, oldest first
    file,       \* the uploaded file is there
    session,    \* session[s]: status, uploadedFileId is set, attested
    attempts,   \* commits and mapping writes under way
    wrote,      \* wrote[s]: transactions of s that committed
    crowded,    \* sessions two requests were in at once, or a fault hit
    overlap,    \* two writers were between their lookup and their write
    faults

vars == <<unique, records, file, session, attempts, wrote, crowded, overlap, faults>>

-----------------------------------------------------------------------------
(* parse.ts *)

\* parseCsv, one character at a time: `skip` is the i++ after a doubled quote
\* or a CR LF.
CsvStart == [rows |-> <<>>, row |-> <<>>, field |-> <<>>, quoted |-> FALSE, saw |-> FALSE, skip |-> FALSE]
EndLine(s) == [s EXCEPT !.rows = Append(@, Append(s.row, s.field)), !.row = <<>>, !.field = <<>>, !.saw = FALSE]
Add(s, ch) == [s EXCEPT !.field = Append(@, ch), !.saw = TRUE]
\* Mutant of CsvStep: the quote that follows a quote is not skipped.
CsvStepNoEscape(s, ch, ahead) ==
    IF s.quoted /\ ch = "quote" THEN [s EXCEPT !.quoted = FALSE, !.saw = TRUE]
    ELSE CASE ch = "quote" -> [s EXCEPT !.quoted = TRUE, !.saw = TRUE]
           [] ch = "comma" /\ ~s.quoted -> [s EXCEPT !.row = Append(@, s.field), !.field = <<>>, !.saw = TRUE]
           [] ch \in {"CR", "LF"} /\ ~s.quoted -> EndLine(s)
           [] OTHER -> Add(s, ch)

CsvStep(s, ch, ahead) ==
    IF s.skip THEN [s EXCEPT !.skip = FALSE]
    ELSE IF s.quoted THEN
        IF ch = "quote" THEN IF ahead = "quote" THEN [Add(s, "quote") EXCEPT !.skip = TRUE]
                             ELSE [s EXCEPT !.quoted = FALSE, !.saw = TRUE]
        ELSE Add(s, ch)
    ELSE CASE ch = "quote" -> [s EXCEPT !.quoted = TRUE, !.saw = TRUE]
           [] ch = "comma" -> [s EXCEPT !.row = Append(@, s.field), !.field = <<>>, !.saw = TRUE]
           [] ch = "CR"    -> [EndLine(s) EXCEPT !.skip = ahead = "LF"]
           [] ch = "LF"    -> EndLine(s)
           [] OTHER        -> Add(s, ch)

ParseCsv(text) ==
    LET at[i \in 0..Len(text)] ==
            IF i = 0 THEN CsvStart
            ELSE CsvStep(at[i - 1], text[i], IF i < Len(text) THEN text[i + 1] ELSE "end")
        s == at[Len(text)]
    IN  IF s.saw \/ s.field # <<>> \/ s.row # <<>> THEN Append(s.rows, Append(s.row, s.field)) ELSE s.rows

\* Cells: trimmed of white space; a plain number once separators are dropped.
Space == {"LF", "CR", "space"}
Trim(cell) ==
    LET ink == {i \in DOMAIN cell : cell[i] \notin Space}
    IN  IF ink = {} THEN <<>> ELSE SubSeq(cell, CHOOSE i \in ink : \A j \in ink : i <= j, CHOOSE i \in ink : \A j \in ink : j <= i)
IsPlainNumber(cell) ==
    LET ink == SelectSeq(cell, LAMBDA ch : ch \notin Space \cup {"comma"}) IN ink # <<>> /\ \A i \in DOMAIN ink : ink[i] = "digit"

\* detectHeaderRow: the widest and least numeric row, the earliest of equals.
Filled(row) == Cardinality({c \in DOMAIN row : Trim(row[c]) # <<>>})
Score(row) ==
    IF Filled(row) < 2 THEN Filled(row) - 5
    ELSE 2 * Filled(row) - 3 * Cardinality({c \in DOMAIN row : IsPlainNumber(row[c])})
DetectHeaderRow(grid) ==
    LET rows == {i \in DOMAIN grid : Filled(grid[i]) > 0}
    IN  CHOOSE i \in rows : \A j \in rows : Score(grid[j]) < Score(grid[i]) \/ (Score(grid[j]) = Score(grid[i]) /\ i <= j)

\* shapeGrid: the rows under the header that are not blank, cells trimmed, cut or
\* padded to the header's width.
ShapeGrid(grid) ==
    LET h == DetectHeaderRow(grid)
        kept == SelectSeq(SubSeq(grid, h + 1, Len(grid)), LAMBDA row : Filled(row) > 0)
    IN  [i \in DOMAIN kept |-> [c \in DOMAIN grid[h] |-> IF c \in DOMAIN kept[i] THEN Trim(kept[i][c]) ELSE <<>>]]

\* labelColumns: a repeated label gets the number of its repetition.
LabelColumns(header) ==
    [i \in DOMAIN header |->
        LET n == Cardinality({j \in 1..(i - 1) : header[j] = header[i]})
        IN  IF n = 0 THEN header[i] ELSE Append(header[i], n + 1)]

-----------------------------------------------------------------------------
(* mapping.ts *)

Tiers == <<"exact", "alias", "fuzzy">>

\* Mutant of Pass: the first of two columns that ask for one field gets it, and the other too.
PassFirstCome(p, hits, tier) ==
    LET open == {c \in DOMAIN hits : p.field[c] = Blank /\ c \notin p.ambiguous}
    IN  [field |-> [c \in DOMAIN hits |->
                       IF c \in open /\ Cardinality(hits[c][tier]) = 1 THEN CHOOSE f \in hits[c][tier] : TRUE ELSE p.field[c]],
         ambiguous |-> p.ambiguous \cup {c \in open : Cardinality(hits[c][tier]) > 1}]

\* One pass of proposeMapping over the columns that are still open: a column
\* with one unclaimed hit asks for that field, one with more is ambiguous, and
\* two columns that ask for one field in the same pass are ambiguous too.
Pass(p, hits, tier) ==
    LET open == {c \in DOMAIN hits : p.field[c] = Blank /\ c \notin p.ambiguous}
        claimed == {p.field[c] : c \in DOMAIN hits} \ {Blank}
        free(c) == hits[c][tier] \ claimed
        asks(f) == {c \in open : free(c) = {f}}
    IN  [field |-> [c \in DOMAIN hits |->
                       IF \E f \in Field : asks(f) = {c} THEN CHOOSE f \in Field : asks(f) = {c} ELSE p.field[c]],
         ambiguous |-> p.ambiguous \cup {c \in open : Cardinality(free(c)) > 1}
                                   \cup UNION {asks(f) : f \in {g \in Field : Cardinality(asks(g)) > 1}}]

ProposeMapping(hits) ==
    LET start == [field |-> [c \in DOMAIN hits |-> Blank], ambiguous |-> {}]
    IN  Pass(Pass(Pass(start, hits, "exact"), hits, "alias"), hits, "fuzzy")

\* resolveMapping: no field from two columns, and none that is required missing.
ResolveMapping(mapping, required) ==
    /\ \A c, d \in DOMAIN mapping : c # d /\ mapping[c] # Blank => mapping[c] # mapping[d]
    /\ required \subseteq {mapping[c] : c \in DOMAIN mapping}

-----------------------------------------------------------------------------
(* normalize.ts, and the derivation of definitions.ts: a column with the full   *)
(* name fills the fields "first" and "last".                                    *)

\* normalizeCell of a text field: trimmed, white space collapsed, and refused, not
\* cut, when it is too long.
NormalizeText(cell, max) ==
    LET text == Trim(cell)
        kept == SelectSeq([i \in DOMAIN text |-> i], LAMBDA i : text[i] \notin Space \/ text[i - 1] \notin Space)
        value == [k \in DOMAIN kept |-> text[kept[k]]]
    IN  [value |-> IF Len(value) \in 1..max THEN value ELSE Blank, bad |-> Len(value) > max]

\* splitFullName: at the first comma, which flips the names, or else at the last space.
SplitFullName(full) ==
    LET at(ch) == {i \in DOMAIN full : full[i] = ch}
        before(i) == Trim(SubSeq(full, 1, i - 1))
        after(i) == Trim(SubSeq(full, i + 1, Len(full)))
        flips == {i \in at("comma") : (\A j \in at("comma") : i <= j) /\ before(i) # <<>> /\ after(i) # <<>>}
        space == {i \in at("space") : \A j \in at("space") : j <= i}
    IN  IF flips # {} THEN [first |-> after(CHOOSE i \in flips : TRUE), last |-> before(CHOOSE i \in flips : TRUE)]
        ELSE IF space = {} THEN [first |-> full]
        ELSE [first |-> before(CHOOSE i \in space : TRUE), last |-> after(CHOOSE i \in space : TRUE)]

\* normalizeRow: the cells of the mapped columns (Blank where a field has none), what
\* is derived from them where they are blank, and only then what is required; a field
\* that is wrong is not called missing too.
NormalizeRow(fields, cells) ==
    LET norm(f, cell) == IF cell = Blank THEN [value |-> Blank, bad |-> FALSE] ELSE NormalizeText(cell, fields[f].max)
        own == [f \in DOMAIN fields |-> norm(f, cells[f])]
        derived == IF own["full"].value = Blank THEN <<>> ELSE SplitFullName(own["full"].value)
        fills == {f \in DOMAIN derived : own[f].value = Blank}
        all == [f \in DOMAIN fields |-> IF f \in fills THEN norm(f, derived[f]).value ELSE own[f].value]
        bad == {f \in DOMAIN fields : own[f].bad \/ (f \in fills /\ norm(f, derived[f]).bad)}
    IN  [all |-> all, bad |-> bad, missing |-> {f \in DOMAIN fields : fields[f].required /\ all[f] = Blank} \ bad]

\* expandYear, daysInMonth and normalizeDate: the numbers of a date, in the order of
\* its shape, are a year, a month and a day, or Blank.
ExpandYear(y) == IF y >= 100 THEN y ELSE IF y < 70 THEN 2000 + y ELSE 1900 + y
DaysInMonth(y, m) ==
    IF m = 2 THEN IF y % 4 = 0 /\ (y % 100 # 0 \/ y % 400 = 0) THEN 29 ELSE 28
    ELSE IF m \in {4, 6, 9, 11} THEN 30 ELSE 31
NormalizeDate(shape, n, order) ==
    LET date == CASE shape = "iso" -> n
                  [] shape = "named" \/ (shape = "numeric" /\ order = "dmy") -> <<ExpandYear(n[3]), n[2], n[1]>>
                  [] OTHER -> <<ExpandYear(n[3]), n[1], n[2]>>
    IN  IF date[2] \in 1..12 /\ date[3] \in 1..DaysInMonth(date[1], date[2]) /\ date[1] \in 1900..2200
        THEN date ELSE Blank

-----------------------------------------------------------------------------
(* hygiene.ts and screenAddresses, for a definition whose rows are addresses: one is *)
(* Blank or a local part, its tag after the "+", and the labels of a domain.          *)

Reserved(d) ==
    \/ Last(d) \in {"test", "example", "invalid", "localhost"}
    \/ \E i \in 1..(Len(d) - 1), tld \in {"com", "net", "org"} : SubSeq(d, i, Len(d)) = <<"example", tld>>

\* TYPO_DOMAINS, TYPO_TLDS and the role and test local parts, a few of each.
TypoFix(d) ==
    IF d \in {<<"gmail", "con">>, <<"gmaill", "com">>} THEN <<"gmail", "com">>
    ELSE IF Last(d) \in {"con", "cmo"} THEN [d EXCEPT ![Len(d)] = "com"] ELSE d
RoleOrTest == {"test", "noreply"}

CheckAddress(a) ==
    IF a = Blank THEN "invalid"
    ELSE IF Reserved(a.domain) THEN "reserved_domain"
    ELSE IF TypoFix(a.domain) # a.domain THEN "typo_domain"
    ELSE IF a.local \in RoleOrTest THEN "role_or_test" ELSE "ok"

\* checkDomainsHaveMx: the most common domains first, the earlier of equals; only a
\* definite answer counts against one.
Often(d, domains) == Cardinality({i \in DOMAIN domains : domains[i] = d})
DomainsWithoutMx(domains, max, answer) ==
    LET at(d) == CHOOSE i \in DOMAIN domains : domains[i] = d /\ \A j \in 1..(i - 1) : domains[j] # d
        ahead(d, e) == Often(e, domains) > Often(d, domains) \/ (Often(e, domains) = Often(d, domains) /\ at(e) < at(d))
        looked == {d \in Range(domains) : Cardinality({e \in Range(domains) : ahead(d, e)}) < max}
    IN  {d \in looked : answer[d] = "none"}

\* What is wrong with each address, "ok" for nothing: the address itself, that this
\* workspace or everyone suppresses it, or that its domain takes no mail.
ScreenAddresses(emails, org, suppressed, max, answer) ==
    LET fine == SelectSeq(emails, LAMBDA a : CheckAddress(a) = "ok")
        noMx == DomainsWithoutMx([i \in DOMAIN fine |-> fine[i].domain], max, answer)
    IN  [i \in DOMAIN emails |->
            IF CheckAddress(emails[i]) # "ok" THEN CheckAddress(emails[i])
            ELSE IF \E s \in suppressed : s.email = emails[i] /\ s.org \in {Blank, org} THEN "suppressed"
            ELSE IF emails[i].domain \in noMx THEN "no_mx" ELSE "ok"]

-----------------------------------------------------------------------------
(* identityKeys, buildIdentityIndex and prepareImport. *)

\* A row is its normalized values: normalizeRow either gives them all or says
\* what is wrong (`valid`).  A tuple with a blank field is no key.
IdentityKeys(row, matchBy) ==
    {<<t, [f \in matchBy[t] |-> row[f]]>> : t \in {u \in DOMAIN matchBy : \A f \in matchBy[u] : row[f] # Blank}}

\* lookup: the record found by the best tuple; of two records with one key the first.
Lookup(row, existing, matchBy) ==
    LET hits == {<<k[1], i>> : k \in IdentityKeys(row, matchBy), i \in DOMAIN existing}
        good == {h \in hits : \E k \in IdentityKeys(row, matchBy) : k[1] = h[1] /\ k \in IdentityKeys(existing[h[2]], matchBy)}
    IN  IF good = {} THEN 0
        ELSE (CHOOSE h \in good : \A g \in good : h[1] < g[1] \/ (h[1] = g[1] /\ h[2] <= g[2]))[2]

\* Mutant of PrepareImport: keys are not claimed within the file.
PrepareUnclaimed(rows, existing, matchBy) ==
    [i \in DOMAIN rows |-> IF ~rows[i].valid THEN "invalid"
                           ELSE IF Lookup(rows[i], existing, matchBy) # 0 THEN "update" ELSE "create"]

\* What becomes of each row: the first row with a key claims it.
PrepareImport(rows, existing, matchBy) ==
    LET act[i \in DOMAIN rows] ==
            IF ~rows[i].valid THEN "invalid"
            ELSE IF \E j \in 1..(i - 1) : act[j] \in {"create", "update"}
                        /\ IdentityKeys(rows[j], matchBy) \cap IdentityKeys(rows[i], matchBy) # {}
                 THEN "duplicate"
            ELSE IF Lookup(rows[i], existing, matchBy) # 0 THEN "update" ELSE "create"
    IN  act

-----------------------------------------------------------------------------
(* References the algorithms are checked against. *)

\* A writer of CSV that quotes every cell.
Render(grid, newline) ==
    LET quoted(cell) == <<"quote">> \o FlattenSeq([i \in DOMAIN cell |->
                            IF cell[i] = "quote" THEN <<"quote", "quote">> ELSE <<cell[i]>>]) \o <<"quote">>
        line(row) == FlattenSeq([c \in DOMAIN row |-> (IF c = 1 THEN <<>> ELSE <<"comma">>) \o quoted(row[c])])
    IN  FlattenSeq([r \in DOMAIN grid |-> line(grid[r]) \o newline])

\* A sheet with a title line, a header and data rows of its width comes back
\* as its data rows that are not blank.
ReadsBack(title, header, data, newline) ==
    ShapeGrid(ParseCsv(Render(<<title, header>> \o data, newline))) =
        SelectSeq([i \in DOMAIN data |-> [c \in DOMAIN header |-> Trim(data[i][c])]], LAMBDA row : Filled(row) > 0)

\* A cell that can be read is kept, whatever is derived, and one that cannot is an
\* error, so that a row without errors has all that is required; nothing of a full
\* name is lost when it is split; and a row that was accepted is accepted as it is.
Ink(cell) == IF cell = Blank THEN <<>> ELSE SelectSeq(cell, LAMBDA ch : ch \notin Space \cup {"comma"})
RowIsHonest(fields, cells) ==
    LET row == NormalizeRow(fields, cells) IN
    /\ \A f \in DOMAIN fields : cells[f] # Blank /\ Trim(cells[f]) # <<>> =>
          row.all[f] = NormalizeText(cells[f], fields[f].max).value \/ f \in row.bad
    /\ row.bad \cup row.missing = {} =>
          /\ \A f \in DOMAIN fields : fields[f].required => row.all[f] # Blank
          /\ cells["first"] = Blank /\ cells["last"] = Blank =>
                Ink(row.all["full"]) \in {Ink(row.all["first"]) \o Ink(row.all["last"]), Ink(row.all["last"]) \o Ink(row.all["first"])}
          /\ NormalizeRow(fields, row.all) = row

\* A date that is accepted is a day of the calendar: the next that is accepted comes
\* one day later (DayNumber counts from an epoch, years beginning in March).  It reads
\* the same as what it is stored as, and differs between the two orders only where the
\* file cannot tell them apart.
DayNumber(d) ==
    LET year == IF d[2] <= 2 THEN d[1] - 1 ELSE d[1] IN
    365 * year + (year \div 4) - (year \div 100) + (year \div 400) + ((153 * ((d[2] + 9) % 12) + 2) \div 5) + d[3]
DateStands(shape, n) ==
    \A order \in {"mdy", "dmy"} :
        LET d == NormalizeDate(shape, n, order)
            e == NormalizeDate(shape, n, "mdy")
            Iso(x) == NormalizeDate("iso", x, order)
            after == {x \in {<<d[1], d[2], d[3] + 1>>, <<d[1], d[2] + 1, 1>>, <<d[1] + 1, 1, 1>>} : Iso(x) # Blank}
        IN  d # Blank =>
                /\ Iso(d) = d
                /\ d # <<2200, 12, 31>> => \E x \in after : DayNumber(x) = DayNumber(d) + 1
                /\ d # e /\ e # Blank => shape = "numeric" /\ {n[1], n[2]} \subseteq 1..12

\* "A flaky resolver must never reject a real address": only a domain that was told to
\* have no mail server is refused for it, a domain of that kind is let through only
\* when as many as may be asked about are at least as common, and the lookups change
\* no other verdict.  Another workspace's suppression refuses nobody, and the spelling
\* that is suggested needs no more than one more correction.
ScreensFairly(emails, org, suppressed, max, answer) ==
    LET verdict == ScreenAddresses(emails, org, suppressed, max, answer)
        plain == ScreenAddresses(emails, org, {s \in suppressed : s.org # "other"}, 0, answer)
        asked == {i \in DOMAIN emails : CheckAddress(emails[i]) = "ok"}
        domains == [i \in asked |-> emails[i].domain]
    IN  \A i \in DOMAIN emails :
            /\ verdict[i] = plain[i] \/ (plain[i] = "ok" /\ verdict[i] = "no_mx" /\ answer[domains[i]] = "none")
            /\ verdict[i] = "ok" /\ answer[domains[i]] = "none" =>
                  Cardinality({d \in Range(domains) \ {domains[i]} : Often(d, domains) >= Often(domains[i], domains)}) >= max
            /\ verdict[i] = "typo_domain" => CheckAddress([emails[i] EXCEPT !.domain = TypoFix(TypoFix(@))]) # "typo_domain"

\* A proposal never gives a field to two columns or answers an ambiguous
\* column, and a heading that alone names a field exactly gets it.
Sound(hits, p) ==
    /\ ResolveMapping(p.field, {})
    /\ \A c \in DOMAIN hits :
        /\ c \in p.ambiguous => p.field[c] = Blank
        /\ \A f \in Field : {d \in DOMAIN hits : f \in hits[d]["exact"]} = {c} /\ hits[c]["exact"] = {f} => p.field[c] = f

-----------------------------------------------------------------------------
(* What the repository says and the code does not do.  A label is a sequence:  *)
(* "A (2)" is <<"A", 2>>.                                                       *)

\* parse.ts: "Column labels, de-duplicated and never blank."  A column that is
\* itself called "A (2)" after two called "A" repeats a label.
LabelsDiffer(header) == \A i, j \in DOMAIN header : i # j => LabelColumns(header)[i] # LabelColumns(header)[j]

\* import.service.ts: "the second row for one person is a duplicate rather than
\* a second write that quietly wins".  Rows that reach one record by different
\* tuples both update it.
OneWritePerRecord(rows, existing, matchBy) ==
    \A i, j \in DOMAIN rows : i # j /\ PrepareImport(rows, existing, matchBy)[i] = "update"
                                    /\ PrepareImport(rows, existing, matchBy)[j] = "update"
        => Lookup(rows[i], existing, matchBy) # Lookup(rows[j], existing, matchBy)

-----------------------------------------------------------------------------
(* Sessions. *)

NoSession == [status |-> "none", hasFile |-> FALSE, attested |-> FALSE]

TypeOK ==
    /\ unique \in BOOLEAN /\ file \in BOOLEAN /\ overlap \in BOOLEAN /\ faults \in 0..MaxFaults
    /\ session \in [Session -> [status : {"none", "parsed", "mapped", "committed", "failed"},
                                hasFile : BOOLEAN, attested : BOOLEAN]]
    /\ wrote \in [Session -> Nat] /\ crowded \subseteq Session

Init ==
    /\ unique \in BOOLEAN /\ records = <<>> /\ file = TRUE
    /\ session = [s \in Session |-> NoSession] /\ attempts = {} /\ wrote = [s \in Session |-> 0]
    /\ crowded = {} /\ overlap = FALSE /\ faults = 0

Begin(step, s) ==
    /\ Cardinality(attempts) < MaxAttempts
    /\ attempts' = attempts \cup
           {[step |-> step, session |-> s, plan |-> <<>>,
             id |-> CHOOSE id \in 1..MaxAttempts : \A b \in attempts : b.id # id]}
    /\ crowded' = IF \E b \in attempts : b.session = s THEN crowded \cup {s} ELSE crowded
GoTo(a, step) == attempts' = (attempts \ {a}) \cup {[a EXCEPT !.step = step]}
End(a) == attempts' = attempts \ {a}

-----------------------------------------------------------------------------
(* Sessions. *)

\* createImportSession and createImportSessionFromUpload: parsed, with a proposal.
CreateImportSession(s) ==
    /\ session[s] = NoSession /\ file
    /\ session' = [session EXCEPT ![s] = [status |-> "parsed", hasFile |-> TRUE, attested |-> FALSE]]
    /\ UNCHANGED <<unique, records, file, attempts, wrote, crowded, overlap, faults>>

\* deleteUploadedFile: the foreign key sets uploaded_file_id to NULL.
DeleteFile ==
    /\ file /\ file' = FALSE
    /\ session' = [s \in Session |-> [session[s] EXCEPT !.hasFile = FALSE]]
    /\ UNCHANGED <<unique, records, attempts, wrote, crowded, overlap, faults>>

\* Mutant of ReadForMapping: assertNotCommitted is not called.
ReadAnyForMapping(s) ==
    /\ session[s] # NoSession /\ Begin("map", s)
    /\ UNCHANGED <<unique, records, file, session, wrote, overlap, faults>>

\* setImportSessionMapping: the session is read and not committed...
ReadForMapping(s) ==
    /\ session[s].status \notin {"none", "committed"} /\ Begin("map", s)
    /\ UNCHANGED <<unique, records, file, session, wrote, overlap, faults>>

\* ... and its mapping and status written, whatever has become of it.
SetMapping(a) ==
    /\ a.step = "map" /\ End(a)
    /\ session' = [session EXCEPT ![a.session].status = "mapped"]
    /\ UNCHANGED <<unique, records, file, wrote, crowded, overlap, faults>>

-----------------------------------------------------------------------------
(* commitImportSession. *)

StartCommit(s) ==
    /\ session[s].status \notin {"none", "committed"} /\ Begin("attest", s)
    /\ UNCHANGED <<unique, records, file, session, wrote, overlap, faults>>

\* validateImportAttestation and its write, before anything is imported.
Attest(a) ==
    /\ a.step = "attest" /\ GoTo(a, "prepare")
    /\ session' = [session EXCEPT ![a.session].attested = TRUE]
    /\ UNCHANGED <<unique, records, file, wrote, crowded, overlap, faults>>

\* prepareForSession: without its file the commit is refused; with nothing to
\* write it is over.
Prepare(a) ==
    /\ a.step = "prepare"
    /\ LET act == PrepareImport(Rows, records, MatchBy)
           plan == [i \in DOMAIN Rows |-> [act |-> act[i], existing |-> Lookup(Rows[i], records, MatchBy)]]
       IN  IF ~session[a.session].hasFile THEN End(a)
           ELSE attempts' = (attempts \ {a}) \cup
                    {[a EXCEPT !.plan = plan,
                               !.step = IF \E i \in DOMAIN Rows : act[i] \in {"create", "update"} THEN "write" ELSE "committed"]}
    /\ overlap' = (overlap \/ \E b \in attempts \ {a} : b.step \in {"write", "late"})
    /\ UNCHANGED <<unique, records, file, session, wrote, crowded, faults>>

\* upsertRow for every planned row: an update fills in what the row has, a
\* create is appended; the unique index refuses a key that is there by now.
Creates(a) == SelectSeq([i \in DOMAIN Rows |-> [i |-> i, act |-> a.plan[i].act]], LAMBDA e : e.act = "create")
Updated(a, r) ==
    LET by == {i \in DOMAIN Rows : a.plan[i].act = "update" /\ a.plan[i].existing = r}
        last == CHOOSE i \in by : \A j \in by : j <= i
    IN  IF by = {} THEN records[r]
        ELSE [f \in DOMAIN records[r] |-> IF Rows[last][f] = Blank THEN records[r][f] ELSE Rows[last][f]]
Written(a) == [r \in DOMAIN records |-> Updated(a, r)] \o [j \in DOMAIN Creates(a) |-> Rows[Creates(a)[j].i]]
Refused(a) ==
    /\ unique
    /\ \E j \in DOMAIN Creates(a), i \in DOMAIN records :
          \E k \in IdentityKeys(records[i], MatchBy) : k[1] = 1 /\ k \in IdentityKeys(Rows[Creates(a)[j].i], MatchBy)

\* The transaction: every row or none.
Write(a) ==
    /\ a.step = "write" /\ Len(Written(a)) <= MaxRecords
    /\ IF Refused(a) THEN GoTo(a, "failed") /\ UNCHANGED <<records, wrote>>
       ELSE /\ GoTo(a, "committed") /\ records' = Written(a)
            /\ wrote' = [wrote EXCEPT ![a.session] = @ + 1]
    /\ UNCHANGED <<unique, file, session, crowded, overlap, faults>>

\* withTimeout gives up; the transaction goes on without it.
TimesOut(a) ==
    /\ a.step = "write" /\ faults < MaxFaults /\ faults' = faults + 1
    /\ attempts' = (attempts \ {a}) \cup {[a EXCEPT !.step = "failed"], [a EXCEPT !.step = "late"]}
    /\ crowded' = crowded \cup {a.session}
    /\ UNCHANGED <<unique, records, file, session, wrote, overlap>>
LateWrite(a) ==
    /\ a.step = "late" /\ End(a) /\ Len(Written(a)) <= MaxRecords
    /\ IF Refused(a) THEN UNCHANGED <<records, wrote>>
       ELSE records' = Written(a) /\ wrote' = [wrote EXCEPT ![a.session] = @ + 1]
    /\ UNCHANGED <<unique, file, session, crowded, overlap, faults>>

\* storeResult: the outcome, whatever the session says by now.
StoreResult(a) ==
    /\ a.step \in {"committed", "failed"} /\ End(a)
    /\ session' = [session EXCEPT ![a.session].status = a.step]
    /\ UNCHANGED <<unique, records, file, wrote, crowded, overlap, faults>>

\* The process ends inside a commit: the transaction is rolled back or done.
Crash(a) ==
    /\ faults < MaxFaults /\ faults' = faults + 1 /\ End(a)
    /\ crowded' = crowded \cup {a.session}
    /\ UNCHANGED <<unique, records, file, session, wrote, overlap>>

Next ==
    \/ DeleteFile
    \/ \E s \in Session :
        CreateImportSession(s) \/ ReadForMapping(s) \/ StartCommit(s)
    \/ \E a \in attempts :
        \/ SetMapping(a) \/ Attest(a) \/ Prepare(a) \/ Write(a) \/ TimesOut(a) \/ LateWrite(a)
        \/ StoreResult(a) \/ Crash(a)

Spec == Init /\ [][Next]_vars

-----------------------------------------------------------------------------
(* Properties. *)

\* A session that only one request was in at a time imports its file once at
\* most, and its status says whether it did: a later mapping or a second commit
\* of a committed session changes nothing.
StatusTellsTheTruth ==
    \A s \in Session \ crowded : (\A a \in attempts : a.session # s) =>
        wrote[s] = (IF session[s].status = "committed" THEN 1 ELSE 0)

\* "A re-import updates": imports of one file that do not overlap leave one
\* record per identity, within a file and across sessions.
ReimportUpdates ==
    ~overlap => \A i, j \in DOMAIN records : i # j =>
        IdentityKeys(records[i], MatchBy) \cap IdentityKeys(records[j], MatchBy) = {}

-----------------------------------------------------------------------------
(* What the repository says and the code does not do. *)

\* "the whole transaction rolls back and nothing landed": a commit that timed
\* out is stored as failed and lands afterwards; and of two commits at once the
\* loser's "failed" is stored over the winner's "committed".
FailedMeansNothingLanded == \A s \in Session : session[s].status = "failed" => wrote[s] = 0

\* "A committed session is finished": a mapping that was read before the commit
\* makes it "mapped" again, and it can be committed a second time.
CommittedIsFinal == [][\A s \in Session : session[s].status = "committed" => session'[s].status = "committed"]_vars
=============================================================================
