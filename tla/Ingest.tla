------------------------------- MODULE Ingest -------------------------------
(***************************************************************************)
(* What comes into the system as files: uploads (Files), imports of them   *)
(* (Imports), and the pure steps of an import, reading a sheet, proposing  *)
(* a mapping and normalizing rows, on bounded inputs.  A behaviour is      *)
(* about one of them, `focus`; an input is an initial state, `sample`.     *)
(***************************************************************************)
EXTENDS Naturals, Sequences, FiniteSets, FiniteSetTheorems, TLC, TLAPS

CONSTANTS
    User, Org, OrgOf, Reviewer, Name, Body, Nothing,      \* Files
    MaxRequests, MaxLinks, MaxFileFaults,
    Field, Blank, Session, Rows, MatchBy,                 \* Imports
    MaxAttempts, MaxImportFaults, MaxRecords

ASSUME FilesAssumption == OrgOf \in [User -> Org] /\ Nothing \notin Org \cup User \cup Body /\ MaxFileFaults \in Nat

VARIABLES
    focus, sample,
    r2, objects, types, rows, requests, links, uploaded, approved, served, fileFaults,
    unique, records, file, session, attempts, wrote, crowded, overlap, importFaults

Row(valid, email, name) == [valid |-> valid, email |-> email, name |-> name]
\* Two users of one organization; there is another.
Colleagues == [u \in User |-> "x"]
\* A valid row, one that is not, one that repeats the first, and one without a key.
Sheet == <<Row(TRUE, "e1", "n1"), Row(FALSE, "e2", Blank), Row(TRUE, "e1", Blank), Row(TRUE, Blank, Blank)>>

\* A record is found by its address, or else by its name.
Tuples == <<{"email"}, {"name"}>>

F == INSTANCE Files WITH MaxFaults <- MaxFileFaults, faults <- fileFaults
I == INSTANCE Imports WITH MaxFaults <- MaxImportFaults, faults <- importFaults

\* The contents of files are alike.
Symmetry == Permutations(Body)

fileVars == <<r2, objects, types, rows, requests, links, uploaded, approved, served, fileFaults>>
importVars == <<unique, records, file, session, attempts, wrote, crowded, overlap, importFaults>>
vars == <<focus, sample, fileVars, importVars>>

-----------------------------------------------------------------------------
Char == {"a", "digit", "comma", "quote", "LF"}
Short == {<<>>} \cup {<<c>> : c \in Char}
Cell == Short \cup {<<c, d>> : c, d \in Char}
\* Two rows of two cells under a heading, one of the cells up to two characters long.
Sheets == {<<"csv", <<<<a, b>>, <<c, d>>>>, newline>> :
              a \in Cell, b, c, d \in Short, newline \in {<<"LF">>, <<"CR", "LF">>}}
\* What a heading can match: one tier of one or both fields, or two tiers.
Hit == {[exact |-> e, alias |-> a, fuzzy |-> f] : e, a, f \in SUBSET {"email", "name"}}
Heading == {h \in Hit : Cardinality(h.exact) <= 1 /\ h.exact \subseteq h.fuzzy /\ h.alias \subseteq h.fuzzy}
Headings == {<<"headings", <<a, b, c>>>> : a, b, c \in Heading}
\* Full names of up to four characters, alone or beside a first or last name that
\* is too long, empty or good; dates at the ends of months and centuries.
Part == {Blank, <<>>, <<"b", "space", "space", "b">>, <<"b", "b", "b", "b">>}
Names == {<<"names", [full |-> n, first |-> f, last |-> l]>> :
             n \in {Blank} \cup UNION {[1..k -> {"a", "b", "space", "comma"}] : k \in 0..4}, f, l \in Part}
Person == [full |-> [required |-> FALSE, max |-> 4], first |-> [required |-> TRUE, max |-> 3],
           last |-> [required |-> FALSE, max |-> 3]]
Year == {0, 69, 70, 99, 1899, 1900, 1999, 2000, 2024, 2026, 2100, 2200, 2201}
DayOrMonth == {0, 1, 2, 4, 11, 12, 13, 28, 29, 30, 31, 32}
Dates == {<<"dates", "iso", <<c, m, d>>>> : c \in Year, m, d \in DayOrMonth}
         \cup {<<"dates", shape, <<a, b, c>>>> : shape \in {"named", "numeric"}, a, b \in DayOrMonth, c \in Year}
\* Lists of addresses, good and bad, of which two may be suppressed, and what the
\* resolver says of the two domains mail can go to; none or some of them are looked up.
At(local, tag, labels) == [local |-> local, tag |-> tag, domain |-> labels]
Gmail == <<"gmail", "com">>
Shop == <<"x", "org">>
Email == {Blank, At("a", Blank, Gmail), At("b", Blank, Gmail), At("a", Blank, Shop), At("test", "1", Shop),
          At("a", Blank, <<"gmaill", "con">>), At("a", Blank, <<"mail", "example", "com">>)}
Suppressed == {[email |-> At("a", Blank, Gmail), org |-> Blank], [email |-> At("a", Blank, Shop), org |-> "mine"],
               [email |-> At("b", Blank, Gmail), org |-> "other"]}
Lists == {<<"addresses", <<c, d, e>>, s, max, answer>> :
             c, d, e \in Email, s \in SUBSET Suppressed, max \in 0..2,
             answer \in [{Gmail, Shop} -> {"found", "none", "late"}]}

Init ==
    /\ \/ focus \in {"files", "imports"} /\ sample = <<"none">>
       \/ focus = "samples" /\ sample \in Sheets \cup Headings \cup Names \cup Dates \cup Lists
    /\ F!Init /\ I!Init
    /\ (focus # "imports" => unique) /\ (focus # "files" => r2)

Next ==
    \/ focus = "files" /\ F!Next /\ UNCHANGED <<focus, sample, importVars>>
    \/ focus = "imports" /\ I!Next /\ UNCHANGED <<focus, sample, fileVars>>

Spec == Init /\ [][Next]_vars

-----------------------------------------------------------------------------
\* A row of uploaded_files always has the bytes and the type that were checked, no
\* bytes outlive their row while nothing fails, and unreviewed or replaced bytes
\* reach nobody but their uploader and a reviewer (Files).
FilesHold == F!RowsKeepTheirBytes /\ F!NothingLeftBehind /\ F!StrangersSeeReviewedBytes
\* A session's status says whether its file was imported, once, and importing a
\* file again updates what it made (Imports).
ImportsHold == I!StatusTellsTheTruth /\ I!ReimportUpdates

\* A sheet is read back as it was written, whatever quotes, separators and
\* newlines its cells hold (parseCsv with shapeGrid); a row keeps what it was given,
\* loses nothing in silence and is accepted only when it is whole (normalizeRow with
\* splitFullName); a date is a day of the calendar and stays it (normalizeDate); and
\* an address is refused for what is wrong with it (screenAddresses).
SheetsReadBack ==
    /\ sample[1] = "csv" => I!ReadsBack(<<<<"a">>>>, <<<<"a">>, <<"a">>>>, sample[2], sample[3])
    /\ sample[1] = "names" => I!RowIsHonest(Person, sample[2])
    /\ sample[1] = "dates" => I!DateStands(sample[2], sample[3])
    /\ sample[1] = "addresses" => I!ScreensFairly(sample[2], "mine", sample[3], sample[4], sample[5])

\* A proposed mapping gives no field to two columns, leaves every column it
\* calls ambiguous open, and takes a heading that alone names a field (proposeMapping).
ProposalIsSound == sample[1] = "headings" => I!Sound(sample[2], I!ProposeMapping(sample[2]))

-----------------------------------------------------------------------------
(* Uploaded files, for any users, organizations, files and requests.         *)

Types == {"pdf", "png", Nothing}
Handlers == [step : {"put", "describe", "stored", "drop", "erase", "forget"}, key : F!Key, user : User,
             body : Body \cup {Nothing}, type : Types]
Links == [method : {"GET", "PUT"}, key : F!Key, user : User, type : Types]
FilesTyped ==
    /\ F!TypeOK /\ F!IsABag(requests) /\ DOMAIN requests \subseteq Handlers
    /\ links \subseteq Links /\ served \subseteq User \X F!Key \X Body

Managed(key, n) == key.space = "uploads" /\ key.name = n
\* Why user u may have read file n: what CanRead asked of it when its link was given,
\* as long as there is a row to compare with.
Seen(u, n) == u \in Reviewer \/ n \in approved \/ rows[n].by \in {u, Nothing}

\* An upload that is being stored is alone: no row, no other request, no link and no
\* reader knows its key yet.
Alone(h) ==
    LET n == h.key.name IN
    /\ rows[n] = F!NoRow /\ requests[h] = 1
    /\ \A g \in DOMAIN requests : Managed(g.key, n) => g = h
    /\ \A l \in links : ~ Managed(l.key, n)
    /\ \A s \in served : s[2].name # n

\* What each step of a request for a managed upload knows of its object and its row.
HandlerOK(h) ==
    LET n == h.key.name IN
    /\ h.step = "drop" => h.key.space = "uploads"
    /\ h.key.space = "uploads" =>
        /\ uploaded[n] # Nothing
        /\ h.step \in {"put", "describe", "stored"} =>
               Alone(h) /\ h.body = uploaded[n] /\ h.key.org = OrgOf[h.user]
        /\ h.step \in {"describe", "stored"} => objects[h.key] = h.body
        /\ h.step = "stored" => types[h.key] = h.type
        /\ h.step \in {"erase", "forget"} => rows[n] = F!NoRow
        /\ h.step = "forget" => objects[h.key] = Nothing
        /\ rows[n] # F!NoRow => h.key.org = rows[n].org

\* A row's object is its upload's, and an approved file is on record as such.
FileOK(n) ==
    rows[n] # F!NoRow =>
        LET k == F!ManagedUploadKey(rows[n].org, n) IN
        /\ rows[n].org \in Org /\ rows[n].by \in User
        /\ uploaded[n] # Nothing /\ objects[k] = uploaded[n] /\ types[k] = rows[n].type
        /\ rows[n].status = "approved" => n \in approved

\* A managed key holds its upload or nothing, and without a fault something only
\* while a row or a request answers for it.
ObjectOK(k) ==
    k.space = "uploads" =>
        /\ objects[k] \in {Nothing, uploaded[k.name]}
        /\ fileFaults = 0 => \/ objects[k] = Nothing /\ types[k] = Nothing
                             \/ rows[k.name].org = k.org
                             \/ \E h \in DOMAIN requests : h.key = k /\ h.step # "drop"

\* A link to a managed upload was given to somebody who might read it.
LinkOK(l) ==
    /\ l.method = "PUT" => l.key.space = "org"
    /\ l.key.space = "uploads" =>
          uploaded[l.key.name] # Nothing /\ l.key.org = OrgOf[l.user] /\ Seen(l.user, l.key.name)
ReaderOK(s) ==
    /\ s[2].space = "uploads" /\ s[3] = uploaded[s[2].name]
    /\ s[2].org = OrgOf[s[1]] /\ Seen(s[1], s[2].name)

FilesInv ==
    /\ FilesTyped
    /\ \A h \in DOMAIN requests : HandlerOK(h)
    /\ \A n \in Name : FileOK(n)
    /\ \A k \in F!Key : ObjectOK(k)
    /\ \A l \in links : LinkOK(l)
    /\ \A s \in served : ReaderOK(s)

\* A request that comes leaves those under way as they are.
LEMMA FileBegins ==
    ASSUME F!IsABag(requests), NEW h, F!Begin(h)
    PROVE  /\ F!IsABag(requests') /\ DOMAIN requests' = DOMAIN requests \cup {h}
           /\ \A g \in DOMAIN requests \ {h} : requests'[g] = requests[g]
           /\ h \notin DOMAIN requests => requests'[h] = 1
  BY DEF F!IsABag, F!Begin, F!SetToBag, F!\oplus

\* A request that ends is gone, unless another like it is under way.
LEMMA FileEnds ==
    ASSUME F!IsABag(requests), NEW h \in DOMAIN requests, F!End(h)
    PROVE  /\ F!IsABag(requests') /\ DOMAIN requests' \subseteq DOMAIN requests
           /\ DOMAIN requests \ {h} \subseteq DOMAIN requests'
           /\ \A g \in DOMAIN requests' \ {h} : requests'[g] = requests[g]
           /\ requests[h] = 1 => h \notin DOMAIN requests'
  BY DEF F!IsABag, F!End, F!SetToBag, F!\ominus

\* A request that goes on is at its next step, and the others stay at theirs.
LEMMA FileGoesOn ==
    ASSUME F!IsABag(requests), NEW h \in DOMAIN requests, NEW step, NEW s,
           s = [h EXCEPT !.step = step], s # h, F!GoOn(h, step)
    PROVE  /\ F!IsABag(requests') /\ DOMAIN requests' \subseteq DOMAIN requests \cup {s}
           /\ (DOMAIN requests \ {h}) \cup {s} \subseteq DOMAIN requests'
           /\ \A g \in DOMAIN requests' \ {h, s} : requests'[g] = requests[g]
           /\ requests[h] = 1 => h \notin DOMAIN requests'
           /\ s \notin DOMAIN requests => requests'[s] = 1
<1> DEFINE B == F!\ominus(requests, F!SetToBag({h}))
<1>1. /\ F!IsABag(B) /\ DOMAIN B \subseteq DOMAIN requests /\ DOMAIN requests \ {h} \subseteq DOMAIN B
      /\ \A g \in DOMAIN B \ {h} : B[g] = requests[g]
      /\ requests[h] = 1 => h \notin DOMAIN B
  BY DEF F!IsABag, F!SetToBag, F!\ominus
<1>2. requests' = F!\oplus(B, F!SetToBag({s}))
  BY DEF F!GoOn
<1> HIDE DEF B
<1>3. /\ F!IsABag(requests') /\ DOMAIN requests' = DOMAIN B \cup {s}
      /\ \A g \in DOMAIN B \ {s} : requests'[g] = B[g]
      /\ s \notin DOMAIN B => requests'[s] = 1
  BY <1>1, <1>2 DEF F!IsABag, F!SetToBag, F!\oplus
<1> QED BY <1>1, <1>3

\* An upload starts under a key nobody knows.
LEMMA UploadStarts ==
    ASSUME FilesInv, NEW u \in User, NEW n \in Name, NEW b \in Body, NEW e, NEW t, F!Upload(u, n, b, e, t)
    PROVE  FilesInv'
<1> DEFINE h == F!Handler("put", F!ManagedUploadKey(OrgOf[u], n), u, b, e)
<1> USE FilesAssumption DEF FilesInv
<1>1. /\ h \in Handlers /\ h.step = "put" /\ h.key.name = n /\ h.key.space = "uploads" /\ h.key.org = OrgOf[u]
      /\ h.body = b /\ h.user = u
  BY DEF F!Handler, F!ManagedUploadKey, F!Upload, F!AssertAllowedUpload, Handlers, F!Key, Types
<1>2. /\ uploaded[n] = Nothing /\ uploaded' = [uploaded EXCEPT ![n] = b] /\ uploaded \in [Name -> Body \cup {Nothing}]
      /\ F!Begin(h)
      /\ UNCHANGED <<r2, objects, types, rows, links, approved, served, fileFaults>>
  BY DEF F!Upload, FilesTyped, F!TypeOK
<1>3. /\ rows[n] = F!NoRow
      /\ \A g \in DOMAIN requests : ~ Managed(g.key, n)
      /\ \A l \in links : ~ Managed(l.key, n)
      /\ \A s \in served : s[2].name # n
  BY <1>2 DEF FileOK, HandlerOK, LinkOK, ReaderOK, FilesTyped, Managed
<1>4. h \notin DOMAIN requests
  BY <1>1, <1>3 DEF Managed
<1> HIDE DEF h
<1>5. /\ F!IsABag(requests') /\ DOMAIN requests' = DOMAIN requests \cup {h}
      /\ \A g \in DOMAIN requests : requests'[g] = requests[g]
      /\ requests'[h] = 1
  BY <1>2, <1>4, FileBegins DEF FilesTyped
<1>6. FilesTyped'
  BY <1>1, <1>2, <1>5 DEF FilesTyped, F!TypeOK
<1>7. \A g \in DOMAIN requests' : HandlerOK(g)'
  <2>1. HandlerOK(h)'
    BY <1>1, <1>2, <1>3, <1>5 DEF HandlerOK, Alone, Managed
  <2>2. ASSUME NEW g \in DOMAIN requests PROVE HandlerOK(g)'
    <3>1. g.key.space = "uploads" => g.key.name # n
      BY <1>3 DEF Managed
    <3>2. Alone(g) /\ g.key.space = "uploads" => Alone(g)'
      BY <1>1, <1>2, <1>5, <3>1 DEF Alone, Managed
    <3> QED BY <1>2, <3>1, <3>2 DEF HandlerOK
  <2> QED BY <1>5, <2>1, <2>2
<1>8. \A m \in Name : FileOK(m)'
  BY <1>2, <1>3 DEF FileOK
<1>9. \A k \in F!Key : ObjectOK(k)'
  BY <1>2, <1>5 DEF ObjectOK, F!Key
<1>10. \A l \in links' : LinkOK(l)'
  BY <1>2, <1>3 DEF LinkOK, Seen, Managed
<1>11. \A s \in served' : ReaderOK(s)'
  BY <1>2, <1>3 DEF ReaderOK, Seen
<1> QED BY <1>6, <1>7, <1>8, <1>9, <1>10, <1>11

\* A request that writes under a raw key, or means to delete a file it has read.
LEMMA RequestStarts ==
    ASSUME FilesInv, NEW h \in Handlers, F!Begin(h),
           UNCHANGED <<r2, objects, types, rows, links, uploaded, approved, served, fileFaults>>,
           \/ h.key.space = "org" /\ h.step # "drop"
           \/ h.step = "drop" /\ \E n \in Name : rows[n] # F!NoRow /\ h.key = F!ManagedUploadKey(rows[n].org, n)
    PROVE  FilesInv'
<1> USE DEF FilesInv
<1>1. /\ F!IsABag(requests') /\ DOMAIN requests' = DOMAIN requests \cup {h}
      /\ \A g \in DOMAIN requests \ {h} : requests'[g] = requests[g]
  BY FileBegins DEF FilesTyped
<1>2. FilesTyped'
  BY <1>1 DEF FilesTyped, F!TypeOK
<1>a. \/ h.key.space = "org" /\ h.step # "drop"
      \/ /\ h.step = "drop" /\ h.key.space = "uploads" /\ h.key.org = rows[h.key.name].org
         /\ rows[h.key.name] # F!NoRow /\ uploaded[h.key.name] # Nothing
  <2>1. CASE h.key.space = "org" /\ h.step # "drop"
    BY <2>1
  <2>2. ASSUME h.step = "drop", NEW n \in Name, rows[n] # F!NoRow, h.key = F!ManagedUploadKey(rows[n].org, n)
        PROVE  h.key.space = "uploads" /\ h.key.name = n /\ h.key.org = rows[n].org /\ uploaded[n] # Nothing
    <3>1. FileOK(n)
      OBVIOUS
    <3>2. h.key.space = "uploads" /\ h.key.name = n /\ h.key.org = rows[n].org
      BY <2>2 DEF F!ManagedUploadKey
    <3> QED BY <2>2, <3>1, <3>2 DEF FileOK
  <2> QED BY <2>1, <2>2
<1>3. HandlerOK(h)'
  BY <1>a DEF HandlerOK
<1>4. ASSUME NEW g \in DOMAIN requests, g # h PROVE HandlerOK(g)'
  <2>1. g.key.space = "uploads" /\ Alone(g) => Alone(g)'
    <3>1. Alone(g) => ~ Managed(h.key, g.key.name)
      BY <1>a DEF Alone, Managed
    <3> QED BY <1>1, <1>4, <3>1 DEF Alone
  <2> QED BY <2>1, <1>4 DEF HandlerOK
<1>5. \A n \in Name : FileOK(n)'
  BY DEF FileOK
<1>6. \A k \in F!Key : ObjectOK(k)'
  BY <1>1 DEF ObjectOK
<1>7. \A l \in links' : LinkOK(l)'
  BY DEF LinkOK, Seen
<1>8. \A s \in served' : ReaderOK(s)'
  BY DEF ReaderOK, Seen
<1> QED BY <1>1, <1>2, <1>3, <1>4, <1>5, <1>6, <1>7, <1>8

\* A request's step is nothing to the other requests: a managed upload that is being
\* stored is alone, and those that delete agree.
LEMMA OthersKept ==
    ASSUME FilesInv, NEW h \in DOMAIN requests, NEW s \in Handlers, s.key = h.key,
           DOMAIN requests' \subseteq DOMAIN requests \cup {s},
           \A g \in DOMAIN requests' \ {h, s} : requests'[g] = requests[g],
           UNCHANGED <<links, uploaded, served>>,
           \A k \in F!Key \ {h.key} : objects'[k] = objects[k] /\ types'[k] = types[k],
           \A n \in Name : Managed(h.key, n) \/ rows'[n] = rows[n],
           h.key.space = "uploads" =>
               \/ h.step \in {"put", "describe", "stored"}
               \/ /\ rows'[h.key.name] \in {rows[h.key.name], F!NoRow}
                  /\ objects'[h.key] \in {objects[h.key], Nothing},
           NEW g \in DOMAIN requests' \ {h, s}
    PROVE  HandlerOK(g)'
<1> USE DEF FilesInv
<1>1. g \in DOMAIN requests /\ HandlerOK(g) /\ g.key \in F!Key /\ g.key.name \in Name /\ g \in Handlers
  BY DEF FilesTyped, Handlers, F!Key
<1>2. CASE g.key.space # "uploads"
  BY <1>1, <1>2 DEF HandlerOK
<1>3. CASE g.key.space = "uploads" /\ ~ Managed(h.key, g.key.name)
  <2>1. g.key # h.key /\ rows'[g.key.name] = rows[g.key.name]
    BY <1>1, <1>3 DEF Managed
  <2>2. Alone(g) => Alone(g)'
    BY <1>1, <1>3, <2>1 DEF Alone, Managed
  <2> QED BY <1>1, <2>1, <2>2 DEF HandlerOK
<1>4. CASE g.key.space = "uploads" /\ Managed(h.key, g.key.name)
  <2>1. g.step \in {"drop", "erase", "forget"} /\ h.step \in {"drop", "erase", "forget"}
    <3>1. HandlerOK(h) /\ h \in Handlers
      BY DEF FilesTyped
    <3>2. g.step \in {"put", "describe", "stored", "drop", "erase", "forget"}
          /\ h.step \in {"put", "describe", "stored", "drop", "erase", "forget"}
      BY <1>1, <3>1 DEF Handlers
    <3> QED BY <1>1, <1>4, <3>1, <3>2 DEF HandlerOK, Alone, Managed
  <2>2. rows'[g.key.name] \in {rows[g.key.name], F!NoRow}
    BY <1>4, <2>1 DEF Managed
  <2>3. objects'[g.key] \in {objects[g.key], Nothing}
    BY <1>1, <1>4, <2>1 DEF Managed
  <2> QED BY <1>1, <2>1, <2>2, <2>3 DEF HandlerOK
<1> QED BY <1>2, <1>3, <1>4

\* What is left of the invariant when a step writes no row and, of managed objects,
\* at most its own, with what its upload brought or nothing.
LEMMA RowsRest ==
    ASSUME FilesInv, NEW h \in DOMAIN requests,
           UNCHANGED <<rows, links, uploaded, approved, served>>,
           \A k \in F!Key \ {h.key} : objects'[k] = objects[k] /\ types'[k] = types[k],
           h.key.space = "uploads" =>
               \/ rows[h.key.name] = F!NoRow
               \/ objects'[h.key] = objects[h.key] /\ types'[h.key] = types[h.key]
    PROVE  /\ \A n \in Name : FileOK(n)'
           /\ \A l \in links' : LinkOK(l)'
           /\ \A s \in served' : ReaderOK(s)'
<1> USE DEF FilesInv
<1>1. ASSUME NEW n \in Name PROVE FileOK(n)'
  <2> DEFINE k == F!ManagedUploadKey(rows[n].org, n)
  <2>1. FileOK(n)
    OBVIOUS
  <2> SUFFICES ASSUME rows[n] # F!NoRow
               PROVE  objects'[k] = objects[k] /\ types'[k] = types[k]
    BY <2>1 DEF FileOK
  <2>2. k \in F!Key /\ k.space = "uploads" /\ k.name = n
    BY <2>1 DEF FileOK, F!ManagedUploadKey, F!Key
  <2> HIDE DEF k
  <2>3. CASE k = h.key
    BY <2>2, <2>3
  <2> QED BY <2>2, <2>3
<1>2. \A l \in links' : LinkOK(l)'
  BY DEF LinkOK, Seen
<1>3. \A s \in served' : ReaderOK(s)'
  BY DEF ReaderOK, Seen
<1> QED BY <1>1, <1>2, <1>3

\* A request goes on to a next step, and an upload that is being stored stays alone.
LEMMA StaysAlone ==
    ASSUME FilesInv, NEW h \in DOMAIN requests, NEW step \in {"put", "describe", "stored", "drop", "erase", "forget"},
           F!GoOn(h, step), step # h.step, NEW s, s = [h EXCEPT !.step = step]
    PROVE  /\ s \in Handlers /\ s.step = step /\ s.key = h.key /\ s.body = h.body /\ s.type = h.type /\ s.user = h.user
           /\ F!IsABag(requests') /\ DOMAIN requests' \subseteq DOMAIN requests \cup {s}
           /\ (DOMAIN requests \ {h}) \cup {s} \subseteq DOMAIN requests'
           /\ \A g \in DOMAIN requests' \ {h, s} : requests'[g] = requests[g]
           /\ h.key.space = "uploads" /\ Alone(h) =>
                  h \notin DOMAIN requests' /\ requests'[s] = 1 /\ s \notin DOMAIN requests
<1>1. h \in Handlers /\ F!IsABag(requests)
  BY DEF FilesInv, FilesTyped
<1>2. /\ s \in Handlers /\ s.step = step /\ s.key = h.key /\ s.body = h.body /\ s.type = h.type /\ s.user = h.user
      /\ s # h
  BY <1>1 DEF Handlers
<1>3. h.key.space = "uploads" /\ Alone(h) => s \notin DOMAIN requests /\ requests[h] = 1
  BY <1>2 DEF Alone, Managed
<1>4. /\ F!IsABag(requests') /\ DOMAIN requests' \subseteq DOMAIN requests \cup {s}
      /\ (DOMAIN requests \ {h}) \cup {s} \subseteq DOMAIN requests'
      /\ \A g \in DOMAIN requests' \ {h, s} : requests'[g] = requests[g]
      /\ requests[h] = 1 => h \notin DOMAIN requests'
      /\ s \notin DOMAIN requests => requests'[s] = 1
  BY <1>1, <1>2, FileGoesOn
<1> QED BY <1>2, <1>3, <1>4

\* putObject, and the second file of the local driver.
LEMMA ObjectIsStored ==
    ASSUME FilesInv, NEW h \in DOMAIN requests, F!PutObject(h) \/ F!WriteMeta(h)
    PROVE  FilesInv'
<1>0. PICK step \in {"describe", "stored"} :
         /\ F!GoOn(h, step) /\ step # h.step /\ h.step \in {"put", "describe"}
         /\ step = "stored" <=> r2 \/ h.step = "describe"
  BY DEF F!PutObject, F!WriteMeta
<1>1. /\ h.step \in {"put", "describe"} /\ step # h.step /\ F!GoOn(h, step)
      /\ UNCHANGED <<r2, rows, links, uploaded, approved, served, fileFaults>>
  BY <1>0 DEF F!PutObject, F!WriteMeta, F!Quiet
<1>s. PICK s : s = [h EXCEPT !.step = step]
  OBVIOUS
<1>2. h \in Handlers /\ HandlerOK(h) /\ FilesTyped
  BY DEF FilesInv, FilesTyped
<1>3. /\ s \in Handlers /\ s.step = step /\ s.key = h.key /\ s.body = h.body /\ s.type = h.type /\ s.user = h.user
      /\ F!IsABag(requests') /\ DOMAIN requests' \subseteq DOMAIN requests \cup {s}
      /\ (DOMAIN requests \ {h}) \cup {s} \subseteq DOMAIN requests'
      /\ \A g \in DOMAIN requests' \ {h, s} : requests'[g] = requests[g]
      /\ h.key.space = "uploads" /\ Alone(h) =>
             h \notin DOMAIN requests' /\ requests'[s] = 1 /\ s \notin DOMAIN requests
  BY <1>1, <1>s, StaysAlone
<1>4. /\ h.key \in F!Key /\ h.body \in Body \cup {Nothing} /\ h.type \in Types
      /\ objects' \in [F!Key -> Body \cup {Nothing}] /\ types' \in [F!Key -> Types]
      /\ \A k \in F!Key \ {h.key} : objects'[k] = objects[k] /\ types'[k] = types[k]
      /\ h.step = "put" => objects'[h.key] = h.body
      /\ h.step = "describe" => objects' = objects
      /\ step = "stored" => types'[h.key] = h.type
  BY <1>0, <1>2 DEF F!PutObject, F!WriteMeta, FilesTyped, F!TypeOK, Handlers, Types
<1>5. h.key.space = "uploads" =>
         /\ Alone(h) /\ h.body = uploaded[h.key.name] /\ h.body # Nothing
         /\ h.key.org = OrgOf[h.user] /\ objects'[h.key] = h.body /\ rows[h.key.name] = F!NoRow
  BY <1>1, <1>2, <1>4 DEF HandlerOK, Alone
<1>6. h.step \in {"put", "describe", "stored"} /\ s.step \in {"describe", "stored"} /\ h.step # s.step
      /\ (s.step = "stored" => types'[h.key] = s.type)
  BY <1>0, <1>1, <1>3, <1>4
<1>7. FilesTyped'
  BY <1>1, <1>2, <1>3, <1>4 DEF FilesTyped, F!TypeOK, Types
<1>8. \A g \in DOMAIN requests' : HandlerOK(g)'
  <2>1. HandlerOK(s)'
    <3>1. ASSUME h.key.space = "uploads" PROVE Alone(s)'
      <4>1. Alone(h) /\ h \notin DOMAIN requests' /\ requests'[s] = 1
        BY <1>3, <1>5, <3>1
      <4>2. \A g \in DOMAIN requests' : Managed(g.key, h.key.name) => g = s
        BY <1>3, <4>1 DEF Alone
      <4> QED BY <1>1, <1>3, <4>1, <4>2 DEF Alone, Managed
    <3> QED BY <1>1, <1>3, <1>5, <1>6, <3>1 DEF HandlerOK
  <2>2. ASSUME NEW g \in DOMAIN requests', g = h, g # s PROVE HandlerOK(g)'
    <3>1. h.key.space # "uploads"
      BY <1>3, <1>5, <2>2
    <3> QED BY <1>6, <2>2, <3>1 DEF HandlerOK
  <2>3. ASSUME NEW g \in DOMAIN requests', g \notin {h, s} PROVE HandlerOK(g)'
    BY <1>1, <1>3, <1>4, <1>6, <2>3, OthersKept
  <2> QED BY <2>1, <2>2, <2>3
<1>9. /\ \A n \in Name : FileOK(n)'
      /\ \A l \in links' : LinkOK(l)'
      /\ \A x \in served' : ReaderOK(x)'
  BY <1>1, <1>4, <1>5, RowsRest DEF Alone
<1>10. ASSUME NEW k \in F!Key PROVE ObjectOK(k)'
  <2>1. ObjectOK(k)
    BY DEF FilesInv
  <2>2. CASE k = h.key
    BY <1>1, <1>3, <1>5, <1>6, <2>1, <2>2 DEF ObjectOK
  <2>3. CASE k # h.key
    <3>1. objects'[k] = objects[k] /\ types'[k] = types[k]
      BY <1>4, <2>3
    <3>2. ASSUME NEW g \in DOMAIN requests, g.key = k PROVE g \in DOMAIN requests'
      BY <1>3, <2>3, <3>2
    <3> QED BY <1>1, <2>1, <3>1, <3>2 DEF ObjectOK
  <2> QED BY <2>2, <2>3
<1> QED BY <1>7, <1>8, <1>9, <1>10 DEF FilesInv

\* A request is over: its object is gone, or is left to a row, or there was a fault,
\* or nobody has to answer for it.
LEMMA RequestEnds ==
    ASSUME FilesInv, NEW h \in DOMAIN requests, F!End(h),
           UNCHANGED <<r2, rows, links, uploaded, approved, served>>,
           fileFaults' \in 0 .. MaxFileFaults, fileFaults' \in {fileFaults, fileFaults + 1},
           objects' \in [F!Key -> Body \cup {Nothing}], types' \in [F!Key -> Types],
           \A k \in F!Key \ {h.key} : objects'[k] = objects[k] /\ types'[k] = types[k],
           \/ /\ UNCHANGED <<objects, types>>
              /\ fileFaults' # 0 \/ h.step = "drop" \/ h.key.space = "org"
           \/ /\ h.step \in {"erase", "forget"} /\ types'[h.key] = Nothing
              /\ objects'[h.key] = Nothing \/ h.key.space = "org"
    PROVE  FilesInv'
<1>1. h \in Handlers /\ HandlerOK(h) /\ FilesTyped
  BY DEF FilesInv, FilesTyped
<1>2. /\ F!IsABag(requests') /\ DOMAIN requests' \subseteq DOMAIN requests
      /\ DOMAIN requests \ {h} \subseteq DOMAIN requests'
      /\ \A g \in DOMAIN requests' \ {h} : requests'[g] = requests[g]
      /\ requests[h] = 1 => h \notin DOMAIN requests'
  BY <1>1, FileEnds DEF FilesTyped
<1>3. FilesTyped'
  BY <1>1, <1>2 DEF FilesTyped, F!TypeOK, Types
<1>4. \A g \in DOMAIN requests' : HandlerOK(g)'
  <2>1. ASSUME NEW g \in DOMAIN requests', g # h PROVE HandlerOK(g)'
    BY <1>1, <1>2, <2>1, OthersKept DEF HandlerOK
  <2>2. ASSUME h \in DOMAIN requests' PROVE HandlerOK(h)'
    <3>1. h.key.space = "uploads" => h.step \notin {"put", "describe", "stored"}
      BY <1>1, <1>2, <2>2 DEF HandlerOK, Alone
    <3> QED BY <1>1, <3>1 DEF HandlerOK
  <2> QED BY <2>1, <2>2
<1>5. h.key.space = "uploads" =>
         rows[h.key.name] = F!NoRow \/ (objects'[h.key] = objects[h.key] /\ types'[h.key] = types[h.key])
  BY <1>1 DEF HandlerOK
<1>6. /\ \A n \in Name : FileOK(n)'
      /\ \A l \in links' : LinkOK(l)'
      /\ \A x \in served' : ReaderOK(x)'
  BY <1>5, RowsRest
<1>7. ASSUME NEW k \in F!Key PROVE ObjectOK(k)'
  <2>1. ObjectOK(k)
    BY DEF FilesInv
  <2>2. CASE fileFaults' # 0
    BY <2>1, <2>2 DEF ObjectOK
  <2>3. CASE k # h.key \/ h.step = "drop"
    <3>1. objects'[k] = objects[k] /\ types'[k] = types[k]
      BY <1>1, <2>3
    <3>2. ASSUME NEW g \in DOMAIN requests, g.key = k, g.step # "drop" PROVE g \in DOMAIN requests'
      BY <1>2, <2>3, <3>2
    <3>3. fileFaults \in Nat /\ (fileFaults' # 0 \/ fileFaults = 0)
      BY <1>1 DEF FilesTyped, F!TypeOK
    <3> QED BY <2>1, <3>1, <3>2, <3>3 DEF ObjectOK
  <2>4. CASE k = h.key /\ objects'[h.key] = Nothing /\ types'[h.key] = Nothing
    BY <2>4 DEF ObjectOK
  <2>5. CASE k = h.key /\ h.key.space = "org"
    BY <2>5 DEF ObjectOK
  <2> QED BY <2>2, <2>3, <2>4, <2>5
<1> QED BY <1>3, <1>4, <1>6, <1>7 DEF FilesInv

\* A request goes on to erase an object that no row points at any more, or its type.
LEMMA RequestErases ==
    ASSUME FilesInv, NEW h \in DOMAIN requests, NEW step \in {"erase", "forget"}, F!GoOn(h, step),
           h.step \in {"stored", "drop", "erase"}, step # h.step, h.step = "stored" => h.key.space = "uploads",
           UNCHANGED <<r2, types, links, uploaded, approved, served, fileFaults>>,
           h.key.space = "uploads" => rows'[h.key.name] = F!NoRow,
           rows' = rows \/ (h.step = "drop" /\ rows' = [rows EXCEPT ![h.key.name] = F!NoRow]),
           \/ step = "erase" /\ objects' = objects
           \/ step = "forget" /\ objects' = [objects EXCEPT ![h.key] = Nothing]
    PROVE  FilesInv'
<1>s. PICK s : s = [h EXCEPT !.step = step]
  OBVIOUS
<1>1. h \in Handlers /\ HandlerOK(h) /\ FilesTyped
  BY DEF FilesInv, FilesTyped
<1>2. /\ s \in Handlers /\ s.step = step /\ s.key = h.key /\ s.body = h.body /\ s.type = h.type /\ s.user = h.user
      /\ F!IsABag(requests') /\ DOMAIN requests' \subseteq DOMAIN requests \cup {s}
      /\ (DOMAIN requests \ {h}) \cup {s} \subseteq DOMAIN requests'
      /\ \A g \in DOMAIN requests' \ {h, s} : requests'[g] = requests[g]
      /\ h.key.space = "uploads" /\ Alone(h) => h \notin DOMAIN requests'
  BY <1>s, StaysAlone
<1>3. h.key \in F!Key /\ h.key.space \in {"uploads", "org"} /\ h.key.name \in Name /\ h.key.org \in Org
  BY <1>1 DEF Handlers, F!Key
<1>4. /\ \A n \in Name : n # h.key.name => rows'[n] = rows[n]
      /\ rows'[h.key.name] \in {rows[h.key.name], F!NoRow}
      /\ h.key.space # "uploads" => rows' = rows
  BY <1>1, <1>3 DEF HandlerOK, FilesTyped, F!TypeOK
<1>5. /\ \A k \in F!Key \ {h.key} : objects'[k] = objects[k]
      /\ objects'[h.key] \in {objects[h.key], Nothing}
      /\ step = "forget" => objects'[h.key] = Nothing
  BY <1>1, <1>3 DEF FilesTyped, F!TypeOK
<1>6. FilesTyped'
  <2>1. F!NoRow \in [org : Org \cup {Nothing}, by : User \cup {Nothing},
                     status : {"none", "pending_review", "approved", "rejected"}, type : {"pdf", "png", Nothing}]
    BY DEF F!NoRow
  <2> QED BY <1>1, <1>2, <1>3, <2>1 DEF FilesTyped, F!TypeOK
<1>7. \A g \in DOMAIN requests' : HandlerOK(g)'
  <2>1. HandlerOK(s)'
    BY <1>1, <1>2, <1>3, <1>5 DEF HandlerOK
  <2>2. ASSUME h \in DOMAIN requests' PROVE HandlerOK(h)'
    <3>1. h.key.space = "uploads" => h.step \in {"drop", "erase"}
      BY <1>1, <1>2, <2>2 DEF HandlerOK
    <3> QED BY <1>1, <3>1 DEF HandlerOK
  <2>3. ASSUME NEW g \in DOMAIN requests', g \notin {h, s} PROVE HandlerOK(g)'
    <3>1. \A n \in Name : Managed(h.key, n) \/ rows'[n] = rows[n]
      BY <1>3, <1>4 DEF Managed
    <3>2. h.key.space = "uploads" =>
             \/ h.step \in {"put", "describe", "stored"}
             \/ /\ rows'[h.key.name] \in {rows[h.key.name], F!NoRow}
                /\ objects'[h.key] \in {objects[h.key], Nothing}
      BY <1>4, <1>5
    <3> QED BY <1>2, <1>5, <2>3, <3>1, <3>2, OthersKept
  <2> QED BY <2>1, <2>2, <2>3
<1>8. ASSUME NEW n \in Name PROVE FileOK(n)'
  <2>1. FileOK(n)
    BY DEF FilesInv
  <2>2. CASE n = h.key.name /\ h.key.space = "uploads"
    BY <2>2 DEF FileOK
  <2>3. CASE ~ (n = h.key.name /\ h.key.space = "uploads")
    <3> DEFINE k == F!ManagedUploadKey(rows[n].org, n)
    <3>1. rows'[n] = rows[n]
      BY <1>4, <2>3
    <3>2. rows[n] # F!NoRow => k \in F!Key /\ k # h.key
      BY <2>1, <2>3 DEF FileOK, F!ManagedUploadKey, F!Key
    <3>3. rows[n] # F!NoRow => objects'[k] = objects[k]
      BY <1>5, <3>2
    <3> QED BY <2>1, <3>1, <3>3 DEF FileOK
  <2> QED BY <2>2, <2>3
<1>9. ASSUME NEW k \in F!Key PROVE ObjectOK(k)'
  <2>1. ObjectOK(k)
    BY DEF FilesInv
  <2>2. CASE k = h.key
    BY <1>2, <1>5, <2>1, <2>2 DEF ObjectOK
  <2>3. CASE k # h.key
    <3>1. rows[k.name].org = k.org /\ k.space = "uploads" => rows'[k.name].org = k.org
      <4> SUFFICES ASSUME rows[k.name].org = k.org, k.space = "uploads", k.name = h.key.name, h.key.space = "uploads"
                   PROVE  rows'[k.name] = rows[k.name]
        BY <1>4 DEF F!Key
      <4>1. rows[k.name] # F!NoRow => k = h.key
        BY <1>1, <1>3 DEF HandlerOK, F!Key
      <4> QED BY <1>4, <2>3, <4>1
    <3>2. ASSUME NEW g \in DOMAIN requests, g.key = k PROVE g \in DOMAIN requests'
      BY <1>2, <2>3, <3>2
    <3> QED BY <1>5, <2>1, <2>3, <3>1, <3>2 DEF ObjectOK
  <2> QED BY <2>2, <2>3
<1>10. /\ \A l \in links' : LinkOK(l)'
       /\ \A x \in served' : ReaderOK(x)'
  <2>1. ASSUME NEW u, NEW n \in Name, Seen(u, n) PROVE Seen(u, n)'
    BY <1>4, <2>1 DEF Seen, F!NoRow
  <2>2. \A l \in links' : LinkOK(l)'
    BY <2>1 DEF FilesInv, FilesTyped, LinkOK, Links, F!Key
  <2>3. \A x \in served' : ReaderOK(x)'
    BY <2>1 DEF FilesInv, FilesTyped, ReaderOK, F!Key
  <2> QED BY <2>2, <2>3
<1> QED BY <1>6, <1>7, <1>8, <1>9, <1>10 DEF FilesInv

\* The row is inserted once its bytes and type are there; a raw object has none.
LEMMA RowIsInserted ==
    ASSUME FilesInv, NEW h \in DOMAIN requests, F!InsertRow(h), h.key.space = "uploads"
    PROVE  FilesInv'
<1> DEFINE n == h.key.name
           row == [org |-> h.key.org, by |-> h.user, status |-> "pending_review", type |-> h.type]
<1>1. h \in Handlers /\ HandlerOK(h) /\ FilesTyped
  BY DEF FilesInv, FilesTyped
<1>2. h.key \in F!Key /\ n \in Name /\ h.key.org \in Org /\ h.user \in User /\ h.key = F!ManagedUploadKey(h.key.org, n)
  BY <1>1 DEF Handlers, F!Key, F!ManagedUploadKey
<1>3. /\ rows' = [rows EXCEPT ![n] = row] /\ F!End(h) /\ h.step = "stored"
      /\ UNCHANGED <<r2, objects, types, links, uploaded, approved, served, fileFaults>>
  BY DEF F!InsertRow, F!Quiet
<1>4. Alone(h) /\ h.body = uploaded[n] /\ objects[h.key] = h.body /\ types[h.key] = h.type /\ uploaded[n] # Nothing
  BY <1>1, <1>3 DEF HandlerOK
<1>5. /\ F!IsABag(requests') /\ DOMAIN requests' = DOMAIN requests \ {h}
      /\ \A g \in DOMAIN requests' : requests'[g] = requests[g]
  BY <1>1, <1>3, <1>4, FileEnds DEF FilesTyped, Alone
<1>6. row.org = h.key.org /\ row.by = h.user /\ row.status = "pending_review" /\ row.type = h.type
  OBVIOUS
<1>7. /\ rows' \in [Name -> [org : Org \cup {Nothing}, by : User \cup {Nothing},
                     status : {"none", "pending_review", "approved", "rejected"}, type : {"pdf", "png", Nothing}]]
      /\ rows'[n] = row /\ \A m \in Name \ {n} : rows'[m] = rows[m]
  BY <1>1, <1>2, <1>3 DEF FilesTyped, F!TypeOK, Handlers, Types
<1>8. FilesTyped'
  BY <1>1, <1>3, <1>5, <1>7 DEF FilesTyped, F!TypeOK
<1> HIDE DEF row, n
<1>9. ASSUME NEW g \in DOMAIN requests' PROVE HandlerOK(g)'
  <2>1. g \in DOMAIN requests /\ HandlerOK(g) /\ g \in Handlers /\ ~ Managed(g.key, n)
    BY <1>1, <1>4, <1>5 DEF FilesInv, FilesTyped, Alone, n
  <2>2. g.key.space = "uploads" => rows'[g.key.name] = rows[g.key.name]
    BY <1>7, <2>1 DEF Managed, Handlers, F!Key
  <2>3. g.key.space = "uploads" /\ Alone(g) => Alone(g)'
    BY <1>3, <1>5, <2>1, <2>2 DEF Alone
  <2> QED BY <1>3, <2>1, <2>2, <2>3 DEF HandlerOK
<1>10. \A m \in Name : FileOK(m)'
  <2>1. FileOK(n)'
    BY <1>2, <1>3, <1>4, <1>6, <1>7 DEF FileOK
  <2>2. ASSUME NEW m \in Name, m # n PROVE FileOK(m)'
    BY <1>3, <1>7, <2>2 DEF FilesInv, FileOK
  <2> QED BY <2>1, <2>2
<1>11. ASSUME NEW k \in F!Key PROVE ObjectOK(k)'
  <2>1. ObjectOK(k) /\ k.name \in Name
    BY DEF FilesInv, F!Key
  <2>2. CASE k = h.key
    BY <1>3, <1>6, <1>7, <2>1, <2>2 DEF ObjectOK, n
  <2>3. CASE k # h.key
    <3>1. ASSUME NEW g \in DOMAIN requests, g.key = k PROVE g \in DOMAIN requests'
      BY <1>5, <2>3, <3>1
    <3>2. rows[k.name].org = k.org => rows'[k.name].org = k.org
      <4>1. k.name = n => rows[k.name].org = Nothing
        BY <1>4 DEF Alone, F!NoRow, n
      <4>2. k.org # Nothing
        BY FilesAssumption DEF F!Key
      <4> QED BY <1>7, <2>1, <4>1, <4>2
    <3> QED BY <1>3, <2>1, <3>1, <3>2 DEF ObjectOK
  <2> QED BY <2>2, <2>3
<1>12. ASSUME NEW l \in links' PROVE LinkOK(l)'
  <2>1. LinkOK(l) /\ l \in Links /\ ~ Managed(l.key, n)
    BY <1>3, <1>1, <1>4 DEF FilesInv, FilesTyped, Alone, n
  <2>2. l.key.space = "uploads" => rows'[l.key.name] = rows[l.key.name]
    BY <1>7, <2>1 DEF Managed, Links, F!Key
  <2> QED BY <1>3, <2>1, <2>2 DEF LinkOK, Seen
<1>13. ASSUME NEW s \in served' PROVE ReaderOK(s)'
  <2>1. ReaderOK(s) /\ s[2] \in F!Key /\ s[2].name # n
    BY <1>3, <1>1, <1>4 DEF FilesInv, FilesTyped, Alone, n
  <2>2. rows'[s[2].name] = rows[s[2].name]
    BY <1>7, <2>1 DEF F!Key
  <2> QED BY <1>3, <2>1, <2>2 DEF ReaderOK, Seen
<1> QED BY <1>8, <1>9, <1>10, <1>11, <1>12, <1>13 DEF FilesInv

\* A reviewer decides about a file that is there, again and again.
LEMMA DecisionIsRecorded ==
    ASSUME FilesInv, NEW u \in User, NEW n \in Name, NEW status \in {"approved", "rejected"},
           F!RecordDecision(u, n, status)
    PROVE  FilesInv'
<1> USE DEF FilesInv
<1>1. /\ rows' = [rows EXCEPT ![n].status = status] /\ rows[n].org # Nothing
      /\ approved \subseteq approved' /\ approved' \subseteq Name /\ (status = "approved" => n \in approved')
      /\ UNCHANGED <<r2, objects, types, requests, links, uploaded, served, fileFaults>>
  BY FilesAssumption DEF F!RecordDecision, FilesTyped, F!TypeOK
<1>2. /\ rows' \in [Name -> [org : Org \cup {Nothing}, by : User \cup {Nothing},
                     status : {"none", "pending_review", "approved", "rejected"}, type : {"pdf", "png", Nothing}]]
      /\ \A m \in Name : /\ m # n => rows'[m] = rows[m]
                         /\ rows'[m].org = rows[m].org /\ rows'[m].by = rows[m].by /\ rows'[m].type = rows[m].type
      /\ rows'[n].status = status
  BY <1>1 DEF FilesTyped, F!TypeOK
<1>3. FilesTyped'
  BY <1>1, <1>2 DEF FilesTyped, F!TypeOK
<1>4. rows[n] # F!NoRow /\ rows'[n] # F!NoRow
  BY <1>1, <1>2 DEF F!NoRow
<1>5. \A m \in Name : rows'[m] = F!NoRow <=> rows[m] = F!NoRow
  BY <1>2, <1>4
<1>6. ASSUME NEW h \in DOMAIN requests' PROVE HandlerOK(h)'
  <2>1. h \in Handlers /\ HandlerOK(h) /\ h.key.name \in Name
    BY <1>1 DEF FilesTyped, Handlers, F!Key
  <2>2. Alone(h) => Alone(h)'
    BY <1>1, <1>5, <2>1 DEF Alone
  <2> QED BY <1>1, <1>2, <1>5, <2>1, <2>2 DEF HandlerOK
<1>7. \A m \in Name : FileOK(m)'
  BY <1>1, <1>2, <1>5 DEF FileOK
<1>8. \A k \in F!Key : ObjectOK(k)'
  BY <1>1, <1>2 DEF ObjectOK, F!Key
<1>9. ASSUME NEW x, NEW m \in Name, Seen(x, m) PROVE Seen(x, m)'
  BY <1>1, <1>2, <1>9 DEF Seen
<1>10. \A l \in links' : LinkOK(l)'
  BY <1>1, <1>9 DEF LinkOK, FilesTyped, Links, F!Key
<1>11. \A s \in served' : ReaderOK(s)'
  BY <1>1, <1>9 DEF ReaderOK, FilesTyped, F!Key
<1> QED BY <1>3, <1>6, <1>7, <1>8, <1>10, <1>11

\* A link is given out: to a raw object, or to a file its user may read.
LEMMA LinkIsGiven ==
    ASSUME FilesInv, NEW l \in Links, links' = links \cup {l},
           UNCHANGED <<r2, objects, types, rows, requests, uploaded, approved, served, fileFaults>>,
           \/ l.key.space = "org"
           \/ /\ l.method = "GET"
              /\ \E n \in Name : l.key = F!ManagedUploadKey(rows[n].org, n) /\ F!CanRead(l.user, rows[n])
    PROVE  FilesInv'
<1> USE DEF FilesInv
<1>1. FilesTyped'
  BY DEF FilesTyped, F!TypeOK
<1>2. l.key.space = "org" \/
        (/\ l.method = "GET" /\ l.key.space = "uploads" /\ rows[l.key.name] # F!NoRow
         /\ l.key.org = OrgOf[l.user] /\ Seen(l.user, l.key.name) /\ uploaded[l.key.name] # Nothing)
  <2> SUFFICES ASSUME NEW n \in Name, l.method = "GET",
                      l.key = F!ManagedUploadKey(rows[n].org, n), F!CanRead(l.user, rows[n])
               PROVE  /\ l.key.space = "uploads" /\ rows[l.key.name] # F!NoRow
                      /\ l.key.org = OrgOf[l.user] /\ Seen(l.user, l.key.name) /\ uploaded[l.key.name] # Nothing
    OBVIOUS
  <2>1. l.key.space = "uploads" /\ l.key.name = n /\ l.key.org = rows[n].org
    BY DEF F!ManagedUploadKey
  <2>2. OrgOf[l.user] # Nothing
    BY FilesAssumption DEF Links
  <2>3. rows[n] # F!NoRow
    BY <2>2 DEF F!CanRead, F!NoRow
  <2>4. FileOK(n)
    OBVIOUS
  <2> QED BY <2>1, <2>3, <2>4 DEF FileOK, F!CanRead, Seen
<1>3. ASSUME NEW h \in DOMAIN requests' PROVE HandlerOK(h)'
  <2>1. h.key.space = "uploads" /\ Alone(h) => Alone(h)'
    <3>1. Alone(h) => ~ Managed(l.key, h.key.name)
      BY <1>2 DEF Alone, Managed
    <3> QED BY <3>1 DEF Alone, Managed
  <2> QED BY <2>1 DEF HandlerOK
<1>4. \A n \in Name : FileOK(n)'
  BY DEF FileOK
<1>5. \A k \in F!Key : ObjectOK(k)'
  BY DEF ObjectOK
<1>6. \A x \in links' : LinkOK(x)'
  BY <1>2 DEF LinkOK, Seen
<1>7. \A s \in served' : ReaderOK(s)'
  BY DEF ReaderOK, Seen
<1> QED BY <1>1, <1>3, <1>4, <1>5, <1>6, <1>7

\* A link is followed, and shows what its key holds by now.
LEMMA LinkIsFollowed ==
    ASSUME FilesInv, NEW l \in links, F!FollowGet(l)
    PROVE  FilesInv'
<1> USE DEF FilesInv
<1>1. /\ l \in Links /\ l.key \in F!Key /\ LinkOK(l) /\ ObjectOK(l.key) /\ objects[l.key] # Nothing
      /\ l.key.name \in Name /\ l.key.space \in {"uploads", "org"} /\ l.user \in User
      /\ objects[l.key] \in Body
      /\ UNCHANGED <<r2, objects, types, rows, requests, links, uploaded, approved, fileFaults>>
  BY DEF F!FollowGet, FilesTyped, Links, F!Key, F!TypeOK
<1>x. PICK x : x = <<l.user, l.key, objects[l.key]>>
  OBVIOUS
<1>2. served' = served \/ (l.key.space = "uploads" /\ served' = served \cup {x})
  BY <1>1, <1>x DEF F!FollowGet
<1>3. x \in User \X F!Key \X Body /\ x[1] = l.user /\ x[2] = l.key /\ x[3] = objects[l.key]
  BY <1>1, <1>x
<1>4. FilesTyped'
  BY <1>1, <1>2, <1>3 DEF FilesTyped, F!TypeOK
<1>5. ASSUME NEW h \in DOMAIN requests' PROVE HandlerOK(h)'
  <2>1. h.key.space = "uploads" /\ Alone(h) => Alone(h)'
    <3>1. l.key.space = "uploads" /\ Alone(h) => x[2].name # h.key.name
      BY <1>3 DEF Alone, Managed
    <3> QED BY <1>1, <1>2, <3>1 DEF Alone, Managed
  <2> QED BY <1>1, <2>1 DEF HandlerOK
<1>6. \A n \in Name : FileOK(n)'
  BY <1>1 DEF FileOK
<1>7. \A k \in F!Key : ObjectOK(k)'
  BY <1>1 DEF ObjectOK
<1>8. \A y \in links' : LinkOK(y)'
  BY <1>1 DEF LinkOK, Seen
<1>9. \A s \in served' : ReaderOK(s)'
  <2>1. \A s \in served : ReaderOK(s)'
    BY <1>1 DEF ReaderOK, Seen
  <2>2. l.key.space = "uploads" => ReaderOK(x)'
    BY <1>1, <1>3 DEF ReaderOK, LinkOK, ObjectOK, Seen
  <2> QED BY <1>2, <2>1, <2>2
<1> QED BY <1>4, <1>5, <1>6, <1>7, <1>8, <1>9

\* Links lapse, and a step that changes nothing changes nothing.
LEMMA LinksLapse ==
    ASSUME FilesInv, UNCHANGED <<r2, objects, types, rows, requests, uploaded, approved, served, fileFaults>>,
           links' \subseteq links
    PROVE  FilesInv'
<1> USE DEF FilesInv
<1>1. FilesTyped'
  BY DEF FilesTyped, F!TypeOK
<1>2. ASSUME NEW h \in DOMAIN requests' PROVE HandlerOK(h)'
  <2>1. Alone(h) => Alone(h)'
    BY DEF Alone, Managed
  <2> QED BY <2>1 DEF HandlerOK
<1>3. /\ \A n \in Name : FileOK(n)'
      /\ \A k \in F!Key : ObjectOK(k)'
      /\ \A y \in links' : LinkOK(y)'
      /\ \A s \in served' : ReaderOK(s)'
  BY DEF FileOK, ObjectOK, LinkOK, ReaderOK, Seen
<1> QED BY <1>1, <1>2, <1>3

\* Every step of every request, whatever runs with it, keeps the invariant.
LEMMA FilesInvariant == F!Spec => []FilesInv
<1>1. F!Init => FilesInv
  <2> SUFFICES ASSUME F!Init PROVE FilesInv
    OBVIOUS
  <2>1. DOMAIN requests = {} /\ F!IsABag(requests)
    BY DEF F!Init, F!EmptyBag, F!SetToBag, F!IsABag
  <2>2. F!NoRow \in [org : Org \cup {Nothing}, by : User \cup {Nothing},
                     status : {"none", "pending_review", "approved", "rejected"}, type : {"pdf", "png", Nothing}]
    BY DEF F!NoRow
  <2> QED BY <2>1, <2>2, FilesAssumption DEF F!Init, FilesInv, FilesTyped, F!TypeOK, FileOK, ObjectOK, F!Key
<1>2. FilesInv /\ [F!Next]_F!vars => FilesInv'
  <2> SUFFICES ASSUME FilesInv, [F!Next]_F!vars PROVE FilesInv'
    OBVIOUS
  <2>0. FilesTyped
    BY DEF FilesInv
  <2>1. ASSUME NEW u \in User, NEW n \in Name, F!CheckDelete(u, n) PROVE FilesInv'
    <3> DEFINE h == F!Handler("drop", F!ManagedUploadKey(rows[n].org, n), u, Nothing, Nothing)
    <3>1. rows[n].org = OrgOf[u] /\ OrgOf[u] \in Org /\ rows[n].org # Nothing
      BY <2>1, FilesAssumption DEF F!CheckDelete, F!CanDelete
    <3>2. rows[n] # F!NoRow
      BY <3>1 DEF F!NoRow
    <3>3. h \in Handlers /\ h.step = "drop" /\ h.key = F!ManagedUploadKey(rows[n].org, n)
      BY <3>1 DEF F!Handler, Handlers, F!ManagedUploadKey, F!Key, Types
    <3>4. F!Begin(h) /\ UNCHANGED <<r2, objects, types, rows, links, uploaded, approved, served, fileFaults>>
      BY <2>1 DEF F!CheckDelete, F!Quiet
    <3> HIDE DEF h
    <3> QED BY <3>2, <3>3, <3>4, RequestStarts
  <2>2. ASSUME NEW u \in User, NEW n \in Name, F!UploadedFileDownloadUrl(u, n) PROVE FilesInv'
    <3> DEFINE l == [method |-> "GET", key |-> F!ManagedUploadKey(rows[n].org, n), user |-> u, type |-> Nothing]
    <3>1. F!CanRead(u, rows[n]) /\ rows[n].org \in Org
      BY <2>2, FilesAssumption DEF F!UploadedFileDownloadUrl, F!CanRead
    <3>2. /\ l \in Links /\ l.method = "GET" /\ l.user = u /\ l.key = F!ManagedUploadKey(rows[n].org, n)
      BY <3>1 DEF Links, F!ManagedUploadKey, F!Key, Types
    <3>3. /\ links' = links \cup {l}
          /\ UNCHANGED <<r2, objects, types, rows, requests, uploaded, approved, served, fileFaults>>
      BY <2>2 DEF F!UploadedFileDownloadUrl, F!Give
    <3> HIDE DEF l
    <3> QED BY <3>1, <3>2, <3>3, LinkIsGiven
  <2>3. ASSUME NEW u \in User, NEW n \in Name, NEW b \in Body, NEW e \in {"pdf", "exe"}, NEW t \in {"pdf", "png"},
               F!Upload(u, n, b, e, t)
        PROVE  FilesInv'
    BY <2>3, UploadStarts
  <2>4. ASSUME NEW u \in User, NEW asked \in F!Key,
               \/ F!RawDelete(u, asked)
               \/ \E b \in Body : F!RawUpload(u, asked, b, "png", "png")
        PROVE  FilesInv'
    <3>1. PICK h \in Handlers :
             h.key.space = "org" /\ h.step # "drop" /\ F!Begin(h)
      <4>1. OrgOf[u] # Nothing /\ asked # Nothing => TRUE
        OBVIOUS
      <4>2. ASSUME F!OrgScopedRawKey(asked, OrgOf[u]) # Nothing
            PROVE  F!OrgScopedRawKey(asked, OrgOf[u]) = asked /\ asked.space = "org"
        BY <4>2 DEF F!OrgScopedRawKey, F!Key
      <4>3. CASE F!RawDelete(u, asked)
        <5>1. F!Handler("erase", asked, u, Nothing, Nothing) \in Handlers
          BY DEF F!Handler, Handlers, Types
        <5>2. F!Begin(F!Handler("erase", asked, u, Nothing, Nothing)) /\ asked.space = "org"
          BY <4>2, <4>3 DEF F!RawDelete
        <5> QED BY <5>1, <5>2 DEF F!Handler
      <4>4. ASSUME NEW b \in Body, F!RawUpload(u, asked, b, "png", "png")
            PROVE  \E h \in Handlers : h.key.space = "org" /\ h.step # "drop" /\ F!Begin(h)
        <5>1. F!Handler("put", asked, u, b, "png") \in Handlers
          BY DEF F!Handler, Handlers, Types
        <5>2. F!Begin(F!Handler("put", asked, u, b, "png")) /\ asked.space = "org"
          BY <4>2, <4>4 DEF F!RawUpload
        <5> QED BY <5>1, <5>2 DEF F!Handler
      <4> QED BY <2>4, <4>3, <4>4
    <3>2. UNCHANGED <<r2, objects, types, rows, links, uploaded, approved, served, fileFaults>>
      BY <2>4 DEF F!RawDelete, F!RawUpload, F!Quiet
    <3> QED BY <3>1, <3>2, RequestStarts
  <2>5. ASSUME NEW u \in User, NEW asked \in F!Key,
               F!RawDownloadUrl(u, asked) \/ (\E e \in {"png", "exe"} : F!RawUploadUrl(u, asked, e, "png"))
        PROVE  FilesInv'
    <3>1. PICK method \in {"GET", "PUT"}, t \in Types : F!Give(method, asked, u, t) /\ asked.space = "org"
      BY <2>5 DEF F!RawDownloadUrl, F!RawUploadUrl, F!OrgScopedRawKey, F!Key, Types
    <3> DEFINE l == [method |-> method, key |-> asked, user |-> u, type |-> t]
    <3>2. l \in Links /\ l.key = asked
      BY DEF Links
    <3>3. /\ links' = links \cup {l}
          /\ UNCHANGED <<r2, objects, types, rows, requests, uploaded, approved, served, fileFaults>>
      BY <3>1 DEF F!Give
    <3> HIDE DEF l
    <3> QED BY <3>1, <3>2, <3>3, LinkIsGiven
  <2>6. ASSUME NEW h \in DOMAIN requests, F!PutObject(h) \/ F!WriteMeta(h) PROVE FilesInv'
    BY <2>6, ObjectIsStored
  <2>7. ASSUME NEW h \in DOMAIN requests, F!InsertRow(h) PROVE FilesInv'
    <3>1. CASE h.key.space = "uploads"
      BY <2>7, <3>1, RowIsInserted
    <3>2. CASE h.key.space = "org"
      <4>1. F!End(h) /\ UNCHANGED <<r2, objects, types, rows, links, uploaded, approved, served, fileFaults>>
        BY <2>7, <3>2 DEF F!InsertRow, F!Quiet
      <4>2. /\ objects' \in [F!Key -> Body \cup {Nothing}] /\ types' \in [F!Key -> Types]
            /\ fileFaults' \in 0 .. MaxFileFaults
        BY <2>0, <4>1 DEF FilesTyped, F!TypeOK, Types
      <4> QED BY <3>2, <4>1, <4>2, RequestEnds
    <3> QED BY <2>0, <3>1, <3>2 DEF FilesTyped, Handlers, F!Key
  <2>8. ASSUME NEW h \in DOMAIN requests, F!InsertFails(h) PROVE FilesInv'
    <3>1. rows[h.key.name] = F!NoRow
      BY <2>8 DEF FilesInv, F!InsertFails, HandlerOK, Alone
    <3>2. /\ F!GoOn(h, "erase") /\ h.step = "stored" /\ h.key.space = "uploads"
          /\ UNCHANGED <<r2, objects, types, rows, links, uploaded, approved, served, fileFaults>>
      BY <2>8 DEF F!InsertFails, F!Quiet
    <3> QED BY <3>1, <3>2, RequestErases
  <2>9. ASSUME NEW h \in DOMAIN requests, F!DeleteRow(h) PROVE FilesInv'
    <3>1. h.step = "drop" /\ UNCHANGED <<r2, objects, types, links, uploaded, approved, served, fileFaults>>
      BY <2>9 DEF F!DeleteRow, F!Quiet
    <3>2. CASE rows[h.key.name] = F!NoRow
      <4>1. F!End(h) /\ rows' = rows
        BY <2>9, <3>2 DEF F!DeleteRow
      <4>2. /\ objects' \in [F!Key -> Body \cup {Nothing}] /\ types' \in [F!Key -> Types]
            /\ fileFaults' \in 0 .. MaxFileFaults
        BY <2>0, <3>1 DEF FilesTyped, F!TypeOK, Types
      <4> QED BY <3>1, <4>1, <4>2, RequestEnds
    <3>3. CASE rows[h.key.name] # F!NoRow
      <4>1. F!GoOn(h, "erase") /\ rows' = [rows EXCEPT ![h.key.name] = F!NoRow]
        BY <2>9, <3>3 DEF F!DeleteRow
      <4>2. h.key.name \in Name /\ Name = DOMAIN rows
        BY <2>0 DEF FilesTyped, F!TypeOK, Handlers, F!Key
      <4> QED BY <3>1, <4>1, <4>2, RequestErases
    <3> QED BY <3>2, <3>3
  <2>10. ASSUME NEW h \in DOMAIN requests, F!DeleteObject(h) PROVE FilesInv'
    <3>1. h.step = "erase" /\ objects' = [objects EXCEPT ![h.key] = Nothing]
          /\ UNCHANGED <<r2, rows, links, uploaded, approved, served, fileFaults>>
      BY <2>10 DEF F!DeleteObject, F!Quiet
    <3>2. h.key.space = "uploads" => rows[h.key.name] = F!NoRow
      BY <3>1 DEF FilesInv, HandlerOK
    <3>3. CASE r2
      <4>1. F!End(h) /\ types' = [types EXCEPT ![h.key] = Nothing]
        BY <2>10, <3>3 DEF F!DeleteObject
      <4>2. /\ objects' \in [F!Key -> Body \cup {Nothing}] /\ types' \in [F!Key -> Types]
            /\ objects'[h.key] = Nothing /\ types'[h.key] = Nothing
            /\ \A k \in F!Key \ {h.key} : objects'[k] = objects[k] /\ types'[k] = types[k]
            /\ fileFaults' \in 0 .. MaxFileFaults
        BY <2>0, <3>1, <4>1 DEF FilesTyped, F!TypeOK, Types, Handlers
      <4> QED BY <3>1, <4>1, <4>2, RequestEnds
    <3>4. CASE ~ r2
      <4>1. F!GoOn(h, "forget") /\ types' = types
        BY <2>10, <3>4 DEF F!DeleteObject
      <4> QED BY <3>1, <3>2, <4>1, RequestErases
    <3> QED BY <3>3, <3>4
  <2>11. ASSUME NEW h \in DOMAIN requests, F!RemoveMeta(h) PROVE FilesInv'
    <3>1. /\ h.step = "forget" /\ F!End(h) /\ types' = [types EXCEPT ![h.key] = Nothing]
          /\ UNCHANGED <<r2, objects, rows, links, uploaded, approved, served, fileFaults>>
      BY <2>11 DEF F!RemoveMeta, F!Quiet
    <3>2. /\ objects' \in [F!Key -> Body \cup {Nothing}] /\ types' \in [F!Key -> Types]
          /\ types'[h.key] = Nothing
          /\ \A k \in F!Key \ {h.key} : objects'[k] = objects[k] /\ types'[k] = types[k]
          /\ fileFaults' \in 0 .. MaxFileFaults
      BY <2>0, <3>1 DEF FilesTyped, F!TypeOK, Types, Handlers
    <3>3. objects'[h.key] = Nothing \/ h.key.space = "org"
      <4>1. HandlerOK(h) /\ h.key.space \in {"uploads", "org"}
        BY <2>0 DEF FilesInv, FilesTyped, Handlers, F!Key
      <4> QED BY <3>1, <4>1 DEF HandlerOK
    <3> QED BY <3>1, <3>2, <3>3, RequestEnds
  <2>12. ASSUME NEW h \in DOMAIN requests, F!Fails(h) PROVE FilesInv'
    <3>1. /\ F!End(h) /\ fileFaults' = fileFaults + 1 /\ fileFaults < MaxFileFaults
          /\ UNCHANGED <<r2, objects, types, rows, links, uploaded, approved, served>>
      BY <2>12 DEF F!Fails
    <3>2. /\ objects' \in [F!Key -> Body \cup {Nothing}] /\ types' \in [F!Key -> Types]
          /\ fileFaults' \in 0 .. MaxFileFaults /\ fileFaults' # 0
      BY <2>0, <3>1, FilesAssumption DEF FilesTyped, F!TypeOK, Types
    <3> QED BY <3>1, <3>2, RequestEnds
  <2>13. ASSUME NEW u \in User, NEW n \in Name, NEW status \in {"approved", "rejected"},
                F!RecordDecision(u, n, status)
         PROVE  FilesInv'
    BY <2>13, DecisionIsRecorded
  <2>14. ASSUME NEW l \in links, F!FollowGet(l) PROVE FilesInv'
    BY <2>14, LinkIsFollowed
  <2>15. ASSUME NEW l \in links, F!LinkExpires(l) PROVE FilesInv'
    BY <2>15, LinksLapse DEF F!LinkExpires
  <2>16. ASSUME NEW l \in links, NEW b \in Body, F!FollowPut(l, b) PROVE FilesInv'
    <3> DEFINE h == F!Handler("put", l.key, l.user, b, l.type)
    <3>1. l \in Links /\ LinkOK(l) /\ l.method = "PUT"
      BY <2>0, <2>16 DEF FilesInv, FilesTyped, F!FollowPut
    <3>2. h \in Handlers /\ h.key = l.key /\ h.step = "put" /\ l.key.space = "org"
      BY <3>1 DEF Links, Handlers, F!Handler, LinkOK
    <3>3. F!Begin(h) /\ UNCHANGED <<r2, objects, types, rows, links, uploaded, approved, served, fileFaults>>
      BY <2>16 DEF F!FollowPut, F!Quiet
    <3> HIDE DEF h
    <3> QED BY <3>2, <3>3, RequestStarts
  <2>17. CASE UNCHANGED F!vars
    BY <2>17, LinksLapse DEF F!vars
  <2> QED
    BY <2>1, <2>2, <2>3, <2>4, <2>5, <2>6, <2>7, <2>8, <2>9, <2>10, <2>11, <2>12, <2>13, <2>14, <2>15, <2>16, <2>17
       DEF F!Next, F!BagToSet
<1> QED BY <1>1, <1>2, PTL DEF F!Spec

\* A row always has the bytes and the type that were checked, unreviewed bytes reach
\* nobody but their uploader and a reviewer, and nothing is left of a file that is gone
\* while nothing fails (storeUploadedFile, deleteUploadedFile, canReadUploadedFile).
THEOREM FilesAreKept == F!Spec => []FilesHold
<1>1. FilesInv => FilesHold
  <2> SUFFICES ASSUME FilesInv PROVE FilesHold
    OBVIOUS
  <2>1. F!RowsKeepTheirBytes
    BY DEF FilesInv, FileOK, F!RowsKeepTheirBytes
  <2>2. F!StrangersSeeReviewedBytes
    BY DEF FilesInv, ReaderOK, Seen, F!StrangersSeeReviewedBytes
  <2>3. F!NothingLeftBehind
    <3> SUFFICES ASSUME NEW k \in F!Key, k.space = "uploads", fileFaults = 0, rows[k.name] = F!NoRow,
                        \A h \in DOMAIN requests : h.key # k
                 PROVE  objects[k] = Nothing /\ types[k] = Nothing
      BY DEF F!NothingLeftBehind, F!BagToSet
    <3>1. rows[k.name].org = Nothing /\ k.org # Nothing
      BY FilesAssumption DEF F!NoRow, F!Key
    <3> QED BY <3>1 DEF FilesInv, ObjectOK
  <2> QED BY <2>1, <2>2, <2>3 DEF FilesHold
<1> QED BY <1>1, FilesInvariant, PTL

-----------------------------------------------------------------------------
(* Import sessions, for any sheets, definitions, sessions and faults.        *)

Importable(rs) == \E i \in DOMAIN Rows : I!PrepareImport(Rows, rs, MatchBy)[i] \in {"create", "update"}
\* A sheet of which, with some records in the table, no row is to be written; a
\* commit of it is stored as committed without a transaction.
MayBeEmpty == \E rs : ~ Importable(rs)

ImportSteps == {"map", "attest", "prepare", "write", "late", "committed", "failed"}
ImportsTyped ==
    /\ session \in [Session -> [status : {"none", "parsed", "mapped", "committed", "failed"},
                                hasFile : BOOLEAN, attested : BOOLEAN]]
    /\ wrote \in [Session -> Nat]
    /\ \A a \in attempts : a.session \in Session /\ a.step \in ImportSteps /\ {"step", "session"} \subseteq DOMAIN a

\* The rows of session s are in the table, once, or there were none to write.
Imported(s) == wrote[s] = 1 \/ (wrote[s] = 0 /\ MayBeEmpty)

\* A session that no two requests were in has at most one, which found it open; it
\* has been imported from the end of its transaction on, and only then.
SessionOK(s) ==
    /\ \A a, b \in attempts : a.session = s /\ b.session = s => a = b
    /\ \A a \in attempts : a.session = s =>
          /\ a.step # "late" /\ session[s].status \notin {"none", "committed"}
          /\ IF a.step = "committed" THEN Imported(s) ELSE wrote[s] = 0
    /\ (\A a \in attempts : a.session # s) =>
          IF session[s].status = "committed" THEN Imported(s) ELSE wrote[s] = 0

ImportsInv == ImportsTyped /\ \A s \in Session \ crowded : SessionOK(s)

\* What a step of one session's request is to the other sessions: nothing.
LEMMA OtherSessions ==
    ASSUME ImportsInv, NEW s \in Session \ crowded',
           crowded \subseteq crowded',
           session'[s] = session[s], wrote'[s] = wrote[s],
           \A a \in attempts' \cup attempts : a.session = s => a \in attempts' /\ a \in attempts
    PROVE  SessionOK(s)'
<1>1. SessionOK(s)
  BY DEF ImportsInv
<1> QED BY <1>1 DEF SessionOK, Imported

\* A request starts on a session that is there and not committed.
LEMMA AttemptBegins ==
    ASSUME ImportsInv, NEW s \in Session, NEW step \in {"map", "attest"}, I!Begin(step, s),
           session[s].status \notin {"none", "committed"}, UNCHANGED <<session, wrote>>
    PROVE  ImportsInv'
<1>1. PICK b : /\ attempts' = attempts \cup {b} /\ b.session = s /\ b.step = step
               /\ {"step", "session"} \subseteq DOMAIN b
  <2>1. PICK id : attempts' = attempts \cup {[step |-> step, session |-> s, plan |-> <<>>, id |-> id]}
    BY Zenon DEF I!Begin
  <2> DEFINE b == [step |-> step, session |-> s, plan |-> <<>>, id |-> id]
  <2>2. b.session = s /\ b.step = step /\ {"step", "session"} \subseteq DOMAIN b
    OBVIOUS
  <2> HIDE DEF b
  <2>3. attempts' = attempts \cup {b}
    BY <2>1 DEF b
  <2> QED BY <2>2, <2>3
<1>2. crowded' = IF \E a \in attempts : a.session = s THEN crowded \cup {s} ELSE crowded
  BY DEF I!Begin
<1>3. ImportsTyped'
  BY <1>1 DEF ImportsInv, ImportsTyped, ImportSteps
<1>4. ASSUME NEW r \in Session \ crowded' PROVE SessionOK(r)'
  <2>1. CASE r # s
    BY <1>1, <1>2, <2>1, OtherSessions
  <2>2. CASE r = s
    <3>1. SessionOK(s) /\ \A a \in attempts : a.session # s
      BY <1>2, <1>4, <2>2 DEF ImportsInv
    <3>2. wrote[s] = 0
      BY <3>1 DEF SessionOK
    <3>3. SessionOK(s)'
      BY <1>1, <3>1, <3>2 DEF SessionOK
    <3> QED BY <2>2, <3>3
  <2> QED BY <2>1, <2>2
<1> QED BY <1>3, <1>4 DEF ImportsInv

\* A request goes on by itself: to a step at which the session is as it should be.
LEMMA AttemptGoesOn ==
    ASSUME ImportsInv, NEW a \in attempts, NEW b, attempts' = (attempts \ {a}) \cup {b},
           b.session = a.session, b.step \in ImportSteps \ {"late"}, {"step", "session"} \subseteq DOMAIN b,
           ImportsTyped', crowded' = crowded,
           \A s \in Session \ {a.session} : session'[s] = session[s] /\ wrote'[s] = wrote[s],
           a.session \notin crowded =>
               /\ session'[a.session].status = session[a.session].status
               /\ IF b.step = "committed" THEN wrote'[a.session] = 1 \/ (wrote'[a.session] = 0 /\ MayBeEmpty)
                  ELSE wrote'[a.session] = 0
    PROVE  ImportsInv'
<1>1. ASSUME NEW s \in Session \ crowded' PROVE SessionOK(s)'
  <2>1. CASE s # a.session
    BY <1>1, <2>1, OtherSessions
  <2>2. CASE s = a.session
    <3>1. SessionOK(a.session) /\ \A x \in attempts' : x.session = a.session => x = b
      BY <1>1, <2>2 DEF ImportsInv, SessionOK
    <3>2. SessionOK(a.session)'
      BY <1>1, <2>2, <3>1 DEF SessionOK, Imported
    <3> QED BY <2>2, <3>2
  <2> QED BY <2>1, <2>2
<1> QED BY <1>1 DEF ImportsInv

\* A request is over.
LEMMA AttemptEnds ==
    ASSUME ImportsInv, NEW a \in attempts, I!End(a), ImportsTyped', crowded \subseteq crowded',
           \A s \in Session \ {a.session} : session'[s] = session[s] /\ wrote'[s] = wrote[s],
           a.session \notin crowded' =>
               /\ wrote'[a.session] = wrote[a.session]
               /\ IF a.step = "committed" THEN session'[a.session].status = "committed"
                  ELSE session'[a.session].status # "committed"
    PROVE  ImportsInv'
<1>0. attempts' = attempts \ {a}
  BY DEF I!End
<1>1. ASSUME NEW s \in Session \ crowded' PROVE SessionOK(s)'
  <2>1. CASE s # a.session
    BY <1>0, <1>1, <2>1, OtherSessions
  <2>2. CASE s = a.session
    <3>1. SessionOK(a.session) /\ \A x \in attempts' : x.session # a.session
      BY <1>0, <1>1, <2>2 DEF ImportsInv, SessionOK
    <3>2. SessionOK(a.session)'
      BY <1>1, <2>2, <3>1 DEF SessionOK, Imported
    <3> QED BY <2>2, <3>2
  <2> QED BY <2>1, <2>2
<1> QED BY <1>1 DEF ImportsInv

\* What the handlers know of the session of a request, when no other was in it.
LEMMA FoundOpen ==
    ASSUME ImportsInv, NEW a \in attempts
    PROVE  /\ a.session \in Session /\ a.step \in ImportSteps /\ {"step", "session"} \subseteq DOMAIN a
           /\ a.session \notin crowded =>
                 /\ a.step # "late" /\ session[a.session].status \notin {"none", "committed"}
                 /\ IF a.step = "committed" THEN Imported(a.session) ELSE wrote[a.session] = 0
  BY DEF ImportsInv, ImportsTyped, SessionOK

\* Every step of every request keeps the invariant.
LEMMA ImportsInvariant == I!Spec => []ImportsInv
<1>1. I!Init => ImportsInv
  BY DEF I!Init, I!NoSession, ImportsInv, ImportsTyped, SessionOK
<1>2. ImportsInv /\ [I!Next]_I!vars => ImportsInv'
  <2> SUFFICES ASSUME ImportsInv, [I!Next]_I!vars PROVE ImportsInv'
    OBVIOUS
  <2>0. ImportsTyped
    BY DEF ImportsInv
  <2>1. CASE I!DeleteFile
    <3>1. /\ session' = [s \in Session |-> [session[s] EXCEPT !.hasFile = FALSE]]
          /\ UNCHANGED <<attempts, wrote, crowded>>
      BY <2>1 DEF I!DeleteFile
    <3>2. /\ \A s \in Session : session'[s].status = session[s].status
          /\ ImportsTyped'
      BY <2>0, <3>1 DEF ImportsTyped
    <3>3. ASSUME NEW s \in Session \ crowded PROVE SessionOK(s)'
      <4>1. SessionOK(s) /\ session'[s].status = session[s].status
        BY <3>2 DEF ImportsInv
      <4> QED BY <3>1, <4>1 DEF SessionOK, Imported
    <3> QED BY <3>1, <3>2, <3>3 DEF ImportsInv
  <2>2. ASSUME NEW s \in Session, I!CreateImportSession(s) PROVE ImportsInv'
    <3>1. /\ session' = [session EXCEPT ![s] = [status |-> "parsed", hasFile |-> TRUE, attested |-> FALSE]]
          /\ session[s].status = "none" /\ UNCHANGED <<attempts, wrote, crowded>>
      BY <2>2 DEF I!CreateImportSession, I!NoSession
    <3>2. /\ ImportsTyped' /\ session'[s].status = "parsed"
          /\ \A r \in Session \ {s} : session'[r] = session[r]
      BY <2>0, <3>1 DEF ImportsTyped
    <3>3. ASSUME NEW r \in Session \ crowded' PROVE SessionOK(r)'
      BY <3>1, <3>2, <3>3 DEF ImportsInv, SessionOK, Imported
    <3> QED BY <3>2, <3>3 DEF ImportsInv
  <2>3. ASSUME NEW s \in Session, I!ReadForMapping(s) \/ I!StartCommit(s) PROVE ImportsInv'
    BY <2>3, AttemptBegins DEF I!ReadForMapping, I!StartCommit
  <2>4. ASSUME NEW a \in attempts, I!SetMapping(a) PROVE ImportsInv'
    <3>1. /\ a.step = "map" /\ I!End(a) /\ attempts' \subseteq attempts
          /\ session' = [session EXCEPT ![a.session].status = "mapped"] /\ UNCHANGED <<wrote, crowded>>
      BY <2>4 DEF I!SetMapping, I!End
    <3>2. /\ ImportsTyped' /\ session'[a.session].status = "mapped"
          /\ \A s \in Session \ {a.session} : session'[s] = session[s]
      BY <2>0, <3>1, FoundOpen DEF ImportsTyped
    <3> QED BY <3>1, <3>2, FoundOpen, AttemptEnds
  <2>5. ASSUME NEW a \in attempts, I!Attest(a) PROVE ImportsInv'
    <3>1. PICK b : b = [a EXCEPT !.step = "prepare"]
      OBVIOUS
    <3>2. /\ a.step = "attest" /\ attempts' = (attempts \ {a}) \cup {b}
          /\ session' = [session EXCEPT ![a.session].attested = TRUE] /\ UNCHANGED <<wrote, crowded>>
      BY <2>5, <3>1 DEF I!Attest, I!GoTo
    <3>3. b.session = a.session /\ b.step = "prepare" /\ {"step", "session"} \subseteq DOMAIN b
      BY <3>1, FoundOpen
    <3>4. /\ session' \in [Session -> [status : {"none", "parsed", "mapped", "committed", "failed"},
                                       hasFile : BOOLEAN, attested : BOOLEAN]]
          /\ session'[a.session].status = session[a.session].status
          /\ \A s \in Session \ {a.session} : session'[s] = session[s]
      <4>1. a.session \in Session
        BY FoundOpen
      <4>2. PICK t : t = [session[a.session] EXCEPT !.attested = TRUE]
        OBVIOUS
      <4>3. /\ t \in [status : {"none", "parsed", "mapped", "committed", "failed"}, hasFile : BOOLEAN, attested : BOOLEAN]
            /\ t.status = session[a.session].status
        <5>1. PICK u : u = session[a.session]
          OBVIOUS
        <5>2. u \in [status : {"none", "parsed", "mapped", "committed", "failed"}, hasFile : BOOLEAN, attested : BOOLEAN]
          BY <2>0, <4>1, <5>1 DEF ImportsTyped
        <5>3. t = [status |-> u.status, hasFile |-> u.hasFile, attested |-> TRUE]
          BY <4>2, <5>1, <5>2
        <5> QED BY <5>1, <5>2, <5>3
      <4>4. session' = [session EXCEPT ![a.session] = t]
        BY <3>2, <4>2
      <4> QED BY <2>0, <4>1, <4>3, <4>4 DEF ImportsTyped
    <3>5. ImportsTyped'
      BY <2>0, <3>2, <3>3, <3>4, FoundOpen DEF ImportsTyped, ImportSteps
    <3> QED BY <3>2, <3>3, <3>4, <3>5, FoundOpen, AttemptGoesOn DEF ImportSteps
  <2>6. ASSUME NEW a \in attempts, I!Prepare(a) PROVE ImportsInv'
    <3>1. a.step = "prepare" /\ UNCHANGED <<session, wrote, crowded>>
      BY <2>6 DEF I!Prepare
    <3>2. CASE I!End(a)
      <4>1. ImportsTyped'
        BY <2>0, <3>1, <3>2 DEF ImportsTyped, I!End
      <4> QED BY <3>1, <3>2, <4>1, FoundOpen, AttemptEnds
    <3>3. CASE ~ I!End(a)
      <4> DEFINE act == I!PrepareImport(Rows, records, MatchBy)
                 plan == [i \in DOMAIN Rows |-> [act |-> act[i], existing |-> I!Lookup(Rows[i], records, MatchBy)]]
                 step == IF \E i \in DOMAIN Rows : act[i] \in {"create", "update"} THEN "write" ELSE "committed"
      <4>1. attempts' = (attempts \ {a}) \cup {[a EXCEPT !.plan = plan, !.step = step]}
        BY <2>6, <3>3 DEF I!Prepare
      <4>2. step \in {"write", "committed"} /\ (step = "committed" => MayBeEmpty)
        BY DEF MayBeEmpty, Importable
      <4> HIDE DEF plan, step
      <4>3. PICK b : b = [a EXCEPT !.plan = plan, !.step = step]
        OBVIOUS
      <4>4. b.session = a.session /\ b.step = step /\ {"step", "session"} \subseteq DOMAIN b
        BY <4>3, FoundOpen
      <4>5. attempts' = (attempts \ {a}) \cup {b}
        BY <4>1, <4>3
      <4>6. ImportsTyped'
        BY <2>0, <3>1, <4>2, <4>4, <4>5, FoundOpen DEF ImportsTyped, ImportSteps
      <4>7. b.step \in ImportSteps \ {"late"}
        BY <4>2, <4>4 DEF ImportSteps
      <4> QED BY <3>1, <4>2, <4>4, <4>5, <4>6, <4>7, FoundOpen, AttemptGoesOn
    <3> QED BY <3>2, <3>3
  <2>7. ASSUME NEW a \in attempts, I!Write(a) PROVE ImportsInv'
    <3>1. PICK step \in {"failed", "committed"} :
             /\ I!GoTo(a, step)
             /\ wrote' = IF step = "committed" THEN [wrote EXCEPT ![a.session] = @ + 1] ELSE wrote
      BY <2>7 DEF I!Write
    <3>2. a.step = "write" /\ UNCHANGED <<session, crowded>>
      BY <2>7 DEF I!Write
    <3>3. PICK b : b = [a EXCEPT !.step = step]
      OBVIOUS
    <3>4. /\ b.session = a.session /\ b.step = step /\ {"step", "session"} \subseteq DOMAIN b
          /\ attempts' = (attempts \ {a}) \cup {b}
      BY <3>1, <3>3, FoundOpen DEF I!GoTo
    <3>5. /\ ImportsTyped' /\ \A s \in Session \ {a.session} : wrote'[s] = wrote[s]
          /\ wrote'[a.session] = IF step = "committed" THEN wrote[a.session] + 1 ELSE wrote[a.session]
      BY <2>0, <3>1, <3>2, <3>4, FoundOpen DEF ImportsTyped, ImportSteps
    <3>6. b.step \in ImportSteps \ {"late"}
      BY <3>4 DEF ImportSteps
    <3> QED BY <3>2, <3>4, <3>5, <3>6, FoundOpen, AttemptGoesOn
  <2>8. ASSUME NEW a \in attempts, I!TimesOut(a) PROVE ImportsInv'
    <3>1. PICK b, c : /\ attempts' = (attempts \ {a}) \cup {b, c}
                      /\ b = [a EXCEPT !.step = "failed"] /\ c = [a EXCEPT !.step = "late"]
      BY <2>8 DEF I!TimesOut
    <3>2. /\ b.session = a.session /\ b.step = "failed" /\ {"step", "session"} \subseteq DOMAIN b
          /\ c.session = a.session /\ c.step = "late" /\ {"step", "session"} \subseteq DOMAIN c
      BY <3>1, FoundOpen
    <3>3. crowded' = crowded \cup {a.session} /\ UNCHANGED <<session, wrote>>
      BY <2>8 DEF I!TimesOut
    <3>4. ImportsTyped'
      BY <2>0, <3>1, <3>2, <3>3, FoundOpen DEF ImportsTyped, ImportSteps
    <3>5. ASSUME NEW s \in Session \ crowded' PROVE SessionOK(s)'
      BY <3>1, <3>2, <3>3, <3>5, OtherSessions
    <3> QED BY <3>4, <3>5 DEF ImportsInv
  <2>9. ASSUME NEW a \in attempts, I!LateWrite(a) PROVE ImportsInv'
    <3>1. /\ a.step = "late" /\ I!End(a) /\ attempts' \subseteq attempts /\ UNCHANGED <<session, crowded>>
          /\ wrote' = wrote \/ wrote' = [wrote EXCEPT ![a.session] = @ + 1]
      BY <2>9 DEF I!LateWrite, I!End
    <3>2. ImportsTyped' /\ \A s \in Session \ {a.session} : wrote'[s] = wrote[s]
      BY <2>0, <3>1, FoundOpen DEF ImportsTyped
    <3> QED BY <3>1, <3>2, FoundOpen, AttemptEnds
  <2>10. ASSUME NEW a \in attempts, I!StoreResult(a) PROVE ImportsInv'
    <3>1. /\ a.step \in {"committed", "failed"} /\ I!End(a) /\ attempts' \subseteq attempts
          /\ session' = [session EXCEPT ![a.session].status = a.step] /\ UNCHANGED <<wrote, crowded>>
      BY <2>10 DEF I!StoreResult, I!End
    <3>2. /\ ImportsTyped' /\ session'[a.session].status = a.step
          /\ \A s \in Session \ {a.session} : session'[s] = session[s]
      BY <2>0, <3>1, FoundOpen DEF ImportsTyped
    <3> QED BY <3>1, <3>2, FoundOpen, AttemptEnds
  <2>11. ASSUME NEW a \in attempts, I!Crash(a) PROVE ImportsInv'
    <3>1. I!End(a) /\ crowded' = crowded \cup {a.session} /\ UNCHANGED <<session, wrote>>
      BY <2>11 DEF I!Crash
    <3>2. ImportsTyped'
      BY <2>0, <3>1 DEF ImportsTyped, I!End
    <3> QED BY <3>1, <3>2, AttemptEnds
  <2>12. CASE UNCHANGED I!vars
    BY <2>12 DEF I!vars, ImportsInv, ImportsTyped, SessionOK, Imported
  <2> QED
    BY <2>1, <2>2, <2>3, <2>4, <2>5, <2>6, <2>7, <2>8, <2>9, <2>10, <2>11, <2>12 DEF I!Next
<1> QED BY <1>1, <1>2, PTL DEF I!Spec

\* Of a session that two requests were not in at once, the file is imported once at
\* most, and what was imported is committed (assertNotCommitted, storeResult).
THEOREM ImportsCommitOnce ==
    I!Spec => [](\A s \in Session \ crowded : /\ wrote[s] <= 1
                                             /\ wrote[s] = 1 /\ (\A a \in attempts : a.session # s)
                                                   => session[s].status = "committed")
<1>1. ImportsInv => \A s \in Session \ crowded : /\ wrote[s] <= 1
                                                /\ wrote[s] = 1 /\ (\A a \in attempts : a.session # s)
                                                      => session[s].status = "committed"
  BY DEF ImportsInv, ImportsTyped, SessionOK, Imported
<1> QED BY <1>1, ImportsInvariant, PTL

\* If the sheet has a row to write whatever the table holds, as one with a valid first
\* row has, the status of such a session says whether its file was imported.
THEOREM StatusIsTrue ==
    ASSUME \A rs : Importable(rs) PROVE I!Spec => []I!StatusTellsTheTruth
<1>1. \A rs : Importable(rs)
  OBVIOUS
<1>2. ImportsInv => I!StatusTellsTheTruth
  BY <1>1 DEF ImportsInv, SessionOK, Imported, MayBeEmpty, I!StatusTellsTheTruth
<1> QED BY <1>2, ImportsInvariant, PTL

\* The composition does what its components do.
LEMMA Projections == Spec => F!Spec /\ I!Spec
<1>1. Init => F!Init /\ I!Init
  BY DEF Init
<1>2. [Next]_vars => [F!Next]_F!vars
  BY DEF Next, vars, fileVars, F!vars
<1>3. [Next]_vars => [I!Next]_I!vars
  BY DEF Next, vars, importVars, I!vars
<1> QED BY <1>1, <1>2, <1>3, PTL DEF Spec, F!Spec, I!Spec

\* What the run checks of files, and of the status of imports, holds of every instance.
THEOREM FilesAndImportsAreKept ==
    ASSUME \A rs : Importable(rs) PROVE Spec => [](FilesHold /\ I!StatusTellsTheTruth)
<1> QED BY FilesAreKept, StatusIsTrue, Projections, PTL

-----------------------------------------------------------------------------
(* The proposal of a mapping, for any columns and any hits.                  *)

\* What each pass keeps: a field has one column, an ambiguous column has no field.
Partial(p, columns) ==
    /\ p.field \in [columns -> Field \cup {Blank}] /\ p.ambiguous \subseteq columns
    /\ \A c, d \in columns : c # d /\ p.field[c] # Blank => p.field[c] # p.field[d]
    /\ \A c \in p.ambiguous : p.field[c] = Blank

\* A pass gives a field only to the one column that asks for it and leaves what
\* was given; a tier at which one column alone names a field, when nothing has been
\* given yet, gives it to that column.
LEMMA PassKeeps ==
    ASSUME Blank \notin Field, NEW columns, NEW hits, DOMAIN hits = columns, NEW tier,
           NEW p, Partial(p, columns),
           NEW q, q = I!Pass(p, hits, tier)
    PROVE  /\ Partial(q, columns)
           /\ \A c \in columns : p.field[c] # Blank => q.field[c] = p.field[c]
           /\ \A c \in columns, f \in Field :
                 /\ \A d \in columns : p.field[d] = Blank /\ d \notin p.ambiguous
                 /\ {d \in columns : f \in hits[d][tier]} = {c} /\ hits[c][tier] = {f}
                 => q.field[c] = f
<1> DEFINE open == {c \in DOMAIN hits : p.field[c] = Blank /\ c \notin p.ambiguous}
           claimed == {p.field[c] : c \in DOMAIN hits} \ {Blank}
           free(c) == hits[c][tier] \ claimed
           asks(f) == {c \in open : free(c) = {f}}
           above == {c \in open : I!Cardinality(free(c)) > 1}
           twice == UNION {asks(f) : f \in {g \in Field : I!Cardinality(asks(g)) > 1}}
           more == above \cup twice
           given(c) == IF \E f \in Field : asks(f) = {c} THEN CHOOSE f \in Field : asks(f) = {c} ELSE p.field[c]
<1>1. q = [field |-> [c \in DOMAIN hits |-> given(c)], ambiguous |-> p.ambiguous \cup above \cup twice]
  BY Zenon DEF I!Pass
<1>2. q.field = [c \in columns |-> given(c)] /\ q.ambiguous = p.ambiguous \cup more
  BY <1>1
<1>3. \A c, S : S = {c} => ~ (I!Cardinality(S) > 1)
  <2>1. \A c : I!Cardinality({c}) = 1
    BY FS_Singleton DEF I!Cardinality, Cardinality
  <2> QED BY <2>1
<1>4. ASSUME NEW c \in columns
      PROVE  \/ given(c) = p.field[c] /\ ~ \E f \in Field : asks(f) = {c}
             \/ given(c) \in Field /\ asks(given(c)) = {c}
  <2>1. CASE \E f \in Field : asks(f) = {c}
    <3>1. given(c) = CHOOSE f \in Field : asks(f) = {c}
      BY <2>1
    <3> HIDE DEF asks, given
    <3> QED BY <2>1, <3>1
  <2> QED BY <2>1
<1>5. ASSUME NEW f \in Field, NEW c, asks(f) = {c}
      PROVE  c \in open /\ free(c) = {f} /\ c \notin more /\ f \notin claimed
  <2>1. c \in asks(f)
    BY <1>5
  <2>2. c \in open /\ free(c) = {f} /\ f \notin claimed
    BY <2>1
  <2>3. ~ (I!Cardinality(free(c)) > 1)
    <3> HIDE DEF free
    <3> QED BY <1>3, <2>2
  <2>4. ASSUME NEW g \in Field, c \in asks(g) PROVE ~ (I!Cardinality(asks(g)) > 1)
    <3>1. free(c) = {g}
      BY <2>4
    <3>2. g = f
      BY <2>2, <3>1
    <3>3. asks(g) = {c}
      BY <1>5, <3>2
    <3> HIDE DEF asks
    <3> QED BY <1>3, <3>3
  <2> HIDE DEF open, free, asks, claimed
  <2> QED BY <2>2, <2>3, <2>4
<1>6. more \subseteq open /\ open \subseteq columns
  OBVIOUS
<1>7. ASSUME NEW c \in columns, given(c) # p.field[c]
      PROVE  c \in open /\ given(c) \in Field /\ given(c) \notin claimed /\ asks(given(c)) = {c} /\ c \notin more
  <2> HIDE DEF open, free, asks, claimed, given, more
  <2> QED BY <1>4, <1>5, <1>7
<1>8. \A c \in columns : p.field[c] # Blank => q.field[c] = p.field[c]
  <2> SUFFICES ASSUME NEW c \in columns, p.field[c] # Blank PROVE given(c) = p.field[c]
    BY <1>2
  <2>1. c \notin open
    OBVIOUS
  <2> HIDE DEF open, free, asks, claimed, given, more
  <2> QED BY <1>7, <2>1
<1>9. q.field \in [columns -> Field \cup {Blank}]
  <2>1. ASSUME NEW c \in columns PROVE given(c) \in Field \cup {Blank}
    <3>1. p.field[c] \in Field \cup {Blank}
      BY DEF Partial
    <3> HIDE DEF open, free, asks, claimed, given, more
    <3> QED BY <1>7, <3>1
  <2> HIDE DEF given
  <2> QED BY <1>2, <2>1
<1>10. ASSUME NEW c \in columns, NEW d \in columns, c # d, q.field[c] # Blank
       PROVE  q.field[c] # q.field[d]
  <2>0. q.field[c] = given(c) /\ q.field[d] = given(d)
    BY <1>2
  <2>1. \A x \in columns : p.field[x] # Blank => p.field[x] \in claimed
    OBVIOUS
  <2>2. \A x, y \in columns : x # y /\ p.field[x] # Blank => p.field[x] # p.field[y]
    BY DEF Partial
  <2> HIDE DEF open, free, asks, claimed, given, more
  <2>3. CASE given(c) = p.field[c] /\ given(d) = p.field[d]
    BY <1>10, <2>0, <2>2, <2>3
  <2>4. CASE given(c) = p.field[c] /\ given(d) # p.field[d]
    BY <1>7, <1>10, <2>0, <2>1, <2>4
  <2>5. CASE given(c) # p.field[c] /\ given(d) = p.field[d]
    BY <1>7, <1>10, <2>0, <2>1, <2>5
  <2>6. CASE given(c) # p.field[c] /\ given(d) # p.field[d]
    <3>1. asks(given(c)) = {c} /\ asks(given(d)) = {d}
      BY <1>7, <2>6
    <3> QED BY <1>10, <2>0, <3>1
  <2> QED BY <2>3, <2>4, <2>5, <2>6
<1>11. ASSUME NEW c \in q.ambiguous PROVE q.field[c] = Blank
  <2>1. c \in columns /\ p.field[c] = Blank
    BY <1>2, <1>6 DEF Partial
  <2>2. c \notin open \/ c \in more
    BY <1>2
  <2>3. q.field[c] = given(c)
    BY <1>2, <2>1
  <2> HIDE DEF open, free, asks, claimed, given, more
  <2> QED BY <1>7, <2>1, <2>2, <2>3
<1>12. Partial(q, columns)
  BY <1>2, <1>6, <1>9, <1>10, <1>11 DEF Partial
<1>13. ASSUME NEW c \in columns, NEW f \in Field,
              \A d \in columns : p.field[d] = Blank /\ d \notin p.ambiguous,
              {d \in columns : f \in hits[d][tier]} = {c}, hits[c][tier] = {f}
       PROVE  q.field[c] = f
  <2>1. claimed = {} /\ open = columns
    BY <1>13
  <2>2. \A d \in columns : free(d) = hits[d][tier]
    BY <2>1
  <2>3. asks(f) = {c}
    <3>1. \A d \in columns : d \in asks(f) <=> hits[d][tier] = {f}
      BY <2>1, <2>2
    <3>2. \A d \in columns : f \in hits[d][tier] => d = c
      BY <1>13
    <3>3. asks(f) \subseteq columns
      OBVIOUS
    <3> HIDE DEF asks
    <3> QED BY <1>13, <3>1, <3>2, <3>3
  <2>4. q.field[c] = given(c)
    BY <1>2
  <2> HIDE DEF open, free, asks, claimed, given, more
  <2>5. asks(given(c)) = {c} /\ given(c) \in Field
    BY <1>4, <2>3
  <2>6. free(c) = {f} /\ free(c) = {given(c)}
    BY <1>5, <2>3, <2>5
  <2> QED BY <2>4, <2>6
<1> QED BY <1>8, <1>12, <1>13

\* proposeMapping: whatever the headings hit, no field is given to two columns,
\* an ambiguous column stays open, and a heading that alone names a field gets it.
THEOREM ProposalsAreSound ==
    ASSUME Blank \notin Field, NEW columns,
           NEW hits \in [columns -> [exact : SUBSET Field, alias : SUBSET Field, fuzzy : SUBSET Field]]
    PROVE  I!Sound(hits, I!ProposeMapping(hits))
<1> DEFINE start == [field |-> [c \in DOMAIN hits |-> Blank], ambiguous |-> {}]
<1>0. DOMAIN hits = columns
  OBVIOUS
<1>1. /\ Partial(start, columns)
      /\ \A d \in columns : start.field[d] = Blank /\ d \notin start.ambiguous
  BY <1>0 DEF Partial
<1>2. PICK p : p = I!Pass(start, hits, "exact")
  OBVIOUS
<1>3. PICK q : q = I!Pass(p, hits, "alias")
  OBVIOUS
<1>4. PICK r : r = I!Pass(q, hits, "fuzzy")
  OBVIOUS
<1>5. r = I!ProposeMapping(hits)
  BY <1>2, <1>3, <1>4 DEF I!ProposeMapping
<1> HIDE DEF start
<1>6. /\ Partial(p, columns)
      /\ \A c \in columns, f \in Field :
            {d \in columns : f \in hits[d]["exact"]} = {c} /\ hits[c]["exact"] = {f} => p.field[c] = f
  BY <1>0, <1>1, <1>2, PassKeeps
<1>7. Partial(q, columns) /\ \A c \in columns : p.field[c] # Blank => q.field[c] = p.field[c]
  BY <1>0, <1>3, <1>6, PassKeeps
<1>8. Partial(r, columns) /\ \A c \in columns : q.field[c] # Blank => r.field[c] = q.field[c]
  BY <1>0, <1>4, <1>7, PassKeeps
<1>9. \A c \in columns, f \in Field :
         {d \in columns : f \in hits[d]["exact"]} = {c} /\ hits[c]["exact"] = {f} => r.field[c] = f
  BY <1>6, <1>7, <1>8
<1>10. I!ResolveMapping(r.field, {})
  BY <1>8 DEF Partial, I!ResolveMapping
<1> QED BY <1>0, <1>5, <1>8, <1>9, <1>10 DEF I!Sound, Partial

\* The proposal the run looks at is sound in every behaviour.
THEOREM ProposalStaysSound ==
    ASSUME Blank \notin Field, {"email", "name"} \subseteq Field
    PROVE  Spec => []ProposalIsSound
<1>1. Init => ProposalIsSound
  <2> SUFFICES ASSUME Init, sample[1] = "headings"
               PROVE  I!Sound(sample[2], I!ProposeMapping(sample[2]))
    BY DEF ProposalIsSound
  <2>1. sample \in Headings
    <3>1. sample \notin Sheets
      BY DEF Sheets
    <3>2. sample \notin Names
      BY DEF Names
    <3>3. sample \notin Dates
      BY DEF Dates
    <3>4. sample \notin Lists
      BY DEF Lists
    <3>5. sample # <<"none">>
      OBVIOUS
    <3>6. sample = <<"none">> \/ sample \in Sheets \cup Headings \cup Names \cup Dates \cup Lists
      BY DEF Init
    <3> QED BY Zenon, <3>1, <3>2, <3>3, <3>4, <3>5, <3>6
  <2>2. ASSUME NEW h \in Heading
        PROVE  h \in [exact : SUBSET Field, alias : SUBSET Field, fuzzy : SUBSET Field]
    <3>1. PICK e, a, f \in SUBSET {"email", "name"} : h = [exact |-> e, alias |-> a, fuzzy |-> f]
      BY DEF Heading, Hit
    <3> QED BY <3>1
  <2>3. PICK a, b, c \in Heading : sample = <<"headings", <<a, b, c>>>>
    BY <2>1 DEF Headings
  <2>4. sample[2] \in [1..3 -> [exact : SUBSET Field, alias : SUBSET Field, fuzzy : SUBSET Field]]
    BY <2>2, <2>3
  <2> QED BY <2>4, ProposalsAreSound
<1>2. ProposalIsSound /\ [Next]_vars => ProposalIsSound'
  <2>1. ASSUME [Next]_vars PROVE sample' = sample
    BY <2>1 DEF Next, vars
  <2> QED BY <2>1 DEF ProposalIsSound
<1> QED BY <1>1, <1>2, PTL DEF Spec
=============================================================================
