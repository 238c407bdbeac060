-------------------------------- MODULE Files --------------------------------
(***************************************************************************)
(* Uploaded files and their bytes (src/services/uploaded-file.service.ts,  *)
(* storage.service.ts, storage-local.ts, storage-keys.ts, src/api/routes/  *)
(* files and storage-local).  A managed upload has a row with a review     *)
(* status and an object "uploads/<org>/<uuid>"; a raw object has only its  *)
(* key "org/<org>/<name>".  The local driver keeps an object and its       *)
(* content type in two files, written and removed one after the other.     *)
(***************************************************************************)
EXTENDS Naturals, FiniteSets, Bags

CONSTANTS
    User, Org, OrgOf,    \* OrgOf[u]: the organization of a user
    Reviewer,            \* users whose role has files.review
    Name,                \* file ids and raw names
    Body, Nothing,
    MaxRequests, MaxLinks, MaxFaults   \* bounds

VARIABLES
    r2,         \* isR2Configured
    objects,    \* objects[k]: bytes, or Nothing
    types,      \* types[k]: stored content type, or Nothing
    rows,       \* uploaded_files, by id
    requests,   \* handlers under way: step, key, user, body, type
    links,      \* signed URLs that were given out
    uploaded,   \* uploaded[n]: the bytes of the accepted upload n
    approved,   \* ids that were approved at some time
    served,     \* <<user, key, bytes>> of managed uploads read through a link
    faults

vars == <<r2, objects, types, rows, requests, links, uploaded, approved, served, faults>>

Key == [space : {"uploads", "org"}, org : Org, name : Name]
NoRow == [org |-> Nothing, by |-> Nothing, status |-> "none", type |-> Nothing]

TypeOK ==
    /\ r2 \in BOOLEAN /\ faults \in 0..MaxFaults
    /\ objects \in [Key -> Body \cup {Nothing}] /\ types \in [Key -> {"pdf", "png", Nothing}]
    /\ rows \in [Name -> [org : Org \cup {Nothing}, by : User \cup {Nothing},
                          status : {"none", "pending_review", "approved", "rejected"}, type : {"pdf", "png", Nothing}]]
    /\ uploaded \in [Name -> Body \cup {Nothing}] /\ approved \subseteq Name

Init ==
    /\ r2 \in BOOLEAN
    /\ objects = [k \in Key |-> Nothing] /\ types = [k \in Key |-> Nothing]
    /\ rows = [n \in Name |-> NoRow] /\ requests = EmptyBag /\ links = {}
    /\ uploaded = [n \in Name |-> Nothing] /\ approved = {} /\ served = {} /\ faults = 0

-----------------------------------------------------------------------------
(* Keys and types. *)

\* managedUploadKey: a fresh uuid under the organization.
ManagedUploadKey(o, n) == [space |-> "uploads", org |-> o, name |-> n]

\* Mutant of OrgScopedRawKey: a key of the caller's organization is its own.
OwnKey(asked, o) == IF asked.org = o THEN asked ELSE Nothing

\* orgScopedRawKey: a managed upload is never reached by its key, and a key of
\* another organization is refused.  A bare name is put under org/<mine>/.
OrgScopedRawKey(asked, o) ==
    IF asked.space = "uploads" \/ asked.org # o THEN Nothing ELSE asked

\* checkUpload: extension and content type are both on the allowlist and agree.
AssertAllowedUpload(extension, contentType) == extension \in {"pdf", "png"} /\ contentType = extension

\* canReadUploadedFile, canDeleteUploadedFile.
CanRead(u, f) == f.org = OrgOf[u] /\ (f.status = "approved" \/ f.by = u \/ u \in Reviewer)
CanDelete(u, f) == f.org = OrgOf[u] /\ (f.by = u \/ u \in Reviewer)

\* Mutant of CanRead: only a rejected file is held back.
CanReadUnlessRejected(u, f) == f.org = OrgOf[u] /\ (f.status # "rejected" \/ f.by = u \/ u \in Reviewer)

-----------------------------------------------------------------------------
(* Handlers in steps. *)

Handler(step, key, u, b, t) == [step |-> step, key |-> key, user |-> u, body |-> b, type |-> t]
Begin(h) == BagCardinality(requests) < MaxRequests /\ requests' = requests (+) SetToBag({h})
End(h) == requests' = requests (-) SetToBag({h})
GoOn(h, step) == requests' = (requests (-) SetToBag({h})) (+) SetToBag({[h EXCEPT !.step = step]})
Quiet == UNCHANGED <<r2, links, uploaded, approved, served, faults>>

\* POST /uploads: the allowlist first, then storeUploadedFile under a new key.
Upload(u, n, b, extension, contentType) ==
    /\ AssertAllowedUpload(extension, contentType)
    /\ uploaded[n] = Nothing
    /\ Begin(Handler("put", ManagedUploadKey(OrgOf[u], n), u, b, extension))
    /\ uploaded' = [uploaded EXCEPT ![n] = b]
    /\ UNCHANGED <<r2, objects, types, rows, links, approved, served, faults>>

\* POST /upload and a PUT through a signed URL write under a raw key.
RawUpload(u, asked, b, extension, contentType) ==
    LET key == OrgScopedRawKey(asked, OrgOf[u]) IN
    /\ AssertAllowedUpload(extension, contentType) /\ key # Nothing
    /\ Begin(Handler("put", key, u, b, extension))
    /\ UNCHANGED <<objects, types, rows>> /\ Quiet

\* putObject: R2 stores bytes and type in one request, the local driver the
\* bytes first (writeLocalObject).
PutObject(h) ==
    /\ h.step = "put"
    /\ objects' = [objects EXCEPT ![h.key] = h.body]
    /\ types' = IF r2 THEN [types EXCEPT ![h.key] = h.type] ELSE types
    /\ GoOn(h, IF r2 THEN "stored" ELSE "describe")
    /\ UNCHANGED rows /\ Quiet
WriteMeta(h) ==
    /\ h.step = "describe" /\ GoOn(h, "stored")
    /\ types' = [types EXCEPT ![h.key] = h.type]
    /\ UNCHANGED <<objects, rows>> /\ Quiet

\* The rest of storeUploadedFile: the row, inserted once the bytes are there.
InsertRow(h) ==
    /\ h.step = "stored" /\ End(h)
    /\ rows' = IF h.key.space = "org" THEN rows
               ELSE [rows EXCEPT ![h.key.name] =
                        [org |-> h.key.org, by |-> h.user, status |-> "pending_review", type |-> h.type]]
    /\ UNCHANGED <<objects, types>> /\ Quiet

\* The insert fails and the object is taken back.
InsertFails(h) ==
    /\ h.step = "stored" /\ h.key.space = "uploads" /\ GoOn(h, "erase")
    /\ UNCHANGED <<objects, types, rows>> /\ Quiet

\* DELETE /uploads/:id: the file is read and checked...
CheckDelete(u, n) ==
    /\ CanDelete(u, rows[n])
    /\ Begin(Handler("drop", ManagedUploadKey(rows[n].org, n), u, Nothing, Nothing))
    /\ UNCHANGED <<objects, types, rows>> /\ Quiet

\* Mutant of DeleteRow: the bytes go first.
DeleteBytesFirst(h) ==
    /\ h.step = "drop" /\ GoOn(h, "erase")
    /\ objects' = [objects EXCEPT ![h.key] = Nothing]
    /\ UNCHANGED <<types, rows>> /\ Quiet

\* ... deleteUploadedFile removes the row, and then the bytes of the row it removed.
DeleteRow(h) ==
    /\ h.step = "drop"
    /\ IF rows[h.key.name] = NoRow THEN End(h) /\ UNCHANGED rows
       ELSE GoOn(h, "erase") /\ rows' = [rows EXCEPT ![h.key.name] = NoRow]
    /\ UNCHANGED <<objects, types>> /\ Quiet

\* DELETE /: a raw object.
RawDelete(u, asked) ==
    LET key == OrgScopedRawKey(asked, OrgOf[u]) IN
    /\ key # Nothing /\ Begin(Handler("erase", key, u, Nothing, Nothing))
    /\ UNCHANGED <<objects, types, rows>> /\ Quiet

\* deleteObject: one request to R2, two removals for deleteLocalObject.
DeleteObject(h) ==
    /\ h.step = "erase"
    /\ objects' = [objects EXCEPT ![h.key] = Nothing]
    /\ types' = IF r2 THEN [types EXCEPT ![h.key] = Nothing] ELSE types
    /\ IF r2 THEN End(h) ELSE GoOn(h, "forget")
    /\ UNCHANGED rows /\ Quiet
RemoveMeta(h) ==
    /\ h.step = "forget" /\ End(h)
    /\ types' = [types EXCEPT ![h.key] = Nothing]
    /\ UNCHANGED <<objects, rows>> /\ Quiet

\* The storage refuses or the process ends: what was written stays.
Fails(h) ==
    /\ faults < MaxFaults /\ faults' = faults + 1 /\ End(h)
    /\ UNCHANGED <<r2, objects, types, rows, links, uploaded, approved, served>>

-----------------------------------------------------------------------------
(* Review and links. *)

\* recordDecision, of approveUploadedFile and rejectUploadedFile: the last one holds.
RecordDecision(u, n, status) ==
    /\ u \in Reviewer /\ rows[n].org = OrgOf[u]
    /\ rows' = [rows EXCEPT ![n].status = status]
    /\ approved' = IF status = "approved" THEN approved \cup {n} ELSE approved
    /\ UNCHANGED <<r2, objects, types, requests, links, uploaded, served, faults>>

Give(method, key, u, t) ==
    /\ links' = links \cup {[method |-> method, key |-> key, user |-> u, type |-> t]}
    /\ Cardinality(links') <= MaxLinks
    /\ UNCHANGED <<r2, objects, types, rows, requests, uploaded, approved, served, faults>>

\* GET /uploads/:id/download-url.
UploadedFileDownloadUrl(u, n) ==
    CanRead(u, rows[n]) /\ Give("GET", ManagedUploadKey(rows[n].org, n), u, Nothing)

\* POST /download-url and POST /upload-url, for raw objects.
RawDownloadUrl(u, asked) ==
    LET key == OrgScopedRawKey(asked, OrgOf[u]) IN key # Nothing /\ Give("GET", key, u, Nothing)
RawUploadUrl(u, asked, extension, contentType) ==
    LET key == OrgScopedRawKey(asked, OrgOf[u]) IN
    key # Nothing /\ AssertAllowedUpload(extension, contentType) /\ Give("PUT", key, u, contentType)

\* verifyLocalSignedUrl and R2 refuse a link from some time on.
LinkExpires(l) ==
    /\ links' = links \ {l}
    /\ UNCHANGED <<r2, objects, types, rows, requests, uploaded, approved, served, faults>>

\* GET through a link (readLocalObject): whatever has become of the row since.
FollowGet(l) ==
    /\ l.method = "GET" /\ objects[l.key] # Nothing
    /\ served' = IF l.key.space = "org" THEN served ELSE served \cup {<<l.user, l.key, objects[l.key]>>}
    /\ UNCHANGED <<r2, objects, types, rows, requests, links, uploaded, approved, faults>>

\* PUT through a link: with the content type that was signed.
FollowPut(l, b) ==
    /\ l.method = "PUT" /\ Begin(Handler("put", l.key, l.user, b, l.type))
    /\ UNCHANGED <<objects, types, rows>> /\ Quiet

Next ==
    \/ \E u \in User, n \in Name :
        \/ CheckDelete(u, n) \/ UploadedFileDownloadUrl(u, n)
        \/ \E status \in {"approved", "rejected"} : RecordDecision(u, n, status)
        \/ \E b \in Body, e \in {"pdf", "exe"}, t \in {"pdf", "png"} : Upload(u, n, b, e, t)
    \/ \E u \in User, asked \in Key :
        \/ RawDelete(u, asked) \/ RawDownloadUrl(u, asked)
        \/ \E b \in Body : RawUpload(u, asked, b, "png", "png")
        \/ \E e \in {"png", "exe"} : RawUploadUrl(u, asked, e, "png")
    \/ \E h \in BagToSet(requests) :
        \/ PutObject(h) \/ WriteMeta(h) \/ InsertRow(h) \/ InsertFails(h) \/ DeleteRow(h)
        \/ DeleteObject(h) \/ RemoveMeta(h) \/ Fails(h)
    \/ \E l \in links : FollowGet(l) \/ LinkExpires(l) \/ (\E b \in Body : FollowPut(l, b))

Spec == Init /\ [][Next]_vars

-----------------------------------------------------------------------------
(* Properties. *)

\* No row points at nothing, or at other bytes than those that were checked:
\* whatever fails or runs together, a row has its object and its type.
RowsKeepTheirBytes ==
    \A n \in Name : rows[n] # NoRow =>
        LET k == ManagedUploadKey(rows[n].org, n) IN objects[k] = uploaded[n] /\ types[k] = rows[n].type

\* Of a managed upload nobody but its uploader and a reviewer has read bytes
\* before an approval, nor bytes that were put in place of the reviewed ones.
StrangersSeeReviewedBytes ==
    \A s \in served :
        /\ s[3] = uploaded[s[2].name] /\ s[2].org = OrgOf[s[1]]
        /\ s[1] \in Reviewer \/ s[2].name \in approved \/ rows[s[2].name].by \in {s[1], Nothing}

\* Without a failure no bytes are left behind by a file that is gone.
NothingLeftBehind ==
    \A k \in Key : k.space = "uploads" /\ faults = 0 /\ rows[k.name] = NoRow
                   /\ (\A h \in BagToSet(requests) : h.key # k) => objects[k] = Nothing /\ types[k] = Nothing

-----------------------------------------------------------------------------
(* What the repository says and the code does not do. *)

\* storage-local.ts keeps the type beside the object; two PUTs through signed
\* URLs to one raw key can leave the bytes of one with the type of the other.
TypeBelongsToBytes == \A k \in Key : objects[k] = Nothing <=> types[k] = Nothing
=============================================================================
