----------------------------- MODULE Breadcrumbs -----------------------------
(***************************************************************************)
(* The development trail: the page's hooks record what happens in it       *)
(* (web/src/lib/observability/breadcrumbs.ts) and send it in batches to    *)
(* the collector route, which appends each event to a rotating journal     *)
(* (src/observability) beside what the server records about itself         *)
(* (lib/logger.ts, lib/dev-activity.ts, the request-timing middleware).    *)
(* Times are ticks; a crumb is its number in the order of recording.       *)
(***************************************************************************)
EXTENDS Naturals, Sequences, FiniteSets, SequencesExt

CONSTANTS
    Cap, FlushAfter,          \* BATCH_SIZE_CAP, BATCH_FLUSH_MS
    Throttle, Every,          \* the snapshot's THROTTLE_MS and TIMER_MS
    Threshold,                \* ROTATION_THRESHOLD_BYTES, in lines
    Ring,                     \* MAX_REQUESTS
    MaxActs, MaxTime          \* bounds: what happens in the page, ticks

VARIABLES
    queue, handle,            \* crumbs not sent; flushTimer is set
    due,                      \* when the browser's flush timer fires, 0 for none
    recorded, acts,           \* crumbs recorded; what the page did that a hook sees
    page,                     \* "visible", "hidden", "cached" (bfcache) or "gone"
    calls,                    \* requests of the app under way
    lastEmit, routeDue, now,  \* the snapshot's throttle, a route's snapshot, the clock
    wire,                     \* batches under way
    writable, disabled,       \* the process may write; writeDisabled
    journal, rotated,         \* the current file and the ones renamed away, lines in order
    requests                  \* REQUESTS, newest first

vars == <<queue, handle, due, recorded, acts, page, calls, lastEmit, routeDue, now, wire,
          writable, disabled, journal, rotated, requests>>
client == <<queue, handle, due, recorded, wire>>
clock == <<lastEmit, routeDue, now>>
server == <<writable, disabled, journal, rotated, requests>>

Server == 0                   \* a line the server records about itself
Running == page \in {"visible", "hidden"}

-----------------------------------------------------------------------------
\* Mutant of Flush: the handle of a timer that fired is kept.
FlushKeepsHandle(q) == [queue |-> <<>>, handle |-> TRUE, due |-> 0, batch |-> q]

\* flush(): the timer is cleared and the queue leaves in one request.
Flush(q) == [queue |-> <<>>, handle |-> FALSE, due |-> 0, batch |-> q]

\* A batch leaves the page, through originalFetch or a beacon: no hook sees it.
Post(batch) == IF batch = <<>> THEN wire ELSE wire \cup {batch}

\* record(): what becomes of a queue, its timer and the wire when crumb c is put in.
Put(s, c) ==
    IF Len(s.queue) + 1 >= Cap
    THEN LET f == Flush(Append(s.queue, c)) IN
         [queue |-> f.queue, handle |-> f.handle, due |-> f.due, wire |-> s.wire \cup {f.batch}]
    ELSE [queue |-> Append(s.queue, c), handle |-> TRUE,
          due |-> IF s.handle THEN s.due ELSE now + FlushAfter, wire |-> s.wire]
\* The crumbs that one callback records, of which there are at most two; what a hook
\* serialises of its arguments, bodies and elements is left out.
Record(crumbs) ==
    LET none == [queue |-> queue, handle |-> handle, due |-> due, wire |-> wire]
        one == Put(none, recorded + 1)
        end == CASE crumbs = 0 -> none [] crumbs = 1 -> one [] crumbs = 2 -> Put(one, recorded + 2)
    IN /\ queue' = end.queue /\ handle' = end.handle /\ due' = end.due /\ wire' = end.wire
       /\ recorded' = recorded + crumbs

\* snapshotDom: the page's digest, or a throw that only the console hears of.
SnapshotDom == {0, 1}
\* maybeEmit: hidden pages and recent snapshots are skipped; the throttle counts a throw.
MaybeEmit(last, hidden, crumbs) ==
    IF hidden \/ now < last + Throttle
    THEN Record(crumbs) /\ lastEmit' = last
    ELSE \E n \in SnapshotDom : Record(n + crumbs) /\ lastEmit' = now

Does == Running /\ acts < MaxActs /\ acts' = acts + 1

-----------------------------------------------------------------------------
(* The hooks. *)

\* What installing the hooks records: the snapshot of the stores and the session's start.
FirstCrumbs == <<1, 2>>
Init ==
    /\ queue = FirstCrumbs /\ handle = TRUE /\ due = FlushAfter + 1 /\ recorded = 2 /\ acts = 2
    /\ page = "visible" /\ calls = 0 /\ lastEmit = 0 /\ routeDue = 0 /\ now = 1 /\ wire = {}
    /\ writable \in BOOLEAN /\ disabled = FALSE /\ journal = <<>> /\ rotated = <<>> /\ requests = <<>>

\* A crumb at once: window errors and rejections, clicks, the 404 page.
Instant == Does /\ Record(1) /\ UNCHANGED <<page, calls, clock, server>>
ErrorHooks == Instant
ClickHook == Instant
RecordClientRoute404 == Instant
\* console.*: the dispatcher's own lines carry a prefix and are passed on.
ConsoleHook(own) ==
    /\ Does /\ Record(IF own THEN 0 ELSE 1) /\ UNCHANGED <<page, calls, clock, server>>
\* A list of performance entries, some of them not worth a crumb.
PerfHook(entries) == Does /\ Record(entries) /\ UNCHANGED <<page, calls, clock, server>>
\* A storage write through the patched setItem, removeItem and clear, or another tab's event.
StorageChanges == Does /\ Record(1) /\ UNCHANGED <<page, calls, clock, server>>
\* A fetch or an XHR is sent.
RequestStarts == Does /\ calls' = calls + 1 /\ UNCHANGED <<client, page, clock, server>>
\* The app itself asks the collector: the hooks step aside.
AsksCollector == Does /\ UNCHANGED <<client, page, calls, clock, server>>
\* pushState, replaceState, popstate: a crumb, and a snapshot a moment later.
RouteChanges ==
    /\ Does /\ Record(1) /\ routeDue' = now + 1 /\ UNCHANGED <<page, calls, lastEmit, now, server>>
RouteSnapshot ==
    /\ Running /\ routeDue # 0 /\ now >= routeDue /\ routeDue' = 0
    /\ MaybeEmit(0, page = "hidden", 0) /\ UNCHANGED <<acts, page, calls, now, server>>
\* Visibility: the snapshot hook's listener runs before the session's.
Visibility ==
    /\ Does /\ page' = IF page = "visible" THEN "hidden" ELSE "visible"
    /\ IF page = "visible" THEN Record(1) /\ UNCHANGED lastEmit ELSE MaybeEmit(0, FALSE, 1)
    /\ UNCHANGED <<calls, routeDue, now, server>>

\* Mutant of PageHide: the last crumb is recorded after the beacon left.
PageHideSendsFirst(to) ==
    /\ Does /\ page' = to
    /\ recorded' = recorded + 1 /\ queue' = <<recorded + 1>> /\ wire' = Post(queue)
    /\ UNCHANGED <<handle, due, calls, clock, server>>

\* pagehide: one more crumb and flushSync, which leaves the timer as it is.
PageHide(to) ==
    /\ Does /\ page' = to
    /\ recorded' = recorded + 1 /\ queue' = <<>> /\ wire' = Post(Append(queue, recorded + 1))
    /\ LET full == Len(queue) + 1 >= Cap IN
       handle' = ~ full /\ due' = CASE full -> 0 [] handle -> due [] OTHER -> now + FlushAfter
    /\ UNCHANGED <<calls, clock, server>>
\* A page that comes back from the cache goes on with its timers.
PageShow == page = "cached" /\ page' = "visible" /\ UNCHANGED <<client, acts, calls, clock, server>>

\* The flush timer fires.
FlushTimer ==
    /\ Running /\ due # 0 /\ now >= due
    /\ LET f == Flush(queue) IN
       /\ queue' = f.queue /\ handle' = f.handle /\ due' = f.due /\ wire' = Post(f.batch)
    /\ UNCHANGED <<recorded, acts, page, calls, clock, server>>
\* The clock: a frozen page's time does not run; the interval takes a snapshot.
Tick ==
    /\ Running /\ now < MaxTime /\ now' = now + 1
    /\ (due # 0 => now < due) /\ (routeDue # 0 => now < routeDue)
    /\ IF now % Every = 0 THEN MaybeEmit(lastEmit, page = "hidden", 0) ELSE UNCHANGED <<client, lastEmit>>
    /\ UNCHANGED <<acts, page, calls, routeDue, server>>

-----------------------------------------------------------------------------
(* The collector and the journal. *)

\* Mutant of Current: the line that finds a file full is lost with it.
CurrentLoses(all, full) == IF full = 0 THEN all ELSE SubSeq(all, full + 2, Len(all))

\* The lines of the current file, when the first `full` of all were renamed away.
Current(all, full) == SubSeq(all, full + 1, Len(all))
\* appendLineSync with maybeRotateSync, line by line: before a line is written to a
\* file that has its number of lines, the file is renamed away.
AppendLines(lines) ==
    LET all == journal \o lines IN
    IF writable
    THEN \E full \in {n \in 0 .. Len(all) - 1 : n % Threshold = 0 /\ Len(all) - n <= Threshold} :
            /\ rotated' = rotated \o SubSeq(all, 1, full) /\ journal' = Current(all, full)
            /\ UNCHANGED disabled
    ELSE disabled' = TRUE /\ UNCHANGED <<journal, rotated>>

\* recordRequest: the ring buffer.
RecordRequest(r) == requests' = SubSeq(<<r>> \o requests, 1, IF Len(requests) < Ring THEN Len(requests) + 1 ELSE Ring)
\* A line of the logger: printed, and recorded as a server event.
LogLine == <<Server>>
\* The lines of a request, as its middleware unwinds: the recent activity's
\* (and its error's), then the request timing's log line.
OfRequest(thrown) == (IF thrown THEN <<Server, Server>> ELSE <<Server>>) \o LogLine

\* The app's request ends, answered, thrown or never served, and its crumb is recorded.
RequestEnds(end) ==
    /\ Running /\ calls > 0 /\ calls' = calls - 1 /\ Record(1)
    /\ IF end = "unserved" THEN UNCHANGED server
       ELSE AppendLines(OfRequest(end = "thrown")) /\ RecordRequest("call") /\ UNCHANGED writable
    /\ UNCHANGED <<acts, page, clock>>

\* A batch arrives: its events, then the request's own lines.
Collect(batch) ==
    /\ wire' = wire \ {batch}
    /\ AppendLines(batch \o OfRequest(FALSE)) /\ RecordRequest("post")
    /\ UNCHANGED <<queue, handle, due, recorded, acts, page, calls, clock, writable>>
\* A batch is lost: flush only warns, through the original console.
Lose(batch) ==
    /\ wire' = wire \ {batch} /\ UNCHANGED <<queue, handle, due, recorded, acts, page, calls, clock, server>>

Next ==
    \/ \E own \in BOOLEAN : ConsoleHook(own)
    \/ \E n \in 0..2 : PerfHook(n)
    \/ \E end \in {"answered", "thrown", "unserved"} : RequestEnds(end)
    \/ ErrorHooks \/ ClickHook \/ RecordClientRoute404 \/ StorageChanges \/ RequestStarts \/ AsksCollector \/ RouteChanges \/ RouteSnapshot
    \/ Visibility \/ PageShow \/ FlushTimer \/ Tick
    \/ \E to \in {"cached", "gone"} : PageHide(to)
    \/ \E b \in wire : Collect(b) \/ Lose(b)
Spec == Init /\ [][Next]_vars

TypeOK ==
    /\ queue \in Seq(1..recorded) /\ handle \in BOOLEAN /\ due \in 0..(MaxTime + FlushAfter)
    /\ page \in {"visible", "hidden", "cached", "gone"} /\ disabled \in BOOLEAN

-----------------------------------------------------------------------------
\* A crumb waits for a timer that will fire: whatever mixture of timers, full
\* batches and beacons sent the ones before it, none is stranded in the queue
\* (and none at all when the page goes), and a batch is never larger than the cap.
QueueIsWatched ==
    /\ queue # <<>> => due # 0 /\ page # "gone"
    /\ \A b \in wire : Len(b) <= Cap
\* Across the rotations of the journal a crumb is written at most once and never
\* while its batch is still under way, no line of a batch that arrived is missing
\* (the last one, the request's own, included), and no file outgrows the threshold.
JournalIsATrail ==
    LET lines == rotated \o journal
        Count(l) == Cardinality({i \in DOMAIN lines : lines[i] = l})
    IN /\ \A c \in 1..recorded : Count(c) <= 1
       /\ \A b \in wire : ToSet(b) \cap ToSet(lines) = {}
       /\ writable => Count(Server) >= 2 * Len(requests)
       /\ Len(journal) <= Threshold

-----------------------------------------------------------------------------
\* What keeps the trail: crumbs go out in the order of recording, so what is queued is
\* the newest of them, what is under way and what is written is older, each in one
\* place; and a queue that is not empty has its timer.
InOrder(q, last) ==
    /\ q \in Seq(Nat) /\ Len(q) <= last /\ Len(q) < Cap
    /\ \A i \in DOMAIN q : q[i] = last - Len(q) + i
Apart(w, lines, sent) ==
    /\ \A b \in w :
         /\ b \in Seq(Nat) /\ Len(b) <= Cap
         /\ \A i \in DOMAIN b : 0 < b[i] /\ b[i] <= sent
         /\ \A i, j \in DOMAIN b : b[i] = b[j] => i = j
         /\ \A c \in w : b # c => \A i \in DOMAIN b, j \in DOMAIN c : b[i] # c[j]
         /\ \A i \in DOMAIN b, j \in DOMAIN lines : b[i] # lines[j]
    /\ \A i \in DOMAIN lines : lines[i] <= sent
    /\ \A i, j \in DOMAIN lines : lines[i] = lines[j] => i = j \/ lines[i] = Server
Timed(q, h, d) == h \in BOOLEAN /\ d \in Nat /\ (h => d # 0) /\ (q # <<>> => h)
Answered(lines, served) == Cardinality({i \in DOMAIN lines : lines[i] = Server}) >= 2 * Len(served)
Lines == rotated \o journal
TrailInv ==
    /\ recorded \in Nat /\ now \in Nat /\ writable \in BOOLEAN
    /\ journal \in Seq(Nat) /\ rotated \in Seq(Nat) /\ Len(journal) <= Threshold
    /\ InOrder(queue, recorded) /\ Apart(wire, Lines, recorded - Len(queue)) /\ Timed(queue, handle, due)
    /\ (page = "gone" => queue = <<>>)
    /\ requests \in Seq({"call", "post"})
    /\ (writable => Answered(Lines, requests))

=============================================================================
