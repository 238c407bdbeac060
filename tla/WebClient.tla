------------------------------ MODULE WebClient ------------------------------
(***************************************************************************)
(* The web client's view of the server (web/src/lib/query.svelte.ts,       *)
(* context-switch.svelte.ts, api.ts, the auth and organization stores,     *)
(* App.svelte): a cache of queries whose keys carry no tenant, fetches     *)
(* that land late, and the sign-ins and sign-outs that change whose data   *)
(* the one tab shows.                                                      *)
(***************************************************************************)
EXTENDS Naturals, FiniteSets, FiniteSetsExt

CONSTANTS
    User, Query,         \* accounts, each the only one of its tenant; cache keys
    MaxCalls,            \* bound: fetches under way
    MaxSwitches, MaxWrites  \* bounds: context switches; writes of a tenant's data

VARIABLES
    cookie,    \* whose session the browser's cookie is, {} or one user
    user,      \* authStore.user, {} or one
    page,      \* the route shown: "public" or "app"
    epoch,     \* contextSwitch.epoch
    entry,     \* entry[q]: the cache
    calls,     \* fetches of queries under way
    version,   \* version[u]: what the server holds for u's tenant
    acks,      \* the client's writes not yet answered
    org,       \* organization store: whose organization it holds, {} or one
    orgCalls,  \* whose session fetchOrg's pending requests were sent with
    leaving    \* logout has been answered by the server or has failed

vars == <<cookie, user, page, epoch, entry, calls, version, acks, org, orgCalls, leaving>>

\* A result: whose session asked, the version the server read, the epoch of the request.
Result == [who : User, version : 0..MaxWrites, epoch : 0..MaxSwitches]
Entry == [data : SUBSET Result, fresh : BOOLEAN, active : BOOLEAN, gen : 0..MaxSwitches, inFlight : BOOLEAN]
Call == [id : 1..MaxCalls, q : Query, gen : 0..MaxSwitches, epoch : 0..MaxSwitches, who : SUBSET User,
         answer : SUBSET Result, served : BOOLEAN]

TypeOK ==
    /\ cookie \in SUBSET User /\ user \in SUBSET User /\ page \in {"public", "app"} /\ epoch \in 0..MaxSwitches
    /\ entry \in [Query -> Entry] /\ calls \subseteq Call /\ version \in [User -> 0..MaxWrites] /\ acks \in {0, 1}
    /\ org \in SUBSET User /\ orgCalls \subseteq SUBSET User /\ leaving \in BOOLEAN

Init ==
    /\ cookie = {} /\ user = {} /\ page = "public" /\ epoch = 0
    /\ entry = [q \in Query |-> [data |-> {}, fresh |-> FALSE, active |-> FALSE, gen |-> 0, inFlight |-> FALSE]]
    /\ calls = {} /\ version = [u \in User |-> 0] /\ acks = 0 /\ org = {} /\ orgCalls = {} /\ leaving = FALSE

session == <<cookie, user, page, epoch, leaving>>
other == <<version, acks, org, orgCalls>>

-----------------------------------------------------------------------------
(* createQuery. *)

\* revalidate of the queries S of the cache e: one fetch each, none where one is under way.
Revalidate(e, S) ==
    LET new == {q \in S : ~ e[q].inFlight}
        ids == {i \in 1..MaxCalls : \A c \in calls : c.id # i}
    IN  /\ Cardinality(new) <= Cardinality(ids)
        /\ \E pick \in [new -> ids] :
             /\ \A p, q \in new : p # q => pick[p] # pick[q]
             /\ \A q \in new : \A i \in ids : i < pick[q] => \E p \in new : pick[p] = i
             /\ calls' = calls \cup {[id |-> pick[q], q |-> q, gen |-> e[q].gen, epoch |-> epoch, who |-> cookie,
                                      answer |-> {}, served |-> FALSE] : q \in new}
        /\ entry' = [q \in Query |-> [e[q] EXCEPT !.inFlight = @ \/ q \in S]]

\* A page reads a query's data: it is active, and fetched when stale.
Read(q) ==
    /\ page = "app" /\ user # {}
    /\ Revalidate([entry EXCEPT ![q].active = TRUE], IF entry[q].fresh THEN {} ELSE {q})
    /\ UNCHANGED <<session, other>>
\* staleTime passes since the last result; five minutes pass since the last read.
GoStale(q) ==
    /\ entry[q].fresh /\ entry' = [entry EXCEPT ![q].fresh = FALSE]
    /\ UNCHANGED <<session, other, calls>>
GoInactive(q) ==
    /\ entry[q].active /\ entry' = [entry EXCEPT ![q].active = FALSE]
    /\ UNCHANGED <<session, other, calls>>
\* The window gets the focus; the poll interval fires.
Focus ==
    /\ Revalidate(entry, {q \in Query : entry[q].active /\ ~ entry[q].fresh})
    /\ UNCHANGED <<session, other>>
IntervalFires(q) ==
    /\ entry[q].active /\ Revalidate(entry, {q})
    /\ UNCHANGED <<session, other>>

\* The server answers from the session the request was sent with; none is a 401.
Serve(c) ==
    /\ ~ c.served
    /\ calls' = (calls \ {c}) \cup
         {[c EXCEPT !.served = TRUE,
                    !.answer = {[who |-> u, version |-> version[u], epoch |-> c.epoch] : u \in c.who}]}
    /\ UNCHANGED <<session, other, entry>>

\* Mutant of Settled: a late result is kept, whatever happened since the request.
SettledAlways(c) ==
    [entry[c.q] EXCEPT !.inFlight = FALSE, !.data = IF c.answer = {} THEN @ ELSE c.answer,
                       !.fresh = @ \/ c.answer # {}]

\* What a fetch that ends leaves in its entry: nothing if the cache was reset meanwhile.
Settled(c) ==
    IF c.gen # entry[c.q].gen THEN entry[c.q]
    ELSE [entry[c.q] EXCEPT !.inFlight = FALSE, !.data = IF c.answer = {} THEN @ ELSE c.answer,
                            !.fresh = @ \/ c.answer # {}]

\* A 401 sends the tab to the sign-in page, whoever is signed in by now.
Land(c) ==
    /\ c.served /\ calls' = calls \ {c} /\ entry' = [entry EXCEPT ![c.q] = Settled(c)]
    /\ page' = IF c.answer = {} THEN "public" ELSE page
    /\ UNCHANGED <<cookie, user, epoch, leaving, other>>
\* The request is lost.
LoseCall(c) ==
    /\ calls' = calls \ {c} /\ entry' = [entry EXCEPT ![c.q] = Settled([c EXCEPT !.answer = {}])]
    /\ UNCHANGED <<session, other>>

-----------------------------------------------------------------------------
(* Writes: a store posts, then invalidates the queries of the entity. *)

Write ==
    /\ page = "app" /\ acks = 0 /\ acks' = 1
    /\ \E u \in cookie : version[u] < MaxWrites /\ version' = [version EXCEPT ![u] = @ + 1]
    /\ UNCHANGED <<session, entry, calls, org, orgCalls>>
\* invalidateQueries: everything stale, and what is active fetched anew.
InvalidateEntity ==
    /\ acks = 1 /\ acks' = 0
    /\ Revalidate([q \in Query |-> [entry[q] EXCEPT !.fresh = FALSE]], {q \in Query : entry[q].active})
    /\ UNCHANGED <<session, version, org, orgCalls>>

-----------------------------------------------------------------------------
(* Sessions. *)

\* verifyOtp from the sign-in page (or the claim of an invite): the cookie and the user are replaced.
VerifyOtp(u) ==
    /\ page = "public" /\ ~ leaving /\ cookie' = {u} /\ user' = {u} /\ page' = "app"
    /\ UNCHANGED <<epoch, leaving, entry, calls, other>>
\* checkAuth: the user is the session's.
CheckAuth ==
    /\ user' = cookie /\ UNCHANGED <<cookie, page, epoch, leaving, entry, calls, other>>
SessionExpires ==
    /\ cookie # {} /\ cookie' = {} /\ UNCHANGED <<user, page, epoch, leaving, entry, calls, other>>
\* The effect of App.svelte: without a user the app's pages are left.
RedirectToLogin ==
    /\ user = {} /\ page = "app" /\ page' = "public"
    /\ UNCHANGED <<cookie, user, epoch, leaving, entry, calls, other>>

\* logout, first half: the request, which may fail.
Logout(answered) ==
    /\ user # {} /\ ~ leaving /\ leaving' = TRUE /\ cookie' = IF answered THEN {} ELSE cookie
    /\ UNCHANGED <<user, page, epoch, entry, calls, other>>
\* Second half: the user forgotten, runContextSwitch (the stores and the cache reset), the sign-in page.
RunContextSwitch ==
    /\ leaving /\ epoch < MaxSwitches /\ leaving' = FALSE /\ user' = {} /\ page' = "public"
    /\ org' = {} /\ epoch' = epoch + 1
    /\ entry' = [q \in Query |-> [data |-> {}, fresh |-> FALSE, active |-> FALSE, gen |-> entry[q].gen + 1,
                                  inFlight |-> FALSE]]
    /\ UNCHANGED <<cookie, calls, version, acks, orgCalls>>

\* fetchOrg of the organization store.
FetchOrg ==
    /\ page = "app" /\ user # {} /\ orgCalls' = orgCalls \cup {cookie}
    /\ UNCHANGED <<session, entry, calls, version, acks, org>>
OrgLands(who, fails) ==
    /\ orgCalls' = orgCalls \ {who}
    /\ org' = IF fails THEN {} ELSE who
    /\ page' = IF ~ fails /\ who = {} THEN "public" ELSE page
    /\ UNCHANGED <<cookie, user, epoch, leaving, entry, calls, version, acks>>

Next ==
    \/ \E q \in Query : Read(q) \/ GoStale(q) \/ GoInactive(q) \/ IntervalFires(q)
    \/ Focus \/ Write \/ InvalidateEntity
    \/ \E c \in calls : Serve(c) \/ Land(c) \/ LoseCall(c)
    \/ \E u \in User : VerifyOtp(u)
    \/ CheckAuth \/ SessionExpires \/ RedirectToLogin \/ RunContextSwitch \/ FetchOrg
    \/ \E answered \in BOOLEAN : Logout(answered)
    \/ \E who \in orgCalls, fails \in BOOLEAN : OrgLands(who, fails)
Spec == Init /\ [][Next]_vars

-----------------------------------------------------------------------------
\* "a fetch that started under the previous tenant discards its result instead of
\* landing late": what the cache holds was asked for after the last context
\* switch, and no query is fetched twice at a time, though fetches of before the
\* switch end in between.
NothingLandsLate ==
    /\ \A q \in Query : \A d \in entry[q].data : d.epoch = epoch
    /\ \A q \in Query : Cardinality({c \in calls : c.q = q /\ c.gen = entry[q].gen})
                          = IF entry[q].inFlight THEN 1 ELSE 0

\* What keeps it so.  An entry is of the epoch, a fetch of the epoch it was sent in, and
\* so are the results; of its entry's generation a query has a fetch when it says it has,
\* and one.
Current(q) == {c \in calls : c.q = q /\ c.gen = entry[q].gen}
CacheTypes ==
    /\ cookie \in SUBSET User /\ epoch \in 0..MaxSwitches /\ entry \in [Query -> Entry] /\ calls \subseteq Call
    /\ version \in [User -> 0..MaxWrites]
CacheInv ==
    /\ CacheTypes
    /\ \A q \in Query : entry[q].gen = epoch /\ \A d \in entry[q].data : d.epoch = epoch
    /\ \A c \in calls : c.gen = c.epoch /\ c.epoch <= epoch /\ \A d \in c.answer : d.epoch = c.epoch
    /\ \A q \in Query : IF entry[q].inFlight THEN \E c \in calls : Current(q) = {c} ELSE Current(q) = {}

\* "a remounted page can never read the previous tenant's data out of a
\* module-level cache".  Does not hold: a sign-in that no logout precedes (after a
\* 401, or by the claim of an invite) runs no context switch.
ShowsOwnTenant == page = "app" /\ user # {} => \A q \in Query : \A d \in entry[q].data : {d.who} = user
\* The organization store is empty after a switch until it is fetched again.
\* Does not hold: a request sent before the switch fills it.
StoreStaysReset == org # {} => org = user
\* After a write is answered, what counts as fresh shows it.  Does not hold: the
\* refetch joins a fetch that the server answered before the write.
FreshShowsWrites ==
    \A q \in Query : \A d \in entry[q].data : entry[q].fresh /\ acks = 0 => d.version = version[d.who]
=============================================================================
