----------------------------- MODULE Screening -----------------------------
(***************************************************************************)
(* Watchlist screening of clients and beneficial controllers.  Saving one  *)
(* of them, the weekly rescan and the screening-refresh worker each ask    *)
(* the watchlist service for a search.  Its matches on sanction lists come *)
(* with the answer, those on PEP and adverse-media sources later, in       *)
(* callbacks that name the search.  The outcome is kept twice: on the row  *)
(* of the entity and in a snapshot, two statements that nothing joins (D1  *)
(* runs the statements of a transaction one by one).                       *)
(***************************************************************************)
EXTENDS Integers, FiniteSets

CONSTANTS
    Entities,      \* ids of clients and beneficial controllers
    Lists,         \* sanction lists: ofac, un, sat69b
    Queries,       \* ids of searches
    Workers,       \* requests and queue messages being handled at once
    StatusChange,  \* watchlistRescanNotifyOnStatusChange of the organization
    Sources,       \* watchlistRescanSources of the organization
    PassedFlags,   \* flags the callers of PATCH watchlist-query may pass
    NoQuery,       \* null watchlistQueryId
    NoResult,      \* no screeningResult in the body of a PATCH
    NoEntity       \* a query not yet issued has none

Async == {"pep", "adverse_media"}
Flags == Lists \cup Async
PepTypes == {"pep_official", "pep_ai"}
CallbackTypes == PepTypes \cup {"adverse_media"}
Results == {"pending", "clear", "flagged"}

ASSUME ScreeningAssumption ==
    /\ Lists # {} /\ Lists \cap Async = {}
    /\ StatusChange \in BOOLEAN
    /\ Sources \subseteq Flags
    /\ PassedFlags \subseteq Flags
    /\ NoQuery \notin Queries
    /\ NoResult \notin Results
    /\ NoEntity \notin Entities

VARIABLES
    row,        \* screening columns of clients and beneficial_controllers
    snapshot,   \* the last snapshot of an entity whose result is not "error"
    search,     \* the watchlist service: what each search found and will find
    job,        \* what each worker is handling
    announced,  \* history: list matches a rescan announced, in every snapshot since
    raced,      \* history: entities handled by two workers at once
    torn,       \* history: the last snapshot of these was written without the row
    passed,     \* history: the row of these shows what a caller of PATCH passed
    unseen      \* history: a PATCH wrote PEP or adverse media on the row of these,
                \* and no snapshot has followed

vars == <<row, snapshot, search, job, announced, raced, torn, passed, unseen>>

Row == [table: {"clients", "beneficial_controllers"}, query: Queries \cup {NoQuery},
        flags: SUBSET Flags, result: Results]
Snapshot == [exists: BOOLEAN, flags: SUBSET Flags, result: Results]
Search == [entity: Entities \cup {NoEntity}, lists: SUBSET Lists,
           hits: SUBSET CallbackTypes]

Unscreened(table) ==
    [table |-> table, query |-> NoQuery, flags |-> {}, result |-> "pending"]
NoSnapshot == [exists |-> FALSE, flags |-> {}, result |-> "pending"]
NoSearch == [entity |-> NoEntity, lists |-> {}, hits |-> {}]

\* before and after are the state a rescan compares with and the flags a snapshot
\* records, from the row that was read; keep and set say what becomes of the flags
\* of the row: those in keep stay, the others become set; the result of the row is
\* assigned or left.
Job == [op: {"idle", "save", "rescan", "patch", "callback"},
        at: {"done", "search", "snapshot", "row", "notify"},
        e: Entities \cup {NoEntity},
        q: Queries \cup {NoQuery},
        before: Snapshot,
        after: SUBSET Flags,
        keep: SUBSET Flags,
        set: SUBSET Flags,
        result: Results,
        assigns: BOOLEAN,
        tell: SUBSET Flags]

Idle == [op |-> "idle", at |-> "done", e |-> NoEntity, q |-> NoQuery,
         before |-> NoSnapshot, after |-> {}, keep |-> Flags, set |-> {},
         result |-> "pending", assigns |-> TRUE, tell |-> {}]

Busy(e) == \E w \in Workers : job[w].e = e

Init ==
    /\ row \in [Entities -> {Unscreened("clients"), Unscreened("beneficial_controllers")}]
    /\ snapshot = [e \in Entities |-> NoSnapshot]
    /\ search = [q \in Queries |-> NoSearch]
    /\ job = [w \in Workers |-> Idle]
    /\ announced = [e \in Entities |-> {}]
    /\ raced = {}
    /\ torn = {}
    /\ passed = {}
    /\ unseen = {}

-----------------------------------------------------------------------------
IsClient(e) == row[e].table = "clients"

\* The state a rescan compares with: the last snapshot, or the row if there is none.
StateBefore(e) ==
    IF snapshot[e].exists THEN snapshot[e]
    ELSE [exists |-> FALSE, flags |-> row[e].flags, result |-> row[e].result]

hadAnyNegative(s) == s.result = "flagged" \/ s.flags # {}

\* dispatchNotifications: the new positives a rescan tells the organization about.
Notified(before, after, result) ==
    LET new == after \ before.flags IN
    CASE hadAnyNegative(before) /\ StatusChange -> new \cap Sources
      [] ~hadAnyNegative(before) /\ result = "flagged" -> new
      [] OTHER -> {}

Begin(w, e, j) ==
    /\ job[w] = Idle
    /\ job' = [job EXCEPT ![w] = j]
    /\ raced' = IF Busy(e) THEN raced \cup {e} ELSE raced

Finish(w) == job' = [job EXCEPT ![w] = Idle]

written == <<row, snapshot, announced, torn, passed, unseen>>

\* What a search has found, or will find.
FoundBy(s) ==
    s.lists \cup (IF s.hits \cap PepTypes # {} THEN {"pep"} ELSE {})
            \cup (s.hits \cap {"adverse_media"})

\* The service records a search and returns its list matches; what it will report
\* by callback is settled, but not known yet.
Issue(q, e, lists) ==
    /\ search[q] = NoSearch
    /\ \E hits \in SUBSET CallbackTypes :
         search' = [search EXCEPT ![q] = [entity |-> e, lists |-> lists, hits |-> hits]]

-----------------------------------------------------------------------------
(* Searches started here                                                   *)

\* A client is created, updated, patched or imported, or the name of a
\* beneficial controller changes: the screening runs after the response.
StartSave(w, e) ==
    /\ Begin(w, e, [Idle EXCEPT !.op = "save", !.at = "search", !.e = e])
    /\ UNCHANGED search
    /\ UNCHANGED written

\* PUT of a beneficial controller writes all its columns, those of the screening
\* with the defaults of a new row; if the name changed, a screening follows.
ResetController(e) ==
    /\ ~IsClient(e)
    /\ row' = [row EXCEPT ![e] = Unscreened("beneficial_controllers")]
    /\ raced' = IF Busy(e) THEN raced \cup {e} ELSE raced
    /\ passed' = passed \ {e}
    /\ unseen' = unseen \ {e}
    /\ UNCHANGED <<snapshot, search, job, announced, torn>>

\* A rescan message: the row and the last snapshot are read before the search.
StartRescan(w, e) ==
    /\ Begin(w, e, [Idle EXCEPT !.op = "rescan", !.at = "search", !.e = e,
                                !.before = StateBefore(e),
                                !.after = row[e].flags \cap Async])
    /\ UNCHANGED search
    /\ UNCHANGED written

\* Only a save of a beneficial controller never flags it.
SyncResult(j, lists) ==
    IF lists # {} /\ (j.op = "rescan" \/ IsClient(j.e)) THEN "flagged" ELSE "pending"

\* Fault: the snapshot of a rescan has the lists alone.
SearchedLists(j, q, lists) ==
    [j EXCEPT !.at = IF j.op = "rescan" THEN "snapshot" ELSE "row",
              !.q = q, !.keep = Async, !.set = lists,
              !.result = SyncResult(j, lists),
              !.before = NoSnapshot,
              !.after = lists,
              !.tell = IF j.op = "rescan"
                         THEN Notified(j.before, lists, SyncResult(j, lists)) ELSE {}]

\* What a job does with the answer: a save goes straight to the row.
Searched(j, q, lists) ==
    LET after == j.after \cup lists
        result == SyncResult(j, lists)
        found == [j EXCEPT !.q = q, !.keep = Async, !.set = lists, !.result = result]
    IN  IF j.op = "save"
          THEN [found EXCEPT !.at = "row"]
          ELSE [found EXCEPT !.at = "snapshot", !.before = NoSnapshot, !.after = after,
                             !.tell = Notified(j.before, after, result)]

SearchAnswers(w, q, lists) ==
    /\ job[w].at = "search"
    /\ Issue(q, job[w].e, lists)
    /\ job' = [job EXCEPT ![w] = Searched(job[w], q, lists)]
    /\ UNCHANGED raced
    /\ UNCHANGED written

\* Fault: the error snapshot counts as the last one.
SearchFailsClean(w) ==
    LET e == job[w].e IN
    /\ job[w].at = "search"
    /\ snapshot' = IF job[w].op = "rescan" /\ IsClient(e)
         THEN [snapshot EXCEPT ![e] = [exists |-> TRUE, flags |-> job[w].after,
                                       result |-> "pending"]]
         ELSE snapshot
    /\ Finish(w)
    /\ UNCHANGED <<row, search, announced, raced, torn, passed, unseen>>

\* The search returns null.  A rescan of a client leaves an error snapshot, which
\* no later read returns, and throws, so that its message comes again.
SearchFails(w) ==
    /\ job[w].at = "search"
    /\ Finish(w)
    /\ UNCHANGED <<search, raced>>
    /\ UNCHANGED written

-----------------------------------------------------------------------------
(* Calls from the watchlist service and the screening-refresh worker       *)

\* The flags of the row a PATCH does not assign: those the caller left out.
LeftOut(given) == Flags \ given

\* PATCH watchlist-query: the caller made the search.  It passes flags as it likes,
\* those in given, and TRUE for matches of its search, those in found; for a client
\* none of the flags of Async.  It passes a result as it likes, or none.  A client
\* gets a snapshot, a beneficial controller none.
Patch(w, e, q, lists, given, found, result) ==
    LET keep == LeftOut(given) IN
    /\ IsClient(e) => given \subseteq Lists
    /\ Issue(q, e, lists)
    /\ found \subseteq given \cap FoundBy(search[q])'
    /\ Begin(w, e,
         [Idle EXCEPT !.op = "patch", !.e = e, !.q = q,
                      !.at = IF IsClient(e) THEN "snapshot" ELSE "row",
                      !.keep = keep, !.set = found,
                      !.after = IF IsClient(e) THEN (row[e].flags \cap keep) \cup found ELSE {},
                      !.result = IF result = NoResult THEN row[e].result ELSE result,
                      !.assigns = result # NoResult])
    /\ UNCHANGED written

\* Fault: each PEP search overwrites what the other found.
KeepOnlyOthers(type) ==
    IF type \in PepTypes THEN Flags \ {"pep"} ELSE Flags \ {"adverse_media"}

\* The flags a callback does not assign.
Kept(type) == IF type = "adverse_media" THEN Flags \ {"adverse_media"} ELSE Flags

\* The flags a completed callback sets.
Confirmed(type, q) ==
    IF type \notin search[q].hits THEN {}
    ELSE IF type \in PepTypes THEN {"pep"} ELSE {"adverse_media"}

\* Fault: only the flags this callback brings and the lists are looked at.
FlaggedNow(flags, set) == flags \cap Lists # {} \/ set # {}

\* isFlagged: the stored adverse-media flag is not looked at.
Flagged(flags, set) == flags \cap (Lists \cup {"pep"}) # {} \/ set # {}

\* Fault: the callback goes to whoever waits for one.
CallbackToAnyone(w, e, q, type) ==
    LET set == Confirmed(type, q) IN
    /\ row[e].query # NoQuery
    /\ Begin(w, e,
         [Idle EXCEPT !.op = "callback", !.at = "snapshot", !.e = e, !.q = q,
                      !.keep = Kept(type), !.set = set,
                      !.after = (row[e].flags \cap Kept(type)) \cup set,
                      !.result = IF Flagged(row[e].flags, set) THEN "flagged" ELSE "clear"])
    /\ UNCHANGED search
    /\ UNCHANGED written

\* PATCH screening-callback, completed (a failed one writes nothing): the entity
\* is the one whose row names the query, and there is none before the row of the
\* search is written; the service may send a callback late, twice or never.
Callback(w, e, q, type) ==
    LET set == Confirmed(type, q) IN
    /\ row[e].query = q
    /\ Begin(w, e,
         [Idle EXCEPT !.op = "callback", !.at = "snapshot", !.e = e, !.q = q,
                      !.keep = Kept(type), !.set = set,
                      !.after = (row[e].flags \cap Kept(type)) \cup set,
                      !.result = IF Flagged(row[e].flags, set) THEN "flagged" ELSE "clear"])
    /\ UNCHANGED search
    /\ UNCHANGED written

-----------------------------------------------------------------------------
(* The statements that write                                               *)

WriteSnapshot(w) ==
    LET j == job[w] IN
    /\ j.at = "snapshot"
    /\ snapshot' = [snapshot EXCEPT ![j.e] =
         [exists |-> TRUE, flags |-> j.after, result |-> j.result]]
    /\ announced' = [announced EXCEPT ![j.e] = @ \cap j.after]
    /\ job' = [job EXCEPT ![w].at = "row", ![w].after = {}]
    /\ UNCHANGED <<row, search, raced, torn, passed, unseen>>

\* Requests that wrote a snapshot before they come to the row.
WithSnapshot(j) ==
    j.op \in {"rescan", "callback"} \/ (j.op = "patch" /\ IsClient(j.e))

\* A patch that passes no more than the id of the query.
PassesNothing(j) == j.keep = Flags /\ ~j.assigns

\* A patch without a result leaves that of the row, a callback the query.
WriteRow(w) ==
    LET j == job[w] IN
    /\ j.at = "row"
    /\ row' = [row EXCEPT
         ![j.e].query = IF j.op = "callback" THEN @ ELSE j.q,
         ![j.e].flags = (@ \cap j.keep) \cup j.set,
         ![j.e].result = IF j.assigns THEN j.result ELSE @]
    /\ IF j.op = "rescan"
         THEN job' = [job EXCEPT ![w] = [Idle EXCEPT !.op = j.op, !.at = "notify",
                                                     !.e = j.e, !.tell = j.tell]]
         ELSE Finish(w)
    /\ passed' = CASE j.op # "patch" -> passed \ {j.e}
                   [] j.op = "patch" /\ ~PassesNothing(j) -> passed \cup {j.e}
                   [] OTHER -> passed
    /\ torn' = IF WithSnapshot(j) THEN torn \ {j.e} ELSE torn
    /\ unseen' = CASE WithSnapshot(j) -> unseen \ {j.e}
                   [] ~WithSnapshot(j) /\ j.set \cap Async # {} -> unseen \cup {j.e}
                   [] OTHER -> unseen
    /\ UNCHANGED <<snapshot, search, announced, raced>>

Notify(w) ==
    LET j == job[w] IN
    /\ j.at = "notify"
    /\ announced' = [announced EXCEPT ![j.e] = @ \cup (j.tell \cap Lists)]
    /\ Finish(w)
    /\ UNCHANGED <<row, snapshot, search, raced, torn, passed, unseen>>

\* The worker dies or a statement fails; a rescan message comes again.
Crash(w) ==
    /\ job[w] # Idle
    /\ torn' = IF job[w].at = "row" /\ WithSnapshot(job[w])
                 THEN torn \cup {job[w].e} ELSE torn
    /\ Finish(w)
    /\ UNCHANGED <<row, snapshot, search, announced, raced, passed, unseen>>

-----------------------------------------------------------------------------
Work(w) ==
    \/ \E e \in Entities : StartSave(w, e) \/ StartRescan(w, e)
    \/ \E q \in Queries, lists \in SUBSET Lists : SearchAnswers(w, q, lists)
    \/ SearchFails(w)
    \/ \E e \in Entities, q \in Queries, lists \in SUBSET Lists, given \in SUBSET PassedFlags,
         result \in Results \cup {NoResult} :
         \E found \in SUBSET given : Patch(w, e, q, lists, given, found, result)
    \/ \E e \in Entities, q \in Queries, type \in CallbackTypes : Callback(w, e, q, type)
    \/ WriteSnapshot(w)
    \/ WriteRow(w)
    \/ Notify(w)
    \/ Crash(w)

Next ==
    \/ \E w \in Workers : Work(w)
    \/ \E e \in Entities : ResetController(e)

Spec == Init /\ [][Next]_vars

-----------------------------------------------------------------------------
(* Properties                                                              *)

\* Rows, snapshots, searches and jobs keep the shape the schema gives them; in
\* particular no row shows the result "error", which only snapshots have.
TypeOK ==
    /\ row \in [Entities -> Row]
    /\ snapshot \in [Entities -> Snapshot]
    /\ search \in [Queries -> Search]
    /\ job \in [Workers -> Job]
    /\ announced \in [Entities -> SUBSET Lists]
    /\ raced \subseteq Entities
    /\ torn \subseteq Entities
    /\ passed \subseteq Entities
    /\ unseen \subseteq Entities

\* Nobody is cleared who is on a list or a PEP, and a client on a list is flagged,
\* however searches, failures and callbacks follow each other, unless two of them
\* were handled at once or the row shows what a caller of PATCH passed: the next
\* save, rescan or callback makes that good, whatever it was.
ResultNotTooGood ==
    \A e \in Entities \ (raced \cup passed) :
        /\ row[e].result = "clear" => row[e].flags \cap (Lists \cup {"pep"}) = {}
        /\ IsClient(e) /\ row[e].flags \cap Lists # {} => row[e].result = "flagged"

\* A PEP match, once on the row, outlives every later screening, failed callback
\* and callback without a match, even those handled at the same time.  That of a
\* client is never taken; that of a beneficial controller is taken by PUT, with
\* everything else, and by a PATCH whose caller passes isPEP as FALSE.
PepNeverForgotten ==
    [][\A e \in Entities :
         "pep" \in row[e].flags
           => \/ "pep" \in row'[e].flags
              \/ ~IsClient(e) /\ row'[e].query = NoQuery
              \/ /\ ~IsClient(e)
                 /\ \E w \in Workers : /\ job[w].e = e /\ job[w].op = "patch"
                                        /\ "pep" \notin job[w].keep]_row

\* A flag on the row of an entity comes from a search for that entity that found
\* it: neither a callback of a superseded search nor a late write puts a match of
\* one entity on the row of another.
MatchBelongs ==
    \A e \in Entities : \A f \in row[e].flags :
        \E q \in Queries : search[q].entity = e /\ f \in FoundBy(search[q])

\* The snapshot history knows every PEP and adverse-media match the row knows, so
\* that a rescan takes none of them for new, unless two workers were at it at once
\* or a PATCH of a controller brought the match, which writes no snapshot (until the
\* next rescan or callback does).  A crash between snapshot and row never loses a
\* PEP match from the history; an adverse-media match it may, until the next
\* screening that gets to the row.
AsyncMatchesRecorded ==
    \A e \in Entities \ (raced \cup unseen) :
        ~Busy(e) => /\ "pep" \in row[e].flags => "pep" \in snapshot[e].flags
                    /\ e \notin torn => row[e].flags \cap Async \subseteq snapshot[e].flags

\* A rescan does not announce a list match that was announced before and has been
\* in every snapshot since, although messages come again after failures.
NotAnnouncedTwice ==
    \A w \in Workers :
        job[w].at = "notify" /\ job[w].e \notin raced
          => job[w].tell \cap announced[job[w].e] = {}
=============================================================================
