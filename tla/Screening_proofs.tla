-------------------------- MODULE Screening_proofs --------------------------
(***************************************************************************)
(* Theorems about Screening for all entities, lists, searches and workers: *)
(* types, and what the flags on a row come from; then, for entities that   *)
(* are handled by one worker at a time, what the result, the snapshots and *)
(* the announcements keep.                                                 *)
(***************************************************************************)
EXTENDS Screening, TLAPS

\* A worker that is not idle handles an entity.
JobsBound ==
    \A w \in Workers : job[w] = Idle \/ (job[w].e \in Entities /\ job[w].at # "done")

TypeInv == TypeOK /\ JobsBound

-----------------------------------------------------------------------------
(* The helpers keep the types.                                             *)

\* An idle worker is one of the states of a worker.
LEMMA IdleTyped == Idle \in Job
  BY DEF Idle, Job, NoSnapshot, Snapshot, Results

\* What a worker takes on leaves the other workers alone.
LEMMA BeginTyped ==
    ASSUME TypeOK, NEW w \in Workers, NEW e \in Entities, NEW j \in Job, Begin(w, e, j)
    PROVE  /\ job' \in [Workers -> Job]
           /\ job[w] = Idle /\ job'[w] = j
           /\ \A v \in Workers \ {w} : job'[v] = job[v]
           /\ raced \subseteq raced' /\ raced' \subseteq Entities
           /\ Busy(e) => e \in raced'
  BY DEF Begin, TypeOK

\* A worker that is done is idle.
LEMMA FinishTyped ==
    ASSUME TypeOK, NEW w \in Workers, Finish(w)
    PROVE  /\ job' \in [Workers -> Job]
           /\ job'[w] = Idle
           /\ \A v \in Workers \ {w} : job'[v] = job[v]
  BY IdleTyped DEF Finish, TypeOK

\* A search is recorded under an id not used before.
LEMMA IssueTyped ==
    ASSUME TypeOK, NEW q \in Queries, NEW e \in Entities, NEW lists \in SUBSET Lists,
           Issue(q, e, lists)
    PROVE  /\ search' \in [Queries -> Search]
           /\ search'[q].entity = e /\ search'[q].lists = lists
           /\ search[q] = NoSearch
           /\ \A p \in Queries \ {q} : search'[p] = search[p]
  BY DEF Issue, TypeOK, Search

\* A rescan announces only what the state before did not have.
LEMMA NotifiedNew ==
    ASSUME NEW before, NEW after, NEW result
    PROVE  Notified(before, after, result) \subseteq after \ before.flags
  BY DEF Notified

\* The result of a search is one a row may show.
LEMMA SyncResultTyped ==
    ASSUME NEW j, NEW lists
    PROVE  SyncResult(j, lists) \in Results
  BY DEF SyncResult, Results

\* What a worker goes on with after the answer.
LEMMA SearchedTyped ==
    ASSUME NEW j \in Job, NEW q \in Queries, NEW lists \in SUBSET Lists
    PROVE  LET s == Searched(j, q, lists) IN
           /\ s \in Job
           /\ s.op = j.op /\ s.e = j.e /\ s.q = q /\ s.keep = Async /\ s.set = lists
           /\ s.result = SyncResult(j, lists) /\ s.assigns = j.assigns
           /\ j.op = "save" => s.at = "row" /\ s.tell = j.tell
           /\ j.op # "save" => /\ s.at = "snapshot" /\ s.after = j.after \cup lists
                               /\ s.tell \subseteq s.after \ j.before.flags
  <1> DEFINE after == j.after \cup lists
             result == SyncResult(j, lists)
             tell == Notified(j.before, after, result)
  <1>1. result \in Results
    BY SyncResultTyped
  <1>2. tell \subseteq after \ j.before.flags
    BY NotifiedNew
  <1>3. after \subseteq Flags /\ Async \subseteq Flags /\ lists \subseteq Flags
    BY DEF Job, Flags
  <1>4. NoSnapshot \in Snapshot
    BY DEF NoSnapshot, Snapshot, Results
  <1> HIDE DEF result, tell, after
  <1>5. Searched(j, q, lists) =
          IF j.op = "save"
          THEN [j EXCEPT !.q = q, !.keep = Async, !.set = lists, !.result = result, !.at = "row"]
          ELSE [j EXCEPT !.q = q, !.keep = Async, !.set = lists, !.result = result,
                         !.at = "snapshot", !.before = NoSnapshot, !.after = after, !.tell = tell]
    BY DEF Searched, result, tell, after, Job
  <1>6. CASE j.op = "save"
    <2> DEFINE s == [j EXCEPT !.q = q, !.keep = Async, !.set = lists, !.result = result,
                              !.at = "row"]
    <2>1. s \in Job
      BY <1>1, <1>3 DEF Job
    <2>2. /\ s.op = j.op /\ s.e = j.e /\ s.q = q /\ s.keep = Async /\ s.set = lists
          /\ s.result = result /\ s.at = "row" /\ s.tell = j.tell /\ s.assigns = j.assigns
      BY DEF Job
    <2>3. Searched(j, q, lists) = s
      BY <1>5, <1>6
    <2> HIDE DEF s
    <2> QED
      BY <1>6, <2>1, <2>2, <2>3 DEF result
  <1>7. CASE j.op # "save"
    <2> DEFINE s == [j EXCEPT !.q = q, !.keep = Async, !.set = lists, !.result = result,
                              !.at = "snapshot", !.before = NoSnapshot, !.after = after,
                              !.tell = tell]
    <2>1. tell \subseteq Flags
      BY <1>2, <1>3
    <2>2. s \in Job
      BY <1>1, <1>3, <1>4, <2>1 DEF Job
    <2>3. /\ s.op = j.op /\ s.e = j.e /\ s.q = q /\ s.keep = Async /\ s.set = lists
          /\ s.result = result /\ s.at = "snapshot" /\ s.after = after /\ s.tell = tell
          /\ s.assigns = j.assigns
      BY DEF Job
    <2>4. Searched(j, q, lists) = s
      BY <1>5, <1>7
    <2> HIDE DEF s
    <2> QED
      BY <1>2, <1>7, <2>2, <2>3, <2>4 DEF result, after
  <1> QED
    BY <1>6, <1>7

-----------------------------------------------------------------------------
(* Types.                                                                  *)

\* One worker moves: enough to look at that worker.
LEMMA OneJobBound ==
    ASSUME JobsBound, NEW w \in Workers,
           job'[w] = Idle \/ (job'[w].e \in Entities /\ job'[w].at # "done"),
           \A v \in Workers \ {w} : job'[v] = job[v]
    PROVE  JobsBound'
  BY DEF JobsBound

\* What the requests make their worker handle.
SaveJob(e) == [Idle EXCEPT !.op = "save", !.at = "search", !.e = e]

RescanJob(e) ==
    [Idle EXCEPT !.op = "rescan", !.at = "search", !.e = e,
                 !.before = StateBefore(e), !.after = row[e].flags \cap Async]

PatchJob(e, q, given, found, result) ==
    [Idle EXCEPT !.op = "patch", !.e = e, !.q = q,
                 !.at = IF IsClient(e) THEN "snapshot" ELSE "row",
                 !.keep = LeftOut(given), !.set = found,
                 !.after = IF IsClient(e)
                             THEN (row[e].flags \cap LeftOut(given)) \cup found
                             ELSE {},
                 !.result = IF result = NoResult THEN row[e].result ELSE result,
                 !.assigns = result # NoResult]

\* What the body of a PATCH may hold.
Passed(given, found, result) ==
    /\ given \in SUBSET PassedFlags /\ found \in SUBSET given
    /\ result \in Results \cup {NoResult}

CallbackJob(e, q, type) ==
    [Idle EXCEPT !.op = "callback", !.at = "snapshot", !.e = e, !.q = q,
                 !.keep = Kept(type), !.set = Confirmed(type, q),
                 !.after = (row[e].flags \cap Kept(type)) \cup Confirmed(type, q),
                 !.result = IF Flagged(row[e].flags, Confirmed(type, q))
                              THEN "flagged" ELSE "clear"]

\* The requests begin with these.
LEMMA RequestsBegin ==
    ASSUME NEW w, NEW e
    PROVE  /\ StartSave(w, e) => Begin(w, e, SaveJob(e))
           /\ StartRescan(w, e) => Begin(w, e, RescanJob(e))
           /\ \A q, lists, given, found, result :
                 Patch(w, e, q, lists, given, found, result)
                   => Begin(w, e, PatchJob(e, q, given, found, result))
           /\ \A q, type :
                 Callback(w, e, q, type) => Begin(w, e, CallbackJob(e, q, type))
  BY DEF StartSave, StartRescan, Patch, Callback, SaveJob, RescanJob, PatchJob,
         CallbackJob

\* The flags a callback brings are flags.
LEMMA ConfirmedTyped ==
    ASSUME NEW type \in CallbackTypes, NEW q
    PROVE  Confirmed(type, q) \subseteq Async /\ Kept(type) \subseteq Flags
  BY DEF Confirmed, Kept, Async, Flags, CallbackTypes, PepTypes

\* What the requests make their worker handle is typed.
LEMMA RequestJobsTyped ==
    ASSUME TypeOK, NEW e \in Entities
    PROVE  /\ SaveJob(e) \in Job /\ RescanJob(e) \in Job
           /\ \A q \in Queries : \A given, found, result :
                 Passed(given, found, result) => PatchJob(e, q, given, found, result) \in Job
           /\ \A q \in Queries, type \in CallbackTypes :
                 CallbackJob(e, q, type) \in Job
  <1>0. /\ row[e] \in Row /\ snapshot[e] \in Snapshot
        /\ row[e].flags \in SUBSET Flags /\ row[e].result \in Results
    BY DEF TypeOK, Row
  <1>1. SaveJob(e) \in Job
    BY IdleTyped DEF SaveJob, Job
  <1>2. RescanJob(e) \in Job
    <2>1. StateBefore(e) \in Snapshot
      BY <1>0 DEF StateBefore, Snapshot
    <2>2. row[e].flags \cap Async \in SUBSET Flags
      BY <1>0
    <2> QED
      BY <2>1, <2>2, IdleTyped DEF RescanJob, Job
  <1>3. ASSUME NEW q \in Queries, NEW given, NEW found, NEW result,
               Passed(given, found, result)
        PROVE  PatchJob(e, q, given, found, result) \in Job
    <2>1. LeftOut(given) \in SUBSET Flags /\ found \in SUBSET Flags
      BY <1>3, ScreeningAssumption DEF LeftOut, Passed
    <2> DEFINE after == IF IsClient(e)
                          THEN (row[e].flags \cap LeftOut(given)) \cup found
                          ELSE {}
               shown == IF result = NoResult THEN row[e].result ELSE result
               assigns == result # NoResult
    <2>2. after \in SUBSET Flags
      BY <2>1
    <2>3. shown \in Results /\ assigns \in BOOLEAN
      BY <1>0, <1>3 DEF Passed
    <2> HIDE DEF after, shown, assigns
    <2>4. PatchJob(e, q, given, found, result) =
            [Idle EXCEPT !.op = "patch", !.e = e, !.q = q,
                         !.at = IF IsClient(e) THEN "snapshot" ELSE "row",
                         !.keep = LeftOut(given), !.set = found,
                         !.after = after, !.result = shown, !.assigns = assigns]
      BY DEF PatchJob, after, shown, assigns
    <2> QED
      BY <2>1, <2>2, <2>3, <2>4, IdleTyped DEF Job
  <1>4. ASSUME NEW q \in Queries, NEW type \in CallbackTypes
        PROVE  CallbackJob(e, q, type) \in Job
    <2> DEFINE set == Confirmed(type, q)
               after == (row[e].flags \cap Kept(type)) \cup set
               result == IF Flagged(row[e].flags, set) THEN "flagged" ELSE "clear"
    <2>1. set \in SUBSET Flags /\ Kept(type) \in SUBSET Flags
      BY ConfirmedTyped DEF Flags
    <2>2. after \in SUBSET Flags
      BY <1>0, <2>1
    <2>3. result \in Results
      BY DEF Results
    <2> HIDE DEF after, result, set
    <2>4. CallbackJob(e, q, type) =
            [Idle EXCEPT !.op = "callback", !.at = "snapshot", !.e = e, !.q = q,
                         !.keep = Kept(type), !.set = set, !.after = after,
                         !.result = result]
      BY DEF CallbackJob, after, result, set
    <2> QED
      BY <2>1, <2>2, <2>3, <2>4, IdleTyped DEF Job
  <1> QED
    BY <1>1, <1>2, <1>3, <1>4

\* A save and a rescan handle their entity, and set no flag before the answer.
LEMMA SearchJobFields ==
    ASSUME NEW e
    PROVE  /\ LET j == SaveJob(e) IN
                /\ j.op = "save" /\ j.at = "search" /\ j.e = e /\ j.q = NoQuery
                /\ j.keep = Flags /\ j.set = {} /\ j.tell = {} /\ j.assigns
           /\ LET j == RescanJob(e) IN
                /\ j.op = "rescan" /\ j.at = "search" /\ j.e = e /\ j.q = NoQuery
                /\ j.keep = Flags /\ j.set = {} /\ j.tell = {} /\ j.assigns
                /\ j.before = StateBefore(e) /\ j.after = row[e].flags \cap Async
  BY DEF SaveJob, RescanJob, Idle

\* A patch handles its entity and takes over what its caller passes.
LEMMA PatchJobFields ==
    ASSUME NEW e, NEW q, NEW given, NEW found, NEW result
    PROVE  LET j == PatchJob(e, q, given, found, result) IN
           /\ j.op = "patch" /\ j.e = e /\ j.q = q /\ j.tell = {}
           /\ j.at = IF IsClient(e) THEN "snapshot" ELSE "row"
           /\ j.keep = LeftOut(given) /\ j.set = found
           /\ IsClient(e) => j.after = (row[e].flags \cap LeftOut(given)) \cup found
  BY DEF PatchJob, Idle

\* A callback handles the entity of its search and computes all from the row.
LEMMA CallbackJobFields ==
    ASSUME NEW e, NEW q, NEW type
    PROVE  LET j == CallbackJob(e, q, type) IN
           /\ j.op = "callback" /\ j.at = "snapshot" /\ j.e = e /\ j.q = q
           /\ j.tell = {} /\ j.assigns
           /\ j.keep = Kept(type) /\ j.set = Confirmed(type, q)
           /\ j.after = (row[e].flags \cap Kept(type)) \cup Confirmed(type, q)
           /\ j.result = IF Flagged(row[e].flags, Confirmed(type, q))
                           THEN "flagged" ELSE "clear"
  BY DEF CallbackJob, Idle

\* A worker that takes on a request keeps the types.
LEMMA BeginTypes ==
    ASSUME TypeInv, NEW w \in Workers, NEW e \in Entities, NEW j \in Job,
           Begin(w, e, j), j.e = e, j.at # "done",
           search' \in [Queries -> Search],
           UNCHANGED written
    PROVE  TypeInv'
  <1>1. /\ job' \in [Workers -> Job] /\ job'[w] = j /\ raced' \subseteq Entities
        /\ \A v \in Workers \ {w} : job'[v] = job[v]
    BY BeginTyped DEF TypeInv
  <1>2. JobsBound'
    BY <1>1, OneJobBound DEF TypeInv
  <1> QED
    BY <1>1, <1>2 DEF TypeInv, TypeOK, written

\* What the row of an entity is after its update.
LEMMA WrittenRow ==
    ASSUME TypeInv, NEW w \in Workers, WriteRow(w)
    PROVE  LET j == job[w]
               e == j.e IN
           /\ j \in Job /\ e \in Entities
           /\ row' \in [Entities -> Row]
           /\ \A d \in Entities \ {e} : row'[d] = row[d]
           /\ row'[e].table = row[e].table
           /\ row'[e].flags = (row[e].flags \cap j.keep) \cup j.set
           /\ row'[e].query = IF j.op = "callback" THEN row[e].query ELSE j.q
           /\ row'[e].result = IF j.assigns THEN j.result ELSE row[e].result
  <1> DEFINE j == job[w]
             e == j.e
             q == IF j.op = "callback" THEN row[e].query ELSE j.q
             flags == (row[e].flags \cap j.keep) \cup j.set
             result == IF j.assigns THEN j.result ELSE row[e].result
  <1>1. j \in Job /\ e \in Entities
    BY DEF WriteRow, TypeInv, TypeOK, JobsBound, Idle
  <1>2. row \in [Entities -> Row] /\ row[e] \in Row
    BY <1>1 DEF TypeInv, TypeOK
  <1>3. /\ q \in Queries \cup {NoQuery} /\ flags \in SUBSET Flags /\ result \in Results
    BY <1>1, <1>2 DEF Row, Job
  <1>4. row' = [row EXCEPT ![e] = [row[e] EXCEPT !.query = q, !.flags = flags,
                                                 !.result = result]]
    BY <1>1, <1>2 DEF WriteRow
  <1> HIDE DEF q, flags, result
  <1>5. row' \in [Entities -> Row] /\ \A d \in Entities \ {e} : row'[d] = row[d]
    BY <1>1, <1>2, <1>3, <1>4 DEF Row
  <1>6. /\ row'[e].table = row[e].table /\ row'[e].flags = flags
        /\ row'[e].query = q /\ row'[e].result = result
    BY <1>1, <1>2, <1>4 DEF Row
  <1> QED
    BY <1>1, <1>5, <1>6 DEF q, flags, result

\* Every step keeps the types.
LEMMA TypeStep ==
    ASSUME TypeInv, [Next]_vars
    PROVE  TypeInv'
  <1> USE DEF TypeInv
  <1>1. ASSUME NEW w \in Workers, NEW e \in Entities,
               StartSave(w, e) \/ StartRescan(w, e)
        PROVE  TypeInv'
    <2>1. search' = search /\ UNCHANGED written
      BY <1>1 DEF StartSave, StartRescan
    <2>2. Begin(w, e, SaveJob(e)) \/ Begin(w, e, RescanJob(e))
      BY <1>1, RequestsBegin
    <2>3. /\ SaveJob(e) \in Job /\ RescanJob(e) \in Job
          /\ SaveJob(e).e = e /\ RescanJob(e).e = e
          /\ SaveJob(e).at = "search" /\ RescanJob(e).at = "search"
      BY RequestJobsTyped, SearchJobFields
    <2> QED
      BY <2>1, <2>2, <2>3, BeginTypes DEF TypeOK
  <1>2. ASSUME NEW w \in Workers, NEW e \in Entities, NEW q \in Queries,
               NEW lists \in SUBSET Lists, NEW given, NEW found, NEW result,
               Passed(given, found, result), Patch(w, e, q, lists, given, found, result)
        PROVE  TypeInv'
    <2> DEFINE j == PatchJob(e, q, given, found, result)
    <2>1. /\ Begin(w, e, j) /\ Issue(q, e, lists)
          /\ UNCHANGED written
      BY <1>2, RequestsBegin DEF Patch
    <2>2. j \in Job /\ j.e = e /\ j.at # "done"
      <3>1. j \in Job
        BY <1>2, RequestJobsTyped
      <3>2. j.e = e /\ j.at # "done"
        BY PatchJobFields
      <3> QED
        BY <3>1, <3>2
    <2>3. search' \in [Queries -> Search]
      BY <2>1, IssueTyped
    <2> HIDE DEF j
    <2> QED
      BY <2>1, <2>2, <2>3, BeginTypes
  <1>3. ASSUME NEW w \in Workers, NEW e \in Entities, NEW q \in Queries,
               NEW type \in CallbackTypes, Callback(w, e, q, type)
        PROVE  TypeInv'
    <2> DEFINE j == CallbackJob(e, q, type)
    <2>1. /\ Begin(w, e, j) /\ search' = search
          /\ UNCHANGED written
      BY <1>3, RequestsBegin DEF Callback
    <2>2. j \in Job /\ j.e = e /\ j.at # "done"
      <3>1. j \in Job
        BY RequestJobsTyped
      <3>2. j.e = e /\ j.at # "done"
        BY CallbackJobFields
      <3> QED
        BY <3>1, <3>2
    <2> HIDE DEF j
    <2> QED
      BY <2>1, <2>2, BeginTypes DEF TypeOK
  <1>4. ASSUME NEW w \in Workers, NEW q \in Queries, NEW lists \in SUBSET Lists,
               SearchAnswers(w, q, lists)
        PROVE  TypeInv'
    <2> DEFINE s == Searched(job[w], q, lists)
    <2>1. job[w] \in Job /\ job[w].e \in Entities
      BY <1>4 DEF SearchAnswers, TypeOK, JobsBound, Idle
    <2>2. s \in Job /\ s.e = job[w].e /\ s.at # "done"
      BY <2>1, SearchedTyped
    <2>3. job' = [job EXCEPT ![w] = s]
      BY <1>4 DEF SearchAnswers
    <2>4. search' \in [Queries -> Search]
      BY <1>4, <2>1, IssueTyped DEF SearchAnswers
    <2> HIDE DEF s
    <2>5. JobsBound'
      BY <2>1, <2>2, <2>3, OneJobBound DEF TypeOK
    <2> QED
      BY <1>4, <2>2, <2>3, <2>4, <2>5 DEF written, SearchAnswers, TypeOK
  <1>5. ASSUME NEW w \in Workers, SearchFails(w) \/ Notify(w) \/ Crash(w)
        PROVE  TypeInv'
    <2>1. Finish(w)
      BY <1>5 DEF SearchFails, Notify, Crash
    <2>2. job' \in [Workers -> Job] /\ JobsBound'
      BY <2>1, FinishTyped, OneJobBound
    <2>3. job[w] \in Job /\ (job[w] # Idle => job[w].e \in Entities)
      BY DEF TypeOK, JobsBound
    <2>4. announced' \in [Entities -> SUBSET Lists] /\ torn' \subseteq Entities
      BY <1>5, <2>3 DEF written, SearchFails, Notify, Crash, TypeOK
    <2> QED
      BY <1>5, <2>2, <2>4 DEF written, TypeOK, SearchFails, Notify, Crash
  <1>6. ASSUME NEW w \in Workers, WriteSnapshot(w)
        PROVE  TypeInv'
    <2> DEFINE j == job[w]
               r == [j EXCEPT !.at = "row", !.after = {}]
    <2>1. j \in Job /\ j.e \in Entities
      BY <1>6 DEF WriteSnapshot, TypeOK, JobsBound, Idle
    <2>2. r \in Job /\ r.e = j.e /\ r.at = "row"
      BY <2>1 DEF Job
    <2>3. job' = [job EXCEPT ![w] = r]
      BY <1>6 DEF WriteSnapshot, TypeOK
    <2>4. JobsBound'
      BY <2>1, <2>2, <2>3, OneJobBound DEF TypeOK
    <2>5. [exists |-> TRUE, flags |-> j.after, result |-> j.result] \in Snapshot
      BY <2>1 DEF Job, Snapshot
    <2>6. snapshot' \in [Entities -> Snapshot]
      BY <1>6, <2>5 DEF WriteSnapshot, TypeOK
    <2>7. announced' \in [Entities -> SUBSET Lists]
      BY <1>6 DEF WriteSnapshot, TypeOK
    <2> HIDE DEF r
    <2> QED
      BY <1>6, <2>2, <2>3, <2>4, <2>6, <2>7 DEF WriteSnapshot, TypeOK
  <1>7. ASSUME NEW w \in Workers, WriteRow(w)
        PROVE  TypeInv'
    <2> DEFINE j == job[w]
               r == [Idle EXCEPT !.op = j.op, !.at = "notify", !.e = j.e, !.tell = j.tell]
    <2>1. j \in Job /\ j.e \in Entities
      BY <1>7 DEF WriteRow, TypeOK, JobsBound, Idle
    <2>2. r \in Job /\ r.e = j.e /\ r.at = "notify"
      BY <2>1, IdleTyped DEF Job
    <2>3. job' = [job EXCEPT ![w] = r] \/ Finish(w)
      BY <1>7 DEF WriteRow
    <2> HIDE DEF r
    <2>4. job' \in [Workers -> Job] /\ JobsBound'
      BY <2>1, <2>2, <2>3, FinishTyped, OneJobBound DEF TypeOK
    <2>5. row' \in [Entities -> Row]
      BY <1>7, <2>1, WrittenRow DEF TypeOK
    <2> QED
      BY <1>7, <2>4, <2>5 DEF WriteRow, TypeOK
  <1>8. ASSUME NEW e \in Entities, ResetController(e)
        PROVE  TypeInv'
    <2>1. Unscreened("beneficial_controllers") \in Row
      BY DEF Unscreened, Row, Results
    <2> QED
      BY <1>8, <2>1 DEF ResetController, TypeOK, JobsBound
  <1>9. CASE UNCHANGED vars
    BY <1>9 DEF vars, TypeOK, JobsBound
  <1> QED
    BY <1>1, <1>2, <1>3, <1>4, <1>5, <1>6, <1>7, <1>8, <1>9 DEF Next, Work, Passed

\* Rows, snapshots, searches and workers keep their shape for any number of
\* entities, lists, searches and workers (Screening, TypeOK).
THEOREM TypeCorrect == Spec => []TypeOK
  <1>1. Init => TypeInv
    BY IdleTyped DEF Init, TypeInv, TypeOK, JobsBound, Unscreened, NoSnapshot, NoSearch,
       Row, Snapshot, Search, Results
  <1>2. TypeInv /\ [Next]_vars => TypeInv'
    BY TypeStep
  <1>3. TypeInv => TypeOK
    BY DEF TypeInv
  <1> QED
    BY <1>1, <1>2, <1>3, PTL DEF Spec

-----------------------------------------------------------------------------
(* What takes a PEP match from a row.                                      *)

\* Only two statements write rows.
LEMMA WhoWritesRows ==
    ASSUME [Next]_vars
    PROVE  \/ \E w \in Workers : WriteRow(w)
           \/ \E e \in Entities : ResetController(e)
           \/ row' = row
  <1>1. ASSUME NEW w \in Workers, NEW e \in Entities,
               \/ StartSave(w, e) \/ StartRescan(w, e)
               \/ \E q \in Queries, type \in CallbackTypes : Callback(w, e, q, type)
               \/ \E q \in Queries : \E lists, given, found, result :
                      Patch(w, e, q, lists, given, found, result)
        PROVE  row' = row
    BY <1>1 DEF StartSave, StartRescan, Callback, Patch, written
  <1>2. ASSUME NEW w \in Workers,
               \/ \E q \in Queries, lists \in SUBSET Lists : SearchAnswers(w, q, lists)
               \/ SearchFails(w) \/ WriteSnapshot(w) \/ Notify(w) \/ Crash(w)
        PROVE  row' = row
    BY <1>2 DEF SearchAnswers, SearchFails, WriteSnapshot, Notify, Crash, written
  <1>3. CASE UNCHANGED vars
    BY <1>3 DEF vars
  <1>4. ASSUME NEW w \in Workers, Work(w)
        PROVE  WriteRow(w) \/ row' = row
    BY <1>1, <1>2, <1>4 DEF Work
  <1> QED
    BY <1>3, <1>4 DEF Next

\* Nobody changes from client to controller.
LEMMA TablesKept ==
    ASSUME TypeInv, [Next]_vars
    PROVE  \A e \in Entities : row'[e].table = row[e].table
  <1>1. ASSUME NEW w \in Workers, WriteRow(w)
        PROVE  \A e \in Entities : row'[e].table = row[e].table
    BY <1>1, WrittenRow
  <1>2. ASSUME NEW d \in Entities, ResetController(d)
        PROVE  \A e \in Entities : row'[e].table = row[e].table
    <2>1. /\ row' = [row EXCEPT ![d] = Unscreened("beneficial_controllers")]
          /\ row[d] \in Row /\ row[d].table # "clients"
      BY <1>2 DEF ResetController, IsClient, TypeInv, TypeOK
    <2>2. row[d].table = "beneficial_controllers"
      BY <2>1 DEF Row
    <2> QED
      BY <2>1, <2>2 DEF Unscreened, TypeInv, TypeOK
  <1>3. CASE row' = row
    BY <1>3
  <1> QED
    BY <1>1, <1>2, <1>3, WhoWritesRows

\* A worker takes the PEP flag only from the row of a controller, for a caller of
\* PATCH that passes it.
PepLeft(j) == "pep" \in j.keep \/ (j.op = "patch" /\ ~IsClient(j.e))

PepKept == \A w \in Workers : PepLeft(job[w])

\* One worker moves: enough to look at that worker.
LEMMA OnePepKept ==
    ASSUME TypeInv, PepKept, \A e \in Entities : row'[e].table = row[e].table,
           NEW w \in Workers, "pep" \in job'[w].keep \/ PepLeft(job'[w]),
           job'[w] = Idle \/ job'[w].e \in Entities,
           \A v \in Workers \ {w} : job'[v] = job[v]
    PROVE  PepKept'
  <1>0. "pep" \in Idle.keep
    BY DEF Idle, Flags, Async
  <1>1. ASSUME NEW v \in Workers \ {w}
        PROVE  PepLeft(job[v])'
    BY <1>0, <1>1 DEF PepKept, PepLeft, IsClient, TypeInv, JobsBound
  <1>2. PepLeft(job[w])'
    BY <1>0 DEF PepLeft, IsClient
  <1> QED
    BY <1>1, <1>2 DEF PepKept

\* Whatever a request takes on leaves the PEP flag, but for what callers of PATCH pass.
LEMMA RequestsKeepPep ==
    ASSUME NEW e
    PROVE  /\ "pep" \in SaveJob(e).keep /\ "pep" \in RescanJob(e).keep
           /\ \A q, given, found, result :
                 (IsClient(e) => given \subseteq Lists)
                   => PepLeft(PatchJob(e, q, given, found, result))
           /\ \A q, type : "pep" \in CallbackJob(e, q, type).keep
  <1>1. /\ "pep" \in Flags /\ "pep" \in Async /\ "pep" # "adverse_media"
        /\ "pep" \notin Lists
    BY ScreeningAssumption DEF Flags, Async
  <1>2. ASSUME NEW q, NEW given, NEW found, NEW result, IsClient(e) => given \subseteq Lists
        PROVE  PepLeft(PatchJob(e, q, given, found, result))
    <2> DEFINE j == PatchJob(e, q, given, found, result)
    <2>1. j.op = "patch" /\ j.e = e /\ j.keep = LeftOut(given)
      BY PatchJobFields
    <2> HIDE DEF j
    <2>2. PepLeft(j)
      BY <1>1, <1>2, <2>1 DEF PepLeft, LeftOut
    <2> QED
      BY <2>2 DEF j
  <1>3. \A q, type : "pep" \in CallbackJob(e, q, type).keep
    BY <1>1, CallbackJobFields DEF Kept
  <1> QED
    BY <1>1, <1>2, <1>3, SearchJobFields

\* Every step leaves the PEP flag to every worker, or knows who takes it.
LEMMA PepKeptStep ==
    ASSUME TypeInv, PepKept, [Next]_vars
    PROVE  PepKept'
  <1> USE DEF TypeInv
  <1>0. "pep" \in Idle.keep /\ "pep" \in Async
    BY DEF Idle, Flags, Async
  <1>t. \A e \in Entities : row'[e].table = row[e].table
    BY TablesKept
  <1>1. ASSUME NEW w \in Workers, NEW e \in Entities, NEW j \in Job, Begin(w, e, j),
               j.e = e, "pep" \in j.keep \/ PepLeft(j)
        PROVE  PepKept'
    BY <1>t, <1>1, BeginTyped, OnePepKept
  <1>2. ASSUME NEW w \in Workers, NEW e \in Entities,
               \/ StartSave(w, e) \/ StartRescan(w, e)
               \/ \E q \in Queries, type \in CallbackTypes : Callback(w, e, q, type)
        PROVE  PepKept'
    <2>1. PICK j \in Job : Begin(w, e, j) /\ j.e = e /\ "pep" \in j.keep
      BY <1>2, RequestsBegin, RequestJobsTyped, RequestsKeepPep, SearchJobFields,
         CallbackJobFields
    <2> QED
      BY <1>1, <2>1
  <1>3. ASSUME NEW w \in Workers, NEW q \in Queries, NEW lists \in SUBSET Lists,
               SearchAnswers(w, q, lists)
        PROVE  PepKept'
    <2>1. job[w] \in Job /\ job[w].e \in Entities
      BY <1>3 DEF SearchAnswers, TypeOK, JobsBound, Idle
    <2>2. job' = [job EXCEPT ![w] = Searched(job[w], q, lists)]
      BY <1>3 DEF SearchAnswers
    <2>3. /\ Searched(job[w], q, lists).keep = Async
          /\ Searched(job[w], q, lists).e = job[w].e
      BY <2>1, SearchedTyped
    <2>4. /\ job'[w] = Searched(job[w], q, lists)
          /\ \A v \in Workers \ {w} : job'[v] = job[v]
      BY <2>2 DEF TypeOK
    <2> QED
      BY <1>0, <1>t, <2>1, <2>3, <2>4, OnePepKept
  <1>4. ASSUME NEW w \in Workers,
               SearchFails(w) \/ WriteSnapshot(w) \/ WriteRow(w) \/ Notify(w) \/ Crash(w)
        PROVE  PepKept'
    <2>1. CASE Finish(w)
      BY <1>0, <1>t, <2>1, FinishTyped, OnePepKept
    <2>2. CASE WriteSnapshot(w)
      <3>1. /\ job[w] \in Job /\ job[w].e \in Entities /\ row' = row
            /\ job' = [job EXCEPT ![w] = [job[w] EXCEPT !.at = "row", !.after = {}]]
        <4>1. job[w].at = "snapshot" /\ row' = row
          BY <2>2 DEF WriteSnapshot
        <4>2. job[w] \in Job /\ job[w].e \in Entities
          BY <4>1 DEF TypeOK, JobsBound, Idle
        <4>3. job' = [job EXCEPT ![w] = [job[w] EXCEPT !.at = "row", !.after = {}]]
          BY <2>2 DEF WriteSnapshot, TypeOK
        <4> QED
          BY <4>1, <4>2, <4>3
      <3>2. /\ job'[w].keep = job[w].keep /\ job'[w].op = job[w].op /\ job'[w].e = job[w].e
            /\ \A v \in Workers \ {w} : job'[v] = job[v]
        BY <3>1 DEF TypeOK, Job
      <3>3. PepLeft(job'[w])
        BY <3>2 DEF PepKept, PepLeft
      <3> QED
        BY <1>t, <3>1, <3>2, <3>3, OnePepKept
    <2>3. CASE WriteRow(w) /\ ~Finish(w)
      <3>1. /\ job[w].e \in Entities
            /\ job' = [job EXCEPT ![w] = [Idle EXCEPT !.op = job[w].op, !.at = "notify",
                                                      !.e = job[w].e, !.tell = job[w].tell]]
        BY <2>3 DEF WriteRow, TypeOK, JobsBound, Idle
      <3>2. /\ job'[w].keep = Idle.keep /\ job'[w].e = job[w].e
            /\ \A v \in Workers \ {w} : job'[v] = job[v]
        BY <3>1, IdleTyped DEF TypeOK, Job
      <3> QED
        BY <1>0, <1>t, <3>1, <3>2, OnePepKept
    <2> QED
      BY <1>4, <2>1, <2>2, <2>3 DEF SearchFails, Notify, Crash
  <1>5. CASE (\E e \in Entities : ResetController(e)) \/ UNCHANGED vars
    <2>1. job' = job
      BY <1>5 DEF ResetController, vars
    <2>2. ASSUME NEW w \in Workers
          PROVE  PepLeft(job[w])'
      BY <1>0, <1>t, <2>1 DEF PepKept, PepLeft, IsClient, JobsBound
    <2> QED
      BY <2>2 DEF PepKept
  <1>6. ASSUME NEW w \in Workers, NEW e \in Entities, NEW q \in Queries,
               NEW lists \in SUBSET Lists, NEW given, NEW found, NEW result,
               Passed(given, found, result), Patch(w, e, q, lists, given, found, result)
        PROVE  PepKept'
    <2> DEFINE j == PatchJob(e, q, given, found, result)
    <2>1. Begin(w, e, j) /\ (IsClient(e) => given \subseteq Lists)
      BY <1>6, RequestsBegin DEF Patch
    <2>2. j \in Job
      BY <1>6, RequestJobsTyped
    <2>3. j.e = e
      BY PatchJobFields
    <2>4. PepLeft(j)
      BY <2>1, RequestsKeepPep
    <2> HIDE DEF j
    <2> QED
      BY <1>1, <2>1, <2>2, <2>3, <2>4
  <1> QED
    BY <1>2, <1>3, <1>4, <1>5, <1>6 DEF Next, Work, Passed

\* A PEP match, once on the row, outlives every later screening, failed callback and
\* callback without a match, for any number of workers at once.  That of a client is
\* never taken; that of a controller by PUT and by a PATCH whose caller passes isPEP
\* (Screening, PepNeverForgotten).
THEOREM PepStays == Spec => PepNeverForgotten
  <1> DEFINE Stays(e) == "pep" \in row[e].flags
                           => \/ "pep" \in row'[e].flags
                              \/ ~IsClient(e) /\ row'[e].query = NoQuery
                              \/ /\ ~IsClient(e)
                                 /\ \E w \in Workers : /\ job[w].e = e /\ job[w].op = "patch"
                                                        /\ "pep" \notin job[w].keep
  <1>1. Init => TypeInv /\ PepKept
    BY IdleTyped DEF Init, TypeInv, TypeOK, JobsBound, Unscreened, NoSnapshot, NoSearch,
       Row, Snapshot, Search, Results, PepKept, PepLeft, Idle, Flags, Async
  <1>2. TypeInv /\ PepKept /\ [Next]_vars => (TypeInv /\ PepKept)'
    BY TypeStep, PepKeptStep
  <1>3. ASSUME TypeInv, PepKept, [Next]_vars, NEW e \in Entities
        PROVE  Stays(e)
    <2>1. ASSUME NEW w \in Workers, WriteRow(w)
          PROVE  Stays(e)
      BY <1>3, <2>1, WrittenRow DEF PepKept, PepLeft
    <2>2. ASSUME NEW d \in Entities, ResetController(d)
          PROVE  Stays(e)
      BY <1>3, <2>2 DEF ResetController, Unscreened, TypeInv, TypeOK
    <2>3. CASE row' = row
      BY <2>3
    <2> QED
      BY <1>3, <2>1, <2>2, <2>3, WhoWritesRows
  <1>4. TypeInv /\ PepKept /\ [Next]_vars => [\A e \in Entities : Stays(e)]_row
    BY <1>3
  <1> QED
    BY <1>1, <1>2, <1>4, PTL DEF Spec, PepNeverForgotten

-----------------------------------------------------------------------------
(* Where the flags of a row come from.                                     *)

\* Some search for e found f.
Found(e, f) ==
    \E q \in Queries : search[q].entity = e /\ f \in FoundBy(search[q])

\* The row names a search for its entity, and its flags were found.
RowKnown(e) ==
    /\ row[e].query # NoQuery => search[row[e].query].entity = e
    /\ \A f \in row[e].flags : Found(e, f)

\* So does a worker, with the flags it is going to set.
JobKnown(w) ==
    /\ job[w].q # NoQuery => search[job[w].q].entity = job[w].e
    /\ \A f \in job[w].set : Found(job[w].e, f)

Known == /\ \A e \in Entities : RowKnown(e)
         /\ \A w \in Workers : JobKnown(w)

\* Searches already recorded do not change.
SearchesKept == \A q \in Queries : search[q].entity \in Entities => search'[q] = search[q]

\* A new search is none of the recorded ones.
LEMMA IssueKeeps ==
    ASSUME TypeOK, NEW q \in Queries, NEW e \in Entities, NEW lists \in SUBSET Lists,
           Issue(q, e, lists)
    PROVE  SearchesKept
  <1>1. NoSearch.entity \notin Entities
    BY ScreeningAssumption DEF NoSearch
  <1> QED
    BY <1>1, IssueTyped DEF SearchesKept

\* What was found stays found.
LEMMA FoundKept ==
    ASSUME SearchesKept, NEW e \in Entities, NEW f, Found(e, f)
    PROVE  Found(e, f)'
  <1>1. PICK q \in Queries : search[q].entity = e /\ f \in FoundBy(search[q])
    BY DEF Found
  <1>2. search'[q] = search[q]
    BY <1>1 DEF SearchesKept
  <1> QED
    BY <1>1, <1>2 DEF Found

\* A row or a worker that does not change stays known.
LEMMA KnownKept ==
    ASSUME TypeInv, Known, SearchesKept
    PROVE  /\ \A e \in Entities : row'[e] = row[e] => RowKnown(e)'
           /\ \A w \in Workers : job'[w] = job[w] => JobKnown(w)'
  <1>1. ASSUME NEW e \in Entities, row'[e] = row[e]
        PROVE  RowKnown(e)'
    <2>1. RowKnown(e) /\ row[e].query \in Queries \cup {NoQuery}
      BY DEF Known, TypeInv, TypeOK, Row
    <2>2. \A f \in row[e].flags : Found(e, f)'
      BY <2>1, FoundKept DEF RowKnown
    <2> QED
      BY <1>1, <2>1, <2>2 DEF RowKnown, SearchesKept
  <1>2. ASSUME NEW w \in Workers, job'[w] = job[w]
        PROVE  JobKnown(w)'
    <2>1. JobKnown(w) /\ job[w].q \in Queries \cup {NoQuery}
      BY DEF Known, TypeInv, TypeOK, Job
    <2>2. CASE job[w] = Idle
      BY <1>2, <2>2 DEF JobKnown, Idle
    <2>3. CASE job[w].e \in Entities
      <3>1. PICK e \in Entities : e = job[w].e
        BY <2>3
      <3>2. \A f \in job[w].set : Found(e, f)'
        BY <2>1, <3>1, FoundKept DEF JobKnown
      <3> QED
        BY <1>2, <2>1, <3>1, <3>2 DEF JobKnown, SearchesKept
    <2> QED
      BY <2>2, <2>3 DEF TypeInv, JobsBound
  <1> QED
    BY <1>1, <1>2

\* One worker moves and no row is written: enough to look at that worker.
LEMMA OneJobKnown ==
    ASSUME TypeInv, Known, SearchesKept, NEW w \in Workers, row' = row,
           \A v \in Workers \ {w} : job'[v] = job[v],
           JobKnown(w)'
    PROVE  Known'
  BY KnownKept DEF Known

\* A worker that sets nothing and names no search needs none.
LEMMA NothingKnown ==
    ASSUME NEW w \in Workers, job'[w].q = NoQuery, job'[w].set = {}
    PROVE  JobKnown(w)'
  BY DEF JobKnown

\* A worker may set what its own search found, the lists it returned for instance.
LEMMA AnswerKnown ==
    ASSUME TypeInv, NEW w \in Workers, NEW q \in Queries, NEW e \in Entities,
           NEW lists \in SUBSET Lists, Issue(q, e, lists),
           job'[w].q = q, job'[w].e = e,
           job'[w].set \subseteq lists \/ job'[w].set \subseteq FoundBy(search'[q])
    PROVE  JobKnown(w)'
  <1>1. search'[q].entity = e /\ search'[q].lists = lists
    BY IssueTyped DEF TypeInv
  <1>2. lists \subseteq FoundBy(search'[q])
    BY <1>1 DEF FoundBy
  <1>3. \A f \in job'[w].set : Found(e, f)'
    BY <1>1, <1>2 DEF Found
  <1> QED
    BY <1>1, <1>3 DEF JobKnown

\* A callback sets what its search found.
LEMMA ConfirmedFound ==
    ASSUME NEW e \in Entities, NEW q \in Queries, NEW type \in CallbackTypes,
           search[q].entity = e, NEW f \in Confirmed(type, q)
    PROVE  Found(e, f)
  <1>1. type \in search[q].hits /\ f \in Async
    BY DEF Confirmed, Async
  <1>2. CASE f = "pep"
    <2>1. type \in PepTypes
      BY <1>2 DEF Confirmed
    <2> QED
      BY <1>1, <1>2, <2>1 DEF Found, FoundBy
  <1>3. CASE f = "adverse_media"
    <2>1. type = "adverse_media"
      BY <1>3 DEF Confirmed, CallbackTypes
    <2> QED
      BY <1>1, <1>3, <2>1 DEF Found, FoundBy
  <1> QED
    BY <1>1, <1>2, <1>3 DEF Async

\* Every step keeps rows and workers known.
LEMMA KnownStep ==
    ASSUME TypeInv, Known, [Next]_vars
    PROVE  Known'
  <1> USE DEF TypeInv
  <1>0. NoQuery \notin Queries /\ (search' = search => SearchesKept)
    BY ScreeningAssumption DEF SearchesKept
  <1>1. ASSUME NEW w \in Workers, NEW e \in Entities,
               StartSave(w, e) \/ StartRescan(w, e)
        PROVE  Known'
    <2>1. search' = search /\ row' = row
      BY <1>1 DEF written, StartSave, StartRescan
    <2>2. Begin(w, e, SaveJob(e)) \/ Begin(w, e, RescanJob(e))
      BY <1>1, RequestsBegin
    <2>3. /\ job'[w] = SaveJob(e) \/ job'[w] = RescanJob(e)
          /\ \A v \in Workers \ {w} : job'[v] = job[v]
      BY <2>2, BeginTyped, RequestJobsTyped
    <2>4. job'[w].q = NoQuery /\ job'[w].set = {}
      BY <2>3, SearchJobFields
    <2> QED
      BY <1>0, <2>1, <2>3, <2>4, NothingKnown, OneJobKnown
  <1>2. ASSUME NEW w \in Workers, NEW e \in Entities, NEW q \in Queries,
               NEW lists \in SUBSET Lists, NEW given, NEW found, NEW result,
               Passed(given, found, result), Patch(w, e, q, lists, given, found, result)
        PROVE  Known'
    <2> DEFINE j == PatchJob(e, q, given, found, result)
    <2>1. Begin(w, e, j) /\ Issue(q, e, lists) /\ row' = row
      BY <1>2, RequestsBegin DEF Patch, written
    <2>2. j \in Job
      BY <1>2, RequestJobsTyped
    <2>3. j.e = e /\ j.q = q /\ j.set = found /\ found \subseteq FoundBy(search'[q])
      BY <1>2, PatchJobFields DEF Patch
    <2> HIDE DEF j
    <2>4. job'[w] = j /\ \A v \in Workers \ {w} : job'[v] = job[v]
      BY <2>1, <2>2, BeginTyped
    <2>5. JobKnown(w)'
      BY <2>1, <2>3, <2>4, AnswerKnown
    <2> QED
      BY <2>1, <2>4, <2>5, IssueKeeps, OneJobKnown
  <1>3. ASSUME NEW w \in Workers, NEW e \in Entities, NEW q \in Queries,
               NEW type \in CallbackTypes, Callback(w, e, q, type)
        PROVE  Known'
    <2> DEFINE j == CallbackJob(e, q, type)
    <2>1. Begin(w, e, j) /\ search' = search /\ row' = row /\ row[e].query = q
      BY <1>3, RequestsBegin DEF Callback, written
    <2>2. j \in Job
      BY RequestJobsTyped
    <2>3. j.e = e /\ j.q = q /\ j.set = Confirmed(type, q)
      BY CallbackJobFields
    <2> HIDE DEF j
    <2>4. job'[w] = j /\ \A v \in Workers \ {w} : job'[v] = job[v]
      BY <2>1, <2>2, BeginTyped
    <2>5. search[q].entity = e
      BY <1>0, <2>1 DEF Known, RowKnown
    <2>6. \A f \in Confirmed(type, q) : Found(e, f)
      BY <2>5, ConfirmedFound
    <2>7. JobKnown(w)'
      BY <2>1, <2>3, <2>4, <2>5, <2>6 DEF JobKnown, Found
    <2> QED
      BY <1>0, <2>1, <2>4, <2>7, OneJobKnown
  <1>4. ASSUME NEW w \in Workers, NEW q \in Queries, NEW lists \in SUBSET Lists,
               SearchAnswers(w, q, lists)
        PROVE  Known'
    <2> DEFINE s == Searched(job[w], q, lists)
    <2>1. job[w] \in Job /\ job[w].e \in Entities
      BY <1>4 DEF SearchAnswers, TypeOK, JobsBound, Idle
    <2>2. s.e = job[w].e /\ s.q = q /\ s.set = lists
      BY <2>1, SearchedTyped
    <2>3. job' = [job EXCEPT ![w] = s] /\ row' = row /\ Issue(q, job[w].e, lists)
      BY <1>4 DEF SearchAnswers, written
    <2> HIDE DEF s
    <2>4. job'[w] = s /\ \A v \in Workers \ {w} : job'[v] = job[v]
      BY <2>3 DEF TypeOK
    <2>5. PICK e \in Entities : e = job[w].e
      BY <2>1
    <2>6. JobKnown(w)'
      BY <2>2, <2>3, <2>4, <2>5, AnswerKnown
    <2>7. SearchesKept
      BY <2>3, <2>5, IssueKeeps
    <2> QED
      BY <2>3, <2>4, <2>6, <2>7, OneJobKnown
  <1>5. ASSUME NEW w \in Workers, SearchFails(w) \/ Notify(w) \/ Crash(w)
        PROVE  Known'
    <2>1. Finish(w) /\ search' = search /\ row' = row
      BY <1>5 DEF written, SearchFails, Notify, Crash
    <2>2. /\ job'[w].q = NoQuery /\ job'[w].set = {}
          /\ \A v \in Workers \ {w} : job'[v] = job[v]
      BY <2>1, FinishTyped DEF Idle
    <2> QED
      BY <1>0, <2>1, <2>2, NothingKnown, OneJobKnown
  <1>6. ASSUME NEW w \in Workers, WriteSnapshot(w)
        PROVE  Known'
    <2>1. /\ job[w] \in Job /\ search' = search /\ row' = row
          /\ job' = [job EXCEPT ![w] = [job[w] EXCEPT !.at = "row", !.after = {}]]
      BY <1>6 DEF WriteSnapshot, TypeOK
    <2>2. /\ job'[w].q = job[w].q /\ job'[w].set = job[w].set /\ job'[w].e = job[w].e
          /\ \A v \in Workers \ {w} : job'[v] = job[v]
      BY <2>1 DEF TypeOK, Job
    <2>3. JobKnown(w)'
      <3>1. JobKnown(w)
        BY DEF Known
      <3>2. \A e, f : Found(e, f) => Found(e, f)'
        BY <2>1 DEF Found
      <3> QED
        BY <2>1, <2>2, <3>1, <3>2 DEF JobKnown
    <2> QED
      BY <1>0, <2>1, <2>2, <2>3, OneJobKnown
  <1>7. ASSUME NEW w \in Workers, WriteRow(w)
        PROVE  Known'
    <2> DEFINE j == job[w]
    <2>1. search' = search /\ SearchesKept /\ j \in Job /\ JobKnown(w)
      BY <1>0, <1>7 DEF WriteRow, TypeOK, Known
    <2>2. PICK e \in Entities : e = j.e
      BY <1>7, WrittenRow
    <2>3. /\ \A d \in Entities \ {e} : row'[d] = row[d]
          /\ row'[e].flags = (row[e].flags \cap j.keep) \cup j.set
          /\ row'[e].query = row[e].query \/ row'[e].query = j.q
      BY <1>7, <2>2, WrittenRow
    <2>4. RowKnown(e)'
      <3>1. RowKnown(e)
        BY DEF Known
      <3>2. \A f \in row'[e].flags : Found(e, f)
        BY <2>1, <2>2, <2>3, <3>1 DEF RowKnown, JobKnown
      <3> QED
        BY <2>1, <2>2, <2>3, <3>1, <3>2 DEF RowKnown, JobKnown, Found
    <2>5. job'[w].q = NoQuery /\ job'[w].set = {} /\ \A v \in Workers \ {w} : job'[v] = job[v]
      <3>1. CASE Finish(w)
        BY <3>1, FinishTyped DEF Idle
      <3>2. CASE ~Finish(w)
        <4>1. job' = [job EXCEPT ![w] = [Idle EXCEPT !.op = j.op, !.at = "notify",
                                                     !.e = j.e, !.tell = j.tell]]
          BY <1>7, <3>2 DEF WriteRow
        <4> QED
          BY <4>1 DEF Idle, TypeOK
      <3> QED
        BY <3>1, <3>2
    <2> QED
      BY <2>1, <2>3, <2>4, <2>5, NothingKnown, KnownKept DEF Known
  <1>8. ASSUME NEW d \in Entities, ResetController(d)
        PROVE  Known'
    <2>1. /\ SearchesKept /\ job' = job
          /\ row' = [row EXCEPT ![d] = Unscreened("beneficial_controllers")]
      BY <1>0, <1>8 DEF ResetController
    <2>2. RowKnown(d)'
      BY <2>1 DEF TypeOK, RowKnown, Unscreened
    <2>3. \A e \in Entities \ {d} : row'[e] = row[e]
      BY <2>1 DEF TypeOK
    <2> QED
      BY <2>1, <2>2, <2>3, KnownKept DEF Known
  <1>9. CASE UNCHANGED vars
    BY <1>0, <1>9, KnownKept DEF vars, Known
  <1> QED
    BY <1>1, <1>2, <1>3, <1>4, <1>5, <1>6, <1>7, <1>8, <1>9 DEF Next, Work, Passed

\* A flag on the row of an entity comes from a search for that entity that found it,
\* however many workers handle old and new searches of it (Screening, MatchBelongs).
THEOREM MatchesBelong == Spec => []MatchBelongs
  <1>1. Init => TypeInv /\ Known
    BY IdleTyped DEF Init, TypeInv, TypeOK, JobsBound, Unscreened, NoSnapshot, NoSearch,
       Row, Snapshot, Search, Results, Known, RowKnown, JobKnown, Idle
  <1>2. TypeInv /\ Known /\ [Next]_vars => (TypeInv /\ Known)'
    BY TypeStep, KnownStep
  <1>3. Known => MatchBelongs
    BY DEF Known, RowKnown, Found, MatchBelongs
  <1> QED
    BY <1>1, <1>2, <1>3, PTL DEF Spec

-----------------------------------------------------------------------------
(* Entities that are handled by one worker at a time.                      *)

\* Two workers handle an entity at once only if that is remembered.
Alone ==
    \A e \in Entities \ raced : \A v, w \in Workers :
        job[v].e = e /\ job[w].e = e => v = w

\* A search is waited for by saves and rescans, only a rescan announces, only a patch
\* leaves the result, and a patch sets flags it assigns.
Role(j) ==
    /\ j.at = "search" => j.op \in {"save", "rescan"}
    /\ j.op # "rescan" => j.tell = {}
    /\ j.op # "patch" => j.assigns
    /\ j.op = "patch" => j.set \cap j.keep = {}

JobRoles == \A w \in Workers : Role(job[w])

\* A step of w about e: nobody else moves, nothing is written about others, and if
\* somebody else handles e that is remembered.
StepOn(w, e) ==
    /\ job[w] = Idle \/ job[w].e = e
    /\ job'[w] = Idle \/ job'[w].e = e
    /\ \A v \in Workers \ {w} : job'[v] = job[v]
    /\ \A d \in Entities \ {e} :
         /\ row'[d] = row[d] /\ snapshot'[d] = snapshot[d]
         /\ announced'[d] = announced[d] /\ (d \in torn => d \in torn')
         /\ (d \in passed <=> d \in passed')
         /\ (d \in unseen <=> d \in unseen')
    /\ raced \subseteq raced'
    /\ e \in raced' \/ \A v \in Workers \ {w} : job[v].e # e

Inv == TypeInv /\ Alone /\ JobRoles

-----------------------------------------------------------------------------
(* Every step of a worker is about one entity.                             *)

\* A worker that moves on without taking on a request is about its entity.
LEMMA OwnStep ==
    ASSUME Inv, NEW w \in Workers, job[w] # Idle, raced' = raced,
           job'[w] = Idle \/ job'[w].e = job[w].e,
           \A v \in Workers \ {w} : job'[v] = job[v],
           \A d \in Entities \ {job[w].e} :
             /\ row'[d] = row[d] /\ snapshot'[d] = snapshot[d]
             /\ announced'[d] = announced[d] /\ (d \in torn => d \in torn')
             /\ (d \in passed <=> d \in passed')
             /\ (d \in unseen <=> d \in unseen')
    PROVE  job[w].e \in Entities /\ StepOn(w, job[w].e)
  <1>1. job[w].e \in Entities
    BY DEF Inv, TypeInv, JobsBound
  <1>2. job[w].e \in raced' \/ \A v \in Workers \ {w} : job[v].e # job[w].e
    BY <1>1 DEF Inv, Alone
  <1> QED
    BY <1>1, <1>2 DEF StepOn

\* A worker that takes on a request is about the entity of the request.
LEMMA BeginStep ==
    ASSUME Inv, NEW w \in Workers, NEW e \in Entities, NEW j \in Job,
           Begin(w, e, j), j.e = e, UNCHANGED written
    PROVE  StepOn(w, e)
  <1>1. Busy(e) => e \in raced'
    BY BeginTyped DEF Inv, TypeInv
  <1>2. e \in raced' \/ \A v \in Workers \ {w} : job[v].e # e
    BY <1>1 DEF Busy
  <1> QED
    BY <1>2, BeginTyped DEF StepOn, Inv, TypeInv, written

\* The worker that moves keeps its role.
LEMMA OneJobRole ==
    ASSUME JobRoles, NEW w \in Workers, Role(job'[w]),
           \A v \in Workers \ {w} : job'[v] = job[v]
    PROVE  JobRoles'
  BY DEF JobRoles, Role

\* After a step about one entity, workers are still alone with theirs.
LEMMA AloneKept ==
    ASSUME Inv, NEW w \in Workers, NEW e \in Entities, StepOn(w, e)
    PROVE  Alone'
  <1> SUFFICES ASSUME NEW d \in Entities \ raced', NEW u \in Workers, NEW v \in Workers,
                      job'[u].e = d, job'[v].e = d, u # v
               PROVE  FALSE
    BY DEF Alone
  <1>1. d \notin raced
    BY DEF StepOn
  <1>2. CASE u # w /\ v # w
    BY <1>1, <1>2 DEF Inv, Alone, StepOn
  <1>3. CASE u = w \/ v = w
    <2>1. Idle.e \notin Entities
      BY ScreeningAssumption DEF Idle
    <2>2. d = e
      BY <1>3, <2>1 DEF StepOn
    <2> QED
      BY <1>3, <2>2 DEF StepOn
  <1> QED
    BY <1>2, <1>3

-----------------------------------------------------------------------------
(* What each step does, to the worker and to its entity.                   *)

\* A save or a rescan begins.
LEMMA StartFacts ==
    ASSUME Inv, NEW w \in Workers, NEW e \in Entities,
           StartSave(w, e) \/ StartRescan(w, e)
    PROVE  /\ StepOn(w, e) /\ UNCHANGED written
           /\ job'[w] = SaveJob(e) \/ job'[w] = RescanJob(e)
  <1>1. UNCHANGED written
    BY DEF StartSave, StartRescan, written
  <1>2. Begin(w, e, SaveJob(e)) \/ Begin(w, e, RescanJob(e))
    BY RequestsBegin
  <1>3. SaveJob(e) \in Job /\ RescanJob(e) \in Job /\ SaveJob(e).e = e /\ RescanJob(e).e = e
    BY RequestJobsTyped, SearchJobFields DEF Inv, TypeInv
  <1> QED
    BY <1>1, <1>2, <1>3, BeginStep, BeginTyped DEF Inv, TypeInv, written

\* A patch begins.
LEMMA PatchFacts ==
    ASSUME Inv, NEW w \in Workers, NEW e \in Entities, NEW q \in Queries,
           NEW lists \in SUBSET Lists, NEW given, NEW found, NEW result,
           Passed(given, found, result), Patch(w, e, q, lists, given, found, result)
    PROVE  /\ StepOn(w, e) /\ UNCHANGED written
           /\ job'[w] = PatchJob(e, q, given, found, result)
  <1> DEFINE j == PatchJob(e, q, given, found, result)
  <1>1. UNCHANGED written /\ Begin(w, e, j)
    BY RequestsBegin DEF Patch, written
  <1>2. j \in Job
    BY RequestJobsTyped DEF Inv, TypeInv
  <1>3. j.e = e
    BY PatchJobFields
  <1> HIDE DEF j
  <1>4. StepOn(w, e) /\ job'[w] = j
    BY <1>1, <1>2, <1>3, BeginStep, BeginTyped DEF Inv, TypeInv, written
  <1> QED
    BY <1>1, <1>4 DEF j

\* A callback begins.
LEMMA CallbackFacts ==
    ASSUME Inv, NEW w \in Workers, NEW e \in Entities, NEW q \in Queries,
           NEW type \in CallbackTypes, Callback(w, e, q, type)
    PROVE  /\ StepOn(w, e) /\ UNCHANGED written
           /\ job'[w] = CallbackJob(e, q, type)
  <1> DEFINE j == CallbackJob(e, q, type)
  <1>1. UNCHANGED written /\ Begin(w, e, j)
    BY RequestsBegin DEF Callback, written
  <1>2. j \in Job
    BY RequestJobsTyped DEF Inv, TypeInv
  <1>3. j.e = e
    BY CallbackJobFields
  <1> HIDE DEF j
  <1>4. StepOn(w, e) /\ job'[w] = j
    BY <1>1, <1>2, <1>3, BeginStep, BeginTyped DEF Inv, TypeInv, written
  <1> QED
    BY <1>1, <1>4 DEF j

\* The answer of a search comes back.
LEMMA AnswerFacts ==
    ASSUME Inv, NEW w \in Workers, NEW q \in Queries, NEW lists \in SUBSET Lists,
           SearchAnswers(w, q, lists)
    PROVE  /\ job[w] \in Job /\ job[w].e \in Entities /\ job[w].at = "search"
           /\ StepOn(w, job[w].e) /\ UNCHANGED written
           /\ job'[w] = Searched(job[w], q, lists)
  <1> DEFINE s == Searched(job[w], q, lists)
  <1>1. job[w] \in Job /\ job[w] # Idle /\ job[w].at = "search"
    BY DEF SearchAnswers, Inv, TypeInv, TypeOK, Idle
  <1>2. s.e = job[w].e
    BY <1>1, SearchedTyped
  <1>3. /\ job' = [job EXCEPT ![w] = s] /\ UNCHANGED written /\ raced' = raced
    BY DEF SearchAnswers, written
  <1> HIDE DEF s
  <1>4. job'[w] = s /\ \A v \in Workers \ {w} : job'[v] = job[v]
    BY <1>3 DEF Inv, TypeInv, TypeOK
  <1>5. job[w].e \in Entities /\ StepOn(w, job[w].e)
    BY <1>1, <1>2, <1>3, <1>4, OwnStep DEF written
  <1> QED
    BY <1>1, <1>3, <1>4, <1>5 DEF s

\* A failed search and a crash write nothing; a crash may tear the entity.
LEMMA DropFacts ==
    ASSUME Inv, NEW w \in Workers, SearchFails(w) \/ Crash(w)
    PROVE  /\ job[w].e \in Entities /\ StepOn(w, job[w].e)
           /\ UNCHANGED <<row, snapshot, announced, passed, unseen>> /\ torn \subseteq torn'
           /\ job[w].at = "row" /\ WithSnapshot(job[w]) => job[w].e \in torn'
           /\ job'[w] = Idle
  <1>1. /\ job[w] # Idle /\ Finish(w) /\ raced' = raced
        /\ UNCHANGED <<row, snapshot, announced, passed, unseen>> /\ torn \subseteq torn'
        /\ job[w].at = "row" /\ WithSnapshot(job[w]) => job[w].e \in torn'
    BY DEF SearchFails, Crash, Idle, written
  <1>2. job'[w] = Idle /\ \A v \in Workers \ {w} : job'[v] = job[v]
    BY <1>1, FinishTyped DEF Inv, TypeInv
  <1> QED
    BY <1>1, <1>2, OwnStep

\* A snapshot records what the worker knows, and forgets what it does not.
LEMMA SnapshotFacts ==
    ASSUME Inv, NEW w \in Workers, WriteSnapshot(w)
    PROVE  LET j == job[w] IN
           /\ j \in Job /\ j.e \in Entities /\ j.at = "snapshot"
           /\ StepOn(w, j.e) /\ UNCHANGED <<row, torn, passed, unseen>>
           /\ snapshot'[j.e] = [exists |-> TRUE, flags |-> j.after, result |-> j.result]
           /\ announced'[j.e] = announced[j.e] \cap j.after
           /\ job'[w] = [j EXCEPT !.at = "row", !.after = {}]
  <1> DEFINE j == job[w]
             r == [j EXCEPT !.at = "row", !.after = {}]
  <1>1. j \in Job /\ j # Idle /\ j.at = "snapshot" /\ j.e \in Entities
    BY DEF WriteSnapshot, Inv, TypeInv, TypeOK, JobsBound, Idle
  <1>2. job' = [job EXCEPT ![w] = r]
    BY DEF WriteSnapshot, Inv, TypeInv, TypeOK
  <1>3. r.e = j.e
    BY <1>1 DEF Job
  <1> HIDE DEF r
  <1>4. job'[w] = r /\ \A v \in Workers \ {w} : job'[v] = job[v]
    BY <1>2 DEF Inv, TypeInv, TypeOK
  <1>5. /\ UNCHANGED <<row, torn, passed, unseen>> /\ raced' = raced
        /\ snapshot'[j.e] = [exists |-> TRUE, flags |-> j.after, result |-> j.result]
        /\ announced'[j.e] = announced[j.e] \cap j.after
        /\ \A d \in Entities \ {j.e} : snapshot'[d] = snapshot[d] /\ announced'[d] = announced[d]
    BY <1>1 DEF WriteSnapshot, Inv, TypeInv, TypeOK
  <1>6. StepOn(w, j.e)
    BY <1>1, <1>3, <1>4, <1>5, OwnStep
  <1> QED
    BY <1>1, <1>4, <1>5, <1>6 DEF r

\* What is remembered of a row that j wrote.
RowNoted(j) ==
    /\ j.e \notin passed' =>
         j.op # "patch" \/ (PassesNothing(j) /\ j.e \notin passed)
    /\ j.e \notin torn' => WithSnapshot(j) \/ j.e \notin torn
    /\ j.e \notin unseen' =>
         WithSnapshot(j) \/ (j.set \cap Async = {} /\ j.e \notin unseen)

\* After its row is written a rescan has its announcement left, the others nothing.
LEMMA RowFacts ==
    ASSUME Inv, NEW w \in Workers, WriteRow(w)
    PROVE  LET j == job[w] IN
           /\ j \in Job /\ j.e \in Entities /\ j.at = "row"
           /\ StepOn(w, j.e) /\ UNCHANGED <<snapshot, announced>> /\ RowNoted(j)
           /\ \/ job'[w] = Idle
              \/ /\ j.op = "rescan" /\ job'[w].op = "rescan" /\ job'[w].at = "notify"
                 /\ job'[w].e = j.e /\ job'[w].tell = j.tell /\ job'[w].assigns
  <1> DEFINE j == job[w]
             r == [Idle EXCEPT !.op = j.op, !.at = "notify", !.e = j.e, !.tell = j.tell]
  <1>1. /\ j \in Job /\ j # Idle /\ j.at = "row" /\ j.e \in Entities
        /\ UNCHANGED <<snapshot, announced>> /\ raced' = raced
    BY DEF WriteRow, Inv, TypeInv, TypeOK, JobsBound, Idle
  <1>2. r.op = j.op /\ r.at = "notify" /\ r.e = j.e /\ r.tell = j.tell /\ r.assigns
    BY DEF Idle
  <1>3. Finish(w) \/ (j.op = "rescan" /\ job' = [job EXCEPT ![w] = r])
    BY DEF WriteRow
  <1> HIDE DEF r
  <1>4. /\ job'[w] = Idle \/ (j.op = "rescan" /\ job'[w] = r)
        /\ \A v \in Workers \ {w} : job'[v] = job[v]
    BY <1>3, FinishTyped DEF Inv, TypeInv, TypeOK
  <1>5. \A d \in Entities \ {j.e} : row'[d] = row[d]
    BY WrittenRow DEF Inv
  <1>7. /\ RowNoted(j)
        /\ \A d \in Entities \ {j.e} : /\ d \in torn => d \in torn'
                                      /\ (d \in passed <=> d \in passed')
                                      /\ (d \in unseen <=> d \in unseen')
    <2>1. /\ passed' = CASE j.op # "patch" -> passed \ {j.e}
                        [] j.op = "patch" /\ ~PassesNothing(j) -> passed \cup {j.e}
                        [] OTHER -> passed
          /\ torn' = IF WithSnapshot(j) THEN torn \ {j.e} ELSE torn
          /\ unseen' = CASE WithSnapshot(j) -> unseen \ {j.e}
                        [] ~WithSnapshot(j) /\ j.set \cap Async # {} -> unseen \cup {j.e}
                        [] OTHER -> unseen
      BY DEF WriteRow
    <2> QED
      BY <2>1 DEF RowNoted
  <1>6. StepOn(w, j.e)
    BY <1>1, <1>2, <1>4, <1>5, <1>7, OwnStep
  <1> QED
    BY <1>1, <1>2, <1>4, <1>6, <1>7

\* A rescan announces what is new and is done.
LEMMA NotifyFacts ==
    ASSUME Inv, NEW w \in Workers, Notify(w)
    PROVE  LET j == job[w] IN
           /\ j.e \in Entities /\ j.at = "notify" /\ StepOn(w, j.e)
           /\ UNCHANGED <<row, snapshot, torn, passed, unseen>>
           /\ announced'[j.e] = announced[j.e] \cup (j.tell \cap Lists)
           /\ job'[w] = Idle
  <1> DEFINE j == job[w]
  <1>1. /\ j # Idle /\ j.at = "notify" /\ j.e \in Entities
        /\ UNCHANGED <<row, snapshot, torn, passed, unseen>> /\ raced' = raced /\ Finish(w)
    BY DEF Notify, Inv, TypeInv, JobsBound, Idle
  <1>2. /\ announced'[j.e] = announced[j.e] \cup (j.tell \cap Lists)
        /\ \A d \in Entities \ {j.e} : announced'[d] = announced[d]
    BY <1>1 DEF Notify, Inv, TypeInv, TypeOK
  <1>3. job'[w] = Idle /\ \A v \in Workers \ {w} : job'[v] = job[v]
    BY <1>1, FinishTyped DEF Inv, TypeInv
  <1> QED
    BY <1>1, <1>2, <1>3, OwnStep

-----------------------------------------------------------------------------
\* PUT of a beneficial controller is a step of no worker.
LEMMA ResetFacts ==
    ASSUME Inv, NEW e \in Entities, ResetController(e)
    PROVE  /\ UNCHANGED <<job, snapshot, announced, torn>>
           /\ row'[e] = Unscreened("beneficial_controllers") /\ ~IsClient(e)
           /\ \A d \in Entities \ {e} : row'[d] = row[d]
           /\ raced \subseteq raced' /\ (Busy(e) => e \in raced')
           /\ \A d \in Entities \ {e} : /\ (d \in passed <=> d \in passed')
                                      /\ (d \in unseen <=> d \in unseen')
  BY DEF ResetController, Inv, TypeInv, TypeOK

\* Every step keeps types, roles, and workers alone with their entity.
LEMMA InvStep ==
    ASSUME Inv, [Next]_vars
    PROVE  Inv'
  <1>0. TypeInv'
    BY TypeStep DEF Inv
  <1>i. Role(Idle)
    BY DEF Idle, Role
  <1>1. ASSUME NEW w \in Workers, NEW e \in Entities, StepOn(w, e), Role(job'[w])
        PROVE  Inv'
    <2>1. JobRoles'
      BY <1>1, OneJobRole DEF Inv, StepOn
    <2>2. Alone'
      BY <1>1, AloneKept
    <2> QED
      BY <1>0, <2>1, <2>2 DEF Inv
  <1>2. ASSUME NEW w \in Workers, NEW e \in Entities, StartSave(w, e) \/ StartRescan(w, e)
        PROVE  Inv'
    BY <1>1, <1>2, StartFacts, SearchJobFields DEF Role
  <1>3. ASSUME NEW w \in Workers, NEW e \in Entities, NEW q \in Queries,
               NEW lists \in SUBSET Lists, NEW given, NEW found, NEW result,
               Passed(given, found, result), Patch(w, e, q, lists, given, found, result)
        PROVE  Inv'
    <2>1. StepOn(w, e) /\ job'[w] = PatchJob(e, q, given, found, result)
      BY <1>3, PatchFacts
    <2>2. /\ job'[w].at # "search" /\ job'[w].tell = {} /\ job'[w].op = "patch"
          /\ job'[w].keep = LeftOut(given) /\ job'[w].set = found
      BY <2>1, PatchJobFields
    <2>3. Role(job'[w])
      BY <1>3, <2>2 DEF Role, Passed, LeftOut
    <2> QED
      BY <1>1, <2>1, <2>3
  <1>4. ASSUME NEW w \in Workers, NEW e \in Entities, NEW q \in Queries,
               NEW type \in CallbackTypes, Callback(w, e, q, type)
        PROVE  Inv'
    <2>1. StepOn(w, e) /\ job'[w] = CallbackJob(e, q, type)
      BY <1>4, CallbackFacts
    <2>2. Role(job'[w])
      BY <2>1, CallbackJobFields DEF Role
    <2> QED
      BY <1>1, <2>1, <2>2
  <1>5. ASSUME NEW w \in Workers, NEW q \in Queries, NEW lists \in SUBSET Lists,
               SearchAnswers(w, q, lists)
        PROVE  Inv'
    <2>1. /\ job[w] \in Job /\ job[w].e \in Entities /\ job[w].at = "search"
          /\ StepOn(w, job[w].e) /\ job'[w] = Searched(job[w], q, lists)
      BY <1>5, AnswerFacts
    <2>2. /\ job[w].op \in {"save", "rescan"} /\ (job[w].op = "save" => job[w].tell = {})
          /\ job[w].assigns
      BY <2>1 DEF Inv, JobRoles, Role
    <2>3. Role(job'[w])
      BY <2>1, <2>2, SearchedTyped DEF Role
    <2> QED
      BY <1>1, <2>1, <2>3
  <1>6. ASSUME NEW w \in Workers, SearchFails(w) \/ Crash(w)
        PROVE  Inv'
    BY <1>1, <1>6, <1>i, DropFacts
  <1>7. ASSUME NEW w \in Workers, WriteSnapshot(w)
        PROVE  Inv'
    <2>1. /\ job[w] \in Job /\ job[w].e \in Entities /\ StepOn(w, job[w].e)
          /\ job'[w] = [job[w] EXCEPT !.at = "row", !.after = {}]
      BY <1>7, SnapshotFacts
    <2>2. /\ job'[w].at = "row" /\ job'[w].op = job[w].op /\ job'[w].tell = job[w].tell
          /\ job'[w].assigns = job[w].assigns /\ job'[w].set = job[w].set
          /\ job'[w].keep = job[w].keep
      BY <2>1 DEF Job
    <2>3. Role(job'[w])
      BY <2>2 DEF Inv, JobRoles, Role
    <2> QED
      BY <1>1, <2>1, <2>3
  <1>8. ASSUME NEW w \in Workers, WriteRow(w)
        PROVE  Inv'
    BY <1>1, <1>8, <1>i, RowFacts DEF Role
  <1>9. ASSUME NEW w \in Workers, Notify(w)
        PROVE  Inv'
    BY <1>1, <1>9, <1>i, NotifyFacts
  <1>10. ASSUME NEW e \in Entities, ResetController(e)
         PROVE  Inv'
    BY <1>0, <1>10, ResetFacts DEF Inv, Alone, JobRoles
  <1>11. CASE UNCHANGED vars
    BY <1>0, <1>11 DEF vars, Inv, Alone, JobRoles
  <1> QED
    BY <1>2, <1>3, <1>4, <1>5, <1>6, <1>7, <1>8, <1>9, <1>10, <1>11 DEF Next, Work, Passed

\* At the start nobody has done anything.
LEMMA InvInit ==
    ASSUME Init
    PROVE  Inv
  <1>1. TypeInv
    BY IdleTyped DEF Init, TypeInv, TypeOK, JobsBound, Unscreened, NoSnapshot, NoSearch,
       Row, Snapshot, Search, Results
  <1>2. Idle.e \notin Entities /\ Role(Idle)
    BY ScreeningAssumption DEF Idle, Role
  <1>3. \A w \in Workers : job[w] = Idle
    BY DEF Init
  <1> QED
    BY <1>1, <1>2, <1>3 DEF Inv, Alone, JobRoles

-----------------------------------------------------------------------------
(* The result never flatters the flags.                                    *)

\* A result that may stand beside these flags of e.
Fits(e, flags, result) ==
    /\ result = "clear" => flags \cap (Lists \cup {"pep"}) = {}
    /\ IsClient(e) /\ flags \cap Lists # {} => result = "flagged"

\* What the row of its entity will show when j has written it.
WrittenFlags(j) == (row[j.e].flags \cap j.keep) \cup j.set

RowFits(e) == e \notin raced \cup passed => Fits(e, row[e].flags, row[e].result)

\* A patch aside, which writes what it is told.
JobFits(w) ==
    LET j == job[w] IN
    j.e \in Entities \ raced /\ j.at \in {"snapshot", "row"} /\ j.op # "patch"
      => Fits(j.e, WrittenFlags(j), j.result)

ResultInv == /\ \A e \in Entities : RowFits(e)
             /\ \A w \in Workers : JobFits(w)

\* A step about e leaves the results of the others alone.
LEMMA OthersFit ==
    ASSUME Inv, ResultInv, NEW w \in Workers, NEW e \in Entities, StepOn(w, e),
           RowFits(e)', JobFits(w)'
    PROVE  ResultInv'
  <1>1. ASSUME NEW d \in Entities \ {e}
        PROVE  RowFits(d)'
    <2>1. row'[d] = row[d] /\ (d \notin raced' \cup passed' => d \notin raced \cup passed)
      BY DEF StepOn
    <2> QED
      BY <2>1 DEF ResultInv, RowFits, Fits, IsClient
  <1>2. ASSUME NEW v \in Workers \ {w}
        PROVE  JobFits(v)'
    <2>1. job'[v] = job[v] /\ (job[v].e = e => e \in raced') /\ raced \subseteq raced'
      BY DEF StepOn
    <2>2. job[v].e \in Entities \ {e} => row'[job[v].e] = row[job[v].e]
      BY DEF StepOn
    <2>3. JobFits(v)
      BY DEF ResultInv
    <2> QED
      BY <2>1, <2>2, <2>3 DEF JobFits, Fits, WrittenFlags, IsClient
  <1> QED
    BY <1>1, <1>2 DEF ResultInv

\* A callback writes a result that fits the flags it read and brings.
LEMMA CallbackFits ==
    ASSUME Inv, ResultInv, NEW e \in Entities, NEW q \in Queries, NEW type \in CallbackTypes
    PROVE  LET j == CallbackJob(e, q, type) IN
           Fits(e, WrittenFlags(j), j.result)
  <1> DEFINE j == CallbackJob(e, q, type)
             set == Confirmed(type, q)
  <1>1. /\ j.e = e /\ j.op = "callback" /\ j.keep = Kept(type) /\ j.set = set
        /\ j.result = IF Flagged(row[e].flags, set) THEN "flagged" ELSE "clear"
    BY CallbackJobFields
  <1>2. set \subseteq Async /\ Lists \cap Async = {}
    BY ConfirmedTyped, ScreeningAssumption
  <1> HIDE DEF j, set
  <1>3. WrittenFlags(j) = (row[e].flags \cap Kept(type)) \cup set
    BY <1>1 DEF WrittenFlags
  <1>4. ~Flagged(row[e].flags, set) => row[e].flags \cap (Lists \cup {"pep"}) = {} /\ set = {}
    BY DEF Flagged
  <1>5. WrittenFlags(j) \cap Lists # {} => Flagged(row[e].flags, set)
    BY <1>2, <1>3 DEF Flagged
  <1>6. Fits(e, WrittenFlags(j), j.result)
    BY <1>1, <1>3, <1>4, <1>5 DEF Fits
  <1> QED
    BY <1>6 DEF j

\* A search writes a result that fits the lists it found.
LEMMA AnswerFits ==
    ASSUME Inv, NEW j \in Job, j.e \in Entities, j.op \in {"save", "rescan"},
           NEW q \in Queries, NEW lists \in SUBSET Lists
    PROVE  LET s == Searched(j, q, lists) IN
           Fits(s.e, WrittenFlags(s), s.result)
  <1> DEFINE s == Searched(j, q, lists)
  <1>1. /\ s.op = j.op /\ s.e = j.e /\ s.keep = Async /\ s.set = lists
        /\ s.result = SyncResult(j, lists)
    BY SearchedTyped
  <1>2. Lists \cap Async = {}
    BY ScreeningAssumption
  <1> HIDE DEF s
  <1>3. WrittenFlags(s) = (row[j.e].flags \cap Async) \cup lists
    BY <1>1 DEF WrittenFlags
  <1>4. Fits(s.e, WrittenFlags(s), s.result)
    BY <1>1, <1>2, <1>3 DEF Fits, SyncResult
  <1> QED
    BY <1>4 DEF s

\* Every step keeps every result fitting.
LEMMA ResultStep ==
    ASSUME Inv, ResultInv, [Next]_vars
    PROVE  ResultInv'
  <1>0. ASSUME NEW e \in Entities, row'[e] = row[e], raced \subseteq raced',
               e \notin passed' => e \notin passed
        PROVE  RowFits(e)'
    BY <1>0 DEF ResultInv, RowFits, Fits, IsClient
  <1>i. /\ \A w \in Workers : job'[w] = Idle => JobFits(w)'
        /\ \A w \in Workers : job'[w].at \in {"search", "notify"} => JobFits(w)'
    BY DEF JobFits, Idle
  <1>b. ASSUME NEW w \in Workers, NEW e \in Entities, StepOn(w, e), row' = row,
               passed' = passed, job'[w].e = e,
               e \notin raced /\ job'[w].op # "patch"
                 => Fits(e, WrittenFlags(job'[w]), job'[w].result)
        PROVE  ResultInv'
    <2>1. JobFits(w)'
      BY <1>b DEF StepOn, JobFits, Fits, WrittenFlags, IsClient
    <2> QED
      BY <1>0, <1>b, <2>1, OthersFit DEF StepOn
  <1>1. ASSUME NEW w \in Workers, NEW e \in Entities, StartSave(w, e) \/ StartRescan(w, e)
        PROVE  ResultInv'
    <2>1. /\ StepOn(w, e) /\ row' = row /\ passed' = passed
          /\ job'[w] = SaveJob(e) \/ job'[w] = RescanJob(e)
      BY <1>1, StartFacts DEF written
    <2>2. job'[w].at = "search"
      BY <2>1, SearchJobFields
    <2> QED
      BY <1>0, <1>i, <2>1, <2>2, OthersFit DEF StepOn
  <1>2. ASSUME NEW w \in Workers, NEW e \in Entities, NEW q \in Queries,
               NEW lists \in SUBSET Lists, NEW given, NEW found, NEW result,
               Passed(given, found, result), Patch(w, e, q, lists, given, found, result)
        PROVE  ResultInv'
    <2>1. /\ StepOn(w, e) /\ row' = row /\ passed' = passed
          /\ job'[w] = PatchJob(e, q, given, found, result)
      BY <1>2, PatchFacts DEF written
    <2>2. job'[w].e = e /\ job'[w].op = "patch"
      BY <2>1, PatchJobFields
    <2> QED
      BY <1>b, <2>1, <2>2
  <1>3. ASSUME NEW w \in Workers, NEW e \in Entities, NEW q \in Queries,
               NEW type \in CallbackTypes, Callback(w, e, q, type)
        PROVE  ResultInv'
    <2>1. /\ StepOn(w, e) /\ row' = row /\ passed' = passed
          /\ job'[w] = CallbackJob(e, q, type)
      BY <1>3, CallbackFacts DEF written
    <2>2. job'[w].e = e
      BY <2>1, CallbackJobFields
    <2>3. Fits(e, WrittenFlags(job'[w]), job'[w].result)
      BY <2>1, CallbackFits
    <2> QED
      BY <1>b, <2>1, <2>2, <2>3
  <1>4. ASSUME NEW w \in Workers, NEW q \in Queries, NEW lists \in SUBSET Lists,
               SearchAnswers(w, q, lists)
        PROVE  ResultInv'
    <2>1. /\ job[w] \in Job /\ job[w].e \in Entities /\ job[w].at = "search"
          /\ StepOn(w, job[w].e) /\ row' = row /\ passed' = passed
          /\ job'[w] = Searched(job[w], q, lists)
      BY <1>4, AnswerFacts DEF written
    <2>2. job[w].op \in {"save", "rescan"}
      BY <2>1 DEF Inv, JobRoles, Role
    <2>3. job'[w].e = job[w].e
      BY <2>1, SearchedTyped
    <2>4. Fits(job'[w].e, WrittenFlags(job'[w]), job'[w].result)
      BY <2>1, <2>2, AnswerFits
    <2> QED
      BY <1>b, <2>1, <2>3, <2>4
  <1>5. ASSUME NEW w \in Workers, SearchFails(w) \/ Crash(w) \/ Notify(w)
        PROVE  ResultInv'
    <2>1. /\ job[w].e \in Entities /\ StepOn(w, job[w].e) /\ row' = row
          /\ passed' = passed /\ job'[w] = Idle
      BY <1>5, DropFacts, NotifyFacts
    <2> QED
      BY <1>0, <1>i, <2>1, OthersFit DEF StepOn
  <1>6. ASSUME NEW w \in Workers, WriteSnapshot(w)
        PROVE  ResultInv'
    <2> DEFINE j == job[w]
    <2>1. /\ j \in Job /\ j.e \in Entities /\ j.at = "snapshot" /\ StepOn(w, j.e) /\ row' = row
          /\ passed' = passed /\ job'[w] = [j EXCEPT !.at = "row", !.after = {}]
      BY <1>6, SnapshotFacts
    <2>2. /\ job'[w].e = j.e /\ job'[w].op = j.op /\ job'[w].keep = j.keep
          /\ job'[w].set = j.set /\ job'[w].result = j.result
      BY <2>1 DEF Job
    <2>3. j.e \notin raced /\ j.op # "patch" => Fits(j.e, WrittenFlags(job'[w]), job'[w].result)
      BY <2>1, <2>2 DEF ResultInv, JobFits, WrittenFlags
    <2> QED
      BY <1>b, <2>1, <2>2, <2>3
  <1>7. ASSUME NEW w \in Workers, WriteRow(w)
        PROVE  ResultInv'
    <2> DEFINE j == job[w]
    <2>1. /\ j \in Job /\ j.e \in Entities /\ j.at = "row" /\ StepOn(w, j.e) /\ RowNoted(j)
          /\ job'[w] = Idle \/ job'[w].at = "notify"
      BY <1>7, RowFacts
    <2>2. /\ row'[j.e].table = row[j.e].table
          /\ row'[j.e].flags = WrittenFlags(j)
          /\ row'[j.e].result = IF j.assigns THEN j.result ELSE row[j.e].result
      BY <1>7, WrittenRow DEF WrittenFlags, Inv
    <2>3. j.e \notin raced /\ j.op # "patch" => Fits(j.e, WrittenFlags(j), j.result)
      BY <2>1 DEF ResultInv, JobFits
    <2>4. PICK e \in Entities : e = j.e
      BY <2>1
    <2>5. ASSUME e \notin raced' \cup passed'
          PROVE  Fits(e, row'[e].flags, row'[e].result)
      <3>1. CASE j.op # "patch"
        <4>1. j.assigns
          BY <3>1 DEF Inv, JobRoles, Role
        <4> QED
          BY <2>1, <2>2, <2>3, <2>4, <2>5, <3>1, <4>1 DEF StepOn
      <3>2. CASE j.op = "patch"
        <4>1. PassesNothing(j) /\ e \notin passed
          BY <2>1, <2>4, <2>5, <3>2 DEF RowNoted
        <4>2. j.set = {} /\ row[e].flags \subseteq Flags
          BY <2>1, <3>2, <4>1 DEF PassesNothing, Inv, JobRoles, Role, TypeInv, TypeOK, Job, Row
        <4>3. row'[e].flags = row[e].flags /\ row'[e].result = row[e].result
          BY <2>2, <2>4, <4>1, <4>2 DEF WrittenFlags, PassesNothing
        <4>4. Fits(e, row[e].flags, row[e].result)
          BY <2>1, <2>5, <4>1 DEF ResultInv, RowFits, StepOn
        <4> QED
          BY <4>3, <4>4
      <3> QED
        BY <3>1, <3>2
    <2>6. RowFits(e)'
      BY <2>2, <2>4, <2>5 DEF RowFits, Fits, IsClient
    <2> QED
      BY <1>i, <2>1, <2>4, <2>6, OthersFit
  <1>8. ASSUME NEW d \in Entities, ResetController(d)
        PROVE  ResultInv'
    <2>1. /\ job' = job /\ row'[d] = Unscreened("beneficial_controllers")
          /\ \A e \in Entities \ {d} : row'[e] = row[e]
          /\ \A e \in Entities \ {d} : e \notin passed' => e \notin passed
          /\ raced \subseteq raced' /\ (Busy(d) => d \in raced')
      BY <1>8, ResetFacts
    <2>2. RowFits(d)'
      BY <2>1 DEF RowFits, Fits, Unscreened
    <2>3. ASSUME NEW w \in Workers
          PROVE  JobFits(w)'
      <3>1. JobFits(w) /\ (job[w].e = d => d \in raced')
        BY <2>1 DEF ResultInv, Busy
      <3>2. job[w].e \in Entities \ {d} => row'[job[w].e] = row[job[w].e]
        BY <2>1
      <3> QED
        BY <2>1, <3>1, <3>2 DEF JobFits, Fits, WrittenFlags, IsClient
    <2> QED
      BY <1>0, <2>1, <2>2, <2>3 DEF ResultInv
  <1>9. CASE UNCHANGED vars
    BY <1>9 DEF vars, ResultInv, RowFits, JobFits, Fits, WrittenFlags, IsClient
  <1> QED
    BY <1>1, <1>2, <1>3, <1>4, <1>5, <1>6, <1>7, <1>8, <1>9 DEF Next, Work, Passed

\* Nobody is cleared who is on a list or a PEP, and a client on a list is flagged,
\* whatever searches, failures, crashes and callbacks came before, unless two of them
\* were handled at once or the row shows what a caller of PATCH passed (Screening,
\* ResultNotTooGood).
THEOREM ResultSound == Spec => []ResultNotTooGood
  <1>1. Init => Inv /\ ResultInv
    <2>1. Init => ResultInv
      BY DEF Init, ResultInv, RowFits, JobFits, Fits, Unscreened, Idle
    <2> QED
      BY <2>1, InvInit
  <1>2. Inv /\ ResultInv /\ [Next]_vars => (Inv /\ ResultInv)'
    BY InvStep, ResultStep
  <1>3. ResultInv => ResultNotTooGood
    BY DEF ResultInv, RowFits, Fits, ResultNotTooGood
  <1> QED
    BY <1>1, <1>2, <1>3, PTL DEF Spec

-----------------------------------------------------------------------------
(* The history of snapshots knows every PEP and adverse-media match.       *)

Recorded(e) ==
    /\ "pep" \in row[e].flags => "pep" \in snapshot[e].flags
    /\ e \notin torn => row[e].flags \cap Async \subseteq snapshot[e].flags

EntityRecorded(e) == e \notin raced \cup unseen /\ ~Busy(e) => Recorded(e)

\* Between its snapshot and its row a worker has recorded what it is going to write;
\* before and after that, and if it writes no snapshot, what is on the row, unless a
\* PATCH brought that.
JobRecorded(w) ==
    LET j == job[w] IN
    j.e \in Entities \ raced =>
      /\ j.at \in {"search", "snapshot", "notify"} => j.e \in unseen \/ Recorded(j.e)
      /\ j.at = "snapshot" => WithSnapshot(j)
      /\ j.at = "row" /\ ~WithSnapshot(j) => j.e \in unseen \/ Recorded(j.e)
      /\ j.at = "search" /\ j.op = "rescan" => row[j.e].flags \cap Async \subseteq j.after
      /\ j.at = "snapshot" => WrittenFlags(j) \cap Async \subseteq j.after
      /\ j.at = "row" /\ WithSnapshot(j) => WrittenFlags(j) \cap Async \subseteq snapshot[j.e].flags

RecordInv == /\ \A e \in Entities : EntityRecorded(e)
             /\ \A w \in Workers : JobRecorded(w)

\* A step about e leaves the records of the others alone.
LEMMA OthersRecorded ==
    ASSUME Inv, RecordInv, NEW w \in Workers, NEW e \in Entities, StepOn(w, e),
           EntityRecorded(e)', JobRecorded(w)'
    PROVE  RecordInv'
  <1>i. Idle.e \notin Entities
    BY ScreeningAssumption DEF Idle
  <1>1. ASSUME NEW d \in Entities \ {e}
        PROVE  EntityRecorded(d)'
    <2>1. /\ row'[d] = row[d] /\ snapshot'[d] = snapshot[d]
          /\ d \notin raced' \cup unseen' => d \notin raced \cup unseen
          /\ d \in torn => d \in torn'
      BY DEF StepOn
    <2>2. Busy(d)' <=> Busy(d)
      <3>1. job'[w].e # d /\ job[w].e # d
        BY <1>i DEF StepOn
      <3>2. \A v \in Workers : job'[v].e = d <=> job[v].e = d
        BY <3>1 DEF StepOn
      <3> QED
        BY <3>2 DEF Busy
    <2> QED
      BY <2>1, <2>2 DEF RecordInv, EntityRecorded, Recorded
  <1>2. ASSUME NEW v \in Workers \ {w}
        PROVE  JobRecorded(v)'
    <2>1. job'[v] = job[v] /\ (job[v].e = e => e \in raced') /\ raced \subseteq raced'
      BY DEF StepOn
    <2>2. job[v].e \in Entities \ {e} =>
            /\ row'[job[v].e] = row[job[v].e] /\ snapshot'[job[v].e] = snapshot[job[v].e]
            /\ job[v].e \in torn => job[v].e \in torn'
            /\ job[v].e \in unseen => job[v].e \in unseen'
      BY DEF StepOn
    <2>3. JobRecorded(v)
      BY DEF RecordInv
    <2> QED
      BY <2>1, <2>2, <2>3 DEF JobRecorded, Recorded, WrittenFlags, WithSnapshot, IsClient
  <1> QED
    BY <1>1, <1>2 DEF RecordInv

\* An entity that a worker keeps handling is busy.
LEMMA BusyRecorded ==
    ASSUME NEW w \in Workers, NEW e \in Entities, job'[w].e = e
    PROVE  EntityRecorded(e)'
  BY DEF EntityRecorded, Busy

\* Before a worker takes on e, its row is on record.
LEMMA BeginRecorded ==
    ASSUME Inv, RecordInv, NEW w \in Workers, NEW e \in Entities, StepOn(w, e),
           job[w] = Idle, e \notin raced' \cup unseen
    PROVE  Recorded(e)
  <1>1. ~Busy(e)
    BY ScreeningAssumption DEF StepOn, Busy, Idle
  <1> QED
    BY <1>1 DEF RecordInv, EntityRecorded, StepOn

\* Every step keeps the records.
LEMMA RecordStep ==
    ASSUME Inv, PepKept, RecordInv, [Next]_vars
    PROVE  RecordInv'
  <1>t. /\ Lists \cap Async = {} /\ Idle.e \notin Entities
        /\ \A e \in Entities : row[e].flags \subseteq Flags
    BY ScreeningAssumption DEF Idle, Inv, TypeInv, TypeOK, Row
  <1>i. \A w \in Workers : job'[w] = Idle => JobRecorded(w)'
    BY <1>t DEF JobRecorded
  <1>1. ASSUME NEW w \in Workers, NEW e \in Entities, StartSave(w, e) \/ StartRescan(w, e)
        PROVE  RecordInv'
    <2>1. /\ StepOn(w, e) /\ UNCHANGED written /\ job[w] = Idle
          /\ job'[w] = SaveJob(e) \/ job'[w] = RescanJob(e)
      BY <1>1, StartFacts DEF StartSave, StartRescan, Begin
    <2>2. /\ job'[w].e = e /\ job'[w].at = "search"
          /\ job'[w].op = "rescan" => job'[w].after = row[e].flags \cap Async
      BY <2>1, SearchJobFields
    <2>3. e \notin raced' \cup unseen => Recorded(e)
      BY <2>1, BeginRecorded
    <2>4. JobRecorded(w)'
      BY <2>1, <2>2, <2>3 DEF JobRecorded, Recorded, written
    <2> QED
      BY <2>1, <2>2, <2>4, BusyRecorded, OthersRecorded
  <1>2. ASSUME NEW w \in Workers, NEW e \in Entities, NEW q \in Queries,
               NEW lists \in SUBSET Lists, NEW given, NEW found, NEW result,
               Passed(given, found, result), Patch(w, e, q, lists, given, found, result)
        PROVE  RecordInv'
    <2> DEFINE j == PatchJob(e, q, given, found, result)
    <2>1. StepOn(w, e) /\ UNCHANGED written /\ job[w] = Idle /\ job'[w] = j
      <3>1. job[w] = Idle
        BY <1>2 DEF Patch, Begin
      <3>2. StepOn(w, e) /\ UNCHANGED written /\ job'[w] = j
        BY <1>2, PatchFacts DEF RecordInv
      <3> QED
        BY <3>1, <3>2
    <2>2. /\ j.e = e /\ j.op = "patch"
          /\ j.at = IF IsClient(e) THEN "snapshot" ELSE "row"
          /\ IsClient(e) => j.after = (row[e].flags \cap j.keep) \cup j.set
      BY PatchJobFields
    <2>3. e \notin raced' \cup unseen => Recorded(e)
      BY <2>1, BeginRecorded
    <2> HIDE DEF j
    <2>4. WrittenFlags(j) = (row[e].flags \cap j.keep) \cup j.set
      BY <2>2 DEF WrittenFlags
    <2>5. WithSnapshot(j) <=> IsClient(e)
      BY <2>2 DEF WithSnapshot
    <2>6. JobRecorded(w)'
      <3>1. WithSnapshot(job[w])' <=> WithSnapshot(j)
        BY <2>1 DEF WithSnapshot, IsClient, written
      <3>2. WrittenFlags(job[w])' = WrittenFlags(j)
        BY <2>1, <2>2 DEF WrittenFlags, written
      <3> QED
        BY <2>1, <2>2, <2>3, <2>4, <2>5, <3>1, <3>2 DEF JobRecorded, Recorded, written
    <2> QED
      BY <2>1, <2>2, <2>6, BusyRecorded, OthersRecorded
  <1>3. ASSUME NEW w \in Workers, NEW e \in Entities, NEW q \in Queries,
               NEW type \in CallbackTypes, Callback(w, e, q, type)
        PROVE  RecordInv'
    <2> DEFINE j == CallbackJob(e, q, type)
    <2>1. StepOn(w, e) /\ UNCHANGED written /\ job[w] = Idle /\ job'[w] = j
      BY <1>3, CallbackFacts DEF Callback, Begin
    <2>2. /\ j.e = e /\ j.op = "callback" /\ j.at = "snapshot"
          /\ j.after = (row[e].flags \cap j.keep) \cup j.set
      BY CallbackJobFields
    <2>3. e \notin raced' \cup unseen => Recorded(e)
      BY <2>1, BeginRecorded
    <2> HIDE DEF j
    <2>4. JobRecorded(w)'
      BY <2>1, <2>2, <2>3 DEF JobRecorded, Recorded, WrittenFlags, WithSnapshot, written
    <2> QED
      BY <2>1, <2>2, <2>4, BusyRecorded, OthersRecorded
  <1>4. ASSUME NEW w \in Workers, NEW q \in Queries, NEW lists \in SUBSET Lists,
               SearchAnswers(w, q, lists)
        PROVE  RecordInv'
    <2> DEFINE j == job[w]
               s == Searched(job[w], q, lists)
    <2>1. /\ j \in Job /\ j.e \in Entities /\ j.at = "search"
          /\ StepOn(w, j.e) /\ UNCHANGED written /\ job'[w] = s
      BY <1>4, AnswerFacts
    <2>2. j.op \in {"save", "rescan"}
      BY <2>1 DEF Inv, JobRoles, Role
    <2>3. /\ s.op = j.op /\ s.e = j.e /\ s.keep = Async /\ s.set = lists
          /\ j.op = "save" => s.at = "row"
          /\ j.op # "save" => s.at = "snapshot" /\ s.after = j.after \cup lists
      BY <2>1, SearchedTyped
    <2> HIDE DEF s
    <2>4. j.e \notin raced' =>
            /\ j.e \in unseen \/ Recorded(j.e)
            /\ j.op = "rescan" => row[j.e].flags \cap Async \subseteq j.after
      BY <2>1 DEF RecordInv, JobRecorded, StepOn
    <2>5. PICK e \in Entities : e = j.e
      BY <2>1
    <2>6. JobRecorded(w)'
      <3>1. WrittenFlags(job[w])' = (row[e].flags \cap Async) \cup lists
        BY <2>1, <2>3, <2>5 DEF WrittenFlags, written
      <3>2. WrittenFlags(job[w])' \cap Async = row[e].flags \cap Async
        BY <1>t, <3>1
      <3> QED
        BY <2>1, <2>2, <2>3, <2>4, <2>5, <3>2 DEF JobRecorded, Recorded, WithSnapshot, written
    <2>7. job'[w].e = e /\ StepOn(w, e)
      BY <2>1, <2>3, <2>5
    <2> QED
      BY <2>6, <2>7, BusyRecorded, OthersRecorded
  <1>5. ASSUME NEW w \in Workers, SearchFails(w) \/ Crash(w) \/ Notify(w)
        PROVE  RecordInv'
    <2> DEFINE j == job[w]
    <2>1. /\ j.e \in Entities /\ StepOn(w, j.e) /\ row' = row /\ snapshot' = snapshot
          /\ torn \subseteq torn' /\ unseen' = unseen /\ job'[w] = Idle
          /\ j.at = "row" /\ WithSnapshot(j) => j.e \in torn'
      BY <1>5, DropFacts, NotifyFacts
    <2>2. j.at \in {"search", "snapshot", "row", "notify"}
      BY <1>t, <2>1 DEF Inv, TypeInv, TypeOK, JobsBound, Job
    <2>4. PICK e \in Entities : e = j.e
      BY <2>1
    <2>3. ASSUME e \notin raced' \cup unseen'
          PROVE  Recorded(e)'
      <3>1. CASE j.at = "row" /\ WithSnapshot(j)
        <4>1. WrittenFlags(j) \cap Async \subseteq snapshot[e].flags
          BY <2>1, <2>3, <2>4, <3>1 DEF RecordInv, JobRecorded, StepOn
        <4>2. "pep" \in j.keep
          BY <3>1 DEF PepKept, PepLeft, WithSnapshot
        <4>3. "pep" \in row[e].flags => "pep" \in snapshot[e].flags
          BY <2>4, <4>1, <4>2 DEF WrittenFlags, Async
        <4> QED
          BY <2>1, <2>4, <3>1, <4>3 DEF Recorded
      <3>2. CASE ~(j.at = "row" /\ WithSnapshot(j))
        <4>1. Recorded(e)
          BY <2>1, <2>2, <2>3, <2>4, <3>2 DEF RecordInv, JobRecorded, StepOn
        <4> QED
          BY <2>1, <4>1 DEF Recorded
      <3> QED
        BY <3>1, <3>2
    <2>5. EntityRecorded(e)'
      BY <2>3 DEF EntityRecorded
    <2> QED
      BY <1>i, <2>1, <2>4, <2>5, OthersRecorded
  <1>6. ASSUME NEW w \in Workers, WriteSnapshot(w)
        PROVE  RecordInv'
    <2> DEFINE j == job[w]
    <2>1. /\ j \in Job /\ j.e \in Entities /\ j.at = "snapshot" /\ StepOn(w, j.e)
          /\ row' = row /\ torn' = torn
          /\ snapshot'[j.e] = [exists |-> TRUE, flags |-> j.after, result |-> j.result]
          /\ job'[w] = [j EXCEPT !.at = "row", !.after = {}]
      BY <1>6, SnapshotFacts
    <2>2. /\ job'[w].at = "row" /\ job'[w].e = j.e /\ job'[w].op = j.op
          /\ job'[w].keep = j.keep /\ job'[w].set = j.set
          /\ snapshot'[j.e].flags = j.after
      BY <2>1 DEF Job
    <2>3. PICK e \in Entities : e = j.e
      BY <2>1
    <2>4. e \notin raced' => WithSnapshot(j) /\ WrittenFlags(j) \cap Async \subseteq j.after
      BY <2>1, <2>3 DEF RecordInv, JobRecorded, StepOn
    <2>5. JobRecorded(w)'
      BY <2>1, <2>2, <2>3, <2>4 DEF JobRecorded, WrittenFlags, WithSnapshot, IsClient
    <2>6. job'[w].e = e /\ StepOn(w, e)
      BY <2>1, <2>2, <2>3
    <2> QED
      BY <2>5, <2>6, BusyRecorded, OthersRecorded
  <1>7. ASSUME NEW w \in Workers, WriteRow(w)
        PROVE  RecordInv'
    <2> DEFINE j == job[w]
    <2>1. /\ j \in Job /\ j.e \in Entities /\ j.at = "row" /\ StepOn(w, j.e)
          /\ snapshot' = snapshot /\ RowNoted(j)
          /\ job'[w] = Idle \/ (job'[w].at = "notify" /\ job'[w].e = j.e)
      BY <1>7, RowFacts
    <2>2. row'[j.e].flags = WrittenFlags(j)
      BY <1>7, WrittenRow DEF WrittenFlags, Inv
    <2>4. PICK e \in Entities : e = j.e
      BY <2>1
    <2>5. ASSUME e \notin raced' \cup unseen'
          PROVE  Recorded(e)'
      <3>1. CASE WithSnapshot(j)
        <4>1. WrittenFlags(j) \cap Async \subseteq snapshot[e].flags
          BY <2>1, <2>4, <2>5, <3>1 DEF RecordInv, JobRecorded, StepOn
        <4> QED
          BY <2>1, <2>2, <2>4, <4>1 DEF Recorded, Async
      <3>2. CASE ~WithSnapshot(j)
        <4>1. j.set \cap Async = {} /\ e \notin unseen /\ (e \notin torn' => e \notin torn)
          BY <2>1, <2>4, <2>5, <3>2 DEF RowNoted
        <4>2. Recorded(e)
          BY <2>1, <2>4, <2>5, <3>2, <4>1 DEF RecordInv, JobRecorded, StepOn
        <4>3. row'[e].flags \cap Async \subseteq row[e].flags \cap Async
          BY <2>2, <2>4, <4>1 DEF WrittenFlags
        <4> QED
          BY <2>1, <4>1, <4>2, <4>3 DEF Recorded, Async
      <3> QED
        BY <3>1, <3>2
    <2>6. EntityRecorded(e)'
      BY <2>5 DEF EntityRecorded
    <2>7. JobRecorded(w)'
      BY <1>i, <2>1, <2>4, <2>5 DEF JobRecorded
    <2> QED
      BY <2>1, <2>4, <2>6, <2>7, OthersRecorded
  <1>8. ASSUME NEW d \in Entities, ResetController(d)
        PROVE  RecordInv'
    <2>1. /\ UNCHANGED <<job, snapshot, torn>> /\ row'[d].flags = {}
          /\ \A e \in Entities \ {d} : row'[e] = row[e]
          /\ \A e \in Entities \ {d} : (e \in unseen <=> e \in unseen')
          /\ raced \subseteq raced' /\ (Busy(d) => d \in raced')
      BY <1>8, ResetFacts DEF Unscreened
    <2>2. \A e \in Entities : EntityRecorded(e)'
      BY <2>1 DEF RecordInv, EntityRecorded, Recorded, Busy
    <2>3. ASSUME NEW w \in Workers
          PROVE  JobRecorded(w)'
      <3>1. JobRecorded(w) /\ (job[w].e = d => d \in raced')
        BY <2>1 DEF RecordInv, Busy
      <3>2. job[w].e \in Entities \ {d} => row'[job[w].e] = row[job[w].e]
        BY <2>1
      <3> QED
        BY <2>1, <3>1, <3>2 DEF JobRecorded, Recorded, WrittenFlags, WithSnapshot, IsClient
    <2> QED
      BY <2>2, <2>3 DEF RecordInv
  <1>9. CASE UNCHANGED vars
    BY <1>9 DEF vars, RecordInv, EntityRecorded, JobRecorded, Recorded, Busy, WrittenFlags,
       WithSnapshot, IsClient
  <1> QED
    BY <1>1, <1>2, <1>3, <1>4, <1>5, <1>6, <1>7, <1>8, <1>9 DEF Next, Work, Passed

\* The snapshot history knows every PEP and adverse-media match the row knows, a PEP
\* match through every crash between snapshot and row; except for entities handled
\* twice at once and controllers whose match a PATCH brought (Screening,
\* AsyncMatchesRecorded).
THEOREM MatchesRecorded == Spec => []AsyncMatchesRecorded
  <1>1. Init => Inv /\ PepKept /\ RecordInv
    <2>1. Init => RecordInv
      BY ScreeningAssumption DEF Init, RecordInv, EntityRecorded, JobRecorded, Recorded,
         Unscreened, Idle
    <2>2. Init => PepKept
      BY DEF Init, PepKept, PepLeft, Idle, Flags, Async
    <2> QED
      BY <2>1, <2>2, InvInit
  <1>2. Inv /\ PepKept /\ RecordInv /\ [Next]_vars => (Inv /\ PepKept /\ RecordInv)'
    BY InvStep, PepKeptStep, RecordStep DEF Inv
  <1>3. RecordInv => AsyncMatchesRecorded
    BY DEF RecordInv, EntityRecorded, Recorded, AsyncMatchesRecorded
  <1> QED
    BY <1>1, <1>2, <1>3, PTL DEF Spec

-----------------------------------------------------------------------------
(* What was announced is not announced again.                              *)

\* Only what every snapshot since has is still announced.
EntityTold(e) ==
    /\ ~snapshot[e].exists => snapshot[e].flags = {}
    /\ e \notin raced => announced[e] \subseteq snapshot[e].flags

\* A rescan compares with all that was announced, and tells what is in its snapshot.
JobTold(w) ==
    LET j == job[w] IN
    j.e \in Entities \ raced =>
      /\ j.at = "search" /\ j.op = "rescan" => announced[j.e] \subseteq j.before.flags
      /\ j.at \in {"snapshot", "row", "notify"} => j.tell \cap announced[j.e] = {}
      /\ j.at = "snapshot" => j.tell \subseteq j.after
      /\ j.at \in {"row", "notify"} => j.tell \subseteq snapshot[j.e].flags

ToldInv == /\ \A e \in Entities : EntityTold(e)
           /\ \A w \in Workers : JobTold(w)

\* A step about e leaves what was told about the others alone.
LEMMA OthersTold ==
    ASSUME Inv, ToldInv, NEW w \in Workers, NEW e \in Entities, StepOn(w, e),
           EntityTold(e)', JobTold(w)'
    PROVE  ToldInv'
  <1>1. ASSUME NEW d \in Entities \ {e}
        PROVE  EntityTold(d)'
    BY DEF StepOn, ToldInv, EntityTold
  <1>2. ASSUME NEW v \in Workers \ {w}
        PROVE  JobTold(v)'
    <2>1. job'[v] = job[v] /\ (job[v].e = e => e \in raced') /\ raced \subseteq raced'
      BY DEF StepOn
    <2>2. job[v].e \in Entities \ {e} =>
            announced'[job[v].e] = announced[job[v].e] /\ snapshot'[job[v].e] = snapshot[job[v].e]
      BY DEF StepOn
    <2>3. JobTold(v)
      BY DEF ToldInv
    <2> QED
      BY <2>1, <2>2, <2>3 DEF JobTold
  <1> QED
    BY <1>1, <1>2 DEF ToldInv

\* Every step keeps to what was told.
LEMMA ToldStep ==
    ASSUME Inv, ToldInv, [Next]_vars
    PROVE  ToldInv'
  <1>t. Idle.e \notin Entities
    BY ScreeningAssumption DEF Idle
  <1>i. \A w \in Workers : job'[w] = Idle => JobTold(w)'
    BY <1>t DEF JobTold
  <1>e. ASSUME NEW e \in Entities, snapshot'[e] = snapshot[e], announced'[e] = announced[e],
               raced \subseteq raced'
        PROVE  EntityTold(e)'
    BY <1>e DEF ToldInv, EntityTold
  <1>1. ASSUME NEW w \in Workers, NEW e \in Entities, StartSave(w, e) \/ StartRescan(w, e)
        PROVE  ToldInv'
    <2>1. /\ StepOn(w, e) /\ UNCHANGED written
          /\ job'[w] = SaveJob(e) \/ job'[w] = RescanJob(e)
      BY <1>1, StartFacts
    <2>2. /\ job'[w].e = e /\ job'[w].at = "search"
          /\ job'[w].op = "rescan" => job'[w].before = StateBefore(e)
      BY <2>1, SearchJobFields
    <2>3. e \notin raced => announced[e] \subseteq StateBefore(e).flags
      BY DEF ToldInv, EntityTold, StateBefore
    <2>4. JobTold(w)'
      BY <2>1, <2>2, <2>3 DEF JobTold, written, StepOn
    <2> QED
      BY <1>e, <2>1, <2>4, OthersTold DEF written, StepOn
  <1>2. ASSUME NEW w \in Workers, NEW e \in Entities, StepOn(w, e), UNCHANGED written,
               job'[w].e = e, job'[w].tell = {}, job'[w].at # "search"
        PROVE  ToldInv'
    <2>1. JobTold(w)'
      BY <1>2 DEF JobTold
    <2> QED
      BY <1>e, <1>2, <2>1, OthersTold DEF written, StepOn
  <1>3. ASSUME NEW w \in Workers, NEW e \in Entities, NEW q \in Queries,
               NEW lists \in SUBSET Lists, NEW given, NEW found, NEW result,
               Passed(given, found, result), Patch(w, e, q, lists, given, found, result)
        PROVE  ToldInv'
    <2>1. StepOn(w, e) /\ UNCHANGED written /\ job'[w] = PatchJob(e, q, given, found, result)
      BY <1>3, PatchFacts
    <2>2. job'[w].e = e /\ job'[w].tell = {} /\ job'[w].at # "search"
      BY <2>1, PatchJobFields
    <2> QED
      BY <1>2, <2>1, <2>2
  <1>4. ASSUME NEW w \in Workers, NEW e \in Entities, NEW q \in Queries,
               NEW type \in CallbackTypes, Callback(w, e, q, type)
        PROVE  ToldInv'
    <2>1. StepOn(w, e) /\ UNCHANGED written /\ job'[w] = CallbackJob(e, q, type)
      BY <1>4, CallbackFacts
    <2>2. job'[w].e = e /\ job'[w].tell = {} /\ job'[w].at # "search"
      BY <2>1, CallbackJobFields
    <2> QED
      BY <1>2, <2>1, <2>2
  <1>5. ASSUME NEW w \in Workers, NEW q \in Queries, NEW lists \in SUBSET Lists,
               SearchAnswers(w, q, lists)
        PROVE  ToldInv'
    <2> DEFINE j == job[w]
               s == Searched(job[w], q, lists)
    <2>1. /\ j \in Job /\ j.e \in Entities /\ j.at = "search"
          /\ StepOn(w, j.e) /\ UNCHANGED written /\ job'[w] = s
      BY <1>5, AnswerFacts
    <2>2. j.op \in {"save", "rescan"} /\ (j.op # "rescan" => j.tell = {})
      BY <2>1 DEF Inv, JobRoles, Role
    <2>3. /\ s.e = j.e /\ s.at \in {"row", "snapshot"}
          /\ j.op = "save" => s.tell = j.tell
          /\ j.op # "save" => s.at = "snapshot" /\ s.tell \subseteq s.after \ j.before.flags
      BY <2>1, SearchedTyped
    <2> HIDE DEF s
    <2>4. PICK e \in Entities : e = j.e
      BY <2>1
    <2>5. CASE j.op = "save"
      BY <1>2, <2>1, <2>2, <2>3, <2>4, <2>5
    <2>6. CASE j.op = "rescan"
      <3>1. e \notin raced => announced[e] \subseteq j.before.flags
        BY <2>1, <2>4, <2>6 DEF ToldInv, JobTold
      <3>2. JobTold(w)'
        BY <2>1, <2>3, <2>4, <2>6, <3>1 DEF JobTold, written, StepOn
      <3> QED
        BY <1>e, <2>1, <2>4, <3>2, OthersTold DEF written, StepOn
    <2> QED
      BY <2>2, <2>5, <2>6
  <1>6. ASSUME NEW w \in Workers, SearchFails(w) \/ Crash(w)
        PROVE  ToldInv'
    <2>1. /\ job[w].e \in Entities /\ StepOn(w, job[w].e) /\ snapshot' = snapshot
          /\ announced' = announced /\ job'[w] = Idle
      BY <1>6, DropFacts
    <2> QED
      BY <1>e, <1>i, <2>1, OthersTold DEF StepOn
  <1>7. ASSUME NEW w \in Workers, WriteSnapshot(w)
        PROVE  ToldInv'
    <2> DEFINE j == job[w]
    <2>1. /\ j \in Job /\ j.e \in Entities /\ j.at = "snapshot" /\ StepOn(w, j.e)
          /\ snapshot'[j.e] = [exists |-> TRUE, flags |-> j.after, result |-> j.result]
          /\ announced'[j.e] = announced[j.e] \cap j.after
          /\ job'[w] = [j EXCEPT !.at = "row", !.after = {}]
      BY <1>7, SnapshotFacts
    <2>2. /\ job'[w].at = "row" /\ job'[w].e = j.e /\ job'[w].tell = j.tell
          /\ snapshot'[j.e].exists /\ snapshot'[j.e].flags = j.after
      BY <2>1 DEF Job
    <2>3. PICK e \in Entities : e = j.e
      BY <2>1
    <2>4. e \notin raced' => j.tell \cap announced[e] = {} /\ j.tell \subseteq j.after
      BY <2>1, <2>3 DEF ToldInv, JobTold, StepOn
    <2>5. JobTold(w)'
      BY <2>1, <2>2, <2>3, <2>4 DEF JobTold
    <2>6. EntityTold(e)'
      BY <2>1, <2>2, <2>3 DEF EntityTold
    <2> QED
      BY <2>1, <2>3, <2>5, <2>6, OthersTold
  <1>8. ASSUME NEW w \in Workers, WriteRow(w)
        PROVE  ToldInv'
    <2> DEFINE j == job[w]
    <2>1. /\ j.e \in Entities /\ j.at = "row" /\ StepOn(w, j.e)
          /\ snapshot' = snapshot /\ announced' = announced
          /\ \/ job'[w] = Idle
             \/ job'[w].at = "notify" /\ job'[w].e = j.e /\ job'[w].tell = j.tell
      BY <1>8, RowFacts
    <2>2. PICK e \in Entities : e = j.e
      BY <2>1
    <2>3. e \notin raced' => j.tell \cap announced[e] = {} /\ j.tell \subseteq snapshot[e].flags
      BY <2>1, <2>2 DEF ToldInv, JobTold, StepOn
    <2>4. JobTold(w)'
      BY <1>i, <2>1, <2>2, <2>3 DEF JobTold
    <2> QED
      BY <1>e, <2>1, <2>2, <2>4, OthersTold DEF StepOn
  <1>9. ASSUME NEW w \in Workers, Notify(w)
        PROVE  ToldInv'
    <2> DEFINE j == job[w]
    <2>1. /\ j.e \in Entities /\ j.at = "notify" /\ StepOn(w, j.e) /\ snapshot' = snapshot
          /\ announced'[j.e] = announced[j.e] \cup (j.tell \cap Lists) /\ job'[w] = Idle
      BY <1>9, NotifyFacts
    <2>2. PICK e \in Entities : e = j.e
      BY <2>1
    <2>3. e \notin raced' => j.tell \subseteq snapshot[e].flags
      BY <2>1, <2>2 DEF ToldInv, JobTold, StepOn
    <2>4. EntityTold(e)'
      BY <2>1, <2>2, <2>3 DEF ToldInv, EntityTold, StepOn
    <2> QED
      BY <1>i, <2>1, <2>2, <2>4, OthersTold
  <1>10. ASSUME NEW d \in Entities, ResetController(d)
         PROVE  ToldInv'
    BY <1>e, <1>10, ResetFacts DEF ToldInv, JobTold
  <1>11. CASE UNCHANGED vars
    BY <1>11 DEF vars, ToldInv, EntityTold, JobTold
  <1> QED
    BY <1>1, <1>3, <1>4, <1>5, <1>6, <1>7, <1>8, <1>9, <1>10, <1>11 DEF Next, Work, Passed

\* A rescan does not announce a list match that was announced before and has been in
\* every snapshot since, although messages come again after failures, unless the
\* entity is handled twice at once (Screening, NotAnnouncedTwice).
THEOREM AnnouncedOnce == Spec => []NotAnnouncedTwice
  <1>1. Init => Inv /\ ToldInv
    <2>1. Init => ToldInv
      BY ScreeningAssumption DEF Init, ToldInv, EntityTold, JobTold, NoSnapshot, Idle
    <2> QED
      BY <2>1, InvInit
  <1>2. Inv /\ ToldInv /\ [Next]_vars => (Inv /\ ToldInv)'
    BY InvStep, ToldStep
  <1>3. Inv /\ ToldInv => NotAnnouncedTwice
    <2>1. ASSUME Inv, ToldInv, NEW w \in Workers, job[w].at = "notify", job[w].e \notin raced
          PROVE  job[w].tell \cap announced[job[w].e] = {}
      <3>1. job[w].e \in Entities
        BY <2>1 DEF Inv, TypeInv, JobsBound, Idle
      <3> QED
        BY <2>1, <3>1 DEF ToldInv, JobTold
    <2> QED
      BY <2>1 DEF NotAnnouncedTwice
  <1> QED
    BY <1>1, <1>2, <1>3, PTL DEF Spec

=============================================================================
