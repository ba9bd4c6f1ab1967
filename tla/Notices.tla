------------------------------ MODULE Notices ------------------------------
(***************************************************************************)
(* SAT notices (avisos) and the alerts they report.  Every request is      *)
(* handled by a worker that issues one D1 statement after another with no  *)
(* transaction around them: a statement is atomic, a request is not.       *)
(* Between two statements other requests run, and the worker may die.      *)
(*                                                                         *)
(* A request is a record in job[w]: what it is (op), the statement it is   *)
(* about to issue (at), the notice it is for, and what it read so far.     *)
(***************************************************************************)
EXTENDS Integers, FiniteSets

CONSTANTS
    Alerts,         \* alert ids (generateId never repeats one)
    Notices,        \* notice ids
    Workers,        \* requests that can be in flight at once
    Months,         \* reported months
    MonthOf,        \* the month an alert falls in, and a notice is opened for
    Reportable,     \* alerts with a client and an operation of the primary activity
    Dated,          \* alerts created with a submissionDeadline
    PatchStatuses,  \* what PUT/PATCH/cancel requests on alerts carry as status
    Overlap,        \* may two requests be in flight for the same notice?
    MaxCycle,       \* bound: reverts per notice
    MaxCrashes,     \* bound: notices one of whose requests is cut short
    NoNotice,       \* null noticeId
    Gone            \* where the lifecycle puts a deleted alert

ASSUME NoticesAssumption ==
    /\ IsFiniteSet(Alerts)
    /\ NoNotice \notin Notices
    /\ Gone \notin Notices \cup {NoNotice}
    /\ MonthOf \in [Alerts \cup Notices -> Months]
    /\ Overlap \in BOOLEAN
    /\ MaxCycle \in Nat
    /\ MaxCrashes \in Nat

AlertStatus == {"DETECTED", "FILE_GENERATED", "SUBMITTED", "OVERDUE", "CANCELLED"}
NoticeStatus == {"DRAFT", "GENERATED", "SUBMITTED", "ACKNOWLEDGED", "REBUKED"}
Filed == {"SUBMITTED", "ACKNOWLEDGED", "REBUKED"}
NoRow == {"UNBORN", "DELETED"}  \* no such row: not yet, or no longer

ASSUME PatchAssumption == PatchStatuses \subseteq AlertStatus \cup {"UNBORN"}

VARIABLES
    alert,        \* table alerts
    notice,       \* table notices
    file,         \* R2: alerts in the XML object of a notice
    trail,        \* table notice_events: the last event of a notice
    job,          \* the request each worker is executing
    past,         \* alerts whose submissionDeadline has passed
    interrupted   \* history: notices one of whose requests was cut short

vars == <<alert, notice, file, trail, job, past, interrupted>>
tables == <<alert, notice, file, trail>>
history == <<past, interrupted>>

AlertRow == [status: AlertStatus \cup NoRow,
             noticeId: Notices \cup {NoNotice},
             isOverdue: BOOLEAN]

NoticeRow == [status: NoticeStatus \cup NoRow,
              recordCount: Int,
              cycle: Nat,
              xml: BOOLEAN]

Event == [to: NoticeStatus \cup {"UNBORN"}, cycle: Nat]

Op == {"idle", "create", "delete", "generate", "submit", "acknowledge",
       "rebuke", "revert", "add", "remove", "patch"}
Step == {"done", "insert", "alerts", "count", "snapshot", "put", "reread",
         "notice", "log", "patch"}

Job == [op: Op,
        at: Step,
        n: Notices \cup {NoNotice},
        ids: SUBSET Alerts,
        seen: AlertStatus \cup {"UNBORN"},
        to: AlertStatus \cup NoticeStatus \cup {"UNBORN"},
        cycle: Nat,
        count: Nat]

Idle == [op |-> "idle", at |-> "done", n |-> NoNotice, ids |-> {},
         seen |-> "UNBORN", to |-> "UNBORN", cycle |-> 0, count |-> 0]

NoEvent == [to |-> "UNBORN", cycle |-> 0]
NoticeWith(status) == [status |-> status, recordCount |-> 0, cycle |-> 0, xml |-> FALSE]
AlertWith(status) == [status |-> status, noticeId |-> NoNotice, isOverdue |-> FALSE]

AlertExists(a) == alert[a].status \in AlertStatus
NoticeExists(n) == notice[n].status \in NoticeStatus
Linked(n) == {a \in Alerts : AlertExists(a) /\ alert[a].noticeId = n}
Open(a) == AlertExists(a) /\ alert[a].status \notin {"CANCELLED", "SUBMITTED"}

\* Fault: the filter on noticeId: null is forgotten.
AssignableHeld(ids) == {a \in ids : Open(a)}

\* The alerts an assigning updateMany takes among ids.
Assignable(ids) == {a \in ids : Open(a) /\ alert[a].noticeId = NoNotice}

Pending(n) == notice[n].status \in {"DRAFT", "GENERATED"}
hasPendingNoticeForPeriod(m) == \E n \in Notices : MonthOf[n] = m /\ Pending(n)

Busy(n) == \E w \in Workers : job[w].n = n

Init ==
    /\ alert = [a \in Alerts |-> AlertWith("UNBORN")]
    /\ notice = [n \in Notices |-> NoticeWith("UNBORN")]
    /\ file = [n \in Notices |-> {}]
    /\ trail = [n \in Notices |-> NoEvent]
    /\ job = [w \in Workers |-> Idle]
    /\ past = {}
    /\ interrupted = {}

-----------------------------------------------------------------------------
(* How a request moves from statement to statement.                        *)

At(w, op, step) == job[w].op \in op /\ job[w].at = step
Finish(w) == job' = [job EXCEPT ![w] = Idle]
Continue(w, step) == job' = [job EXCEPT ![w].at = step]

\* The request starts by reading the notice row and acts on that copy.
Begin(w, n, op, step, ids, to) ==
    /\ job[w] = Idle
    /\ Overlap \/ ~Busy(n)
    /\ job' = [job EXCEPT ![w] =
                 [op |-> op, at |-> step, n |-> n, ids |-> ids,
                  seen |-> "UNBORN", to |-> to,
                  cycle |-> notice[n].cycle, count |-> 0]]
    /\ UNCHANGED <<tables, history>>

\* A statement on a notice row that is gone throws and ends the request.
RowGone(w) ==
    /\ job[w].n # NoNotice
    /\ job[w].at \in {"reread", "notice", "count", "log"}
    /\ ~NoticeExists(job[w].n)
    /\ Finish(w)
    /\ UNCHANGED <<tables, history>>

\* noticeEvent.create: the last statement of every request that writes one.
LogEvent(w) ==
    LET j == job[w] IN
    /\ j.at = "log"
    /\ NoticeExists(j.n)
    /\ trail' = [trail EXCEPT ![j.n] = [to |-> j.to, cycle |-> j.cycle]]
    /\ Finish(w)
    /\ UNCHANGED <<alert, notice, file, history>>

\* updateMany over the alerts in S: statuses become st.
SetAlertStatus(S, st) ==
    alert' = [a \in Alerts |->
                IF a \in S THEN [alert[a] EXCEPT !.status = st] ELSE alert[a]]

SetNoticeId(S, n) ==
    alert' = [a \in Alerts |->
                IF a \in S THEN [alert[a] EXCEPT !.noticeId = n] ELSE alert[a]]

-----------------------------------------------------------------------------
(* Faulty variants of the definitions below, each the mistake named, used  *)
(* to see that the properties notice it.                                   *)

\* The check on the notice's status is forgotten.
StartDeleteAny(w, n) ==
    NoticeExists(n) /\ Begin(w, n, "delete", "alerts", {}, "UNBORN")
StartRemoveAny(w, n, ids) ==
    NoticeExists(n) /\ Begin(w, n, "remove", "alerts", ids, "DRAFT")
StartSubmitAny(w, n) ==
    NoticeExists(n) /\ Begin(w, n, "submit", "notice", {}, "SUBMITTED")

\* The foreign key of alerts has no ON DELETE SET NULL.
DeleteNoticeOnly(w) ==
    LET n == job[w].n IN
    /\ At(w, {"delete"}, "notice")
    /\ NoticeExists(n)
    /\ notice' = [notice EXCEPT ![n] = NoticeWith("DELETED")]
    /\ trail' = [trail EXCEPT ![n] = NoEvent]
    /\ file' = [file EXCEPT ![n] = {}]
    /\ Finish(w)
    /\ UNCHANGED <<alert, history>>

\* Reverting reuses the filter of markAsGenerated.
ResetOpenAlerts(w) ==
    /\ At(w, {"revert"}, "alerts")
    /\ SetAlertStatus({a \in Linked(job[w].n) : Open(a)}, "DETECTED")
    /\ Continue(w, "notice")
    /\ UNCHANGED <<notice, file, trail, history>>

\* The event of a revert takes the cycle read before the increment.
ReopenInOldCycle(w) ==
    LET n == job[w].n IN
    /\ At(w, {"revert"}, "notice")
    /\ NoticeExists(n)
    /\ notice' = [notice EXCEPT ![n].status = "DRAFT",
                                ![n].xml = FALSE,
                                ![n].cycle = @ + 1]
    /\ Continue(w, "log")
    /\ UNCHANGED <<alert, file, trail, history>>

\* The count is stored where it should be added.
OverwriteRecordCount(w) ==
    /\ At(w, {"add", "remove"}, "count")
    /\ NoticeExists(job[w].n)
    /\ notice' = [notice EXCEPT ![job[w].n].recordCount = job[w].count]
    /\ Continue(w, "log")
    /\ UNCHANGED <<alert, file, trail, history>>

-----------------------------------------------------------------------------
(* POST /notices                                                           *)

\* ids: every alert of the period, the ids the request lists, or none.
StartCreate(w, n, ids) ==
    /\ notice[n].status = "UNBORN"
    /\ ~Busy(n)
    /\ ~hasPendingNoticeForPeriod(MonthOf[n])
    /\ Begin(w, n, "create", "insert", ids, "DRAFT")

InsertNotice(w) ==
    LET j == job[w] IN
    /\ At(w, {"create"}, "insert")
    /\ notice' = [notice EXCEPT ![j.n] = NoticeWith("DRAFT")]
    /\ Continue(w, IF j.ids = {} THEN "log" ELSE "alerts")
    /\ UNCHANGED <<alert, file, trail, history>>

\* The foreign key refuses alerts for a notice deleted meanwhile; with no
\* alert to take, the count update that follows throws instead.
AssignAlerts(w) ==
    LET j == job[w]
        taken == IF NoticeExists(j.n) THEN Assignable(j.ids) ELSE {} IN
    /\ At(w, {"create"}, "alerts")
    /\ SetNoticeId(taken, j.n)
    /\ job' = [job EXCEPT ![w].at = "count", ![w].ids = {},
                          ![w].count = Cardinality(taken)]
    /\ UNCHANGED <<notice, file, trail, history>>

SetRecordCount(w) ==
    LET j == job[w] IN
    /\ At(w, {"create"}, "count")
    /\ NoticeExists(j.n)
    /\ notice' = [notice EXCEPT ![j.n].recordCount = j.count]
    /\ Continue(w, "log")
    /\ UNCHANGED <<alert, file, trail, history>>

-----------------------------------------------------------------------------
(* DELETE /notices/:id                                                     *)

StartDelete(w, n) ==
    /\ Pending(n)
    /\ Begin(w, n, "delete", "alerts", {}, "UNBORN")

UnlinkAlerts(w) ==
    /\ At(w, {"delete"}, "alerts")
    /\ SetNoticeId(Linked(job[w].n), NoNotice)
    /\ Continue(w, "notice")
    /\ UNCHANGED <<notice, file, trail, history>>

\* ON DELETE SET NULL for alerts, ON DELETE CASCADE for events.  The R2 object
\* stays behind, but nothing refers to it any more.
DeleteNotice(w) ==
    LET n == job[w].n IN
    /\ At(w, {"delete"}, "notice")
    /\ NoticeExists(n)
    /\ notice' = [notice EXCEPT ![n] = NoticeWith("DELETED")]
    /\ SetNoticeId(Linked(n), NoNotice)
    /\ trail' = [trail EXCEPT ![n] = NoEvent]
    /\ file' = [file EXCEPT ![n] = {}]
    /\ Finish(w)
    /\ UNCHANGED history

-----------------------------------------------------------------------------
(* POST /notices/:id/generate                                              *)

StartGenerate(w, n) ==
    /\ notice[n].status = "DRAFT"
    /\ Begin(w, n, "generate", "snapshot", {}, "GENERATED")

\* The alerts to report: none is a zero-activity notice, none reportable
\* among some is refused with 400.
SnapshotAlerts(w) ==
    LET linked == Linked(job[w].n)
        content == linked \cap Reportable IN
    /\ At(w, {"generate"}, "snapshot")
    /\ IF linked # {} /\ content = {}
         THEN Finish(w)
         ELSE job' = [job EXCEPT ![w].at = "put", ![w].ids = content]
    /\ UNCHANGED <<tables, history>>

PutFile(w) ==
    /\ At(w, {"generate"}, "put")
    /\ file' = [file EXCEPT ![job[w].n] = job[w].ids]
    /\ job' = [job EXCEPT ![w].at = "reread", ![w].ids = {}]
    /\ UNCHANGED <<alert, notice, trail, history>>

\* markAsGenerated reads the row again, for the event only.
RereadNotice(w) ==
    LET n == job[w].n IN
    /\ At(w, {"generate"}, "reread")
    /\ NoticeExists(n)
    /\ job' = [job EXCEPT ![w].at = "notice", ![w].cycle = notice[n].cycle]
    /\ UNCHANGED <<tables, history>>

-----------------------------------------------------------------------------
(* POST /notices/:id/submit, acknowledge, rebuke                           *)

StartSubmit(w, n) ==
    /\ NoticeExists(n)
    /\ notice[n].status # "DRAFT"
    /\ Begin(w, n, "submit", "notice", {}, "SUBMITTED")

StartAcknowledge(w, n) ==
    /\ notice[n].status = "SUBMITTED"
    /\ Begin(w, n, "acknowledge", "notice", {}, "ACKNOWLEDGED")

StartRebuke(w, n) ==
    /\ notice[n].status = "SUBMITTED"
    /\ Begin(w, n, "rebuke", "notice", {}, "REBUKED")

\* notice.update: generate also stores the file, generate and submit go on
\* to the alerts, acknowledge and rebuke do not touch them.
WriteStatus(w) ==
    LET j == job[w] IN
    /\ At(w, {"generate", "submit", "acknowledge", "rebuke"}, "notice")
    /\ NoticeExists(j.n)
    /\ notice' = [notice EXCEPT ![j.n].status = j.to,
                                ![j.n].xml = @ \/ j.op = "generate"]
    /\ Continue(w, IF j.op \in {"generate", "submit"} THEN "alerts" ELSE "log")
    /\ UNCHANGED <<alert, file, trail, history>>

MarkAlertsGenerated(w) ==
    /\ At(w, {"generate"}, "alerts")
    /\ SetAlertStatus({a \in Linked(job[w].n) : Open(a)}, "FILE_GENERATED")
    /\ Continue(w, "log")
    /\ UNCHANGED <<notice, file, trail, history>>

MarkAlertsSubmitted(w) ==
    /\ At(w, {"submit"}, "alerts")
    /\ SetAlertStatus({a \in Linked(job[w].n) : alert[a].status # "CANCELLED"},
                      "SUBMITTED")
    /\ Continue(w, "log")
    /\ UNCHANGED <<notice, file, trail, history>>

-----------------------------------------------------------------------------
(* POST /notices/:id/revert                                                *)

StartRevert(w, n) ==
    /\ notice[n].status = "REBUKED"
    /\ notice[n].cycle < MaxCycle
    /\ Begin(w, n, "revert", "alerts", {}, "DRAFT")

ResetAlerts(w) ==
    /\ At(w, {"revert"}, "alerts")
    /\ SetAlertStatus({a \in Linked(job[w].n) : alert[a].status # "CANCELLED"},
                      "DETECTED")
    /\ Continue(w, "notice")
    /\ UNCHANGED <<notice, file, trail, history>>

ReopenNotice(w) ==
    LET n == job[w].n IN
    /\ At(w, {"revert"}, "notice")
    /\ NoticeExists(n)
    /\ notice' = [notice EXCEPT ![n].status = "DRAFT",
                                ![n].xml = FALSE,
                                ![n].cycle = @ + 1]
    /\ job' = [job EXCEPT ![w].at = "log", ![w].cycle = notice[n].cycle + 1]
    /\ UNCHANGED <<alert, file, trail, history>>

-----------------------------------------------------------------------------
(* POST /notices/:id/alerts/add and remove                                 *)

StartAdd(w, n, ids) ==
    /\ notice[n].status = "DRAFT"
    /\ Begin(w, n, "add", "alerts", ids, "DRAFT")

StartRemove(w, n, ids) ==
    /\ notice[n].status = "DRAFT"
    /\ Begin(w, n, "remove", "alerts", ids, "DRAFT")

\* A count of zero ends the request: no count to update, no event.
AddAlerts(w) ==
    LET j == job[w]
        taken == IF NoticeExists(j.n) THEN Assignable(j.ids) ELSE {} IN
    /\ At(w, {"add"}, "alerts")
    /\ SetNoticeId(taken, j.n)
    /\ IF taken = {}
         THEN Finish(w)
         ELSE job' = [job EXCEPT ![w].at = "count", ![w].ids = {},
                                 ![w].count = Cardinality(taken)]
    /\ UNCHANGED <<notice, file, trail, history>>

\* Whatever its status, a removed alert goes back to DETECTED.
RemoveAlerts(w) ==
    LET j == job[w]
        taken == j.ids \cap Linked(j.n) IN
    /\ At(w, {"remove"}, "alerts")
    /\ alert' = [a \in Alerts |->
                   IF a \in taken
                   THEN [alert[a] EXCEPT !.noticeId = NoNotice, !.status = "DETECTED"]
                   ELSE alert[a]]
    /\ IF taken = {}
         THEN Finish(w)
         ELSE job' = [job EXCEPT ![w].at = "count", ![w].ids = {},
                                 ![w].count = Cardinality(taken)]
    /\ UNCHANGED <<notice, file, trail, history>>

ShiftRecordCount(w) ==
    LET j == job[w] IN
    /\ At(w, {"add", "remove"}, "count")
    /\ NoticeExists(j.n)
    /\ notice' = [notice EXCEPT ![j.n].recordCount =
                    IF j.op = "add" THEN @ + j.count ELSE @ - j.count]
    /\ Continue(w, "log")
    /\ UNCHANGED <<alert, file, trail, history>>

-----------------------------------------------------------------------------
(* Alerts: detection, the clock, and the requests on /alerts               *)

CreateAlert(a) ==
    /\ alert[a].status = "UNBORN"
    /\ alert' = [alert EXCEPT ![a] =
                   [AlertWith("DETECTED") EXCEPT !.isOverdue = a \in past]]
    /\ UNCHANGED <<notice, file, trail, job, history>>

DeadlinePasses(a) ==
    /\ a \in Dated \ past
    /\ past' = past \cup {a}
    /\ UNCHANGED <<tables, job, interrupted>>

\* GET /alerts runs updateOverdueStatus before it reads.
ListAlerts ==
    LET late == {a \in past : /\ Open(a)
                              /\ alert[a].status # "OVERDUE"
                              /\ ~alert[a].isOverdue} IN
    /\ late # {}
    /\ alert' = [a \in Alerts |->
                   IF a \in late
                   THEN [alert[a] EXCEPT !.status = "OVERDUE", !.isOverdue = TRUE]
                   ELSE alert[a]]
    /\ UNCHANGED <<notice, file, trail, job, history>>

\* PUT, PATCH and cancel read the alert, then write it.  to is the status in
\* the payload, "UNBORN" when there is none; seen is the status isOverdue is
\* computed from: the one in the payload, or else the one just read.
StartPatch(w, a, to) ==
    /\ AlertExists(a)
    /\ job[w] = Idle
    /\ job' = [job EXCEPT ![w] =
                 [Idle EXCEPT !.op = "patch", !.at = "patch", !.ids = {a},
                              !.seen = IF to = "UNBORN" THEN alert[a].status ELSE to,
                              !.to = to]]
    /\ UNCHANGED <<tables, history>>

\* With no deadline only the mapper's rule for the status sets isOverdue: PUT
\* clears it unless it cancels, PATCH follows SUBMITTED and OVERDUE.
WritePatch(w, put) ==
    LET j == job[w]
        closing == j.seen \in {"SUBMITTED", "CANCELLED"}
        patched(a) ==
          [alert[a] EXCEPT
             !.status = CASE j.to = "UNBORN" -> @
                          [] j.to # "UNBORN" /\ a \in past /\ ~closing -> "OVERDUE"
                          [] OTHER -> j.to,
             !.isOverdue = CASE a \in Dated -> a \in past /\ ~closing
                             [] a \notin Dated /\ put -> @ /\ j.to = "CANCELLED"
                             [] a \notin Dated /\ ~put /\ j.to = "SUBMITTED" -> FALSE
                             [] a \notin Dated /\ ~put /\ j.to = "OVERDUE" -> TRUE
                             [] OTHER -> @] IN
    /\ At(w, {"patch"}, "patch")
    /\ put => j.to # "UNBORN"
    /\ alert' = [a \in Alerts |->
                   IF a \in j.ids /\ AlertExists(a) THEN patched(a) ELSE alert[a]]
    /\ Finish(w)
    /\ UNCHANGED <<notice, file, trail, history>>

\* The notice's recordCount is left as it is.
DeleteAlert(a) ==
    /\ AlertExists(a)
    /\ alert' = [alert EXCEPT ![a] = AlertWith("DELETED")]
    /\ UNCHANGED <<notice, file, trail, job, history>>

\* A statement fails, or the worker is evicted: what was written stays.
Crash(w) ==
    LET n == job[w].n IN
    /\ job[w] # Idle
    /\ IF n \in Notices /\ NoticeExists(n)
         THEN /\ n \notin interrupted
              /\ Cardinality(interrupted) < MaxCrashes
              /\ interrupted' = interrupted \cup {n}
         ELSE UNCHANGED interrupted
    /\ Finish(w)
    /\ UNCHANGED <<tables, past>>

-----------------------------------------------------------------------------

Requests(w) ==
    \/ \E n \in Notices :
        \/ \E ids \in SUBSET Alerts : StartCreate(w, n, ids)
        \/ StartDelete(w, n)
        \/ StartGenerate(w, n)
        \/ StartSubmit(w, n)
        \/ StartAcknowledge(w, n)
        \/ StartRebuke(w, n)
        \/ StartRevert(w, n)
        \/ \E ids \in SUBSET Alerts \ {{}} : StartAdd(w, n, ids) \/ StartRemove(w, n, ids)
    \/ \E a \in Alerts, to \in PatchStatuses : StartPatch(w, a, to)

Statements(w) ==
    \/ InsertNotice(w)
    \/ AssignAlerts(w)
    \/ SetRecordCount(w)
    \/ UnlinkAlerts(w)
    \/ DeleteNotice(w)
    \/ SnapshotAlerts(w)
    \/ PutFile(w)
    \/ RereadNotice(w)
    \/ WriteStatus(w)
    \/ MarkAlertsGenerated(w)
    \/ MarkAlertsSubmitted(w)
    \/ ResetAlerts(w)
    \/ ReopenNotice(w)
    \/ AddAlerts(w)
    \/ RemoveAlerts(w)
    \/ ShiftRecordCount(w)
    \/ \E put \in BOOLEAN : WritePatch(w, put)
    \/ RowGone(w)
    \/ LogEvent(w)

Next ==
    \/ \E w \in Workers : Requests(w) \/ Statements(w) \/ Crash(w)
    \/ \E a \in Alerts : CreateAlert(a) \/ DeadlinePasses(a) \/ DeleteAlert(a)
    \/ ListAlerts

Spec == Init /\ [][Next]_vars

-----------------------------------------------------------------------------
(* Properties                                                              *)

\* Every table, request and counter keeps the shape the schema gives it.
TypeOK ==
    /\ alert \in [Alerts -> AlertRow]
    /\ notice \in [Notices -> NoticeRow]
    /\ file \in [Notices -> SUBSET Alerts]
    /\ trail \in [Notices -> Event]
    /\ job \in [Workers -> Job]
    /\ past \subseteq Dated
    /\ interrupted \subseteq Notices

\* No request on n is in flight and none was ever cut short.
Settled(n) == NoticeExists(n) /\ ~Busy(n) /\ n \notin interrupted

\* An alert goes from one notice to another only through having none: the
\* updateMany of create and add takes unassigned alerts alone, however many
\* requests sweep the same period at once.
NoAlertStolen ==
    [][\A a \in Alerts :
         alert[a].noticeId # NoNotice /\ alert'[a].noticeId # NoNotice
           => alert'[a].noticeId = alert[a].noticeId]_alert

\* No alert row points to a notice row that is not there, whatever deletes
\* race with assignments.
LinkedNoticeExists ==
    \A a \in Alerts : alert[a].noticeId # NoNotice => NoticeExists(alert[a].noticeId)

\* Once a notice was filed with the SAT its alerts stay with it, until their rows
\* are deleted: removeAlertsFromNotice says it serves DRAFT notices, and delete
\* DRAFT or GENERATED ones, whatever other requests do in the meantime.
FiledAlertStays ==
    [][\A a \in Alerts :
         (/\ alert[a].noticeId # NoNotice
          /\ notice[alert[a].noticeId].status \in Filed
          /\ alert'[a].status # "DELETED")
           => alert'[a].noticeId = alert[a].noticeId]_<<alert, notice>>

\* The XML a generated or filed notice refers to reports exactly the
\* reportable alerts the notice holds; only deleting an alert row parts them.
FileMatchesLinks ==
    \A n \in Notices :
        Settled(n) /\ notice[n].status # "DRAFT"
          => /\ notice[n].xml
             /\ {a \in file[n] : AlertExists(a)} = Linked(n) \cap Reportable

\* No alert is reported to the SAT by two notices, even while requests on them
\* are half way, as long as no request on either was cut short.
NoDoubleReport ==
    \A m, n \in Notices \ interrupted :
        m # n /\ notice[m].status \in Filed /\ notice[n].status \in Filed
          => file[m] \cap file[n] = {}

\* The recordCount shown for a notice is never less than the alerts it holds.
RecordCountCoversLinks ==
    \A n \in Notices :
        Settled(n) => Cardinality(Linked(n)) <= notice[n].recordCount

\* The last audit event of a notice tells its status and amendment cycle.
AuditTrailCurrent ==
    \A n \in Notices :
        Settled(n) => /\ trail[n].to = notice[n].status
                      /\ trail[n].cycle = notice[n].cycle

\* Alerts follow their notice: submitted exactly while it is filed (a cancelled
\* alert stays cancelled), so that no filed alert is open to another notice or
\* to the overdue sweep and no alert of a reopened draft is left out of it.
AlertsFollowNotice ==
    \A n \in Notices : Settled(n) =>
        \A a \in Linked(n) :
            IF notice[n].status \in Filed THEN ~Open(a)
                                         ELSE alert[a].status # "SUBMITTED"

\* What the module promises, with every operation atomic.
Lifecycle == INSTANCE NoticeLifecycle WITH
    phase <- [n \in Notices |-> notice[n].status],
    amendments <- [n \in Notices |-> notice[n].cycle],
    holder <- [a \in Alerts |-> IF alert[a].status = "DELETED" THEN Gone
                                ELSE alert[a].noticeId],
    report <- [n \in Notices |-> IF notice[n].xml THEN file[n] ELSE {}]

ImplementsLifecycle == Lifecycle!Spec
=============================================================================
