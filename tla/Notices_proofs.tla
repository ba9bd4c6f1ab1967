--------------------------- MODULE Notices_proofs ---------------------------
(***************************************************************************)
(* Theorems about Notices for every number of alerts, notices and workers: *)
(* first for all behaviors, then for those in which no two requests are in *)
(* flight for the same notice (Overlap = FALSE), whatever crashes.         *)
(***************************************************************************)
EXTENDS Notices, FiniteSetTheorems, TLAPS

\* What a request in flight can look like: the statements its operation
\* issues, a notice for every operation on notices, the status it writes.
JobShape(j) ==
    \/ j = Idle
    \/ /\ j.op = "patch" /\ j.at = "patch" /\ j.n = NoNotice
       /\ j.to \in AlertStatus \cup {"UNBORN"}
    \/ /\ j.n \in Notices
       /\ \/ /\ j.op = "create" /\ j.to = "DRAFT"
             /\ j.at \in {"insert", "alerts", "count", "log"}
          \/ /\ j.op = "delete" /\ j.to = "UNBORN"
             /\ j.at \in {"alerts", "notice"}
          \/ /\ j.op = "generate" /\ j.to = "GENERATED"
             /\ j.at \in {"snapshot", "put", "reread", "notice", "alerts", "log"}
          \/ /\ j.op = "submit" /\ j.to = "SUBMITTED"
             /\ j.at \in {"notice", "alerts", "log"}
          \/ /\ j.op = "acknowledge" /\ j.to = "ACKNOWLEDGED"
             /\ j.at \in {"notice", "log"}
          \/ /\ j.op = "rebuke" /\ j.to = "REBUKED"
             /\ j.at \in {"notice", "log"}
          \/ /\ j.op = "revert" /\ j.to = "DRAFT"
             /\ j.at \in {"alerts", "notice", "log"}
          \/ /\ j.op \in {"add", "remove"} /\ j.to = "DRAFT"
             /\ j.at \in {"alerts", "count", "log"}

JobsShaped == \A w \in Workers : JobShape(job[w])

-----------------------------------------------------------------------------
(* The helpers keep the types.                                             *)

\* Moving a request to another statement changes nothing else about it.
LEMMA ContinueTyped ==
    ASSUME job \in [Workers -> Job], NEW w \in Workers, NEW step \in Step,
           Continue(w, step)
    PROVE  /\ job' \in [Workers -> Job]
           /\ job'[w] = [job[w] EXCEPT !.at = step]
           /\ job'[w].op = job[w].op /\ job'[w].at = step
           /\ job'[w].n = job[w].n /\ job'[w].to = job[w].to
           /\ \A v \in Workers \ {w} : job'[v] = job[v]
  BY DEF Continue, Job

\* A finished request leaves its worker idle and the others as they were.
LEMMA FinishTyped ==
    ASSUME job \in [Workers -> Job], NEW w \in Workers, Finish(w)
    PROVE  /\ job' \in [Workers -> Job]
           /\ job'[w] = Idle
           /\ \A v \in Workers \ {w} : job'[v] = job[v]
  <1>1. Idle \in Job
    BY DEF Idle, Job, Op, Step, AlertStatus, NoticeStatus
  <1>2. QED
    BY <1>1 DEF Finish

\* A request begins on an idle worker, with a copy of the notice's cycle.
LEMMA BeginTyped ==
    ASSUME TypeOK, NEW w \in Workers, NEW n \in Notices, NEW op \in Op,
           NEW step \in Step, NEW ids \in SUBSET Alerts,
           NEW to \in AlertStatus \cup NoticeStatus \cup {"UNBORN"},
           Begin(w, n, op, step, ids, to)
    PROVE  /\ job' \in [Workers -> Job]
           /\ job'[w].op = op /\ job'[w].at = step /\ job'[w].n = n
           /\ job'[w].to = to /\ job'[w].ids = ids
           /\ \A v \in Workers \ {w} : job'[v] = job[v]
  <1> DEFINE r == [op |-> op, at |-> step, n |-> n, ids |-> ids,
                   seen |-> "UNBORN", to |-> to,
                   cycle |-> notice[n].cycle, count |-> 0]
  <1>1. notice[n].cycle \in Nat
    BY DEF TypeOK, NoticeRow
  <1>2. r \in Job
    BY <1>1 DEF Job
  <1>3. job' = [job EXCEPT ![w] = r] /\ job \in [Workers -> Job]
    BY DEF Begin, TypeOK
  <1>4. QED
    BY <1>2, <1>3

\* A status update keeps every alert row a row and its notice.
LEMMA SetAlertStatusTyped ==
    ASSUME alert \in [Alerts -> AlertRow], NEW S, NEW st \in AlertStatus,
           SetAlertStatus(S, st)
    PROVE  /\ alert' \in [Alerts -> AlertRow]
           /\ \A a \in Alerts : /\ alert'[a].noticeId = alert[a].noticeId
                                /\ a \notin S => alert'[a] = alert[a]
                                /\ a \in S => alert'[a].status = st
  BY DEF SetAlertStatus, AlertRow

\* A link update keeps every alert row a row and its status.
LEMMA SetNoticeIdTyped ==
    ASSUME alert \in [Alerts -> AlertRow], NEW S, NEW n \in Notices \cup {NoNotice},
           SetNoticeId(S, n)
    PROVE  /\ alert' \in [Alerts -> AlertRow]
           /\ \A a \in Alerts : /\ alert'[a].status = alert[a].status
                                /\ a \notin S => alert'[a] = alert[a]
                                /\ a \in S => alert'[a].noticeId = n
  BY DEF SetNoticeId, AlertRow

\* The count an updateMany returns is a number.
LEMMA TakenCounted ==
    ASSUME NEW S \in SUBSET Alerts
    PROVE  Cardinality(S) \in Nat
  BY NoticesAssumption, FS_Subset, FS_CardinalityType

\* A patch keeps the types and an alert's notice, and writes a status of an alert.
LEMMA WritePatchTyped ==
    ASSUME TypeOK, JobsShaped, NEW w \in Workers,
           \E put \in BOOLEAN : WritePatch(w, put)
    PROVE  /\ alert' \in [Alerts -> AlertRow]
           /\ \A a \in Alerts : /\ alert'[a].noticeId = alert[a].noticeId
                                /\ alert'[a] = alert[a] \/ alert'[a].status \in AlertStatus
  <1> DEFINE j == job[w]
  <1>1. PICK put \in BOOLEAN : WritePatch(w, put)
    OBVIOUS
  <1> DEFINE closing == j.seen \in {"SUBMITTED", "CANCELLED"}
             st(a) == CASE j.to = "UNBORN" -> alert[a].status
                        [] j.to # "UNBORN" /\ a \in past /\ ~closing -> "OVERDUE"
                        [] OTHER -> j.to
             od(a) == CASE a \in Dated -> a \in past /\ ~closing
                        [] a \notin Dated /\ put -> alert[a].isOverdue /\ j.to = "CANCELLED"
                        [] a \notin Dated /\ ~put /\ j.to = "SUBMITTED" -> FALSE
                        [] a \notin Dated /\ ~put /\ j.to = "OVERDUE" -> TRUE
                        [] OTHER -> alert[a].isOverdue
  <1>2. alert' = [a \in Alerts |->
                    IF a \in j.ids /\ AlertExists(a)
                    THEN [alert[a] EXCEPT !.status = st(a), !.isOverdue = od(a)]
                    ELSE alert[a]]
    BY <1>1 DEF WritePatch
  <1>3. j.to \in AlertStatus \cup {"UNBORN"}
    <2>1. j.op = "patch"
      BY <1>1 DEF WritePatch, At
    <2> QED
      BY <2>1 DEF JobsShaped, JobShape, Idle
  <1>4. \A a \in Alerts : AlertExists(a) => st(a) \in AlertStatus
    BY <1>3 DEF AlertExists, AlertStatus
  <1>5. \A a \in Alerts : od(a) \in BOOLEAN
    BY DEF TypeOK, AlertRow
  <1> HIDE DEF st, od
  <1> QED
    BY <1>2, <1>4, <1>5 DEF TypeOK, AlertRow

-----------------------------------------------------------------------------
(* Types and the shape of requests.                                        *)

TypeInv == TypeOK /\ JobsShaped

\* One request moves: enough to look at the request of its worker.
LEMMA OneJobShaped ==
    ASSUME JobsShaped, NEW w \in Workers, JobShape(job'[w]),
           \A v \in Workers \ {w} : job'[v] = job[v]
    PROVE  JobsShaped'
  BY DEF JobsShaped, JobShape, Idle

\* Receiving a request keeps types and shapes.
LEMMA RequestsTyped ==
    ASSUME TypeInv, NEW w \in Workers, Requests(w)
    PROVE  TypeInv'
  <1> USE DEF TypeInv
  <1>1. ASSUME NEW n \in Notices, NEW op \in Op, NEW step \in Step,
               NEW ids \in SUBSET Alerts,
               NEW to \in NoticeStatus \cup {"UNBORN"},
               Begin(w, n, op, step, ids, to),
               \/ op = "create" /\ step = "insert" /\ to = "DRAFT"
               \/ op = "delete" /\ step = "alerts" /\ to = "UNBORN"
               \/ op = "generate" /\ step = "snapshot" /\ to = "GENERATED"
               \/ op = "submit" /\ step = "notice" /\ to = "SUBMITTED"
               \/ op = "acknowledge" /\ step = "notice" /\ to = "ACKNOWLEDGED"
               \/ op = "rebuke" /\ step = "notice" /\ to = "REBUKED"
               \/ op = "revert" /\ step = "alerts" /\ to = "DRAFT"
               \/ op \in {"add", "remove"} /\ step = "alerts" /\ to = "DRAFT"
        PROVE  TypeInv'
    <2>1. /\ job' \in [Workers -> Job]
          /\ job'[w].op = op /\ job'[w].at = step /\ job'[w].n = n
          /\ job'[w].to = to
          /\ \A v \in Workers \ {w} : job'[v] = job[v]
      BY <1>1, BeginTyped
    <2>2. JobShape(job'[w])
      BY <1>1, <2>1 DEF JobShape
    <2>3. JobsShaped'
      BY <2>1, <2>2, OneJobShaped
    <2>4. TypeOK'
      BY <1>1, <2>1 DEF TypeOK, Begin, tables, history
    <2> QED
      BY <2>3, <2>4
  <1>2. ASSUME NEW n \in Notices
        PROVE  /\ \A ids \in SUBSET Alerts : StartCreate(w, n, ids) => TypeInv'
               /\ StartDelete(w, n) => TypeInv'
               /\ StartGenerate(w, n) => TypeInv'
               /\ StartSubmit(w, n) => TypeInv'
               /\ StartAcknowledge(w, n) => TypeInv'
               /\ StartRebuke(w, n) => TypeInv'
               /\ StartRevert(w, n) => TypeInv'
               /\ \A ids \in SUBSET Alerts :
                    StartAdd(w, n, ids) \/ StartRemove(w, n, ids) => TypeInv'
    BY <1>1 DEF StartCreate, StartDelete, StartGenerate, StartSubmit,
         StartAcknowledge, StartRebuke, StartRevert, StartAdd, StartRemove,
         Op, Step, NoticeStatus
  <1>3. ASSUME NEW a \in Alerts, NEW to \in PatchStatuses, StartPatch(w, a, to)
        PROVE  TypeInv'
    <2> DEFINE r == [Idle EXCEPT !.op = "patch", !.at = "patch", !.ids = {a},
                       !.seen = IF to = "UNBORN" THEN alert[a].status ELSE to,
                       !.to = to]
    <2>1. alert[a].status \in AlertStatus /\ to \in AlertStatus \cup {"UNBORN"}
      BY <1>3, PatchAssumption DEF StartPatch, AlertExists
    <2>2. r \in Job /\ r.op = "patch" /\ r.at = "patch" /\ r.n = NoNotice /\ r.to = to
      BY <2>1 DEF Job, Idle, Op, Step
    <2>3. job' = [job EXCEPT ![w] = r]
      BY <1>3 DEF StartPatch
    <2>4. TypeOK'
      BY <1>3, <2>2, <2>3 DEF TypeOK, StartPatch, tables, history
    <2>5. JobShape(r)
      BY <2>1, <2>2 DEF JobShape
    <2>6. JobsShaped'
      BY <2>3, <2>5, OneJobShaped DEF TypeOK
    <2> QED
      BY <2>4, <2>6
  <1> QED
    BY <1>2, <1>3 DEF Requests

\* Every statement keeps types and shapes.
LEMMA StatementsTyped ==
    ASSUME TypeInv, NEW w \in Workers, Statements(w)
    PROVE  TypeInv'
  <1> USE DEF TypeInv
  <1> DEFINE j == job[w]
             n == j.n
  <1>0. /\ j \in Job /\ JobShape(j)
        /\ alert \in [Alerts -> AlertRow] /\ notice \in [Notices -> NoticeRow]
        /\ file \in [Notices -> SUBSET Alerts] /\ trail \in [Notices -> Event]
        /\ past \subseteq Dated /\ interrupted \subseteq Notices
        /\ job \in [Workers -> Job]
    BY DEF TypeOK, JobsShaped
  <1>f. ASSUME Finish(w)
        PROVE  job' \in [Workers -> Job] /\ JobsShaped'
    BY <1>0, <1>f, FinishTyped, OneJobShaped DEF JobShape
  <1>c. ASSUME NEW step \in Step, Continue(w, step),
               JobShape([j EXCEPT !.at = step])
        PROVE  job' \in [Workers -> Job] /\ JobsShaped'
    BY <1>0, <1>c, ContinueTyped, OneJobShaped
  <1>m. ASSUME NEW r \in Job, job' = [job EXCEPT ![w] = r], JobShape(r)
        PROVE  job' \in [Workers -> Job] /\ JobsShaped'
    BY <1>0, <1>m, OneJobShaped
  <1>1. CASE InsertNotice(w)
    <2>1. n \in Notices /\ notice' \in [Notices -> NoticeRow]
      BY <1>0, <1>1 DEF InsertNotice, At, JobShape, Idle, NoticeRow, NoticeWith, NoticeStatus
    <2>2. job' \in [Workers -> Job] /\ JobsShaped'
      BY <1>0, <1>1, <1>c DEF InsertNotice, At, JobShape, Idle, Job, Step
    <2> QED
      BY <1>0, <1>1, <2>1, <2>2 DEF TypeOK, InsertNotice, history
  <1>2. CASE AssignAlerts(w) \/ AddAlerts(w)
    <2> DEFINE taken == IF NoticeExists(n) THEN Assignable(j.ids) ELSE {}
               r == [j EXCEPT !.at = "count", !.ids = {}, !.count = Cardinality(taken)]
    <2>1. n \in Notices /\ j.op \in {"create", "add"}
      BY <1>0, <1>2 DEF AssignAlerts, AddAlerts, At, JobShape, Idle
    <2>2. taken \in SUBSET Alerts
      BY <1>0 DEF Assignable, Job
    <2>3. Cardinality(taken) \in Nat
      BY <2>2, TakenCounted
    <2>4. r \in Job
      BY <1>0, <2>3 DEF Job, Step
    <2>5. JobShape(r)
      BY <1>0, <1>2, <2>1 DEF JobShape, Idle, Job, AssignAlerts, AddAlerts, At
    <2>6. job' = [job EXCEPT ![w] = r] \/ Finish(w)
      BY <1>2 DEF AssignAlerts, AddAlerts
    <2>7. job' \in [Workers -> Job] /\ JobsShaped'
      BY <1>f, <1>m, <2>4, <2>5, <2>6
    <2>8. SetNoticeId(taken, n)
      BY <1>2 DEF AssignAlerts, AddAlerts
    <2>9. alert' \in [Alerts -> AlertRow]
      BY <1>0, <2>1, <2>8, SetNoticeIdTyped
    <2> QED
      BY <1>0, <1>2, <2>7, <2>9 DEF TypeOK, AssignAlerts, AddAlerts, history
  <1>3. CASE SetRecordCount(w) \/ ShiftRecordCount(w)
    <2>1. n \in Notices /\ j.op \in {"create", "add", "remove"} /\ j.at = "count"
      BY <1>0, <1>3 DEF SetRecordCount, ShiftRecordCount, At, JobShape, Idle
    <2>2. j.count \in Nat /\ notice[n].recordCount \in Int
      BY <1>0, <2>1 DEF Job, NoticeRow
    <2>3. notice' \in [Notices -> NoticeRow]
      BY <1>0, <1>3, <2>1, <2>2 DEF SetRecordCount, ShiftRecordCount, NoticeRow
    <2>4. job' \in [Workers -> Job] /\ JobsShaped'
      BY <1>0, <1>3, <1>c, <2>1 DEF SetRecordCount, ShiftRecordCount, JobShape, Idle, Job, Step
    <2> QED
      BY <1>0, <1>3, <2>3, <2>4 DEF TypeOK, SetRecordCount, ShiftRecordCount, history
  <1>4. CASE UnlinkAlerts(w)
    <2>1. alert' \in [Alerts -> AlertRow]
      BY <1>0, <1>4, SetNoticeIdTyped DEF UnlinkAlerts
    <2>2. job' \in [Workers -> Job] /\ JobsShaped'
      BY <1>0, <1>4, <1>c DEF UnlinkAlerts, At, JobShape, Idle, Job, Step
    <2> QED
      BY <1>0, <1>4, <2>1, <2>2 DEF TypeOK, UnlinkAlerts, history
  <1>5. CASE DeleteNotice(w)
    <2>1. n \in Notices
      BY <1>0, <1>5 DEF DeleteNotice, At, JobShape, Idle
    <2>2. notice' \in [Notices -> NoticeRow]
      BY <1>0, <1>5, <2>1 DEF DeleteNotice, NoticeRow, NoticeWith, NoRow
    <2>3. alert' \in [Alerts -> AlertRow]
      BY <1>0, <1>5, SetNoticeIdTyped DEF DeleteNotice
    <2>4. trail' \in [Notices -> Event] /\ file' \in [Notices -> SUBSET Alerts]
      BY <1>0, <1>5, <2>1 DEF DeleteNotice, Event, NoEvent
    <2>5. job' \in [Workers -> Job] /\ JobsShaped'
      BY <1>5, <1>f DEF DeleteNotice
    <2> QED
      BY <1>0, <1>5, <2>2, <2>3, <2>4, <2>5 DEF TypeOK, DeleteNotice, history
  <1>6. CASE SnapshotAlerts(w)
    <2> DEFINE r == [j EXCEPT !.at = "put", !.ids = Linked(n) \cap Reportable]
    <2>1. r \in Job
      BY <1>0 DEF Job, Step, Linked
    <2>2. JobShape(r)
      BY <1>0, <1>6 DEF JobShape, Idle, Job, SnapshotAlerts, At
    <2>3. job' = [job EXCEPT ![w] = r] \/ Finish(w)
      BY <1>6 DEF SnapshotAlerts
    <2>4. job' \in [Workers -> Job] /\ JobsShaped'
      BY <1>f, <1>m, <2>1, <2>2, <2>3
    <2> QED
      BY <1>0, <1>6, <2>4 DEF TypeOK, SnapshotAlerts, tables, history
  <1>7. CASE PutFile(w)
    <2> DEFINE r == [j EXCEPT !.at = "reread", !.ids = {}]
    <2>1. n \in Notices /\ j.ids \in SUBSET Alerts
      BY <1>0, <1>7 DEF PutFile, At, JobShape, Idle, Job
    <2>2. r \in Job /\ JobShape(r)
      <3>1. r \in Job
        BY <1>0 DEF Job, Step
      <3>2. JobShape(r)
        BY <1>0, <1>7 DEF JobShape, Idle, Job, PutFile, At
      <3> QED
        BY <3>1, <3>2
    <2>3. job' \in [Workers -> Job] /\ JobsShaped'
      BY <1>7, <1>m, <2>2 DEF PutFile
    <2> QED
      BY <1>0, <1>7, <2>1, <2>3 DEF TypeOK, PutFile, history
  <1>8. CASE RereadNotice(w)
    <2> DEFINE r == [j EXCEPT !.at = "notice", !.cycle = notice[n].cycle]
    <2>1. n \in Notices
      BY <1>0, <1>8 DEF RereadNotice, At, JobShape, Idle
    <2>2. notice[n].cycle \in Nat
      BY <1>0, <2>1 DEF NoticeRow
    <2>3. r \in Job /\ JobShape(r)
      <3>1. r \in Job
        BY <1>0, <2>2 DEF Job, Step
      <3>2. JobShape(r)
        BY <1>0, <1>8 DEF JobShape, Idle, Job, RereadNotice, At
      <3> QED
        BY <3>1, <3>2
    <2>4. job' \in [Workers -> Job] /\ JobsShaped'
      BY <1>8, <1>m, <2>3 DEF RereadNotice
    <2> QED
      BY <1>0, <1>8, <2>4 DEF TypeOK, RereadNotice, tables, history
  <1>9. CASE WriteStatus(w)
    <2>1. n \in Notices /\ j.to \in NoticeStatus
      BY <1>0, <1>9 DEF WriteStatus, At, JobShape, Idle, NoticeStatus
    <2>2. notice' \in [Notices -> NoticeRow]
      BY <1>0, <1>9, <2>1 DEF WriteStatus, NoticeRow
    <2>3. job' \in [Workers -> Job] /\ JobsShaped'
      BY <1>0, <1>9, <1>c DEF WriteStatus, At, JobShape, Idle, Job, Step
    <2> QED
      BY <1>0, <1>9, <2>2, <2>3 DEF TypeOK, WriteStatus, history
  <1>10. CASE MarkAlertsGenerated(w) \/ MarkAlertsSubmitted(w) \/ ResetAlerts(w)
    <2>1. alert' \in [Alerts -> AlertRow]
      BY <1>0, <1>10, SetAlertStatusTyped
         DEF MarkAlertsGenerated, MarkAlertsSubmitted, ResetAlerts, AlertStatus
    <2>2. job' \in [Workers -> Job] /\ JobsShaped'
      BY <1>0, <1>10, <1>c DEF MarkAlertsGenerated, MarkAlertsSubmitted, ResetAlerts,
         At, JobShape, Idle, Job, Step
    <2> QED
      BY <1>0, <1>10, <2>1, <2>2
         DEF TypeOK, MarkAlertsGenerated, MarkAlertsSubmitted, ResetAlerts, history
  <1>11. CASE ReopenNotice(w)
    <2> DEFINE r == [j EXCEPT !.at = "log", !.cycle = notice[n].cycle + 1]
    <2>1. n \in Notices
      BY <1>0, <1>11 DEF ReopenNotice, At, JobShape, Idle
    <2>2. notice[n].cycle + 1 \in Nat
      BY <1>0, <2>1 DEF NoticeRow
    <2>3. r \in Job /\ JobShape(r)
      <3>1. r \in Job
        BY <1>0, <2>2 DEF Job, Step
      <3>2. JobShape(r)
        BY <1>0, <1>11 DEF JobShape, Idle, Job, ReopenNotice, At
      <3> QED
        BY <3>1, <3>2
    <2>4. job' \in [Workers -> Job] /\ JobsShaped'
      BY <1>11, <1>m, <2>3 DEF ReopenNotice
    <2>5. notice' \in [Notices -> NoticeRow]
      BY <1>0, <1>11, <2>1, <2>2 DEF ReopenNotice, NoticeRow, NoticeStatus
    <2> QED
      BY <1>0, <1>11, <2>4, <2>5 DEF TypeOK, ReopenNotice, history
  <1>12. CASE RemoveAlerts(w)
    <2> DEFINE taken == j.ids \cap Linked(n)
               r == [j EXCEPT !.at = "count", !.ids = {}, !.count = Cardinality(taken)]
    <2>1. Cardinality(taken) \in Nat
      BY TakenCounted DEF Linked
    <2>2. r \in Job /\ JobShape(r)
      <3>1. r \in Job
        BY <1>0, <2>1 DEF Job, Step
      <3>2. JobShape(r)
        <4>1. j.op = "remove"
          BY <1>12 DEF RemoveAlerts, At
        <4>2. n \in Notices /\ j.to = "DRAFT"
          BY <1>0, <4>1 DEF JobShape, Idle
        <4> HIDE DEF taken
        <4> QED
          BY <1>0, <4>1, <4>2 DEF JobShape, Job
      <3> QED
        BY <3>1, <3>2
    <2>3. job' = [job EXCEPT ![w] = r] \/ Finish(w)
      BY <1>12 DEF RemoveAlerts
    <2>4. job' \in [Workers -> Job] /\ JobsShaped'
      BY <1>f, <1>m, <2>2, <2>3
    <2>5. alert' \in [Alerts -> AlertRow]
      <3> DEFINE new(a) == [alert[a] EXCEPT !.noticeId = NoNotice, !.status = "DETECTED"]
      <3>1. ASSUME NEW a \in Alerts
            PROVE  new(a) \in AlertRow
        BY <1>0 DEF AlertRow, AlertStatus
      <3>2. alert' = [a \in Alerts |-> IF a \in taken THEN new(a) ELSE alert[a]]
        BY <1>12 DEF RemoveAlerts
      <3> HIDE DEF new
      <3> QED
        BY <1>0, <3>1, <3>2
    <2> QED
      BY <1>0, <1>12, <2>4, <2>5 DEF TypeOK, RemoveAlerts, history
  <1>13. CASE \E put \in BOOLEAN : WritePatch(w, put)
    <2>2. alert' \in [Alerts -> AlertRow]
      BY <1>13, WritePatchTyped
    <2>3. job' \in [Workers -> Job] /\ JobsShaped'
      BY <1>13, <1>f DEF WritePatch
    <2> QED
      BY <1>0, <1>13, <2>2, <2>3 DEF TypeOK, WritePatch, history
  <1>14. CASE RowGone(w)
    BY <1>0, <1>14, <1>f DEF RowGone, TypeOK, tables, history
  <1>15. CASE LogEvent(w)
    <2>1. n \in Notices /\ j.to \in NoticeStatus \cup {"UNBORN"} /\ j.cycle \in Nat
      BY <1>0, <1>15 DEF LogEvent, JobShape, Idle, NoticeStatus, Job
    <2>2. trail' \in [Notices -> Event]
      BY <1>0, <1>15, <2>1 DEF LogEvent, Event
    <2> QED
      BY <1>0, <1>15, <1>f, <2>2 DEF TypeOK, LogEvent, history
  <1> QED
    BY <1>1, <1>2, <1>3, <1>4, <1>5, <1>6, <1>7, <1>8, <1>9, <1>10, <1>11, <1>12,
       <1>13, <1>14, <1>15 DEF Statements

\* What happens to alerts, and a crash, keeps types and shapes.
LEMMA OthersTyped ==
    ASSUME TypeInv,
           \/ \E w \in Workers : Crash(w)
           \/ \E a \in Alerts : CreateAlert(a) \/ DeadlinePasses(a) \/ DeleteAlert(a)
           \/ ListAlerts
    PROVE  TypeInv'
  <1> USE DEF TypeInv
  <1>1. ASSUME NEW w \in Workers, Crash(w)
        PROVE  TypeInv'
    <2>1. job' \in [Workers -> Job] /\ JobsShaped'
      BY <1>1, FinishTyped, OneJobShaped DEF TypeOK, Crash, JobShape
    <2>2. interrupted' \subseteq Notices
      BY <1>1 DEF TypeOK, Crash
    <2> QED
      BY <1>1, <2>1, <2>2 DEF TypeOK, Crash, tables
  <1>2. ASSUME NEW a \in Alerts, CreateAlert(a)
        PROVE  TypeInv'
    <2>1. \A b \in BOOLEAN : [AlertWith("DETECTED") EXCEPT !.isOverdue = b] \in AlertRow
      BY DEF AlertWith, AlertRow, AlertStatus
    <2>2. PICK b \in BOOLEAN :
             alert' = [alert EXCEPT ![a] = [AlertWith("DETECTED") EXCEPT !.isOverdue = b]]
      <3>1. (a \in past) \in BOOLEAN
        OBVIOUS
      <3> QED
        BY <1>2, <3>1, Zenon DEF CreateAlert
    <2>3. alert' \in [Alerts -> AlertRow]
      BY <2>1, <2>2 DEF TypeOK
    <2> QED
      BY <1>2, <2>3 DEF TypeOK, JobsShaped, CreateAlert, history
  <1>3. ASSUME NEW a \in Alerts, DeadlinePasses(a)
        PROVE  TypeInv'
    BY <1>3 DEF TypeOK, JobsShaped, DeadlinePasses, tables
  <1>4. ASSUME NEW a \in Alerts, DeleteAlert(a)
        PROVE  TypeInv'
    <2>1. AlertWith("DELETED") \in AlertRow
      BY DEF AlertWith, AlertRow, NoRow
    <2> QED
      BY <1>4, <2>1 DEF TypeOK, JobsShaped, DeleteAlert, history
  <1>5. ASSUME ListAlerts
        PROVE  TypeInv'
    <2>1. alert' \in [Alerts -> AlertRow]
      <3> DEFINE new(a) == [alert[a] EXCEPT !.status = "OVERDUE", !.isOverdue = TRUE]
      <3>1. ASSUME NEW a \in Alerts
            PROVE  new(a) \in AlertRow /\ alert[a] \in AlertRow
        BY DEF TypeOK, AlertRow, AlertStatus
      <3>2. PICK late : alert' = [a \in Alerts |-> IF a \in late THEN new(a) ELSE alert[a]]
        BY <1>5 DEF ListAlerts
      <3> HIDE DEF new
      <3> QED
        BY <3>1, <3>2
    <2> QED
      BY <1>5, <2>1 DEF TypeOK, JobsShaped, ListAlerts, history
  <1> QED
    BY <1>1, <1>2, <1>3, <1>4, <1>5

\* The tables and the requests keep their types in every run, and a request is
\* always at a statement of its operation, carrying the status it writes.
THEOREM TypeCorrect == Spec => [](TypeOK /\ JobsShaped)
  <1>1. Init => TypeInv
    BY DEF Init, TypeInv, TypeOK, JobsShaped, JobShape, AlertRow, AlertWith, NoticeRow,
       NoticeWith, Event, NoEvent, NoRow, Job, Idle, Op, Step
  <1>2. TypeInv /\ [Next]_vars => TypeInv'
    <2> SUFFICES ASSUME TypeInv, [Next]_vars PROVE TypeInv'
      OBVIOUS
    <2>1. CASE UNCHANGED vars
      BY <2>1 DEF TypeInv, TypeOK, JobsShaped, vars
    <2> QED
      BY <2>1, RequestsTyped, StatementsTyped, OthersTyped DEF Next
  <1> QED
    BY <1>1, <1>2, PTL DEF Spec, TypeInv

-----------------------------------------------------------------------------
(* Links between alerts and notices, whatever requests overlap.            *)

\* An alert without a row has no notice either.
AbsentFree == \A a \in Alerts : ~AlertExists(a) => alert[a].noticeId = NoNotice

LinkInv == AbsentFree /\ LinkedNoticeExists

\* Statements that only add notices, or leave the set of notices alone.
LEMMA LinksKeptIfAlertsUnchanged ==
    ASSUME LinkInv, TypeOK, UNCHANGED alert,
           \A n \in Notices : NoticeExists(n) => notice'[n].status \in NoticeStatus
    PROVE  LinkInv'
  BY DEF LinkInv, AbsentFree, LinkedNoticeExists, AlertExists, NoticeExists, TypeOK, AlertRow

\* Statements on alert rows that leave the notices alone: each row keeps its
\* link or loses it, and no row without a notice becomes absent.
LEMMA LinksKeptIfNoticesUnchanged ==
    ASSUME LinkInv, TypeOK, UNCHANGED notice,
           \A a \in Alerts :
              \/ alert'[a] = alert[a]
              \/ alert'[a].noticeId = NoNotice
              \/ /\ alert'[a].noticeId = alert[a].noticeId
                 /\ alert'[a].status \in AlertStatus
    PROVE  LinkInv'
  BY DEF LinkInv, AbsentFree, LinkedNoticeExists, AlertExists, NoticeExists

\* Every step keeps the links sound.
LEMMA LinksStep ==
    ASSUME TypeInv, LinkInv, Next
    PROVE  LinkInv'
  <1>t. TypeOK /\ JobsShaped
    BY DEF TypeInv
  <1>1. ASSUME NEW w \in Workers, Requests(w) \/ Crash(w)
        PROVE  LinkInv'
    <2>1. UNCHANGED <<alert, notice>>
      BY <1>1 DEF Requests, StartCreate, StartDelete, StartGenerate, StartSubmit,
         StartAcknowledge, StartRebuke, StartRevert, StartAdd, StartRemove,
         StartPatch, Begin, Crash, tables
    <2> QED
      BY <1>t, <2>1, LinksKeptIfAlertsUnchanged DEF NoticeExists
  <1>2. ASSUME NEW w \in Workers, Statements(w)
        PROVE  LinkInv'
    <2> DEFINE j == job[w]
               n == j.n
    <2>0. JobShape(j) /\ j \in Job /\ alert \in [Alerts -> AlertRow]
          /\ notice \in [Notices -> NoticeRow]
      BY <1>t DEF JobsShaped, TypeOK
    <2>1. CASE SetRecordCount(w) \/ ShiftRecordCount(w) \/ SnapshotAlerts(w)
               \/ PutFile(w) \/ RereadNotice(w) \/ RowGone(w) \/ LogEvent(w)
      <3>1. UNCHANGED alert
        BY <2>1 DEF SetRecordCount, ShiftRecordCount, SnapshotAlerts, PutFile,
           RereadNotice, RowGone, LogEvent, tables
      <3>2. \A m \in Notices : notice'[m].status = notice[m].status
        BY <2>0, <2>1 DEF SetRecordCount, ShiftRecordCount, SnapshotAlerts, PutFile,
           RereadNotice, RowGone, LogEvent, tables, NoticeRow
      <3> QED
        BY <1>t, <3>1, <3>2, LinksKeptIfAlertsUnchanged DEF NoticeExists
    <2>2. CASE InsertNotice(w) \/ WriteStatus(w) \/ ReopenNotice(w)
      <3>1. WriteStatus(w) => j.to \in NoticeStatus
        BY <2>0 DEF WriteStatus, At, JobShape, Idle, NoticeStatus
      <3>2. \A m \in Notices :
              notice[m].status \in NoticeStatus => notice'[m].status \in NoticeStatus
        BY <2>0, <2>2, <3>1 DEF InsertNotice, WriteStatus, ReopenNotice, NoticeRow,
           NoticeWith, NoticeStatus
      <3> QED
        BY <1>t, <2>2, <3>2, LinksKeptIfAlertsUnchanged
           DEF InsertNotice, WriteStatus, ReopenNotice, NoticeExists
    <2>3. CASE AssignAlerts(w) \/ AddAlerts(w)
      <3> DEFINE taken == IF NoticeExists(n) THEN Assignable(j.ids) ELSE {}
      <3>1. SetNoticeId(taken, n) /\ UNCHANGED notice /\ n \in Notices
        BY <2>0, <2>3 DEF AssignAlerts, AddAlerts, At, JobShape, Idle
      <3>2. \A a \in taken : AlertExists(a) /\ NoticeExists(n)
        BY DEF Assignable, Open
      <3> HIDE DEF taken
      <3> QED
        BY <2>0, <3>1, <3>2, SetNoticeIdTyped
           DEF LinkInv, AbsentFree, LinkedNoticeExists, AlertExists, NoticeExists
    <2>4. CASE UnlinkAlerts(w)
      BY <1>t, <2>0, <2>4, SetNoticeIdTyped, LinksKeptIfNoticesUnchanged DEF UnlinkAlerts
    <2>5. CASE DeleteNotice(w)
      <3>1. SetNoticeId(Linked(n), NoNotice) /\ n \in Notices
        BY <2>0, <2>5 DEF DeleteNotice, At, JobShape, Idle
      <3>2. \A m \in Notices \ {n} : notice'[m] = notice[m]
        BY <2>0, <2>5 DEF DeleteNotice
      <3>3. \A a \in Alerts : alert[a].noticeId = n => a \in Linked(n)
        BY <3>1, NoticesAssumption DEF LinkInv, AbsentFree, Linked
      <3> QED
        BY <2>0, <3>1, <3>2, <3>3, SetNoticeIdTyped
           DEF LinkInv, AbsentFree, LinkedNoticeExists, AlertExists, NoticeExists, AlertRow
    <2>6. CASE MarkAlertsGenerated(w) \/ MarkAlertsSubmitted(w) \/ ResetAlerts(w)
      <3>1. PICK S \in SUBSET Alerts, st \in AlertStatus : SetAlertStatus(S, st)
        BY <2>6 DEF MarkAlertsGenerated, MarkAlertsSubmitted, ResetAlerts, AlertStatus, Linked
      <3>2. UNCHANGED notice
        BY <2>6 DEF MarkAlertsGenerated, MarkAlertsSubmitted, ResetAlerts
      <3> QED
        BY <1>t, <2>0, <3>1, <3>2, SetAlertStatusTyped, LinksKeptIfNoticesUnchanged
    <2>7. CASE RemoveAlerts(w)
      <3>1. PICK S : alert' = [a \in Alerts |->
                IF a \in S THEN [alert[a] EXCEPT !.noticeId = NoNotice, !.status = "DETECTED"]
                           ELSE alert[a]]
        BY <2>7 DEF RemoveAlerts
      <3>2. \A a \in Alerts : alert'[a] = alert[a] \/ alert'[a].noticeId = NoNotice
        BY <2>0, <3>1 DEF AlertRow
      <3> QED
        BY <1>t, <2>7, <3>2, LinksKeptIfNoticesUnchanged DEF RemoveAlerts
    <2>8. CASE \E put \in BOOLEAN : WritePatch(w, put)
      <3>1. /\ \A a \in Alerts : alert'[a].noticeId = alert[a].noticeId
            /\ \A a \in Alerts : \/ alert'[a] = alert[a]
                                 \/ alert'[a].status \in AlertStatus
        BY <1>t, <2>8, WritePatchTyped
      <3> QED
        BY <1>t, <2>8, <3>1, LinksKeptIfNoticesUnchanged DEF WritePatch
    <2> QED
      BY <1>2, <2>1, <2>2, <2>3, <2>4, <2>5, <2>6, <2>7, <2>8 DEF Statements
  <1>3. ASSUME NEW a \in Alerts, CreateAlert(a) \/ DeleteAlert(a)
        PROVE  LinkInv'
    <2>1. \A b \in Alerts : alert'[b] = alert[b] \/ alert'[b].noticeId = NoNotice
      BY <1>t, <1>3 DEF CreateAlert, DeleteAlert, AlertWith, TypeOK
    <2> QED
      BY <1>t, <1>3, <2>1, LinksKeptIfNoticesUnchanged DEF CreateAlert, DeleteAlert
  <1>4. ASSUME NEW a \in Alerts, DeadlinePasses(a)
        PROVE  LinkInv'
    BY <1>t, <1>4, LinksKeptIfAlertsUnchanged DEF DeadlinePasses, tables, NoticeExists
  <1>5. ASSUME ListAlerts
        PROVE  LinkInv'
    <2>1. PICK late : alert' = [a \in Alerts |->
             IF a \in late THEN [alert[a] EXCEPT !.status = "OVERDUE", !.isOverdue = TRUE]
                           ELSE alert[a]]
      BY <1>5 DEF ListAlerts
    <2>2. \A a \in Alerts : \/ alert'[a] = alert[a]
                            \/ /\ alert'[a].noticeId = alert[a].noticeId
                               /\ alert'[a].status \in AlertStatus
      BY <1>t, <2>1 DEF TypeOK, AlertRow, AlertStatus
    <2> QED
      BY <1>t, <1>5, <2>2, LinksKeptIfNoticesUnchanged DEF ListAlerts
  <1> QED
    BY <1>1, <1>2, <1>3, <1>4, <1>5 DEF Next

-----------------------------------------------------------------------------
(* Which statements move an alert from or to a notice.                     *)

\* An alert is taken by an assignment when no notice holds it, is released by
\* a request on the notice that holds it, or loses its row.
LinkMoves(a) ==
    \/ \E w \in Workers : /\ AssignAlerts(w) \/ AddAlerts(w)
                          /\ alert[a].noticeId = NoNotice
                          /\ alert'[a].noticeId = job[w].n
    \/ \E w \in Workers : /\ UnlinkAlerts(w) \/ RemoveAlerts(w) \/ DeleteNotice(w)
                          /\ alert[a].noticeId = job[w].n
                          /\ alert'[a].noticeId = NoNotice
    \/ alert'[a].status = "DELETED" /\ alert'[a].noticeId = NoNotice

LEMMA LinkChange ==
    ASSUME TypeInv, LinkInv, Next, NEW a \in Alerts,
           alert'[a].noticeId # alert[a].noticeId
    PROVE  LinkMoves(a)
  <1>t. /\ TypeOK /\ JobsShaped /\ AbsentFree
        /\ alert \in [Alerts -> AlertRow]
    BY DEF TypeInv, LinkInv, TypeOK
  <1>1. ASSUME NEW w \in Workers, Requests(w) \/ Crash(w)
        PROVE  FALSE
    BY <1>1 DEF Requests, StartCreate, StartDelete, StartGenerate, StartSubmit,
       StartAcknowledge, StartRebuke, StartRevert, StartAdd, StartRemove,
       StartPatch, Begin, Crash, tables
  <1>2. ASSUME NEW w \in Workers, Statements(w)
        PROVE  LinkMoves(a)
    <2> DEFINE j == job[w]
               n == j.n
    <2>0. JobShape(j) /\ j \in Job
      BY <1>t DEF JobsShaped, TypeOK
    <2>1. CASE InsertNotice(w) \/ SetRecordCount(w) \/ ShiftRecordCount(w)
               \/ SnapshotAlerts(w) \/ PutFile(w) \/ RereadNotice(w) \/ RowGone(w)
               \/ LogEvent(w) \/ WriteStatus(w) \/ ReopenNotice(w)
      BY <2>1 DEF InsertNotice, SetRecordCount, ShiftRecordCount, SnapshotAlerts,
         PutFile, RereadNotice, RowGone, LogEvent, WriteStatus, ReopenNotice, tables
    <2>2. CASE AssignAlerts(w) \/ AddAlerts(w)
      <3> DEFINE taken == IF NoticeExists(n) THEN Assignable(j.ids) ELSE {}
      <3>1. SetNoticeId(taken, n) /\ n \in Notices
        BY <2>0, <2>2 DEF AssignAlerts, AddAlerts, At, JobShape, Idle
      <3>2. \A b \in taken : alert[b].noticeId = NoNotice
        BY DEF Assignable
      <3> HIDE DEF taken
      <3>3. alert[a].noticeId = NoNotice /\ alert'[a].noticeId = n
        BY <1>t, <3>1, <3>2, SetNoticeIdTyped
      <3> QED
        BY <2>2, <3>3 DEF LinkMoves
    <2>3. CASE UnlinkAlerts(w) \/ DeleteNotice(w)
      <3>1. SetNoticeId(Linked(n), NoNotice)
        BY <2>3 DEF UnlinkAlerts, DeleteNotice
      <3>2. a \in Linked(n) /\ alert'[a].noticeId = NoNotice
        BY <1>t, <3>1, SetNoticeIdTyped
      <3> QED
        BY <2>3, <3>2 DEF LinkMoves, Linked
    <2>4. CASE RemoveAlerts(w)
      <3>1. alert' = [b \in Alerts |->
               IF b \in j.ids \cap Linked(n)
               THEN [alert[b] EXCEPT !.noticeId = NoNotice, !.status = "DETECTED"]
               ELSE alert[b]]
        BY <2>4 DEF RemoveAlerts
      <3>2. a \in Linked(n) /\ alert'[a].noticeId = NoNotice
        BY <1>t, <3>1 DEF AlertRow
      <3> QED
        BY <2>4, <3>2 DEF LinkMoves, Linked
    <2>5. CASE MarkAlertsGenerated(w) \/ MarkAlertsSubmitted(w) \/ ResetAlerts(w)
      <3>1. PICK S \in SUBSET Alerts, st \in AlertStatus : SetAlertStatus(S, st)
        BY <2>5 DEF MarkAlertsGenerated, MarkAlertsSubmitted, ResetAlerts, AlertStatus, Linked
      <3> QED
        BY <1>t, <3>1, SetAlertStatusTyped
    <2>6. CASE \E put \in BOOLEAN : WritePatch(w, put)
      BY <1>t, <2>6, WritePatchTyped
    <2> QED
      BY <1>2, <2>1, <2>2, <2>3, <2>4, <2>5, <2>6 DEF Statements
  <1>3. ASSUME NEW b \in Alerts, CreateAlert(b) \/ DeleteAlert(b) \/ DeadlinePasses(b)
        PROVE  LinkMoves(a)
    <2>1. CASE CreateAlert(b)
      BY <1>t, <2>1 DEF CreateAlert, AlertWith, AbsentFree, AlertExists, AlertStatus
    <2>2. CASE DeleteAlert(b)
      BY <1>t, <2>2 DEF DeleteAlert, AlertWith, LinkMoves
    <2>3. CASE DeadlinePasses(b)
      BY <2>3 DEF DeadlinePasses, tables
    <2> QED
      BY <1>3, <2>1, <2>2, <2>3
  <1>4. ASSUME ListAlerts
        PROVE  FALSE
    <2>1. PICK late : alert' = [b \in Alerts |->
             IF b \in late THEN [alert[b] EXCEPT !.status = "OVERDUE", !.isOverdue = TRUE]
                           ELSE alert[b]]
      BY <1>4 DEF ListAlerts
    <2> QED
      BY <1>t, <2>1 DEF AlertRow
  <1> QED
    BY <1>1, <1>2, <1>3, <1>4 DEF Next

\* Types and links together, for the theorems below and in other modules.
LEMMA BaseCorrect == Spec => [](TypeInv /\ LinkInv)
  <1>1. Init => LinkInv
    BY DEF Init, LinkInv, AbsentFree, LinkedNoticeExists, AlertWith
  <1>2. TypeInv /\ LinkInv /\ [Next]_vars => LinkInv'
    <2>1. UNCHANGED vars /\ LinkInv => LinkInv'
      BY DEF LinkInv, AbsentFree, LinkedNoticeExists, AlertExists, NoticeExists, vars
    <2> QED
      BY <2>1, LinksStep
  <1> QED
    BY <1>1, <1>2, TypeCorrect, PTL DEF Spec, TypeInv

\* No alert row points to a notice that is not there: in particular an
\* assignment racing with a delete leaves no dangling link behind.
THEOREM LinksSound == Spec => []LinkedNoticeExists
  BY BaseCorrect, PTL DEF LinkInv

\* However many requests sweep the same period, none takes an alert away from
\* a notice that holds it.
THEOREM NoTheft == Spec => NoAlertStolen
  <1> DEFINE Kept(a) == alert[a].noticeId # NoNotice /\ alert'[a].noticeId # NoNotice
                          => alert'[a].noticeId = alert[a].noticeId
  <1>1. TypeInv /\ LinkInv /\ [Next]_vars => [\A a \in Alerts : Kept(a)]_alert
    <2> SUFFICES ASSUME TypeInv, LinkInv, [Next]_vars, NEW a \in Alerts, alert' # alert
                 PROVE  Kept(a)
      OBVIOUS
    <2>1. Next
      BY DEF vars
    <2>2. alert'[a].noticeId # alert[a].noticeId => LinkMoves(a)
      BY <2>1, LinkChange
    <2> QED
      BY <2>2 DEF LinkMoves
  <1> QED
    BY <1>1, BaseCorrect, PTL DEF Spec, NoAlertStolen

-----------------------------------------------------------------------------
(* No two requests are in flight for the same notice.                      *)

Published == {"GENERATED"} \cup Filed

\* Two requests in flight are for two notices.
OneRequest ==
    \A v, w \in Workers : v # w => job[v].n # job[w].n \/ job[v].n = NoNotice

\* The status the request read is still the status of its notice, until the
\* request itself changes it: no check is stale when it is acted upon.
CheckHolds(j) ==
    /\ j.op \in {"add", "remove"} => notice[j.n].status = "DRAFT"
    /\ j.op = "create" => notice[j.n].status = IF j.at = "insert" THEN "UNBORN" ELSE "DRAFT"
    /\ j.op = "delete" => notice[j.n].status \in {"DRAFT", "GENERATED"}
    /\ j.op = "generate" =>
         notice[j.n].status = IF j.at \in {"alerts", "log"} THEN "GENERATED" ELSE "DRAFT"
    /\ j.op = "submit" => notice[j.n].status \in Published
    /\ j.op \in {"acknowledge", "rebuke"} =>
         notice[j.n].status = IF j.at = "log" THEN j.to ELSE "SUBMITTED"
    /\ j.op = "revert" => notice[j.n].status = IF j.at = "log" THEN "DRAFT" ELSE "REBUKED"

ChecksHold == \A w \in Workers : CheckHolds(job[w])

SerialInv == OneRequest /\ ChecksHold

-----------------------------------------------------------------------------

\* A statement of one request cannot disturb what another has checked.
LEMMA ChecksKept ==
    ASSUME TypeInv, SerialInv, NEW w \in Workers,
           job'[w].n \in {job[w].n, NoNotice},
           \A v \in Workers \ {w} : job'[v] = job[v],
           \A m \in Notices \ {job[w].n} : notice'[m].status = notice[m].status,
           CheckHolds(job[w])'
    PROVE  SerialInv'
  <1>1. OneRequest'
    BY DEF SerialInv, OneRequest
  <1>2. ASSUME NEW v \in Workers, v # w
        PROVE  CheckHolds(job[v])'
    <2>1. job'[v] = job[v] /\ CheckHolds(job[v]) /\ JobShape(job[v])
      BY <1>2 DEF SerialInv, ChecksHold, TypeInv, JobsShaped
    <2>2. CASE job[v].n \in Notices
      <3>1. notice'[job[v].n].status = notice[job[v].n].status
        BY <1>2, <2>2, NoticesAssumption DEF SerialInv, OneRequest
      <3> QED
        BY <2>1, <3>1 DEF CheckHolds
    <2>3. CASE job[v].n \notin Notices
      BY <2>1, <2>3 DEF CheckHolds, JobShape, Idle
    <2> QED
      BY <2>2, <2>3
  <1> QED
    BY <1>1, <1>2 DEF SerialInv, ChecksHold

\* Beginning a request on a notice no other request is for.
LEMMA BeginSerial ==
    ASSUME Overlap = FALSE, TypeInv, SerialInv, NEW w \in Workers, NEW n \in Notices,
           NEW op \in Op, NEW step \in Step, NEW ids \in SUBSET Alerts,
           NEW to \in NoticeStatus \cup {"UNBORN"},
           Begin(w, n, op, step, ids, to),
           CheckHolds([op |-> op, at |-> step, n |-> n, to |-> to])
    PROVE  SerialInv'
  <1>1. /\ job'[w].op = op /\ job'[w].at = step /\ job'[w].n = n /\ job'[w].to = to
        /\ \A v \in Workers \ {w} : job'[v] = job[v]
    BY BeginTyped DEF TypeInv
  <1>2. \A v \in Workers : job[v].n # n
    BY DEF Begin, Busy
  <1>3. UNCHANGED notice
    BY DEF Begin, tables
  <1>4. OneRequest'
    BY <1>1, <1>2 DEF SerialInv, OneRequest
  <1>5. ChecksHold'
    BY <1>1, <1>3 DEF SerialInv, ChecksHold, CheckHolds
  <1> QED
    BY <1>4, <1>5 DEF SerialInv

\* Every step keeps the requests apart and their checks valid.
LEMMA SerialStep ==
    ASSUME Overlap = FALSE, TypeInv, SerialInv, Next
    PROVE  SerialInv'
  <1>t. TypeOK /\ JobsShaped
    BY DEF TypeInv
  <1>1. ASSUME NEW w \in Workers, Requests(w)
        PROVE  SerialInv'
    <2>1. ASSUME NEW n \in Notices
          PROVE  /\ \A ids \in SUBSET Alerts : StartCreate(w, n, ids) => SerialInv'
                 /\ StartDelete(w, n) => SerialInv'
                 /\ StartGenerate(w, n) => SerialInv'
                 /\ StartSubmit(w, n) => SerialInv'
                 /\ StartAcknowledge(w, n) => SerialInv'
                 /\ StartRebuke(w, n) => SerialInv'
                 /\ StartRevert(w, n) => SerialInv'
                 /\ \A ids \in SUBSET Alerts :
                      StartAdd(w, n, ids) \/ StartRemove(w, n, ids) => SerialInv'
      <3>1. ASSUME NEW ids \in SUBSET Alerts, StartCreate(w, n, ids)
            PROVE  SerialInv'
        BY <3>1, BeginSerial DEF StartCreate, Op, Step, NoticeStatus, CheckHolds
      <3>2. ASSUME StartDelete(w, n)
            PROVE  SerialInv'
        BY <3>2, BeginSerial DEF StartDelete, Op, Step, Pending, CheckHolds
      <3>3. ASSUME StartGenerate(w, n)
            PROVE  SerialInv'
        BY <3>3, BeginSerial DEF StartGenerate, Op, Step, NoticeStatus, CheckHolds
      <3>4. ASSUME StartSubmit(w, n)
            PROVE  SerialInv'
        BY <3>4, BeginSerial DEF StartSubmit, Op, Step, NoticeStatus, NoticeExists,
           CheckHolds, Published, Filed
      <3>5. ASSUME StartAcknowledge(w, n)
            PROVE  SerialInv'
        BY <3>5, BeginSerial DEF StartAcknowledge, Op, Step, NoticeStatus, CheckHolds
      <3>6. ASSUME StartRebuke(w, n)
            PROVE  SerialInv'
        BY <3>6, BeginSerial DEF StartRebuke, Op, Step, NoticeStatus, CheckHolds
      <3>7. ASSUME StartRevert(w, n)
            PROVE  SerialInv'
        BY <3>7, BeginSerial DEF StartRevert, Op, Step, NoticeStatus, CheckHolds
      <3>8. ASSUME NEW ids \in SUBSET Alerts, StartAdd(w, n, ids) \/ StartRemove(w, n, ids)
            PROVE  SerialInv'
        BY <3>8, BeginSerial DEF StartAdd, StartRemove, Op, Step, NoticeStatus, CheckHolds
      <3> QED
        BY <3>1, <3>2, <3>3, <3>4, <3>5, <3>6, <3>7, <3>8
    <2>2. ASSUME NEW a \in Alerts, NEW to \in PatchStatuses, StartPatch(w, a, to)
          PROVE  SerialInv'
      <3>1. /\ job'[w].n = NoNotice /\ job'[w].op = "patch"
            /\ \A v \in Workers \ {w} : job'[v] = job[v]
            /\ UNCHANGED notice
        BY <1>t, <2>2 DEF StartPatch, Idle, TypeOK, tables
      <3> QED
        BY <3>1, ChecksKept DEF CheckHolds
    <2> QED
      BY <1>1, <2>1, <2>2 DEF Requests
  <1>2. ASSUME NEW w \in Workers, Statements(w)
        PROVE  SerialInv'
    <2> DEFINE j == job[w]
               n == j.n
    <2>0. /\ JobShape(j) /\ j \in Job /\ CheckHolds(j) /\ job \in [Workers -> Job]
          /\ notice \in [Notices -> NoticeRow]
      BY <1>t DEF JobsShaped, TypeOK, SerialInv, ChecksHold
    <2>f. ASSUME Finish(w), \A m \in Notices \ {n} : notice'[m].status = notice[m].status
          PROVE  SerialInv'
      <3>1. job'[w] = Idle /\ \A v \in Workers \ {w} : job'[v] = job[v]
        BY <2>0, <2>f, FinishTyped
      <3>2. job'[w].n = NoNotice /\ job'[w].op = "idle"
        BY <3>1 DEF Idle
      <3>3. CheckHolds(job[w])'
        BY <3>2 DEF CheckHolds
      <3> QED
        BY <2>f, <3>1, <3>2, <3>3, ChecksKept
    <2>s. ASSUME \A m \in Notices : notice'[m].status = notice[m].status,
                 NEW step \in Step, job'[w].n = n, job'[w].op = j.op,
                 job'[w].at = step, job'[w].to = j.to,
                 \A v \in Workers \ {w} : job'[v] = job[v],
                 n \in Notices, j.op \notin {"acknowledge", "rebuke"},
                 j.op = "generate" => (step \in {"alerts", "log"} <=> j.at \in {"alerts", "log"}),
                 j.op = "create" => step # "insert" /\ j.at # "insert",
                 j.op = "revert" => step # "log" /\ j.at # "log"
          PROVE  SerialInv'
      <3>1. CheckHolds(job[w])'
        BY <2>0, <2>s DEF CheckHolds
      <3> QED
        BY <2>s, <3>1, ChecksKept
    <2>1. CASE InsertNotice(w)
      <3>1. n \in Notices /\ j.op = "create"
        BY <2>0, <2>1 DEF InsertNotice, At, JobShape, Idle
      <3>2. PICK step \in {"log", "alerts"} : Continue(w, step)
        BY <2>1 DEF InsertNotice
      <3>3. /\ job'[w].op = "create" /\ job'[w].at \in {"log", "alerts"} /\ job'[w].n = n
            /\ \A v \in Workers \ {w} : job'[v] = job[v]
        BY <2>0, <3>1, <3>2, ContinueTyped DEF Step
      <3>4. notice'[n].status = "DRAFT" /\ \A m \in Notices \ {n} : notice'[m] = notice[m]
        BY <2>0, <2>1, <3>1 DEF InsertNotice, NoticeWith
      <3>5. CheckHolds(job[w])'
        BY <3>3, <3>4 DEF CheckHolds
      <3> QED
        BY <3>3, <3>4, <3>5, ChecksKept
    <2>2. CASE AssignAlerts(w) \/ AddAlerts(w) \/ RemoveAlerts(w)
      <3>1. /\ n \in Notices /\ j.op \in {"create", "add", "remove"}
            /\ j.at = "alerts" /\ UNCHANGED notice
        <4>1. j.op \in {"create", "add", "remove"} /\ j.at = "alerts" /\ UNCHANGED notice
          BY <2>2 DEF AssignAlerts, AddAlerts, RemoveAlerts, At
        <4> QED
          BY <2>0, <4>1 DEF JobShape, Idle
      <3>2. Finish(w) \/ \E c : job' = [job EXCEPT ![w] = [j EXCEPT !.at = "count",
                                                       !.ids = {}, !.count = c]]
        BY <2>2 DEF AssignAlerts, AddAlerts, RemoveAlerts
      <3>3. CASE \E c : job' = [job EXCEPT ![w] = [j EXCEPT !.at = "count",
                                                       !.ids = {}, !.count = c]]
        <4>1. /\ job'[w].n = n /\ job'[w].op = j.op /\ job'[w].at = "count"
              /\ job'[w].to = j.to /\ \A v \in Workers \ {w} : job'[v] = job[v]
          BY <2>0, <3>3 DEF Job
        <4> QED
          BY <2>s, <3>1, <4>1 DEF Step
      <3> QED
        BY <2>f, <3>1, <3>2, <3>3
    <2>3. CASE SetRecordCount(w) \/ ShiftRecordCount(w)
      <3>1. n \in Notices /\ j.op \in {"create", "add", "remove"} /\ j.at = "count"
        BY <2>0, <2>3 DEF SetRecordCount, ShiftRecordCount, At, JobShape, Idle
      <3>2. Continue(w, "log") /\ \A m \in Notices : notice'[m].status = notice[m].status
        BY <2>0, <2>3 DEF SetRecordCount, ShiftRecordCount, NoticeRow
      <3>3. /\ job'[w].n = n /\ job'[w].op = j.op /\ job'[w].at = "log"
            /\ job'[w].to = j.to /\ \A v \in Workers \ {w} : job'[v] = job[v]
        BY <2>0, <3>2, ContinueTyped DEF Step
      <3> QED
        BY <2>s, <3>1, <3>2, <3>3 DEF Step
    <2>4. CASE UnlinkAlerts(w) \/ ResetAlerts(w)
      <3>1. n \in Notices /\ j.op \in {"delete", "revert"} /\ j.at = "alerts" /\ UNCHANGED notice
        BY <2>0, <2>4 DEF UnlinkAlerts, ResetAlerts, At, JobShape, Idle
      <3>2. Continue(w, "notice")
        BY <2>4 DEF UnlinkAlerts, ResetAlerts
      <3>3. /\ job'[w].n = n /\ job'[w].op = j.op /\ job'[w].at = "notice"
            /\ job'[w].to = j.to /\ \A v \in Workers \ {w} : job'[v] = job[v]
        BY <2>0, <3>2, ContinueTyped DEF Step
      <3> QED
        BY <2>s, <3>1, <3>3 DEF Step
    <2>5. CASE DeleteNotice(w)
      BY <2>0, <2>5, <2>f DEF DeleteNotice
    <2>6. CASE SnapshotAlerts(w) \/ PutFile(w) \/ RereadNotice(w)
      <3>1. /\ n \in Notices /\ j.op = "generate" /\ UNCHANGED notice
            /\ j.at \in {"snapshot", "put", "reread"}
        BY <2>0, <2>6 DEF SnapshotAlerts, PutFile, RereadNotice, At, JobShape, Idle, tables
      <3>2. \/ Finish(w)
            \/ \E S : job' = [job EXCEPT ![w] = [j EXCEPT !.at = "put", !.ids = S]]
            \/ job' = [job EXCEPT ![w] = [j EXCEPT !.at = "reread", !.ids = {}]]
            \/ \E c : job' = [job EXCEPT ![w] = [j EXCEPT !.at = "notice", !.cycle = c]]
        BY <2>6 DEF SnapshotAlerts, PutFile, RereadNotice
      <3>3. ASSUME ~Finish(w)
            PROVE  /\ job'[w].n = n /\ job'[w].op = j.op /\ job'[w].to = j.to
                   /\ job'[w].at \in {"put", "reread", "notice"}
                   /\ \A v \in Workers \ {w} : job'[v] = job[v]
        <4>1. CASE \E S : job' = [job EXCEPT ![w] = [j EXCEPT !.at = "put", !.ids = S]]
          BY <2>0, <4>1 DEF Job
        <4>2. CASE job' = [job EXCEPT ![w] = [j EXCEPT !.at = "reread", !.ids = {}]]
          BY <2>0, <4>2 DEF Job
        <4>3. CASE \E c : job' = [job EXCEPT ![w] = [j EXCEPT !.at = "notice", !.cycle = c]]
          BY <2>0, <4>3 DEF Job
        <4> QED
          BY <3>2, <3>3, <4>1, <4>2, <4>3
      <3> QED
        BY <2>f, <2>s, <3>1, <3>3 DEF Step
    <2>7. CASE WriteStatus(w)
      <3>1. /\ n \in Notices /\ j.at = "notice"
            /\ j.op \in {"generate", "submit", "acknowledge", "rebuke"}
        BY <2>0, <2>7 DEF WriteStatus, At, JobShape, Idle
      <3>2. PICK step \in {"alerts", "log"} : Continue(w, step) /\
               (j.op \in {"acknowledge", "rebuke"} => step = "log")
        BY <2>7 DEF WriteStatus
      <3>3. /\ job'[w].n = n /\ job'[w].op = j.op /\ job'[w].at = step
            /\ job'[w].to = j.to /\ \A v \in Workers \ {w} : job'[v] = job[v]
        BY <2>0, <3>2, ContinueTyped DEF Step
      <3>4. notice'[n].status = j.to /\ \A m \in Notices \ {n} : notice'[m] = notice[m]
        BY <2>0, <2>7, <3>1 DEF WriteStatus, NoticeRow
      <3>5. CheckHolds(job[w])'
        BY <2>0, <3>1, <3>2, <3>3, <3>4 DEF CheckHolds, JobShape, Idle, Published, Filed
      <3> QED
        BY <3>3, <3>4, <3>5, ChecksKept
    <2>8. CASE MarkAlertsGenerated(w) \/ MarkAlertsSubmitted(w)
      <3>1. n \in Notices /\ j.op \in {"generate", "submit"} /\ j.at = "alerts" /\ UNCHANGED notice
        BY <2>0, <2>8 DEF MarkAlertsGenerated, MarkAlertsSubmitted, At, JobShape, Idle
      <3>2. Continue(w, "log")
        BY <2>8 DEF MarkAlertsGenerated, MarkAlertsSubmitted
      <3>3. /\ job'[w].n = n /\ job'[w].op = j.op /\ job'[w].at = "log"
            /\ job'[w].to = j.to /\ \A v \in Workers \ {w} : job'[v] = job[v]
        BY <2>0, <3>2, ContinueTyped DEF Step
      <3> QED
        BY <2>s, <3>1, <3>3 DEF Step
    <2>9. CASE ReopenNotice(w)
      <3>1. n \in Notices /\ j.op = "revert"
        BY <2>0, <2>9 DEF ReopenNotice, At, JobShape, Idle
      <3>2. job' = [job EXCEPT ![w] = [j EXCEPT !.at = "log", !.cycle = notice[n].cycle + 1]]
        BY <2>9 DEF ReopenNotice
      <3>3. /\ job'[w].n = n /\ job'[w].op = "revert" /\ job'[w].at = "log"
            /\ \A v \in Workers \ {w} : job'[v] = job[v]
        BY <2>0, <3>1, <3>2 DEF Job
      <3>4. notice'[n].status = "DRAFT" /\ \A m \in Notices \ {n} : notice'[m] = notice[m]
        BY <2>0, <2>9, <3>1 DEF ReopenNotice, NoticeRow
      <3>5. CheckHolds(job[w])'
        BY <3>3, <3>4 DEF CheckHolds
      <3> QED
        BY <3>3, <3>4, <3>5, ChecksKept
    <2>10. CASE RowGone(w) \/ LogEvent(w)
      BY <2>0, <2>10, <2>f DEF RowGone, LogEvent, tables
    <2>11. CASE \E put \in BOOLEAN : WritePatch(w, put)
      <3>1. Finish(w) /\ UNCHANGED notice
        BY <2>11 DEF WritePatch
      <3> QED
        BY <2>f, <3>1
    <2> QED
      BY <1>2, <2>1, <2>2, <2>3, <2>4, <2>5, <2>6, <2>7, <2>8, <2>9, <2>10, <2>11
         DEF Statements
  <1>3. ASSUME NEW w \in Workers, Crash(w)
        PROVE  SerialInv'
    <2>1. /\ job'[w] = Idle /\ \A v \in Workers \ {w} : job'[v] = job[v]
          /\ UNCHANGED notice
      BY <1>t, <1>3, FinishTyped DEF Crash, tables, TypeOK
    <2>2. job'[w].n = NoNotice /\ job'[w].op = "idle"
      BY <2>1 DEF Idle
    <2> QED
      BY <2>1, <2>2, ChecksKept DEF CheckHolds
  <1>4. ASSUME UNCHANGED <<notice, job>>
        PROVE  SerialInv'
    BY <1>4 DEF SerialInv, OneRequest, ChecksHold, CheckHolds
  <1> QED
    BY <1>1, <1>2, <1>3, <1>4
       DEF Next, CreateAlert, DeadlinePasses, DeleteAlert, ListAlerts, tables

\* Requests on different notices never make each other's checks stale.
LEMMA SerialCorrect ==
    ASSUME Overlap = FALSE
    PROVE  Spec => [](TypeInv /\ LinkInv /\ SerialInv)
  <1>1. Init => SerialInv
    BY DEF Init, SerialInv, OneRequest, ChecksHold, CheckHolds, Idle
  <1>2. TypeInv /\ SerialInv /\ [Next]_vars => SerialInv'
    <2>1. UNCHANGED vars /\ SerialInv => SerialInv'
      BY DEF SerialInv, OneRequest, ChecksHold, CheckHolds, vars
    <2> QED
      BY <2>1, SerialStep
  <1> QED
    BY <1>1, <1>2, BaseCorrect, PTL DEF Spec

\* An alert held by a notice that was filed leaves it only when its row is
\* deleted: no request can unlink it on the strength of an outdated check.
THEOREM FiledStays ==
    ASSUME Overlap = FALSE
    PROVE  Spec => FiledAlertStays
  <1> DEFINE Stays(a) ==
        (/\ alert[a].noticeId # NoNotice
         /\ notice[alert[a].noticeId].status \in Filed
         /\ alert'[a].status # "DELETED")
          => alert'[a].noticeId = alert[a].noticeId
  <1>1. TypeInv /\ LinkInv /\ SerialInv /\ [Next]_vars
          => [\A a \in Alerts : Stays(a)]_<<alert, notice>>
    <2> SUFFICES ASSUME TypeInv, LinkInv, SerialInv, [Next]_vars, NEW a \in Alerts
                 PROVE  Stays(a)
      OBVIOUS
    <2>1. CASE alert'[a].noticeId = alert[a].noticeId
      BY <2>1
    <2>2. CASE alert'[a].noticeId # alert[a].noticeId
      <3>1. LinkMoves(a)
        BY <2>2, LinkChange DEF vars
      <3>2. ASSUME NEW w \in Workers,
                   UnlinkAlerts(w) \/ RemoveAlerts(w) \/ DeleteNotice(w),
                   alert[a].noticeId = job[w].n
            PROVE  notice[alert[a].noticeId].status \notin Filed
        BY <3>2 DEF UnlinkAlerts, RemoveAlerts, DeleteNotice, At, SerialInv, ChecksHold,
           CheckHolds, Filed
      <3> QED
        BY <3>1, <3>2 DEF LinkMoves
    <2> QED
      BY <2>1, <2>2
  <1> QED
    BY <1>1, SerialCorrect, PTL DEF Spec, FiledAlertStays

-----------------------------------------------------------------------------
(* What the XML of a notice reports.                                       *)

\* A delete has unlinked the alerts of n and is about to delete its row.
Unlinked(n) == \E w \in Workers : job[w].n = n /\ job[w].op = "delete" /\ job[w].at = "notice"

\* A generate request for n holds the alerts to report, or has just put them.
Gathering(w, n) == job[w].n = n /\ job[w].op = "generate" /\ job[w].at = "put"
Stored(n) ==
    \E w \in Workers : /\ job[w].n = n /\ job[w].op = "generate"
                       /\ job[w].at \in {"reread", "notice"}

FileCounts(n) == Stored(n) \/ (notice[n].status \in Published /\ ~Unlinked(n))

\* The alerts n reports, or is about to.
HasContent(n) == FileCounts(n) \/ \E w \in Workers : Gathering(w, n)
Content(n) == {a \in Alerts : \/ FileCounts(n) /\ a \in file[n]
                              \/ \E w \in Workers : Gathering(w, n) /\ a \in job[w].ids}

\* They are the reportable alerts it holds and alerts deleted since.
ContentExact(n) ==
    \A a \in Alerts :
        IF AlertExists(a)
        THEN a \in Content(n) <=> alert[a].noticeId = n /\ a \in Reportable
        ELSE a \in Content(n) => alert[a].status = "DELETED"

ContentsExact == \A n \in Notices \ interrupted : HasContent(n) => ContentExact(n)
ContentsApart ==
    \A m, n \in Notices \ interrupted : m # n => Content(m) \cap Content(n) = {}
Stamped == \A n \in Notices : notice[n].status \in Published => notice[n].xml

FilesInv == ContentsExact /\ ContentsApart /\ Stamped

-----------------------------------------------------------------------------

\* A step that starts no content, and moves or deletes alerts without touching
\* what notices with content hold, keeps the contents exact and apart.
LEMMA ContentsKept ==
    ASSUME FilesInv, interrupted \subseteq interrupted', Stamped',
           \A n \in Notices \ interrupted' : HasContent(n)' =>
              /\ HasContent(n) /\ Content(n)' = Content(n)
              /\ \A a \in Alerts :
                    \/ alert'[a].status = "DELETED"
                    \/ /\ a \in Content(n) /\ AlertExists(a) => AlertExists(a)'
                       /\ a \in Content(n) /\ ~AlertExists(a) => alert'[a] = alert[a]
                       /\ (AlertExists(a)' /\ alert'[a].noticeId = n)
                            <=> (AlertExists(a) /\ alert[a].noticeId = n)
    PROVE  FilesInv'
  <1>1. ASSUME NEW n \in Notices \ interrupted', HasContent(n)'
        PROVE  ContentExact(n)'
    <2>1. ContentExact(n)
      BY <1>1 DEF FilesInv, ContentsExact
    <2>2. SUFFICES ASSUME NEW a \in Alerts
                   PROVE  IF AlertExists(a)'
                          THEN a \in Content(n)' <=> alert'[a].noticeId = n /\ a \in Reportable
                          ELSE a \in Content(n)' => alert'[a].status = "DELETED"
      BY DEF ContentExact
    <2>3. Content(n)' = Content(n)
      BY <1>1
    <2>4. CASE alert'[a].status = "DELETED"
      BY <2>4 DEF AlertExists, AlertStatus
    <2>5. CASE alert'[a].status # "DELETED"
      BY <1>1, <2>1, <2>3, <2>5 DEF ContentExact
    <2> QED
      BY <2>4, <2>5
  <1>2. ASSUME NEW n \in Notices, ~HasContent(n)'
        PROVE  Content(n)' = {}
    BY <1>2 DEF HasContent, Content
  <1>3. ContentsApart'
    BY <1>2 DEF FilesInv, ContentsApart
  <1> QED
    BY <1>1, <1>3 DEF FilesInv, ContentsExact

\* What a step on alerts may do to one of them.
AlertsKept ==
    \A a \in Alerts :
        \/ alert'[a] = alert[a]
        \/ alert'[a].status = "DELETED"
        \/ AlertExists(a) /\ AlertExists(a)' /\ alert'[a].noticeId = alert[a].noticeId
        \/ /\ alert[a].status = "UNBORN" /\ alert[a].noticeId = NoNotice
           /\ alert'[a].noticeId = NoNotice

\* Steps that touch neither files nor links.
LEMMA ContentsKeptInPlace ==
    ASSUME FilesInv, interrupted \subseteq interrupted', Stamped', AlertsKept,
           \A n \in Notices \ interrupted' : HasContent(n)' =>
              HasContent(n) /\ Content(n)' = Content(n)
    PROVE  FilesInv'
  <1>1. ASSUME NEW n \in Notices \ interrupted', HasContent(n)', NEW a \in Alerts,
               alert'[a].status # "DELETED"
        PROVE  /\ a \in Content(n) /\ AlertExists(a) => AlertExists(a)'
               /\ a \in Content(n) /\ ~AlertExists(a) => alert'[a] = alert[a]
               /\ (AlertExists(a)' /\ alert'[a].noticeId = n)
                    <=> (AlertExists(a) /\ alert[a].noticeId = n)
    <2>1. n # NoNotice
      BY NoticesAssumption
    <2>2. ContentExact(n)
      BY <1>1 DEF FilesInv, ContentsExact
    <2>3. AlertExists(a) => alert[a].status # "UNBORN"
      BY DEF AlertExists, AlertStatus
    <2>4. alert'[a] = alert[a] => (AlertExists(a)' <=> AlertExists(a))
      BY DEF AlertExists
    <2>5. CASE alert[a].status = "UNBORN" /\ alert[a].noticeId = NoNotice
               /\ alert'[a].noticeId = NoNotice
      BY <2>1, <2>2, <2>3, <2>5 DEF ContentExact
    <2> QED
      BY <1>1, <2>1, <2>2, <2>3, <2>4, <2>5 DEF AlertsKept
  <1> QED
    BY <1>1, ContentsKept

\* The content of n depends on its row's status, its file and its request.
LEMMA ContentLocal ==
    ASSUME NEW n \in Notices, UNCHANGED <<file[n], notice[n].status>>,
           \A w \in Workers : \/ job'[w] = job[w]
                              \/ job[w].n # n /\ job'[w].n # n
    PROVE  (HasContent(n)' <=> HasContent(n)) /\ Content(n)' = Content(n)
  <1>1. /\ Unlinked(n)' <=> Unlinked(n)
        /\ Stored(n)' <=> Stored(n)
        /\ \A w \in Workers : Gathering(w, n)' <=> Gathering(w, n)
        /\ \A w \in Workers : Gathering(w, n) => job'[w] = job[w]
    BY DEF Unlinked, Stored, Gathering
  <1> QED
    BY <1>1 DEF HasContent, Content, FileCounts

\* A statement of the request for n, which creates and deletes no alert row,
\* links alerts to n or unlinks them from it, and unless n has no content
\* afterwards leaves its content and its alerts alone.
LEMMA ContentsKeptByStatement ==
    ASSUME TypeInv, FilesInv, NEW w \in Workers, NEW n \in Notices, job[w].n = n,
           job'[w].n \in {n, NoNotice},
           \A v \in Workers \ {w} : job'[v] = job[v],
           \A m \in Notices \ {n} :
              notice'[m].status = notice[m].status /\ file'[m] = file[m],
           Stamped', UNCHANGED interrupted,
           \A a \in Alerts : (AlertExists(a)' <=> AlertExists(a))
                             /\ (~AlertExists(a) => alert'[a] = alert[a]),
           \A a \in Alerts : \/ alert'[a].noticeId = alert[a].noticeId
                             \/ {alert'[a].noticeId, alert[a].noticeId} = {n, NoNotice},
           HasContent(n)' => /\ HasContent(n) /\ Content(n)' = Content(n)
                             /\ \A a \in Alerts : alert'[a].noticeId = alert[a].noticeId
    PROVE  FilesInv'
  <1>1. ASSUME NEW m \in Notices, m # n
        PROVE  /\ HasContent(m)' <=> HasContent(m)
               /\ Content(m)' = Content(m)
               /\ \A a \in Alerts : alert'[a].noticeId = m <=> alert[a].noticeId = m
    <2>1. m # NoNotice
      BY NoticesAssumption
    <2>2. \A a \in Alerts : alert'[a].noticeId = m <=> alert[a].noticeId = m
      BY <1>1, <2>1
    <2>3. (HasContent(m)' <=> HasContent(m)) /\ Content(m)' = Content(m)
      BY <1>1, <2>1, ContentLocal
    <2> QED
      BY <2>2, <2>3
  <1>2. \A a \in Alerts : ~AlertExists(a) => alert'[a] = alert[a]
    OBVIOUS
  <1> QED
    BY <1>1, <1>2, ContentsKept

-----------------------------------------------------------------------------
(* The content of the notice a request is for, told from that request.     *)

LEMMA OwnContent ==
    ASSUME SerialInv, NEW w \in Workers, NEW n \in Notices, job[w].n = n
    PROVE  /\ FileCounts(n) <=>
                \/ job[w].op = "generate" /\ job[w].at \in {"reread", "notice"}
                \/ /\ notice[n].status \in Published
                   /\ ~(job[w].op = "delete" /\ job[w].at = "notice")
           /\ \A v \in Workers : Gathering(v, n) <=>
                v = w /\ job[w].op = "generate" /\ job[w].at = "put"
  <1>1. \A v \in Workers : job[v].n = n => v = w
    BY NoticesAssumption DEF SerialInv, OneRequest
  <1> QED
    BY <1>1 DEF FileCounts, Stored, Unlinked, Gathering

LEMMA OwnContentNext ==
    ASSUME SerialInv', NEW w \in Workers, NEW n \in Notices, job'[w].n = n
    PROVE  /\ FileCounts(n)' <=>
                \/ job'[w].op = "generate" /\ job'[w].at \in {"reread", "notice"}
                \/ /\ notice'[n].status \in Published
                   /\ ~(job'[w].op = "delete" /\ job'[w].at = "notice")
           /\ \A v \in Workers : Gathering(v, n)' <=>
                v = w /\ job'[w].op = "generate" /\ job'[w].at = "put"
  <1>1. \A v \in Workers : job'[v].n = n => v = w
    BY NoticesAssumption DEF SerialInv, OneRequest
  <1> QED
    BY <1>1 DEF FileCounts, Stored, Unlinked, Gathering

\* After its request, a notice has content if its file counts.
LEMMA RestingContentNext ==
    ASSUME SerialInv, NEW w \in Workers, NEW n \in Notices, job[w].n = n,
           job'[w].n = NoNotice, \A v \in Workers \ {w} : job'[v] = job[v]
    PROVE  /\ FileCounts(n)' <=> notice'[n].status \in Published
           /\ \A v \in Workers : ~Gathering(v, n)'
  <1>1. \A v \in Workers : job'[v].n # n
    BY NoticesAssumption DEF SerialInv, OneRequest
  <1> QED
    BY <1>1 DEF FileCounts, Stored, Unlinked, Gathering

-----------------------------------------------------------------------------
(* Every step keeps the contents.                                          *)

\* Receiving a request.
LEMMA RequestsKeepFiles ==
    ASSUME Overlap = FALSE, TypeInv, SerialInv, FilesInv,
           NEW w \in Workers, Requests(w)
    PROVE  FilesInv'
  <1>1. UNCHANGED <<alert, notice, file, interrupted>>
    BY DEF Requests, StartCreate, StartDelete, StartGenerate, StartSubmit,
       StartAcknowledge, StartRebuke, StartRevert, StartAdd, StartRemove,
       StartPatch, Begin, tables, history
  <1>2. job[w] = Idle /\ Idle.n = NoNotice
    BY DEF Requests, StartCreate, StartDelete, StartGenerate, StartSubmit,
       StartAcknowledge, StartRebuke, StartRevert, StartAdd, StartRemove,
       StartPatch, Begin, Idle
  <1>3. job \in [Workers -> Job]
    BY DEF TypeInv, TypeOK
  <1>4. ASSUME NEW n \in Notices, NEW op \in Op, NEW step \in Step,
               NEW ids \in SUBSET Alerts, NEW to \in NoticeStatus \cup {"UNBORN"},
               Begin(w, n, op, step, ids, to),
               step \notin {"put", "reread"}, step = "notice" => op = "submit" \/ op = "acknowledge" \/ op = "rebuke",
               NEW m \in Notices
        PROVE  (HasContent(m)' <=> HasContent(m)) /\ Content(m)' = Content(m)
    <2>1. /\ job'[w].op = op /\ job'[w].at = step /\ job'[w].n = n
          /\ \A v \in Workers \ {w} : job'[v] = job[v]
      BY <1>4, BeginTyped DEF TypeInv
    <2>2. CASE m # n
      BY <1>1, <1>2, <2>1, <2>2, ContentLocal, NoticesAssumption
    <2>3. CASE m = n
      <3>1. \A v \in Workers : job[v].n # n
        BY <1>4 DEF Begin, Busy
      <3>2. /\ ~Unlinked(n) /\ ~Unlinked(n)' /\ ~Stored(n) /\ ~Stored(n)'
            /\ \A v \in Workers : ~Gathering(v, n) /\ ~Gathering(v, n)'
        BY <1>4, <2>1, <3>1 DEF Unlinked, Stored, Gathering
      <3> QED
        BY <1>1, <2>3, <3>2 DEF HasContent, Content, FileCounts
    <2> QED
      BY <2>2, <2>3
  <1>5. ASSUME NEW m \in Notices
        PROVE  (HasContent(m)' <=> HasContent(m)) /\ Content(m)' = Content(m)
    <2>1. ASSUME NEW a \in Alerts, NEW to \in PatchStatuses, StartPatch(w, a, to)
          PROVE  (HasContent(m)' <=> HasContent(m)) /\ Content(m)' = Content(m)
      <3>1. job'[w].n = NoNotice /\ \A v \in Workers \ {w} : job'[v] = job[v]
        BY <1>3, <2>1 DEF StartPatch, Idle
      <3> QED
        BY <1>1, <1>2, <3>1, ContentLocal, NoticesAssumption
    <2>2. ASSUME NEW n \in Notices, NEW ids \in SUBSET Alerts,
                 \/ StartCreate(w, n, ids)
                 \/ StartDelete(w, n)
                 \/ StartGenerate(w, n)
                 \/ StartSubmit(w, n)
                 \/ StartAcknowledge(w, n)
                 \/ StartRebuke(w, n)
                 \/ StartRevert(w, n)
                 \/ StartAdd(w, n, ids)
                 \/ StartRemove(w, n, ids)
          PROVE  (HasContent(m)' <=> HasContent(m)) /\ Content(m)' = Content(m)
      BY <1>4, <2>2 DEF StartCreate, StartDelete, StartGenerate, StartSubmit,
         StartAcknowledge, StartRebuke, StartRevert, StartAdd, StartRemove,
         Op, Step, NoticeStatus
    <2> QED
      BY <2>1, <2>2 DEF Requests
  <1>6. AlertsKept
    BY <1>1 DEF AlertsKept
  <1>7. Stamped'
    BY <1>1 DEF FilesInv, Stamped
  <1> QED
    BY <1>1, <1>5, <1>6, <1>7, ContentsKeptInPlace

\* Alerts are created, deleted, patched and swept; requests are cut short.
LEMMA OthersKeepFiles ==
    ASSUME TypeInv, LinkInv, SerialInv, FilesInv,
           \/ \E w \in Workers : Crash(w) \/ \E put \in BOOLEAN : WritePatch(w, put)
           \/ \E a \in Alerts : CreateAlert(a) \/ DeadlinePasses(a) \/ DeleteAlert(a)
           \/ ListAlerts
    PROVE  FilesInv'
  <1>t. /\ TypeOK /\ JobsShaped /\ AbsentFree /\ Stamped
        /\ alert \in [Alerts -> AlertRow] /\ job \in [Workers -> Job]
    BY DEF TypeInv, TypeOK, LinkInv, FilesInv
  <1>1. ASSUME NEW w \in Workers, Crash(w)
        PROVE  FilesInv'
    <2>1. /\ job'[w] = Idle /\ \A v \in Workers \ {w} : job'[v] = job[v]
          /\ UNCHANGED <<alert, notice, file>>
      BY <1>t, <1>1, FinishTyped DEF Crash, tables
    <2>2. job'[w].n = NoNotice
      BY <2>1 DEF Idle
    <2>3. ASSUME NEW n \in Notices \ interrupted', HasContent(n)'
          PROVE  HasContent(n) /\ Content(n)' = Content(n)
      <3>1. CASE job[w].n = n
        <4>1. ~NoticeExists(n)
          BY <1>1, <2>3, <3>1 DEF Crash
        <4>2. ~HasContent(n)'
          BY <2>1, <2>2, <3>1, <4>1, RestingContentNext
             DEF HasContent, NoticeExists, NoticeStatus, Published, Filed
        <4> QED
          BY <2>3, <4>2
      <3>2. CASE job[w].n # n
        BY <2>1, <2>2, <2>3, <3>2, ContentLocal, NoticesAssumption
      <3> QED
        BY <3>1, <3>2
    <2>4. interrupted \subseteq interrupted'
      BY <1>1 DEF Crash
    <2> QED
      BY <1>t, <2>1, <2>3, <2>4, ContentsKeptInPlace DEF AlertsKept, Stamped
  <1>2. ASSUME NEW w \in Workers, NEW put \in BOOLEAN, WritePatch(w, put)
        PROVE  FilesInv'
    <2>1. /\ job'[w].n = NoNotice /\ \A v \in Workers \ {w} : job'[v] = job[v]
          /\ UNCHANGED <<notice, file, interrupted>>
      <3>1. Finish(w) /\ UNCHANGED <<notice, file, interrupted>>
        BY <1>2 DEF WritePatch, history
      <3> QED
        BY <1>t, <3>1, FinishTyped DEF Idle
    <2>2. job[w].op = "patch"
      BY <1>2 DEF WritePatch, At
    <2>3. job[w].n = NoNotice
      BY <1>t, <2>2 DEF JobsShaped, JobShape, Idle
    <2>4. \A n \in Notices : (HasContent(n)' <=> HasContent(n)) /\ Content(n)' = Content(n)
      BY <2>1, <2>3, ContentLocal, NoticesAssumption
    <2>5. \A a \in Alerts : ~AlertExists(a) => alert'[a] = alert[a]
      BY <1>2 DEF WritePatch
    <2>6. AlertsKept
      BY <1>t, <1>2, <2>5, WritePatchTyped DEF AlertsKept, AlertExists
    <2> QED
      BY <1>t, <2>1, <2>4, <2>6, ContentsKeptInPlace DEF Stamped
  <1>3. ASSUME UNCHANGED <<notice, file, job, interrupted>>, AlertsKept
        PROVE  FilesInv'
    <2>1. \A n \in Notices : (HasContent(n)' <=> HasContent(n)) /\ Content(n)' = Content(n)
      BY <1>3, ContentLocal
    <2> QED
      BY <1>t, <1>3, <2>1, ContentsKeptInPlace DEF Stamped
  <1>4. ASSUME NEW a \in Alerts, CreateAlert(a)
        PROVE  FilesInv'
    <2>1. AlertsKept
      BY <1>t, <1>4 DEF AlertsKept, CreateAlert, AlertWith, AbsentFree, AlertExists, AlertStatus
    <2> QED
      BY <1>3, <1>4, <2>1 DEF CreateAlert, history
  <1>5. ASSUME NEW a \in Alerts, DeleteAlert(a)
        PROVE  FilesInv'
    <2>1. AlertsKept
      BY <1>t, <1>5 DEF AlertsKept, DeleteAlert, AlertWith
    <2> QED
      BY <1>3, <1>5, <2>1 DEF DeleteAlert, history
  <1>6. ASSUME NEW a \in Alerts, DeadlinePasses(a)
        PROVE  FilesInv'
    BY <1>3, <1>6 DEF DeadlinePasses, tables, AlertsKept
  <1>7. ASSUME ListAlerts
        PROVE  FilesInv'
    <2>1. PICK late \in SUBSET Alerts :
             /\ \A a \in late : AlertExists(a)
             /\ alert' = [a \in Alerts |->
                  IF a \in late THEN [alert[a] EXCEPT !.status = "OVERDUE", !.isOverdue = TRUE]
                                ELSE alert[a]]
      <3> DEFINE late == {a \in past : /\ Open(a)
                                      /\ alert[a].status # "OVERDUE"
                                      /\ ~alert[a].isOverdue}
      <3>1. alert' = [a \in Alerts |->
                  IF a \in late \cap Alerts
                  THEN [alert[a] EXCEPT !.status = "OVERDUE", !.isOverdue = TRUE]
                  ELSE alert[a]]
        BY <1>7 DEF ListAlerts
      <3>2. \A a \in late \cap Alerts : AlertExists(a)
        BY DEF Open
      <3> QED
        BY <3>1, <3>2
    <2>2. AlertsKept
      BY <1>t, <2>1 DEF AlertsKept, AlertExists, AlertRow, AlertStatus
    <2> QED
      BY <1>3, <1>7, <2>2 DEF ListAlerts, history
  <1> QED
    BY <1>1, <1>2, <1>4, <1>5, <1>6, <1>7

\* The statements of the request for a notice, the deciding ones first.
LEMMA StatementsKeepFiles ==
    ASSUME Overlap = FALSE, TypeInv, LinkInv, SerialInv, SerialInv', FilesInv,
           NEW w \in Workers, Statements(w), NEW n \in Notices, job[w].n = n
    PROVE  FilesInv'
  <1> DEFINE j == job[w]
  <1>t. /\ TypeOK /\ JobShape(j) /\ j \in Job /\ CheckHolds(j) /\ Stamped
        /\ alert \in [Alerts -> AlertRow] /\ notice \in [Notices -> NoticeRow]
        /\ file \in [Notices -> SUBSET Alerts] /\ job \in [Workers -> Job]
    BY DEF TypeInv, TypeOK, JobsShaped, SerialInv, ChecksHold, FilesInv
  <1>k. ASSUME n \in Notices, ~HasContent(n)',
               job'[w].n \in {n, NoNotice},
               \A v \in Workers \ {w} : job'[v] = job[v],
               \A m \in Notices \ {n} :
                  notice'[m].status = notice[m].status /\ file'[m] = file[m],
               Stamped', UNCHANGED interrupted,
               \A a \in Alerts : (AlertExists(a)' <=> AlertExists(a))
                                 /\ (~AlertExists(a) => alert'[a] = alert[a]),
               \A a \in Alerts : \/ alert'[a].noticeId = alert[a].noticeId
                                 \/ {alert'[a].noticeId, alert[a].noticeId} = {n, NoNotice}
        PROVE  FilesInv'
    BY <1>k, ContentsKeptByStatement
  \* Statements that end without content, on alerts or on the row.
  <1>1. CASE InsertNotice(w) \/ SetRecordCount(w) \/ ShiftRecordCount(w) \/ ReopenNotice(w)
    <2>1. /\ n \in Notices /\ j.op \in {"create", "add", "remove", "revert"}
          /\ UNCHANGED <<alert, file, interrupted>>
      <3>1. /\ j.op \in {"create", "add", "remove", "revert"}
            /\ UNCHANGED <<alert, file, interrupted>>
        BY <1>1 DEF InsertNotice, SetRecordCount, ShiftRecordCount, ReopenNotice, At, history
      <3> QED
        BY <1>t, <3>1 DEF JobShape, Idle
    <2>3. /\ job'[w].n = n /\ job'[w].op = j.op
          /\ \A v \in Workers \ {w} : job'[v] = job[v]
      <3>1. CASE InsertNotice(w) \/ SetRecordCount(w) \/ ShiftRecordCount(w)
        <4>1. PICK step \in {"alerts", "log"} : Continue(w, step)
          BY <3>1 DEF InsertNotice, SetRecordCount, ShiftRecordCount
        <4> QED
          BY <1>t, <4>1, ContinueTyped DEF Step
      <3>2. CASE ReopenNotice(w)
        <4>1. job' = [job EXCEPT ![w] = [j EXCEPT !.at = "log", !.cycle = notice[n].cycle + 1]]
          BY <3>2 DEF ReopenNotice
        <4> QED
          BY <1>t, <4>1 DEF Job
      <3> QED
        BY <1>1, <3>1, <3>2
    <2>4. /\ notice'[n].status = "DRAFT"
          /\ \A m \in Notices \ {n} : notice'[m] = notice[m]
      <3>1. CASE InsertNotice(w)
        BY <1>t, <2>1, <3>1 DEF InsertNotice, NoticeWith
      <3>2. CASE SetRecordCount(w) \/ ShiftRecordCount(w)
        <4>1. notice[n].status = "DRAFT"
          BY <1>t, <3>2 DEF SetRecordCount, ShiftRecordCount, At, CheckHolds
        <4> QED
          BY <1>t, <2>1, <3>2, <4>1 DEF SetRecordCount, ShiftRecordCount, NoticeRow
      <3>3. CASE ReopenNotice(w)
        BY <1>t, <2>1, <3>3 DEF ReopenNotice, NoticeRow
      <3> QED
        BY <1>1, <3>1, <3>2, <3>3
    <2>5. ~HasContent(n)'
      BY <2>1, <2>3, <2>4, OwnContentNext DEF HasContent, Published, Filed
    <2>6. Stamped'
      BY <1>t, <2>1, <2>4 DEF Stamped, Published, Filed
    <2> QED
      BY <1>k, <2>1, <2>3, <2>4, <2>5, <2>6 DEF AlertExists
  <1>2. CASE AssignAlerts(w) \/ AddAlerts(w) \/ RemoveAlerts(w) \/ UnlinkAlerts(w)
    <2>1. /\ n \in Notices /\ UNCHANGED <<notice, file, interrupted>>
          /\ j.op \in {"create", "add", "remove", "delete"} /\ j.at = "alerts"
      <3>1. /\ j.op \in {"create", "add", "remove", "delete"} /\ j.at = "alerts"
            /\ UNCHANGED <<notice, file, interrupted>>
        BY <1>2 DEF AssignAlerts, AddAlerts, RemoveAlerts, UnlinkAlerts, At, history
      <3> QED
        BY <1>t, <3>1 DEF JobShape, Idle
    <2>2. /\ \/ job'[w].n = n /\ job'[w].op = j.op
             \/ job'[w].n = NoNotice
          /\ \A v \in Workers \ {w} : job'[v] = job[v]
          /\ j.op = "delete" => job'[w].n = n /\ job'[w].at = "notice"
      <3>1. CASE UnlinkAlerts(w)
        BY <1>t, <3>1, ContinueTyped DEF UnlinkAlerts, Step
      <3>2. CASE AssignAlerts(w) \/ AddAlerts(w) \/ RemoveAlerts(w)
        <4>1. j.op # "delete"
          BY <3>2 DEF AssignAlerts, AddAlerts, RemoveAlerts, At
        <4>2. Finish(w) \/ \E c : job' = [job EXCEPT ![w].at = "count", ![w].ids = {},
                                                    ![w].count = c]
          BY <3>2 DEF AssignAlerts, AddAlerts, RemoveAlerts
        <4>3. CASE Finish(w)
          BY <1>t, <4>1, <4>3, FinishTyped DEF Idle
        <4>4. CASE \E c : job' = [job EXCEPT ![w].at = "count", ![w].ids = {},
                                            ![w].count = c]
          BY <1>t, <4>1, <4>4 DEF Job
        <4> QED
          BY <4>2, <4>3, <4>4
      <3> QED
        BY <1>2, <3>1, <3>2
    <2>3. ~HasContent(n)'
      <3>1. CASE j.op = "delete"
        BY <2>1, <2>2, <3>1, OwnContentNext, NoticesAssumption DEF HasContent
      <3>2. CASE j.op # "delete"
        <4>1. notice'[n].status = "DRAFT"
          BY <1>t, <2>1, <3>2 DEF CheckHolds
        <4>2. CASE job'[w].n = n
          BY <2>1, <2>2, <3>2, <4>1, <4>2, OwnContentNext, NoticesAssumption
             DEF HasContent, Published, Filed
        <4>3. CASE job'[w].n = NoNotice
          BY <2>1, <2>2, <4>1, <4>3, RestingContentNext DEF HasContent, Published, Filed
        <4> QED
          BY <2>2, <4>2, <4>3
      <3> QED
        BY <3>1, <3>2
    <2>4. /\ \A a \in Alerts : (AlertExists(a)' <=> AlertExists(a))
                                /\ (~AlertExists(a) => alert'[a] = alert[a])
          /\ \A a \in Alerts : \/ alert'[a].noticeId = alert[a].noticeId
                                \/ {alert'[a].noticeId, alert[a].noticeId} = {n, NoNotice}
      <3>1. CASE AssignAlerts(w) \/ AddAlerts(w)
        <4> DEFINE taken == IF NoticeExists(n) THEN Assignable(j.ids) ELSE {}
        <4>1. SetNoticeId(taken, n)
          BY <3>1 DEF AssignAlerts, AddAlerts
        <4>2. \A a \in taken : AlertExists(a) /\ alert[a].noticeId = NoNotice
          BY DEF Assignable, Open
        <4> HIDE DEF taken
        <4> QED
          BY <1>t, <2>1, <4>1, <4>2, SetNoticeIdTyped DEF AlertExists
      <3>2. CASE UnlinkAlerts(w)
        <4>1. SetNoticeId(Linked(n), NoNotice)
          BY <3>2 DEF UnlinkAlerts
        <4> QED
          BY <1>t, <4>1, SetNoticeIdTyped DEF AlertExists, Linked
      <3>3. CASE RemoveAlerts(w)
        <4>1. alert' = [a \in Alerts |->
                 IF a \in j.ids \cap Linked(n)
                 THEN [alert[a] EXCEPT !.noticeId = NoNotice, !.status = "DETECTED"]
                 ELSE alert[a]]
          BY <3>3 DEF RemoveAlerts
        <4> QED
          BY <1>t, <4>1 DEF AlertExists, Linked, AlertRow, AlertStatus
      <3> QED
        BY <1>2, <3>1, <3>2, <3>3
    <2>5. Stamped'
      BY <1>t, <2>1 DEF Stamped
    <2> QED
      BY <1>k, <2>1, <2>2, <2>3, <2>4, <2>5
  <1>3. CASE DeleteNotice(w)
    <2>1. n \in Notices /\ UNCHANGED interrupted /\ SetNoticeId(Linked(n), NoNotice)
      <3>1. j.op = "delete" /\ UNCHANGED interrupted /\ SetNoticeId(Linked(n), NoNotice)
        BY <1>3 DEF DeleteNotice, At, history
      <3> QED
        BY <1>t, <3>1 DEF JobShape, Idle
    <2>2. job'[w].n = NoNotice /\ \A v \in Workers \ {w} : job'[v] = job[v]
      BY <1>t, <1>3, FinishTyped DEF DeleteNotice, Idle
    <2>3. /\ notice'[n].status = "DELETED"
          /\ \A m \in Notices \ {n} : notice'[m] = notice[m] /\ file'[m] = file[m]
      BY <1>t, <1>3, <2>1 DEF DeleteNotice, NoticeWith
    <2>4. ~HasContent(n)'
      BY <2>1, <2>2, <2>3, RestingContentNext DEF HasContent, Published, Filed
    <2>5. /\ \A a \in Alerts : (AlertExists(a)' <=> AlertExists(a))
                                /\ (~AlertExists(a) => alert'[a] = alert[a])
          /\ \A a \in Alerts : \/ alert'[a].noticeId = alert[a].noticeId
                                \/ {alert'[a].noticeId, alert[a].noticeId} = {n, NoNotice}
      BY <1>t, <2>1, SetNoticeIdTyped DEF AlertExists, Linked
    <2>6. Stamped'
      BY <1>t, <2>3 DEF Stamped, Published, Filed
    <2> QED
      BY <1>k, <2>1, <2>2, <2>3, <2>4, <2>5, <2>6
  \* The notice gets its content from the alerts it holds.
  <1>4. CASE SnapshotAlerts(w)
    <2> DEFINE content == Linked(n) \cap Reportable
    <2>1. /\ n \in Notices /\ UNCHANGED <<alert, notice, file, interrupted>>
          /\ j.op = "generate" /\ j.at = "snapshot" /\ notice[n].status = "DRAFT"
      <3>1. /\ UNCHANGED <<alert, notice, file, interrupted>>
            /\ j.op = "generate" /\ j.at = "snapshot"
        BY <1>4 DEF SnapshotAlerts, At, tables, history
      <3> QED
        BY <1>t, <3>1 DEF JobShape, Idle, CheckHolds
    <2>2. CASE Finish(w)
      <3>1. job'[w].n = NoNotice /\ \A v \in Workers \ {w} : job'[v] = job[v]
        BY <1>t, <2>2, FinishTyped DEF Idle
      <3>2. ~HasContent(n)'
        BY <2>1, <3>1, RestingContentNext DEF HasContent, Published, Filed
      <3> QED
        BY <1>k, <1>t, <2>1, <3>1, <3>2 DEF AlertExists, Stamped
    <2>3. CASE job' = [job EXCEPT ![w].at = "put", ![w].ids = content]
      <3>1. /\ job'[w].n = n /\ job'[w].op = "generate" /\ job'[w].at = "put"
            /\ job'[w].ids = content /\ \A v \in Workers \ {w} : job'[v] = job[v]
        BY <1>t, <2>1, <2>3 DEF Job
      <3>2. /\ ~FileCounts(n)'
            /\ \A v \in Workers : Gathering(v, n)' <=> v = w
        BY <2>1, <3>1, OwnContentNext DEF Published, Filed
      <3>3. Content(n)' = content
        BY <3>1, <3>2 DEF Content, Linked
      <3>4. \A a \in Alerts : a \in content <=>
               AlertExists(a) /\ alert[a].noticeId = n /\ a \in Reportable
        BY DEF Linked
      <3>5. ContentExact(n)'
        BY <2>1, <3>3, <3>4 DEF ContentExact, AlertExists
      <3>6. ASSUME NEW m \in Notices, m # n
            PROVE  (HasContent(m)' <=> HasContent(m)) /\ Content(m)' = Content(m)
        BY <2>1, <3>1, <3>6, ContentLocal
      <3>7. ASSUME NEW m \in Notices \ interrupted, m # n
            PROVE  Content(m) \cap content = {}
        <4>1. CASE ~HasContent(m)
          BY <4>1 DEF HasContent, Content
        <4>2. CASE HasContent(m)
          <5>1. ContentExact(m)
            BY <3>7, <4>2 DEF FilesInv, ContentsExact
          <5> QED
            BY <3>4, <3>7, <5>1 DEF ContentExact, Linked
        <4> QED
          BY <4>1, <4>2
      <3>8. ContentsExact'
        <4>1. ASSUME NEW m \in Notices \ interrupted', HasContent(m)', m # n
              PROVE  ContentExact(m)'
          <5>1. ContentExact(m)
            BY <2>1, <3>6, <4>1 DEF FilesInv, ContentsExact
          <5> QED
            BY <2>1, <3>6, <4>1, <5>1 DEF ContentExact, AlertExists
        <4> QED
          BY <3>5, <4>1 DEF ContentsExact
      <3>9. ContentsApart'
        BY <2>1, <3>3, <3>6, <3>7 DEF FilesInv, ContentsApart
      <3> QED
        BY <1>t, <2>1, <3>8, <3>9 DEF FilesInv, Stamped
    <2> QED
      BY <1>4, <2>2, <2>3 DEF SnapshotAlerts
  \* Statements that carry the content along, leaving the links alone.
  <1>c. ASSUME n \in Notices, HasContent(n)' => HasContent(n) /\ Content(n)' = Content(n),
               job'[w].n \in {n, NoNotice},
               \A v \in Workers \ {w} : job'[v] = job[v],
               \A m \in Notices \ {n} :
                  notice'[m].status = notice[m].status /\ file'[m] = file[m],
               Stamped', UNCHANGED interrupted,
               \A a \in Alerts : (AlertExists(a)' <=> AlertExists(a))
                                 /\ (~AlertExists(a) => alert'[a] = alert[a])
                                 /\ alert'[a].noticeId = alert[a].noticeId
        PROVE  FilesInv'
    BY <1>c, ContentsKeptByStatement
  <1>5. CASE PutFile(w)
    <2>1. /\ n \in Notices /\ UNCHANGED <<alert, notice, interrupted>>
          /\ j.op = "generate" /\ j.at = "put" /\ notice[n].status = "DRAFT"
          /\ j.ids \in SUBSET Alerts
      <3>1. /\ UNCHANGED <<alert, notice, interrupted>>
            /\ j.op = "generate" /\ j.at = "put"
        BY <1>5 DEF PutFile, At, history
      <3> QED
        BY <1>t, <3>1 DEF JobShape, Idle, CheckHolds, Job
    <2>2. /\ job'[w].n = n /\ job'[w].op = "generate" /\ job'[w].at = "reread"
          /\ \A v \in Workers \ {w} : job'[v] = job[v]
      <3>1. job' = [job EXCEPT ![w] = [j EXCEPT !.at = "reread", !.ids = {}]]
        BY <1>5 DEF PutFile
      <3> QED
        BY <1>t, <2>1, <3>1 DEF Job
    <2>3. file'[n] = j.ids /\ \A m \in Notices \ {n} : file'[m] = file[m]
      BY <1>t, <1>5, <2>1 DEF PutFile
    <2>4. HasContent(n) /\ Content(n) = j.ids
      <3>1. ~FileCounts(n) /\ \A v \in Workers : Gathering(v, n) <=> v = w
        BY <2>1, OwnContent DEF Published, Filed
      <3> QED
        BY <2>1, <3>1 DEF HasContent, Content
    <2>5. Content(n)' = j.ids
      <3>1. FileCounts(n)' /\ \A v \in Workers : ~Gathering(v, n)'
        BY <2>1, <2>2, OwnContentNext
      <3> QED
        BY <2>1, <2>3, <3>1 DEF Content
    <2> QED
      BY <1>c, <1>t, <2>1, <2>2, <2>3, <2>4, <2>5 DEF AlertExists, Stamped
  <1>6. CASE RereadNotice(w)
    <2>1. /\ n \in Notices /\ UNCHANGED <<alert, notice, file, interrupted>>
          /\ j.op = "generate" /\ j.at = "reread"
      <3>1. /\ UNCHANGED <<alert, notice, file, interrupted>>
            /\ j.op = "generate" /\ j.at = "reread"
        BY <1>6 DEF RereadNotice, At, tables, history
      <3> QED
        BY <1>t, <3>1 DEF JobShape, Idle
    <2>2. /\ job'[w].n = n /\ job'[w].op = "generate" /\ job'[w].at = "notice"
          /\ \A v \in Workers \ {w} : job'[v] = job[v]
      <3>1. job' = [job EXCEPT ![w] = [j EXCEPT !.at = "notice", !.cycle = notice[n].cycle]]
        BY <1>6 DEF RereadNotice
      <3> QED
        BY <1>t, <2>1, <3>1 DEF Job
    <2>3. /\ FileCounts(n) /\ FileCounts(n)'
          /\ \A v \in Workers : ~Gathering(v, n) /\ ~Gathering(v, n)'
      BY <2>1, <2>2, OwnContent, OwnContentNext
    <2> QED
      BY <1>c, <1>t, <2>1, <2>2, <2>3 DEF HasContent, Content, AlertExists, Stamped
  <1>7. CASE WriteStatus(w)
    <2>1. /\ n \in Notices /\ UNCHANGED <<alert, file, interrupted>> /\ j.at = "notice"
          /\ j.op \in {"generate", "submit", "acknowledge", "rebuke"}
      <3>1. /\ UNCHANGED <<alert, file, interrupted>> /\ j.at = "notice"
            /\ j.op \in {"generate", "submit", "acknowledge", "rebuke"}
        BY <1>7 DEF WriteStatus, At, history
      <3> QED
        BY <1>t, <3>1 DEF JobShape, Idle
    <2>2. /\ job'[w].n = n /\ job'[w].op = j.op /\ job'[w].at \in {"alerts", "log"}
          /\ \A v \in Workers \ {w} : job'[v] = job[v]
      <3>1. PICK step \in {"alerts", "log"} : Continue(w, step)
        BY <1>7 DEF WriteStatus
      <3> QED
        BY <1>t, <3>1, ContinueTyped DEF Step
    <2>3. /\ notice'[n].status = j.to
          /\ notice'[n].xml = (notice[n].xml \/ j.op = "generate")
          /\ \A m \in Notices \ {n} : notice'[m] = notice[m]
      BY <1>t, <1>7, <2>1 DEF WriteStatus, NoticeRow
    <2>4. j.to \in Published /\ (j.op = "generate" \/ notice[n].status \in Published)
      BY <1>t, <2>1 DEF JobShape, Idle, CheckHolds, Published, Filed
    <2>5. /\ FileCounts(n) /\ FileCounts(n)'
          /\ \A v \in Workers : ~Gathering(v, n) /\ ~Gathering(v, n)'
      BY <2>1, <2>2, <2>3, <2>4, OwnContent, OwnContentNext
    <2>6. Stamped'
      BY <1>t, <2>1, <2>3, <2>4 DEF Stamped
    <2> QED
      BY <1>c, <2>1, <2>2, <2>3, <2>5, <2>6 DEF HasContent, Content, AlertExists
  <1>8. CASE MarkAlertsGenerated(w) \/ MarkAlertsSubmitted(w) \/ ResetAlerts(w)
    <2>1. /\ n \in Notices /\ UNCHANGED <<notice, file, interrupted>> /\ j.at = "alerts"
          /\ j.op \in {"generate", "submit", "revert"}
      <3>1. /\ UNCHANGED <<notice, file, interrupted>> /\ j.at = "alerts"
            /\ j.op \in {"generate", "submit", "revert"}
        BY <1>8 DEF MarkAlertsGenerated, MarkAlertsSubmitted, ResetAlerts, At, history
      <3> QED
        BY <1>t, <3>1 DEF JobShape, Idle
    <2>2. /\ job'[w].n = n /\ job'[w].op = j.op
          /\ j.op \in {"generate"} => job'[w].at = "log"
          /\ \A v \in Workers \ {w} : job'[v] = job[v]
      <3>1. PICK step \in {"log", "notice"} :
               Continue(w, step) /\ (j.op = "generate" => step = "log")
        BY <1>8 DEF MarkAlertsGenerated, MarkAlertsSubmitted, ResetAlerts, At
      <3> QED
        BY <1>t, <3>1, ContinueTyped DEF Step
    <2>3. notice[n].status \in Published
      BY <1>t, <2>1 DEF CheckHolds, Published, Filed
    <2>4. /\ FileCounts(n) /\ FileCounts(n)'
          /\ \A v \in Workers : ~Gathering(v, n) /\ ~Gathering(v, n)'
      BY <2>1, <2>2, <2>3, OwnContent, OwnContentNext
    <2>5. PICK S \in SUBSET Alerts, st \in AlertStatus :
             SetAlertStatus(S, st) /\ \A a \in S : AlertExists(a)
      BY <1>8 DEF MarkAlertsGenerated, MarkAlertsSubmitted, ResetAlerts, AlertStatus, Linked
    <2>6. \A a \in Alerts : (AlertExists(a)' <=> AlertExists(a))
                            /\ (~AlertExists(a) => alert'[a] = alert[a])
                            /\ alert'[a].noticeId = alert[a].noticeId
      BY <1>t, <2>5, SetAlertStatusTyped DEF AlertExists
    <2> QED
      BY <1>c, <1>t, <2>1, <2>2, <2>4, <2>6 DEF HasContent, Content, Stamped
  <1>9. CASE LogEvent(w) \/ RowGone(w)
    <2>1. /\ n \in Notices /\ UNCHANGED <<alert, notice, file, interrupted>> /\ Finish(w)
          /\ (LogEvent(w) => j.at = "log")
          /\ (RowGone(w) => notice[n].status \notin Published)
      <3>1. n \in Notices
        BY <1>t, <1>9, NoticesAssumption DEF LogEvent, RowGone, JobShape, Idle
      <3> QED
        BY <1>9, <3>1 DEF LogEvent, RowGone, tables, history, NoticeExists, NoticeStatus,
           Published, Filed
    <2>2. job'[w].n = NoNotice /\ \A v \in Workers \ {w} : job'[v] = job[v]
      BY <1>t, <2>1, FinishTyped DEF Idle
    <2>3. /\ FileCounts(n)' <=> notice[n].status \in Published
          /\ \A v \in Workers : ~Gathering(v, n)'
      BY <2>1, <2>2, RestingContentNext
    <2>4. CASE LogEvent(w)
      <3>1. /\ FileCounts(n) <=> notice[n].status \in Published
            /\ \A v \in Workers : ~Gathering(v, n)
        BY <2>1, <2>4, OwnContent
      <3> QED
        BY <1>c, <1>t, <2>1, <2>2, <2>3, <3>1 DEF HasContent, Content, AlertExists, Stamped
    <2>5. CASE RowGone(w)
      <3>1. ~HasContent(n)'
        BY <2>1, <2>3, <2>5 DEF HasContent
      <3> QED
        BY <1>k, <1>t, <2>1, <2>2, <3>1 DEF AlertExists, Stamped
    <2> QED
      BY <1>9, <2>4, <2>5
  <1>10. CASE \E put \in BOOLEAN : WritePatch(w, put)
    BY <1>10, OthersKeepFiles
  <1> QED
    BY <1>1, <1>2, <1>3, <1>4, <1>5, <1>6, <1>7, <1>8, <1>9, <1>10 DEF Statements

\* In every run without two requests for one notice the contents are exact.
LEMMA FilesCorrect ==
    ASSUME Overlap = FALSE
    PROVE  Spec => [](TypeInv /\ SerialInv /\ FilesInv)
  <1>1. Init => FilesInv
    <2>1. ASSUME Init, NEW n \in Notices
          PROVE  ~HasContent(n) /\ Content(n) = {}
      <3>1. notice[n].status = "UNBORN" /\ \A w \in Workers : job[w].op = "idle"
        BY <2>1 DEF Init, NoticeWith, Idle
      <3> QED
        BY <3>1 DEF HasContent, Content, FileCounts, Stored, Gathering, Published, Filed
    <2>2. Init => Stamped
      BY DEF Init, Stamped, NoticeWith, Published, Filed
    <2> QED
      BY <2>1, <2>2 DEF FilesInv, ContentsExact, ContentsApart
  <1>2. /\ TypeInv /\ LinkInv /\ SerialInv /\ FilesInv
        /\ [Next]_vars /\ SerialInv'
        => FilesInv'
    <2> SUFFICES ASSUME TypeInv, LinkInv, SerialInv, FilesInv, [Next]_vars, SerialInv'
                 PROVE  FilesInv'
      OBVIOUS
    <2>1. CASE UNCHANGED vars
      BY <2>1 DEF vars, FilesInv, ContentsExact, ContentsApart, Stamped, ContentExact,
         HasContent, Content, FileCounts, Stored, Unlinked, Gathering, AlertExists
    <2>2. ASSUME NEW w \in Workers, Statements(w)
          PROVE  FilesInv'
      <3>1. CASE job[w].n \in Notices
        BY <2>2, <3>1, StatementsKeepFiles
      <3>2. CASE job[w].n \notin Notices
        <4>1. job[w].op \in {"idle", "patch"} /\ job[w].at \in {"done", "patch"}
          BY <3>2 DEF TypeInv, JobsShaped, JobShape, Idle
        <4>2. \E put \in BOOLEAN : WritePatch(w, put)
          BY <2>2, <4>1 DEF Statements, InsertNotice, AssignAlerts, SetRecordCount,
             UnlinkAlerts, DeleteNotice, SnapshotAlerts, PutFile, RereadNotice,
             WriteStatus, MarkAlertsGenerated, MarkAlertsSubmitted, ResetAlerts,
             ReopenNotice, AddAlerts, RemoveAlerts, ShiftRecordCount, RowGone,
             LogEvent, At
        <4> QED
          BY <4>2, OthersKeepFiles
      <3> QED
        BY <3>1, <3>2
    <2> QED
      BY <2>1, <2>2, RequestsKeepFiles, OthersKeepFiles DEF Next
  <1> QED
    BY <1>1, <1>2, SerialCorrect, PTL DEF Spec

\* The XML of a settled notice reports exactly the reportable alerts it holds.
THEOREM FilesMatch ==
    ASSUME Overlap = FALSE
    PROVE  Spec => []FileMatchesLinks
  <1>1. TypeInv /\ SerialInv /\ FilesInv => FileMatchesLinks
    <2> SUFFICES ASSUME TypeInv, SerialInv, FilesInv, NEW n \in Notices, Settled(n),
                        notice[n].status # "DRAFT"
                 PROVE  /\ notice[n].xml
                        /\ {a \in file[n] : AlertExists(a)} = Linked(n) \cap Reportable
      BY DEF FileMatchesLinks
    <2>1. notice[n].status \in Published /\ n \notin interrupted
      BY DEF Settled, NoticeExists, NoticeStatus, Published, Filed
    <2>2. \A w \in Workers : job[w].n # n
      BY DEF Settled, Busy
    <2>3. file[n] \subseteq Alerts
      BY DEF TypeInv, TypeOK
    <2>4. HasContent(n) /\ Content(n) = file[n]
      BY <2>1, <2>2, <2>3 DEF HasContent, Content, FileCounts, Stored, Unlinked, Gathering
    <2>5. ContentExact(n)
      BY <2>1, <2>4 DEF FilesInv, ContentsExact
    <2> QED
      BY <2>1, <2>3, <2>4, <2>5 DEF FilesInv, Stamped, ContentExact, Linked
  <1> QED
    BY <1>1, FilesCorrect, PTL

\* No alert is in the XML of two notices filed with the SAT.
THEOREM NeverReportedTwice ==
    ASSUME Overlap = FALSE
    PROVE  Spec => []NoDoubleReport
  <1>1. TypeInv /\ SerialInv /\ FilesInv => NoDoubleReport
    <2> SUFFICES ASSUME TypeInv, SerialInv, FilesInv,
                        NEW m \in Notices \ interrupted, NEW n \in Notices \ interrupted,
                        m # n, notice[m].status \in Filed, notice[n].status \in Filed
                 PROVE  file[m] \cap file[n] = {}
      BY DEF NoDoubleReport
    <2>1. ASSUME NEW k \in Notices, notice[k].status \in Filed
          PROVE  file[k] \subseteq Content(k)
      <3>1. ~Unlinked(k)
        BY <2>1 DEF Unlinked, SerialInv, ChecksHold, CheckHolds, Filed
      <3>2. file[k] \subseteq Alerts
        BY DEF TypeInv, TypeOK
      <3> QED
        BY <2>1, <3>1, <3>2 DEF Content, FileCounts, Published
    <2>2. Content(m) \cap Content(n) = {}
      BY DEF FilesInv, ContentsApart
    <2> QED
      BY <2>1, <2>2
  <1> QED
    BY <1>1, FilesCorrect, PTL

-----------------------------------------------------------------------------
(* What a step does to one notice: its own request's statement, or a step  *)
(* elsewhere.                                                              *)

\* The request of w goes on to another statement, or ends.
Goes(w, at) ==
    /\ job'[w].n = job[w].n /\ job'[w].op = job[w].op /\ job'[w].to = job[w].to
    /\ job'[w].at = at
Ends(w) == job'[w].n = NoNotice

Same(n) == notice'[n] = notice[n] /\ trail'[n] = trail[n] /\ file'[n] = file[n]

\* Statements that write the row of n.
RowInserted(w, n) ==
    /\ InsertNotice(w) /\ At(w, {"create"}, "insert")
    /\ notice'[n] = NoticeWith("DRAFT") /\ trail'[n] = trail[n] /\ file'[n] = file[n]
    /\ Goes(w, "log") \/ Goes(w, "alerts")
    /\ job'[w].cycle = job[w].cycle
CountSet(w, n) ==
    /\ SetRecordCount(w) /\ At(w, {"create"}, "count")
    /\ notice'[n] = [notice[n] EXCEPT !.recordCount = job[w].count]
    /\ trail'[n] = trail[n] /\ file'[n] = file[n]
    /\ Goes(w, "log") /\ job'[w].cycle = job[w].cycle
CountShifted(w, n) ==
    /\ ShiftRecordCount(w) /\ At(w, {"add", "remove"}, "count")
    /\ notice'[n] = [notice[n] EXCEPT !.recordCount =
                       IF job[w].op = "add" THEN @ + job[w].count ELSE @ - job[w].count]
    /\ trail'[n] = trail[n] /\ file'[n] = file[n]
    /\ Goes(w, "log") /\ job'[w].cycle = job[w].cycle
StatusWritten(w, n) ==
    /\ WriteStatus(w) /\ At(w, {"generate", "submit", "acknowledge", "rebuke"}, "notice")
    /\ notice'[n] = [notice[n] EXCEPT !.status = job[w].to,
                                      !.xml = @ \/ job[w].op = "generate"]
    /\ trail'[n] = trail[n] /\ file'[n] = file[n]
    /\ Goes(w, IF job[w].op \in {"generate", "submit"} THEN "alerts" ELSE "log")
    /\ job'[w].cycle = job[w].cycle
RowReopened(w, n) ==
    /\ ReopenNotice(w) /\ At(w, {"revert"}, "notice")
    /\ notice'[n] = [notice[n] EXCEPT !.status = "DRAFT", !.xml = FALSE, !.cycle = @ + 1]
    /\ trail'[n] = trail[n] /\ file'[n] = file[n]
    /\ Goes(w, "log") /\ job'[w].cycle = notice[n].cycle + 1
OwnRow(w, n) ==
    \/ RowInserted(w, n) \/ CountSet(w, n) \/ CountShifted(w, n)
    \/ StatusWritten(w, n) \/ RowReopened(w, n)

\* Statements that link alerts to n or unlink them.
AlertsTaken(w, n) ==
    /\ AssignAlerts(w) \/ AddAlerts(w)
    /\ At(w, {"create", "add"}, "alerts") /\ Same(n)
    /\ \E taken \in SUBSET Alerts :
         /\ \A a \in taken : Open(a) /\ alert[a].noticeId = NoNotice
         /\ SetNoticeId(taken, n)
         /\ \/ Ends(w) /\ taken = {} /\ job[w].op = "add"
            \/ /\ Goes(w, "count") /\ job'[w].cycle = job[w].cycle
               /\ job'[w].count = Cardinality(taken)
AlertsRemoved(w, n) ==
    /\ RemoveAlerts(w) /\ At(w, {"remove"}, "alerts") /\ Same(n)
    /\ \E taken \in SUBSET Linked(n) :
         /\ alert' = [a \in Alerts |->
                        IF a \in taken
                        THEN [alert[a] EXCEPT !.noticeId = NoNotice, !.status = "DETECTED"]
                        ELSE alert[a]]
         /\ \/ Ends(w) /\ taken = {}
            \/ /\ Goes(w, "count") /\ job'[w].cycle = job[w].cycle
               /\ job'[w].count = Cardinality(taken)
AlertsUnlinked(w, n) ==
    /\ UnlinkAlerts(w) /\ At(w, {"delete"}, "alerts") /\ Same(n)
    /\ SetNoticeId(Linked(n), NoNotice)
    /\ Goes(w, "notice") /\ job'[w].cycle = job[w].cycle
RowDeleted(w, n) ==
    /\ DeleteNotice(w) /\ At(w, {"delete"}, "notice")
    /\ SetNoticeId(Linked(n), NoNotice)
    /\ notice'[n] = NoticeWith("DELETED") /\ file'[n] = {} /\ Ends(w)
OwnLinks(w, n) ==
    AlertsTaken(w, n) \/ AlertsRemoved(w, n) \/ AlertsUnlinked(w, n) \/ RowDeleted(w, n)

\* Statements that write the status of its alerts.
OwnAlerts(w, n) ==
    /\ Same(n) /\ job'[w].cycle = job[w].cycle
    /\ \/ /\ MarkAlertsGenerated(w) /\ At(w, {"generate"}, "alerts")
          /\ SetAlertStatus({a \in Linked(n) : Open(a)}, "FILE_GENERATED")
          /\ Goes(w, "log")
       \/ /\ MarkAlertsSubmitted(w) /\ At(w, {"submit"}, "alerts")
          /\ SetAlertStatus({a \in Linked(n) : alert[a].status # "CANCELLED"}, "SUBMITTED")
          /\ Goes(w, "log")
       \/ /\ ResetAlerts(w) /\ At(w, {"revert"}, "alerts")
          /\ SetAlertStatus({a \in Linked(n) : alert[a].status # "CANCELLED"}, "DETECTED")
          /\ Goes(w, "notice")

\* Statements that touch neither row nor alerts.
OwnRest(w, n) ==
    /\ alert' = alert /\ notice'[n] = notice[n]
    /\ \/ /\ SnapshotAlerts(w) /\ At(w, {"generate"}, "snapshot") /\ Same(n)
          /\ \/ Ends(w)
             \/ /\ Goes(w, "put") /\ job'[w].cycle = job[w].cycle
                /\ job'[w].ids = Linked(n) \cap Reportable
       \/ /\ PutFile(w) /\ At(w, {"generate"}, "put")
          /\ file'[n] = job[w].ids /\ trail'[n] = trail[n]
          /\ Goes(w, "reread") /\ job'[w].cycle = job[w].cycle
       \/ /\ RereadNotice(w) /\ At(w, {"generate"}, "reread") /\ Same(n)
          /\ Goes(w, "notice") /\ job'[w].cycle = notice[n].cycle
       \/ RowGone(w) /\ ~NoticeExists(n) /\ Ends(w) /\ Same(n)
       \/ /\ LogEvent(w) /\ job[w].at = "log" /\ Ends(w) /\ file'[n] = file[n]
          /\ trail'[n] = [to |-> job[w].to, cycle |-> job[w].cycle]

LEMMA OwnStatement ==
    ASSUME TypeInv, NEW w \in Workers, Statements(w), NEW n \in Notices, job[w].n = n
    PROVE  /\ \A v \in Workers \ {w} : job'[v] = job[v]
           /\ UNCHANGED interrupted
           /\ \A m \in Notices \ {n} : Same(m)
           /\ \/ OwnRow(w, n) /\ alert' = alert
              \/ OwnLinks(w, n)
              \/ OwnAlerts(w, n)
              \/ OwnRest(w, n)
  <1> DEFINE j == job[w]
             Others == \A v \in Workers \ {w} : job'[v] = job[v]
             Apart == \A m \in Notices \ {n} : Same(m)
  <1>t. /\ JobShape(j) /\ j \in Job /\ job \in [Workers -> Job]
        /\ notice \in [Notices -> NoticeRow] /\ trail \in [Notices -> Event]
        /\ file \in [Notices -> SUBSET Alerts] /\ n # NoNotice
    BY NoticesAssumption DEF TypeInv, TypeOK, JobsShaped
  <1>c. ASSUME NEW step \in Step, Continue(w, step)
        PROVE  Others /\ Goes(w, step) /\ job'[w].cycle = job[w].cycle
    <2>1. job' = [job EXCEPT ![w] = [j EXCEPT !.at = step]]
      BY <1>c DEF Continue
    <2> QED
      BY <1>t, <2>1 DEF Job, Goes
  <1>f. Finish(w) => Others /\ Ends(w)
    BY <1>t, FinishTyped DEF Ends, Idle
  <1>k. ASSUME NEW c, job' = [job EXCEPT ![w].at = "count", ![w].ids = {}, ![w].count = c]
        PROVE  Others /\ Goes(w, "count") /\ job'[w].cycle = job[w].cycle /\ job'[w].count = c
    <2>1. job' = [job EXCEPT ![w] = [j EXCEPT !.at = "count", !.ids = {}, !.count = c]]
      BY <1>k
    <2> QED
      BY <1>t, <2>1 DEF Job, Goes
  <1>1. CASE InsertNotice(w)
    <2>1. /\ notice'[n] = NoticeWith("DRAFT") /\ Apart /\ UNCHANGED <<alert, trail, file, interrupted>>
          /\ At(w, {"create"}, "insert") /\ \E step \in {"log", "alerts"} : Continue(w, step)
      BY <1>t, <1>1 DEF InsertNotice, Same, history
    <2> QED
      BY <1>1, <1>c, <2>1 DEF OwnRow, RowInserted, Step
  <1>2. CASE SetRecordCount(w)
    <2>1. /\ notice'[n] = [notice[n] EXCEPT !.recordCount = j.count] /\ Apart
          /\ UNCHANGED <<alert, trail, file, interrupted>>
          /\ At(w, {"create"}, "count") /\ Continue(w, "log")
      BY <1>t, <1>2 DEF SetRecordCount, Same, history
    <2> QED
      BY <1>2, <1>c, <2>1 DEF OwnRow, CountSet, Step
  <1>3. CASE ShiftRecordCount(w)
    <2>1. /\ notice'[n] = [notice[n] EXCEPT !.recordCount =
                             IF j.op = "add" THEN @ + j.count ELSE @ - j.count]
          /\ Apart /\ UNCHANGED <<alert, trail, file, interrupted>>
          /\ At(w, {"add", "remove"}, "count") /\ Continue(w, "log")
      BY <1>t, <1>3 DEF ShiftRecordCount, Same, history
    <2> QED
      BY <1>3, <1>c, <2>1 DEF OwnRow, CountShifted, Step
  <1>4. CASE WriteStatus(w)
    <2>1. /\ notice'[n] = [notice[n] EXCEPT !.status = j.to, !.xml = @ \/ j.op = "generate"]
          /\ Apart /\ UNCHANGED <<alert, trail, file, interrupted>>
          /\ At(w, {"generate", "submit", "acknowledge", "rebuke"}, "notice")
          /\ Continue(w, IF j.op \in {"generate", "submit"} THEN "alerts" ELSE "log")
      BY <1>t, <1>4 DEF WriteStatus, Same, history
    <2> QED
      BY <1>4, <1>c, <2>1 DEF OwnRow, StatusWritten, Step
  <1>5. CASE ReopenNotice(w)
    <2>1. /\ notice'[n] = [notice[n] EXCEPT !.status = "DRAFT", !.xml = FALSE, !.cycle = @ + 1]
          /\ Apart /\ UNCHANGED <<alert, trail, file, interrupted>>
          /\ At(w, {"revert"}, "notice")
          /\ job' = [job EXCEPT ![w] = [j EXCEPT !.at = "log", !.cycle = notice[n].cycle + 1]]
      BY <1>t, <1>5 DEF ReopenNotice, Same, history
    <2>2. Others /\ Goes(w, "log") /\ job'[w].cycle = notice[n].cycle + 1
      BY <1>t, <2>1 DEF Job, Goes
    <2> QED
      BY <1>5, <2>1, <2>2 DEF OwnRow, RowReopened
  <1>6. CASE AssignAlerts(w) \/ AddAlerts(w)
    <2> DEFINE taken == IF NoticeExists(n) THEN Assignable(j.ids) ELSE {}
    <2>1. /\ UNCHANGED <<notice, trail, file, interrupted>> /\ At(w, {"create", "add"}, "alerts")
          /\ SetNoticeId(taken, n)
      BY <1>6 DEF AssignAlerts, AddAlerts, At, history
    <2>2. taken \in SUBSET Alerts /\ \A a \in taken : Open(a) /\ alert[a].noticeId = NoNotice
      BY <1>t DEF Assignable, Job
    <2>3. \/ Finish(w) /\ taken = {} /\ j.op = "add"
          \/ job' = [job EXCEPT ![w].at = "count", ![w].ids = {}, ![w].count = Cardinality(taken)]
      BY <1>6 DEF AssignAlerts, AddAlerts, At
    <2> HIDE DEF taken
    <2>4. /\ Others
          /\ \/ Ends(w) /\ taken = {} /\ j.op = "add"
             \/ /\ Goes(w, "count") /\ job'[w].cycle = job[w].cycle
                /\ job'[w].count = Cardinality(taken)
      BY <1>f, <1>k, <2>3
    <2> QED
      BY <1>6, <2>1, <2>2, <2>4 DEF OwnLinks, AlertsTaken, Same
  <1>7. CASE RemoveAlerts(w)
    <2> DEFINE taken == j.ids \cap Linked(n)
    <2>1. /\ UNCHANGED <<notice, trail, file, interrupted>> /\ At(w, {"remove"}, "alerts")
          /\ alert' = [a \in Alerts |->
                         IF a \in taken
                         THEN [alert[a] EXCEPT !.noticeId = NoNotice, !.status = "DETECTED"]
                         ELSE alert[a]]
          /\ taken \in SUBSET Linked(n)
      BY <1>7 DEF RemoveAlerts, history
    <2>3. \/ Finish(w) /\ taken = {}
          \/ job' = [job EXCEPT ![w].at = "count", ![w].ids = {}, ![w].count = Cardinality(taken)]
      BY <1>7 DEF RemoveAlerts
    <2> HIDE DEF taken
    <2>4. /\ Others
          /\ \/ Ends(w) /\ taken = {}
             \/ /\ Goes(w, "count") /\ job'[w].cycle = job[w].cycle
                /\ job'[w].count = Cardinality(taken)
      BY <1>f, <1>k, <2>3
    <2> QED
      BY <1>7, <2>1, <2>4 DEF OwnLinks, AlertsRemoved, Same
  <1>8. CASE UnlinkAlerts(w)
    <2>1. /\ UNCHANGED <<notice, trail, file, interrupted>> /\ At(w, {"delete"}, "alerts")
          /\ SetNoticeId(Linked(n), NoNotice) /\ Continue(w, "notice")
      BY <1>8 DEF UnlinkAlerts, history
    <2> QED
      BY <1>8, <1>c, <2>1 DEF OwnLinks, AlertsUnlinked, Same, Step
  <1>9. CASE DeleteNotice(w)
    <2>1. /\ notice'[n] = NoticeWith("DELETED") /\ file'[n] = {} /\ Apart /\ UNCHANGED interrupted
          /\ At(w, {"delete"}, "notice") /\ SetNoticeId(Linked(n), NoNotice) /\ Finish(w)
      BY <1>t, <1>9 DEF DeleteNotice, Same, history
    <2> QED
      BY <1>9, <1>f, <2>1 DEF OwnLinks, RowDeleted
  <1>10. CASE MarkAlertsGenerated(w) \/ MarkAlertsSubmitted(w) \/ ResetAlerts(w)
    <2>1. UNCHANGED <<notice, trail, file, interrupted>>
      BY <1>10 DEF MarkAlertsGenerated, MarkAlertsSubmitted, ResetAlerts, history
    <2>2. /\ \E step \in Step : Continue(w, step)
          /\ MarkAlertsGenerated(w) \/ MarkAlertsSubmitted(w) => Continue(w, "log")
          /\ ResetAlerts(w) => Continue(w, "notice")
      BY <1>10 DEF MarkAlertsGenerated, MarkAlertsSubmitted, ResetAlerts, Step
    <2>3. Others /\ job'[w].cycle = job[w].cycle
      BY <1>c, <2>2
    <2>4. /\ MarkAlertsGenerated(w) \/ MarkAlertsSubmitted(w) => Goes(w, "log")
          /\ ResetAlerts(w) => Goes(w, "notice")
      BY <1>c, <2>2 DEF Step
    <2> QED
      BY <1>10, <2>1, <2>3, <2>4
         DEF OwnAlerts, Same, MarkAlertsGenerated, MarkAlertsSubmitted, ResetAlerts
  <1>11. CASE SnapshotAlerts(w)
    <2> DEFINE content == Linked(n) \cap Reportable
    <2>1. /\ UNCHANGED <<alert, notice, trail, file, interrupted>> /\ At(w, {"generate"}, "snapshot")
          /\ Finish(w) \/ job' = [job EXCEPT ![w] = [j EXCEPT !.at = "put", !.ids = content]]
      BY <1>11 DEF SnapshotAlerts, tables, history
    <2>2. CASE Finish(w)
      BY <1>11, <1>f, <2>1, <2>2 DEF OwnRest, Same
    <2>3. CASE job' = [job EXCEPT ![w] = [j EXCEPT !.at = "put", !.ids = content]]
      <3>1. Others /\ Goes(w, "put") /\ job'[w].cycle = job[w].cycle /\ job'[w].ids = content
        BY <1>t, <2>3 DEF Job, Goes
      <3> QED
        BY <1>11, <2>1, <3>1 DEF OwnRest, Same
    <2> QED
      BY <2>1, <2>2, <2>3
  <1>12. CASE PutFile(w)
    <2>1. /\ UNCHANGED <<alert, notice, trail, interrupted>> /\ At(w, {"generate"}, "put")
          /\ file'[n] = j.ids /\ Apart
          /\ job' = [job EXCEPT ![w] = [j EXCEPT !.at = "reread", !.ids = {}]]
      BY <1>t, <1>12 DEF PutFile, Same, history
    <2>2. Others /\ Goes(w, "reread") /\ job'[w].cycle = job[w].cycle
      BY <1>t, <2>1 DEF Job, Goes
    <2> QED
      BY <1>12, <2>1, <2>2 DEF OwnRest
  <1>13. CASE RereadNotice(w)
    <2>1. /\ UNCHANGED <<alert, notice, trail, file, interrupted>> /\ At(w, {"generate"}, "reread")
          /\ job' = [job EXCEPT ![w] = [j EXCEPT !.at = "notice", !.cycle = notice[n].cycle]]
      BY <1>13 DEF RereadNotice, tables, history
    <2>2. Others /\ Goes(w, "notice") /\ job'[w].cycle = notice[n].cycle
      BY <1>t, <2>1 DEF Job, Goes
    <2> QED
      BY <1>13, <2>1, <2>2 DEF OwnRest, Same
  <1>14. CASE RowGone(w)
    <2>1. UNCHANGED <<alert, notice, trail, file, interrupted>> /\ ~NoticeExists(n) /\ Finish(w)
      BY <1>14 DEF RowGone, tables, history
    <2> QED
      BY <1>14, <1>f, <2>1 DEF OwnRest, Same
  <1>15. CASE LogEvent(w)
    <2>1. /\ UNCHANGED <<alert, notice, file, interrupted>> /\ j.at = "log" /\ Finish(w) /\ Apart
          /\ trail'[n] = [to |-> j.to, cycle |-> j.cycle]
      BY <1>t, <1>15 DEF LogEvent, Same, history
    <2> QED
      BY <1>15, <1>f, <2>1 DEF OwnRest
  <1>16. CASE \E put \in BOOLEAN : WritePatch(w, put)
    <2>1. j.op = "patch"
      BY <1>16 DEF WritePatch, At
    <2> QED
      BY <1>t, <2>1 DEF JobShape, Idle
  <1> QED
    BY <1>1, <1>2, <1>3, <1>4, <1>5, <1>6, <1>7, <1>8, <1>9, <1>10, <1>11, <1>12, <1>13, <1>14,
       <1>15, <1>16 DEF Statements

\* A request for n begins: it read the row and issued no statement yet.
Begun(w, n) ==
    /\ ~Busy(n) /\ job'[w].cycle = notice[n].cycle
    /\ \/ job'[w].op = "create" /\ job'[w].at = "insert"
       \/ job'[w].op \in {"delete", "revert", "add", "remove"} /\ job'[w].at = "alerts"
       \/ job'[w].op = "generate" /\ job'[w].at = "snapshot"
       \/ job'[w].op \in {"submit", "acknowledge", "rebuke"} /\ job'[w].at = "notice"

LEMMA RequestBegins ==
    ASSUME Overlap = FALSE, TypeInv, NEW w \in Workers, Requests(w)
    PROVE  /\ \A v \in Workers \ {w} : job'[v] = job[v]
           /\ UNCHANGED <<alert, notice, file, trail, interrupted>>
           /\ job[w].n = NoNotice
           /\ job'[w].n = NoNotice \/ \E n \in Notices : job'[w].n = n /\ Begun(w, n)
           /\ \/ job'[w].op # "patch"
              \/ \E a \in Alerts, to \in PatchStatuses : StartPatch(w, a, to)
  <1> DEFINE Quiet == /\ \A v \in Workers \ {w} : job'[v] = job[v]
                      /\ UNCHANGED <<alert, notice, file, trail, interrupted>>
                      /\ job[w].n = NoNotice
  <1>t. job \in [Workers -> Job]
    BY DEF TypeInv, TypeOK
  <1>1. ASSUME NEW n \in Notices, NEW op, NEW step, NEW ids, NEW to, Begin(w, n, op, step, ids, to),
               \/ op = "create" /\ step = "insert"
               \/ op \in {"delete", "revert", "add", "remove"} /\ step = "alerts"
               \/ op = "generate" /\ step = "snapshot"
               \/ op \in {"submit", "acknowledge", "rebuke"} /\ step = "notice"
        PROVE  Quiet /\ job'[w].n = n /\ Begun(w, n) /\ job'[w].op # "patch"
    <2> DEFINE r == [op |-> op, at |-> step, n |-> n, ids |-> ids, seen |-> "UNBORN", to |-> to,
                     cycle |-> notice[n].cycle, count |-> 0]
    <2>1. job' = [job EXCEPT ![w] = r] /\ job[w] = Idle
      BY <1>1 DEF Begin
    <2>2. job'[w] = r /\ \A v \in Workers \ {w} : job'[v] = job[v]
      BY <1>t, <2>1
    <2>3. r.n = n /\ r.op = op /\ r.at = step /\ r.cycle = notice[n].cycle
      OBVIOUS
    <2> HIDE DEF r
    <2>4. ~Busy(n)
      BY <1>1 DEF Begin
    <2>5. Begun(w, n) /\ job'[w].op # "patch"
      BY <1>1, <2>2, <2>3, <2>4 DEF Begun
    <2> QED
      BY <1>1, <2>1, <2>2, <2>3, <2>5 DEF Begin, tables, history, Idle
  <1>2. ASSUME NEW a \in Alerts, NEW to \in PatchStatuses, StartPatch(w, a, to)
        PROVE  Quiet /\ job'[w].n = NoNotice
    BY <1>t, <1>2 DEF StartPatch, Idle, tables, history
  <1>3. ASSUME NEW n \in Notices, NEW ids \in SUBSET Alerts,
               \/ StartCreate(w, n, ids)
               \/ StartDelete(w, n)
               \/ StartGenerate(w, n)
               \/ StartSubmit(w, n)
               \/ StartAcknowledge(w, n)
               \/ StartRebuke(w, n)
               \/ StartRevert(w, n)
               \/ StartAdd(w, n, ids)
               \/ StartRemove(w, n, ids)
        PROVE  Quiet /\ job'[w].n = n /\ Begun(w, n) /\ job'[w].op # "patch"
    <2>1. PICK op, step, to, set : Begin(w, n, op, step, set, to) /\
               (\/ op = "create" /\ step = "insert"
                \/ op \in {"delete", "revert", "add", "remove"} /\ step = "alerts"
                \/ op = "generate" /\ step = "snapshot"
                \/ op \in {"submit", "acknowledge", "rebuke"} /\ step = "notice")
      BY <1>3 DEF StartCreate, StartDelete, StartGenerate, StartSubmit, StartAcknowledge,
         StartRebuke, StartRevert, StartAdd, StartRemove
    <2> QED
      BY <1>1, <2>1
  <1>4. \/ \E n \in Notices : Quiet /\ job'[w].n = n /\ Begun(w, n) /\ job'[w].op # "patch"
        \/ /\ \E a \in Alerts, to \in PatchStatuses : StartPatch(w, a, to)
           /\ Quiet /\ job'[w].n = NoNotice
    BY <1>2, <1>3 DEF Requests
  <1> HIDE DEF Quiet
  <1> QED
    BY <1>4 DEF Quiet

\* A request for no notice is a patch, and its statement the patch.
LEMMA PatchOnly ==
    ASSUME TypeInv, NEW w \in Workers, Statements(w), job[w].n \notin Notices
    PROVE  \E put \in BOOLEAN : WritePatch(w, put)
  <1>1. job[w].op \in {"idle", "patch"} /\ job[w].at \in {"done", "patch"}
    BY DEF TypeInv, JobsShaped, JobShape, Idle
  <1> QED
    BY <1>1 DEF Statements, InsertNotice, AssignAlerts, SetRecordCount,
       UnlinkAlerts, DeleteNotice, SnapshotAlerts, PutFile, RereadNotice,
       WriteStatus, MarkAlertsGenerated, MarkAlertsSubmitted, ResetAlerts,
       ReopenNotice, AddAlerts, RemoveAlerts, ShiftRecordCount, RowGone,
       LogEvent, At

\* The statement of a request for one notice leaves the status of other alerts as it is.
LEMMA StatusApart ==
    ASSUME TypeInv, NEW w \in Workers, Statements(w), job[w].n \in Notices,
           NEW a \in Alerts, a \notin Linked(job[w].n)
    PROVE  alert'[a].status = alert[a].status
  <1> DEFINE m == job[w].n
             O == {b \in Linked(m) : Open(b)}
             K == {b \in Linked(m) : alert[b].status # "CANCELLED"}
  <1>t. alert \in [Alerts -> AlertRow]
    BY DEF TypeInv, TypeOK
  <1>1. \/ OwnRow(w, m) /\ alert' = alert
        \/ OwnLinks(w, m) \/ OwnAlerts(w, m) \/ OwnRest(w, m)
    BY OwnStatement
  <1>2. CASE AlertsTaken(w, m) \/ AlertsUnlinked(w, m) \/ RowDeleted(w, m)
    <2>1. \E S \in SUBSET Alerts, k \in Notices \cup {NoNotice} : SetNoticeId(S, k)
      BY <1>2 DEF AlertsTaken, AlertsUnlinked, RowDeleted, Linked
    <2> QED
      BY <1>t, <2>1, SetNoticeIdTyped
  <1>3. CASE AlertsRemoved(w, m)
    BY <1>t, <1>3 DEF AlertsRemoved
  <1>4. CASE OwnAlerts(w, m)
    <2>1. /\ a \notin O /\ a \notin K
          /\ \/ SetAlertStatus(O, "FILE_GENERATED")
             \/ SetAlertStatus(K, "SUBMITTED")
             \/ SetAlertStatus(K, "DETECTED")
      BY <1>4 DEF OwnAlerts
    <2> HIDE DEF O, K
    <2>2. PICK S \in {O, K}, st \in {"FILE_GENERATED", "SUBMITTED", "DETECTED"} :
             SetAlertStatus(S, st)
      BY <2>1
    <2>3. a \notin S /\ st \in AlertStatus
      BY <2>1, <2>2 DEF AlertStatus
    <2> QED
      BY <1>t, <2>2, <2>3, SetAlertStatusTyped
  <1> QED
    BY <1>1, <1>2, <1>3, <1>4 DEF OwnLinks, OwnRest

\* A step that is not of the request for n leaves its row, its file and its trail alone, links
\* no alert to it, and unlinks none unless the row of the alert is deleted.
Elsewhere(n) ==
    /\ Same(n) /\ interrupted \subseteq interrupted'
    /\ \A a \in Linked(n)' : a \in Linked(n)
    /\ \A a \in Linked(n) : a \in Linked(n)' \/ alert'[a].status = "DELETED"
    /\ \A w \in Workers : job[w].n = n => job'[w] = job[w]
    /\ \A w \in Workers : job'[w].n = n => job'[w] = job[w] \/ Begun(w, n)

OfRequest(n) == \E w \in Workers : job[w].n = n /\ (Statements(w) \/ Crash(w))

LEMMA ElsewhereIs ==
    ASSUME Overlap = FALSE, TypeInv, LinkInv, LinkInv', Next, NEW n \in Notices, ~OfRequest(n)
    PROVE  Elsewhere(n)
  <1>t. job \in [Workers -> Job] /\ JobsShaped /\ n # NoNotice
    BY NoticesAssumption DEF TypeInv, TypeOK
  <1>1. ASSUME NEW a \in Alerts, alert'[a].noticeId # alert[a].noticeId,
               alert'[a].noticeId = n \/ alert[a].noticeId = n
        PROVE  alert[a].noticeId = n /\ alert'[a].status = "DELETED"
    <2>1. LinkMoves(a)
      BY <1>1, LinkChange
    <2>2. \A w \in Workers : job[w].n = n => ~(AssignAlerts(w) \/ AddAlerts(w))
                                             /\ ~(UnlinkAlerts(w) \/ RemoveAlerts(w) \/ DeleteNotice(w))
      BY DEF OfRequest, Statements
    <2> QED
      BY <1>1, <1>t, <2>1, <2>2 DEF LinkMoves
  <1>2. /\ \A a \in Linked(n)' : a \in Linked(n)
        /\ \A a \in Linked(n) : a \in Linked(n)' \/ alert'[a].status = "DELETED"
    BY <1>t, <1>1 DEF Linked, LinkInv, AbsentFree
  <1> DEFINE Jobs == /\ \A w \in Workers : job[w].n = n => job'[w] = job[w]
                     /\ \A w \in Workers : job'[w].n = n => job'[w] = job[w] \/ Begun(w, n)
  <1>3. ASSUME NEW w \in Workers, Requests(w)
        PROVE  Same(n) /\ interrupted \subseteq interrupted' /\ Jobs
    BY <1>t, <1>3, RequestBegins DEF Same
  <1>4. ASSUME NEW w \in Workers, Statements(w)
        PROVE  Same(n) /\ interrupted \subseteq interrupted' /\ Jobs
    <2>1. job[w].n # n
      BY <1>4 DEF OfRequest
    <2>2. CASE job[w].n \in Notices
      <3>1. /\ \A v \in Workers \ {w} : job'[v] = job[v]
            /\ UNCHANGED interrupted /\ Same(n)
            /\ OwnRow(w, job[w].n) \/ OwnLinks(w, job[w].n) \/ OwnAlerts(w, job[w].n) \/ OwnRest(w, job[w].n)
        BY <1>4, <2>1, <2>2, OwnStatement
      <3>2. job'[w].n \in {job[w].n, NoNotice}
        BY <3>1 DEF OwnRow, RowInserted, CountSet, CountShifted, StatusWritten, RowReopened,
         OwnLinks, AlertsTaken, AlertsRemoved, AlertsUnlinked, RowDeleted, OwnAlerts, OwnRest,
         Goes, Ends
      <3> QED
        BY <1>t, <2>1, <3>1, <3>2
    <2>3. CASE job[w].n \notin Notices
      <3>2. \E put \in BOOLEAN : WritePatch(w, put)
        BY <1>4, <2>3, PatchOnly
      <3>3. Finish(w) /\ UNCHANGED <<notice, file, trail, history>>
        BY <3>2 DEF WritePatch
      <3>4. job'[w].n = NoNotice /\ \A v \in Workers \ {w} : job'[v] = job[v]
        BY <1>t, <3>3, FinishTyped DEF Idle
      <3> QED
        BY <1>t, <2>1, <3>3, <3>4 DEF Same, history
    <2> QED
      BY <2>2, <2>3
  <1>5. ASSUME NEW w \in Workers, Crash(w)
        PROVE  Same(n) /\ interrupted \subseteq interrupted' /\ Jobs
    <2>1. job[w].n # n /\ Finish(w) /\ UNCHANGED tables /\ interrupted \subseteq interrupted'
      BY <1>5 DEF OfRequest, Crash
    <2>2. job'[w].n = NoNotice /\ \A v \in Workers \ {w} : job'[v] = job[v]
      BY <1>t, <2>1, FinishTyped DEF Idle
    <2> QED
      BY <1>t, <2>1, <2>2 DEF Same, tables
  <1>6. ASSUME (\E a \in Alerts : CreateAlert(a) \/ DeadlinePasses(a) \/ DeleteAlert(a)) \/ ListAlerts
        PROVE  Same(n) /\ interrupted \subseteq interrupted' /\ Jobs
    BY <1>6 DEF CreateAlert, DeadlinePasses, DeleteAlert, ListAlerts, Same, tables, history
  <1>7. Same(n) /\ interrupted \subseteq interrupted' /\ Jobs
    BY <1>3, <1>4, <1>5, <1>6 DEF Next
  <1> QED
    BY <1>2, <1>7 DEF Elsewhere

\* A request that is cut short leaves the tables as they are, and marks a notice that is there.
LEMMA CutShort ==
    ASSUME TypeInv, SerialInv, NEW w \in Workers, Crash(w), NEW n \in Notices, job[w].n = n
    PROVE  /\ UNCHANGED tables /\ \A v \in Workers : job'[v].n # n
           /\ n \in interrupted' \/ ~NoticeExists(n)
           /\ interrupted \subseteq interrupted'
  <1>1. Finish(w) /\ UNCHANGED tables /\ job \in [Workers -> Job] /\ n # NoNotice
    BY NoticesAssumption DEF Crash, TypeInv, TypeOK
  <1>2. job'[w].n = NoNotice /\ \A v \in Workers \ {w} : job'[v] = job[v]
    BY <1>1, FinishTyped DEF Idle
  <1>3. \A v \in Workers \ {w} : job[v].n # n
    BY <1>1 DEF SerialInv, OneRequest
  <1> QED
    BY <1>1, <1>2, <1>3 DEF Crash

\* The request for n acts alone on it.
LEMMA OwnFacts ==
    ASSUME TypeInv, SerialInv, NEW w \in Workers, NEW n \in Notices, job[w].n = n
    PROVE  /\ JobShape(job[w]) /\ CheckHolds(job[w]) /\ job[w] \in Job /\ notice[n] \in NoticeRow
           /\ \A v \in Workers \ {w} : job[v].n # n
           /\ n # NoNotice /\ alert \in [Alerts -> AlertRow]
           /\ trail[n] \in Event /\ file[n] \in SUBSET Alerts
  <1>1. n # NoNotice
    BY NoticesAssumption
  <1> QED
    BY <1>1 DEF TypeInv, TypeOK, JobsShaped, SerialInv, ChecksHold, OneRequest

-----------------------------------------------------------------------------
(* The row of a notice, and what the request for it read of the row.       *)

\* A row that was never inserted is as new; only a published notice refers to a file; the cycle
\* a request read is the cycle of the row, and a submit that wrote the status finds it there.
RowInv(n) ==
    /\ notice[n].status = "UNBORN" => notice[n] = NoticeWith("UNBORN")
    /\ notice[n].status \notin Published => ~notice[n].xml
    /\ \A w \in Workers : job[w].n = n =>
         /\ job[w].cycle = notice[n].cycle
         /\ job[w].op = "submit" /\ job[w].at # "notice" => notice[n].status = "SUBMITTED"

RowsInv == \A n \in Notices : RowInv(n)

LEMMA RowStep ==
    ASSUME Overlap = FALSE, TypeInv, LinkInv, LinkInv', SerialInv, Next, NEW n \in Notices, RowInv(n)
    PROVE  RowInv(n)'
  <1>1. CASE ~OfRequest(n)
    <2>1. Elsewhere(n)
      BY <1>1, ElsewhereIs
    <2> QED
      BY <2>1 DEF Elsewhere, RowInv, Same, Begun
  <1>2. ASSUME NEW w \in Workers, job[w].n = n, Crash(w)
        PROVE  RowInv(n)'
    BY <1>2, CutShort DEF RowInv, tables
  <1>3. ASSUME NEW w \in Workers, job[w].n = n, Statements(w)
        PROVE  RowInv(n)'
    <2>1. /\ JobShape(job[w]) /\ CheckHolds(job[w]) /\ notice[n] \in NoticeRow /\ n # NoNotice
          /\ \A v \in Workers \ {w} : job[v].n # n
          /\ job[w].n = n
      BY <1>3, OwnFacts
    <2>2. /\ \A v \in Workers \ {w} : job'[v] = job[v]
          /\ OwnRow(w, n) \/ OwnLinks(w, n) \/ OwnAlerts(w, n) \/ OwnRest(w, n)
      BY <1>3, OwnStatement
    <2>3. SUFFICES /\ notice'[n].status = "UNBORN" => notice'[n] = NoticeWith("UNBORN")
                   /\ notice'[n].status \notin Published => ~notice'[n].xml
                   /\ job'[w].n = n =>
                        /\ job'[w].cycle = notice'[n].cycle
                        /\ job'[w].op = "submit" /\ job'[w].at # "notice"
                             => notice'[n].status = "SUBMITTED"
      BY <2>1, <2>2 DEF RowInv
    <2>r. /\ job[w].cycle = notice[n].cycle
          /\ job[w].op = "submit" /\ job[w].at # "notice" => notice[n].status = "SUBMITTED"
          /\ notice[n].status = "UNBORN" => notice[n] = NoticeWith("UNBORN")
          /\ notice[n].status \notin Published => ~notice[n].xml
      BY <1>3 DEF RowInv
    <2>4. CASE OwnRow(w, n)
      <3>1. CASE RowInserted(w, n)
        <4>1. notice[n].status = "UNBORN" /\ job[w].op = "create"
          BY <2>1, <3>1 DEF RowInserted, At, CheckHolds
        <4> QED
          BY <2>r, <3>1, <4>1 DEF RowInserted, NoticeWith, Goes
      <3>2. CASE CountSet(w, n) \/ CountShifted(w, n)
        <4>1. /\ notice'[n].status = notice[n].status /\ notice'[n].xml = notice[n].xml
              /\ notice'[n].cycle = notice[n].cycle /\ notice[n].status = "DRAFT"
              /\ Goes(w, "log") /\ job'[w].cycle = job[w].cycle /\ job[w].op # "submit"
          BY <2>1, <3>2 DEF CountSet, CountShifted, NoticeRow, At, CheckHolds
        <4> QED
          BY <2>r, <4>1 DEF Goes
      <3>3. CASE StatusWritten(w, n)
        <4>1. /\ notice'[n].status = job[w].to /\ notice'[n].cycle = notice[n].cycle
              /\ job'[w].cycle = job[w].cycle /\ job'[w].op = job[w].op
          BY <2>1, <3>3 DEF StatusWritten, NoticeRow, Goes
        <4>2. job[w].to \in Published /\ (job[w].op = "submit" => job[w].to = "SUBMITTED")
          BY <2>1, <3>3 DEF StatusWritten, At, JobShape, Idle, Published, Filed
        <4> QED
          BY <2>r, <4>1, <4>2 DEF Published, Filed
      <3>4. CASE RowReopened(w, n)
        <4>1. /\ notice'[n].status = "DRAFT" /\ ~notice'[n].xml /\ job[w].op = "revert"
              /\ notice'[n].cycle = notice[n].cycle + 1
          BY <2>1, <3>4 DEF RowReopened, NoticeRow, At
        <4> QED
          BY <3>4, <4>1 DEF RowReopened, Goes
      <3> QED
        BY <2>4, <3>1, <3>2, <3>3, <3>4 DEF OwnRow
    <2>5. CASE OwnLinks(w, n)
      <3>1. CASE RowDeleted(w, n)
        BY <2>1, <3>1 DEF RowDeleted, NoticeWith, Ends
      <3>2. CASE AlertsTaken(w, n) \/ AlertsRemoved(w, n) \/ AlertsUnlinked(w, n)
        <4>1. /\ notice'[n] = notice[n]
              /\ Ends(w) \/ (job'[w].cycle = job[w].cycle /\ job'[w].op # "submit")
          BY <3>2 DEF AlertsTaken, AlertsRemoved, AlertsUnlinked, Same, Goes, At
        <4> QED
          BY <2>1, <2>r, <4>1 DEF Ends
      <3> QED
        BY <2>5, <3>1, <3>2 DEF OwnLinks
    <2>6. CASE OwnAlerts(w, n) \/ OwnRest(w, n)
      BY <2>1, <2>6, <2>r DEF OwnAlerts, OwnRest, Same, Goes, Ends, At
    <2> QED
      BY <2>2, <2>4, <2>5, <2>6
  <1> QED
    BY <1>1, <1>2, <1>3 DEF OfRequest

-----------------------------------------------------------------------------
(* The audit trail.                                                        *)

\* A request that changed the row and has yet to log it.
Unlogged(j) ==
    \/ j.op = "create"
    \/ j.op \in {"generate", "submit"} /\ j.at \in {"alerts", "log"}
    \/ j.op \in {"acknowledge", "rebuke", "revert"} /\ j.at = "log"

Told(n) == trail[n].to = notice[n].status /\ trail[n].cycle = notice[n].cycle

TrailInv(n) ==
    n \notin interrupted /\ NoticeExists(n) =>
        Told(n) \/ \E w \in Workers : job[w].n = n /\ Unlogged(job[w])

LEMMA TrailStep ==
    ASSUME Overlap = FALSE, TypeInv, LinkInv, LinkInv', SerialInv, Next, NEW n \in Notices,
           RowInv(n), TrailInv(n)
    PROVE  TrailInv(n)'
  <1>1. CASE ~OfRequest(n)
    <2>1. Elsewhere(n)
      BY <1>1, ElsewhereIs
    <2>2. \A w \in Workers : job[w].n = n => job'[w] = job[w]
      BY <2>1 DEF Elsewhere
    <2>3. (Told(n)' <=> Told(n)) /\ (NoticeExists(n)' <=> NoticeExists(n)) /\ interrupted \subseteq interrupted'
      BY <2>1 DEF Elsewhere, Same, Told, NoticeExists
    <2> QED
      BY <2>2, <2>3 DEF TrailInv
  <1>2. ASSUME NEW w \in Workers, job[w].n = n, Crash(w)
        PROVE  TrailInv(n)'
    BY <1>2, CutShort DEF TrailInv, tables, NoticeExists
  <1>3. ASSUME NEW w \in Workers, job[w].n = n, Statements(w)
        PROVE  TrailInv(n)'
    <2>1. /\ JobShape(job[w]) /\ CheckHolds(job[w]) /\ notice[n] \in NoticeRow /\ n # NoNotice
          /\ \A v \in Workers \ {w} : job[v].n # n
          /\ job[w].n = n
      BY <1>3, OwnFacts
    <2>2. /\ UNCHANGED interrupted
          /\ OwnRow(w, n) \/ OwnLinks(w, n) \/ OwnAlerts(w, n) \/ OwnRest(w, n)
      BY <1>3, OwnStatement
    <2>3. ASSUME Goes(w, job'[w].at), Unlogged(job'[w])
          PROVE  TrailInv(n)'
      BY <2>1, <2>3 DEF TrailInv, Goes
    <2>4. ASSUME ~Unlogged(job[w]), UNCHANGED <<trail[n], notice[n].status, notice[n].cycle>>
          PROVE  TrailInv(n)'
      BY <2>1, <2>2, <2>4 DEF TrailInv, Told, NoticeExists
    <2>5. CASE RowInserted(w, n) \/ CountSet(w, n) \/ StatusWritten(w, n) \/ RowReopened(w, n)
      <3>1. Goes(w, job'[w].at) /\ Unlogged(job'[w])
        BY <2>5 DEF RowInserted, CountSet, StatusWritten, RowReopened, Goes, Unlogged, At
      <3> QED
        BY <2>3, <3>1
    <2>6. CASE CountShifted(w, n)
      <3>1. ~Unlogged(job[w]) /\ UNCHANGED <<trail[n], notice[n].status, notice[n].cycle>>
        BY <2>1, <2>6 DEF CountShifted, NoticeRow, Unlogged, At
      <3> QED
        BY <2>4, <3>1
    <2>7. CASE AlertsTaken(w, n)
      <3>1. CASE job[w].op = "create"
        <4>1. Goes(w, "count")
          BY <2>7, <3>1 DEF AlertsTaken
        <4> QED
          BY <2>3, <3>1, <4>1 DEF Goes, Unlogged
      <3>2. CASE job[w].op = "add"
        <4>1. ~Unlogged(job[w]) /\ UNCHANGED <<trail[n], notice[n].status, notice[n].cycle>>
          BY <2>7, <3>2 DEF AlertsTaken, Same, Unlogged
        <4> QED
          BY <2>4, <4>1
      <3> QED
        BY <2>7, <3>1, <3>2 DEF AlertsTaken, At
    <2>8. CASE AlertsRemoved(w, n) \/ AlertsUnlinked(w, n)
      <3>1. ~Unlogged(job[w]) /\ UNCHANGED <<trail[n], notice[n].status, notice[n].cycle>>
        BY <2>8 DEF AlertsRemoved, AlertsUnlinked, Same, Unlogged, At
      <3> QED
        BY <2>4, <3>1
    <2>9. CASE RowDeleted(w, n)
      <3>1. notice'[n].status = "DELETED"
        BY <2>9 DEF RowDeleted, NoticeWith
      <3> QED
        BY <3>1 DEF TrailInv, NoticeExists, NoticeStatus
    <2>10. CASE OwnAlerts(w, n)
      <3>1. CASE job[w].op = "revert"
        <4>1. ~Unlogged(job[w]) /\ UNCHANGED <<trail[n], notice[n].status, notice[n].cycle>>
          BY <2>10, <3>1 DEF OwnAlerts, Same, Unlogged, At
        <4> QED
          BY <2>4, <4>1
      <3>2. CASE job[w].op # "revert"
        <4>1. Goes(w, job'[w].at) /\ Unlogged(job'[w])
          BY <2>10, <3>2 DEF OwnAlerts, Goes, Unlogged, At
        <4> QED
          BY <2>3, <4>1
      <3> QED
        BY <3>1, <3>2
    <2>11. CASE OwnRest(w, n) /\ ~LogEvent(w) /\ ~RowGone(w)
      <3>1. ~Unlogged(job[w]) /\ UNCHANGED <<trail[n], notice[n].status, notice[n].cycle>>
        BY <2>11 DEF OwnRest, Same, Unlogged, At
      <3> QED
        BY <2>4, <3>1
    <2>12. CASE OwnRest(w, n) /\ RowGone(w)
      <3>1. notice'[n] = notice[n] /\ ~NoticeExists(n)
        BY <2>1, <2>12 DEF OwnRest, RowGone
      <3> QED
        BY <3>1 DEF TrailInv, NoticeExists
    <2>13. CASE OwnRest(w, n) /\ LogEvent(w)
      <3>1. job[w].at = "log" /\ notice'[n] = notice[n]
        BY <2>13 DEF OwnRest, LogEvent
      <3>2. trail'[n] = [to |-> job[w].to, cycle |-> job[w].cycle]
        BY <2>1, <2>13, <3>1 DEF OwnRest, LogEvent, At
      <3>3. job[w].to = notice[n].status /\ job[w].cycle = notice[n].cycle
        BY <1>3, <2>1, <3>1 DEF RowInv, JobShape, CheckHolds, Idle
      <3> QED
        BY <3>1, <3>2, <3>3 DEF TrailInv, Told
    <2> QED
      BY <2>2, <2>5, <2>6, <2>7, <2>8, <2>9, <2>10, <2>11, <2>12, <2>13 DEF OwnRow, OwnLinks
  <1> QED
    BY <1>1, <1>2, <1>3 DEF OfRequest

-----------------------------------------------------------------------------
(* The record count.                                                       *)

\* What the request will have stored once it wrote the count of alerts it moved.
CountAfter(w) ==
    CASE job[w].op = "create" -> job[w].count
      [] job[w].op = "add" -> notice[job[w].n].recordCount + job[w].count
      [] job[w].op = "remove" -> notice[job[w].n].recordCount - job[w].count

\* A create finds no alert of its notice before it takes some.
CountInv(n) ==
    /\ \A w \in Workers :
         job[w].n = n /\ job[w].op = "create" /\ job[w].at = "alerts" => Linked(n) = {}
    /\ n \notin interrupted /\ NoticeExists(n) =>
         \/ \E w \in Workers : /\ job[w].n = n /\ job[w].at = "count"
                               /\ Cardinality(Linked(n)) <= CountAfter(w)
         \/ /\ Cardinality(Linked(n)) <= notice[n].recordCount
            /\ \A w \in Workers : job[w].n = n => job[w].at # "count"

LEMMA FewerLinked ==
    ASSUME NEW n \in Notices, Linked(n)' \subseteq Linked(n)
    PROVE  /\ Cardinality(Linked(n)) \in Nat /\ Cardinality(Linked(n)') \in Nat
           /\ Cardinality(Linked(n)') <= Cardinality(Linked(n))
  <1>1. PICK S \in SUBSET Alerts, T \in SUBSET Alerts :
           S = Linked(n) /\ T = Linked(n)' /\ T \subseteq S
    BY DEF Linked
  <1>2. IsFiniteSet(S)
    BY NoticesAssumption, FS_Subset
  <1>3. IsFiniteSet(T) /\ Cardinality(T) <= Cardinality(S)
    BY <1>1, <1>2, FS_Subset
  <1> QED
    BY <1>1, <1>2, <1>3, FS_CardinalityType

LEMMA LinkedByTaking ==
    ASSUME TypeInv, NEW n \in Notices, NEW taken \in SUBSET Alerts,
           \A a \in taken : Open(a) /\ alert[a].noticeId = NoNotice, SetNoticeId(taken, n)
    PROVE  /\ Linked(n)' = Linked(n) \cup taken
           /\ Cardinality(Linked(n)') = Cardinality(Linked(n)) + Cardinality(taken)
           /\ Cardinality(Linked(n)) \in Nat /\ Cardinality(taken) \in Nat
  <1>1. n # NoNotice /\ alert \in [Alerts -> AlertRow]
    BY NoticesAssumption DEF TypeInv, TypeOK
  <1>2. \A a \in Alerts : /\ alert'[a].status = alert[a].status
                          /\ a \notin taken => alert'[a] = alert[a]
                          /\ a \in taken => alert'[a].noticeId = n
    BY <1>1, SetNoticeIdTyped
  <1>3. Linked(n)' = Linked(n) \cup taken /\ Linked(n) \cap taken = {}
    BY <1>1, <1>2 DEF Linked, AlertExists, Open
  <1>4. PICK S \in SUBSET Alerts : S = Linked(n)
    BY DEF Linked
  <1>5. IsFiniteSet(S) /\ IsFiniteSet(taken)
    BY NoticesAssumption, FS_Subset
  <1>6. Cardinality(S \cup taken) = Cardinality(S) + Cardinality(taken) - Cardinality(S \cap taken)
    BY <1>5, FS_Union
  <1>7. Cardinality(S \cap taken) = 0
    <2>1. S \cap taken = {}
      BY <1>3, <1>4
    <2> QED
      BY <2>1, FS_EmptySet
  <1>8. PICK x \in Nat, y \in Nat : x = Cardinality(S) /\ y = Cardinality(taken)
    BY <1>5, FS_CardinalityType
  <1>9. Cardinality(S \cup taken) = x + y
    <2>1. Cardinality(S \cup taken) = x + y - 0
      BY <1>6, <1>7, <1>8
    <2> QED
      BY <1>8, <2>1
  <1> QED
    BY <1>3, <1>4, <1>8, <1>9

LEMMA LinkedByRemoving ==
    ASSUME TypeInv, NEW n \in Notices, NEW taken \in SUBSET Linked(n),
           alert' = [a \in Alerts |->
                       IF a \in taken
                       THEN [alert[a] EXCEPT !.noticeId = NoNotice, !.status = "DETECTED"]
                       ELSE alert[a]]
    PROVE  /\ Linked(n)' = Linked(n) \ taken
           /\ Cardinality(Linked(n)) = Cardinality(Linked(n)') + Cardinality(taken)
           /\ Cardinality(Linked(n)') \in Nat /\ Cardinality(taken) \in Nat
  <1>1. n # NoNotice /\ alert \in [Alerts -> AlertRow]
    BY NoticesAssumption DEF TypeInv, TypeOK
  <1>2. \A a \in Alerts : /\ a \notin taken => alert'[a] = alert[a]
                          /\ a \in taken => alert'[a].noticeId = NoNotice
    BY <1>1 DEF AlertRow
  <1>3. Linked(n)' = Linked(n) \ taken
    BY <1>1, <1>2 DEF Linked, AlertExists
  <1>4. PICK S \in SUBSET Alerts, T \in SUBSET Alerts : S = Linked(n) /\ T = Linked(n)'
    BY DEF Linked
  <1>5. IsFiniteSet(T) /\ IsFiniteSet(taken)
    BY <1>4, NoticesAssumption, FS_Subset
  <1>6. Cardinality(T \cup taken) = Cardinality(T) + Cardinality(taken) - Cardinality(T \cap taken)
    BY <1>5, FS_Union
  <1>7. T \cup taken = S /\ Cardinality(T \cap taken) = 0
    <2>1. T \cap taken = {} /\ T \cup taken = S
      BY <1>3, <1>4
    <2> QED
      BY <2>1, FS_EmptySet
  <1>8. PICK x \in Nat, y \in Nat : x = Cardinality(T) /\ y = Cardinality(taken)
    BY <1>5, FS_CardinalityType
  <1>9. Cardinality(S) = x + y
    <2>1. Cardinality(S) = x + y - 0
      BY <1>6, <1>7, <1>8
    <2>2. x + y - 0 = x + y
      BY ONLY <1>8
    <2> QED
      BY ONLY <2>1, <2>2
  <1> QED
    BY <1>3, <1>4, <1>8, <1>9

\* A count is an integer wherever it will be written.
LEMMA CountAfterTyped ==
    ASSUME TypeInv, NEW w \in Workers, job[w].n \in Notices, job[w].at = "count"
    PROVE  CountAfter(w) \in Int
  <1>1. job[w].op \in {"create", "add", "remove"} /\ job[w].count \in Nat
    BY NoticesAssumption DEF TypeInv, TypeOK, JobsShaped, JobShape, Idle, Job
  <1>2. PICK c \in Int, k \in Nat : c = notice[job[w].n].recordCount /\ k = job[w].count
    BY <1>1 DEF TypeInv, TypeOK, NoticeRow
  <1> QED
    BY <1>1, <1>2 DEF CountAfter

LEMMA CountStep ==
    ASSUME Overlap = FALSE, TypeInv, LinkInv, LinkInv', SerialInv, Next, NEW n \in Notices,
           CountInv(n)
    PROVE  CountInv(n)'
  <1>1. CASE ~OfRequest(n)
    <2>1. Elsewhere(n)
      BY <1>1, ElsewhereIs
    <2>2. Linked(n)' \subseteq Linked(n)
      BY <2>1 DEF Elsewhere
    <2>3. PICK x \in Nat, y \in Nat :
             x = Cardinality(Linked(n)) /\ y = Cardinality(Linked(n)') /\ y <= x
      BY <2>2, FewerLinked
    <2>4. /\ notice'[n] = notice[n] /\ interrupted \subseteq interrupted'
          /\ \A w \in Workers : job[w].n = n => job'[w] = job[w]
          /\ \A w \in Workers : job'[w].n = n =>
               \/ job'[w] = job[w]
               \/ job'[w].at # "count" /\ ~(job'[w].op = "create" /\ job'[w].at = "alerts")
      BY <2>1 DEF Elsewhere, Same, Begun
    <2>5. ASSUME NEW w \in Workers, job'[w].n = n, job'[w].op = "create", job'[w].at = "alerts"
          PROVE  Linked(n)' = {}
      BY <2>2, <2>4, <2>5 DEF CountInv
    <2>6. ASSUME n \notin interrupted', NoticeExists(n)'
          PROVE  \/ \E w \in Workers : /\ job'[w].n = n /\ job'[w].at = "count"
                                       /\ Cardinality(Linked(n)') <= CountAfter(w)'
                 \/ /\ Cardinality(Linked(n)') <= notice'[n].recordCount
                    /\ \A w \in Workers : job'[w].n = n => job'[w].at # "count"
      <3>1. n \notin interrupted /\ NoticeExists(n)
        BY <2>4, <2>6 DEF NoticeExists
      <3>2. ASSUME NEW w \in Workers, job[w].n = n, job[w].at = "count", x <= CountAfter(w)
            PROVE  job'[w].n = n /\ job'[w].at = "count" /\ y <= CountAfter(w)'
        <4>1. job'[w] = job[w] /\ notice'[job[w].n] = notice[job[w].n]
          BY <2>4, <3>2
        <4>2. CountAfter(w)' = CountAfter(w)
          BY <4>1 DEF CountAfter
        <4>3. PICK c \in Int : c = CountAfter(w)
          BY <3>2, CountAfterTyped
        <4>4. y <= c
          BY <2>3, <3>2, <4>3
        <4> QED
          BY <3>2, <4>1, <4>2, <4>3, <4>4
      <3>3. ASSUME x <= notice[n].recordCount, \A w \in Workers : job[w].n = n => job[w].at # "count"
            PROVE  /\ y <= notice'[n].recordCount
                   /\ \A w \in Workers : job'[w].n = n => job'[w].at # "count"
        <4>1. PICK c \in Int : c = notice[n].recordCount
          BY DEF TypeInv, TypeOK, NoticeRow
        <4>2. y <= c
          BY <2>3, <3>3, <4>1
        <4> QED
          BY <2>4, <3>3, <4>1, <4>2
      <3> QED
        BY <2>3, <3>1, <3>2, <3>3 DEF CountInv
    <2> QED
      BY <2>5, <2>6 DEF CountInv
  <1>2. ASSUME NEW w \in Workers, job[w].n = n, Crash(w)
        PROVE  CountInv(n)'
    BY <1>2, CutShort DEF CountInv, tables, NoticeExists
  <1>3. ASSUME NEW w \in Workers, job[w].n = n, Statements(w)
        PROVE  CountInv(n)'
    <2>1. /\ JobShape(job[w]) /\ CheckHolds(job[w]) /\ job[w] \in Job /\ notice[n] \in NoticeRow
          /\ \A v \in Workers \ {w} : job[v].n # n
          /\ job[w].n = n /\ n # NoNotice /\ alert \in [Alerts -> AlertRow]
      BY <1>3, OwnFacts
    <2>2. /\ UNCHANGED interrupted /\ \A v \in Workers \ {w} : job'[v] = job[v]
          /\ \/ OwnRow(w, n) /\ alert' = alert
             \/ OwnLinks(w, n) \/ OwnAlerts(w, n) \/ OwnRest(w, n)
      BY <1>3, OwnStatement
    \* The statement leaves a count to write, or the count that is there stands.
    <2>3. ASSUME ~(job'[w].n = n /\ job'[w].op = "create" /\ job'[w].at = "alerts"),
                 job'[w].n = n, job'[w].at = "count", Cardinality(Linked(n)') <= CountAfter(w)'
          PROVE  CountInv(n)'
      BY <2>1, <2>2, <2>3 DEF CountInv
    <2>4. ASSUME job'[w].n = n /\ job'[w].op = "create" /\ job'[w].at = "alerts" => Linked(n)' = {},
                 n \notin interrupted /\ NoticeExists(n)'
                    => Cardinality(Linked(n)') <= notice'[n].recordCount,
                 job'[w].n = n => job'[w].at # "count"
          PROVE  CountInv(n)'
      BY <2>1, <2>2, <2>4 DEF CountInv
    <2>5. /\ job[w].at = "count" /\ n \notin interrupted /\ NoticeExists(n)
               => Cardinality(Linked(n)) <= CountAfter(w)
          /\ job[w].at # "count" /\ n \notin interrupted /\ NoticeExists(n)
               => Cardinality(Linked(n)) <= notice[n].recordCount
          /\ job[w].op = "create" /\ job[w].at = "alerts" => Linked(n) = {}
      BY <2>1 DEF CountInv
    <2>6. ASSUME Linked(n)' = Linked(n), notice'[n].recordCount = notice[n].recordCount,
                 NoticeExists(n)' => NoticeExists(n), job[w].at # "count",
                 job'[w].n = n => job'[w].at # "count" /\ ~(job'[w].op = "create" /\ job'[w].at = "alerts")
          PROVE  CountInv(n)'
      BY <2>4, <2>5, <2>6
    <2>7. CASE RowInserted(w, n) /\ alert' = alert
      <3>1. notice[n].status = "UNBORN"
        BY <2>1, <2>7 DEF RowInserted, At, CheckHolds
      <3>2. Linked(n)' = {}
        BY <2>1, <2>7, <3>1 DEF LinkInv, LinkedNoticeExists, NoticeExists, NoticeStatus, Linked, AlertExists
      <3>3. notice'[n].recordCount = 0 /\ (job'[w].n = n => job'[w].at # "count")
        BY <2>1, <2>7 DEF RowInserted, NoticeWith, Goes
      <3>4. Cardinality(Linked(n)') <= 0
        BY <3>2, FS_EmptySet
      <3> QED
        BY <2>4, <3>2, <3>3, <3>4
    <2>8. CASE (CountSet(w, n) \/ CountShifted(w, n)) /\ alert' = alert
      <3>1. /\ notice'[n].recordCount = CountAfter(w) /\ notice'[n].status = notice[n].status
            /\ job[w].at = "count" /\ job'[w].at = "log"
        BY <2>1, <2>8 DEF CountSet, CountShifted, CountAfter, At, Goes, NoticeRow
      <3>2. Linked(n)' = Linked(n)
        BY <2>8 DEF Linked, AlertExists
      <3> QED
        BY <2>4, <2>5, <3>1, <3>2 DEF NoticeExists
    <2>9. CASE (StatusWritten(w, n) \/ RowReopened(w, n)) /\ alert' = alert
      <3>1. /\ notice'[n].recordCount = notice[n].recordCount /\ NoticeExists(n)
            /\ job[w].at # "count" /\ job'[w].at # "count" /\ job'[w].op # "create"
        BY <2>1, <2>9 DEF StatusWritten, RowReopened, WriteStatus, ReopenNotice, At, Goes, NoticeRow
      <3>2. Linked(n)' = Linked(n)
        BY <2>9 DEF Linked, AlertExists
      <3> QED
        BY <2>6, <3>1, <3>2
    <2>10. CASE AlertsTaken(w, n)
      <3>1. PICK taken \in SUBSET Alerts :
               /\ \A a \in taken : Open(a) /\ alert[a].noticeId = NoNotice
               /\ SetNoticeId(taken, n)
               /\ \/ Ends(w) /\ taken = {} /\ job[w].op = "add"
                  \/ /\ Goes(w, "count") /\ job'[w].cycle = job[w].cycle
                     /\ job'[w].count = Cardinality(taken)
        BY <2>10 DEF AlertsTaken
      <3>2. /\ job[w].at = "alerts" /\ notice'[n] = notice[n] /\ job[w].op \in {"create", "add"}
        BY <2>10 DEF AlertsTaken, At, Same
      <3>3. /\ Linked(n)' = Linked(n) \cup taken
            /\ Cardinality(Linked(n)') = Cardinality(Linked(n)) + Cardinality(taken)
            /\ Cardinality(Linked(n)) \in Nat /\ Cardinality(taken) \in Nat
        BY <3>1, LinkedByTaking
      <3>4. CASE Ends(w) /\ taken = {} /\ job[w].op = "add"
        BY <2>1, <2>6, <3>2, <3>3, <3>4 DEF Ends, NoticeExists
      <3>5. CASE Goes(w, "count") /\ job'[w].count = Cardinality(taken)
        <4>1. job'[w].n = n /\ job'[w].op = job[w].op /\ job'[w].at = "count"
          BY <2>1, <3>5 DEF Goes
        <4>2. CASE job[w].op = "create"
          <5>1. Cardinality(Linked(n)) = 0
            BY <2>5, <3>2, <4>2, FS_EmptySet
          <5>2. Cardinality(Linked(n)') <= job'[w].count
            BY <3>3, <3>5, <5>1
          <5> QED
            BY <2>3, <4>1, <4>2, <5>2 DEF CountAfter
        <4>3. CASE job[w].op = "add"
          <5>1. ASSUME n \notin interrupted, NoticeExists(n)
                PROVE  Cardinality(Linked(n)') <= notice'[n].recordCount + job'[w].count
            <6>1. PICK x \in Nat, y \in Nat, c \in Int :
                    x = Cardinality(Linked(n)) /\ y = Cardinality(taken) /\ c = notice[n].recordCount
              BY <2>1, <3>3 DEF NoticeRow
            <6>2. x <= c
              BY <2>5, <3>2, <5>1, <6>1
            <6>3. x + y <= c + y
              BY <6>1, <6>2
            <6> QED
              BY <3>2, <3>3, <3>5, <6>1, <6>3
          <5>2. CASE n \notin interrupted /\ NoticeExists(n)
            BY <2>3, <4>1, <4>3, <5>1, <5>2 DEF CountAfter
          <5>3. CASE n \in interrupted \/ ~NoticeExists(n)
            BY <2>1, <2>2, <3>2, <4>1, <4>3, <5>3 DEF CountInv, NoticeExists
          <5> QED
            BY <5>2, <5>3
        <4> QED
          BY <3>2, <4>2, <4>3
      <3> QED
        BY <3>1, <3>4, <3>5
    <2>11. CASE AlertsRemoved(w, n)
      <3>1. PICK taken \in SUBSET Linked(n) :
               /\ alert' = [a \in Alerts |->
                              IF a \in taken
                              THEN [alert[a] EXCEPT !.noticeId = NoNotice, !.status = "DETECTED"]
                              ELSE alert[a]]
               /\ \/ Ends(w) /\ taken = {}
                  \/ /\ Goes(w, "count") /\ job'[w].cycle = job[w].cycle
                     /\ job'[w].count = Cardinality(taken)
        BY <2>11 DEF AlertsRemoved
      <3>2. /\ job[w].at = "alerts" /\ notice'[n] = notice[n] /\ job[w].op = "remove"
        BY <2>11 DEF AlertsRemoved, At, Same
      <3>3. /\ Linked(n)' = Linked(n) \ taken
            /\ Cardinality(Linked(n)) = Cardinality(Linked(n)') + Cardinality(taken)
            /\ Cardinality(Linked(n)') \in Nat /\ Cardinality(taken) \in Nat
        BY <3>1, LinkedByRemoving
      <3>4. CASE Ends(w) /\ taken = {}
        BY <2>1, <2>6, <3>2, <3>3, <3>4 DEF Ends, NoticeExists
      <3>5. CASE Goes(w, "count") /\ job'[w].count = Cardinality(taken)
        <4>1. job'[w].n = n /\ job'[w].op = "remove" /\ job'[w].at = "count"
          BY <2>1, <3>2, <3>5 DEF Goes
        <4>2. CASE n \notin interrupted /\ NoticeExists(n)
          <5>1. PICK x \in Nat, y \in Nat, c \in Int :
                  x = Cardinality(Linked(n)') /\ y = Cardinality(taken) /\ c = notice[n].recordCount
            BY <2>1, <3>3 DEF NoticeRow
          <5>2. x + y <= c
            BY <2>5, <3>2, <3>3, <4>2, <5>1
          <5>3. x <= c - y
            BY <5>1, <5>2
          <5>4. Cardinality(Linked(n)') <= notice'[n].recordCount - job'[w].count
            BY <3>2, <3>5, <5>1, <5>3
          <5> QED
            BY <2>3, <4>1, <5>4 DEF CountAfter
        <4>3. CASE n \in interrupted \/ ~NoticeExists(n)
          BY <2>1, <2>2, <3>2, <4>1, <4>3 DEF CountInv, NoticeExists
        <4> QED
          BY <4>2, <4>3
      <3> QED
        BY <3>1, <3>4, <3>5
    <2>12. CASE AlertsUnlinked(w, n)
      <3>1. /\ SetNoticeId(Linked(n), NoNotice) /\ notice'[n] = notice[n] /\ job[w].at = "alerts"
            /\ job[w].op = "delete" /\ job'[w].op = "delete" /\ job'[w].at = "notice"
        BY <2>12 DEF AlertsUnlinked, At, Same, Goes
      <3>2. Linked(n)' = {}
        BY <2>1, <3>1, SetNoticeIdTyped DEF Linked, AlertExists
      <3>3. Cardinality(Linked(n)') = 0 /\ 0 <= Cardinality(Linked(n))
        BY <3>2, FS_EmptySet, FewerLinked
      <3>4. ASSUME n \notin interrupted, NoticeExists(n)'
            PROVE  Cardinality(Linked(n)') <= notice'[n].recordCount
        <4>1. PICK x \in Nat, c \in Int : x = Cardinality(Linked(n)) /\ c = notice[n].recordCount
          BY <2>1, <3>2, FewerLinked DEF NoticeRow
        <4>2. x <= c
          BY <2>5, <3>1, <3>4, <4>1 DEF NoticeExists
        <4>3. 0 <= c
          BY <4>1, <4>2
        <4> QED
          BY <3>1, <3>3, <4>1, <4>3
      <3> QED
        BY <2>4, <3>1, <3>4
    <2>13. CASE RowDeleted(w, n)
      <3>1. ~NoticeExists(n)' /\ job'[w].n # n
        BY <2>1, <2>13 DEF RowDeleted, NoticeWith, Ends, NoticeExists, NoticeStatus
      <3> QED
        BY <2>4, <3>1
    <2>14. CASE OwnAlerts(w, n)
      <3>1. /\ notice'[n] = notice[n] /\ job[w].at = "alerts" /\ job'[w].at # "count"
            /\ job'[w].op # "create"
        BY <2>14 DEF OwnAlerts, Same, At, Goes
      <3>2. Linked(n)' = Linked(n)
        <4> DEFINE O == {a \in Linked(n) : Open(a)}
                   K == {a \in Linked(n) : alert[a].status # "CANCELLED"}
        <4>0. /\ O \subseteq Linked(n) /\ K \subseteq Linked(n)
              /\ \/ SetAlertStatus(O, "FILE_GENERATED")
                 \/ SetAlertStatus(K, "SUBMITTED")
                 \/ SetAlertStatus(K, "DETECTED")
          BY <2>14 DEF OwnAlerts
        <4> HIDE DEF O, K
        <4>1. PICK S \in SUBSET Linked(n), st \in {"FILE_GENERATED", "SUBMITTED", "DETECTED"} :
                 SetAlertStatus(S, st)
          BY <4>0
        <4>2. \A a \in Alerts : /\ alert'[a].noticeId = alert[a].noticeId
                                /\ a \notin S => alert'[a] = alert[a]
                                /\ a \in S => alert'[a].status \in AlertStatus
          BY <2>1, <4>1, SetAlertStatusTyped DEF AlertStatus
        <4> QED
          BY <4>1, <4>2 DEF Linked, AlertExists
      <3> QED
        BY <2>6, <3>1, <3>2 DEF NoticeExists
    <2>15. CASE OwnRest(w, n)
      <3>1. notice'[n] = notice[n] /\ Linked(n)' = Linked(n)
        BY <2>15 DEF OwnRest, Linked, AlertExists
      <3>2. CASE job[w].at # "count"
        <4>1. job'[w].n = n => job'[w].at # "count" /\ ~(job'[w].op = "create" /\ job'[w].at = "alerts")
          BY <2>1, <2>15 DEF OwnRest, Goes, Ends, At
        <4> QED
          BY <2>6, <3>1, <3>2, <4>1 DEF NoticeExists
      <3>3. CASE job[w].at = "count"
        <4>1. ~NoticeExists(n) /\ job'[w].n # n
          BY <2>1, <2>15, <3>3 DEF OwnRest, At, Ends, RowGone
        <4> QED
          BY <2>4, <3>1, <4>1 DEF NoticeExists
      <3> QED
        BY <3>2, <3>3
    <2> QED
      BY <2>2, <2>7, <2>8, <2>9, <2>10, <2>11, <2>12, <2>13, <2>14, <2>15 DEF OwnRow, OwnLinks
  <1> QED
    BY <1>1, <1>2, <1>3 DEF OfRequest

-----------------------------------------------------------------------------
(* What a settled notice shows.                                            *)

StoryInv == \A n \in Notices : RowInv(n) /\ TrailInv(n) /\ CountInv(n)

LEMMA StoryCorrect ==
    ASSUME Overlap = FALSE
    PROVE  Spec => [](TypeInv /\ LinkInv /\ SerialInv /\ StoryInv)
  <1>1. Init => StoryInv
    <2> SUFFICES ASSUME Init, NEW n \in Notices
                 PROVE  RowInv(n) /\ TrailInv(n) /\ CountInv(n)
      BY DEF StoryInv
    <2>1. /\ notice[n] = NoticeWith("UNBORN") /\ ~NoticeExists(n)
          /\ \A w \in Workers : job[w].n # n
      BY NoticesAssumption DEF Init, Idle, NoticeWith, NoticeExists, NoticeStatus
    <2> QED
      BY <2>1 DEF RowInv, TrailInv, CountInv, NoticeWith, Published, Filed
  <1>2. TypeInv /\ LinkInv /\ LinkInv' /\ SerialInv /\ StoryInv /\ [Next]_vars => StoryInv'
    <2> SUFFICES ASSUME TypeInv, LinkInv, LinkInv', SerialInv, StoryInv, [Next]_vars,
                        NEW n \in Notices
                 PROVE  RowInv(n)' /\ TrailInv(n)' /\ CountInv(n)'
      BY DEF StoryInv
    <2>0. RowInv(n) /\ TrailInv(n) /\ CountInv(n)
      BY DEF StoryInv
    <2>1. CASE Next
      BY <2>0, <2>1, RowStep, TrailStep, CountStep
    <2>2. CASE UNCHANGED vars
      <3>1. UNCHANGED <<alert, notice, file, trail, job, interrupted>>
        BY <2>2 DEF vars
      <3>2. Linked(n)' = Linked(n) /\ \A w \in Workers : CountAfter(w)' = CountAfter(w)
        BY <3>1 DEF Linked, AlertExists, CountAfter
      <3>3. CountInv(n)'
        BY <2>0, <3>1, <3>2 DEF CountInv, NoticeExists
      <3>4. RowInv(n)' /\ TrailInv(n)'
        BY <2>0, <3>1 DEF RowInv, TrailInv, Told, NoticeExists
      <3> QED
        BY <3>3, <3>4
    <2> QED
      BY <2>1, <2>2
  <1> QED
    BY <1>1, <1>2, SerialCorrect, PTL DEF Spec

\* With one request at a time on a notice, the recordCount of a settled notice
\* is never below the number of alerts it holds: create, add and remove store
\* in their second statement what the first one moved.
THEOREM CountCovers ==
    ASSUME Overlap = FALSE
    PROVE  Spec => []RecordCountCoversLinks
  <1>1. StoryInv => RecordCountCoversLinks
    BY DEF StoryInv, CountInv, RecordCountCoversLinks, Settled, Busy
  <1> QED
    BY <1>1, StoryCorrect, PTL

\* With one request at a time on a notice, the last event of a settled notice
\* tells its status and its amendment cycle: no request that ran to its end
\* leaves a status unlogged, or logs one under the cycle before an amendment.
THEOREM TrailTells ==
    ASSUME Overlap = FALSE
    PROVE  Spec => []AuditTrailCurrent
  <1>1. StoryInv => AuditTrailCurrent
    BY DEF StoryInv, TrailInv, Told, AuditTrailCurrent, Settled, Busy
  <1> QED
    BY <1>1, StoryCorrect, PTL

-----------------------------------------------------------------------------
(* Alerts follow their notice, when clients do not set their status        *)
(* themselves: they cancel alerts, or change other fields.                 *)

\* A patch in flight carries no status, or cancels.
PatchHarmless(j) ==
    j.op = "patch" => \/ j.to = "UNBORN"
                      \/ j.to = "CANCELLED" /\ j.seen = "CANCELLED"
PatchInv == \A w \in Workers : PatchHarmless(job[w])

LEMMA PatchStep ==
    ASSUME Overlap = FALSE, PatchStatuses \subseteq {"CANCELLED", "UNBORN"},
           TypeInv, PatchInv, Next
    PROVE  PatchInv'
  <1>t. job \in [Workers -> Job] /\ \A w \in Workers : PatchHarmless(job[w])
    BY DEF TypeInv, TypeOK, PatchInv
  <1>1. ASSUME NEW w \in Workers, \A v \in Workers \ {w} : job'[v] = job[v],
               PatchHarmless(job'[w])
        PROVE  PatchInv'
    BY <1>t, <1>1 DEF PatchInv, PatchHarmless
  <1>2. ASSUME NEW w \in Workers, NEW r \in Job, job' = [job EXCEPT ![w] = r],
               PatchHarmless(r)
        PROVE  PatchInv'
    BY <1>t, <1>1, <1>2
  <1>3. ASSUME NEW w \in Workers, Finish(w)
        PROVE  PatchInv'
    <2>1. Idle \in Job /\ PatchHarmless(Idle)
      BY DEF Idle, Job, Op, Step, PatchHarmless
    <2> QED
      BY <1>2, <1>3, <2>1 DEF Finish
  <1>4. ASSUME NEW w \in Workers, Requests(w)
        PROVE  PatchInv'
    <2>1. /\ \A v \in Workers \ {w} : job'[v] = job[v]
          /\ \/ job'[w].op # "patch"
             \/ \E a \in Alerts, to \in PatchStatuses : StartPatch(w, a, to)
      BY <1>4, RequestBegins
    <2>2. ASSUME NEW a \in Alerts, NEW to \in PatchStatuses, StartPatch(w, a, to)
          PROVE  PatchHarmless(job'[w])
      <3> DEFINE s == IF to = "UNBORN" THEN alert[a].status ELSE to
      <3>1. job'[w] = [Idle EXCEPT !.op = "patch", !.at = "patch", !.ids = {a}, !.seen = s, !.to = to]
        BY <1>t, <2>2 DEF StartPatch
      <3>2. job'[w].to = to /\ job'[w].seen = s
        BY <3>1 DEF Idle
      <3> QED
        BY <3>2 DEF PatchHarmless
    <2> QED
      BY <1>1, <2>1, <2>2 DEF PatchHarmless
  <1>5. ASSUME NEW w \in Workers, Statements(w)
        PROVE  PatchInv'
    <2> DEFINE j == job[w]
    <2>0. j \in Job /\ PatchHarmless(j)
      BY <1>t
    <2>1. ASSUME NEW step, Continue(w, step)
          PROVE  PatchInv'
      <3>1. job' = [job EXCEPT ![w] = [j EXCEPT !.at = step]]
        BY <2>1 DEF Continue
      <3>2. PatchHarmless([j EXCEPT !.at = step])
        BY <2>0 DEF PatchHarmless, Job
      <3> QED
        BY <1>t, <1>1, <3>1, <3>2
    <2>2. ASSUME NEW step, NEW ids, NEW c,
                 \/ job' = [job EXCEPT ![w] = [j EXCEPT !.at = step, !.ids = ids, !.count = c]]
                 \/ job' = [job EXCEPT ![w] = [j EXCEPT !.at = step, !.ids = ids]]
                 \/ job' = [job EXCEPT ![w] = [j EXCEPT !.at = step, !.cycle = c]]
          PROVE  PatchInv'
      <3>1. PICK r : /\ job' = [job EXCEPT ![w] = r]
                     /\ \/ r = [j EXCEPT !.at = step, !.ids = ids, !.count = c]
                        \/ r = [j EXCEPT !.at = step, !.ids = ids]
                        \/ r = [j EXCEPT !.at = step, !.cycle = c]
        BY <2>2
      <3>2. PatchHarmless(r)
        BY <2>0, <3>1 DEF PatchHarmless, Job
      <3> QED
        BY <1>t, <1>1, <3>1, <3>2
    <2>3. CASE AssignAlerts(w) \/ AddAlerts(w) \/ RemoveAlerts(w)
      <3>1. Finish(w) \/ \E c : job' = [job EXCEPT ![w] = [j EXCEPT !.at = "count", !.ids = {}, !.count = c]]
        BY <2>3 DEF AssignAlerts, AddAlerts, RemoveAlerts
      <3> QED
        BY <1>3, <2>2, <3>1
    <2>4. CASE SnapshotAlerts(w) \/ PutFile(w) \/ RereadNotice(w) \/ ReopenNotice(w)
      <3>1. CASE SnapshotAlerts(w)
        <4>1. \/ Finish(w)
              \/ job' = [job EXCEPT ![w] = [j EXCEPT !.at = "put", !.ids = Linked(j.n) \cap Reportable]]
          BY <3>1 DEF SnapshotAlerts
        <4> QED
          BY <1>3, <2>2, <4>1
      <3>2. CASE PutFile(w)
        <4>1. job' = [job EXCEPT ![w] = [j EXCEPT !.at = "reread", !.ids = {}]]
          BY <3>2 DEF PutFile
        <4> QED
          BY <2>2, <4>1
      <3>3. CASE RereadNotice(w)
        <4>1. job' = [job EXCEPT ![w] = [j EXCEPT !.at = "notice", !.cycle = notice[j.n].cycle]]
          BY <3>3 DEF RereadNotice
        <4> QED
          BY <2>2, <4>1
      <3>4. CASE ReopenNotice(w)
        <4>1. job' = [job EXCEPT ![w] = [j EXCEPT !.at = "log", !.cycle = notice[j.n].cycle + 1]]
          BY <3>4 DEF ReopenNotice
        <4> QED
          BY <2>2, <4>1
      <3> QED
        BY <2>4, <3>1, <3>2, <3>3, <3>4
    <2>5. CASE \/ InsertNotice(w) \/ SetRecordCount(w) \/ UnlinkAlerts(w) \/ WriteStatus(w)
               \/ MarkAlertsGenerated(w) \/ MarkAlertsSubmitted(w) \/ ResetAlerts(w)
               \/ ShiftRecordCount(w)
      <3>1. \E step : Continue(w, step)
        BY <2>5 DEF InsertNotice, SetRecordCount, UnlinkAlerts, WriteStatus, MarkAlertsGenerated,
           MarkAlertsSubmitted, ResetAlerts, ShiftRecordCount
      <3> QED
        BY <2>1, <3>1
    <2>6. CASE DeleteNotice(w) \/ (\E put \in BOOLEAN : WritePatch(w, put)) \/ RowGone(w) \/ LogEvent(w)
      BY <1>3, <2>6 DEF DeleteNotice, WritePatch, RowGone, LogEvent
    <2> QED
      BY <1>5, <2>3, <2>4, <2>5, <2>6 DEF Statements
  <1>6. ASSUME NEW w \in Workers, Crash(w)
        PROVE  PatchInv'
    BY <1>3, <1>6 DEF Crash
  <1>7. ASSUME (\E a \in Alerts : CreateAlert(a) \/ DeadlinePasses(a) \/ DeleteAlert(a)) \/ ListAlerts
        PROVE  PatchInv'
    BY <1>t, <1>7 DEF CreateAlert, DeadlinePasses, DeleteAlert, ListAlerts, PatchInv, PatchHarmless
  <1> QED
    BY <1>4, <1>5, <1>6, <1>7 DEF Next

\* A step elsewhere leaves the status of the alerts of n as it is, cancels, or marks overdue.
LEMMA StatusElsewhere ==
    ASSUME Overlap = FALSE, TypeInv, LinkInv, PatchInv, Next, NEW n \in Notices, ~OfRequest(n),
           NEW a \in Linked(n), a \in Linked(n)'
    PROVE  \/ alert'[a].status = alert[a].status
           \/ alert'[a].status = "CANCELLED"
           \/ Open(a) /\ alert'[a].status = "OVERDUE"
  <1>t. /\ job \in [Workers -> Job] /\ JobsShaped /\ alert \in [Alerts -> AlertRow]
        /\ a \in Alerts /\ AlertExists(a) /\ alert[a].noticeId = n /\ alert'[a].status \in AlertStatus
        /\ n # NoNotice
    BY NoticesAssumption DEF TypeInv, TypeOK, Linked, AlertExists
  <1>1. ASSUME NEW w \in Workers, Requests(w) \/ Crash(w)
        PROVE  alert'[a] = alert[a]
    BY <1>1, RequestBegins DEF Crash, tables
  <1>2. ASSUME NEW w \in Workers, Statements(w), job[w].n \in Notices
        PROVE  alert'[a].status = alert[a].status
    <2>1. a \notin Linked(job[w].n)
      BY <1>t, <1>2 DEF OfRequest, Linked
    <2> QED
      BY <1>t, <1>2, <2>1, StatusApart
  <1>3. ASSUME NEW w \in Workers, Statements(w), job[w].n \notin Notices
        PROVE  alert'[a].status = alert[a].status \/ alert'[a].status = "CANCELLED"
    <2>2. PICK put \in BOOLEAN : WritePatch(w, put)
      BY <1>3, PatchOnly
    <2> DEFINE j == job[w]
               closing == j.seen \in {"SUBMITTED", "CANCELLED"}
               st(b) == CASE j.to = "UNBORN" -> alert[b].status
                          [] j.to # "UNBORN" /\ b \in past /\ ~closing -> "OVERDUE"
                          [] OTHER -> j.to
               od(b) == CASE b \in Dated -> b \in past /\ ~closing
                          [] b \notin Dated /\ put -> alert[b].isOverdue /\ j.to = "CANCELLED"
                          [] b \notin Dated /\ ~put /\ j.to = "SUBMITTED" -> FALSE
                          [] b \notin Dated /\ ~put /\ j.to = "OVERDUE" -> TRUE
                          [] OTHER -> alert[b].isOverdue
    <2>3. alert' = [b \in Alerts |->
                      IF b \in j.ids /\ AlertExists(b)
                      THEN [alert[b] EXCEPT !.status = st(b), !.isOverdue = od(b)]
                      ELSE alert[b]]
      BY <2>2 DEF WritePatch
    <2>4. PatchHarmless(j) /\ j.op = "patch"
      BY <2>2 DEF WritePatch, At, PatchInv
    <2>5. st(a) = alert[a].status \/ st(a) = "CANCELLED"
      BY <2>4 DEF PatchHarmless
    <2> HIDE DEF st, od
    <2>6. alert'[a].status = alert[a].status \/ alert'[a].status = st(a)
      BY <1>t, <2>3 DEF AlertRow
    <2> QED
      BY <2>5, <2>6
  <1>4. ASSUME NEW b \in Alerts, CreateAlert(b) \/ DeadlinePasses(b) \/ DeleteAlert(b)
        PROVE  alert'[a].status = alert[a].status
    <2>1. CASE CreateAlert(b)
      BY <1>t, <2>1 DEF CreateAlert, AlertExists, AlertStatus
    <2>2. CASE DeadlinePasses(b)
      BY <2>2 DEF DeadlinePasses, tables
    <2>3. CASE DeleteAlert(b)
      BY <1>t, <2>3 DEF DeleteAlert, AlertWith, AlertStatus
    <2> QED
      BY <1>4, <2>1, <2>2, <2>3
  <1>5. ASSUME ListAlerts
        PROVE  alert'[a].status = alert[a].status \/ (Open(a) /\ alert'[a].status = "OVERDUE")
    BY <1>t, <1>5 DEF ListAlerts, AlertRow
  <1> QED
    BY <1>1, <1>2, <1>3, <1>4, <1>5 DEF Next

\* A filing that has yet to mark the alerts, a revert that has yet to reopen the row.
Marking(j) == j.op = "submit" /\ j.at = "alerts"
Reopening(j) == j.op = "revert" /\ j.at = "notice"

NoneSubmitted(n) == \A a \in Linked(n) : alert[a].status # "SUBMITTED"
Following(n) ==
    \A a \in Linked(n) : IF notice[n].status \in Filed THEN ~Open(a)
                                                       ELSE alert[a].status # "SUBMITTED"

FollowInv(n) ==
    n \notin interrupted =>
        \/ \E w \in Workers : job[w].n = n /\ Marking(job[w])
        \/ \E w \in Workers : job[w].n = n /\ Reopening(job[w]) /\ NoneSubmitted(n)
        \/ Following(n) /\ \A w \in Workers : job[w].n = n => ~Reopening(job[w])

LEMMA FollowStep ==
    ASSUME Overlap = FALSE, TypeInv, LinkInv, LinkInv', SerialInv, PatchInv, Next,
           NEW n \in Notices, RowInv(n), FollowInv(n)
    PROVE  FollowInv(n)'
  <1>e. ASSUME Linked(n)' = {}, \A w \in Workers : job'[w].n = n => ~Reopening(job'[w])
        PROVE  FollowInv(n)'
    BY <1>e DEF FollowInv, Following
  <1>1. CASE ~OfRequest(n)
    <2>1. Elsewhere(n)
      BY <1>1, ElsewhereIs
    <2>2. /\ notice'[n] = notice[n] /\ interrupted \subseteq interrupted'
          /\ \A w \in Workers : job[w].n = n => job'[w] = job[w]
          /\ \A w \in Workers : job'[w].n = n => job'[w] = job[w] \/ ~Reopening(job'[w])
          /\ \A a \in Linked(n)' : a \in Linked(n)
      BY <2>1 DEF Elsewhere, Same, Begun, Reopening
    <2>3. \A a \in Linked(n)' : \/ alert'[a].status = alert[a].status
                                \/ alert'[a].status = "CANCELLED"
                                \/ Open(a) /\ alert'[a].status = "OVERDUE"
      BY <1>1, <2>2, StatusElsewhere
    <2>4. NoneSubmitted(n) => NoneSubmitted(n)'
      BY <2>2, <2>3 DEF NoneSubmitted
    <2>5. Following(n) => Following(n)'
      <3> SUFFICES ASSUME Following(n), NEW a \in Linked(n)'
                   PROVE  IF notice'[n].status \in Filed THEN ~Open(a)'
                                                         ELSE alert'[a].status # "SUBMITTED"
        BY DEF Following
      <3>1. a \in Linked(n) /\ AlertExists(a)
        BY <2>2 DEF Linked
      <3>2. CASE notice[n].status \in Filed
        BY <2>2, <2>3, <3>1, <3>2 DEF Following, Open
      <3>3. CASE notice[n].status \notin Filed
        BY <2>2, <2>3, <3>1, <3>3 DEF Following
      <3> QED
        BY <3>2, <3>3
    <2> QED
      BY <2>2, <2>4, <2>5 DEF FollowInv
  <1>2. ASSUME NEW w \in Workers, job[w].n = n, Crash(w)
        PROVE  FollowInv(n)'
    <2>1. /\ \A v \in Workers : job'[v].n # n
          /\ n \in interrupted' \/ ~NoticeExists(n)'
      BY <1>2, CutShort DEF tables, NoticeExists
    <2>2. ~NoticeExists(n)' => Linked(n)' = {}
      BY NoticesAssumption DEF LinkInv, LinkedNoticeExists, Linked
    <2> QED
      BY <1>e, <2>1, <2>2 DEF FollowInv
  <1>3. ASSUME NEW w \in Workers, job[w].n = n, Statements(w)
        PROVE  FollowInv(n)'
    <2>1. /\ JobShape(job[w]) /\ CheckHolds(job[w]) /\ job[w] \in Job /\ notice[n] \in NoticeRow
          /\ \A v \in Workers \ {w} : job[v].n # n
          /\ job[w].n = n /\ n # NoNotice /\ alert \in [Alerts -> AlertRow]
      BY <1>3, OwnFacts
    <2>2. /\ UNCHANGED interrupted /\ \A v \in Workers \ {w} : job'[v] = job[v]
          /\ \/ OwnRow(w, n) /\ alert' = alert
             \/ OwnLinks(w, n) \/ OwnAlerts(w, n) \/ OwnRest(w, n)
      BY <1>3, OwnStatement
    <2>3. ASSUME n \notin interrupted => Following(n)', job'[w].n = n => ~Reopening(job'[w])
          PROVE  FollowInv(n)'
      BY <2>1, <2>2, <2>3 DEF FollowInv
    <2>4. n \notin interrupted =>
            /\ ~Marking(job[w]) /\ ~Reopening(job[w]) => Following(n)
            /\ Reopening(job[w]) => NoneSubmitted(n)
      BY <2>1 DEF FollowInv, Marking, Reopening
    \* An alert of a notice that was not filed is not submitted, when neither request is half way.
    <2>5. ASSUME ~Marking(job[w]), ~Reopening(job[w]), notice[n].status \notin Filed,
                 notice'[n].status \notin Filed, job'[w].n = n => ~Reopening(job'[w]),
                 \A a \in Linked(n)' : \/ a \in Linked(n) /\ alert'[a].status = alert[a].status
                                       \/ alert'[a].status # "SUBMITTED"
          PROVE  FollowInv(n)'
      BY <2>3, <2>4, <2>5 DEF Following
    <2>6. CASE RowInserted(w, n)
      <3>1. notice[n].status = "UNBORN" /\ alert' = alert
        BY <2>1, <2>2, <2>6 DEF RowInserted, At, CheckHolds, InsertNotice
      <3>2. Linked(n)' = {}
        BY <2>1, <3>1 DEF LinkInv, LinkedNoticeExists, NoticeExists, NoticeStatus, Linked, AlertExists
      <3> QED
        BY <1>e, <2>1, <2>2, <2>6, <3>2 DEF RowInserted, Goes, Reopening, At
    <2>7. CASE CountSet(w, n) \/ CountShifted(w, n)
      <3>1. /\ notice'[n].status = notice[n].status /\ notice[n].status = "DRAFT" /\ alert' = alert
            /\ job[w].op \in {"create", "add", "remove"} /\ job'[w].op = job[w].op
        BY <2>1, <2>7 DEF CountSet, CountShifted, NoticeRow, At, CheckHolds, Goes,
           SetRecordCount, ShiftRecordCount
      <3>2. Linked(n)' = Linked(n)
        BY <3>1 DEF Linked, AlertExists
      <3> QED
        BY <2>5, <3>1, <3>2 DEF Marking, Reopening, Filed
    <2>8. CASE StatusWritten(w, n)
      <3>0. alert' = alert
        BY <2>8 DEF StatusWritten, WriteStatus
      <3>1. /\ notice'[n].status = job[w].to /\ alert' = alert /\ job[w].at = "notice"
            /\ job[w].op \in {"generate", "submit", "acknowledge", "rebuke"} /\ job'[w].op = job[w].op
        BY <2>1, <2>8, <3>0 DEF StatusWritten, NoticeRow, At, Goes
      <3>2. Linked(n)' = Linked(n) /\ \A a \in Alerts : Open(a)' <=> Open(a)
        BY <3>1 DEF Linked, AlertExists, Open
      <3>3. CASE job[w].op = "submit"
        <4>1. job'[w].n = n /\ Marking(job'[w])
          BY <2>1, <2>8, <3>1, <3>3 DEF StatusWritten, Goes, Marking
        <4> QED
          BY <4>1 DEF FollowInv
      <3>4. CASE job[w].op = "generate"
        <4>1. notice[n].status = "DRAFT" /\ job[w].to = "GENERATED"
          BY <2>1, <3>1, <3>4 DEF CheckHolds, JobShape, Idle
        <4> QED
          BY <2>5, <3>1, <3>2, <3>4, <4>1 DEF Marking, Reopening, Filed
      <3>5. CASE job[w].op \in {"acknowledge", "rebuke"}
        <4>1. notice[n].status = "SUBMITTED" /\ job[w].to \in {"ACKNOWLEDGED", "REBUKED"}
          BY <2>1, <3>1, <3>5 DEF CheckHolds, JobShape, Idle
        <4>2. n \notin interrupted => Following(n)
          BY <2>4, <3>5 DEF Marking, Reopening
        <4>3. Following(n) => Following(n)'
          BY <3>1, <3>2, <4>1 DEF Following, Filed, Linked
        <4> QED
          BY <2>3, <3>1, <3>5, <4>2, <4>3 DEF Reopening
      <3> QED
        BY <3>1, <3>3, <3>4, <3>5
    <2>9. CASE RowReopened(w, n)
      <3>0. alert' = alert
        BY <2>9 DEF RowReopened, ReopenNotice
      <3>1. /\ notice'[n].status = "DRAFT" /\ alert' = alert /\ Reopening(job[w]) /\ job'[w].at = "log"
        BY <2>1, <2>9, <3>0 DEF RowReopened, NoticeRow, At, Goes, Reopening
      <3>2. n \notin interrupted => NoneSubmitted(n)
        BY <2>4, <3>1
      <3>3. NoneSubmitted(n) => Following(n)'
        BY <3>1 DEF NoneSubmitted, Following, Filed, Linked, AlertExists
      <3> QED
        BY <2>3, <3>1, <3>2, <3>3 DEF Reopening
    <2>10. CASE AlertsTaken(w, n)
      <3>1. PICK taken \in SUBSET Alerts :
               /\ \A a \in taken : Open(a) /\ alert[a].noticeId = NoNotice
               /\ SetNoticeId(taken, n)
        BY <2>10 DEF AlertsTaken
      <3>2. /\ job[w].at = "alerts" /\ notice'[n] = notice[n] /\ job[w].op \in {"create", "add"}
            /\ Ends(w) \/ job'[w].op = job[w].op
        BY <2>10 DEF AlertsTaken, At, Same, Goes
      <3>3. notice[n].status = "DRAFT"
        BY <2>1, <3>2 DEF CheckHolds
      <3>4. Linked(n)' = Linked(n) \cup taken /\ \A a \in Alerts : alert'[a].status = alert[a].status
        BY <2>1, <3>1, LinkedByTaking, SetNoticeIdTyped
      <3>5. \A a \in Linked(n)' : \/ a \in Linked(n) /\ alert'[a].status = alert[a].status
                                  \/ alert'[a].status # "SUBMITTED"
        BY <3>1, <3>4 DEF Open, Linked
      <3> QED
        BY <2>1, <2>5, <3>2, <3>3, <3>5 DEF Marking, Reopening, Filed, Ends
    <2>11. CASE AlertsRemoved(w, n)
      <3>1. PICK taken \in SUBSET Linked(n) :
               alert' = [a \in Alerts |->
                           IF a \in taken
                           THEN [alert[a] EXCEPT !.noticeId = NoNotice, !.status = "DETECTED"]
                           ELSE alert[a]]
        BY <2>11 DEF AlertsRemoved
      <3>2. /\ job[w].at = "alerts" /\ notice'[n] = notice[n] /\ job[w].op = "remove"
            /\ Ends(w) \/ job'[w].op = job[w].op
        BY <2>11 DEF AlertsRemoved, At, Same, Goes
      <3>3. notice[n].status = "DRAFT"
        BY <2>1, <3>2 DEF CheckHolds
      <3>4. Linked(n)' = Linked(n) \ taken
        BY <3>1, LinkedByRemoving
      <3>5. \A a \in Linked(n)' : a \in Linked(n) /\ alert'[a].status = alert[a].status
        BY <3>1, <3>4 DEF Linked
      <3> QED
        BY <2>1, <2>5, <3>2, <3>3, <3>5 DEF Marking, Reopening, Filed, Ends
    <2>12. CASE AlertsUnlinked(w, n) \/ RowDeleted(w, n)
      <3>1. SetNoticeId(Linked(n), NoNotice) /\ (Ends(w) \/ job'[w].op = job[w].op) /\ job[w].op = "delete"
        BY <2>12 DEF AlertsUnlinked, RowDeleted, Goes, At
      <3>2. Linked(n)' = {}
        BY <2>1, <3>1, SetNoticeIdTyped DEF Linked, AlertExists
      <3> QED
        BY <1>e, <2>1, <2>2, <3>1, <3>2 DEF Ends, Reopening
    <2>13. CASE OwnAlerts(w, n)
      <3> DEFINE O == {a \in Linked(n) : Open(a)}
                 K == {a \in Linked(n) : alert[a].status # "CANCELLED"}
      <3>1. /\ notice'[n] = notice[n] /\ job[w].at = "alerts" /\ job'[w].op = job[w].op
            /\ job'[w].n = n /\ O \subseteq Linked(n) /\ K \subseteq Linked(n)
            /\ \/ job[w].op = "generate" /\ SetAlertStatus(O, "FILE_GENERATED")
               \/ job[w].op = "submit" /\ SetAlertStatus(K, "SUBMITTED") /\ job'[w].at = "log"
               \/ job[w].op = "revert" /\ SetAlertStatus(K, "DETECTED") /\ job'[w].at = "notice"
        BY <2>1, <2>13 DEF OwnAlerts, Same, At, Goes
      <3>2. ASSUME NEW S \in SUBSET Linked(n), NEW st \in {"FILE_GENERATED", "SUBMITTED", "DETECTED"},
                   SetAlertStatus(S, st)
            PROVE  /\ Linked(n)' = Linked(n)
                   /\ \A a \in Linked(n) : IF a \in S THEN alert'[a].status = st ELSE alert'[a] = alert[a]
        <4>1. \A a \in Alerts : /\ alert'[a].noticeId = alert[a].noticeId
                                /\ a \notin S => alert'[a] = alert[a]
                                /\ a \in S => alert'[a].status = st
          BY <2>1, <3>2, SetAlertStatusTyped DEF AlertStatus
        <4>2. st \in AlertStatus
          BY DEF AlertStatus
        <4> QED
          BY <4>1, <4>2 DEF Linked, AlertExists
      <3>3. CASE job[w].op = "generate" /\ SetAlertStatus(O, "FILE_GENERATED")
        <4>1. notice[n].status = "GENERATED"
          BY <2>1, <3>1, <3>3 DEF CheckHolds
        <4>2. Linked(n)' = Linked(n) /\ \A a \in Linked(n) :
                IF a \in O THEN alert'[a].status = "FILE_GENERATED" ELSE alert'[a] = alert[a]
          BY <3>1, <3>2, <3>3
        <4>3. \A a \in Linked(n)' : \/ a \in Linked(n) /\ alert'[a].status = alert[a].status
                                    \/ alert'[a].status # "SUBMITTED"
          BY <4>2
        <4> QED
          BY <2>5, <3>1, <3>3, <4>1, <4>3 DEF Marking, Reopening, Filed
      <3>4. CASE job[w].op = "submit" /\ SetAlertStatus(K, "SUBMITTED") /\ job'[w].at = "log"
        <4>1. notice[n].status = "SUBMITTED"
          BY <2>1, <3>1, <3>4 DEF RowInv
        <4>2. Linked(n)' = Linked(n) /\ \A a \in Linked(n) :
                IF a \in K THEN alert'[a].status = "SUBMITTED" ELSE alert'[a] = alert[a]
          BY <3>1, <3>2, <3>4
        <4>3. Following(n)'
          BY <3>1, <4>1, <4>2 DEF Following, Filed, Open
        <4> QED
          BY <2>3, <3>4, <4>3 DEF Reopening
      <3>5. CASE job[w].op = "revert" /\ SetAlertStatus(K, "DETECTED") /\ job'[w].at = "notice"
        <4>1. Linked(n)' = Linked(n) /\ \A a \in Linked(n) :
                IF a \in K THEN alert'[a].status = "DETECTED" ELSE alert'[a] = alert[a]
          BY <3>1, <3>2, <3>5
        <4>2. NoneSubmitted(n)'
          BY <4>1 DEF NoneSubmitted
        <4>3. job'[w].n = n /\ Reopening(job'[w])
          BY <3>1, <3>5 DEF Reopening
        <4> QED
          BY <4>2, <4>3 DEF FollowInv
      <3> QED
        BY <3>1, <3>3, <3>4, <3>5
    <2>14. CASE OwnRest(w, n)
      <3>1. notice'[n] = notice[n] /\ alert' = alert
        BY <2>14 DEF OwnRest
      <3>2. Linked(n)' = Linked(n) /\ \A a \in Alerts : Open(a)' <=> Open(a)
        BY <3>1 DEF Linked, AlertExists, Open
      <3>3. CASE ~NoticeExists(n) /\ Ends(w)
        <4>1. Linked(n)' = {}
          BY <2>1, <3>2, <3>3 DEF LinkInv, LinkedNoticeExists, Linked
        <4> QED
          BY <1>e, <2>1, <2>2, <3>3, <4>1 DEF Ends
      <3>4. CASE ~Marking(job[w]) /\ ~Reopening(job[w])
        <4>1. job'[w].n = n => ~Reopening(job'[w])
          BY <2>1, <2>14 DEF OwnRest, Goes, Ends, At, Reopening
        <4>2. Following(n) => Following(n)'
          BY <3>1, <3>2 DEF Following, Linked
        <4> QED
          BY <2>3, <2>4, <3>4, <4>1, <4>2
      <3>5. \/ ~NoticeExists(n) /\ Ends(w)
            \/ ~Marking(job[w]) /\ ~Reopening(job[w])
        BY <2>14 DEF OwnRest, At, Marking, Reopening
      <3> QED
        BY <3>3, <3>4, <3>5
    <2> QED
      BY <2>2, <2>6, <2>7, <2>8, <2>9, <2>10, <2>11, <2>12, <2>13, <2>14 DEF OwnRow, OwnLinks
  <1> QED
    BY <1>1, <1>2, <1>3 DEF OfRequest

\* With one request at a time on a notice, and no status set by hand but CANCELLED, every alert
\* of a settled notice is submitted (or cancelled) exactly while the notice is filed: submit
\* writes the row before the alerts, revert the alerts before the row, and in between neither the
\* overdue sweep nor another notice's request undoes what the first statement did.
THEOREM AlertsFollow ==
    ASSUME Overlap = FALSE, PatchStatuses \subseteq {"CANCELLED", "UNBORN"}
    PROVE  Spec => []AlertsFollowNotice
  <1> DEFINE AllFollow == PatchInv /\ \A n \in Notices : FollowInv(n)
  <1>1. Init => AllFollow
    <2> SUFFICES ASSUME Init
                 PROVE  PatchInv /\ \A n \in Notices : FollowInv(n)
      OBVIOUS
    <2>1. \A n \in Notices : Linked(n) = {} /\ \A w \in Workers : job[w].n # n
      BY NoticesAssumption DEF Init, Idle, AlertWith, Linked, AlertExists, AlertStatus
    <2> QED
      BY <2>1 DEF FollowInv, Following, PatchInv, PatchHarmless, Init, Idle
  <1>2. TypeInv /\ LinkInv /\ LinkInv' /\ SerialInv /\ StoryInv /\ AllFollow /\ [Next]_vars
          => AllFollow'
    <2> SUFFICES ASSUME TypeInv, LinkInv, LinkInv', SerialInv, StoryInv, AllFollow, [Next]_vars
                 PROVE  PatchInv' /\ \A n \in Notices : FollowInv(n)'
      OBVIOUS
    <2>1. CASE Next
      BY <2>1, PatchStep, FollowStep DEF StoryInv
    <2>2. CASE UNCHANGED vars
      <3>1. UNCHANGED <<alert, notice, job, interrupted>>
        BY <2>2 DEF vars
      <3>2. \A n \in Notices : Linked(n)' = Linked(n) /\ \A a \in Alerts : Open(a)' <=> Open(a)
        BY <3>1 DEF Linked, AlertExists, Open
      <3>3. PatchInv'
        BY <3>1 DEF PatchInv, PatchHarmless
      <3>4. ASSUME NEW n \in Notices
            PROVE  FollowInv(n)'
        <4>1. /\ Following(n) => Following(n)'
              /\ NoneSubmitted(n) => NoneSubmitted(n)'
          BY <3>1, <3>2 DEF Following, NoneSubmitted, Linked
        <4> QED
          BY <3>1, <4>1 DEF FollowInv
      <3> QED
        BY <3>3, <3>4
    <2> QED
      BY <2>1, <2>2
  <1>3. AllFollow => AlertsFollowNotice
    BY DEF FollowInv, Following, AlertsFollowNotice, Settled, Busy
  <1> HIDE DEF AllFollow
  <1> QED
    BY <1>1, <1>2, <1>3, StoryCorrect, PTL DEF Spec

-----------------------------------------------------------------------------
(* What a generate request gathered.                                       *)

\* S is what the XML of n has to carry: its reportable alerts, and otherwise only alerts whose
\* rows were deleted since.
Exact(n, S) ==
    /\ Linked(n) \cap Reportable \subseteq S
    /\ \A a \in S : a \in Reportable /\ (a \in Linked(n) \/ alert[a].status = "DELETED")

GatherInv(n) ==
    \A w \in Workers : job[w].n = n /\ job[w].op = "generate" =>
        /\ job[w].at = "put" => Exact(n, job[w].ids)
        /\ job[w].at \in {"reread", "notice"} => Exact(n, file[n])

\* A deleted row stays deleted.
LEMMA DeletedStays ==
    ASSUME TypeInv, LinkInv, Next, NEW a \in Alerts, alert[a].status = "DELETED"
    PROVE  alert'[a].status = "DELETED"
  <1>t. /\ job \in [Workers -> Job] /\ JobsShaped /\ alert \in [Alerts -> AlertRow]
        /\ ~AlertExists(a)
    BY DEF TypeInv, TypeOK, AlertExists, AlertStatus
  <1>1. ASSUME NEW w \in Workers, Requests(w) \/ Crash(w)
        PROVE  alert' = alert
    BY <1>1 DEF Requests, StartCreate, StartDelete, StartGenerate, StartSubmit,
       StartAcknowledge, StartRebuke, StartRevert, StartAdd, StartRemove,
       StartPatch, Begin, Crash, tables
  <1>2. ASSUME NEW w \in Workers, Statements(w), job[w].n \in Notices
        PROVE  alert'[a].status = alert[a].status
    <2>1. a \notin Linked(job[w].n)
      BY <1>t DEF Linked
    <2> QED
      BY <1>2, <2>1, StatusApart
  <1>3. ASSUME NEW w \in Workers, Statements(w), job[w].n \notin Notices
        PROVE  alert'[a] = alert[a]
    <2>2. PICK put \in BOOLEAN : WritePatch(w, put)
      BY <1>3, PatchOnly
    <2> QED
      BY <1>t, <2>2 DEF WritePatch
  <1>4. ASSUME NEW b \in Alerts, CreateAlert(b) \/ DeadlinePasses(b) \/ DeleteAlert(b)
        PROVE  alert'[a].status = alert[a].status
    <2>1. CASE CreateAlert(b)
      BY <1>t, <2>1 DEF CreateAlert
    <2>2. CASE DeadlinePasses(b)
      BY <2>2 DEF DeadlinePasses, tables
    <2>3. CASE DeleteAlert(b)
      BY <1>t, <2>3 DEF DeleteAlert
    <2> QED
      BY <1>4, <2>1, <2>2, <2>3
  <1>5. ASSUME ListAlerts
        PROVE  alert'[a] = alert[a]
    BY <1>t, <1>5 DEF ListAlerts, Open
  <1> QED
    BY <1>1, <1>2, <1>3, <1>4, <1>5 DEF Next

LEMMA GatherStep ==
    ASSUME Overlap = FALSE, TypeInv, LinkInv, LinkInv', SerialInv, Next, NEW n \in Notices,
           GatherInv(n)
    PROVE  GatherInv(n)'
  <1>1. CASE ~OfRequest(n)
    <2>1. Elsewhere(n)
      BY <1>1, ElsewhereIs
    <2>2. /\ file'[n] = file[n]
          /\ \A w \in Workers : job'[w].n = n =>
               \/ job[w].n = n /\ job'[w] = job[w]
               \/ job'[w].at \notin {"put", "reread", "notice"}
               \/ job'[w].op # "generate"
      BY <2>1 DEF Elsewhere, Same, Begun
    <2>3. ASSUME NEW S \in SUBSET Alerts, Exact(n, S)
          PROVE  /\ Linked(n)' \cap Reportable \subseteq S
                 /\ \A a \in S : a \in Reportable /\ (a \in Linked(n)' \/ alert'[a].status = "DELETED")
      <3>1. Linked(n)' \cap Reportable \subseteq S
        BY <2>1, <2>3 DEF Elsewhere, Exact
      <3>2. ASSUME NEW a \in S
            PROVE  a \in Reportable /\ (a \in Linked(n)' \/ alert'[a].status = "DELETED")
        BY <2>1, <2>3, <3>2, DeletedStays DEF Elsewhere, Exact
      <3> QED
        BY <3>1, <3>2
    <2>4. \A w \in Workers : job[w].ids \in SUBSET Alerts /\ file[n] \in SUBSET Alerts
      BY DEF TypeInv, TypeOK, Job
    <2> QED
      BY <2>2, <2>3, <2>4 DEF GatherInv, Exact
  <1>2. ASSUME NEW w \in Workers, job[w].n = n, Crash(w)
        PROVE  GatherInv(n)'
    BY <1>2, CutShort DEF GatherInv
  <1>3. ASSUME NEW w \in Workers, job[w].n = n, Statements(w)
        PROVE  GatherInv(n)'
    <2>1. /\ JobShape(job[w]) /\ \A v \in Workers \ {w} : job[v].n # n
          /\ job[w].n = n /\ n # NoNotice
      BY <1>3, OwnFacts
    <2>2. /\ \A v \in Workers \ {w} : job'[v] = job[v]
          /\ \/ OwnRow(w, n) /\ alert' = alert
             \/ OwnLinks(w, n) \/ OwnAlerts(w, n) \/ OwnRest(w, n)
      BY <1>3, OwnStatement
    <2>3. ASSUME job'[w].n = n /\ job'[w].op = "generate" =>
                   /\ job'[w].at = "put" => Exact(n, job[w].ids)'
                   /\ job'[w].at \in {"reread", "notice"} => Exact(n, file[n])'
          PROVE  GatherInv(n)'
      BY <2>1, <2>2, <2>3 DEF GatherInv
    <2>4. ASSUME \/ job'[w].n # n
                 \/ job'[w].op # "generate"
                 \/ job'[w].at \notin {"put", "reread", "notice"}
          PROVE  GatherInv(n)'
      BY <2>3, <2>4
    <2>5. CASE OwnRow(w, n) \/ OwnLinks(w, n) \/ OwnAlerts(w, n)
      <3>1. \/ job'[w].n # n
            \/ job'[w].op # "generate"
            \/ job'[w].at \notin {"put", "reread", "notice"}
        BY <2>1, <2>5 DEF OwnRow, RowInserted, CountSet, CountShifted, StatusWritten, RowReopened,
           OwnLinks, AlertsTaken, AlertsRemoved, AlertsUnlinked, RowDeleted, OwnAlerts,
           At, Goes, Ends
      <3> QED
        BY <2>4, <3>1
    <2>6. CASE OwnRest(w, n)
      <3>1. alert' = alert /\ Linked(n)' = Linked(n)
        BY <2>6 DEF OwnRest, Linked, AlertExists
      <3>2. CASE Ends(w)
        BY <2>1, <2>4, <3>2 DEF Ends
      <3>3. CASE Goes(w, "put") /\ job'[w].ids = Linked(n) \cap Reportable
        BY <2>3, <3>1, <3>3 DEF Goes, Exact
      <3>4. CASE At(w, {"generate"}, "put") /\ file'[n] = job[w].ids /\ Goes(w, "reread")
        <4>1. Exact(n, job[w].ids)
          BY <2>1, <3>4 DEF GatherInv, At
        <4> QED
          BY <2>3, <3>1, <3>4, <4>1 DEF Goes, Exact
      <3>5. CASE At(w, {"generate"}, "reread") /\ file'[n] = file[n] /\ Goes(w, "notice")
        <4>1. Exact(n, file[n])
          BY <2>1, <3>5 DEF GatherInv, At
        <4> QED
          BY <2>3, <3>1, <3>5, <4>1 DEF Goes, Exact
      <3> QED
        BY <2>6, <3>2, <3>3, <3>4, <3>5 DEF OwnRest, Same
    <2> QED
      BY <2>2, <2>5, <2>6
  <1> QED
    BY <1>1, <1>2, <1>3 DEF OfRequest

-----------------------------------------------------------------------------
(* The handlers implement the lifecycle.                                   *)

\* The lifecycle's variables, as Notices.tla maps them.
Phase == [n \in Notices |-> notice[n].status]
Amendments == [n \in Notices |-> notice[n].cycle]
Holder == [a \in Alerts |-> IF alert[a].status = "DELETED" THEN Gone ELSE alert[a].noticeId]
Report == [n \in Notices |-> IF notice[n].xml THEN file[n] ELSE {}]

GatheredInv == \A n \in Notices : GatherInv(n)

\* What the notices show of a statement on the row of n.
LEMMA RowSeen ==
    ASSUME NEW n \in Notices, \A m \in Notices \ {n} : Same(m)
    PROVE  /\ Phase' = [Phase EXCEPT ![n] = notice'[n].status]
           /\ Amendments' = [Amendments EXCEPT ![n] = notice'[n].cycle]
           /\ Report' = [Report EXCEPT ![n] = IF notice'[n].xml THEN file'[n] ELSE {}]
  BY DEF Phase, Amendments, Report, Same

\* Notices whose rows show the same, and refer to the same file if to any.
LEMMA RowsSeenUnchanged ==
    ASSUME \A n \in Notices :
              /\ notice'[n].status = notice[n].status /\ notice'[n].cycle = notice[n].cycle
              /\ notice'[n].xml = notice[n].xml
              /\ notice[n].xml => file'[n] = file[n]
    PROVE  UNCHANGED <<Phase, Amendments, Report>>
  BY DEF Phase, Amendments, Report

\* An alert changes hands only when its link changes or its row is deleted.
LEMMA HolderUnchanged ==
    ASSUME TypeInv, LinkInv, Next,
           \A a \in Alerts : /\ alert'[a].noticeId = alert[a].noticeId
                             /\ alert'[a].status = "DELETED" => alert[a].status = "DELETED"
    PROVE  Holder' = Holder
  <1>1. \A a \in Alerts : alert'[a].status = "DELETED" <=> alert[a].status = "DELETED"
    BY DeletedStays
  <1> QED
    BY <1>1 DEF Holder

\* The alerts a notice holds are those linked to it.
LEMMA HeldIsLinked ==
    ASSUME TypeInv, LinkInv, NEW n \in Notices
    PROVE  /\ Linked(n) = {a \in Alerts : Holder[a] = n}
           /\ \A a \in Linked(n) : Holder[a] = n
           /\ \A a \in Alerts : alert[a].status = "DELETED" => Holder[a] = Gone
  <1>1. n # Gone /\ n # NoNotice
    BY NoticesAssumption
  <1>2. \A a \in Alerts : AlertExists(a) => alert[a].status # "DELETED"
    BY DEF AlertExists, AlertStatus
  <1> QED
    BY <1>1, <1>2 DEF Holder, Linked, LinkInv, AbsentFree

\* A statement that links the alerts in S, or unlinks them, moves their holder.
LEMMA HolderMoves ==
    ASSUME TypeInv, NEW S \in SUBSET Alerts, NEW k \in Notices \cup {NoNotice},
           \A a \in S : AlertExists(a), \A a \in S : alert'[a].noticeId = k,
           \A a \in S : alert'[a].status \in AlertStatus,
           \A a \in Alerts \ S : alert'[a] = alert[a]
    PROVE  Holder' = [a \in Alerts |-> IF a \in S THEN k ELSE Holder[a]]
  <1>1. \A a \in S : alert'[a].status # "DELETED"
    BY DEF AlertStatus
  <1> QED
    BY <1>1 DEF Holder

LEMMA OpenMapped ==
    ASSUME NEW n \in Notices, Phase[n] = "UNBORN", Phase' = [Phase EXCEPT ![n] = "DRAFT"],
           UNCHANGED <<Amendments, Holder, Report>>
    PROVE  Lifecycle!Next
  <1>1. Lifecycle!Open(n)
    BY DEF Lifecycle!Open, Phase, Amendments, Holder, Report
  <1> QED
    BY <1>1 DEF Lifecycle!Next

LEMMA TakeMapped ==
    ASSUME NEW n \in Notices, NEW S \in SUBSET Alerts, Phase[n] = "DRAFT",
           \A a \in S : Holder[a] = NoNotice,
           Holder' = [a \in Alerts |-> IF a \in S THEN n ELSE Holder[a]],
           UNCHANGED <<Phase, Amendments, Report>>
    PROVE  Lifecycle!Next
  <1>1. Lifecycle!Take(n, S)
    BY DEF Lifecycle!Take, Phase, Amendments, Holder, Report
  <1> QED
    BY <1>1 DEF Lifecycle!Next

LEMMA ReleaseMapped ==
    ASSUME NEW n \in Notices, NEW S \in SUBSET Alerts, Phase[n] \in {"DRAFT", "GENERATED"},
           \A a \in S : Holder[a] = n,
           Holder' = [a \in Alerts |-> IF a \in S THEN NoNotice ELSE Holder[a]],
           UNCHANGED <<Phase, Amendments, Report>>
    PROVE  Lifecycle!Next
  <1>1. Lifecycle!Release(n, S)
    BY DEF Lifecycle!Release, Lifecycle!Held, Phase, Amendments, Holder, Report
  <1> QED
    BY <1>1 DEF Lifecycle!Next

LEMMA WithdrawMapped ==
    ASSUME NEW a \in Alerts, Holder' = [Holder EXCEPT ![a] = Gone],
           UNCHANGED <<Phase, Amendments, Report>>
    PROVE  Lifecycle!Next
  <1>1. Lifecycle!Withdraw(a)
    BY DEF Lifecycle!Withdraw, Phase, Amendments, Holder, Report
  <1> QED
    BY <1>1 DEF Lifecycle!Next

LEMMA GenerateMapped ==
    ASSUME NEW n \in Notices, NEW S \in SUBSET Alerts, Phase[n] = "DRAFT",
           {a \in Alerts : Holder[a] = n} \cap Reportable \subseteq S,
           \A a \in S : a \in Reportable /\ Holder[a] \in {n, Gone},
           Phase' = [Phase EXCEPT ![n] = "GENERATED"], Report' = [Report EXCEPT ![n] = S],
           UNCHANGED <<Amendments, Holder>>
    PROVE  Lifecycle!Next
  <1>1. Lifecycle!Generate(n, S)
    BY DEF Lifecycle!Generate, Lifecycle!Held, Phase, Amendments, Holder, Report
  <1> QED
    BY <1>1 DEF Lifecycle!Next

LEMMA SubmitMapped ==
    ASSUME NEW n \in Notices, Phase[n] \in Published,
           Phase' = [Phase EXCEPT ![n] = "SUBMITTED"], UNCHANGED <<Amendments, Holder, Report>>
    PROVE  Lifecycle!Next
  <1>1. Lifecycle!Submit(n)
    BY DEF Lifecycle!Submit, Phase, Amendments, Holder, Report, Published, Filed
  <1> QED
    BY <1>1 DEF Lifecycle!Next

LEMMA AnswerMapped ==
    ASSUME NEW n \in Notices, NEW verdict \in {"ACKNOWLEDGED", "REBUKED"}, Phase[n] = "SUBMITTED",
           Phase' = [Phase EXCEPT ![n] = verdict], UNCHANGED <<Amendments, Holder, Report>>
    PROVE  Lifecycle!Next
  <1>1. Lifecycle!Answer(n, verdict)
    BY DEF Lifecycle!Answer, Phase, Amendments, Holder, Report
  <1> QED
    BY <1>1 DEF Lifecycle!Next

LEMMA AmendMapped ==
    ASSUME NEW n \in Notices, Phase[n] = "REBUKED",
           Phase' = [Phase EXCEPT ![n] = "DRAFT"],
           Amendments' = [Amendments EXCEPT ![n] = Amendments[n] + 1],
           Report' = [Report EXCEPT ![n] = {}], UNCHANGED Holder
    PROVE  Lifecycle!Next
  <1>1. Lifecycle!Amend(n)
    BY DEF Lifecycle!Amend, Phase, Amendments, Holder, Report
  <1> QED
    BY <1>1 DEF Lifecycle!Next

LEMMA DiscardMapped ==
    ASSUME NEW n \in Notices, Phase[n] \in {"DRAFT", "GENERATED"},
           Phase' = [Phase EXCEPT ![n] = "DELETED"],
           Amendments' = [Amendments EXCEPT ![n] = 0],
           Report' = [Report EXCEPT ![n] = {}],
           Holder' = [a \in Alerts |-> IF Holder[a] = n THEN NoNotice ELSE Holder[a]]
    PROVE  Lifecycle!Next
  <1>1. Lifecycle!Discard(n)
    BY DEF Lifecycle!Discard, Phase, Amendments, Holder, Report
  <1> QED
    BY <1>1 DEF Lifecycle!Next

LEMMA StutterMapped ==
    ASSUME UNCHANGED <<Phase, Amendments, Holder, Report>>
    PROVE  UNCHANGED Lifecycle!vars
  BY DEF Lifecycle!vars, Phase, Amendments, Holder, Report

\* Every statement of the request for n is a step of the lifecycle, or none.
LEMMA StatementMapped ==
    ASSUME TypeInv, LinkInv, SerialInv, Next, NEW n \in Notices, RowInv(n), GatherInv(n),
           NEW w \in Workers, Statements(w), job[w].n = n
    PROVE  Lifecycle!Next \/ UNCHANGED Lifecycle!vars
  <1>1. /\ JobShape(job[w]) /\ CheckHolds(job[w]) /\ notice[n] \in NoticeRow
        /\ job[w].n = n /\ n # NoNotice /\ alert \in [Alerts -> AlertRow]
        /\ file[n] \in SUBSET Alerts
    BY OwnFacts
  <1>2. /\ \A m \in Notices \ {n} : Same(m)
        /\ \/ OwnRow(w, n) /\ alert' = alert
           \/ OwnLinks(w, n) \/ OwnAlerts(w, n) \/ OwnRest(w, n)
    BY OwnStatement
  <1>3. /\ Phase' = [Phase EXCEPT ![n] = notice'[n].status]
        /\ Amendments' = [Amendments EXCEPT ![n] = notice'[n].cycle]
        /\ Report' = [Report EXCEPT ![n] = IF notice'[n].xml THEN file'[n] ELSE {}]
    BY <1>2, RowSeen
  <1>4. /\ Phase[n] = notice[n].status /\ Amendments[n] = notice[n].cycle
        /\ Report[n] = IF notice[n].xml THEN file[n] ELSE {}
        /\ Amendments[n] \in Nat
    BY <1>1 DEF Phase, Amendments, Report, NoticeRow
  <1>5. /\ notice'[n].status = notice[n].status => Phase' = Phase
        /\ notice'[n].cycle = notice[n].cycle => Amendments' = Amendments
        /\ notice'[n].xml = notice[n].xml /\ (notice[n].xml => file'[n] = file[n]) => Report' = Report
    <2>1. notice'[n].status = notice[n].status => Phase' = Phase
      BY <1>3, <1>4 DEF Phase
    <2>2. notice'[n].cycle = notice[n].cycle => Amendments' = Amendments
      BY <1>3, <1>4 DEF Amendments
    <2>3. ASSUME notice'[n].xml = notice[n].xml, notice[n].xml => file'[n] = file[n]
          PROVE  Report' = Report
      <3>1. Report' = [Report EXCEPT ![n] = Report[n]]
        BY <1>3, <1>4, <2>3
      <3> QED
        BY <3>1 DEF Report
    <2> QED
      BY <2>1, <2>2, <2>3
  <1>6. alert' = alert => Holder' = Holder
    BY DEF Holder
  <1>7. CASE RowInserted(w, n) /\ alert' = alert
    <2>1. notice[n] = NoticeWith("UNBORN") /\ notice'[n] = NoticeWith("DRAFT")
      BY <1>1, <1>7 DEF RowInserted, At, CheckHolds, RowInv
    <2>2. /\ notice[n].status = "UNBORN" /\ notice'[n].status = "DRAFT"
          /\ notice'[n].cycle = notice[n].cycle /\ notice'[n].xml = notice[n].xml /\ ~notice[n].xml
      BY <2>1 DEF NoticeWith
    <2> QED
      BY <1>3, <1>4, <1>5, <1>6, <1>7, <2>2, OpenMapped
  <1>8. CASE (CountSet(w, n) \/ CountShifted(w, n)) /\ alert' = alert
    <2>1. /\ notice'[n].status = notice[n].status /\ notice'[n].cycle = notice[n].cycle
          /\ notice'[n].xml = notice[n].xml /\ file'[n] = file[n]
      BY <1>1, <1>8 DEF CountSet, CountShifted, NoticeRow
    <2> QED
      BY <1>5, <1>6, <1>8, <2>1, StutterMapped
  <1>9. CASE StatusWritten(w, n) /\ alert' = alert
    <2>1. /\ notice'[n].status = job[w].to /\ notice'[n].cycle = notice[n].cycle
          /\ notice'[n].xml = (notice[n].xml \/ job[w].op = "generate") /\ file'[n] = file[n]
          /\ job[w].op \in {"generate", "submit", "acknowledge", "rebuke"} /\ job[w].at = "notice"
      BY <1>1, <1>9 DEF StatusWritten, NoticeRow, At
    <2>2. UNCHANGED <<Amendments, Holder>>
      BY <1>5, <1>6, <1>9, <2>1
    <2>3. CASE job[w].op = "generate"
      <3>1. /\ Phase[n] = "DRAFT" /\ job[w].to = "GENERATED" /\ Exact(n, file[n])
        BY <1>1, <1>4, <2>1, <2>3 DEF CheckHolds, JobShape, Idle, GatherInv
      <3>2. Phase' = [Phase EXCEPT ![n] = "GENERATED"] /\ Report' = [Report EXCEPT ![n] = file[n]]
        BY <1>3, <2>1, <2>3, <3>1
      <3>3. /\ {a \in Alerts : Holder[a] = n} \cap Reportable \subseteq file[n]
            /\ \A a \in file[n] : a \in Reportable /\ Holder[a] \in {n, Gone}
        BY <1>1, <3>1, HeldIsLinked DEF Exact
      <3> QED
        BY <1>1, <2>2, <3>1, <3>2, <3>3, GenerateMapped
    <2>4. CASE job[w].op = "submit"
      <3>1. Phase[n] \in Published /\ job[w].to = "SUBMITTED" /\ notice'[n].xml = notice[n].xml
        BY <1>1, <1>4, <2>1, <2>4 DEF CheckHolds, JobShape, Idle, NoticeRow
      <3> QED
        BY <1>3, <1>5, <2>1, <2>2, <3>1, SubmitMapped
    <2>5. CASE job[w].op \in {"acknowledge", "rebuke"}
      <3>1. /\ Phase[n] = "SUBMITTED" /\ job[w].to \in {"ACKNOWLEDGED", "REBUKED"}
            /\ notice'[n].xml = notice[n].xml
        BY <1>1, <1>4, <2>1, <2>5 DEF CheckHolds, JobShape, Idle, NoticeRow
      <3> QED
        BY <1>3, <1>5, <2>1, <2>2, <3>1, AnswerMapped
    <2> QED
      BY <2>1, <2>3, <2>4, <2>5
  <1>10. CASE RowReopened(w, n) /\ alert' = alert
    <2>1. /\ notice'[n].status = "DRAFT" /\ notice'[n].cycle = notice[n].cycle + 1
          /\ ~notice'[n].xml /\ notice[n].status = "REBUKED"
      BY <1>1, <1>10 DEF RowReopened, NoticeRow, At, CheckHolds
    <2> QED
      BY <1>3, <1>4, <1>6, <1>10, <2>1, AmendMapped
  <1>11. CASE AlertsTaken(w, n)
    <2>1. PICK taken \in SUBSET Alerts :
             /\ \A a \in taken : Open(a) /\ alert[a].noticeId = NoNotice
             /\ SetNoticeId(taken, n)
      BY <1>11 DEF AlertsTaken
    <2>2. /\ notice'[n] = notice[n] /\ file'[n] = file[n] /\ notice[n].status = "DRAFT"
      BY <1>1, <1>11 DEF AlertsTaken, At, Same, CheckHolds
    <2>3. UNCHANGED <<Phase, Amendments, Report>>
      BY <1>5, <2>2
    <2>4. /\ \A a \in taken : /\ AlertExists(a) /\ alert'[a].noticeId = n
                              /\ alert'[a].status \in AlertStatus
          /\ \A a \in Alerts \ taken : alert'[a] = alert[a]
      BY <1>1, <2>1, SetNoticeIdTyped DEF Open, AlertExists
    <2>5. Holder' = [a \in Alerts |-> IF a \in taken THEN n ELSE Holder[a]]
      BY <2>4, HolderMoves
    <2>6. \A a \in taken : Holder[a] = NoNotice
      BY <2>1, <2>4 DEF Holder, AlertExists, AlertStatus
    <2> QED
      BY <1>4, <2>2, <2>3, <2>5, <2>6, TakeMapped
  <1>12. CASE AlertsRemoved(w, n) \/ AlertsUnlinked(w, n)
    <2>1. PICK S \in SUBSET Linked(n) : \A a \in Alerts :
             IF a \in S THEN alert'[a].noticeId = NoNotice /\ alert'[a].status \in AlertStatus
                        ELSE alert'[a] = alert[a]
      <3>1. CASE AlertsRemoved(w, n)
        <4>1. PICK taken \in SUBSET Linked(n) :
                 alert' = [a \in Alerts |->
                             IF a \in taken
                             THEN [alert[a] EXCEPT !.noticeId = NoNotice, !.status = "DETECTED"]
                             ELSE alert[a]]
          BY <3>1 DEF AlertsRemoved
        <4>2. \A a \in Alerts : IF a \in taken
                                THEN alert'[a].noticeId = NoNotice /\ alert'[a].status \in AlertStatus
                                ELSE alert'[a] = alert[a]
          BY <1>1, <4>1 DEF AlertRow, AlertStatus
        <4> QED
          BY <4>2
      <3>2. CASE AlertsUnlinked(w, n)
        <4>1. \A a \in Linked(n) : a \in Alerts /\ alert[a].status \in AlertStatus
          BY DEF Linked, AlertExists
        <4>2. SetNoticeId(Linked(n), NoNotice)
          BY <3>2 DEF AlertsUnlinked
        <4>3. \A a \in Alerts : IF a \in Linked(n)
                                THEN alert'[a].noticeId = NoNotice /\ alert'[a].status \in AlertStatus
                                ELSE alert'[a] = alert[a]
          BY <1>1, <4>1, <4>2, SetNoticeIdTyped
        <4> QED
          BY <4>3
      <3> QED
        BY <1>12, <3>1, <3>2
    <2>2. /\ notice'[n] = notice[n] /\ file'[n] = file[n] /\ notice[n].status \in {"DRAFT", "GENERATED"}
      BY <1>1, <1>12 DEF AlertsRemoved, AlertsUnlinked, At, Same, CheckHolds
    <2>3. UNCHANGED <<Phase, Amendments, Report>>
      BY <1>5, <2>2
    <2>4. S \in SUBSET Alerts /\ \A a \in S : AlertExists(a)
      BY DEF Linked
    <2>a. /\ \A a \in S : alert'[a].noticeId = NoNotice
          /\ \A a \in S : alert'[a].status \in AlertStatus
          /\ \A a \in Alerts \ S : alert'[a] = alert[a]
          /\ NoNotice \in Notices \cup {NoNotice}
      BY <2>1, <2>4
    <2>5. Holder' = [a \in Alerts |-> IF a \in S THEN NoNotice ELSE Holder[a]]
      BY <2>4, <2>a, HolderMoves
    <2>6. \A a \in S : Holder[a] = n
      BY HeldIsLinked
    <2> QED
      BY <1>4, <2>2, <2>3, <2>4, <2>5, <2>6, ReleaseMapped
  <1>13. CASE RowDeleted(w, n)
    <2>1. /\ notice'[n].status = "DELETED" /\ notice'[n].cycle = 0 /\ ~notice'[n].xml
          /\ SetNoticeId(Linked(n), NoNotice) /\ notice[n].status \in {"DRAFT", "GENERATED"}
      BY <1>1, <1>13 DEF RowDeleted, NoticeWith, At, CheckHolds
    <2>2. \A a \in Linked(n) : a \in Alerts /\ AlertExists(a)
      BY DEF Linked
    <2>3. /\ \A a \in Linked(n) : alert'[a].noticeId = NoNotice /\ alert'[a].status \in AlertStatus
          /\ \A a \in Alerts \ Linked(n) : alert'[a] = alert[a]
      BY <1>1, <2>1, <2>2, SetNoticeIdTyped DEF AlertExists
    <2>4. PICK S \in SUBSET Alerts : S = Linked(n)
      BY DEF Linked
    <2>5. Holder' = [a \in Alerts |-> IF a \in S THEN NoNotice ELSE Holder[a]]
      BY <2>2, <2>3, <2>4, HolderMoves
    <2>6. Holder' = [a \in Alerts |-> IF Holder[a] = n THEN NoNotice ELSE Holder[a]]
      BY <2>4, <2>5, HeldIsLinked
    <2> QED
      BY <1>3, <1>4, <2>1, <2>6, DiscardMapped
  <1>14. CASE OwnAlerts(w, n)
    <2> DEFINE O == {a \in Linked(n) : Open(a)}
               K == {a \in Linked(n) : alert[a].status # "CANCELLED"}
    <2>1. /\ notice'[n] = notice[n] /\ file'[n] = file[n]
          /\ \/ SetAlertStatus(O, "FILE_GENERATED")
             \/ SetAlertStatus(K, "SUBMITTED")
             \/ SetAlertStatus(K, "DETECTED")
      BY <1>14 DEF OwnAlerts, Same
    <2> HIDE DEF O, K
    <2>2. PICK S \in {O, K}, st \in {"FILE_GENERATED", "SUBMITTED", "DETECTED"} : SetAlertStatus(S, st)
      BY <2>1
    <2>3. st \in AlertStatus /\ st # "DELETED"
      BY DEF AlertStatus
    <2>4. \A a \in Alerts : /\ alert'[a].noticeId = alert[a].noticeId
                            /\ alert'[a].status = "DELETED" => alert[a].status = "DELETED"
      BY <1>1, <2>2, <2>3, SetAlertStatusTyped
    <2> QED
      BY <1>5, <2>1, <2>4, HolderUnchanged, StutterMapped
  <1>15. CASE OwnRest(w, n)
    <2>1. /\ alert' = alert /\ notice'[n] = notice[n]
          /\ file'[n] = file[n] \/ At(w, {"generate"}, "put")
      BY <1>15 DEF OwnRest, Same
    <2>2. At(w, {"generate"}, "put") => ~notice[n].xml
      BY <1>1 DEF At, CheckHolds, RowInv, Published, Filed
    <2> QED
      BY <1>5, <1>6, <2>1, <2>2, StutterMapped
  <1> QED
    BY <1>2, <1>7, <1>8, <1>9, <1>10, <1>11, <1>12, <1>13, <1>14, <1>15 DEF OwnRow, OwnLinks

LEMMA StepMapped ==
    ASSUME Overlap = FALSE, TypeInv, LinkInv, SerialInv, StoryInv, GatheredInv, [Next]_vars
    PROVE  [Lifecycle!Next]_Lifecycle!vars
  <1>t. job \in [Workers -> Job] /\ JobsShaped /\ alert \in [Alerts -> AlertRow]
    BY DEF TypeInv, TypeOK
  <1>1. ASSUME UNCHANGED <<alert, notice, file>>
        PROVE  UNCHANGED Lifecycle!vars
    <2>1. UNCHANGED <<Phase, Amendments, Holder, Report>>
      BY <1>1 DEF Phase, Amendments, Holder, Report
    <2> QED
      BY <2>1, StutterMapped
  <1>2. ASSUME NEW w \in Workers, Requests(w) \/ Crash(w)
        PROVE  UNCHANGED Lifecycle!vars
    <2>1. UNCHANGED <<alert, notice, file>>
      BY <1>2, RequestBegins DEF Crash, tables
    <2> QED
      BY <1>1, <2>1
  <1>3. ASSUME NEW w \in Workers, Statements(w), Next, job[w].n \in Notices
        PROVE  Lifecycle!Next \/ UNCHANGED Lifecycle!vars
    BY <1>3, StatementMapped DEF StoryInv, GatheredInv
  <1>4. ASSUME Next, UNCHANGED <<notice, file>>,
               \A a \in Alerts : /\ alert'[a].noticeId = alert[a].noticeId
                                 /\ alert'[a].status = "DELETED" => alert[a].status = "DELETED"
        PROVE  UNCHANGED Lifecycle!vars
    <2>1. Holder' = Holder
      BY <1>4, HolderUnchanged
    <2>2. UNCHANGED <<Phase, Amendments, Report>>
      BY <1>4 DEF Phase, Amendments, Report
    <2> QED
      BY <2>1, <2>2, StutterMapped
  <1>5. ASSUME NEW w \in Workers, Statements(w), Next, job[w].n \notin Notices
        PROVE  UNCHANGED Lifecycle!vars
    <2>2. \E put \in BOOLEAN : WritePatch(w, put)
      BY <1>5, PatchOnly
    <2>3. \A a \in Alerts : /\ alert'[a].noticeId = alert[a].noticeId
                            /\ alert'[a] = alert[a] \/ alert'[a].status \in AlertStatus
      BY <2>2, WritePatchTyped DEF TypeInv
    <2>4. UNCHANGED <<notice, file>>
      BY <2>2 DEF WritePatch
    <2>5. "DELETED" \notin AlertStatus
      BY DEF AlertStatus
    <2> QED
      BY <1>4, <1>5, <2>3, <2>4, <2>5
  <1>6. ASSUME NEW a \in Alerts, CreateAlert(a), Next
        PROVE  UNCHANGED Lifecycle!vars
    <2>1. /\ alert[a].status = "UNBORN" /\ UNCHANGED <<notice, file>>
          /\ \A b \in Alerts \ {a} : alert'[b] = alert[b]
          /\ alert'[a].status = "DETECTED" /\ alert'[a].noticeId = NoNotice
      BY <1>t, <1>6 DEF CreateAlert, AlertWith
    <2>2. alert[a].noticeId = NoNotice
      BY <2>1 DEF LinkInv, AbsentFree, AlertExists, AlertStatus
    <2> QED
      BY <1>4, <1>6, <2>1, <2>2
  <1>7. ASSUME NEW a \in Alerts, DeadlinePasses(a)
        PROVE  UNCHANGED Lifecycle!vars
    BY <1>1, <1>7 DEF DeadlinePasses, tables
  <1>8. ASSUME NEW a \in Alerts, DeleteAlert(a)
        PROVE  Lifecycle!Next
    <2>1. /\ UNCHANGED <<notice, file>> /\ alert' = [alert EXCEPT ![a] = AlertWith("DELETED")]
      BY <1>8 DEF DeleteAlert
    <2>2. AlertWith("DELETED").status = "DELETED"
      BY DEF AlertWith
    <2>3. Holder' = [Holder EXCEPT ![a] = Gone]
      BY <1>t, <2>1, <2>2 DEF Holder
    <2>4. UNCHANGED <<Phase, Amendments, Report>>
      BY <2>1 DEF Phase, Amendments, Report
    <2> QED
      BY <2>3, <2>4, WithdrawMapped
  <1>9. ASSUME ListAlerts, Next
        PROVE  UNCHANGED Lifecycle!vars
    <2>1. PICK late : alert' = [a \in Alerts |->
             IF a \in late THEN [alert[a] EXCEPT !.status = "OVERDUE", !.isOverdue = TRUE]
                           ELSE alert[a]]
      BY <1>9 DEF ListAlerts
    <2>2. \A a \in Alerts : /\ alert'[a].noticeId = alert[a].noticeId
                            /\ alert'[a].status = "DELETED" => alert[a].status = "DELETED"
      BY <1>t, <2>1 DEF AlertRow
    <2>3. UNCHANGED <<notice, file>>
      BY <1>9 DEF ListAlerts
    <2> QED
      BY <1>4, <1>9, <2>2, <2>3
  <1>10. ASSUME UNCHANGED vars
         PROVE  UNCHANGED Lifecycle!vars
    BY <1>1, <1>10 DEF vars
  <1> QED
    BY <1>2, <1>3, <1>5, <1>6, <1>7, <1>8, <1>9, <1>10 DEF Next

LEMMA GatheredCorrect ==
    ASSUME Overlap = FALSE
    PROVE  Spec => [](TypeInv /\ LinkInv /\ SerialInv /\ StoryInv /\ GatheredInv)
  <1>1. Init => GatheredInv
    BY DEF Init, Idle, GatheredInv, GatherInv
  <1>2. TypeInv /\ LinkInv /\ LinkInv' /\ SerialInv /\ StoryInv /\ GatheredInv /\ [Next]_vars
          => GatheredInv'
    <2> SUFFICES ASSUME TypeInv, LinkInv, LinkInv', SerialInv, StoryInv, GatheredInv, [Next]_vars
                 PROVE  \A n \in Notices : GatherInv(n)'
      BY DEF GatheredInv
    <2>1. CASE Next
      BY <2>1, GatherStep DEF GatheredInv
    <2>2. CASE UNCHANGED vars
      <3>1. UNCHANGED <<alert, file, job>> /\ \A n \in Notices : Linked(n)' = Linked(n)
        BY <2>2 DEF vars, Linked, AlertExists
      <3> QED
        BY <3>1 DEF GatheredInv, GatherInv, Exact
    <2> QED
      BY <2>1, <2>2
  <1> QED
    BY <1>1, <1>2, StoryCorrect, PTL DEF Spec

\* With one request at a time on a notice, the handlers, statement by statement and cut short
\* anywhere, implement the lifecycle with its atomic operations: every statement is a step of it,
\* or changes nothing that it shows.
THEOREM ImplementsNotices ==
    ASSUME Overlap = FALSE
    PROVE  Spec => ImplementsLifecycle
  <1>1. Init => Lifecycle!Init
    <2> SUFFICES ASSUME Init
                 PROVE  Lifecycle!Init
      OBVIOUS
    <2>1. Phase = [n \in Notices |-> "UNBORN"] /\ Amendments = [n \in Notices |-> 0]
      BY DEF Init, NoticeWith, Phase, Amendments
    <2>2. Holder = [a \in Alerts |-> NoNotice] /\ Report = [n \in Notices |-> {}]
      BY DEF Init, NoticeWith, AlertWith, Holder, Report
    <2> QED
      BY <2>1, <2>2 DEF Lifecycle!Init, Phase, Amendments, Holder, Report
  <1> QED
    BY <1>1, StepMapped, GatheredCorrect, PTL DEF Spec, ImplementsLifecycle, Lifecycle!Spec
=============================================================================
