--------------------------- MODULE Training_proofs ---------------------------
(* Theorems about Training for all enrollments, quizzes, answers, requests *)
(* in flight and certificates of others.                                   *)
EXTENDS Training, FiniteSetTheorems, TLAPS

Steps == {"done", "module", "begun", "limit", "open", "cooldown", "create",
          "attempt", "score", "count", "status", "number", "certificate", "send"}
Job == [op: {"idle", "progress", "start", "submit"}, at: Steps,
        e: Enrollments \cup {NoEnrollment}, a: Nat, status: Status \cup {"UNBORN"},
        answers: [Questions -> Answer], passed: BOOLEAN, n: Nat, torn: BOOLEAN]

\* What a request is about: an enrollment there is, and an attempt there is.
About(j) ==
    /\ j.op = "idle" <=> j.at = "done"
    /\ j.op = "idle" <=> j.e = NoEnrollment
    /\ j.e # NoEnrollment => j.e \in Enrollments /\ Exists(j.e)
    /\ j.at \in {"attempt", "score"} => j.a \in DOMAIN attempts[j.e]

Row == [status: Status \cup {"UNBORN"}, validUntil: {"never", "ahead", "over"}, attemptCount: Nat]
Attempt == [at: When, passed: BOOLEAN]

Tables ==
    /\ published \in BOOLEAN
    /\ quiz \in 0..Len(QuestionType) /\ rewrites \in Nat
    /\ enrollment \in [Enrollments -> Row]
    /\ progress \in [Enrollments -> SUBSET Modules]
    /\ attempts \in [Enrollments -> Seq(Attempt)]
    /\ certificate \in [Enrollments -> Nat] /\ others \subseteq Nat \ {0}
    /\ met \cup broken \subseteq Enrollments

TypeInv ==
    /\ Tables
    /\ job \in [Workers -> Job]
    /\ \A w \in Workers : About(job[w])

-----------------------------------------------------------------------------
(* The helpers.                                                            *)

LEMMA IdleTyped == Idle \in Job /\ About(Idle)
  BY TrainingAssumption DEF Idle, Job, About, Steps, Status, Blank, Answer

LEMMA TypeOKFollows == TypeInv => TypeOK
  BY DEF TypeInv, Tables, TypeOK, About, Job, Row, Attempt

\* The submitted and the open attempts are together all attempts.
LEMMA Attempts ==
    ASSUME TypeInv, NEW e \in Enrollments
    PROVE  /\ Len(attempts[e]) \in Nat /\ DOMAIN attempts[e] = 1..Len(attempts[e])
           /\ Submitted(e) \in Nat
           /\ OpenAttempts(e) = {} => Submitted(e) = Len(attempts[e])
  <1> DEFINE S == {i \in DOMAIN attempts[e] : attempts[e][i].at # "open"}
  <1>1. Len(attempts[e]) \in Nat /\ DOMAIN attempts[e] = 1..Len(attempts[e])
    BY DEF TypeInv, Tables
  <1>2. IsFiniteSet(1..Len(attempts[e])) /\ Cardinality(1..Len(attempts[e])) = Len(attempts[e])
    BY <1>1, FS_Interval
  <1>3. IsFiniteSet(S)
    BY <1>1, <1>2, FS_Subset
  <1>4. Cardinality(S) \in Nat
    BY <1>3, FS_CardinalityType
  <1>5. OpenAttempts(e) = {} => S = 1..Len(attempts[e])
    BY <1>1 DEF OpenAttempts
  <1> QED
    BY <1>1, <1>2, <1>4, <1>5 DEF Submitted

\* The numbers given out are the first ones, each once, and a request that is about to
\* give one out holds one of these or the next.
Numbered(k) ==
    /\ Numbers = 1..k
    /\ \A w \in Workers : At(w, "certificate") => job[w].n \in 1..(k + 1)
    /\ \A e, f \in Enrollments : e # f /\ Issued(e) => certificate[e] # certificate[f]
    /\ \A e \in Enrollments : Issued(e) => certificate[e] \notin others

NumInv == \E k \in Nat : Numbered(k)

LEMMA NextIs ==
    ASSUME NEW k \in Nat, Numbers = 1..k
    PROVE  NextNumber = k + 1
  <1>1. CASE k = 0
    BY <1>1 DEF NextNumber
  <1>2. CASE k # 0
    <2>1. k \in 1..k /\ \A y \in 1..k : k >= y
      BY <1>2
    <2>2. \A x \in 1..k : (\A y \in 1..k : x >= y) => x = k
      BY <2>1
    <2>3. Max(1..k) = k
      BY <2>1, <2>2 DEF Max
    <2> QED
      BY <2>1, <2>3 DEF NextNumber
  <1> QED
    BY <1>1, <1>2

LEMMA NextTyped == NumInv => NextNumber \in Nat \ {0}
  BY NextIs DEF NumInv, Numbered

\* A request that was idle begins.
LEMMA BeginTyped ==
    ASSUME TypeInv, NEW w \in Workers, NEW j \in Job, j.e \in Enrollments, Begin(w, j)
    PROVE  /\ job' \in [Workers -> Job]
           /\ job[w] = Idle /\ job'[w] = j
           /\ \A v \in Workers \ {w} : job'[v] = job[v]
           /\ met' \in SUBSET Enrollments /\ met \subseteq met'
           /\ (\E v \in Workers : job[v].e = j.e) => j.e \in met'
  BY DEF TypeInv, Tables, Begin

\* What the tables keep for the requests in flight.
Keeps ==
    /\ \A e \in Enrollments : Exists(e) => Exists(e)'
    /\ \A e \in Enrollments : DOMAIN attempts[e] \subseteq DOMAIN attempts'[e]

\* A request that begins, ends or goes on; nothing is taken from the others.
LEMMA OneTyped ==
    ASSUME TypeInv, Tables', Keeps, NEW w \in Workers, job' \in [Workers -> Job],
           \A v \in Workers \ {w} : job'[v] = job[v],
           About(job[w])'
    PROVE  TypeInv'
  <1>1. ASSUME NEW v \in Workers PROVE About(job[v])'
    <2>1. CASE v = w
      BY <2>1
    <2>2. CASE v # w
      <3>1. job'[v] = job[v] /\ About(job[v])
        BY <2>2 DEF TypeInv
      <3>2. job[v] \in Job
        BY DEF TypeInv
      <3>3. job[v].at \in {"attempt", "score"} => job[v].e \in Enrollments
        BY <3>1, <3>2 DEF About
      <3>4. job[v].e # NoEnrollment => job[v].e \in Enrollments /\ Exists(job[v].e)'
        BY <3>1 DEF About, Keeps, Exists
      <3>5. job[v].at \in {"attempt", "score"} => job[v].a \in DOMAIN attempts'[job[v].e]
        BY <3>1, <3>3 DEF About, Keeps
      <3> QED
        BY <3>1, <3>4, <3>5 DEF About, Exists
    <2> QED
      BY <2>1, <2>2
  <1> QED
    BY <1>1 DEF TypeInv

\* A request that begins.
LEMMA BeginsTyped ==
    ASSUME TypeInv, NEW w \in Workers, NEW j \in Job, Begin(w, j), About(j), j.e \in Enrollments,
           UNCHANGED <<course, tables, others, broken>>
    PROVE  TypeInv'
  <1>1. /\ job' \in [Workers -> Job] /\ job'[w] = j
        /\ \A v \in Workers \ {w} : job'[v] = job[v]
        /\ met' \subseteq Enrollments
    BY BeginTyped
  <1>2. Tables'
    BY <1>1 DEF TypeInv, Tables, course, tables
  <1>3. Keeps /\ About(job[w])'
    BY <1>1 DEF Keeps, About, Exists, tables
  <1> QED
    BY <1>1, <1>2, <1>3, OneTyped

\* A request that ends.
LEMMA FinishTyped ==
    ASSUME TypeInv, NEW w \in Workers, Finish(w), Tables', Keeps
    PROVE  TypeInv' /\ job'[w] = Idle /\ \A v \in Workers \ {w} : job'[v] = job[v]
  <1>1. /\ job' \in [Workers -> Job] /\ job'[w] = Idle
        /\ \A v \in Workers \ {w} : job'[v] = job[v]
    BY IdleTyped DEF TypeInv, Finish
  <1>2. About(job[w])'
    BY <1>1, TrainingAssumption DEF About, Idle
  <1> QED
    BY <1>1, <1>2, OneTyped

\* A request that goes on with its enrollment.
LEMMA OnTyped ==
    ASSUME TypeInv, Tables', Keeps, NEW w \in Workers, ~At(w, "done"),
           job' \in [Workers -> Job], \A v \in Workers \ {w} : job'[v] = job[v],
           job'[w].op = job[w].op, job'[w].e = job[w].e, job'[w].at # "done",
           job'[w].at \in {"attempt", "score"} =>
              job[w].at \in {"attempt", "score"} /\ job'[w].a = job[w].a
    PROVE  TypeInv'
  <1>1. job[w] \in Job /\ About(job[w])
    BY DEF TypeInv
  <1>2. About(job[w])'
    BY <1>1 DEF About, Keeps, Exists, At
  <1> QED
    BY <1>2, OneTyped

\* Go only moves a request to another statement.
LEMMA GoTyped ==
    ASSUME TypeInv, NEW w \in Workers, NEW at \in Steps, Go(w, at)
    PROVE  /\ job' \in [Workers -> Job] /\ \A v \in Workers \ {w} : job'[v] = job[v]
           /\ job'[w].at = at /\ job'[w].op = job[w].op /\ job'[w].e = job[w].e
           /\ job'[w].a = job[w].a /\ job'[w].n = job[w].n /\ job'[w].passed = job[w].passed
  BY DEF TypeInv, Go, Job

\* A request under way.
LEMMA UnderWay ==
    ASSUME TypeInv, NEW w \in Workers, ~At(w, "done")
    PROVE  /\ job[w] \in Job /\ job[w].e \in Enrollments /\ Exists(job[w].e)
           /\ job[w].at \in {"attempt", "score"} => job[w].a \in DOMAIN attempts[job[w].e]
  BY DEF TypeInv, About, At, Job

-----------------------------------------------------------------------------
(* Types.                                                                  *)

LEMMA InitTyped == Init => TypeInv
  <1> SUFFICES ASSUME Init PROVE TypeInv
    OBVIOUS
  <1>1. Unborn \in Row /\ <<>> \in Seq(Attempt) /\ NoCertificate \in Nat
    BY DEF Unborn, Row, NoCertificate
  <1>2. 0 \in 0..Len(QuestionType)
    BY TrainingAssumption
  <1>3. Tables
    BY <1>1, <1>2 DEF Init, Tables
  <1> QED
    BY <1>3, IdleTyped DEF Init, TypeInv

\* A request that only reads.
LEMMA ReadsTyped ==
    ASSUME TypeInv, NEW w \in Workers, NEW at \in Steps \ {"done"}, ~At(w, "done"),
           Go(w, at) \/ Finish(w),
           at \in {"attempt", "score"} => job[w].at \in {"attempt", "score"},
           UNCHANGED <<course, tables, others, history>>
    PROVE  TypeInv'
  <1>1. Tables' /\ Keeps
    BY DEF TypeInv, Tables, Keeps, Exists, course, tables, history
  <1>2. CASE Go(w, at)
    BY <1>1, <1>2, GoTyped, OnTyped
  <1>3. CASE Finish(w)
    BY <1>1, <1>3, FinishTyped
  <1> QED
    BY <1>2, <1>3

LEMMA RequestTyped ==
    ASSUME TypeInv, NumInv, NEW w \in Workers, Request(w)
    PROVE  TypeInv'
  <1>1. ASSUME NEW e \in Enrollments, StartProgress(w, e)
        PROVE  TypeInv'
    <2>1. PICK j : j = [Idle EXCEPT !.op = "progress", !.at = "module", !.e = e,
                                    !.status = enrollment[e].status]
      OBVIOUS
    <2>0. enrollment[e].status \in Status \cup {"UNBORN"}
      BY DEF TypeInv, Tables, Row
    <2>2. j \in Job /\ About(j) /\ j.e \in Enrollments
      BY <1>1, <2>0, <2>1, IdleTyped, TrainingAssumption DEF Job, About, Steps, StartProgress
    <2> QED
      BY <1>1, <2>1, <2>2, BeginsTyped DEF StartProgress
  <1>2. ASSUME NEW e \in Enrollments, StartQuiz(w, e)
        PROVE  TypeInv'
    <2>1. PICK j : j = [Idle EXCEPT !.op = "start", !.at = "limit", !.e = e]
      OBVIOUS
    <2>2. j \in Job /\ About(j) /\ j.e \in Enrollments
      BY <1>2, <2>1, IdleTyped, TrainingAssumption DEF Job, About, Steps, StartQuiz
    <2> QED
      BY <1>2, <2>1, <2>2, BeginsTyped DEF StartQuiz
  <1>3. ASSUME NEW e \in Enrollments, StartSubmit(w, e)
        PROVE  TypeInv'
    <2>1. PICK a \in DOMAIN attempts[e], sheet \in Sheets :
             Begin(w, [Idle EXCEPT !.op = "submit", !.at = "attempt", !.e = e, !.a = a,
                                   !.answers = sheet, !.torn = Torn,
                                   !.passed = scorePercent(1..quiz, sheet) >= PassingScore])
      BY <1>3 DEF StartSubmit
    <2>2. PICK passed \in BOOLEAN, torn \in BOOLEAN :
             Begin(w, [Idle EXCEPT !.op = "submit", !.at = "attempt", !.e = e, !.a = a,
                                   !.answers = sheet, !.torn = torn, !.passed = passed])
      <3>1. (scorePercent(1..quiz, sheet) >= PassingScore) \in BOOLEAN /\ Torn \in BOOLEAN
        BY DEF Torn
      <3> QED
        BY <2>1, <3>1
    <2>3. PICK j : j = [Idle EXCEPT !.op = "submit", !.at = "attempt", !.e = e, !.a = a,
                                    !.answers = sheet, !.torn = torn, !.passed = passed]
      OBVIOUS
    <2>4. a \in Nat /\ sheet \in [Questions -> Answer]
      BY Attempts, TrainingAssumption
    <2>5. j \in Job /\ About(j) /\ j.e \in Enrollments
      BY <1>3, <2>3, <2>4, IdleTyped, TrainingAssumption DEF Job, About, Steps, StartSubmit
    <2> QED
      BY <1>3, <2>2, <2>3, <2>5, BeginsTyped DEF StartSubmit
  <1>4. ASSUME RecordProgress(w) PROVE TypeInv'
    <2>1. ~At(w, "done") /\ job[w].e \in Enrollments
      BY <1>4, UnderWay DEF RecordProgress, At
    <2>2. Tables' /\ Keeps
      BY <1>4, <2>1 DEF RecordProgress, TypeInv, Tables, Keeps, Exists, course, history
    <2>3. CASE Go(w, "begun")
      BY <2>1, <2>2, <2>3, GoTyped, OnTyped DEF Steps
    <2>4. CASE Finish(w)
      BY <2>2, <2>4, FinishTyped
    <2> QED
      BY <1>4, <2>3, <2>4 DEF RecordProgress
  <1>5. ASSUME NEW status \in Status, ~At(w, "done"), Finish(w),
               enrollment' = [enrollment EXCEPT ![job[w].e].status = status],
               UNCHANGED <<course, progress, attempts, certificate, others, history>>
        PROVE  TypeInv'
    <2>1. job[w].e \in Enrollments
      BY <1>5, UnderWay
    <2>2. PICK e \in Enrollments : e = job[w].e
      BY <2>1
    <2>3. [enrollment[e] EXCEPT !.status = status] \in Row
      BY DEF TypeInv, Tables, Row
    <2>4. /\ enrollment' \in [Enrollments -> Row]
          /\ \A f \in Enrollments : Exists(f) => Exists(f)'
      BY <1>5, <2>2, <2>3 DEF TypeInv, Tables, Row, Exists
    <2>5. Tables' /\ Keeps
      BY <1>5, <2>4 DEF TypeInv, Tables, Keeps, course, history
    <2> QED
      BY <1>5, <2>5, FinishTyped
  <1>6. CASE MarkInProgress(w)
    BY <1>5, <1>6 DEF MarkInProgress, At, Status
  <1>7. CASE CheckLimit(w)
    BY <1>7, ReadsTyped DEF CheckLimit, At, Steps
  <1>8. CASE CheckOpen(w)
    BY <1>8, ReadsTyped DEF CheckOpen, At, Steps
  <1>9. CASE CheckCooldown(w)
    BY <1>9, ReadsTyped DEF CheckCooldown, At, Steps
  <1>10. ASSUME CreateAttempt(w) PROVE TypeInv'
    <2>1. job[w].e \in Enrollments
      BY <1>10, UnderWay DEF CreateAttempt, At
    <2>2. PICK e \in Enrollments : e = job[w].e
      BY <2>1
    <2>3. attempts[e] \in Seq(Attempt)
      BY DEF TypeInv, Tables
    <2>4. [at |-> "open", passed |-> FALSE] \in Attempt
      BY DEF When, Attempt
    <2>5. /\ Append(attempts[e], [at |-> "open", passed |-> FALSE]) \in Seq(Attempt)
          /\ DOMAIN attempts[e] \subseteq
                DOMAIN Append(attempts[e], [at |-> "open", passed |-> FALSE])
      BY <2>3, <2>4
    <2>6. Tables' /\ Keeps
      BY <1>10, <2>2, <2>5 DEF CreateAttempt, TypeInv, Tables, Keeps, Exists, course, history
    <2> QED
      BY <1>10, <2>6, FinishTyped DEF CreateAttempt
  <1>11. CASE CheckAttempt(w)
    BY <1>11, ReadsTyped DEF CheckAttempt, At, Steps
  <1>12. ASSUME CloseAttempt(w) PROVE TypeInv'
    <2>1. /\ job[w] \in Job /\ job[w].e \in Enrollments /\ ~At(w, "done")
          /\ job[w].a \in DOMAIN attempts[job[w].e]
      BY <1>12, UnderWay DEF CloseAttempt, At
    <2>2. [at |-> "lately", passed |-> job[w].passed] \in Attempt
      BY <2>1 DEF When, Job, Attempt
    <2>3. /\ attempts' \in [Enrollments -> Seq(Attempt)]
          /\ \A e \in Enrollments : DOMAIN attempts[e] \subseteq DOMAIN attempts'[e]
      <3>1. PICK e \in Enrollments : e = job[w].e
        BY <2>1
      <3>0. PICK a \in DOMAIN attempts[e] : a = job[w].a
        BY <2>1, <3>1
      <3>2. PICK r \in Attempt : r = [at |-> "lately", passed |-> job[w].passed]
        BY <2>2
      <3>3. attempts' = [attempts EXCEPT ![e] = [attempts[e] EXCEPT ![a] = r]]
        BY <1>12, <3>0, <3>1, <3>2 DEF CloseAttempt
      <3>4. attempts[e] \in Seq(Attempt)
        BY DEF TypeInv, Tables
      <3>5. /\ [attempts[e] EXCEPT ![a] = r] \in Seq(Attempt)
            /\ DOMAIN [attempts[e] EXCEPT ![a] = r] = DOMAIN attempts[e]
        BY <3>4
      <3> QED
        BY <3>3, <3>5 DEF TypeInv, Tables
    <2>4. Tables' /\ Keeps
      BY <1>12, <2>3 DEF CloseAttempt, TypeInv, Tables, Keeps, Exists, course, history
    <2>5. PICK j : j = [Idle EXCEPT !.op = "submit", !.at = "count", !.e = job[w].e,
                                    !.passed = job[w].passed]
      OBVIOUS
    <2>6. /\ j \in Job /\ j.op = "submit" /\ j.at = "count" /\ j.e = job[w].e
      BY <2>1, <2>5, IdleTyped DEF Job, Steps
    <2>7. job' = [job EXCEPT ![w] = j]
      BY <1>12, <2>5 DEF CloseAttempt
    <2>8. /\ job' \in [Workers -> Job] /\ job'[w] = j
          /\ \A v \in Workers \ {w} : job'[v] = job[v]
      BY <2>6, <2>7 DEF TypeInv
    <2>9. About(job[w])'
      BY <2>1, <2>4, <2>6, <2>8, UnderWay, TrainingAssumption DEF About, Keeps, Exists
    <2> QED
      BY <2>4, <2>8, <2>9, OneTyped
  <1>13. ASSUME NEW n \in Nat, NEW at \in Steps \ {"done", "attempt", "score"}, ~At(w, "done"),
                job' = [job EXCEPT ![w].n = n, ![w].at = at], Tables', Keeps
         PROVE  TypeInv'
    <2>1. /\ job' \in [Workers -> Job] /\ \A v \in Workers \ {w} : job'[v] = job[v]
          /\ job'[w].at = at /\ job'[w].op = job[w].op /\ job'[w].e = job[w].e
      <3>1. job[w] \in Job
        BY DEF TypeInv
      <3>2. PICK j : j = [job[w] EXCEPT !.n = n, !.at = at]
        OBVIOUS
      <3>3. j \in Job /\ j.at = at /\ j.op = job[w].op /\ j.e = job[w].e
        BY <3>1, <3>2 DEF Job
      <3>4. job' = [job EXCEPT ![w] = j]
        BY <1>13, <3>2
      <3> QED
        BY <3>3, <3>4 DEF TypeInv
    <2> QED
      BY <1>13, <2>1, OnTyped
  <1>14. ASSUME UNCHANGED <<course, tables, others, history>> PROVE Tables' /\ Keeps
    BY <1>14 DEF TypeInv, Tables, Keeps, Exists, course, tables, history
  <1>15. CASE CountSubmitted(w)
    <2>1. Submitted(job[w].e) \in Nat
      BY <1>15, UnderWay, Attempts DEF CountSubmitted, At
    <2>2. PICK n \in Nat : n = Submitted(job[w].e)
      BY <2>1
    <2>3. job' = [job EXCEPT ![w].n = n, ![w].at = "status"]
      BY <1>15, <2>2 DEF CountSubmitted
    <2> QED
      BY <1>13, <1>14, <1>15, <2>3 DEF CountSubmitted, At, Steps
  <1>16. ASSUME NEW status \in Status, NEW until \in {"ahead", enrollment[job[w].e].validUntil},
                ~At(w, "done"),
                enrollment' = [enrollment EXCEPT
                   ![job[w].e] = [status |-> status, validUntil |-> until,
                                  attemptCount |-> job[w].n]],
                UNCHANGED <<course, progress, attempts, certificate, others, history>>
         PROVE  Tables' /\ Keeps
    <2>1. job[w].e \in Enrollments /\ job[w].n \in Nat
      BY <1>16, UnderWay DEF Job
    <2>2. PICK r : r = [status |-> status, validUntil |-> until, attemptCount |-> job[w].n]
      OBVIOUS
    <2>3. r \in Row /\ r.status \in Status
      BY <2>1, <2>2 DEF Row, TypeInv, Tables
    <2>4. enrollment' = [enrollment EXCEPT ![job[w].e] = r]
      BY <1>16, <2>2
    <2>5. /\ enrollment' \in [Enrollments -> Row]
          /\ \A f \in Enrollments : Exists(f) => Exists(f)'
      BY <2>1, <2>3, <2>4 DEF TypeInv, Tables, Exists
    <2> QED
      BY <1>16, <2>5 DEF TypeInv, Tables, Keeps, course, history
  <1>17. CASE WriteFailed(w)
    <2>1. job[w].e \in Enrollments /\ ~At(w, "done")
      BY <1>17, UnderWay DEF WriteFailed, At
    <2>2. PICK status \in Status : enrollment' = [enrollment EXCEPT
             ![job[w].e].status = status, ![job[w].e].attemptCount = job[w].n]
      BY <1>17 DEF WriteFailed, Status
    <2>3. PICK e \in Enrollments, n \in Nat : e = job[w].e /\ n = job[w].n
      BY <2>1, UnderWay DEF Job
    <2>4. /\ enrollment' \in [Enrollments -> Row]
          /\ \A f \in Enrollments : Exists(f) => Exists(f)'
      <3>1. enrollment \in [Enrollments -> Row]
        BY DEF TypeInv, Tables
      <3>2. enrollment' = [enrollment EXCEPT ![e].status = status, ![e].attemptCount = n]
        BY <2>2, <2>3
      <3> QED
        BY <3>1, <3>2 DEF Row, Exists
    <2>5. Tables' /\ Keeps
      BY <1>17, <2>4 DEF WriteFailed, TypeInv, Tables, Keeps, course, history
    <2> QED
      BY <1>17, <2>5, FinishTyped DEF WriteFailed
  <1>18. CASE WriteCompleted(w)
    BY <1>13, <1>16, <1>18 DEF WriteCompleted, At, Steps, Status
  <1>21. CASE NextCertificateNumber(w)
    <2>1. PICK n \in Nat : job' = [job EXCEPT ![w].n = n, ![w].at = "certificate"]
      BY <1>21, NextTyped DEF NextCertificateNumber
    <2> QED
      BY <1>13, <1>14, <1>21, <2>1 DEF NextCertificateNumber, At, Steps
  <1>22. ASSUME CreateCertificate(w) PROVE TypeInv'
    <2>1. job[w].e \in Enrollments /\ job[w].n \in Nat /\ ~At(w, "done")
      BY <1>22, UnderWay DEF CreateCertificate, At, Job
    <2>2. CASE Issued(job[w].e) \/ NumberTaken(job[w].n)
      <3>1. Tables' /\ Keeps
        BY <1>22, <2>1, <2>2 DEF CreateCertificate, TypeInv, Tables, Keeps, Exists, course
      <3> QED
        BY <1>22, <2>2, <3>1, FinishTyped DEF CreateCertificate
    <2>3. CASE ~(Issued(job[w].e) \/ NumberTaken(job[w].n))
      <3>1. Tables' /\ Keeps
        BY <1>22, <2>1, <2>3 DEF CreateCertificate, TypeInv, Tables, Keeps, Exists, course
      <3> QED
        BY <1>13, <1>22, <2>1, <2>3, <3>1 DEF CreateCertificate, Steps
    <2> QED
      BY <2>2, <2>3
  <1>19. CASE SendJobs(w)
    BY <1>14, <1>19, FinishTyped DEF SendJobs
  <1>20. CASE StopSubmit(w)
    <2>1. Tables' /\ Keeps
      <3>1. job[w].e \in Enrollments
        BY <1>20, UnderWay DEF StopSubmit, At
      <3> QED
        BY <1>20, <3>1 DEF StopSubmit, TypeInv, Tables, Keeps, Exists, course, tables
    <2> QED
      BY <1>20, <2>1, FinishTyped DEF StopSubmit
  <1> QED
    BY <1>1, <1>2, <1>3, <1>4, <1>6, <1>7, <1>8, <1>9, <1>10, <1>11, <1>12, <1>15, <1>17,
       <1>18, <1>19, <1>20, <1>21, <1>22
    DEF Request, Submit

LEMMA NextTypeInv == TypeInv /\ NumInv /\ [Next]_vars => TypeInv'
  <1> SUFFICES ASSUME TypeInv, NumInv, [Next]_vars PROVE TypeInv'
    OBVIOUS
  <1>1. ASSUME UNCHANGED job, Tables', Keeps PROVE TypeInv'
    <2>1. ASSUME NEW w \in Workers PROVE About(job[w])'
      <3>1. About(job[w]) /\ job'[w] = job[w]
        BY <1>1 DEF TypeInv
      <3> QED
        BY <1>1, <3>1 DEF About, Keeps, Exists
    <2> QED
      BY <1>1, <2>1 DEF TypeInv
  <1>2. enrollment \in [Enrollments -> Row] /\ attempts \in [Enrollments -> Seq(Attempt)]
    BY DEF TypeInv, Tables
  <1>3. ASSUME enrollment' \in [Enrollments -> Row],
               \A f \in Enrollments : Exists(f) => Exists(f)',
               UNCHANGED <<course, progress, attempts, certificate, others, job, history>>
        PROVE  TypeInv'
    BY <1>1, <1>3 DEF TypeInv, Tables, Keeps, course, history
  <1>4. ASSUME NEW e \in Enrollments, Enroll(e) PROVE TypeInv'
    <2>1. [Unborn EXCEPT !.status = "ASSIGNED"] \in Row
      BY DEF Unborn, Row, Status
    <2>2. enrollment'[e].status = "ASSIGNED"
          /\ \A f \in Enrollments \ {e} : enrollment'[f] = enrollment[f]
      BY <1>2, <1>4 DEF Enroll, Unborn
    <2> QED
      BY <1>2, <1>3, <1>4, <2>1, <2>2 DEF Enroll, Exists, Status
  <1>5. ASSUME NEW e \in Enrollments, Lapse(e) PROVE TypeInv'
    <2>1. [enrollment[e] EXCEPT !.validUntil = "over"] \in Row
      BY <1>2 DEF Row
    <2>2. enrollment' \in [Enrollments -> Row]
          /\ \A f \in Enrollments : enrollment'[f].status = enrollment[f].status
      BY <1>2, <1>5, <2>1 DEF Lapse, Row
    <2> QED
      BY <1>3, <1>5, <2>2 DEF Lapse, Exists
  <1>6. CASE Expire
    <2>1. \A e \in Enrollments : [enrollment[e] EXCEPT !.status = "EXPIRED"] \in Row
      BY <1>2 DEF Row, Status
    <2>2. /\ enrollment' \in [Enrollments -> Row]
          /\ \A f \in Enrollments :
               enrollment'[f].status \in {enrollment[f].status, "EXPIRED"}
      BY <1>2, <1>6, <2>1 DEF Expire, Row
    <2> QED
      BY <1>3, <1>6, <2>2 DEF Expire, Exists, Status
  <1>7. ASSUME NEW e \in Enrollments, CoolDown(e) PROVE TypeInv'
    <2> DEFINE cooled == [i \in DOMAIN attempts[e] |->
                 IF attempts[e][i].at = "lately" THEN [attempts[e][i] EXCEPT !.at = "before"]
                 ELSE attempts[e][i]]
    <2>1. \A i \in DOMAIN attempts[e] :
            attempts[e][i] \in Attempt /\ [attempts[e][i] EXCEPT !.at = "before"] \in Attempt
      <3>1. \A a \in Attempt : [a EXCEPT !.at = "before"] \in Attempt
        BY DEF Attempt, When
      <3> QED
        BY <1>2, <3>1
    <2>2. cooled \in Seq(Attempt) /\ DOMAIN cooled = DOMAIN attempts[e]
      <3>1. DOMAIN attempts[e] = 1..Len(attempts[e]) /\ Len(attempts[e]) \in Nat
        BY <1>2
      <3>2. cooled \in [1..Len(attempts[e]) -> Attempt]
        BY <2>1, <3>1
      <3> QED
        BY <3>1, <3>2
    <2>3. attempts' = [attempts EXCEPT ![e] = cooled]
      BY <1>7 DEF CoolDown
    <2> HIDE DEF cooled
    <2>4. /\ attempts' \in [Enrollments -> Seq(Attempt)]
          /\ \A f \in Enrollments : DOMAIN attempts[f] \subseteq DOMAIN attempts'[f]
      BY <1>2, <2>2, <2>3
    <2> QED
      BY <1>1, <1>7, <2>4 DEF CoolDown, TypeInv, Tables, Keeps, Exists, course, history
  <1>8. CASE StartPutQuiz
    <2>1. 0 \in 0..Len(QuestionType) /\ rewrites + 1 \in Nat
      BY TrainingAssumption DEF TypeInv, Tables
    <2> QED
      BY <1>1, <1>8, <2>1 DEF StartPutQuiz, TypeInv, Tables, Keeps, Exists, tables, history
  <1>9. CASE PutQuestion
    <2>1. quiz + 1 \in 0..Len(QuestionType)
      BY <1>9, TrainingAssumption DEF PutQuestion, TypeInv, Tables
    <2> QED
      BY <1>1, <1>9, <2>1 DEF PutQuestion, TypeInv, Tables, Keeps, Exists, tables, history
  <1>10. CASE Publish
    BY <1>1, <1>10 DEF Publish, TypeInv, Tables, Keeps, Exists, tables, history
  <1>11. CASE OtherCertificate
    <2>1. others' \subseteq Nat \ {0}
      BY <1>11, NextTyped DEF OtherCertificate, TypeInv, Tables
    <2> QED
      BY <1>1, <1>11, <2>1 DEF OtherCertificate, TypeInv, Tables, Keeps, Exists, course, tables, history
  <1>12. CASE UNCHANGED vars
    BY <1>1, <1>12 DEF vars, TypeInv, Tables, Keeps, Exists, course, tables, history
  <1> QED
    BY <1>4, <1>5, <1>6, <1>7, <1>8, <1>9, <1>10, <1>11, <1>12, RequestTyped DEF Next

-----------------------------------------------------------------------------
(* The numbers of the certificates.                                        *)

\* A number is given out, to one of the enrollments or to another organization.
LEMMA NumberGiven ==
    ASSUME NEW k \in Nat, Numbered(k), Numbers' = Numbers \cup {k + 1},
           \A w \in Workers : At(w, "certificate")' => At(w, "certificate") /\ job'[w].n = job[w].n,
           \A e, f \in Enrollments : e # f /\ Issued(e)' => certificate'[e] # certificate'[f],
           \A e \in Enrollments : Issued(e)' => certificate'[e] \notin others'
    PROVE  Numbered(k + 1)'
  <1>1. Numbers' = 1..(k + 1)
    BY DEF Numbered
  <1>2. \A w \in Workers : At(w, "certificate")' => job'[w].n \in 1..(k + 2)
    BY DEF Numbered
  <1> QED
    BY <1>1, <1>2 DEF Numbered

\* No number is given out.
LEMMA NumbersKept ==
    ASSUME NumInv, UNCHANGED <<certificate, others>>,
           \A w \in Workers : At(w, "certificate")' =>
              \/ At(w, "certificate") /\ job'[w].n = job[w].n
              \/ job'[w].n = NextNumber
    PROVE  NumInv'
  <1>1. PICK k \in Nat : Numbered(k)
    BY DEF NumInv
  <1>2. NextNumber = k + 1
    BY <1>1, NextIs DEF Numbered
  <1>3. Numbers' = Numbers
    BY DEF Numbers, Issued
  <1>4. Numbered(k)'
    BY <1>1, <1>2, <1>3 DEF Numbered, Issued
  <1> QED
    BY <1>4 DEF NumInv

LEMMA NumInit == Init => NumInv
  <1> SUFFICES ASSUME Init PROVE Numbered(0)
    BY DEF NumInv
  <1> QED
    BY DEF Init, Numbered, Numbers, Issued, NoCertificate, At, Idle

LEMMA NextNumInv == TypeInv /\ NumInv /\ [Next]_vars => NumInv'
  <1> SUFFICES ASSUME TypeInv, NumInv, [Next]_vars PROVE NumInv'
    OBVIOUS
  <1>1. PICK k \in Nat : Numbered(k)
    BY DEF NumInv
  <1>2. ASSUME NEW w \in Workers,
               UNCHANGED <<certificate, others>>, \A v \in Workers \ {w} : job'[v] = job[v],
               job'[w].at # "certificate"
        PROVE  NumInv'
    BY <1>2, NumbersKept DEF At
  <1>3. ASSUME NEW w \in Workers, Finish(w), UNCHANGED <<certificate, others>> PROVE NumInv'
    BY <1>2, <1>3 DEF Finish, TypeInv, Idle
  <1>4. ASSUME NEW w \in Workers, NEW at \in Steps \ {"certificate"}, Go(w, at),
               UNCHANGED <<certificate, others>>
        PROVE  NumInv'
    BY <1>2, <1>4, GoTyped
  <1>5. ASSUME NEW w \in Workers, Request(w) PROVE NumInv'
    <2>1. ASSUME NEW j, j.at # "certificate", Begin(w, j), UNCHANGED <<certificate, others>>
          PROVE  NumInv'
      BY <1>2, <2>1 DEF Begin, TypeInv
    <2>2. ASSUME NEW e \in Enrollments, StartProgress(w, e) PROVE NumInv'
      <3>1. PICK j : j = [Idle EXCEPT !.op = "progress", !.at = "module", !.e = e,
                                      !.status = enrollment[e].status]
        OBVIOUS
      <3> QED
        BY <2>1, <2>2, <3>1 DEF StartProgress, tables, Idle
    <2>3. ASSUME NEW e \in Enrollments, StartQuiz(w, e) PROVE NumInv'
      <3>1. PICK j : j = [Idle EXCEPT !.op = "start", !.at = "limit", !.e = e]
        OBVIOUS
      <3> QED
        BY <2>1, <2>3, <3>1 DEF StartQuiz, tables, Idle
    <2>4. ASSUME NEW e \in Enrollments, StartSubmit(w, e) PROVE NumInv'
      <3>1. PICK a, sheet :
               Begin(w, [Idle EXCEPT !.op = "submit", !.at = "attempt", !.e = e, !.a = a,
                                     !.answers = sheet, !.torn = Torn,
                                     !.passed = scorePercent(1..quiz, sheet) >= PassingScore])
        BY <2>4 DEF StartSubmit
      <3>2. PICK j : j = [Idle EXCEPT !.op = "submit", !.at = "attempt", !.e = e, !.a = a,
                                      !.answers = sheet, !.torn = Torn,
                                      !.passed = scorePercent(1..quiz, sheet) >= PassingScore]
        OBVIOUS
      <3>3. j.at = "attempt"
        BY <3>2 DEF Idle
      <3> QED
        BY <2>1, <2>4, <3>1, <3>2, <3>3 DEF StartSubmit, tables
    <2>5. CASE RecordProgress(w)
      BY <1>3, <1>4, <2>5 DEF RecordProgress, Steps
    <2>6. CASE MarkInProgress(w) \/ CreateAttempt(w) \/ WriteFailed(w) \/ SendJobs(w) \/ StopSubmit(w)
      BY <1>3, <2>6
      DEF MarkInProgress, CreateAttempt, WriteFailed, SendJobs, StopSubmit, tables
    <2>7. CASE CheckLimit(w) \/ CheckOpen(w) \/ CheckCooldown(w) \/ CheckAttempt(w)
      BY <1>3, <1>4, <2>7 DEF CheckLimit, CheckOpen, CheckCooldown, CheckAttempt, tables, Steps
    <2>8. CASE CloseAttempt(w)
      <3>1. job'[w].at = "count" /\ \A v \in Workers \ {w} : job'[v] = job[v]
        BY <2>8 DEF CloseAttempt, TypeInv, Idle
      <3> QED
        BY <1>2, <2>8, <3>1 DEF CloseAttempt
    <2>9. ASSUME NEW n, NEW at, job' = [job EXCEPT ![w].n = n, ![w].at = at]
          PROVE  /\ job'[w].at = at /\ job'[w].n = n
                 /\ \A v \in Workers \ {w} : job'[v] = job[v]
      BY <2>9 DEF TypeInv, Job
    <2>10. CASE CountSubmitted(w) \/ WriteCompleted(w)
      <3>1. PICK n : \/ job' = [job EXCEPT ![w].n = n, ![w].at = "status"]
                     \/ job' = [job EXCEPT ![w].n = n, ![w].at = "number"]
        <4>1. CASE CountSubmitted(w)
          BY <4>1 DEF CountSubmitted
        <4>2. CASE WriteCompleted(w)
          BY <4>2 DEF WriteCompleted
        <4> QED
          BY <2>10, <4>1, <4>2
      <3>2. job'[w].at # "certificate" /\ \A v \in Workers \ {w} : job'[v] = job[v]
        BY <2>9, <3>1
      <3>3. UNCHANGED <<certificate, others>>
        BY <2>10 DEF CountSubmitted, WriteCompleted, tables
      <3> QED
        BY <1>2, <3>2, <3>3
    <2>11. CASE NextCertificateNumber(w)
      <3>1. PICK n : n = NextNumber /\ job' = [job EXCEPT ![w].n = n, ![w].at = "certificate"]
        BY <2>11 DEF NextCertificateNumber
      <3>2. job'[w].n = NextNumber /\ \A v \in Workers \ {w} : job'[v] = job[v]
        BY <2>9, <3>1
      <3>3. UNCHANGED <<certificate, others>>
        BY <2>11 DEF NextCertificateNumber, tables
      <3> QED
        BY <3>2, <3>3, NumbersKept DEF At
    <2>12. CASE CreateCertificate(w)
      <3>1. CASE Issued(job[w].e) \/ NumberTaken(job[w].n)
        BY <1>3, <2>12, <3>1 DEF CreateCertificate
      <3>2. CASE ~Issued(job[w].e) /\ ~NumberTaken(job[w].n)
        <4>1. PICK e \in Enrollments : e = job[w].e
          BY <2>12, UnderWay DEF CreateCertificate, At
        <4>2. job[w].n = k + 1
          BY <1>1, <2>12, <3>2 DEF CreateCertificate, Numbered, NumberTaken
        <4>3. /\ certificate' = [certificate EXCEPT ![e] = k + 1]
              /\ job' = [job EXCEPT ![w].n = 0, ![w].at = "send"]
              /\ others' = others
          BY <2>12, <3>2, <4>1, <4>2 DEF CreateCertificate
        <4>4. certificate \in [Enrollments -> Nat]
          BY DEF TypeInv, Tables
        <4>5. \A f \in Enrollments : Issued(f)' <=> (f = e \/ Issued(f))
          BY <4>3, <4>4 DEF Issued, NoCertificate
        <4>6. \A m : m \in Numbers' <=> m \in Numbers \/ m = k + 1
          BY <3>2, <4>1, <4>3, <4>4, <4>5 DEF Numbers
        <4>7. Numbers' = Numbers \cup {k + 1}
          BY <4>6
        <4>8. \A f \in Enrollments : Issued(f) => certificate[f] \in Numbers
          BY DEF Numbers
        <4>9. k + 1 \notin Numbers /\ others \subseteq Numbers
          BY <1>1 DEF Numbered, Numbers
        <4>10. \A f, g \in Enrollments : f # g /\ Issued(f)' => certificate'[f] # certificate'[g]
          BY <1>1, <4>3, <4>4, <4>5, <4>8, <4>9 DEF Numbered, Issued, NoCertificate
        <4>11. \A f \in Enrollments : Issued(f)' => certificate'[f] \notin others'
          BY <1>1, <4>3, <4>4, <4>5, <4>9 DEF Numbered
        <4>12. \A v \in Workers : At(v, "certificate")' =>
                  At(v, "certificate") /\ job'[v].n = job[v].n
          <5>1. job'[w].at = "send" /\ \A v \in Workers \ {w} : job'[v] = job[v]
            BY <2>9, <4>3
          <5> QED
            BY <5>1 DEF At
        <4>13. Numbered(k + 1)'
          BY <1>1, <4>7, <4>10, <4>11, <4>12, NumberGiven
        <4> QED
          BY <4>13 DEF NumInv
      <3> QED
        BY <3>1, <3>2
    <2> QED
      BY <1>5, <2>2, <2>3, <2>4, <2>5, <2>6, <2>7, <2>8, <2>10, <2>11, <2>12 DEF Request, Submit
  <1>6. CASE OtherCertificate
    <2>1. others' = others \cup {k + 1} /\ UNCHANGED <<certificate, job>>
      BY <1>1, <1>6, NextIs DEF OtherCertificate, Numbered, tables
    <2>2. Numbers' = Numbers \cup {k + 1}
      BY <2>1 DEF Numbers, Issued
    <2>3. \A f \in Enrollments : Issued(f) => certificate[f] \in Numbers
      BY DEF Numbers
    <2>4. k + 1 \notin Numbers
      BY <1>1 DEF Numbered
    <2>5. Numbered(k + 1)'
      BY <1>1, <2>1, <2>2, <2>3, <2>4, NumberGiven DEF Numbered, Issued, At
    <2> QED
      BY <2>5 DEF NumInv
  <1>7. CASE UNCHANGED <<certificate, others, job>>
    BY <1>7, NumbersKept DEF At
  <1> QED
    BY <1>5, <1>6, <1>7
    DEF Next, Enroll, Lapse, CoolDown, StartPutQuiz, PutQuestion, Publish, Expire, vars, tables

\* As many numbers as certificates.
LEMMA NumbersCount == TypeInv /\ NumInv => NumberedInTurn
  <1> SUFFICES ASSUME TypeInv, NumInv PROVE NumberedInTurn
    OBVIOUS
  <1>1. PICK k \in Nat : Numbered(k)
    BY DEF NumInv
  <1> DEFINE issued == {e \in Enrollments : Issued(e)}
             own == {certificate[e] : e \in issued}
             of == [e \in issued |-> certificate[e]]
  <1>2. IsFiniteSet(issued)
    <2>1. issued \in SUBSET Enrollments
      OBVIOUS
    <2> QED
      BY <2>1, TrainingAssumption, FS_Subset
  <1>3. of \in Bijection(issued, own)
    <2>1. of \in [issued -> own] /\ \A n \in own : \E e \in issued : of[e] = n
      OBVIOUS
    <2>2. \A e, f \in issued : of[e] = of[f] => e = f
      BY <1>1 DEF Numbered
    <2> QED
      BY <2>1, <2>2 DEF Bijection, Injection, IsInjective, Surjection
  <1>4. ExistsBijection(issued, own)
    BY <1>3 DEF ExistsBijection
  <1> HIDE DEF own
  <1>5. IsFiniteSet(own) /\ Cardinality(own) = Cardinality(issued)
    BY <1>2, <1>4, FS_Bijection
  <1>6. Numbers = others \cup own /\ Numbers = 1..k
    BY <1>1 DEF Numbers, Numbered, own
  <1>7. IsFiniteSet(1..k) /\ Cardinality(1..k) = k
    BY FS_Interval
  <1>8. IsFiniteSet(others)
    BY <1>6, <1>7, FS_Subset
  <1>9. others \cap own = {}
    BY <1>1 DEF Numbered, own
  <1>10. Cardinality(others \cup own)
           = Cardinality(others) + Cardinality(own) - Cardinality(others \cap own)
    BY <1>5, <1>8, FS_Union
  <1>11. Cardinality({}) = 0 /\ Cardinality(others) \in Nat /\ Cardinality(own) \in Nat
    BY <1>5, <1>8, FS_EmptySet, FS_CardinalityType
  <1>12. k = Cardinality(others) + Cardinality(issued)
    <2>1. Cardinality(others \cup own) = k
      <3>1. others \cup own = 1..k
        BY <1>6
      <3> HIDE DEF issued
      <3> QED
        BY <1>7, <3>1, Zenon
    <2>2. Cardinality(others \cap own) = 0
      BY <1>9, <1>11, Zenon
    <2>3. k = Cardinality(others) + Cardinality(own) - 0
      BY <1>10, <2>1, <2>2, Zenon
    <2>4. PICK a, b \in Nat : a = Cardinality(others) /\ b = Cardinality(own)
      BY <1>11, Zenon
    <2>5. k = a + b - 0
      BY <2>3, <2>4, Zenon
    <2>6. k = a + b
      BY <2>5
    <2> QED
      BY <1>5, <2>4, <2>6, Zenon
  <1> QED
    BY <1>6, <1>12 DEF NumberedInTurn

-----------------------------------------------------------------------------
(* The requests and the certificates.                                      *)

Inv == TypeInv /\ NumInv

LEMMA InitInv == Init => Inv
  BY InitTyped, NumInit DEF Inv

LEMMA NextInv == Inv /\ [Next]_vars => Inv'
  BY NextTypeInv, NextNumInv DEF Inv

\* The tables hold what their columns may hold, and each request stands at a statement of
\* its handler, with an enrollment there is and an attempt there is.
THEOREM TypeCorrect == Spec => []TypeOK
  <1>1. Inv => TypeOK
    BY TypeOKFollows DEF Inv
  <1> QED
    BY <1>1, InitInv, NextInv, PTL DEF Spec

\* The certificates of any number of members, of any number of submissions at once, are
\* numbered from one without a gap and without a number given twice.
THEOREM Numbering == Spec => []NumberedInTurn
  <1>1. Inv => NumberedInTurn
    BY NumbersCount DEF Inv
  <1> QED
    BY <1>1, InitInv, NextInv, PTL DEF Spec

-----------------------------------------------------------------------------
(* The certificate of who has passed.                                      *)

\* The certificate of e is about to be created.
Certifying(e) == \E w \in Workers : job[w].e = e /\ job[w].at \in {"number", "certificate"}
Certified(e) == Issued(e) \/ e \in broken \/ Certifying(e)

LEMMA CertifiedIs ==
    CompletedIsCertified
      <=> \A e \in Enrollments : enrollment[e].status = "COMPLETED" => Certified(e)
  BY DEF CompletedIsCertified, Certified, Certifying

\* A step of one request that does not complete an enrollment, and leaves its certificate
\* where it was.
LEMMA CertifiedKept ==
    ASSUME CompletedIsCertified, NEW w \in Workers, NEW c, c = job[w].e,
           \A v \in Workers \ {w} : job'[v] = job[v],
           \A e \in Enrollments :
              enrollment'[e].status = "COMPLETED" => enrollment[e].status = "COMPLETED",
           \A e \in Enrollments : Issued(e) => Issued(e)',
           broken \subseteq broken',
           job[w].at \in {"number", "certificate"} => Certified(c)'
    PROVE  CompletedIsCertified'
  <1>1. ASSUME NEW e \in Enrollments, Certified(e) PROVE Certified(e)'
    BY <1>1 DEF Certified, Certifying
  <1>2. \A e \in Enrollments : enrollment[e].status = "COMPLETED" => Certified(e)
    BY CertifiedIs
  <1>3. \A e \in Enrollments : enrollment'[e].status = "COMPLETED" => Certified(e)'
    BY <1>1, <1>2
  <1> QED
    BY <1>3 DEF CompletedIsCertified, Certified, Certifying

LEMMA RequestCertified ==
    ASSUME TypeInv, NumInv, CompletedIsCertified, NEW w \in Workers, Request(w)
    PROVE  CompletedIsCertified'
  <1>0. PICK c : c = job[w].e
    OBVIOUS
  <1>20. enrollment \in [Enrollments -> Row]
    BY DEF TypeInv, Tables
  <1>1. ASSUME \A v \in Workers \ {w} : job'[v] = job[v],
               job[w].at \notin {"number", "certificate"},
               UNCHANGED <<enrollment, certificate, broken>>
        PROVE  CompletedIsCertified'
    BY <1>1, <1>0, CertifiedKept DEF Issued
  <1>2. ASSUME NEW j, Begin(w, j), UNCHANGED <<enrollment, certificate, broken>>
        PROVE  CompletedIsCertified'
    <2>1. job[w] = Idle /\ \A v \in Workers \ {w} : job'[v] = job[v]
      BY <1>2 DEF Begin, TypeInv
    <2> QED
      BY <1>1, <1>2, <2>1 DEF Idle
  <1>3. ASSUME Finish(w) \/ \E at \in Steps : Go(w, at),
               job[w].at \notin {"number", "certificate"},
               UNCHANGED <<enrollment, certificate, broken>>
        PROVE  CompletedIsCertified'
    BY <1>1, <1>3 DEF TypeInv, Finish, Go
  <1>4. ASSUME NEW e \in Enrollments, StartProgress(w, e) \/ StartQuiz(w, e) \/ StartSubmit(w, e)
        PROVE  CompletedIsCertified'
    BY <1>2, <1>4 DEF StartProgress, StartQuiz, StartSubmit, tables
  <1>5. CASE RecordProgress(w)
    BY <1>3, <1>5 DEF RecordProgress, At, Steps, history
  <1>6. CASE MarkInProgress(w)
    <2>1. \A e \in Enrollments :
             enrollment'[e].status = "COMPLETED" => enrollment[e].status = "COMPLETED"
      BY <1>20, <1>6 DEF MarkInProgress, Row
    <2>2. \A v \in Workers \ {w} : job'[v] = job[v]
      BY <1>6 DEF MarkInProgress, Finish, TypeInv
    <2> QED
      BY <1>6, <2>1, <2>2, <1>0, CertifiedKept DEF MarkInProgress, At, Issued, history
  <1>7. CASE CheckLimit(w) \/ CheckOpen(w) \/ CheckCooldown(w) \/ CheckAttempt(w) \/ SendJobs(w)
    BY <1>3, <1>7
    DEF CheckLimit, CheckOpen, CheckCooldown, CheckAttempt, SendJobs, At, Steps, tables, history
  <1>8. CASE CreateAttempt(w)
    BY <1>3, <1>8 DEF CreateAttempt, At, history
  <1>9. CASE CloseAttempt(w)
    <2>1. \A v \in Workers \ {w} : job'[v] = job[v]
      BY <1>9 DEF CloseAttempt, TypeInv
    <2> QED
      BY <1>1, <1>9, <2>1 DEF CloseAttempt, At, history
  <1>10. CASE CountSubmitted(w)
    <2>1. \A v \in Workers \ {w} : job'[v] = job[v]
      BY <1>10 DEF CountSubmitted, TypeInv
    <2> QED
      BY <1>1, <1>10, <2>1 DEF CountSubmitted, At, tables, history
  <1>11. CASE WriteFailed(w)
    <2>1. PICK status \in {"FAILED", "IN_PROGRESS"} :
             enrollment' = [enrollment EXCEPT ![job[w].e].status = status,
                                              ![job[w].e].attemptCount = job[w].n]
      BY <1>11 DEF WriteFailed
    <2>2. \A f \in Enrollments :
             enrollment'[f].status = "COMPLETED" => enrollment[f].status = "COMPLETED"
      BY <1>20, <2>1 DEF Row
    <2>3. \A v \in Workers \ {w} : job'[v] = job[v]
      BY <1>11 DEF WriteFailed, Finish, TypeInv
    <2> QED
      BY <1>11, <2>2, <2>3, <1>0, CertifiedKept DEF WriteFailed, At, Issued, history
  <1>12. CASE WriteCompleted(w)
    <2>1. job[w] \in Job /\ job \in [Workers -> Job]
      BY DEF TypeInv
    <2>2. PICK j : j = [job[w] EXCEPT !.n = 0, !.at = "number"]
      OBVIOUS
    <2>3. j.e = job[w].e /\ j.at = "number"
      BY <2>1, <2>2 DEF Job
    <2>4. job' = [job EXCEPT ![w] = j]
      BY <1>12, <2>2 DEF WriteCompleted
    <2>5. job'[w] = j /\ \A v \in Workers \ {w} : job'[v] = job[v]
      BY <2>1, <2>4
    <2>6. Certifying(c)'
      BY <1>0, <2>3, <2>5 DEF Certifying
    <2>7. ASSUME NEW e \in Enrollments, Certifying(e) PROVE Certifying(e)'
      BY <1>12, <2>5, <2>7 DEF Certifying, WriteCompleted, At
    <2>8. \A e \in Enrollments : e = job[w].e \/ enrollment'[e] = enrollment[e]
      BY <1>20, <1>12 DEF WriteCompleted
    <2>9. \A e \in Enrollments : enrollment'[e].status = "COMPLETED" => Certified(e)'
      BY <1>0, <1>12, <2>6, <2>7, <2>8, CertifiedIs DEF Certified, Issued, WriteCompleted, history
    <2> QED
      BY <2>9 DEF CompletedIsCertified, Certified, Certifying
  <1>13. CASE NextCertificateNumber(w)
    <2>1. job[w] \in Job /\ job \in [Workers -> Job]
      BY DEF TypeInv
    <2>2. PICK j : j = [job[w] EXCEPT !.n = NextNumber, !.at = "certificate"]
      OBVIOUS
    <2>3. j.e = job[w].e /\ j.at = "certificate"
      BY <2>1, <2>2 DEF Job
    <2>4. job' = [job EXCEPT ![w] = j]
      BY <1>13, <2>2 DEF NextCertificateNumber
    <2>5. job'[w] = j /\ \A v \in Workers \ {w} : job'[v] = job[v]
      BY <2>1, <2>4
    <2>6. Certified(c)'
      BY <1>0, <2>3, <2>5 DEF Certified, Certifying
    <2> QED
      BY <1>13, <2>5, <2>6, <1>0, CertifiedKept DEF NextCertificateNumber, Issued, tables, history
  <1>14. CASE CreateCertificate(w)
    <2>1. job[w] \in Job /\ job[w].e \in Enrollments
      BY <1>14, UnderWay DEF CreateCertificate, At
    <2>2. CASE Issued(job[w].e) \/ NumberTaken(job[w].n)
      <3>1. \A v \in Workers \ {w} : job'[v] = job[v]
        BY <1>14, <2>2 DEF CreateCertificate, Finish, TypeInv
      <3>2. Certified(c)'
        BY <1>0, <1>14, <2>2 DEF CreateCertificate, Certified
      <3> QED
        BY <1>14, <2>2, <3>1, <3>2, <1>0, CertifiedKept DEF CreateCertificate, Issued
    <2>3. CASE ~(Issued(job[w].e) \/ NumberTaken(job[w].n))
      <3>1. \A v \in Workers \ {w} : job'[v] = job[v]
        BY <1>14, <2>3 DEF CreateCertificate, TypeInv
      <3>2. certificate' = [certificate EXCEPT ![job[w].e] = job[w].n] /\ job[w].n \in Nat \ {0}
        <4>1. job[w].n # 0
          BY <1>14 DEF CreateCertificate, At, NumInv, Numbered
        <4> QED
          BY <1>14, <2>1, <2>3, <4>1 DEF CreateCertificate, Job
      <3>3. \A e \in Enrollments : Issued(e) => Issued(e)'
        BY <3>2 DEF Issued, NoCertificate, TypeInv, Tables
      <3>4. Issued(c)'
        BY <1>0, <2>1, <3>2 DEF Issued, NoCertificate, TypeInv, Tables
      <3> QED
        BY <1>14, <2>3, <3>1, <3>3, <3>4, <1>0, CertifiedKept DEF CreateCertificate, Certified
    <2> QED
      BY <2>2, <2>3
  <1>15. CASE StopSubmit(w)
    <2>1. \A v \in Workers \ {w} : job'[v] = job[v]
      BY <1>15 DEF StopSubmit, Finish, TypeInv
    <2> QED
      BY <1>15, <2>1, <1>0, CertifiedKept DEF StopSubmit, Certified, Issued, tables
  <1> QED
    BY <1>4, <1>5, <1>6, <1>7, <1>8, <1>9, <1>10, <1>11, <1>12, <1>13, <1>14, <1>15
    DEF Request, Submit

LEMMA NextCertified == Inv /\ CompletedIsCertified /\ [Next]_vars => CompletedIsCertified'
  <1> SUFFICES ASSUME TypeInv, NumInv, CompletedIsCertified, [Next]_vars PROVE CompletedIsCertified'
    BY DEF Inv
  <1>0. enrollment \in [Enrollments -> Row]
    BY DEF TypeInv, Tables
  <1>1. ASSUME \A e \in Enrollments :
                  enrollment'[e].status = "COMPLETED" => enrollment[e].status = "COMPLETED",
               UNCHANGED <<certificate, job, broken>>
        PROVE  CompletedIsCertified'
    BY <1>1 DEF CompletedIsCertified, Issued
  <1>2. ASSUME NEW e \in Enrollments, Enroll(e) PROVE CompletedIsCertified'
    <2>1. \A f \in Enrollments :
             enrollment'[f].status = "COMPLETED" => enrollment[f].status = "COMPLETED"
      BY <1>0, <1>2 DEF Enroll, Unborn
    <2> QED
      BY <1>1, <1>2, <2>1 DEF Enroll, history
  <1>3. ASSUME NEW e \in Enrollments, Lapse(e) PROVE CompletedIsCertified'
    <2>1. \A f \in Enrollments : enrollment'[f].status = enrollment[f].status
      BY <1>0, <1>3 DEF Lapse, Row
    <2> QED
      BY <1>1, <1>3, <2>1 DEF Lapse, history
  <1>4. CASE Expire
    <2>1. \A f \in Enrollments : enrollment'[f].status \in {enrollment[f].status, "EXPIRED"}
      BY <1>0, <1>4 DEF Expire, Row
    <2> QED
      BY <1>1, <1>4, <2>1 DEF Expire, history
  <1>5. CASE UNCHANGED <<enrollment, certificate, job, broken>>
    BY <1>1, <1>5
  <1> QED
    BY <1>2, <1>3, <1>4, <1>5, RequestCertified
    DEF Next, CoolDown, StartPutQuiz, PutQuestion, Publish, OtherCertificate, vars, tables, history

\* Who is COMPLETED has a certificate, or is one of those whose submission is about to
\* create it or broke off before, for any number of submissions at once.
THEOREM Certification == Spec => []CompletedIsCertified
  <1>1. Init => CompletedIsCertified
    BY DEF Init, CompletedIsCertified, Unborn
  <1> QED
    BY <1>1, InitInv, NextInv, NextCertified, PTL DEF Spec

-----------------------------------------------------------------------------
(* The attempts of an enrollment for which one request at a time was made. *)

Alone ==
    \A v, w \in Workers :
        v # w /\ job[v].e = job[w].e /\ job[v].e \in Enrollments => job[v].e \in met

\* A start that has read that attempts are left, and that none is open, is still right.
Room(w, e) ==
    /\ job[w].at \in {"open", "cooldown", "create"} => Submitted(e) < MaxAttempts
    /\ job[w].at \in {"cooldown", "create"} => OpenAttempts(e) = {}

Rooms == \A w \in Workers, e \in Enrollments \ met : job[w].e = e => Room(w, e)

LimitInv == Alone /\ Rooms /\ AttemptLimit

\* A request begins, with what it is about marked where another is about the same; goes on
\* about the same; or ends.
Moves(w) ==
    /\ \A v \in Workers \ {w} : job'[v] = job[v]
    /\ met \subseteq met'
    /\ \/ job'[w] = Idle
       \/ job'[w].e = job[w].e
       \/ /\ \A v \in Workers : job[v].e = job'[w].e => job'[w].e \in met'
          /\ job'[w].at \notin {"open", "cooldown", "create"}

LEMMA RequestMoves ==
    ASSUME TypeInv, NEW w \in Workers, Request(w)
    PROVE  Moves(w)
  <1>0. job \in [Workers -> Job] /\ met \subseteq Enrollments
    BY DEF TypeInv, Tables
  <1>1. ASSUME NEW j, Begin(w, j), j.at \notin {"open", "cooldown", "create"} PROVE Moves(w)
    BY <1>0, <1>1 DEF Begin, Moves
  <1>2. ASSUME Finish(w), met \subseteq met' PROVE Moves(w)
    BY <1>0, <1>2 DEF Finish, Moves
  <1>3. ASSUME NEW at \in Steps, Go(w, at), met' = met PROVE Moves(w)
    BY <1>3, GoTyped DEF Moves
  <1>4. ASSUME NEW j, job' = [job EXCEPT ![w] = j], j.e = job[w].e, met \subseteq met'
        PROVE  Moves(w)
    BY <1>0, <1>4 DEF Moves
  <1>5. ASSUME NEW at, NEW n, job' = [job EXCEPT ![w].n = n, ![w].at = at], met' = met
        PROVE  Moves(w)
    <2>1. PICK j : j = [job[w] EXCEPT !.n = n, !.at = at]
      OBVIOUS
    <2>2. job[w] \in Job
      BY <1>0
    <2>3. j.e = job[w].e
      BY <2>1, <2>2 DEF Job
    <2>4. job' = [job EXCEPT ![w] = j]
      BY <1>5, <2>1
    <2> QED
      BY <1>4, <1>5, <2>3, <2>4
  <1>6. ASSUME NEW e \in Enrollments, StartProgress(w, e) PROVE Moves(w)
    <2>1. PICK j : j = [Idle EXCEPT !.op = "progress", !.at = "module", !.e = e,
                                    !.status = enrollment[e].status]
      OBVIOUS
    <2>2. j.at = "module"
      BY <2>1 DEF Idle
    <2> QED
      BY <1>1, <1>6, <2>1, <2>2 DEF StartProgress
  <1>7. ASSUME NEW e \in Enrollments, StartQuiz(w, e) PROVE Moves(w)
    <2>1. PICK j : j = [Idle EXCEPT !.op = "start", !.at = "limit", !.e = e]
      OBVIOUS
    <2>2. j.at = "limit"
      BY <2>1 DEF Idle
    <2> QED
      BY <1>1, <1>7, <2>1, <2>2 DEF StartQuiz
  <1>8. ASSUME NEW e \in Enrollments, StartSubmit(w, e) PROVE Moves(w)
    <2>1. PICK a \in DOMAIN attempts[e], sheet \in Sheets :
             Begin(w, [Idle EXCEPT !.op = "submit", !.at = "attempt", !.e = e, !.a = a,
                                   !.answers = sheet, !.torn = Torn,
                                   !.passed = scorePercent(1..quiz, sheet) >= PassingScore])
      BY <1>8 DEF StartSubmit
    <2>2. PICK j : j = [Idle EXCEPT !.op = "submit", !.at = "attempt", !.e = e, !.a = a,
                                    !.answers = sheet, !.torn = Torn,
                                    !.passed = scorePercent(1..quiz, sheet) >= PassingScore]
      OBVIOUS
    <2>3. j.at = "attempt" /\ Begin(w, j)
      BY <2>1, <2>2 DEF Idle
    <2> QED
      BY <1>1, <2>3
  <1>9. CASE RecordProgress(w)
    BY <1>2, <1>3, <1>9 DEF RecordProgress, Steps, history
  <1>10. CASE MarkInProgress(w) \/ CreateAttempt(w) \/ WriteFailed(w) \/ SendJobs(w)
    BY <1>2, <1>10 DEF MarkInProgress, CreateAttempt, WriteFailed, SendJobs, history
  <1>11. CASE CheckLimit(w) \/ CheckOpen(w) \/ CheckCooldown(w) \/ CheckAttempt(w)
    BY <1>2, <1>3, <1>11 DEF CheckLimit, CheckOpen, CheckCooldown, CheckAttempt, Steps, history
  <1>12. CASE CloseAttempt(w)
    <2>1. PICK j : j = [Idle EXCEPT !.op = "submit", !.at = "count", !.e = job[w].e,
                                    !.passed = job[w].passed]
      OBVIOUS
    <2>2. j.e = job[w].e
      BY <2>1 DEF Idle
    <2> QED
      BY <1>4, <1>12, <2>1, <2>2 DEF CloseAttempt, history
  <1>13. CASE CountSubmitted(w)
    BY <1>5, <1>13 DEF CountSubmitted, history
  <1>14. CASE WriteCompleted(w)
    BY <1>5, <1>14 DEF WriteCompleted, history
  <1>15. CASE NextCertificateNumber(w)
    BY <1>5, <1>15 DEF NextCertificateNumber, history
  <1>16. CASE CreateCertificate(w)
    <2>1. CASE Issued(job[w].e) \/ NumberTaken(job[w].n)
      BY <1>2, <1>16, <2>1 DEF CreateCertificate
    <2>2. CASE ~(Issued(job[w].e) \/ NumberTaken(job[w].n))
      BY <1>5, <1>16, <2>2 DEF CreateCertificate
    <2> QED
      BY <2>1, <2>2
  <1>17. CASE StopSubmit(w)
    BY <1>2, <1>17 DEF StopSubmit
  <1> QED
    BY <1>6, <1>7, <1>8, <1>9, <1>10, <1>11, <1>12, <1>13, <1>14, <1>15, <1>16, <1>17
    DEF Request, Submit

\* Two requests about one enrollment leave a mark.
LEMMA MovesAlone ==
    ASSUME TypeInv, NEW w \in Workers, Moves(w), Alone
    PROVE  Alone'
  <1> SUFFICES ASSUME NEW u \in Workers, NEW v \in Workers, u # v, job'[u].e = job'[v].e,
                      job'[u].e \in Enrollments
               PROVE  job'[u].e \in met'
    BY DEF Alone
  <1>1. Idle.e \notin Enrollments
    BY TrainingAssumption DEF Idle
  <1>2. CASE u # w /\ v # w
    BY <1>2 DEF Moves, Alone
  <1>3. CASE u = w
    BY <1>1, <1>3 DEF Moves, Alone
  <1>4. CASE v = w
    BY <1>1, <1>4 DEF Moves, Alone
  <1> QED
    BY <1>2, <1>3, <1>4

\* What the others have read of an enrollment still holds, as long as its attempts are as
\* they were or none of them is about it.
LEMMA RoomsKept ==
    ASSUME TypeInv, NEW w \in Workers, Moves(w), Alone, Rooms,
           \A e \in Enrollments \ met : job[w].e # e =>
              Submitted(e)' = Submitted(e) /\ OpenAttempts(e)' = OpenAttempts(e),
           \A e \in Enrollments \ met' : job'[w].e = e => Room(w, e)'
    PROVE  Rooms'
  <1> SUFFICES ASSUME NEW v \in Workers, NEW e \in Enrollments, e \notin met', job'[v].e = e
               PROVE  Room(v, e)'
    BY DEF Rooms
  <1>1. CASE v = w
    BY <1>1
  <1>2. CASE v # w
    <2>1. e \notin met /\ job'[v] = job[v]
      BY <1>2 DEF Moves
    <2>2. job[w].e # e /\ Room(v, e)
      BY <1>2, <2>1 DEF Alone, Rooms
    <2> QED
      BY <2>1, <2>2 DEF Room
  <1> QED
    BY <1>1, <1>2

LEMMA RequestLimit ==
    ASSUME TypeInv, LimitInv, NEW w \in Workers, Request(w)
    PROVE  LimitInv'
  <1>1. Moves(w) /\ Alone'
    BY RequestMoves, MovesAlone DEF LimitInv
  <1>2. job \in [Workers -> Job] /\ attempts \in [Enrollments -> Seq(Attempt)]
    BY DEF TypeInv, Tables
  <1>3. PICK c : c = job[w].e
    OBVIOUS
  <1>4. ASSUME UNCHANGED attempts PROVE /\ AttemptLimit'
                                        /\ \A e : /\ Submitted(e)' = Submitted(e)
                                                  /\ OpenAttempts(e)' = OpenAttempts(e)
    BY <1>1, <1>4 DEF LimitInv, AttemptLimit, Submitted, OpenAttempts, Moves
  <1>5. ASSUME UNCHANGED attempts, \A e \in Enrollments \ met' : job'[w].e = e => Room(w, e)'
        PROVE  LimitInv'
    BY <1>1, <1>4, <1>5, RoomsKept DEF LimitInv
  <1>6. ASSUME UNCHANGED attempts, job'[w].at \notin {"open", "cooldown", "create"}
        PROVE  LimitInv'
    BY <1>5, <1>6 DEF Room
  <1>7. ASSUME NEW at \in Steps, Go(w, at), UNCHANGED <<attempts, met>>,
               job[w].e \in Enrollments \ met => Room(w, c)'
        PROVE  LimitInv'
    <2>1. job'[w].e = c
      BY <1>3, <1>7, GoTyped
    <2> QED
      BY <1>3, <1>5, <1>7, <2>1
  <1>8. ASSUME Finish(w), UNCHANGED attempts PROVE LimitInv'
    BY <1>2, <1>6, <1>8 DEF Finish, Idle
  <1>9. ASSUME NEW e \in Enrollments, StartProgress(w, e) \/ StartQuiz(w, e) \/ StartSubmit(w, e)
        PROVE  LimitInv'
    <2>1. PICK j : Begin(w, j) /\ j.at \in {"module", "limit", "attempt"}
      <3>1. CASE StartProgress(w, e)
        <4>1. PICK j : j = [Idle EXCEPT !.op = "progress", !.at = "module", !.e = e,
                                        !.status = enrollment[e].status]
          OBVIOUS
        <4>2. j.at = "module" /\ Begin(w, j)
          BY <3>1, <4>1 DEF Idle, StartProgress
        <4> QED
          BY <4>2
      <3>2. CASE StartQuiz(w, e)
        <4>1. PICK j : j = [Idle EXCEPT !.op = "start", !.at = "limit", !.e = e]
          OBVIOUS
        <4>2. j.at = "limit" /\ Begin(w, j)
          BY <3>2, <4>1 DEF Idle, StartQuiz
        <4> QED
          BY <4>2
      <3>3. CASE StartSubmit(w, e)
        <4>1. PICK a \in DOMAIN attempts[e], sheet \in Sheets :
                 Begin(w, [Idle EXCEPT !.op = "submit", !.at = "attempt", !.e = e, !.a = a,
                                       !.answers = sheet, !.torn = Torn,
                                       !.passed = scorePercent(1..quiz, sheet) >= PassingScore])
          BY <3>3 DEF StartSubmit
        <4>2. PICK j : j = [Idle EXCEPT !.op = "submit", !.at = "attempt", !.e = e, !.a = a,
                                        !.answers = sheet, !.torn = Torn,
                                        !.passed = scorePercent(1..quiz, sheet) >= PassingScore]
          OBVIOUS
        <4>3. j.at = "attempt" /\ Begin(w, j)
          BY <4>1, <4>2 DEF Idle
        <4> QED
          BY <4>3
      <3> QED
        BY <1>9, <3>1, <3>2, <3>3
    <2>2. job'[w].at \in {"module", "limit", "attempt"}
      BY <1>2, <2>1 DEF Begin
    <2> QED
      BY <1>6, <1>9, <2>2 DEF StartProgress, StartQuiz, StartSubmit, tables
  <1>10. CASE RecordProgress(w)
    <2>1. CASE Go(w, "begun")
      BY <1>6, <1>10, <2>1, GoTyped DEF RecordProgress, Steps
    <2>2. CASE Finish(w)
      BY <1>8, <1>10, <2>2 DEF RecordProgress
    <2> QED
      BY <1>10, <2>1, <2>2 DEF RecordProgress
  <1>11. CASE MarkInProgress(w) \/ WriteFailed(w) \/ SendJobs(w) \/ StopSubmit(w)
    BY <1>8, <1>11 DEF MarkInProgress, WriteFailed, SendJobs, StopSubmit, tables
  <1>12. CASE CheckLimit(w)
    <2>1. UNCHANGED <<attempts, met>>
      BY <1>12 DEF CheckLimit, tables, history
    <2>2. CASE Finish(w)
      BY <1>8, <2>1, <2>2
    <2>3. CASE AttemptsLeft(job[w].e) /\ Go(w, "open")
      <3>1. Submitted(c)' < MaxAttempts
        BY <1>3, <1>4, <2>1, <2>3 DEF AttemptsLeft
      <3>2. Room(w, c)'
        BY <2>3, <3>1, GoTyped DEF Room, Steps
      <3> QED
        BY <1>7, <2>1, <2>3, <3>2 DEF Steps
    <2> QED
      BY <1>12, <2>2, <2>3 DEF CheckLimit
  <1>13. CASE CheckOpen(w)
    <2>1. UNCHANGED <<attempts, met>> /\ job[w].at = "open"
      BY <1>13 DEF CheckOpen, tables, history, At
    <2>2. CASE Finish(w)
      BY <1>8, <2>1, <2>2
    <2>3. CASE OpenAttempts(job[w].e) = {} /\ Go(w, "cooldown")
      <3>1. OpenAttempts(c)' = {}
        BY <1>3, <1>4, <2>1, <2>3
      <3>2. c \in Enrollments \ met => Submitted(c)' < MaxAttempts
        BY <1>3, <1>4, <2>1 DEF LimitInv, Rooms, Room
      <3>3. c \in Enrollments \ met => Room(w, c)'
        BY <3>1, <3>2 DEF Room
      <3> QED
        BY <1>3, <1>7, <2>1, <2>3, <3>3 DEF Steps
    <2> QED
      BY <1>13, <2>2, <2>3 DEF CheckOpen
  <1>14. CASE CheckCooldown(w)
    <2>1. UNCHANGED <<attempts, met>> /\ job[w].at = "cooldown"
      BY <1>14 DEF CheckCooldown, tables, history, At
    <2>2. CASE Finish(w)
      BY <1>8, <2>1, <2>2
    <2>3. CASE Go(w, "create")
      <3>1. c \in Enrollments \ met => Submitted(c)' < MaxAttempts /\ OpenAttempts(c)' = {}
        BY <1>3, <1>4, <2>1 DEF LimitInv, Rooms, Room
      <3>2. c \in Enrollments \ met => Room(w, c)'
        BY <3>1 DEF Room
      <3> QED
        BY <1>3, <1>7, <2>1, <2>3, <3>2 DEF Steps
    <2> QED
      BY <1>14, <2>2, <2>3 DEF CheckCooldown
  <1>15. CASE CheckAttempt(w)
    <2>1. CASE Go(w, "score")
      BY <1>6, <1>15, <2>1, GoTyped DEF CheckAttempt, tables, Steps
    <2>2. CASE Finish(w)
      BY <1>8, <1>15, <2>2 DEF CheckAttempt, tables
    <2> QED
      BY <1>15, <2>1, <2>2 DEF CheckAttempt
  <1>16. ASSUME NEW at \in Steps \ {"open", "cooldown", "create"}, NEW n,
                job' = [job EXCEPT ![w].n = n, ![w].at = at], UNCHANGED attempts
         PROVE  LimitInv'
    <2>1. PICK j : j = [job[w] EXCEPT !.n = n, !.at = at]
      OBVIOUS
    <2>2. job[w] \in Job
      BY <1>2
    <2>3. j.at = at
      BY <2>1, <2>2 DEF Job
    <2>4. job' = [job EXCEPT ![w] = j]
      BY <1>16, <2>1
    <2>5. job'[w].at = at
      BY <1>2, <2>3, <2>4
    <2> QED
      BY <1>6, <1>16, <2>5
  <1>17. CASE CountSubmitted(w)
    BY <1>16, <1>17 DEF CountSubmitted, tables, Steps
  <1>18. CASE WriteCompleted(w)
    BY <1>16, <1>18 DEF WriteCompleted, Steps
  <1>19. CASE NextCertificateNumber(w)
    BY <1>16, <1>19 DEF NextCertificateNumber, tables, Steps
  <1>20. CASE CreateCertificate(w)
    <2>1. CASE Finish(w)
      BY <1>8, <1>20, <2>1 DEF CreateCertificate
    <2>2. CASE job' = [job EXCEPT ![w].n = 0, ![w].at = "send"]
      BY <1>16, <1>20, <2>2 DEF CreateCertificate, Steps
    <2> QED
      BY <1>20, <2>1, <2>2 DEF CreateCertificate
  <1>21. ASSUME NEW s \in Seq(Attempt), c \in Enrollments, attempts' = [attempts EXCEPT ![c] = s],
                c \notin met' => Len(s) <= MaxAttempts,
                job'[w].at \notin {"open", "cooldown", "create"}
         PROVE  LimitInv'
    <2>1. /\ attempts'[c] = s
          /\ \A e \in Enrollments : e # c => attempts'[e] = attempts[e]
      BY <1>2, <1>21
    <2>2. ASSUME NEW e \in Enrollments \ met, job[w].e # e
          PROVE  Submitted(e)' = Submitted(e) /\ OpenAttempts(e)' = OpenAttempts(e)
      BY <1>3, <2>1, <2>2 DEF Submitted, OpenAttempts
    <2>3. Rooms'
      BY <1>1, <1>21, <2>2, RoomsKept DEF LimitInv, Room
    <2>4. AttemptLimit'
      BY <1>1, <1>21, <2>1 DEF LimitInv, AttemptLimit, Moves
    <2> QED
      BY <1>1, <2>3, <2>4 DEF LimitInv
  <1>22. CASE CreateAttempt(w)
    <2>1. c \in Enrollments /\ job[w].at = "create"
      BY <1>3, <1>22, UnderWay DEF CreateAttempt, At
    <2>2. attempts[c] \in Seq(Attempt) /\ [at |-> "open", passed |-> FALSE] \in Attempt
      BY <1>2, <2>1 DEF Attempt, When
    <2>3. PICK s : s = Append(attempts[c], [at |-> "open", passed |-> FALSE])
      OBVIOUS
    <2>4. s \in Seq(Attempt) /\ Len(s) = Len(attempts[c]) + 1
      BY <2>2, <2>3
    <2>5. c \notin met => Submitted(c) < MaxAttempts /\ OpenAttempts(c) = {}
      BY <1>3, <2>1 DEF LimitInv, Rooms, Room
    <2>6. c \notin met' => Len(s) <= MaxAttempts
      <3>1. /\ Len(attempts[c]) \in Nat
            /\ OpenAttempts(c) = {} => Submitted(c) = Len(attempts[c])
        BY <2>1, Attempts
      <3>2. c \notin met' => c \notin met
        BY <1>1 DEF Moves
      <3> QED
        BY <2>4, <2>5, <3>1, <3>2, TrainingAssumption
    <2>7. attempts' = [attempts EXCEPT ![c] = s]
      BY <1>3, <1>22, <2>1, <2>3 DEF CreateAttempt
    <2>8. job'[w].at = "done"
      BY <1>2, <1>22 DEF CreateAttempt, Finish, Idle
    <2> QED
      BY <1>21, <2>1, <2>4, <2>6, <2>7, <2>8
  <1>23. CASE CloseAttempt(w)
    <2>1. /\ c \in Enrollments /\ job[w] \in Job
          /\ job[w].a \in DOMAIN attempts[c]
      BY <1>3, <1>23, UnderWay DEF CloseAttempt, At
    <2>2. PICK r \in Attempt : r = [at |-> "lately", passed |-> job[w].passed]
      BY <2>1 DEF Attempt, When, Job
    <2>3. PICK a \in DOMAIN attempts[c] : a = job[w].a
      BY <2>1
    <2>4. PICK s : s = [attempts[c] EXCEPT ![a] = r]
      OBVIOUS
    <2>5. attempts[c] \in Seq(Attempt)
      BY <1>2, <2>1
    <2>6. s \in Seq(Attempt) /\ Len(s) = Len(attempts[c])
      BY <2>4, <2>5
    <2>7. attempts' = [attempts EXCEPT ![c] = s]
      BY <1>3, <1>23, <2>2, <2>3, <2>4 DEF CloseAttempt
    <2>8. c \notin met' => Len(s) <= MaxAttempts
      BY <1>1, <2>1, <2>6 DEF LimitInv, AttemptLimit, Moves
    <2>9. job'[w].at = "count"
      BY <1>2, <1>23 DEF CloseAttempt, Idle
    <2> QED
      BY <1>21, <2>1, <2>6, <2>7, <2>8, <2>9
  <1> QED
    BY <1>9, <1>10, <1>11, <1>12, <1>13, <1>14, <1>15, <1>17, <1>18, <1>19, <1>20, <1>22, <1>23
    DEF Request, Submit

LEMMA NextLimit == Inv /\ LimitInv /\ [Next]_vars => LimitInv'
  <1> SUFFICES ASSUME TypeInv, LimitInv, [Next]_vars PROVE LimitInv'
    BY DEF Inv
  <1>1. ASSUME UNCHANGED <<job, met>>,
               \A e \in Enrollments : /\ Submitted(e)' = Submitted(e)
                                      /\ OpenAttempts(e)' = OpenAttempts(e)
                                      /\ Len(attempts'[e]) = Len(attempts[e])
        PROVE  LimitInv'
    BY <1>1 DEF LimitInv, Alone, Rooms, Room, AttemptLimit
  <1>2. CASE UNCHANGED <<attempts, job, met>>
    BY <1>1, <1>2 DEF Submitted, OpenAttempts
  <1>3. ASSUME NEW e \in Enrollments, CoolDown(e) PROVE LimitInv'
    <2>1. attempts \in [Enrollments -> Seq(Attempt)] /\ attempts[e] \in Seq(Attempt)
      BY DEF TypeInv, Tables
    <2>2. PICK s : s = [i \in DOMAIN attempts[e] |->
                          IF attempts[e][i].at = "lately" THEN [attempts[e][i] EXCEPT !.at = "before"]
                          ELSE attempts[e][i]]
      OBVIOUS
    <2>3. attempts' = [attempts EXCEPT ![e] = s]
      BY <1>3, <2>2 DEF CoolDown
    <2>4. /\ DOMAIN s = DOMAIN attempts[e]
          /\ \A i \in DOMAIN s : s[i].at = "open" <=> attempts[e][i].at = "open"
      <3>1. \A i \in DOMAIN attempts[e] : attempts[e][i] \in Attempt
        BY <2>1
      <3>2. \A r \in Attempt : [r EXCEPT !.at = "before"].at = "before"
        BY DEF Attempt
      <3> QED
        BY <2>2, <3>1, <3>2
    <2>5. Len(s) = Len(attempts[e])
      <3>1. DOMAIN s = 1..Len(attempts[e]) /\ Len(attempts[e]) \in Nat
        BY <2>1, <2>4
      <3> QED
        BY <2>2, <3>1
    <2>6. /\ attempts'[e] = s
          /\ \A f \in Enrollments : f # e => attempts'[f] = attempts[f]
      BY <2>1, <2>3
    <2>7. {i \in DOMAIN s : s[i].at # "open"} = {i \in DOMAIN attempts[e] : attempts[e][i].at # "open"}
      BY <2>4
    <2>8. {i \in DOMAIN s : s[i].at = "open"} = {i \in DOMAIN attempts[e] : attempts[e][i].at = "open"}
      BY <2>4
    <2>9. ASSUME NEW f \in Enrollments
          PROVE  /\ Submitted(f)' = Submitted(f)
                 /\ OpenAttempts(f)' = OpenAttempts(f)
                 /\ Len(attempts'[f]) = Len(attempts[f])
      BY <2>5, <2>6, <2>7, <2>8 DEF Submitted, OpenAttempts
    <2> QED
      BY <1>1, <1>3, <2>9 DEF CoolDown, history
  <1> QED
    BY <1>2, <1>3, RequestLimit
    DEF Next, Enroll, Lapse, StartPutQuiz, PutQuestion, Publish, OtherCertificate, Expire, vars,
        tables, history

\* Nobody has more attempts than the course allows, whatever the limit and however many
\* requests, as long as no two of them were for the enrollment at the same time.
THEOREM Limit == Spec => []AttemptLimit
  <1>1. Init => LimitInv
    BY TrainingAssumption DEF Init, LimitInv, Alone, Rooms, AttemptLimit, Idle
  <1>2. LimitInv => AttemptLimit
    BY DEF LimitInv
  <1> QED
    BY <1>1, <1>2, InitInv, NextInv, NextLimit, PTL DEF Spec

-----------------------------------------------------------------------------
(* What counts as passed.                                                  *)

Exact(answers) == {q \in Questions : answers[q].picked = IsCorrect[q]}
Earned(j) ==
    j.at \in {"attempt", "score"} /\ j.passed /\ ~j.torn =>
      200 * Cardinality(Exact(j.answers)) + Len(QuestionType)
        >= 2 * PassingScore * Len(QuestionType)

ScoreInv == \A w \in Workers : Earned(job[w])

\* What the rounded percentage reaches, the answers reach up to half a point.
LEMMA Rounding ==
    ASSUME NEW n \in Nat, NEW d \in Nat, d > 0, NEW p \in Nat, n \div d >= p
    PROVE  n >= p * d
  <1>1. PICK k \in Int : k = n \div d /\ d * k <= n
    OBVIOUS
  <1>2. PICK r \in Nat : k = p + r
    <2>1. k - p \in Nat /\ k = p + (k - p)
      BY <1>1
    <2> QED
      BY <2>1
  <1>3. d * k = p * d + d * r
    BY <1>2
  <1>4. d * r \in Nat /\ p * d \in Nat
    OBVIOUS
  <1> QED
    BY <1>1, <1>3, <1>4

LEMMA ScoreEarns ==
    ASSUME NEW sheet \in [Questions -> Answer],
           scorePercent(1..Len(QuestionType), sheet) >= PassingScore
    PROVE  200 * Cardinality(Exact(sheet)) + Len(QuestionType)
             >= 2 * PassingScore * Len(QuestionType)
  <1> DEFINE S == {q \in 1..Len(QuestionType) : Right(q, sheet[q])}
  <1>1. Len(QuestionType) \in Nat /\ Questions = 1..Len(QuestionType)
    BY TrainingAssumption DEF Questions
  <1>2. /\ IsFiniteSet(1..Len(QuestionType))
        /\ Cardinality(1..Len(QuestionType)) = Len(QuestionType)
    <2>1. PICK n \in Nat : n = Len(QuestionType)
      BY <1>1
    <2>2. IsFiniteSet(1..n) /\ Cardinality(1..n) = n
      BY FS_Interval
    <2> QED
      BY <2>1, <2>2
  <1>3. S \in SUBSET Exact(sheet) /\ Exact(sheet) \in SUBSET (1..Len(QuestionType))
    BY <1>1 DEF Exact, Right
  <1>4. IsFiniteSet(Exact(sheet)) /\ IsFiniteSet(S)
    BY <1>2, <1>3, FS_Subset
  <1>5. PICK c \in Nat, x \in Nat, t \in Nat, p \in Nat :
          /\ c = Cardinality(S) /\ x = Cardinality(Exact(sheet))
          /\ t = Len(QuestionType) /\ p = PassingScore
    <2>1. Cardinality(S) \in Nat /\ Cardinality(Exact(sheet)) \in Nat
      BY <1>4, FS_CardinalityType
    <2>2. PassingScore \in Nat
      BY TrainingAssumption
    <2> HIDE DEF S
    <2> QED
      BY <1>1, <2>1, <2>2
  <1>6. c <= x
    BY <1>3, <1>4, <1>5, FS_Subset
  <1>7. (IF t = 0 THEN 100 ELSE (200 * c + t) \div (2 * t)) >= p
    BY <1>2, <1>5 DEF scorePercent
  <1>8. CASE t = 0
    BY <1>5, <1>8
  <1>9. CASE t # 0
    <2>1. PICK n \in Nat, d \in Nat : n = 200 * c + t /\ d = 2 * t /\ d > 0
      BY <1>9
    <2>2. n \div d >= p
      BY <1>7, <1>9, <2>1
    <2>3. n >= p * d
      BY <2>1, <2>2, Rounding
    <2>4. p * d = 2 * p * t
      BY <2>1
    <2>5. 200 * x + t >= 2 * p * t
      BY <1>6, <2>1, <2>3, <2>4
    <2> QED
      BY <1>5, <2>5
  <1> QED
    BY <1>8, <1>9

\* A submission is scored when it begins; nothing else comes to where it counts.
LEMMA RequestEarns ==
    ASSUME TypeInv, ScoreInv, NEW w \in Workers, Request(w)
    PROVE  Earned(job'[w])
  <1>0. job \in [Workers -> Job] /\ Earned(job[w])
    BY DEF TypeInv, ScoreInv
  <1>1. ASSUME NEW j, Begin(w, j) \/ job' = [job EXCEPT ![w] = j], Earned(j)
        PROVE  Earned(job'[w])
    BY <1>0, <1>1 DEF Begin
  <1>2. ASSUME Finish(w) PROVE Earned(job'[w])
    BY <1>0, <1>2 DEF Finish, Idle, Earned
  <1>3. ASSUME NEW at \in Steps \ {"attempt", "score"}, Go(w, at)
        PROVE  Earned(job'[w])
    BY <1>3, GoTyped DEF Earned
  <1>4. ASSUME NEW at \in Steps \ {"attempt", "score"}, NEW n,
               job' = [job EXCEPT ![w].n = n, ![w].at = at]
        PROVE  Earned(job'[w])
    BY <1>0, <1>4 DEF Earned, Job
  <1>5. ASSUME NEW e \in Enrollments, StartProgress(w, e) PROVE Earned(job'[w])
    <2>1. PICK j : j = [Idle EXCEPT !.op = "progress", !.at = "module", !.e = e,
                                    !.status = enrollment[e].status]
      OBVIOUS
    <2>2. Earned(j)
      BY <2>1 DEF Idle, Earned
    <2> QED
      BY <1>1, <1>5, <2>1, <2>2 DEF StartProgress
  <1>6. ASSUME NEW e \in Enrollments, StartQuiz(w, e) PROVE Earned(job'[w])
    <2>1. PICK j : j = [Idle EXCEPT !.op = "start", !.at = "limit", !.e = e]
      OBVIOUS
    <2>2. Earned(j)
      BY <2>1 DEF Idle, Earned
    <2> QED
      BY <1>1, <1>6, <2>1, <2>2 DEF StartQuiz
  <1>7. ASSUME NEW e \in Enrollments, StartSubmit(w, e) PROVE Earned(job'[w])
    <2>1. PICK a \in DOMAIN attempts[e], sheet \in Sheets :
             Begin(w, [Idle EXCEPT !.op = "submit", !.at = "attempt", !.e = e, !.a = a,
                                   !.answers = sheet, !.torn = Torn,
                                   !.passed = scorePercent(1..quiz, sheet) >= PassingScore])
      BY <1>7 DEF StartSubmit
    <2>2. PICK j : j = [Idle EXCEPT !.op = "submit", !.at = "attempt", !.e = e, !.a = a,
                                    !.answers = sheet, !.torn = Torn,
                                    !.passed = scorePercent(1..quiz, sheet) >= PassingScore]
      OBVIOUS
    <2>3. Begin(w, j)
      BY <2>1, <2>2
    <2>4. j.answers = sheet /\ j.torn = Torn
      BY <2>2 DEF Idle
    <2>5. j.passed = (scorePercent(1..quiz, sheet) >= PassingScore)
      BY <2>2 DEF Idle
    <2>6. ASSUME j.passed, ~j.torn
          PROVE  200 * Cardinality(Exact(sheet)) + Len(QuestionType)
                   >= 2 * PassingScore * Len(QuestionType)
      <3>1. quiz = Len(QuestionType) /\ sheet \in [Questions -> Answer]
        BY <2>4, <2>6, TrainingAssumption DEF Torn
      <3>2. scorePercent(1..Len(QuestionType), sheet) >= PassingScore
        BY <2>5, <2>6, <3>1
      <3> QED
        BY <3>1, <3>2, ScoreEarns
    <2>7. Earned(j)
      BY <2>4, <2>6 DEF Earned
    <2> QED
      BY <1>1, <2>3, <2>7
  <1>8. CASE RecordProgress(w)
    BY <1>2, <1>3, <1>8 DEF RecordProgress, Steps
  <1>9. CASE MarkInProgress(w) \/ CreateAttempt(w) \/ WriteFailed(w) \/ SendJobs(w) \/ StopSubmit(w)
    BY <1>2, <1>9 DEF MarkInProgress, CreateAttempt, WriteFailed, SendJobs, StopSubmit
  <1>10. CASE CheckLimit(w) \/ CheckOpen(w) \/ CheckCooldown(w)
    BY <1>2, <1>3, <1>10 DEF CheckLimit, CheckOpen, CheckCooldown, Steps
  <1>11. CASE CheckAttempt(w)
    <2>1. CASE Go(w, "score")
      <3>1. job'[w] = [job[w] EXCEPT !.at = "score"] /\ job[w].at = "attempt"
        BY <1>0, <1>11, <2>1 DEF CheckAttempt, At, Go
      <3> QED
        BY <1>0, <3>1 DEF Earned, Job
    <2>2. CASE Finish(w)
      BY <1>2, <2>2
    <2> QED
      BY <1>11, <2>1, <2>2 DEF CheckAttempt
  <1>12. CASE CloseAttempt(w)
    <2>1. PICK j : j = [Idle EXCEPT !.op = "submit", !.at = "count", !.e = job[w].e,
                                    !.passed = job[w].passed]
      OBVIOUS
    <2>2. Earned(j)
      BY <2>1 DEF Idle, Earned
    <2> QED
      BY <1>1, <1>12, <2>1, <2>2 DEF CloseAttempt
  <1>13. CASE CountSubmitted(w)
    BY <1>4, <1>13 DEF CountSubmitted, Steps
  <1>14. CASE WriteCompleted(w)
    BY <1>4, <1>14 DEF WriteCompleted, Steps
  <1>15. CASE NextCertificateNumber(w)
    BY <1>4, <1>15 DEF NextCertificateNumber, Steps
  <1>16. CASE CreateCertificate(w)
    <2>1. CASE Issued(job[w].e) \/ NumberTaken(job[w].n)
      BY <1>2, <1>16, <2>1 DEF CreateCertificate
    <2>2. CASE ~(Issued(job[w].e) \/ NumberTaken(job[w].n))
      BY <1>4, <1>16, <2>2 DEF CreateCertificate, Steps
    <2> QED
      BY <2>1, <2>2
  <1> QED
    BY <1>5, <1>6, <1>7, <1>8, <1>9, <1>10, <1>11, <1>12, <1>13, <1>14, <1>15, <1>16
    DEF Request, Submit

\* What counts as passed has exactly the correct options of as many questions of the whole
\* quiz as the course asks for, for every quiz, score and rewriting of it, unless the quiz
\* was torn when it was read (PassedOnWholeQuiz).
THEOREM PassedEarned == Spec => []PassedOnWholeQuiz
  <1>1. Init => ScoreInv
    BY DEF Init, ScoreInv, Earned, Idle
  <1>2. Inv /\ ScoreInv /\ [Next]_vars => ScoreInv'
    <2> SUFFICES ASSUME TypeInv, ScoreInv, [Next]_vars PROVE ScoreInv'
      BY DEF Inv
    <2>1. ASSUME NEW w \in Workers, Request(w) PROVE ScoreInv'
      <3>1. Earned(job'[w]) /\ \A v \in Workers \ {w} : job'[v] = job[v]
        BY <2>1, RequestEarns, RequestMoves DEF Moves
      <3> QED
        BY <3>1 DEF ScoreInv, Earned
    <2>2. CASE job' = job
      BY <2>2 DEF ScoreInv, Earned
    <2> QED
      BY <2>1, <2>2 DEF Next, vars, Enroll, Lapse, CoolDown, StartPutQuiz, PutQuestion, Publish,
         OtherCertificate, Expire
  <1>3. ScoreInv => PassedOnWholeQuiz
    BY DEF ScoreInv, Earned, PassedOnWholeQuiz, Exact
  <1> QED
    BY <1>1, <1>2, <1>3, InitInv, NextInv, PTL DEF Spec
=============================================================================
