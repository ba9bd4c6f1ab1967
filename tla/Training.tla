------------------------------ MODULE Training ------------------------------
(***************************************************************************)
(* One mandatory course.  Members are enrolled, go through the modules,    *)
(* take the quiz at most a number of times, and one that passes gets a     *)
(* certificate with the next number of the year, which a queue then        *)
(* prints.  A certification holds for a while; a daily cron ends it.       *)
(* Every request is a series of statements, with nothing to keep two of    *)
(* them apart but the unique columns of a certificate.                     *)
(***************************************************************************)
EXTENDS Integers, Sequences, FiniteSetsExt

CONSTANTS
    Enrollments,   \* one per member of an organization
    Modules,       \* the required modules of the course
    Options,       \* the options of a question
    QuestionType,  \* the questions of its quiz, each SINGLE_CHOICE or MULTIPLE_CHOICE
    IsCorrect,     \* the correct options of each question
    Sheets,        \* answers that are handed in
    PassingScore, MaxAttempts,  \* of the course
    Workers,       \* requests in flight at once
    MaxOpened,     \* bound: attempts of one enrollment
    MaxRewrites,   \* bound: how often the quiz is put
    MaxOthers,     \* bound: certificates for the members of other organizations
    NoEnrollment

Questions == DOMAIN QuestionType

\* What is posted as the answer of a question: one id, a list of ids, or nothing.
Answer == [array: BOOLEAN, picked: SUBSET Options]

ASSUME TrainingAssumption ==
    /\ NoEnrollment \notin Enrollments
    /\ IsFiniteSet(Enrollments)
    /\ QuestionType \in Seq({"SINGLE_CHOICE", "MULTIPLE_CHOICE"})
    /\ IsCorrect \in [Questions -> SUBSET Options]
    /\ Sheets \subseteq [Questions -> Answer]
    /\ PassingScore \in 0..100
    /\ MaxAttempts \in Nat
    /\ MaxOpened \in Nat /\ MaxRewrites \in Nat /\ MaxOthers \in Nat

VARIABLES
    published,    \* the course is PUBLISHED
    quiz,         \* table training_quiz_question: how many are in place
    rewrites,     \* bound: how often the quiz was put
    enrollment,   \* table training_enrollment
    progress,     \* table training_enrollment_progress: the modules completed
    attempts,     \* table training_quiz_attempt, in the order of creation
    certificate,  \* table training_certification: the number, 0 for none
    others,       \* numbers of the certificates of other organizations
    job,          \* what each request is doing, and what it read
    met,          \* history: two requests for the enrollment were in flight at once
    broken        \* history: a submission failed half way

tables == <<enrollment, progress, attempts, certificate>>
course == <<published, quiz, rewrites>>
history == <<met, broken>>
vars == <<course, tables, others, job, history>>

Status == {"ASSIGNED", "IN_PROGRESS", "COMPLETED", "FAILED", "EXPIRED"}
\* validUntil: not set, to come, or over.  Time itself passes by Lapse and by CoolDown.
Unborn == [status |-> "UNBORN", validUntil |-> "never", attemptCount |-> 0]
NoCertificate == 0

\* An attempt is open, or was submitted less or more than cooldownHours ago.
When == {"open", "lately", "before"}
Blank == [q \in Questions |-> [array |-> FALSE, picked |-> {}]]

Idle == [op |-> "idle", at |-> "done", e |-> NoEnrollment, a |-> 0, status |-> "UNBORN",
         answers |-> Blank, passed |-> FALSE, n |-> 0, torn |-> FALSE]

Init ==
    /\ published = FALSE
    /\ quiz = 0 /\ rewrites = 0
    /\ enrollment = [e \in Enrollments |-> Unborn]
    /\ progress = [e \in Enrollments |-> {}]
    /\ attempts = [e \in Enrollments |-> <<>>]
    /\ certificate = [e \in Enrollments |-> NoCertificate]
    /\ others = {}
    /\ job = [w \in Workers |-> Idle]
    /\ met = {} /\ broken = {}

-----------------------------------------------------------------------------
(* scoreTrainingQuiz                                                       *)

\* Fault: a correct choice is enough where all of them are asked for.
RightIfAny(q, answer) == answer.picked \cap IsCorrect[q] # {}

\* One correct option, posted as one id; or exactly the correct options.
Right(q, answer) ==
    IF QuestionType[q] = "SINGLE_CHOICE"
    THEN /\ ~answer.array
         /\ Cardinality(IsCorrect[q]) = 1
         /\ answer.picked = IsCorrect[q]
    ELSE answer.picked = IsCorrect[q]

\* Math.round of the percentage; a quiz without questions scores 100.
scorePercent(questions, sheet) ==
    LET correct == Cardinality({q \in questions : Right(q, sheet[q])})
        total == Cardinality(questions)
    IN  IF total = 0 THEN 100 ELSE (200 * correct + total) \div (2 * total)

-----------------------------------------------------------------------------
Exists(e) == enrollment[e].status \in Status
Issued(e) == certificate[e] # NoCertificate
Submitted(e) == Cardinality({i \in DOMAIN attempts[e] : attempts[e][i].at # "open"})
OpenAttempts(e) == {i \in DOMAIN attempts[e] : attempts[e][i].at = "open"}

At(w, at) == job[w].at = at
Go(w, at) == job' = [job EXCEPT ![w].at = at]
Finish(w) == job' = [job EXCEPT ![w] = Idle]

\* The quiz is being put, or a request that put it stopped half way.
Torn == quiz # Len(QuestionType)

Begin(w, job0) ==
    /\ job[w] = Idle
    /\ job' = [job EXCEPT ![w] = job0]
    /\ met' = IF \E v \in Workers : job[v].e = job0.e THEN met \cup {job0.e} ELSE met

-----------------------------------------------------------------------------
(* The administrator                                                       *)

\* upsertQuizFull: deleteMany of the questions, and a create for each of them.  Where it
\* stops, it stays.
StartPutQuiz ==
    /\ rewrites < MaxRewrites
    /\ quiz' = 0
    /\ rewrites' = rewrites + 1
    /\ UNCHANGED <<published, tables, others, job, history>>

PutQuestion ==
    /\ rewrites > 0 /\ quiz < Len(QuestionType)
    /\ quiz' = quiz + 1
    /\ UNCHANGED <<published, rewrites, tables, others, job, history>>

\* publishCourse asks for a quiz, not for its questions.
Publish ==
    /\ ~published /\ rewrites > 0
    /\ published' = TRUE
    /\ UNCHANGED <<quiz, rewrites, tables, others, job, history>>

-----------------------------------------------------------------------------
(* Enrollment                                                              *)

\* ensureMandatoryEnrollments and the daily sync: what is there is left as it is.
Enroll(e) ==
    /\ published /\ ~Exists(e)
    /\ enrollment' = [enrollment EXCEPT ![e] = [Unborn EXCEPT !.status = "ASSIGNED"]]
    /\ UNCHANGED <<course, progress, attempts, certificate, others, job, history>>

\* recordProgress: the enrollment is read, ...
StartProgress(w, e) ==
    /\ Exists(e)
    /\ Begin(w, [Idle EXCEPT !.op = "progress", !.at = "module", !.e = e,
                             !.status = enrollment[e].status])
    /\ UNCHANGED <<course, tables, others, broken>>

\* ... the module is marked, ...
RecordProgress(w) ==
    /\ At(w, "module")
    /\ \E m \in Modules :
         progress' = [progress EXCEPT ![job[w].e] = @ \cup {m}]
    /\ IF job[w].status = "ASSIGNED" THEN Go(w, "begun") ELSE Finish(w)
    /\ UNCHANGED <<course, enrollment, attempts, certificate, others, history>>

\* ... and what was ASSIGNED when it was read is IN_PROGRESS.
MarkInProgress(w) ==
    /\ At(w, "begun")
    /\ enrollment' = [enrollment EXCEPT ![job[w].e].status = "IN_PROGRESS"]
    /\ Finish(w)
    /\ UNCHANGED <<course, progress, attempts, certificate, others, history>>

-----------------------------------------------------------------------------
(* startQuiz                                                               *)

StartQuiz(w, e) ==
    /\ Exists(e)
    /\ Modules \subseteq progress[e]
    /\ Begin(w, [Idle EXCEPT !.op = "start", !.at = "limit", !.e = e])
    /\ UNCHANGED <<course, tables, others, broken>>

\* Fault: one attempt too many.
AttemptsLeftAndOne(e) == Submitted(e) <= MaxAttempts

AttemptsLeft(e) == Submitted(e) < MaxAttempts

CheckLimit(w) ==
    /\ At(w, "limit")
    /\ IF AttemptsLeft(job[w].e) THEN Go(w, "open") ELSE Finish(w)
    /\ UNCHANGED <<course, tables, others, history>>

\* An attempt that is still open is handed out again.
CheckOpen(w) ==
    /\ At(w, "open")
    /\ IF OpenAttempts(job[w].e) # {} THEN Finish(w) ELSE Go(w, "cooldown")
    /\ UNCHANGED <<course, tables, others, history>>

\* The attempts of which any may be the one submitted last.
LastSubmitted(e) ==
    LET submitted == {i \in DOMAIN attempts[e] : attempts[e][i].at # "open"}
        lately == {i \in submitted : attempts[e][i].at = "lately"}
    IN  IF lately # {} THEN lately ELSE submitted

\* Only a failed attempt has to cool down.
Cools(attempt) == attempt.at = "lately" /\ ~attempt.passed

CheckCooldown(w) ==
    /\ At(w, "cooldown")
    /\ LET e == job[w].e IN
         \/ LastSubmitted(e) = {} /\ Go(w, "create")
         \/ \E i \in LastSubmitted(e) :
              IF Cools(attempts[e][i]) THEN Finish(w) ELSE Go(w, "create")
    /\ UNCHANGED <<course, tables, others, history>>

CreateAttempt(w) ==
    /\ At(w, "create")
    /\ Len(attempts[job[w].e]) < MaxOpened
    /\ attempts' = [attempts EXCEPT ![job[w].e] = Append(@, [at |-> "open", passed |-> FALSE])]
    /\ Finish(w)
    /\ UNCHANGED <<course, enrollment, progress, certificate, others, history>>

-----------------------------------------------------------------------------
(* submitQuiz                                                              *)

\* The enrollment and the quiz are read, ...
StartSubmit(w, e) ==
    /\ Exists(e)
    /\ \E a \in DOMAIN attempts[e], sheet \in Sheets :
         Begin(w, [Idle EXCEPT !.op = "submit", !.at = "attempt", !.e = e, !.a = a,
                               !.answers = sheet, !.torn = Torn,
                               !.passed = scorePercent(1..quiz, sheet) >= PassingScore])
    /\ UNCHANGED <<course, tables, others, broken>>

\* ... then the attempt, ...
CheckAttempt(w) ==
    /\ At(w, "attempt")
    /\ IF attempts[job[w].e][job[w].a].at = "open" THEN Go(w, "score") ELSE Finish(w)
    /\ UNCHANGED <<course, tables, others, history>>

\* ... which is closed, whether or not it still is open.
CloseAttempt(w) ==
    /\ At(w, "score")
    /\ LET j == job[w] IN
         /\ attempts' = [attempts EXCEPT ![j.e][j.a] = [at |-> "lately", passed |-> j.passed]]
         /\ job' = [job EXCEPT ![w] = [Idle EXCEPT !.op = "submit", !.at = "count",
                                                  !.e = j.e, !.passed = j.passed]]
    /\ UNCHANGED <<course, enrollment, progress, certificate, others, history>>

CountSubmitted(w) ==
    /\ At(w, "count")
    /\ job' = [job EXCEPT ![w].n = Submitted(job[w].e), ![w].at = "status"]
    /\ UNCHANGED <<course, tables, others, history>>

FailedFinal(n) == n >= MaxAttempts

\* What happened since the enrollment was read does not matter.
WriteFailed(w) ==
    /\ At(w, "status") /\ ~job[w].passed
    /\ enrollment' = [enrollment EXCEPT
         ![job[w].e].status = IF FailedFinal(job[w].n) THEN "FAILED" ELSE "IN_PROGRESS",
         ![job[w].e].attemptCount = job[w].n]
    /\ Finish(w)
    /\ UNCHANGED <<course, progress, attempts, certificate, others, history>>

\* Fault: nobody creates the certificate.
WriteCompletedOnly(w) ==
    /\ At(w, "status") /\ job[w].passed
    /\ enrollment' = [enrollment EXCEPT
         ![job[w].e] = [status |-> "COMPLETED", validUntil |-> "ahead",
                        attemptCount |-> job[w].n]]
    /\ Finish(w)
    /\ UNCHANGED <<course, progress, attempts, certificate, others, history>>

WriteCompleted(w) ==
    /\ At(w, "status") /\ job[w].passed
    /\ enrollment' = [enrollment EXCEPT
         ![job[w].e] = [status |-> "COMPLETED", validUntil |-> "ahead",
                        attemptCount |-> job[w].n]]
    /\ job' = [job EXCEPT ![w].n = 0, ![w].at = "number"]
    /\ UNCHANGED <<course, progress, attempts, certificate, others, history>>

Numbers == others \cup {certificate[e] : e \in {x \in Enrollments : Issued(x)}}
NextNumber == IF Numbers = {} THEN 1 ELSE Max(Numbers) + 1

\* nextCertificateNumber: one more than the largest.
NextCertificateNumber(w) ==
    /\ At(w, "number")
    /\ job' = [job EXCEPT ![w].n = NextNumber, ![w].at = "certificate"]
    /\ UNCHANGED <<course, tables, others, history>>

\* Fault: the column certificate_number is not unique.
NumberTakenNever(n) == FALSE

NumberTaken(n) == n \in Numbers

\* Both unique columns refuse: a renewal leaves the certificate there is.
CreateCertificate(w) ==
    /\ At(w, "certificate")
    /\ LET e == job[w].e IN
         IF Issued(e) \/ NumberTaken(job[w].n)
         THEN /\ broken' = broken \cup {e}
              /\ Finish(w)
              /\ UNCHANGED certificate
         ELSE /\ certificate' = [certificate EXCEPT ![e] = job[w].n]
              /\ job' = [job EXCEPT ![w].n = 0, ![w].at = "send"]
              /\ UNCHANGED broken
    /\ UNCHANGED <<course, enrollment, progress, attempts, others, met>>

\* enqueueCertGen and enqueueNotification.
SendJobs(w) ==
    /\ At(w, "send")
    /\ Finish(w)
    /\ UNCHANGED <<course, tables, others, history>>

\* A submission that stops, its worker gone or a call failing, leaves what it wrote.
StopSubmit(w) ==
    /\ job[w].at \in {"count", "status", "number", "certificate", "send"}
    /\ broken' = broken \cup {job[w].e}
    /\ Finish(w)
    /\ UNCHANGED <<course, tables, others, met>>

-----------------------------------------------------------------------------
(* Cron, time, and the rest of the world                                   *)

Lapsed(e) == enrollment[e].validUntil = "over"

Expirable == {"COMPLETED", "IN_PROGRESS", "ASSIGNED"}

\* runTrainingExpiration
ToExpire == {e \in Enrollments : Lapsed(e) /\ enrollment[e].status \in Expirable}

Expire ==
    /\ ToExpire # {}
    /\ enrollment' = [e \in Enrollments |->
         IF e \in ToExpire THEN [enrollment[e] EXCEPT !.status = "EXPIRED"]
         ELSE enrollment[e]]
    /\ UNCHANGED <<course, progress, attempts, certificate, others, job, history>>

\* validUntil passes, and cooldownHours.
Lapse(e) ==
    /\ enrollment[e].validUntil = "ahead"
    /\ enrollment' = [enrollment EXCEPT ![e].validUntil = "over"]
    /\ UNCHANGED <<course, progress, attempts, certificate, others, job, history>>

CoolDown(e) ==
    /\ \E i \in DOMAIN attempts[e] : attempts[e][i].at = "lately"
    /\ attempts' = [attempts EXCEPT ![e] = [i \in DOMAIN @ |->
         IF @[i].at = "lately" THEN [@[i] EXCEPT !.at = "before"] ELSE @[i]]]
    /\ UNCHANGED <<course, enrollment, progress, certificate, others, job, history>>

\* Members of other organizations pass as well.
OtherCertificate ==
    /\ Cardinality(others) < MaxOthers
    /\ others' = others \cup {NextNumber}
    /\ UNCHANGED <<course, tables, job, history>>

-----------------------------------------------------------------------------
Submit(w) ==
    \/ CheckAttempt(w) \/ CloseAttempt(w) \/ CountSubmitted(w)
    \/ WriteFailed(w) \/ WriteCompleted(w)
    \/ NextCertificateNumber(w) \/ CreateCertificate(w) \/ SendJobs(w)

Request(w) ==
    \/ \E e \in Enrollments : StartProgress(w, e) \/ StartQuiz(w, e) \/ StartSubmit(w, e)
    \/ RecordProgress(w) \/ MarkInProgress(w)
    \/ CheckLimit(w) \/ CheckOpen(w) \/ CheckCooldown(w) \/ CreateAttempt(w)
    \/ Submit(w)
    \/ StopSubmit(w)

Next ==
    \/ \E w \in Workers : Request(w)
    \/ \E e \in Enrollments : Enroll(e) \/ Lapse(e) \/ CoolDown(e)
    \/ StartPutQuiz \/ PutQuestion \/ Publish \/ OtherCertificate \/ Expire

Spec == Init /\ [][Next]_vars

-----------------------------------------------------------------------------
(* Properties                                                              *)

\* The tables hold what their columns may hold, and each request stands at a statement of
\* its handler.
TypeOK ==
    /\ published \in BOOLEAN
    /\ quiz \in 0..Len(QuestionType) /\ rewrites \in Nat
    /\ enrollment \in [Enrollments ->
         [status: Status \cup {"UNBORN"}, validUntil: {"never", "ahead", "over"}, attemptCount: Nat]]
    /\ progress \in [Enrollments -> SUBSET Modules]
    /\ attempts \in [Enrollments -> Seq([at: When, passed: BOOLEAN])]
    /\ certificate \in [Enrollments -> Nat] /\ others \subseteq Nat \ {0}
    /\ \A w \in Workers :
         LET j == job[w] IN
           /\ j.op \in {"idle", "progress", "start", "submit"}
           /\ j.op = "idle" <=> j.e = NoEnrollment
           /\ j.e # NoEnrollment => j.e \in Enrollments /\ Exists(j.e)
           /\ j.at \in {"attempt", "score"} => j.a \in DOMAIN attempts[j.e]
    /\ met \cup broken \subseteq Enrollments

\* Nobody has, submitted or open, more attempts than the course allows, unless two requests
\* for the enrollment were in flight at once: the limit, the open attempt and the new one
\* are three statements.
AttemptLimit ==
    \A e \in Enrollments \ met : Len(attempts[e]) <= MaxAttempts

\* Who is COMPLETED has a certificate, or a submission is about to create it, stopped
\* before it did, or lost the number to another.
CompletedIsCertified ==
    \A e \in Enrollments :
        enrollment[e].status = "COMPLETED" =>
            \/ Issued(e)
            \/ e \in broken
            \/ \E w \in Workers : job[w].e = e /\ job[w].at \in {"number", "certificate"}

\* All certificates are numbered from one without a gap, each with a number of its own.
NumberedInTurn ==
    LET issued == {e \in Enrollments : Issued(e)}
    IN  Numbers = 1..(Cardinality(others) + Cardinality(issued))

\* What counts as passed has exactly the correct options of as many questions of the whole
\* quiz as the course asks for, unless the quiz was being put when it was read, or left half
\* way: without any question everyone passes.
PassedOnWholeQuiz ==
    \A w \in Workers :
        LET j == job[w]
            exact == {q \in Questions : j.answers[q].picked = IsCorrect[q]}
        IN  j.at = "score" /\ j.passed /\ ~j.torn =>
                200 * Cardinality(exact) + Len(QuestionType)
                  >= 2 * PassingScore * Len(QuestionType)

=============================================================================
