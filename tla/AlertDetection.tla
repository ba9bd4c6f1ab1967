--------------------------- MODULE AlertDetection ---------------------------
(***************************************************************************)
(* The detection of alerts for one client.  Creating an operation and      *)
(* changing the client send a job to a queue; a consumer reads the         *)
(* operations of the client anew, runs the seekers over them and, for      *)
(* each that triggers, creates an alert and tells the organization.  The   *)
(* queue delivers at least once, several consumers run at a time, and what *)
(* keeps an alert from being created twice is its idempotency key.         *)
(***************************************************************************)
EXTENDS Integers, FiniteSetsExt, SequencesExt

CONSTANTS
    Operations,      \* ids of operations
    Amounts,         \* their amounts
    Dates,           \* their operationDate, which need not be when they are entered
    AggregationWindow,  \* AGGREGATION_WINDOW_DAYS
    FrequentWindow,  \* FREQUENT_OPERATION_WINDOW_DAYS
    Week,            \* the days of a week
    Threshold,       \* notice threshold of the activity; 0 is "ALWAYS"
    isPep, isHighRisk,  \* of the client
    Registered,      \* ruleType of the seekers of the activity, in the order they run
    MinFrequent,     \* FREQUENT_OPERATION_MIN_COUNT
    MinRequests,     \* MIN_REQUESTS of multiple_cards_requests
    MinStructured,   \* MIN_OPERATIONS of structuring_detection
    MaxAttempts,     \* of a create: the first, and maxRetries
    MaxDeliveries,   \* of a job: the first, and the retries of the queue
    MaxFaults,       \* bound: faults in one behavior
    MaxChanges,      \* bound: changes of the client
    MaxClock,        \* bound: days
    Refresh,         \* the job of a change of the client, which names no operation
    Workers,         \* consumers at work at once
    NoJob

SeekerType == {"operation_amount_uma", "aggregate_amount_uma", "frequent_operations",
               "multiple_cards_requests", "pep_above_threshold", "pep_or_high_risk",
               "structuring_detection"}

ASSUME AlertDetectionAssumption ==
    /\ Refresh \notin Operations /\ NoJob \notin Operations \cup {Refresh}
    /\ IsFiniteSet(Operations)
    /\ Amounts \subseteq Nat \ {0} /\ Dates \subseteq Int /\ Threshold \in Nat
    /\ {isPep, isHighRisk} \subseteq BOOLEAN
    /\ Registered \in Seq(SeekerType)
    /\ {MinFrequent, MinRequests, MinStructured} \subseteq Nat \ {0}
    /\ MaxAttempts \in Nat \ {0} /\ MaxDeliveries \in Nat \ {0}
    /\ {AggregationWindow, FrequentWindow, MaxFaults, MaxChanges, MaxClock} \subseteq Nat
    /\ Week \in Nat \ {0}

Jobs == Operations \cup {Refresh}

VARIABLES
    operations,  \* table operations, in the order of creation
    queue,       \* the jobs waiting to be delivered, and how often they were
    alerts,      \* table alerts, by idempotency key
    job,         \* what each consumer is doing
    now,         \* the day it is
    told,        \* history: alerts the organization was told of, or the service refused
    givenUp,     \* history: jobs not sent, dropped after the last delivery, or one of
                 \* whose seekers failed, which is swallowed
    since,       \* history: the day on which the last operation was entered
    faults,      \* how many there were
    changes      \* how often the client was changed

vars == <<operations, queue, alerts, job, now, told, givenUp, since, faults, changes>>

\* day: on which the seeker ran.
Idle == [m |-> NoJob, n |-> 0, at |-> "idle", read |-> <<>>, seeker |-> 0, attempt |-> 0,
         day |-> 0]

Init ==
    /\ operations = <<>>
    /\ queue = {}
    /\ alerts = {}
    /\ job = [w \in Workers |-> Idle]
    /\ now = 0 /\ since = 0
    /\ told = {} /\ givenUp = {} /\ faults = 0 /\ changes = 0

-----------------------------------------------------------------------------
(* The seekers.  Each picks the indexes of the operations that match, out  *)
(* of all or of the one that the job names.                                *)

\* Fault: what lies at the threshold is not to be reported.
ReachesAbove(amount, threshold) == amount > threshold

Reaches(amount, threshold) == amount >= threshold

\* triggerOperation, when it is found, or else all.
Evaluated(read, m) ==
    IF \E i \in DOMAIN read : read[i].id = m THEN {i \in DOMAIN read : read[i].id = m}
    ELSE DOMAIN read

Total(read, s) == MapThenSumSet(LAMBDA i : read[i].amount, s)

\* filterOperationsInWindow: neither too old on the day the seeker runs nor of a later one.
InWindow(read, days, day) ==
    {i \in DOMAIN read : day - days <= read[i].date /\ read[i].date <= day}

\* Sorted by date, the latest first; of one date, in the order they were read.
Later(read, i, k) ==
    read[i].date > read[k].date \/ (read[i].date = read[k].date /\ i < k)
Latest(read, s) == CHOOSE i \in s : \A k \in s \ {i} : Later(read, i, k)

\* findMinimalTriggeringSet: the latest, two at least, until they reach the threshold.
MinimalTriggeringSet(read, recent) ==
    LET first == {s \in SUBSET recent :
                    /\ \A i \in s, k \in recent \ s : Later(read, i, k)
                    /\ Cardinality(s) >= 2
                    /\ Reaches(Total(read, s), Threshold)}
    IN  CHOOSE s \in first : \A r \in first : s \subseteq r

Reaching(read, s) == {i \in s : Reaches(read[i].amount, Threshold)}

operation_amount_uma(read, m) == Reaching(read, Evaluated(read, m))

aggregate_amount_uma(read, day) ==
    LET recent == InWindow(read, AggregationWindow, day)
    IN  IF Cardinality(recent) >= 2 /\ Reaches(Total(read, recent), Threshold)
        THEN MinimalTriggeringSet(read, recent) ELSE {}

frequent_operations(read, day) ==
    LET recent == InWindow(read, FrequentWindow, day)
    IN  IF Cardinality(recent) >= MinFrequent THEN recent ELSE {}

multiple_cards_requests(read, day) ==
    LET recent == InWindow(read, FrequentWindow, day)
    IN  IF Cardinality(recent) >= MinRequests THEN recent ELSE {}

pep_above_threshold(read, m) == IF isPep THEN Reaching(read, Evaluated(read, m)) ELSE {}

\* The operation that the job names, or the latest one.
pep_or_high_risk(read, m) ==
    IF ~(isPep \/ isHighRisk) \/ read = <<>> THEN {}
    ELSE IF Cardinality(Evaluated(read, m)) = 1 THEN Evaluated(read, m)
    ELSE {Latest(read, DOMAIN read)}

\* Below the threshold by 15 percent at most.
structuring_detection(read, day) ==
    LET suspicious == {i \in InWindow(read, AggregationWindow, day) :
                         /\ 100 * read[i].amount >= 85 * Threshold
                         /\ read[i].amount < Threshold}
    IN  IF Cardinality(suspicious) >= MinStructured THEN suspicious ELSE {}

matchedOperations(seeker, read, m, day) ==
    CASE seeker = "operation_amount_uma" -> operation_amount_uma(read, m)
      [] seeker = "aggregate_amount_uma" -> aggregate_amount_uma(read, day)
      [] seeker = "frequent_operations" -> frequent_operations(read, day)
      [] seeker = "multiple_cards_requests" -> multiple_cards_requests(read, day)
      [] seeker = "pep_above_threshold" -> pep_above_threshold(read, m)
      [] seeker = "pep_or_high_risk" -> pep_or_high_risk(read, m)
      [] seeker = "structuring_detection" -> structuring_detection(read, day)

\* What the idempotency key is made of, next to the client and the seeker: the operations
\* that matched, the first of them, or the week.
KeyOf(seeker, read, matched, day) ==
    LET ids == {read[i].id : i \in matched}
    IN  [seeker |-> seeker,
         week |-> IF seeker = "frequent_operations" THEN day \div Week ELSE 0,
         ids |-> CASE seeker \in {"operation_amount_uma", "pep_or_high_risk"} ->
                        {read[Min(matched)].id}
                   [] seeker = "frequent_operations" -> {}
                   [] OTHER -> ids]

-----------------------------------------------------------------------------
(* The requests that queue a job                                           *)

Entered == {operations[i].id : i \in DOMAIN operations}
Working(m) == \E w \in Workers : job[w].m = m
InFlight(m) == (\E q \in queue : q.m = m) \/ Working(m)

Fault == faults < MaxFaults /\ faults' = faults + 1
NoFault == UNCHANGED faults

\* Fault: a job is not sent while another of the client is under way, which would see it.
SendUnlessUnderWay(m) ==
    \/ (\E k \in Jobs : InFlight(k)) /\ UNCHANGED <<queue, givenUp, faults>>
    \/ queue' = queue \cup {[m |-> m, n |-> 0]} /\ NoFault /\ UNCHANGED givenUp

\* A job that cannot be sent is given up: the error is only reported.
Send(m) ==
    \/ queue' = queue \cup {[m |-> m, n |-> 0]} /\ NoFault /\ UNCHANGED givenUp
    \/ Fault /\ givenUp' = givenUp \cup {m} /\ UNCHANGED queue

\* POST /operations: the row, then the job.
CreateOperation(o) ==
    /\ o \notin Entered
    /\ \E amount \in Amounts, date \in Dates :
         operations' = Append(operations, [id |-> o, amount |-> amount, date |-> date])
    /\ since' = now
    /\ Send(o)
    /\ UNCHANGED <<alerts, job, now, told, changes>>

\* PUT and PATCH /clients/:id
ChangeClient ==
    /\ changes < MaxChanges /\ ~InFlight(Refresh)
    /\ changes' = changes + 1
    /\ Send(Refresh)
    /\ UNCHANGED <<operations, alerts, job, now, told, since>>

\* A day passes.  No job is sent because of it.
Tick ==
    /\ now < MaxClock
    /\ now' = now + 1
    /\ UNCHANGED <<operations, queue, alerts, job, told, givenUp, since, faults, changes>>

-----------------------------------------------------------------------------
(* The consumer                                                            *)

At(w, at) == job[w].at = at
Matched(w) == matchedOperations(Registered[job[w].seeker], job[w].read, job[w].m, job[w].day)
Key(w) == KeyOf(Registered[job[w].seeker], job[w].read, Matched(w), job[w].day)

\* The next seeker of j that triggers, if any; otherwise the job is acknowledged.
NextSeeker(j) ==
    LET triggered == {k \in (j.seeker + 1)..Len(Registered) :
                        matchedOperations(Registered[k], j.read, j.m, now) # {}}
    IN  IF triggered = {} THEN Idle
        ELSE [j EXCEPT !.seeker = Min(triggered), !.at = "look", !.attempt = 1, !.day = now]
GoOn(w) == job' = [job EXCEPT ![w] = NextSeeker(@)]

\* The queue delivers at least once: a job may come back while it is being worked off.
Deliver(w, m) ==
    /\ At(w, "idle")
    /\ \E q \in queue :
         /\ q.m = m
         /\ \/ queue' = queue \ {q} /\ NoFault
            \/ /\ q.n + 1 < MaxDeliveries
               /\ queue' = (queue \ {q}) \cup {[q EXCEPT !.n = @ + 1]}
               /\ Fault
         /\ job' = [job EXCEPT ![w] = [Idle EXCEPT !.m = m, !.n = q.n + 1, !.at = "read"]]
    /\ UNCHANGED <<operations, alerts, now, told, givenUp, since, changes>>

\* getClientOperations, once for all seekers, which then run over what was read.
ReadOperations(w) ==
    /\ At(w, "read")
    /\ job' = [job EXCEPT ![w] = NextSeeker([@ EXCEPT !.read = operations])]
    /\ UNCHANGED <<operations, queue, alerts, now, told, givenUp, since, faults, changes>>

\* A create that fails is tried again, from the look for the key on; a seeker whose last
\* attempt fails is left out.
AttemptFails(w) ==
    IF job[w].attempt < MaxAttempts
    THEN /\ job' = [job EXCEPT ![w].at = "look", ![w].attempt = @ + 1]
         /\ UNCHANGED givenUp
    ELSE /\ GoOn(w)
         /\ givenUp' = givenUp \cup {job[w].m}

\* Fault: an alert that exists already is not told of again.
LookForNewAlert(w) ==
    /\ At(w, "look")
    /\ IF Key(w) \in alerts THEN GoOn(w) ELSE job' = [job EXCEPT ![w].at = "insert"]
    /\ UNCHANGED <<operations, queue, alerts, now, told, givenUp, since, faults, changes>>

\* AlertRepository.create looks for the key ...
LookForAlert(w) ==
    /\ At(w, "look")
    /\ \/ /\ job' = [job EXCEPT ![w].at = IF Key(w) \in alerts THEN "tell" ELSE "insert"]
          /\ NoFault /\ UNCHANGED givenUp
       \/ Fault /\ AttemptFails(w)
    /\ UNCHANGED <<operations, queue, alerts, now, told, since, changes>>

\* ... and inserts.  The key is unique; an insert that is reported as failed may have
\* been made.
InsertAlert(w) ==
    /\ At(w, "insert")
    /\ \/ /\ Key(w) \notin alerts
          /\ alerts' = alerts \cup {Key(w)}
          /\ job' = [job EXCEPT ![w].at = "tell"]
          /\ NoFault /\ UNCHANGED givenUp
       \/ Key(w) \in alerts /\ AttemptFails(w) /\ NoFault /\ UNCHANGED alerts
       \/ Fault /\ AttemptFails(w) /\ alerts' \in {alerts, alerts \cup {Key(w)}}
    /\ UNCHANGED <<operations, queue, now, told, since, changes>>

\* Whether or not the notification service takes it.
TellOrganization(w) ==
    /\ At(w, "tell")
    /\ told' = told \cup {Key(w)}
    /\ GoOn(w)
    /\ UNCHANGED <<operations, queue, alerts, now, givenUp, since, faults, changes>>

\* The consumer dies, or a read outside the seekers fails.
Retry(w) ==
    /\ ~At(w, "idle") /\ Fault
    /\ IF job[w].n < MaxDeliveries
       THEN queue' = queue \cup {[m |-> job[w].m, n |-> job[w].n]} /\ UNCHANGED givenUp
       ELSE givenUp' = givenUp \cup {job[w].m} /\ UNCHANGED queue
    /\ job' = [job EXCEPT ![w] = Idle]
    /\ UNCHANGED <<operations, alerts, now, told, since, changes>>

Process(w) ==
    \/ ReadOperations(w) \/ LookForAlert(w) \/ InsertAlert(w)
    \/ TellOrganization(w)

Next ==
    \/ \E o \in Operations : CreateOperation(o)
    \/ ChangeClient
    \/ Tick
    \/ \E w \in Workers : Process(w) \/ Retry(w) \/ \E m \in Jobs : Deliver(w, m)

Spec == Init /\ [][Next]_vars

-----------------------------------------------------------------------------
(* Properties                                                              *)

\* The tables hold what their columns may hold, and each consumer works off a job over a
\* part of the operations there are.
TypeOK ==
    /\ operations \in Seq([id: Operations, amount: Amounts, date: Dates])
    /\ queue \subseteq [m: Jobs, n: 0..(MaxDeliveries - 1)]
    /\ \A a \in alerts \cup told : a.seeker \in SeekerType /\ a.ids \subseteq Entered
    /\ \A w \in Workers :
         LET j == job[w] IN
           /\ IsPrefix(j.read, operations)
           /\ IF j.at = "idle" THEN j = Idle
              ELSE /\ j.m \in Jobs /\ j.n \in 1..MaxDeliveries
                   /\ j.at \in {"look", "insert", "tell"} => Matched(w) # {}
    /\ givenUp \subseteq Jobs
    /\ now \in Nat /\ since \in 0..now

AlertOf(o) == [seeker |-> "operation_amount_uma", week |-> 0, ids |-> {o}]

\* An operation that reaches the threshold has its alert once its job is worked off, unless
\* the job was lost or the seeker failed at every attempt.
LargeOperationAlerted ==
    \A i \in DOMAIN operations :
        LET o == operations[i].id IN
          operations[i].amount >= Threshold /\ ~InFlight(o) =>
              AlertOf(o) \in alerts \/ o \in givenUp

Quiet == queue = {} /\ \A w \in Workers : At(w, "idle")

\* When all jobs are worked off, none lost and no seeker failed, then for each seeker there
\* is a day since the last operation was entered on which what the operations of the client
\* showed together, all of them, has its alert, in whatever order they were entered and
\* delivered.  What comes into a window later, as the days pass, nobody looks for.
TogetherAlerted ==
    Quiet /\ operations # <<>> /\ givenUp = {} =>
        \A seeker \in ToSet(Registered) \ {"operation_amount_uma", "pep_above_threshold"} :
            \E day \in since..now :
                LET matched == matchedOperations(seeker, operations, Refresh, day)
                IN  matched # {} => KeyOf(seeker, operations, matched, day) \in alerts

\* Of an alert for an operation the organization is told, even when the consumer died
\* between creating it and telling, unless the job was lost or the seeker failed.
AlertTold ==
    \A o \in Entered :
        AlertOf(o) \in alerts =>
            AlertOf(o) \in told \/ \E m \in Jobs : InFlight(m) \/ m \in givenUp
=============================================================================
