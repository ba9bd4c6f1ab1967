--------------------------- MODULE RiskAssessment ---------------------------
(***************************************************************************)
(* The risk assessments of the clients of an organization and of the       *)
(* organization itself.  Requests send jobs to a queue that delivers at    *)
(* least once to several consumers; a consumer reads what is on record,    *)
(* computes a level and appends a numbered assessment, one statement after *)
(* the other and without a transaction.  The level of a client is copied   *)
(* to its row with the date of its next review, and a cron asks for an     *)
(* assessment of whoever is due.                                           *)
(***************************************************************************)
EXTENDS Integers, FiniteSets, Sequences, Bags

CONSTANTS
    Clients,
    Levels,          \* of risk, "HIGH" among them
    Workers,         \* consumers at work at once
    MaxDeliveries,   \* of a job: the first, and max_retries
    MaxRequests,     \* bound: requests that change a client or send a job
    MaxReviews,      \* bound: reviews that fall due
    MaxQueued,       \* bound: jobs waiting when the cron adds to them
    MaxFaults,       \* bound: faults in one behavior
    NoClient, NoJob

ASSUME RiskAssessmentAssumption ==
    /\ NoClient \notin Clients /\ "org" \notin Clients
    /\ "HIGH" \in Levels /\ "none" \notin Levels
    /\ MaxDeliveries \in Nat \ {0}
    /\ {MaxRequests, MaxReviews, MaxQueued, MaxFaults} \subseteq Nat

VARIABLES
    facts,        \* of each client: the level the engine finds in what is on record, how
                  \* often that changed, and (history) up to where it was on record when a job
                  \* about the client was last sent
    assessments,  \* table client_risk_assessments, of each client in order of creation
    client,       \* columns riskLevel and nextRiskReview (whether it is due)
    org,          \* table org_risk_assessments, in order of creation, with its elements
    queue,        \* the jobs waiting, and how often each was delivered
    job,          \* what each consumer is doing
    owed,         \* history: clients found to be HIGH and not yet announced as such
    givenUp,      \* history: whom a lost job was about: a client or "org"
    bound         \* what was used of each bound

vars == <<facts, assessments, client, org, queue, job, owed, givenUp, bound>>

Idle == [m |-> NoJob, at |-> "idle", c |-> NoClient, rest |-> {}, level |-> "none",
         basis |-> 0, version |-> 0]

Init ==
    /\ facts = [c \in Clients |-> [level |-> "none", changes |-> 0, sent |-> 0]]
    /\ assessments = [c \in Clients |-> <<>>]
    /\ client = [c \in Clients |-> [riskLevel |-> "none", due |-> FALSE]]
    /\ org = <<>>
    /\ queue = EmptyBag
    /\ job = [w \in Workers |-> Idle]
    /\ owed = {} /\ givenUp = {}
    /\ bound = [requests |-> 0, reviews |-> 0, faults |-> 0]

-----------------------------------------------------------------------------
(* Requests                                                                *)

Created == {c \in Clients : facts[c].changes > 0}
Assess(c) == [kind |-> "assess", c |-> c, n |-> 0]
Batch == [kind |-> "batch", c |-> NoClient, n |-> 0]
AssessOrg == [kind |-> "org", c |-> NoClient, n |-> 0]

\* Whom a job is about.
Subjects(m) ==
    CASE m.kind = "assess" -> {m.c} [] m.kind = "batch" -> Created [] m.kind = "org" -> {"org"}

Spend(what, max) == bound[what] < max /\ bound' = [bound EXCEPT ![what] = @ + 1]
Fault == Spend("faults", MaxFaults)
SpendAndFault(what, max) ==
    /\ bound[what] < max /\ bound.faults < MaxFaults
    /\ bound' = [bound EXCEPT ![what] = @ + 1, !.faults = @ + 1]

\* Fault: no second job is sent while one about the same client is under way.
SendOnce(m) ==
    /\ Spend("requests", MaxRequests)
    /\ queue' = IF \E w \in Workers : job[w].c \in Subjects(m) THEN queue
                ELSE queue (+) SetToBag({m})
    /\ UNCHANGED givenUp

\* A request that sends job m; a job that cannot be sent is only reported.
Send(m) ==
    \/ /\ Spend("requests", MaxRequests)
       /\ queue' = queue (+) SetToBag({m})
       /\ UNCHANGED givenUp
    \/ /\ SpendAndFault("requests", MaxRequests)
       /\ givenUp' = givenUp \cup Subjects(m)
       /\ UNCHANGED queue

\* What was on record of these clients is to be assessed.
Asked(who) ==
    [c \in Clients |-> IF c \in who THEN [facts[c] EXCEPT !.sent = facts[c].changes] ELSE facts[c]]

\* What changes the record of a client and sends a job for it: POST of the client, import of
\* clients, POST of one operation, a screening callback that completes, a rescan.
Record(c) ==
    /\ \E level \in Levels :
         facts' = [facts EXCEPT ![c] =
                     [level |-> level, changes |-> @.changes + 1, sent |-> @.changes + 1]]
    /\ Send(Assess(c))
    /\ UNCHANGED <<assessments, client, org, job, owed>>

\* What changes the record of a client and sends none: PUT and PATCH of the client, its
\* documents and controllers, bulk and internal POST, import, PUT and DELETE of operations, the
\* search after a save, PATCH of a screening result.
Edit(c) ==
    /\ c \in Created
    /\ Spend("requests", MaxRequests)
    /\ \E level \in Levels :
         facts' = [facts EXCEPT ![c].level = level, ![c].changes = @ + 1]
    /\ UNCHANGED <<assessments, client, org, queue, job, owed, givenUp>>

\* POST /risk/:clientId/assessment, /risk/batch-assess and /risk/org-assessment
Request ==
    /\ \E m \in {Assess(c) : c \in Created} \cup {Batch, AssessOrg} :
         Send(m) /\ facts' = Asked(Subjects(m))
    /\ UNCHANGED <<assessments, client, org, job, owed>>

\* The review of a client falls due ...
FallDue(c) ==
    /\ client[c].riskLevel # "none" /\ ~client[c].due
    /\ Spend("reviews", MaxReviews)
    /\ client' = [client EXCEPT ![c].due = TRUE]
    /\ UNCHANGED <<facts, assessments, org, queue, job, owed, givenUp>>

\* Fault: only clients of the level HIGH are reviewed.
CronOfHigh ==
    LET due == {c \in Clients : client[c].due /\ client[c].riskLevel = "HIGH"} IN
      /\ due # {}
      /\ BagCardinality(queue) + Cardinality(due) <= MaxQueued
      /\ queue' = queue (+) SetToBag({Assess(c) : c \in due})
      /\ UNCHANGED <<facts, assessments, client, org, job, owed, givenUp, bound>>

\* ... and twice a day the cron sends a job for every client that is due; the job of a
\* client that stays due is sent again the next time.
Cron ==
    LET due == {c \in Clients : client[c].due} IN
      /\ due # {}
      /\ BagCardinality(queue) + Cardinality(due) <= MaxQueued
      /\ \E sent \in SUBSET due :
           /\ queue' = queue (+) SetToBag({Assess(c) : c \in sent})
           /\ facts' = Asked(sent)
           /\ IF sent = due THEN UNCHANGED bound ELSE Fault
      /\ UNCHANGED <<assessments, client, org, job, owed, givenUp>>

-----------------------------------------------------------------------------
(* The consumer: processRiskJob                                            *)

At(w, at) == job[w].at = at
Kind(w) == job[w].m.kind
Move(w, at) == job' = [job EXCEPT ![w].at = at]

Deliver(w) ==
    /\ At(w, "idle")
    /\ \E m \in BagToSet(queue) :
         /\ queue' = queue (-) SetToBag({m})
         /\ job' = [job EXCEPT ![w] =
              [Idle EXCEPT !.m = [m EXCEPT !.n = @ + 1], !.c = m.c,
                 !.at = CASE m.kind = "assess" -> "read"
                          [] m.kind = "batch" -> "list"
                          [] m.kind = "org" -> "number org"]]
    /\ UNCHANGED <<facts, assessments, client, org, owed, givenUp, bound>>

\* The next client of a batch; a job without one is acknowledged.
GoOn(w, rest) ==
    \/ rest = {} /\ job' = [job EXCEPT ![w] = Idle]
    \/ \E c \in rest :
         job' = [job EXCEPT ![w] =
                   [Idle EXCEPT !.m = job[w].m, !.c = c, !.rest = rest \ {c}, !.at = "read"]]

ListClients(w) ==
    /\ At(w, "list")
    /\ GoOn(w, Created)
    /\ UNCHANGED <<facts, assessments, client, org, queue, owed, givenUp, bound>>

\* buildRiskInput, resolve and calculateClientRisk
ReadClient(w) ==
    /\ At(w, "read")
    /\ LET f == facts[job[w].c] IN
         job' = [job EXCEPT ![w].level = f.level, ![w].basis = f.changes, ![w].at = "number"]
    /\ UNCHANGED <<facts, assessments, client, org, queue, owed, givenUp, bound>>

Versions(rows) == {rows[i].version : i \in DOMAIN rows}

NextVersion(rows) ==
    IF rows = <<>> THEN 1
    ELSE 1 + CHOOSE v \in Versions(rows) : \A u \in Versions(rows) : u <= v

\* saveAssessment looks up the latest version ...
NumberAssessment(w) ==
    /\ At(w, "number")
    /\ job' = [job EXCEPT ![w].version = NextVersion(assessments[job[w].c]), ![w].at = "insert"]
    /\ UNCHANGED <<facts, assessments, client, org, queue, owed, givenUp, bound>>

\* ... creates the next ...
InsertAssessment(w) ==
    /\ At(w, "insert")
    /\ LET j == job[w] IN
         assessments' = [assessments EXCEPT ![j.c] = Append(@,
             [version |-> j.version, level |-> j.level, basis |-> j.basis])]
    /\ Move(w, "copy")
    /\ UNCHANGED <<facts, client, org, queue, owed, givenUp, bound>>

\* ... and copies it to the client.  A batch is announced as a whole.
CopyToClient(w) ==
    /\ At(w, "copy")
    /\ LET j == job[w] IN
         /\ client' = [client EXCEPT ![j.c] = [riskLevel |-> j.level, due |-> FALSE]]
         /\ owed' = IF j.level = "HIGH" /\ Kind(w) = "assess" THEN owed \cup {j.c}
                    ELSE owed \ {j.c}
    /\ IF Kind(w) = "batch" THEN GoOn(w, job[w].rest) ELSE Move(w, "announce")
    /\ UNCHANGED <<facts, assessments, org, queue, givenUp, bound>>

\* emitClientNotifications; its sends never fail.
Announce(w) ==
    /\ At(w, "announce")
    /\ owed' = IF job[w].level = "HIGH" THEN owed \ {job[w].c} ELSE owed
    /\ GoOn(w, {})
    /\ UNCHANGED <<facts, assessments, client, org, queue, givenUp, bound>>

\* A client at which a batch fails is left out.
SkipClient(w) ==
    /\ job[w].at \in {"read", "number", "insert", "copy"} /\ Kind(w) = "batch"
    /\ Fault
    /\ givenUp' = givenUp \cup {job[w].c}
    /\ GoOn(w, job[w].rest)
    /\ UNCHANGED <<facts, assessments, client, org, queue, owed>>

\* OrgRiskRepository.saveAssessment looks up the latest version ...
NumberOrg(w) ==
    /\ At(w, "number org")
    /\ job' = [job EXCEPT ![w].version = NextVersion(org),
                          ![w].at = IF org = <<>> THEN "insert org" ELSE "supersede"]
    /\ UNCHANGED <<facts, assessments, client, org, queue, owed, givenUp, bound>>

Superseded(rows) == [i \in DOMAIN rows |-> [rows[i] EXCEPT !.status = "SUPERSEDED"]]

\* Fault: what an interrupted job left without its elements stays ACTIVE.
SupersedeWhole(w) ==
    /\ At(w, "supersede")
    /\ org' = [i \in DOMAIN org |->
                 IF org[i].whole THEN [org[i] EXCEPT !.status = "SUPERSEDED"] ELSE org[i]]
    /\ Move(w, "insert org")
    /\ UNCHANGED <<facts, assessments, client, queue, owed, givenUp, bound>>

\* ... takes every ACTIVE assessment out of force, if there is any row ...
Supersede(w) ==
    /\ At(w, "supersede")
    /\ org' = Superseded(org)
    /\ Move(w, "insert org")
    /\ UNCHANGED <<facts, assessments, client, queue, owed, givenUp, bound>>

\* ... creates the next ...
InsertOrg(w) ==
    /\ At(w, "insert org")
    /\ org' = Append(org, [version |-> job[w].version, status |-> "ACTIVE", whole |-> FALSE])
    /\ job' = [job EXCEPT ![w].basis = Len(org) + 1, ![w].at = "elements"]
    /\ UNCHANGED <<facts, assessments, client, queue, owed, givenUp, bound>>

\* ... and then its elements and mitigants, one by one.
InsertElements(w) ==
    /\ At(w, "elements")
    /\ org' = [org EXCEPT ![job[w].basis].whole = TRUE]
    /\ GoOn(w, {})
    /\ UNCHANGED <<facts, assessments, client, queue, owed, givenUp, bound>>

\* Fault: a job that fails is acknowledged as if it were done.
AckFailed(w) ==
    /\ ~At(w, "idle")
    /\ Fault
    /\ job' = [job EXCEPT ![w] = Idle]
    /\ UNCHANGED <<facts, assessments, client, org, queue, owed, givenUp>>

\* A statement fails, or the consumer dies.
Retry(w) ==
    /\ ~At(w, "idle")
    /\ Fault
    /\ LET m == job[w].m IN
         IF m.n < MaxDeliveries
         THEN queue' = queue (+) SetToBag({m}) /\ UNCHANGED givenUp
         ELSE givenUp' = givenUp \cup Subjects(m) /\ UNCHANGED queue
    /\ job' = [job EXCEPT ![w] = Idle]
    /\ UNCHANGED <<facts, assessments, client, org, owed>>

Work(w) ==
    \/ ListClients(w) \/ ReadClient(w) \/ NumberAssessment(w) \/ InsertAssessment(w)
    \/ CopyToClient(w) \/ Announce(w)
    \/ NumberOrg(w) \/ Supersede(w) \/ InsertOrg(w) \/ InsertElements(w)

Next ==
    \/ \E c \in Clients : Record(c) \/ Edit(c) \/ FallDue(c)
    \/ Request \/ Cron
    \/ \E w \in Workers : Deliver(w) \/ Work(w) \/ SkipClient(w) \/ Retry(w)

\* The cron runs every day, the queue delivers, and a consumer goes on.
Fairness ==
    /\ WF_vars(Cron)
    /\ \A w \in Workers : WF_vars(Work(w))
    /\ WF_vars(\E w \in Workers : Deliver(w))

Spec == Init /\ [][Next]_vars /\ Fairness

-----------------------------------------------------------------------------
(* Properties                                                              *)

InFlight(subject) ==
    \/ \E m \in BagToSet(queue) : subject \in Subjects(m)
    \/ \E w \in Workers : ~At(w, "idle") /\ subject \in Subjects(job[w].m)

\* The columns hold what they may hold; a client has a level only if it was assessed at it.
TypeOK ==
    /\ \A c \in Clients :
         /\ facts[c].changes \in 0..MaxRequests /\ facts[c].sent \in 0..facts[c].changes
         /\ \A i \in DOMAIN assessments[c] :
              /\ assessments[c][i].level \in Levels
              /\ assessments[c][i].basis \in 1..facts[c].changes
         /\ client[c].riskLevel # "none" =>
              \E i \in DOMAIN assessments[c] : assessments[c][i].level = client[c].riskLevel
    /\ \A i \in DOMAIN org : org[i].status \in {"ACTIVE", "SUPERSEDED"} /\ org[i].whole \in BOOLEAN
    /\ \A m \in BagToSet(queue) : m.n \in 0..(MaxDeliveries - 1)
    /\ \A w \in Workers : At(w, "idle") \/ job[w].m.n \in 1..MaxDeliveries
    /\ owed \subseteq Clients /\ givenUp \subseteq Clients \cup {"org"}

\* Once the jobs about a client are done and none was lost, some assessment of it took into
\* account all that was on record when the last of them was sent, by a change, a person or the
\* cron: changes that send no job (Edit) included.  What changed after it nobody assesses.
ChangeAssessed ==
    \A c \in Created :
        ~InFlight(c) /\ c \notin givenUp =>
            \E i \in DOMAIN assessments[c] : assessments[c][i].basis >= facts[c].sent

\* A client that got the level HIGH is announced as such, even when the consumer died after
\* it wrote the level, unless the job was lost.
HighAnnounced == \A c \in owed : InFlight(c) \/ c \in givenUp

\* Once the organization's jobs are done and none was lost, an assessment is in force, and
\* whatever is in force has all its elements, also after a job died half way.
OrgAssessmentStands ==
    org # <<>> /\ ~InFlight("org") /\ "org" \notin givenUp =>
        /\ \E i \in DOMAIN org : org[i].status = "ACTIVE"
        /\ \A i \in DOMAIN org : org[i].status = "ACTIVE" => org[i].whole

\* A client whose review is due is reviewed in the end, whatever jobs were lost before.
ReviewHappens == \A c \in Clients : client[c].due ~> ~client[c].due
=============================================================================
