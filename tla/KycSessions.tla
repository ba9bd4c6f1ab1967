---------------------------- MODULE KycSessions ----------------------------
(***************************************************************************)
(* KYC self-service sessions.  An organization opens a session for a       *)
(* client and sends a link; the client, known by the token alone, fills in *)
(* its file and submits it; a compliance officer approves, rejects or      *)
(* revokes.  Every handler reads the status in one statement and writes it *)
(* in a later one that no longer looks at it.  A client may have several   *)
(* sessions: they share its one file, which the organization writes too.   *)
(* A cron, twice a day, closes what has expired and reminds of what is     *)
(* about to.                                                               *)
(*                                                                         *)
(* The unit of time is the half day between two runs of the cron.          *)
(***************************************************************************)
EXTENDS Integers, FiniteSets

CONSTANTS
    Sessions,   \* ids of sessions
    Clients,    \* ids of clients
    ClientOf,   \* clientId of a session, given when it is created and kept
    Workers,    \* requests in flight at once
    Lifetimes,  \* the expiry hours asked for, in half days
    Window,     \* EXPIRY_WINDOW_HOURS
    KeptFor,    \* expirationTtl of the mark a reminder leaves
    MaxClock,   \* bound: how long is looked at
    MaxEdits,   \* bound: what is written into the file of a client
    NoSession

\* PENDING_REVIEW is never written.
Status == {"ACTIVE", "IN_PROGRESS", "SUBMITTED", "APPROVED", "REJECTED",
           "EXPIRED", "REVOKED"}
Open == {"ACTIVE", "IN_PROGRESS"}
Writable == Open \cup {"REJECTED"}
Inactive == {"EXPIRED", "REVOKED"}

ASSUME KycSessionsAssumption ==
    /\ NoSession \notin Sessions
    /\ ClientOf \in [Sessions -> Clients]
    /\ Lifetimes \subseteq Nat \ {0}
    /\ Window \in Nat /\ KeptFor \in Nat
    /\ MaxClock \in Nat /\ MaxEdits \in Nat

VARIABLES
    clock,
    session,    \* table kyc_sessions
    file,       \* how much has been written into the file of each client
    job,        \* what each request is doing
    cron,       \* the run of the cron
    marked,     \* KV: until when the mark of a reminder is kept
    filed,      \* history: what the file held when it was last submitted
    reminded,   \* history: sessions the organization was reminded of by a run of the
                \*   cron that went on to leave its mark
    raced,      \* history: a request that may change the status met another
    touched     \* history: sessions since whose last submission somebody else, the
                \*   organization or another session of the client, wrote the file

vars == <<clock, session, file, job, cron, marked, filed, reminded, raced, touched>>
history == <<filed, reminded, raced, touched>>

NotFiled == -1
Unborn == [status |-> "UNBORN", expires |-> 0]

ClientOp == {"view", "edit", "submit"}
Decision == {"approve", "reject", "reopen", "revoke"}

\* What a request read decides which statement it comes to; no later one uses it.
Idle == [op |-> "idle", at |-> "done", s |-> NoSession]
NoCron == [at |-> "idle", left |-> {}, s |-> NoSession]

Init ==
    /\ clock = 0
    /\ session = [s \in Sessions |-> Unborn]
    /\ file = [c \in Clients |-> 0]
    /\ job = [w \in Workers |-> Idle]
    /\ cron = NoCron
    /\ marked = [s \in Sessions |-> 0]
    /\ filed = [s \in Sessions |-> NotFiled]
    /\ reminded = {}
    /\ raced = {}
    /\ touched = {}

-----------------------------------------------------------------------------
Exists(s) == session[s].status \in Status
Past(s) == clock > session[s].expires

At(w, at) == job[w].at = at
Go(w, at) == job' = [job EXCEPT ![w].at = at]
Finish(w) == job' = [job EXCEPT ![w] = Idle]

\* Two requests that only view or edit leave each other alone.
Quiet == {"view", "edit"}
Meets(op, s) ==
    \E v \in Workers : job[v].s = s /\ ~(op \in Quiet /\ job[v].op \in Quiet)

Begin(w, op, s, at) ==
    /\ job[w] = Idle
    /\ job' = [job EXCEPT ![w] = [op |-> op, at |-> at, s |-> s]]
    /\ raced' = IF Meets(op, s) THEN raced \cup {s} ELSE raced

\* updateStatus: an UPDATE by id, whatever the status is by now.
SetStatus(s, status) == session' = [session EXCEPT ![s].status = status]

SessionsOf(c) == {s \in Sessions : ClientOf[s] = c}

WriteFile(c) ==
    /\ file[c] < MaxEdits
    /\ file' = [file EXCEPT ![c] = @ + 1]

-----------------------------------------------------------------------------
(* The organization                                                        *)

\* create: expiresAt is now plus the hours asked for.
Create(s) ==
    /\ session[s] = Unborn
    /\ \E l \in Lifetimes :
         session' = [session EXCEPT ![s] =
                       [status |-> "ACTIVE", expires |-> clock + l]]
    /\ UNCHANGED <<clock, file, job, cron, marked, history>>

\* The organization writes the file itself: PATCH of the client, its documents and
\* so on, whatever becomes of the client's sessions.
Amend(c) ==
    /\ WriteFile(c)
    /\ touched' = touched \cup SessionsOf(c)
    /\ UNCHANGED <<clock, session, job, cron, marked, filed, reminded, raced>>

\* Fault: what was not submitted can be approved.
DecidableUnsubmitted(op, status) ==
    IF op = "revoke" THEN status \notin {"APPROVED", "REVOKED"}
    ELSE status \in {"SUBMITTED", "IN_PROGRESS"}

\* Fault: an approved session can be revoked.
DecidableApproved(op, status) ==
    IF op = "revoke" THEN status # "REVOKED" ELSE status = "SUBMITTED"

\* The statuses from which approve, reject and revoke go on.
Decidable(op, status) ==
    IF op = "revoke" THEN status \notin {"APPROVED", "REVOKED"}
    ELSE status = "SUBMITTED"

\* approve, reject (for good, or reopened for corrections) and revoke: getById ...
StartDecision(w, s, op) ==
    /\ Exists(s)
    /\ Decidable(op, session[s].status)
    /\ Begin(w, op, s, "decide")
    /\ UNCHANGED <<clock, session, file, cron, marked, filed, reminded, touched>>

Decided(op) ==
    CASE op = "approve" -> "APPROVED"
      [] op = "reject" -> "REJECTED"
      [] op = "reopen" -> "IN_PROGRESS"
      [] op = "revoke" -> "REVOKED"

\* ... and updateStatus, followed by the event.
Decide(w) ==
    /\ At(w, "decide")
    /\ SetStatus(job[w].s, Decided(job[w].op))
    /\ Finish(w)
    /\ UNCHANGED <<clock, file, cron, marked, history>>

-----------------------------------------------------------------------------
(* The client                                                              *)

\* Fault: nothing keeps a client from writing into what it submitted.
AdmittedAlways(op, status) ==
    CASE op = "edit" -> "write"
      [] op = "submit" /\ status \in Writable -> "check"
      [] OTHER -> "done"

\* Where a request goes once resolveSession let it in with this status.
Admitted(op, status) ==
    CASE op = "edit" /\ status \in Writable -> "write"
      [] op = "submit" /\ status \in Writable -> "check"
      [] OTHER -> "done"

\* getByToken expires an open session that is past its time.
Expires(status, late) == status \in Open /\ late

\* resolveSession: getByToken reads the session.  A session that is ACTIVE is
\* started, and markStarted reads it once more.
StartClient(w, s, op) ==
    LET status == session[s].status
        at == CASE Expires(status, Past(s)) -> "expire"
                [] status = "ACTIVE" /\ ~Past(s) -> "reread"
                [] OTHER -> Admitted(op, status)
    IN  /\ Exists(s)
        /\ status \notin Inactive
        /\ at # "done"
        /\ Begin(w, op, s, at)
        /\ UNCHANGED <<clock, session, file, cron, marked, filed, reminded, touched>>

\* The request ends with 410; no event tells of the expiry.
Expire(w) ==
    /\ At(w, "expire")
    /\ SetStatus(job[w].s, "EXPIRED")
    /\ Finish(w)
    /\ UNCHANGED <<clock, file, cron, marked, history>>

\* A second read of the session, after which the request goes on at "at", is over
\* (at = "done"), or expires the session.
Reread(w, at) ==
    LET s == job[w].s
        status == session[s].status
        next == IF Expires(status, Past(s)) THEN "expire" ELSE at
    IN  /\ job' = [job EXCEPT ![w] =
             IF next = "done" THEN Idle ELSE [@ EXCEPT !.at = next]]
        /\ UNCHANGED <<clock, session, file, cron, marked, history>>

RereadToStart(w) ==
    LET status == session[job[w].s].status
    IN  /\ At(w, "reread")
        /\ Reread(w, CASE status \in Writable -> "start"
                       [] status \in Inactive -> "done"
                       [] OTHER -> Admitted(job[w].op, status))

\* markStarted: whatever the status is by now becomes IN_PROGRESS.
MarkStarted(w) ==
    LET at == Admitted(job[w].op, "IN_PROGRESS")
    IN  /\ At(w, "start")
        /\ SetStatus(job[w].s, "IN_PROGRESS")
        /\ IF at = "done" THEN Finish(w) ELSE Go(w, at)
        /\ UNCHANGED <<clock, file, cron, marked, history>>

\* Personal data, a document, a shareholder, a controller or an address is written
\* for the client of the session.
Write(w) ==
    LET s == job[w].s
    IN  /\ At(w, "write")
        /\ WriteFile(ClientOf[s])
        /\ touched' = touched \cup (SessionsOf(ClientOf[s]) \ {s})
        /\ Finish(w)
        /\ UNCHANGED <<clock, session, cron, marked, filed, reminded, raced>>

\* POST submit checked the status; markSubmitted reads and checks it again.
RereadToSubmit(w) ==
    /\ At(w, "check")
    /\ Reread(w, IF session[job[w].s].status \in Writable THEN "file" ELSE "done")

MarkSubmitted(w) ==
    LET s == job[w].s
    IN  /\ At(w, "file")
        /\ SetStatus(s, "SUBMITTED")
        /\ filed' = [filed EXCEPT ![s] = file[ClientOf[s]]]
        /\ touched' = touched \ {s}
        /\ Finish(w)
        /\ UNCHANGED <<clock, file, cron, marked, reminded, raced>>

\* A request that is cut off between two statements does not go on.
Die(w) ==
    /\ job[w] # Idle
    /\ Finish(w)
    /\ UNCHANGED <<clock, session, file, cron, marked, history>>

-----------------------------------------------------------------------------
(* The cron                                                                *)

\* Fault: sessions the client has opened are not closed.
StaleActive(s) == session[s].status = "ACTIVE" /\ Past(s)

Stale(s) == session[s].status \in Open /\ Past(s)

\* expireStale is one UPDATE with its condition; then the sessions that expire
\* within the window are listed.
ExpireStale ==
    /\ cron.at = "idle"
    /\ session' = [s \in Sessions |->
         IF Stale(s) THEN [session[s] EXCEPT !.status = "EXPIRED"] ELSE session[s]]
    /\ cron' = [cron EXCEPT !.at = "list"]
    /\ UNCHANGED <<clock, file, job, marked, history>>

Expiring(s) ==
    /\ session[s].status \in Open
    /\ clock < session[s].expires
    /\ session[s].expires <= clock + Window

ListExpiring ==
    /\ cron.at = "list"
    /\ LET left == {s \in Sessions : Expiring(s)}
       IN  cron' = IF left = {} THEN NoCron
                   ELSE [cron EXCEPT !.at = "remind", !.left = left]
    /\ UNCHANGED <<clock, session, file, job, marked, history>>

\* On to the sessions left after s.
CronGoesOn(s) ==
    cron' = IF cron.left \subseteq {s} THEN NoCron
            ELSE [at |-> "remind", left |-> cron.left \ {s}, s |-> NoSession]

SkipMarked(s) ==
    /\ cron.at = "remind"
    /\ s \in cron.left
    /\ clock < marked[s]
    /\ CronGoesOn(s)
    /\ UNCHANGED <<clock, session, file, job, marked, history>>

\* The organization is notified; the client is e-mailed after that.
Remind(s) ==
    /\ cron.at = "remind"
    /\ s \in cron.left
    /\ clock >= marked[s]
    /\ cron' = [cron EXCEPT !.at = "mark", !.s = s]
    /\ UNCHANGED <<clock, session, file, job, marked, history>>

\* Fault: the mark is gone after one half day.
MarkBriefly ==
    /\ cron.at = "mark"
    /\ marked' = [marked EXCEPT ![cron.s] = clock + KeptFor - 1]
    /\ reminded' = reminded \cup {cron.s}
    /\ CronGoesOn(cron.s)
    /\ UNCHANGED <<clock, session, file, job, filed, raced, touched>>

Mark ==
    /\ cron.at = "mark"
    /\ marked' = [marked EXCEPT ![cron.s] = clock + KeptFor]
    /\ reminded' = reminded \cup {cron.s}
    /\ CronGoesOn(cron.s)
    /\ UNCHANGED <<clock, session, file, job, filed, raced, touched>>

\* The e-mail to the client or the put throws after the organization was notified;
\* the exception is logged and the next session is taken.
MarkFails ==
    /\ cron.at = "mark"
    /\ CronGoesOn(cron.s)
    /\ UNCHANGED <<clock, session, file, job, marked, history>>

CronDies ==
    /\ cron.at # "idle"
    /\ cron' = NoCron
    /\ UNCHANGED <<clock, session, file, job, marked, history>>

\* The reminder of a session that failed for another reason, before it was sent.
RemindFails(s) ==
    /\ cron.at = "remind"
    /\ s \in cron.left
    /\ CronGoesOn(s)
    /\ UNCHANGED <<clock, session, file, job, marked, history>>

\* A run of the cron is over long before the next.
Tick ==
    /\ clock < MaxClock
    /\ cron.at = "idle"
    /\ clock' = clock + 1
    /\ UNCHANGED <<session, file, job, cron, marked, history>>

-----------------------------------------------------------------------------
Request(w) ==
    \/ \E s \in Sessions, op \in ClientOp : StartClient(w, s, op)
    \/ \E s \in Sessions, op \in Decision : StartDecision(w, s, op)
    \/ Expire(w)
    \/ RereadToStart(w)
    \/ MarkStarted(w)
    \/ Write(w)
    \/ RereadToSubmit(w)
    \/ MarkSubmitted(w)
    \/ Decide(w)
    \/ Die(w)

Cron ==
    \/ ExpireStale
    \/ ListExpiring
    \/ \E s \in Sessions : SkipMarked(s) \/ Remind(s) \/ RemindFails(s)
    \/ Mark
    \/ MarkFails
    \/ CronDies

Next ==
    \/ \E s \in Sessions : Create(s)
    \/ \E c \in Clients : Amend(c)
    \/ \E w \in Workers : Request(w)
    \/ Cron
    \/ Tick

\* The cron is started again and again, and a run of it ends.  Nothing is owed by
\* requests, nor by time.
Spec == Init /\ [][Next]_vars /\ WF_vars(Cron)

-----------------------------------------------------------------------------
(* Properties                                                              *)

TypeOK ==
    /\ clock \in 0..MaxClock
    /\ session \in [Sessions -> [status: Status \cup {"UNBORN"}, expires: Nat]]
    /\ file \in [Clients -> 0..MaxEdits]
    /\ job \in [Workers ->
         [op: ClientOp \cup Decision \cup {"idle"},
          at: {"done", "expire", "reread", "start", "write", "check", "file", "decide"},
          s: Sessions \cup {NoSession}]]
    /\ cron \in [at: {"idle", "list", "remind", "mark"}, left: SUBSET Sessions,
                 s: Sessions \cup {NoSession}]
    /\ marked \in [Sessions -> Nat]
    /\ filed \in [Sessions -> 0..MaxEdits \cup {NotFiled}]
    /\ reminded \subseteq Sessions
    /\ raced \subseteq Sessions
    /\ touched \subseteq Sessions

\* What the officer approved is what the client submitted, but for what the
\* organization or another session of the client wrote into the file since, which
\* nothing prevents: the session itself lets nothing in between, unless two requests
\* met (an edit that was let in before the submission is written after it, and nobody
\* looks at it again).
ApprovedAsSubmitted ==
    \A s \in Sessions \ (raced \cup touched) :
        session[s].status = "APPROVED" => file[ClientOf[s]] = filed[s]

\* However requests overlap, no session is approved that was never submitted: the
\* stale status that a handler acts upon was once the true one.
ApprovedWasSubmitted ==
    \A s \in Sessions : session[s].status = "APPROVED" => filed[s] # NotFiled

\* The window of the reminders and the life of their mark fit: a session comes up
\* in several runs of the cron, and once one of them has reminded the organization and
\* left its mark, the later ones do not remind it again.
RemindedOnce == cron.at = "mark" => cron.s \notin reminded

\* An approved or revoked session stays that, unless two requests met (a page that
\* is being opened for the first time makes it IN_PROGRESS again).
ClosedStays ==
    [][\A s \in Sessions \ raced :
         session[s].status \in {"APPROVED", "REVOKED"}
           => session'[s].status = session[s].status]_session

\* A session past its expiry does not remain open: even if a request that read it
\* in time opens it again, the cron closes it.
ExpiryTakesHold ==
    \A s \in Sessions : Stale(s) ~> session[s].status \notin Open
=============================================================================
