------------------------ MODULE KycSessions_proofs ------------------------
(* Theorems about KycSessions for all sessions, requests in flight,        *)
(* lifetimes and clocks.                                                   *)
EXTENDS KycSessions, TLAPS

\* A request that is under way is about a session that was created, and only a decision
\* decides; the mark that the cron is leaving is a session's.
Held(w) ==
    \/ At(w, "done")
    \/ /\ job[w].s \in Sessions /\ Exists(job[w].s)
       /\ At(w, "decide") <=> job[w].op \in Decision
       /\ job[w].at \in {"check", "file"} => job[w].op = "submit"

Bound ==
    /\ \A w \in Workers : Held(w)
    /\ cron.at = "mark" => cron.s \in Sessions

TypeInv == TypeOK /\ Bound

Steps == {"done", "expire", "reread", "start", "write", "check", "file", "decide"}
Ops == ClientOp \cup Decision \cup {"idle"}
Job == [op: Ops, at: Steps, s: Sessions \cup {NoSession}]

-----------------------------------------------------------------------------
(* The helpers.                                                            *)

LEMMA JobTyped == TypeOK => job \in [Workers -> Job]
  BY DEF TypeOK, Job, Steps, Ops

LEMMA IdleTyped == Idle \in Job
  BY DEF Idle, Job, Steps, Ops

\* Where a client's request can go.
LEMMA AdmittedTo ==
    ASSUME NEW op, NEW status
    PROVE  /\ Admitted(op, status) \in {"write", "check", "done"}
           /\ Admitted(op, status) # "done" => op \in {"edit", "submit"} /\ status \in Writable
           /\ Admitted(op, status) = "write" => op = "edit"
           /\ Admitted(op, status) = "check" => op = "submit"
  BY DEF Admitted

\* A request begins at a worker that had none.
LEMMA BeginTyped ==
    ASSUME TypeOK, NEW w \in Workers, NEW op \in Ops, NEW s \in Sessions, NEW at \in Steps,
           Begin(w, op, s, at)
    PROVE  /\ job' \in [Workers -> Job]
           /\ job[w] = Idle
           /\ job'[w].op = op /\ job'[w].at = at /\ job'[w].s = s
           /\ \A v \in Workers \ {w} : job'[v] = job[v]
           /\ raced \subseteq raced' /\ raced' \subseteq Sessions
           /\ Meets(op, s) => s \in raced'
  <1>1. job \in [Workers -> Job]
    BY JobTyped
  <1>2. [op |-> op, at |-> at, s |-> s] \in Job
    BY DEF Job
  <1> QED
    BY <1>1, <1>2 DEF Begin, TypeOK

\* A request is over.
LEMMA FinishTyped ==
    ASSUME TypeOK, NEW w \in Workers, Finish(w)
    PROVE  /\ job' \in [Workers -> Job]
           /\ job'[w] = Idle
           /\ \A v \in Workers \ {w} : job'[v] = job[v]
  BY JobTyped, IdleTyped DEF Finish

\* Whoever writes the file of a client.
LEMMA WriteFileTyped ==
    ASSUME TypeOK, NEW c \in Clients, WriteFile(c)
    PROVE  /\ file' \in [Clients -> 0..MaxEdits]
           /\ \A d \in Clients \ {c} : file'[d] = file[d]
  BY KycSessionsAssumption DEF WriteFile, TypeOK

\* A second read leaves the request idle, or at another statement.
LEMMA RereadTyped ==
    ASSUME TypeOK, NEW w \in Workers, job[w].s \in Sessions, NEW at \in Steps, Reread(w, at)
    PROVE  /\ job' \in [Workers -> Job]
           /\ \A v \in Workers \ {w} : job'[v] = job[v]
           /\ \/ job'[w] = Idle
              \/ /\ job'[w].s = job[w].s /\ job'[w].op = job[w].op
                 /\ job'[w].at = "expire" /\ session[job[w].s].status \in Open
              \/ /\ job'[w].s = job[w].s /\ job'[w].op = job[w].op
                 /\ job'[w].at = at /\ at # "done"
           /\ UNCHANGED <<clock, session, file, cron, marked, history>>
  <1> DEFINE s == job[w].s
             next == IF Expires(session[s].status, Past(s)) THEN "expire" ELSE at
             after == IF next = "done" THEN Idle
                      ELSE [job[w] EXCEPT !.at = next]
  <1>1. job \in [Workers -> Job] /\ Idle \in Job
    BY JobTyped, IdleTyped
  <1>2. Past(s) \in BOOLEAN /\ next \in Steps
    BY DEF Past, Steps
  <1>3. session[s].status \in Status \cup {"UNBORN"}
    BY DEF TypeOK
  <1>4. job[w] \in Job
    BY <1>1
  <1>5. after \in Job
    BY <1>1, <1>2, <1>3, <1>4 DEF Job
  <1>6. job' = [job EXCEPT ![w] = after]
    BY DEF Reread
  <1>7. next = "expire" => at = "expire" \/ session[s].status \in Open
    BY DEF Expires
  <1>8. next # "done" =>
          /\ after.s = s /\ after.op = job[w].op /\ after.at = next
    BY <1>4 DEF Job
  <1> HIDE DEF after
  <1>9. job' \in [Workers -> Job] /\ job'[w] = after
        /\ \A v \in Workers \ {w} : job'[v] = job[v]
    BY <1>1, <1>5, <1>6
  <1>10. next = "done" => after = Idle
    BY DEF after
  <1>11. next = at \/ (next = "expire" /\ session[s].status \in Open)
    BY DEF Expires
  <1> QED
    BY <1>8, <1>9, <1>10, <1>11 DEF Reread

-----------------------------------------------------------------------------
(* Types.                                                                  *)

\* One request moves, and no session is taken from the others.
LEMMA OneBound ==
    ASSUME Bound, TypeOK, NEW w \in Workers,
           \A v \in Workers \ {w} : job'[v] = job[v],
           Held(w)',
           \A s \in Sessions : Exists(s) => Exists(s)',
           cron' = cron
    PROVE  Bound'
  <1>1. ASSUME NEW v \in Workers
        PROVE  Held(v)'
    <2>1. CASE v = w
      BY <2>1
    <2>2. CASE v # w
      BY <2>2 DEF Bound, Held, At, Exists
    <2> QED
      BY <2>1, <2>2
  <1>2. cron'.at = "mark" => cron'.s \in Sessions
    BY DEF Bound
  <1> QED
    BY <1>1, <1>2 DEF Bound

\* A status that is written keeps its session.
LEMMA SetStatusTyped ==
    ASSUME TypeOK, NEW s \in Sessions, NEW status \in Status, SetStatus(s, status)
    PROVE  /\ session' \in [Sessions -> [status: Status \cup {"UNBORN"}, expires: Nat]]
           /\ session'[s].status = status /\ session'[s].expires = session[s].expires
           /\ \A t \in Sessions \ {s} : session'[t] = session[t]
           /\ \A t \in Sessions : Exists(t) => Exists(t)'
  BY DEF TypeOK, SetStatus, Exists

LEMMA InitTyped == Init => TypeInv
  <1> SUFFICES ASSUME Init PROVE TypeInv
    OBVIOUS
  <1>1. Unborn \in [status: Status \cup {"UNBORN"}, expires: Nat]
    BY DEF Unborn
  <1>2. job \in [Workers -> Job] /\ \A w \in Workers : At(w, "done")
    BY IdleTyped DEF Init, At, Idle
  <1>3. NoCron \in [at: {"idle", "list", "remind", "mark"}, left: SUBSET Sessions,
                    s: Sessions \cup {NoSession}] /\ NoCron.at # "mark"
    BY DEF NoCron
  <1> QED
    BY <1>1, <1>2, <1>3, KycSessionsAssumption
    DEF Init, TypeInv, TypeOK, Bound, Held, Job, Steps, Ops, NotFiled

\* The requests that begin.
LEMMA StartsTyped ==
    ASSUME TypeInv, NEW w \in Workers, NEW s \in Sessions, NEW op \in ClientOp \cup Decision,
           NEW at \in Steps, Exists(s), at = "decide" <=> op \in Decision,
           at \in {"check", "file"} => op = "submit",
           Begin(w, op, s, at),
           UNCHANGED <<clock, session, file, cron, marked, filed, reminded, touched>>
    PROVE  TypeInv'
  <1>1. op \in Ops
    BY DEF Ops
  <1>2. /\ job' \in [Workers -> Job]
        /\ job'[w].s = s /\ job'[w].op = op /\ job'[w].at = at
        /\ \A v \in Workers \ {w} : job'[v] = job[v]
        /\ raced' \subseteq Sessions
    BY <1>1, BeginTyped DEF TypeInv
  <1>3. TypeOK'
    BY <1>2 DEF TypeInv, TypeOK, Job, Steps, Ops
  <1>4. /\ \A t \in Sessions : Exists(t)' <=> Exists(t)
        /\ Held(w)'
    BY <1>2 DEF Held, At, Exists
  <1> QED
    BY <1>2, <1>3, <1>4, OneBound DEF TypeInv

\* The requests that end.
LEMMA EndsTyped ==
    ASSUME TypeInv, NEW w \in Workers, Finish(w), UNCHANGED <<clock, cron, marked, reminded, raced>>,
           session' \in [Sessions -> [status: Status \cup {"UNBORN"}, expires: Nat]],
           \A t \in Sessions : Exists(t) => Exists(t)',
           file' \in [Clients -> 0..MaxEdits],
           filed' \in [Sessions -> 0..MaxEdits \cup {NotFiled}], touched' \subseteq Sessions
    PROVE  TypeInv'
  <1>1. /\ job' \in [Workers -> Job] /\ job'[w] = Idle
        /\ \A v \in Workers \ {w} : job'[v] = job[v]
    BY FinishTyped DEF TypeInv
  <1>2. Held(w)'
    BY <1>1 DEF Idle, Held, At
  <1>3. TypeOK'
    BY <1>1 DEF TypeInv, TypeOK, Job, Steps, Ops
  <1> QED
    BY <1>1, <1>2, <1>3, OneBound DEF TypeInv

\* The requests that read again.
LEMMA RereadsTyped ==
    ASSUME TypeInv, NEW w \in Workers, job[w].s \in Sessions, Exists(job[w].s),
           job[w].op \notin Decision, NEW at \in Steps, at # "decide",
           at \in {"check", "file"} => job[w].op = "submit", Reread(w, at)
    PROVE  TypeInv'
  <1>1. /\ job' \in [Workers -> Job]
        /\ \A v \in Workers \ {w} : job'[v] = job[v]
        /\ \/ job'[w] = Idle
           \/ /\ job'[w].s = job[w].s /\ job'[w].op = job[w].op
              /\ job'[w].at \in {"expire", at}
        /\ UNCHANGED <<clock, session, file, cron, marked, history>>
    BY RereadTyped DEF TypeInv
  <1>2. TypeOK'
    BY <1>1 DEF TypeInv, TypeOK, Job, Steps, Ops, history
  <1>3. \A t \in Sessions : Exists(t)' <=> Exists(t)
    BY <1>1 DEF Exists
  <1>4. Held(w)'
    BY <1>1 DEF Held, At, Exists, Idle
  <1> QED
    BY <1>1, <1>2, <1>3, <1>4, OneBound DEF TypeInv

\* A request under way is about a session that was created.
LEMMA UnderWay ==
    ASSUME TypeInv, NEW w \in Workers, ~At(w, "done")
    PROVE  /\ job[w] \in Job /\ job[w].s \in Sessions /\ Exists(job[w].s)
           /\ At(w, "decide") <=> job[w].op \in Decision
           /\ job[w].at \in {"check", "file"} => job[w].op = "submit"
  BY JobTyped DEF TypeInv, Bound, Held

LEMMA RequestTyped ==
    ASSUME TypeInv, NEW w \in Workers, Request(w)
    PROVE  TypeInv'
  <1>1. ASSUME NEW s \in Sessions, NEW op \in ClientOp, StartClient(w, s, op)
        PROVE  TypeInv'
    <2>1. PICK at \in Steps : Begin(w, op, s, at) /\ at # "decide" /\ (at \in {"check", "file"} => op = "submit")
      BY <1>1, AdmittedTo DEF StartClient, Steps
    <2>2. op \notin Decision
      BY DEF ClientOp, Decision
    <2> QED
      BY <1>1, <2>1, <2>2, StartsTyped DEF StartClient
  <1>2. ASSUME NEW s \in Sessions, NEW op \in Decision, StartDecision(w, s, op)
        PROVE  TypeInv'
    BY <1>2, StartsTyped DEF StartDecision, Steps
  <1>3. ASSUME Expire(w) PROVE TypeInv'
    <2>1. job[w].s \in Sessions
      BY <1>3, UnderWay DEF Expire, At
    <2> QED
      BY <1>3, <2>1, SetStatusTyped, EndsTyped DEF Expire, Status, TypeInv, TypeOK, history
  <1>4. ASSUME RereadToStart(w) PROVE TypeInv'
    <2>1. job[w].s \in Sessions /\ Exists(job[w].s) /\ job[w].op \notin Decision
      BY <1>4, UnderWay DEF RereadToStart, At
    <2> QED
      BY <1>4, <2>1, RereadsTyped, AdmittedTo DEF RereadToStart, Steps
  <1>5. ASSUME MarkStarted(w) PROVE TypeInv'
    <2> DEFINE at == Admitted(job[w].op, "IN_PROGRESS")
    <2>1. job[w] \in Job /\ job[w].s \in Sessions /\ job[w].op \notin Decision
      BY <1>5, UnderWay DEF MarkStarted, At
    <2>2. /\ session' \in [Sessions -> [status: Status \cup {"UNBORN"}, expires: Nat]]
          /\ \A t \in Sessions : Exists(t) => Exists(t)'
          /\ session'[job[w].s].status \in Status
      BY <1>5, <2>1, SetStatusTyped DEF MarkStarted, Status, TypeInv
    <2>3. CASE at = "done"
      BY <1>5, <2>2, <2>3, EndsTyped DEF MarkStarted, TypeInv, TypeOK, history
    <2>4. CASE at # "done"
      <3>1. Go(w, at) /\ at \in Steps /\ at # "decide" /\ (at \in {"check", "file"} => job[w].op = "submit")
        BY <1>5, <2>4, AdmittedTo DEF MarkStarted, Steps
      <3>2. /\ job' \in [Workers -> Job]
            /\ job'[w].s = job[w].s /\ job'[w].op = job[w].op /\ job'[w].at = at
            /\ \A v \in Workers \ {w} : job'[v] = job[v]
        BY <2>1, <3>1, JobTyped DEF Go, TypeInv, Job
      <3>3. TypeOK'
        BY <1>5, <2>2, <3>2 DEF MarkStarted, TypeInv, TypeOK, Job, Steps, Ops, history
      <3>4. Held(w)'
        BY <2>1, <2>2, <3>1, <3>2 DEF Held, At, Exists
      <3> QED
        BY <1>5, <2>1, <2>2, <3>2, <3>3, <3>4, OneBound DEF MarkStarted, TypeInv
    <2> QED
      BY <2>3, <2>4
  <1>6. ASSUME Write(w) PROVE TypeInv'
    <2>1. job[w].s \in Sessions
      BY <1>6, UnderWay DEF Write, At
    <2>2. file' \in [Clients -> 0..MaxEdits]
      BY <1>6, <2>1, WriteFileTyped, KycSessionsAssumption DEF Write, TypeInv
    <2>3. touched' \subseteq Sessions
      BY <1>6 DEF Write, SessionsOf, TypeInv, TypeOK
    <2> QED
      BY <1>6, <2>2, <2>3, EndsTyped DEF Write, TypeInv, TypeOK, Exists
  <1>7. ASSUME RereadToSubmit(w) PROVE TypeInv'
    <2>1. job[w].s \in Sessions /\ Exists(job[w].s) /\ job[w].op \notin Decision
      BY <1>7, UnderWay DEF RereadToSubmit, At
    <2> QED
      BY <1>7, <2>1, UnderWay, RereadsTyped DEF RereadToSubmit, Steps, At
  <1>8. ASSUME MarkSubmitted(w) PROVE TypeInv'
    <2>1. job[w].s \in Sessions
      BY <1>8, UnderWay DEF MarkSubmitted, At
    <2>2. filed' \in [Sessions -> 0..MaxEdits \cup {NotFiled}]
      BY <1>8, <2>1, KycSessionsAssumption DEF MarkSubmitted, TypeInv, TypeOK
    <2> QED
      BY <1>8, <2>1, <2>2, SetStatusTyped, EndsTyped
      DEF MarkSubmitted, Status, TypeInv, TypeOK
  <1>9. ASSUME Decide(w) PROVE TypeInv'
    <2>1. job[w].s \in Sessions
      BY <1>9, UnderWay DEF Decide, At
    <2>2. PICK status \in Status : SetStatus(job[w].s, status)
      <3>1. job[w].op \in Decision
        BY <1>9, UnderWay DEF Decide, At
      <3>2. Decided(job[w].op) \in Status
        BY <3>1 DEF Decided, Decision, Status
      <3> QED
        BY <1>9, <3>2 DEF Decide
    <2> QED
      BY <1>9, <2>1, <2>2, SetStatusTyped, EndsTyped DEF Decide, TypeInv, TypeOK, history
  <1>10. ASSUME Die(w) PROVE TypeInv'
    BY <1>10, EndsTyped DEF Die, TypeInv, TypeOK, history, Exists
  <1> QED
    BY <1>1, <1>2, <1>3, <1>4, <1>5, <1>6, <1>7, <1>8, <1>9, <1>10 DEF Request

\* What neither a request nor the cron's reminders touch.
LEMMA CronTyped ==
    ASSUME TypeInv, Cron
    PROVE  TypeInv'
  <1> DEFINE CronT == [at: {"idle", "list", "remind", "mark"}, left: SUBSET Sessions,
                       s: Sessions \cup {NoSession}]
  <1>1. cron \in CronT /\ NoCron \in CronT
    BY DEF TypeInv, TypeOK, NoCron
  <1>2. ASSUME NEW s, CronGoesOn(s)
        PROVE  cron' \in CronT /\ cron'.at # "mark"
    BY <1>1, <1>2 DEF CronGoesOn, NoCron
  <1>3. ASSUME cron' \in CronT, cron'.at # "mark",
               marked' \in [Sessions -> Nat], reminded' \subseteq Sessions,
               UNCHANGED <<clock, session, file, job, filed, raced, touched>>
        PROVE  TypeInv'
    BY <1>3 DEF TypeInv, TypeOK, Bound, Held, At, Exists
  <1>4. marked \in [Sessions -> Nat] /\ reminded \subseteq Sessions
    BY DEF TypeInv, TypeOK
  <1> HIDE DEF CronT
  <1>5. CASE ExpireStale
    <2>1. cron' \in CronT /\ cron'.at # "mark"
      BY <1>1, <1>5 DEF ExpireStale, CronT
    <2>2. session' \in [Sessions -> [status: Status \cup {"UNBORN"}, expires: Nat]]
      BY <1>5 DEF ExpireStale, TypeInv, TypeOK, Status
    <2>3. \A s \in Sessions : Exists(s) => Exists(s)'
      BY <1>5 DEF ExpireStale, Exists, TypeInv, TypeOK, Status
    <2>4. TypeOK'
      BY <1>5, <2>1, <2>2 DEF ExpireStale, TypeInv, TypeOK, history, CronT
    <2>5. Bound'
      BY <1>5, <2>1, <2>3 DEF ExpireStale, TypeInv, Bound, Held, At, Exists
    <2> QED
      BY <2>4, <2>5 DEF TypeInv
  <1>6. CASE ListExpiring
    <2>1. cron' \in CronT /\ cron'.at # "mark"
      BY <1>1, <1>6 DEF ListExpiring, CronT, NoCron
    <2> QED
      BY <1>3, <1>4, <1>6, <2>1 DEF ListExpiring, history
  <1>7. ASSUME NEW s \in Sessions, SkipMarked(s) \/ RemindFails(s)
        PROVE  TypeInv'
    BY <1>2, <1>3, <1>4, <1>7 DEF SkipMarked, RemindFails, history
  <1>8. ASSUME NEW s \in Sessions, Remind(s)
        PROVE  TypeInv'
    <2>1. cron' \in CronT /\ cron'.s = s
      BY <1>1, <1>8 DEF Remind, CronT
    <2>3. TypeOK'
      BY <1>8, <2>1 DEF Remind, TypeInv, TypeOK, CronT, history
    <2>4. Bound'
      BY <1>8, <2>1 DEF Remind, TypeInv, Bound, Held, At, Exists
    <2> QED
      BY <2>3, <2>4 DEF TypeInv
  <1>9. CASE Mark
    <2>0. clock + KeptFor \in Nat
      BY KycSessionsAssumption DEF TypeInv, TypeOK
    <2>1. marked' \in [Sessions -> Nat]
      BY <1>9, <2>0 DEF Mark, TypeInv, TypeOK
    <2>2. reminded' \subseteq Sessions
      BY <1>4, <1>9 DEF Mark, TypeInv, Bound
    <2> QED
      BY <1>2, <1>3, <1>9, <2>1, <2>2 DEF Mark
  <1>10. CASE MarkFails
    BY <1>2, <1>3, <1>4, <1>10 DEF MarkFails, history
  <1>11. CASE CronDies
    <2>1. cron' \in CronT /\ cron'.at # "mark"
      BY <1>1, <1>11 DEF CronDies, NoCron
    <2> QED
      BY <1>3, <1>4, <1>11, <2>1 DEF CronDies, history
  <1> QED
    BY <1>5, <1>6, <1>7, <1>8, <1>9, <1>10, <1>11 DEF Cron

LEMMA NextTyped == TypeInv /\ [Next]_vars => TypeInv'
  <1> SUFFICES ASSUME TypeInv, [Next]_vars PROVE TypeInv'
    OBVIOUS
  <1>1. ASSUME NEW s \in Sessions, Create(s) PROVE TypeInv'
    <2>1. PICK l \in Lifetimes :
            session' = [session EXCEPT ![s] = [status |-> "ACTIVE", expires |-> clock + l]]
      BY <1>1 DEF Create
    <2>2. clock + l \in Nat
      BY KycSessionsAssumption DEF TypeInv, TypeOK
    <2>3. session' \in [Sessions -> [status: Status \cup {"UNBORN"}, expires: Nat]]
      BY <2>1, <2>2 DEF TypeInv, TypeOK, Status
    <2>4. \A t \in Sessions : Exists(t) => Exists(t)'
      BY <2>1 DEF Exists, TypeInv, TypeOK, Status
    <2>5. TypeOK'
      BY <1>1, <2>3 DEF Create, TypeInv, TypeOK, history
    <2>6. Bound'
      BY <1>1, <2>4 DEF Create, TypeInv, Bound, Held, At, Exists
    <2> QED
      BY <2>5, <2>6 DEF TypeInv
  <1>4. ASSUME NEW c \in Clients, Amend(c) PROVE TypeInv'
    <2>1. file' \in [Clients -> 0..MaxEdits] /\ touched' \subseteq Sessions
      BY <1>4, WriteFileTyped DEF Amend, SessionsOf, TypeInv, TypeOK
    <2> QED
      BY <1>4, <2>1 DEF Amend, TypeInv, TypeOK, Bound, Held, At, Exists
  <1>2. ASSUME Tick PROVE TypeInv'
    <2>1. clock' \in 0..MaxClock
      BY <1>2, KycSessionsAssumption DEF Tick, TypeInv, TypeOK
    <2> QED
      BY <1>2, <2>1 DEF Tick, TypeInv, TypeOK, Bound, Held, At, Exists, history
  <1>3. CASE UNCHANGED vars
    BY <1>3 DEF vars, TypeInv, TypeOK, Bound, Held, At, Exists
  <1> QED
    BY <1>1, <1>2, <1>3, <1>4, RequestTyped, CronTyped DEF Next

\* The tables, the requests in flight and the run of the cron keep their types.
THEOREM TypeCorrect == Spec => []TypeOK
  <1>1. TypeInv => TypeOK
    BY DEF TypeInv
  <1> QED
    BY InitTyped, NextTyped, <1>1, PTL DEF Spec

-----------------------------------------------------------------------------
(* Requests that do not meet.                                              *)

\* On a session where no two requests met, the requests in flight only view and edit,
\* or there is one.
Solo ==
    \A v, w \in Workers :
        /\ v # w /\ job[v].s = job[w].s
        /\ job[v].s \in Sessions \ raced
        => job[v].op \in Quiet /\ job[w].op \in Quiet

\* What a request in flight may still count on, though it does not look again.
Counts(w) ==
    LET s == job[w].s
        status == session[s].status
    IN  s \in Sessions \ raced =>
          /\ ~At(w, "decide") => status \in Writable \cup {"EXPIRED"}
          /\ At(w, "decide") => Decidable(job[w].op, status)

\* The file of the client of a session.
FileOf(s) == file[ClientOf[s]]

\* What is submitted or approved is what was filed, unless somebody else wrote it.
Matches ==
    \A s \in Sessions \ (raced \cup touched) :
        session[s].status \in {"SUBMITTED", "APPROVED"} => FileOf(s) = filed[s]

Safe == Solo /\ (\A w \in Workers : Counts(w)) /\ Matches

\* Whatever meets, what is submitted, approved or about to be was filed once.
Filed ==
    /\ \A s \in Sessions :
         session[s].status \in {"SUBMITTED", "APPROVED"} => filed[s] # NotFiled
    /\ \A w \in Workers :
         At(w, "decide") /\ job[w].op = "approve" => filed[job[w].s] # NotFiled

LEMMA SafeInit == Init => Safe /\ Filed
  BY KycSessionsAssumption
  DEF Init, Safe, Filed, Solo, Counts, Matches, Idle, Unborn, At

\* A request that begins changes no session.  One that finds another it must not meet is
\* recorded.
LEMMA StartsSafe ==
    ASSUME TypeInv, Safe, NEW w \in Workers, NEW s \in Sessions,
           NEW op \in ClientOp \cup Decision, NEW at \in Steps, at # "done",
           Begin(w, op, s, at), UNCHANGED <<session, file, filed, touched>>,
           at # "decide" => session[s].status \in Writable,
           at = "decide" => Decidable(op, session[s].status)
    PROVE  Safe'
  <1>1. op \in Ops
    BY DEF Ops
  <1>2. /\ job[w] = Idle
        /\ job'[w].s = s /\ job'[w].op = op /\ job'[w].at = at
        /\ \A v \in Workers \ {w} : job'[v] = job[v]
        /\ raced \subseteq raced'
        /\ Meets(op, s) => s \in raced'
    BY <1>1, BeginTyped DEF TypeInv
  <1>3. Solo'
    <2> SUFFICES ASSUME NEW u \in Workers, NEW v \in Workers, u # v,
                        job'[u].s = job'[v].s, job'[u].s \in Sessions \ raced'
                 PROVE  job'[u].op \in Quiet /\ job'[v].op \in Quiet
      BY DEF Solo
    <2>1. CASE u # w /\ v # w
      BY <1>2, <2>1 DEF Safe, Solo
    <2>2. CASE u = w
      <3>1. job[v].s = s /\ ~Meets(op, s)
        BY <1>2, <2>2
      <3> QED
        BY <1>2, <2>2, <3>1 DEF Meets
    <2>3. CASE v = w
      <3>1. job[u].s = s /\ ~Meets(op, s)
        BY <1>2, <2>3
      <3> QED
        BY <1>2, <2>3, <3>1 DEF Meets
    <2> QED
      BY <2>1, <2>2, <2>3
  <1>4. ASSUME NEW v \in Workers PROVE Counts(v)'
    <2>1. CASE v = w
      BY <1>2, <2>1 DEF Counts, At
    <2>2. CASE v # w
      BY <1>2, <2>2 DEF Safe, Counts, At
    <2> QED
      BY <2>1, <2>2
  <1>5. Matches'
    BY <1>2 DEF Safe, Matches, FileOf
  <1> QED
    BY <1>3, <1>4, <1>5 DEF Safe

\* A request that ends, or goes on with the same operation, may leave its session in
\* another status.  Nothing that is still in flight on it minds.
LEMMA MovesSafe ==
    ASSUME TypeInv, Safe, NEW w \in Workers, ~At(w, "done"),
           \A v \in Workers \ {w} : job'[v] = job[v],
           raced' = raced,
           \/ job'[w] = Idle
           \/ job'[w].s = job[w].s /\ job'[w].op = job[w].op /\ ~At(w, "decide")'
              /\ (job[w].s \notin raced => session'[job[w].s].status \in Writable \cup {"EXPIRED"}),
           \A t \in Sessions \ {job[w].s} :
              /\ session'[t] = session[t] /\ filed'[t] = filed[t]
              /\ t \notin touched' => t \notin touched /\ FileOf(t)' = FileOf(t),
           job[w].s \notin raced /\ job[w].op \in Quiet =>
              session'[job[w].s].status \in Writable \cup {"EXPIRED"},
           job[w].s \notin raced \cup touched'
             /\ session'[job[w].s].status \in {"SUBMITTED", "APPROVED"}
              => file'[ClientOf[job[w].s]] = filed'[job[w].s]
    PROVE  Safe'
  <1>1. job[w].s \in Sessions
    BY UnderWay
  <1>2. \A v \in Workers : job'[v] = Idle \/ (job'[v].s = job[v].s /\ job'[v].op = job[v].op)
    OBVIOUS
  <1>3. Idle.s \notin Sessions
    BY KycSessionsAssumption DEF Idle
  <1>4. Solo'
    BY <1>2, <1>3 DEF Safe, Solo
  <1>5. ASSUME NEW v \in Workers PROVE Counts(v)'
    <2>1. CASE v = w
      BY <1>3, <2>1 DEF Counts, At
    <2>2. CASE v # w /\ job[v].s # job[w].s
      BY <2>2 DEF Safe, Counts, At
    <2>3. CASE v # w /\ job[v].s = job[w].s
      <3>1. job'[v] = job[v]
        BY <2>3
      <3>2. CASE job[w].s \in raced
        BY <2>3, <3>1, <3>2 DEF Counts
      <3>3. CASE job[w].s \notin raced
        <4>1. job[w].op \in Quiet /\ job[v].op \in Quiet
          BY <1>1, <2>3, <3>3 DEF Safe, Solo
        <4>2. ~At(v, "decide")
          BY <4>1 DEF TypeInv, Bound, Held, At, Quiet, Decision
        <4>3. session'[job[w].s].status \in Writable \cup {"EXPIRED"}
          BY <3>3, <4>1
        <4> QED
          BY <2>3, <3>1, <4>2, <4>3 DEF Counts, At
      <3> QED
        BY <3>2, <3>3
    <2> QED
      BY <2>1, <2>2, <2>3
  <1>6. Matches'
    BY <1>1 DEF Safe, Matches, FileOf
  <1> QED
    BY <1>4, <1>5, <1>6 DEF Safe

LEMMA RequestSafe ==
    ASSUME TypeInv, Safe, NEW w \in Workers, Request(w)
    PROVE  Safe'
  <1> DEFINE t == job[w].s
  <1>0. ASSUME ~At(w, "done")
        PROVE  /\ t \in Sessions
               /\ At(w, "decide") <=> job[w].op \in Decision
               /\ t \notin raced /\ ~At(w, "decide") =>
                    session[t].status \in Writable \cup {"EXPIRED"}
               /\ t \notin raced /\ At(w, "decide") => Decidable(job[w].op, session[t].status)
               /\ t \notin raced \cup touched /\ session[t].status \in {"SUBMITTED", "APPROVED"} =>
                    FileOf(t) = filed[t]
    BY <1>0, UnderWay DEF Safe, Counts, Matches
  <1>1. ASSUME NEW s \in Sessions, NEW op \in ClientOp, StartClient(w, s, op)
        PROVE  Safe'
    <2>1. session[s].status \in Status \ Inactive
      BY <1>1 DEF StartClient, Exists
    <2>2. PICK at \in Steps : /\ Begin(w, op, s, at) /\ at \notin {"decide", "done"}
                              /\ session[s].status \in Writable
      BY <1>1, AdmittedTo DEF StartClient, Steps, Expires, Open, Writable
    <2> QED
      BY <1>1, <2>2, StartsSafe DEF StartClient
  <1>2. ASSUME NEW s \in Sessions, NEW op \in Decision, StartDecision(w, s, op)
        PROVE  Safe'
    BY <1>2, StartsSafe DEF StartDecision, Steps
  <1>3. ASSUME Expire(w) PROVE Safe'
    <2>1. ~At(w, "done")
      BY <1>3 DEF Expire, At
    <2>2. /\ session'[t].status = "EXPIRED"
          /\ \A u \in Sessions \ {t} : session'[u] = session[u]
      BY <1>0, <1>3, <2>1, SetStatusTyped DEF Expire, Status, TypeInv
    <2>3. job'[w] = Idle /\ \A v \in Workers \ {w} : job'[v] = job[v]
      BY <1>3, FinishTyped DEF Expire, TypeInv
    <2> QED
      BY <1>3, <2>1, <2>2, <2>3, MovesSafe DEF Expire, history, FileOf
  <1>4. ASSUME NEW at \in Steps, Reread(w, at), at # "decide", ~At(w, "done"), ~At(w, "decide")
        PROVE  Safe'
    <2>1. /\ \A v \in Workers \ {w} : job'[v] = job[v]
          /\ \/ job'[w] = Idle
             \/ job'[w].s = t /\ job'[w].op = job[w].op /\ job'[w].at \in {"expire", at}
          /\ UNCHANGED <<session, file, raced, filed, touched>>
      BY <1>0, <1>4, RereadTyped DEF TypeInv, history
    <2> QED
      BY <1>0, <1>4, <2>1, MovesSafe DEF At, FileOf
  <1>5. CASE RereadToStart(w)
    <2>1. PICK at \in Steps : Reread(w, at) /\ at # "decide"
      BY <1>5, AdmittedTo DEF RereadToStart, Steps
    <2> QED
      BY <1>4, <1>5, <2>1 DEF RereadToStart, At
  <1>6. CASE RereadToSubmit(w)
    <2>1. PICK at \in Steps : Reread(w, at) /\ at # "decide"
      BY <1>6 DEF RereadToSubmit, Steps
    <2> QED
      BY <1>4, <1>6, <2>1 DEF RereadToSubmit, At
  <1>7. ASSUME MarkStarted(w) PROVE Safe'
    <2>1. ~At(w, "done")
      BY <1>7 DEF MarkStarted, At
    <2>2. /\ session'[t].status = "IN_PROGRESS"
          /\ \A u \in Sessions \ {t} : session'[u] = session[u]
      BY <1>0, <1>7, <2>1, SetStatusTyped DEF MarkStarted, Status, TypeInv
    <2>3. /\ \A v \in Workers \ {w} : job'[v] = job[v]
          /\ \/ job'[w] = Idle
             \/ job'[w].s = t /\ job'[w].op = job[w].op /\ job'[w].at # "decide"
      <3>1. job \in [Workers -> Job]
        BY JobTyped DEF TypeInv
      <3>2. CASE Finish(w)
        BY <3>2, FinishTyped DEF TypeInv
      <3>3. CASE Go(w, Admitted(job[w].op, "IN_PROGRESS"))
        BY <3>1, <3>3, AdmittedTo DEF Go, Job
      <3> QED
        BY <1>7, <3>2, <3>3 DEF MarkStarted
    <2> QED
      BY <1>7, <2>1, <2>2, <2>3, MovesSafe
      DEF MarkStarted, history, At, Writable, Open, FileOf
  <1>8. ASSUME Write(w) PROVE Safe'
    <2>1. ~At(w, "done") /\ ~At(w, "decide")
      BY <1>8 DEF Write, At
    <2>2. /\ \A u \in Sessions \ {t} :
                u \notin touched' => u \notin touched /\ FileOf(u)' = FileOf(u)
          /\ UNCHANGED <<session, filed, raced>>
      <3>1. t \in Sessions /\ ClientOf[t] \in Clients /\ WriteFile(ClientOf[t])
        BY <1>0, <1>8, <2>1, KycSessionsAssumption DEF Write
      <3>2. \A d \in Clients \ {ClientOf[t]} : file'[d] = file[d]
        BY <3>1, WriteFileTyped DEF TypeInv
      <3>3. touched' = touched \cup (SessionsOf(ClientOf[t]) \ {t})
        BY <1>8 DEF Write
      <3>4. \A u \in Sessions : ClientOf[u] \in Clients
        BY KycSessionsAssumption
      <3>5. UNCHANGED <<session, filed, raced>>
        BY <1>8 DEF Write
      <3> QED
        BY <3>2, <3>3, <3>4, <3>5 DEF SessionsOf, FileOf
    <2>3. job'[w] = Idle /\ \A v \in Workers \ {w} : job'[v] = job[v]
      BY <1>8, FinishTyped DEF Write, TypeInv
    <2>4. t \notin raced => session'[t].status \in Writable \cup {"EXPIRED"}
      BY <1>0, <2>1, <2>2
    <2> QED
      BY <2>1, <2>2, <2>3, <2>4, MovesSafe DEF Writable, Open
  <1>9. ASSUME MarkSubmitted(w) PROVE Safe'
    <2>1. ~At(w, "done") /\ ~At(w, "decide")
      BY <1>9 DEF MarkSubmitted, At
    <2>2. \A u \in Sessions \ {t} : session'[u] = session[u]
      BY <1>0, <1>9, <2>1, SetStatusTyped DEF MarkSubmitted, Status, TypeInv
    <2>3. job'[w] = Idle /\ \A v \in Workers \ {w} : job'[v] = job[v]
      BY <1>9, FinishTyped DEF MarkSubmitted, TypeInv
    <2>4. /\ filed'[t] = FileOf(t) /\ \A u \in Sessions \ {t} : filed'[u] = filed[u]
          /\ UNCHANGED <<file, raced>> /\ touched' = touched \ {t}
      BY <1>0, <1>9, <2>1 DEF MarkSubmitted, TypeInv, TypeOK, FileOf
    <2>5. job[w].op \notin Quiet
      BY <1>9, <2>1, UnderWay DEF MarkSubmitted, At, Quiet
    <2> QED
      BY <2>1, <2>2, <2>3, <2>4, <2>5, MovesSafe DEF FileOf
  <1>10. ASSUME Decide(w) PROVE Safe'
    <2>1. ~At(w, "done") /\ At(w, "decide") /\ job[w].op \in Decision
      BY <1>0, <1>10 DEF Decide, At
    <2>2. /\ Decided(job[w].op) \in Status \ {"SUBMITTED"}
          /\ Decided(job[w].op) = "APPROVED" => job[w].op = "approve"
          /\ job[w].op \notin Quiet
      BY <2>1 DEF Decided, Decision, Status, Quiet
    <2>3. /\ session'[t].status = Decided(job[w].op)
          /\ \A u \in Sessions \ {t} : session'[u] = session[u]
      BY <1>0, <1>10, <2>1, <2>2, SetStatusTyped DEF Decide, TypeInv
    <2>4. job'[w] = Idle /\ \A v \in Workers \ {w} : job'[v] = job[v]
      BY <1>10, FinishTyped DEF Decide, TypeInv
    <2>5. t \notin raced \cup touched /\ session'[t].status = "APPROVED" => FileOf(t) = filed[t]
      BY <1>0, <2>1, <2>2, <2>3 DEF Decidable
    <2>6. UNCHANGED <<file, filed, raced, touched>>
      BY <1>10 DEF Decide, history
    <2> QED
      BY <2>1, <2>2, <2>3, <2>4, <2>5, <2>6, MovesSafe DEF FileOf
  <1>11. ASSUME Die(w) PROVE Safe'
    <2>1. job'[w] = Idle /\ \A v \in Workers \ {w} : job'[v] = job[v]
      BY <1>11, FinishTyped DEF Die, TypeInv
    <2>2. UNCHANGED <<session, file, filed, raced, touched>>
      BY <1>11 DEF Die, history
    <2>3. CASE ~At(w, "done")
      <3>1. job[w].op \in Quiet => ~At(w, "decide")
        BY <1>0, <2>3 DEF Quiet, Decision
      <3> QED
        BY <1>0, <2>1, <2>2, <2>3, <3>1, MovesSafe DEF FileOf
    <2>4. CASE At(w, "done")
      BY <2>1, <2>2, <2>4, KycSessionsAssumption
      DEF Safe, Solo, Counts, Matches, At, Idle, FileOf
    <2> QED
      BY <2>3, <2>4
  <1> QED
    BY <1>1, <1>2, <1>3, <1>5, <1>6, <1>7, <1>8, <1>9, <1>10, <1>11 DEF Request

\* The cron expires open sessions and leaves the others alone; so does nobody else who
\* is not a request.
LEMMA NextSafe == TypeInv /\ Safe /\ [Next]_vars => Safe'
  <1> SUFFICES ASSUME TypeInv, Safe, [Next]_vars PROVE Safe'
    OBVIOUS
  <1>1. ASSUME UNCHANGED <<job, filed, raced>>,
               \A s \in Sessions : s \notin touched' => s \notin touched /\ FileOf(s)' = FileOf(s),
               \A s \in Sessions : \/ session'[s].status = session[s].status
                                   \/ /\ session[s].status \in Open \cup {"UNBORN"}
                                      /\ session'[s].status \in {"EXPIRED", "ACTIVE"}
        PROVE  Safe'
    <2>1. Solo' /\ Matches'
      BY <1>1 DEF Safe, Solo, Matches
    <2>2. ASSUME NEW w \in Workers PROVE Counts(w)'
      BY <1>1, <2>2, UnderWay DEF Safe, Counts, At, Writable, Open, Decidable
    <2> QED
      BY <2>1, <2>2 DEF Safe
  <1>2. ASSUME NEW s \in Sessions, Create(s) PROVE Safe'
    BY <1>1, <1>2 DEF Create, Unborn, TypeInv, TypeOK, history, FileOf
  <1>3. CASE ExpireStale
    BY <1>1, <1>3 DEF ExpireStale, Stale, TypeInv, TypeOK, history, FileOf
  <1>4. CASE UNCHANGED <<session, file, job, filed, raced, touched>>
    BY <1>1, <1>4 DEF FileOf
  <1>5. ASSUME NEW c \in Clients, Amend(c) PROVE Safe'
    <2>1. \A d \in Clients \ {c} : file'[d] = file[d]
      BY <1>5, WriteFileTyped DEF Amend, TypeInv
    <2>2. \A s \in Sessions : ClientOf[s] \in Clients
      BY KycSessionsAssumption
    <2> QED
      BY <1>1, <1>5, <2>1, <2>2 DEF Amend, SessionsOf, FileOf
  <1> QED
    BY <1>2, <1>3, <1>4, <1>5, RequestSafe
    DEF Next, Cron, ListExpiring, SkipMarked, Remind, RemindFails, Mark, MarkFails, CronDies,
        Tick, vars, history

\* What was filed stays filed, and a decision to approve read a submitted session.
LEMMA NextFiled == TypeInv /\ Filed /\ [Next]_vars => Filed'
  <1> SUFFICES ASSUME TypeInv, Filed, [Next]_vars PROVE Filed'
    OBVIOUS
  <1>1. ASSUME \A s \in Sessions : filed[s] # NotFiled => filed'[s] # NotFiled,
               \A s \in Sessions : session'[s].status \in {"SUBMITTED", "APPROVED"} =>
                  session[s].status \in {"SUBMITTED", "APPROVED"} \/ filed'[s] # NotFiled,
               \A w \in Workers : At(w, "decide")' /\ job'[w].op = "approve" =>
                  \/ job'[w] = job[w]
                  \/ job'[w].s \in Sessions /\ session[job'[w].s].status = "SUBMITTED"
        PROVE  Filed'
    <2>1. \A w \in Workers : At(w, "decide") => job[w].s \in Sessions
      BY UnderWay DEF At
    <2> QED
      BY <1>1, <2>1 DEF Filed, At
  <1>2. ASSUME UNCHANGED <<job, filed>>,
               \A s \in Sessions : \/ session'[s].status = session[s].status
                                   \/ session'[s].status \in {"EXPIRED", "ACTIVE"}
        PROVE  Filed'
    BY <1>1, <1>2
  <1>3. ASSUME NEW w \in Workers, Finish(w), UNCHANGED filed,
               \A s \in Sessions : \/ session'[s].status = session[s].status
                                   \/ session'[s].status \notin {"SUBMITTED", "APPROVED"}
                                   \/ filed[s] # NotFiled
        PROVE  Filed'
    BY <1>1, <1>3, FinishTyped DEF TypeInv, Idle, At
  <1>4. ASSUME NEW w \in Workers, Request(w) PROVE Filed'
    <2>1. ASSUME NEW s \in Sessions, NEW op \in Ops, NEW at \in Steps, Begin(w, op, s, at),
                 UNCHANGED <<session, filed>>,
                 at = "decide" /\ op = "approve" => session[s].status = "SUBMITTED"
          PROVE  Filed'
      <3>1. /\ job'[w].s = s /\ job'[w].op = op /\ job'[w].at = at
            /\ \A v \in Workers \ {w} : job'[v] = job[v]
        BY <2>1, BeginTyped DEF TypeInv
      <3> QED
        BY <1>1, <2>1, <3>1 DEF At
    <2>2. ASSUME NEW s \in Sessions, NEW op \in ClientOp, StartClient(w, s, op)
          PROVE  Filed'
      <3>1. PICK at \in Steps : Begin(w, op, s, at) /\ at # "decide"
        BY <2>2, AdmittedTo DEF StartClient, Steps
      <3> QED
        BY <2>1, <2>2, <3>1 DEF StartClient, Ops
    <2>3. ASSUME NEW s \in Sessions, NEW op \in Decision, StartDecision(w, s, op)
          PROVE  Filed'
      BY <2>1, <2>3 DEF StartDecision, Steps, Ops, Decidable
    <2>4. CASE Expire(w)
      <3>1. job[w].s \in Sessions
        BY <2>4, UnderWay DEF Expire, At
      <3> QED
        BY <1>3, <2>4, <3>1, SetStatusTyped DEF Expire, Status, TypeInv, history
    <2>5. ASSUME NEW at \in Steps, Reread(w, at), at # "decide", ~At(w, "done")
          PROVE  Filed'
      <3>1. job[w].s \in Sessions
        BY <2>5, UnderWay
      <3>2. /\ \A v \in Workers \ {w} : job'[v] = job[v]
            /\ job'[w].at # "decide"
            /\ UNCHANGED <<session, filed>>
        BY <2>5, <3>1, RereadTyped DEF TypeInv, history, Idle
      <3> QED
        BY <1>1, <3>2 DEF At
    <2>6. CASE RereadToStart(w)
      <3>1. PICK at \in Steps : Reread(w, at) /\ at # "decide"
        BY <2>6, AdmittedTo DEF RereadToStart, Steps
      <3> QED
        BY <2>5, <2>6, <3>1 DEF RereadToStart, At
    <2>7. CASE RereadToSubmit(w)
      <3>1. PICK at \in Steps : Reread(w, at) /\ at # "decide"
        BY <2>7 DEF RereadToSubmit, Steps
      <3> QED
        BY <2>5, <2>7, <3>1 DEF RereadToSubmit, At
    <2>8. CASE MarkStarted(w)
      <3>1. job[w].s \in Sessions
        BY <2>8, UnderWay DEF MarkStarted, At
      <3>2. \A s \in Sessions : session'[s] = session[s] \/ session'[s].status = "IN_PROGRESS"
        BY <2>8, <3>1, SetStatusTyped DEF MarkStarted, Status, TypeInv
      <3>3. CASE Finish(w)
        BY <1>3, <2>8, <3>2, <3>3 DEF MarkStarted, history
      <3>4. CASE Go(w, Admitted(job[w].op, "IN_PROGRESS"))
        <4>1. job \in [Workers -> Job]
          BY JobTyped DEF TypeInv
        <4>2. job'[w].at # "decide" /\ \A v \in Workers \ {w} : job'[v] = job[v]
          BY <3>4, <4>1, AdmittedTo DEF Go, Job
        <4> QED
          BY <1>1, <2>8, <3>2, <4>2 DEF MarkStarted, history, At
      <3> QED
        BY <2>8, <3>3, <3>4 DEF MarkStarted
    <2>9. CASE Write(w)
      BY <1>3, <2>9 DEF Write, history
    <2>10. CASE MarkSubmitted(w)
      <3>1. job[w].s \in Sessions
        BY <2>10, UnderWay DEF MarkSubmitted, At
      <3>2. /\ \A s \in Sessions \ {job[w].s} : session'[s] = session[s] /\ filed'[s] = filed[s]
            /\ filed'[job[w].s] # NotFiled
        <4>1. \A s \in Sessions \ {job[w].s} : session'[s] = session[s]
          BY <2>10, <3>1, SetStatusTyped DEF MarkSubmitted, Status, TypeInv
        <4>2. /\ filed' = [filed EXCEPT ![job[w].s] = file[ClientOf[job[w].s]]]
              /\ file[ClientOf[job[w].s]] \in 0..MaxEdits
              /\ filed \in [Sessions -> 0..MaxEdits \cup {NotFiled}]
          BY <2>10, <3>1, KycSessionsAssumption DEF MarkSubmitted, TypeInv, TypeOK
        <4>3. NotFiled \notin 0..MaxEdits
          BY DEF NotFiled
        <4> QED
          BY <3>1, <4>1, <4>2, <4>3
      <3>3. job'[w] = Idle /\ \A v \in Workers \ {w} : job'[v] = job[v]
        BY <2>10, FinishTyped DEF MarkSubmitted, TypeInv
      <3> QED
        BY <1>1, <3>1, <3>2, <3>3 DEF Idle, At
    <2>11. CASE Decide(w)
      <3>1. job[w].s \in Sessions /\ job[w].op \in Decision
        BY <2>11, UnderWay DEF Decide, At
      <3>2. /\ Decided(job[w].op) \in Status \ {"SUBMITTED"}
            /\ Decided(job[w].op) = "APPROVED" => job[w].op = "approve"
        BY <3>1 DEF Decided, Decision, Status
      <3>3. /\ session'[job[w].s].status = Decided(job[w].op)
            /\ \A s \in Sessions \ {job[w].s} : session'[s] = session[s]
        BY <2>11, <3>1, <3>2, SetStatusTyped DEF Decide, TypeInv
      <3>4. job[w].op = "approve" => filed[job[w].s] # NotFiled
        BY <2>11 DEF Filed, Decide
      <3> QED
        BY <1>3, <2>11, <3>1, <3>2, <3>3, <3>4 DEF Decide, history
    <2>12. CASE Die(w)
      BY <1>3, <2>12 DEF Die, history
    <2> QED
      BY <1>4, <2>2, <2>3, <2>4, <2>6, <2>7, <2>8, <2>9, <2>10, <2>11, <2>12 DEF Request
  <1>5. ASSUME NEW s \in Sessions, Create(s) PROVE Filed'
    BY <1>2, <1>5 DEF Create, Unborn, TypeInv, TypeOK, history
  <1>6. CASE ExpireStale
    BY <1>2, <1>6 DEF ExpireStale, Stale, TypeInv, TypeOK, history
  <1>7. CASE UNCHANGED <<session, job, filed>>
    BY <1>2, <1>7
  <1> QED
    BY <1>4, <1>5, <1>6, <1>7
    DEF Next, Cron, Amend, ListExpiring, SkipMarked, Remind, RemindFails, Mark, MarkFails, CronDies,
        Tick, vars, history

-----------------------------------------------------------------------------
(* The theorems.                                                           *)

Inv == TypeInv /\ Safe /\ Filed

LEMMA Invariance == Spec => []Inv
  <1>1. Init => Inv
    BY InitTyped, SafeInit DEF Inv
  <1>2. Inv /\ [Next]_vars => Inv'
    BY NextTyped, NextSafe, NextFiled DEF Inv
  <1> QED
    BY <1>1, <1>2, PTL DEF Spec

\* However many requests overlap, no session is approved that was never submitted.
THEOREM SubmittedFirst == Spec => []ApprovedWasSubmitted
  <1>1. Inv => ApprovedWasSubmitted
    BY DEF Inv, Filed, ApprovedWasSubmitted
  <1> QED
    BY <1>1, Invariance, PTL

\* On a session where no two requests met, what was approved is what was submitted, but
\* for what the organization or another session of the client wrote since.
THEOREM ApprovalIsOfTheFile == Spec => []ApprovedAsSubmitted
  <1>1. Inv => ApprovedAsSubmitted
    BY DEF Inv, Safe, Matches, FileOf, ApprovedAsSubmitted
  <1> QED
    BY <1>1, Invariance, PTL

\* On a session where no two requests met, approved and revoked are final.
THEOREM ClosedForGood == Spec => ClosedStays
  <1> DEFINE Closed == {"APPROVED", "REVOKED"}
             Kept(s) == session[s].status \in Closed => session'[s].status = session[s].status
  <1>1. ASSUME Inv, [Next]_vars, NEW s \in Sessions \ raced
        PROVE  Kept(s)
    <2>1. ASSUME NEW w \in Workers, ~At(w, "done"), ~At(w, "decide"),
                 NEW status \in Status, SetStatus(job[w].s, status)
          PROVE  Kept(s)
      <3>1. job[w].s \in Sessions
        BY <1>1, <2>1, UnderWay DEF Inv
      <3>2. s = job[w].s => session[s].status \in Writable \cup {"EXPIRED"}
        BY <1>1, <2>1 DEF Inv, Safe, Counts
      <3> QED
        BY <1>1, <2>1, <3>1, <3>2, SetStatusTyped DEF Inv, TypeInv, Writable, Open
    <2>2. ASSUME NEW w \in Workers, Request(w) PROVE Kept(s)
      <3>1. CASE Expire(w)
        BY <2>1, <3>1 DEF Expire, At, Status
      <3>2. CASE MarkStarted(w)
        BY <2>1, <3>2 DEF MarkStarted, At, Status
      <3>3. CASE MarkSubmitted(w)
        BY <2>1, <3>3 DEF MarkSubmitted, At, Status
      <3>4. CASE Decide(w)
        <4>1. job[w].s \in Sessions /\ job[w].op \in Decision
          BY <1>1, <3>4, UnderWay DEF Inv, Decide, At
        <4>2. Decided(job[w].op) \in Status
          BY <4>1 DEF Decided, Decision, Status
        <4>3. s = job[w].s => Decidable(job[w].op, session[s].status)
          BY <1>1, <3>4 DEF Inv, Safe, Counts, Decide
        <4> QED
          BY <1>1, <3>4, <4>1, <4>2, <4>3, SetStatusTyped DEF Inv, TypeInv, Decide, Decidable
      <3>5. CASE UNCHANGED session
        BY <3>5
      <3> QED
        BY <2>2, <3>1, <3>2, <3>3, <3>4, <3>5
        DEF Request, StartClient, StartDecision, RereadToStart, RereadToSubmit, Reread, Write, Die
    <2>3. ASSUME NEW t \in Sessions, Create(t) PROVE Kept(s)
      BY <1>1, <2>3 DEF Create, Unborn, Inv, TypeInv, TypeOK
    <2>4. CASE ExpireStale
      BY <1>1, <2>4 DEF ExpireStale, Stale, Open
    <2>5. CASE UNCHANGED session
      BY <2>5
    <2> QED
      BY <1>1, <2>2, <2>3, <2>4, <2>5
      DEF Next, Cron, Amend, ListExpiring, SkipMarked, Remind, RemindFails, Mark, MarkFails, CronDies,
          Tick, vars
  <1>2. Inv /\ [Next]_vars =>
          [\A s \in Sessions \ raced :
             session[s].status \in {"APPROVED", "REVOKED"}
               => session'[s].status = session[s].status]_session
    BY <1>1
  <1> QED
    BY <1>2, Invariance, PTL DEF Spec, ClosedStays

-----------------------------------------------------------------------------
(* Reminders, when their mark outlives the window they look ahead.         *)

Fits == Window <= KeptFor

\* Whoever is left to be reminded expires within the window; whoever was reminded is
\* marked until it has expired.
Marks ==
    /\ \A s \in cron.left :
         Exists(s) /\ clock < session[s].expires /\ session[s].expires <= clock + Window
    /\ cron.at = "mark" => cron.s \in cron.left /\ cron.s \notin reminded
    /\ cron.at \in {"idle", "list"} => cron.left = {}
    /\ \A s \in reminded : Exists(s) /\ session[s].expires <= marked[s]

LEMMA InitMarks == Init => Marks
  BY DEF Init, Marks, NoCron

\* A request leaves alone when a session expires, the cron, and the reminders.
LEMMA RequestKeeps ==
    ASSUME TypeInv, NEW w \in Workers, Request(w)
    PROVE  /\ UNCHANGED <<clock, cron, marked, reminded>>
           /\ \A s \in Sessions :
                (Exists(s) => Exists(s)') /\ session'[s].expires = session[s].expires
  <1>1. ASSUME NEW status \in Status, ~At(w, "done"), SetStatus(job[w].s, status)
        PROVE  \A s \in Sessions :
                 (Exists(s) => Exists(s)') /\ session'[s].expires = session[s].expires
    <2>1. job[w].s \in Sessions
      BY <1>1, UnderWay
    <2> QED
      BY <1>1, <2>1, SetStatusTyped DEF TypeInv
  <1>2. CASE Expire(w)
    BY <1>1, <1>2 DEF Expire, At, Status, history
  <1>3. CASE MarkStarted(w)
    BY <1>1, <1>3 DEF MarkStarted, At, Status, history
  <1>4. CASE MarkSubmitted(w)
    BY <1>1, <1>4 DEF MarkSubmitted, At, Status
  <1>5. CASE Decide(w)
    <2>1. job[w].op \in Decision
      BY <1>5, UnderWay DEF Decide, At
    <2>2. Decided(job[w].op) \in Status
      BY <2>1 DEF Decided, Decision, Status
    <2> QED
      BY <1>1, <1>5, <2>2 DEF Decide, At, history
  <1>6. CASE UNCHANGED <<clock, session, cron, marked, reminded>>
    BY <1>6 DEF Exists
  <1> QED
    BY <1>2, <1>3, <1>4, <1>5, <1>6
    DEF Request, StartClient, StartDecision, RereadToStart, RereadToSubmit, Reread, Write,
        Die, history

LEMMA NextMarks ==
    ASSUME Fits, TypeInv, Marks, [Next]_vars
    PROVE  Marks'
  <1>1. ASSUME \A s \in Sessions : Exists(s) =>
                  Exists(s)' /\ session'[s].expires = session[s].expires
        PROVE  \A s \in Sessions : s \in cron.left \/ s \in reminded =>
                  Exists(s)' /\ session'[s].expires = session[s].expires
    BY <1>1 DEF Marks
  <1>2. cron.left \subseteq Sessions /\ reminded \subseteq Sessions
    BY DEF TypeInv, TypeOK
  <1>3. ASSUME \A s \in Sessions : Exists(s) =>
                  Exists(s)' /\ session'[s].expires = session[s].expires,
               UNCHANGED <<clock, cron, marked, reminded>>
        PROVE  Marks'
    BY <1>1, <1>2, <1>3 DEF Marks
  <1>4. ASSUME NEW w \in Workers, Request(w) PROVE Marks'
    BY <1>3, <1>4, RequestKeeps
  <1>5. ASSUME NEW s \in Sessions, Create(s) PROVE Marks'
    <2>1. \A t \in Sessions : Exists(t) => Exists(t)' /\ session'[t].expires = session[t].expires
      BY <1>5 DEF Create, Exists, Unborn, Status, TypeInv, TypeOK
    <2> QED
      BY <1>3, <1>5, <2>1 DEF Create, history
  <1>6. CASE ExpireStale
    <2>1. cron'.left = cron.left /\ cron.at = "idle" /\ cron'.at = "list"
      BY <1>6 DEF ExpireStale, TypeInv, TypeOK
    <2>2. \A t \in Sessions : Exists(t) => Exists(t)' /\ session'[t].expires = session[t].expires
      BY <1>6 DEF ExpireStale, Exists, Status, TypeInv, TypeOK
    <2>3. UNCHANGED <<clock, marked, reminded>>
      BY <1>6 DEF ExpireStale, history
    <2> QED
      BY <1>1, <1>2, <2>1, <2>2, <2>3 DEF Marks
  <1>7. CASE ListExpiring
    <2>1. /\ cron'.at # "mark" /\ cron.at # "mark"
          /\ cron'.left = {s \in Sessions : Expiring(s)}
          /\ cron'.at \in {"idle", "list"} => cron'.left = {}
      BY <1>7 DEF ListExpiring, TypeInv, TypeOK, NoCron
    <2>2. \A s \in cron'.left : Exists(s) /\ clock < session[s].expires
                                /\ session[s].expires <= clock + Window
      BY <2>1 DEF Expiring, Exists, Open, Status
    <2>3. UNCHANGED <<clock, session, marked, reminded>>
      BY <1>7 DEF ListExpiring, history
    <2> QED
      BY <2>1, <2>2, <2>3 DEF Marks, Exists
  <1>8. ASSUME NEW s, CronGoesOn(s), UNCHANGED <<clock, session>>,
               \A t \in reminded' : Exists(t) /\ session[t].expires <= marked'[t]
        PROVE  Marks'
    <2>1. /\ cron'.at # "mark" /\ cron'.left \subseteq cron.left
          /\ cron'.at \in {"idle", "list"} => cron'.left = {}
      BY <1>8 DEF CronGoesOn, NoCron
    <2> QED
      BY <1>8, <2>1 DEF Marks, Exists
  <1>9. ASSUME NEW s \in Sessions, SkipMarked(s) \/ RemindFails(s) PROVE Marks'
    BY <1>8, <1>9 DEF SkipMarked, RemindFails, history, Marks
  <1>10. ASSUME NEW s \in Sessions, Remind(s) PROVE Marks'
    <2>1. /\ cron'.at = "mark" /\ cron'.s = s /\ cron'.left = cron.left
          /\ UNCHANGED <<clock, session, marked, reminded>>
      BY <1>10 DEF Remind, TypeInv, TypeOK, history
    <2>2. s \notin reminded
      <3>1. /\ marked[s] \in Nat /\ session[s].expires \in Nat /\ clock \in Nat
        BY KycSessionsAssumption DEF TypeInv, TypeOK
      <3> QED
        BY <1>10, <3>1 DEF Remind, Marks
    <2>3. s \in cron.left
      BY <1>10 DEF Remind
    <2> QED
      BY <2>1, <2>2, <2>3 DEF Marks, Exists
  <1>11. CASE Mark
    <2>1. marked'[cron.s] = clock + KeptFor
          /\ \A t \in Sessions \ {cron.s} : marked'[t] = marked[t]
      BY <1>11 DEF Mark, TypeInv, TypeOK, Bound
    <2>2. session[cron.s].expires <= clock + KeptFor /\ Exists(cron.s)
      <3>1. /\ session[cron.s].expires \in Nat /\ clock \in Nat /\ Window \in Nat
            /\ KeptFor \in Nat
        BY <1>11, KycSessionsAssumption DEF Mark, TypeInv, TypeOK, Bound
      <3>2. session[cron.s].expires <= clock + Window /\ Exists(cron.s)
        BY <1>11 DEF Mark, Marks
      <3> QED
        BY <3>1, <3>2 DEF Fits
    <2>3. reminded' = reminded \cup {cron.s}
      BY <1>11 DEF Mark
    <2>4. \A t \in reminded' : Exists(t) /\ session[t].expires <= marked'[t]
      BY <1>2, <2>1, <2>2, <2>3 DEF Marks
    <2> QED
      BY <1>8, <1>11, <2>4 DEF Mark
  <1>12. CASE MarkFails
    BY <1>8, <1>12 DEF MarkFails, Marks, history
  <1>13. CASE CronDies
    <2>1. cron'.at # "mark" /\ cron'.left = {} /\ UNCHANGED <<clock, session, marked, reminded>>
      BY <1>13 DEF CronDies, NoCron, history
    <2> QED
      BY <2>1 DEF Marks, Exists
  <1>14. CASE Tick
    <2>1. cron.left = {}
      BY <1>14 DEF Tick, Marks
    <2> QED
      BY <1>14, <2>1 DEF Tick, Marks, Exists, history
  <1>15. CASE UNCHANGED vars
    BY <1>15 DEF vars, Marks, Exists
  <1>16. ASSUME NEW c \in Clients, Amend(c) PROVE Marks'
    BY <1>16 DEF Amend, Marks, Exists
  <1> QED
    BY <1>16, <1>4, <1>5, <1>6, <1>7, <1>9, <1>10, <1>11, <1>12, <1>13, <1>14, <1>15 DEF Next, Cron

\* If the mark of a reminder is kept at least as long as the reminders look ahead, no
\* session the organization was reminded of, with the mark left, is one it is reminded of
\* again.
THEOREM RemindsOnce == Fits /\ Spec => []RemindedOnce
  <1> SUFFICES ASSUME Fits PROVE Spec => []RemindedOnce
    OBVIOUS
  <1>1. Init => TypeInv /\ Marks
    BY InitTyped, InitMarks
  <1>2. (TypeInv /\ Marks) /\ [Next]_vars => (TypeInv /\ Marks)'
    BY NextTyped, NextMarks
  <1>3. Marks => RemindedOnce
    BY DEF Marks, RemindedOnce
  <1> QED
    BY <1>1, <1>2, <1>3, PTL DEF Spec
=============================================================================
