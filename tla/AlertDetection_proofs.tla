------------------------ MODULE AlertDetection_proofs ------------------------
(***************************************************************************)
(* Theorems about AlertDetection for all operations, seekers, consumers    *)
(* and bounds: what is to be reported has its alert once the jobs are      *)
(* done, and is told, whichever of them came back, raced or died.          *)
(***************************************************************************)
EXTENDS AlertDetection, SequenceTheorems, FiniteSetTheorems, WellFoundedInduction, TLAPS

Running == {"look", "insert", "tell"}
Row == [id: Operations, amount: Amounts, date: Dates]
JobRecord == [m: Jobs \cup {NoJob}, n: Nat, at: {"idle", "read"} \cup Running, read: Seq(Row),
              seeker: Nat, attempt: Nat, day: Nat]

Shapes ==
    /\ operations \in Seq(Row)
    /\ queue \subseteq [m: Jobs, n: 0..(MaxDeliveries - 1)]
    /\ job \in [Workers -> JobRecord]
    /\ givenUp \subseteq Jobs
    /\ now \in Nat /\ since \in Nat

\* An operation is entered once.
Distinct ==
    \A i, k \in DOMAIN operations : operations[i].id = operations[k].id => i = k

Known(m) == m = Refresh \/ m \in Entered

\* A job that names an operation finds it in what it reads.
Names(read, m) == m = Refresh \/ \E i \in DOMAIN read : read[i].id = m

\* What a consumer holds: rows that are still there, and a seeker that triggered over them.
Holds(w) ==
    LET j == job[w] IN
    /\ \A i \in DOMAIN j.read : i \in DOMAIN operations /\ j.read[i] = operations[i]
    /\ j.at = "idle" => j = Idle
    /\ j.at # "idle" => Known(j.m) /\ j.m \in Jobs /\ j.n \in 1..MaxDeliveries
    /\ j.at = "read" => j.seeker = 0
    /\ j.at \in Running => /\ j.seeker \in DOMAIN Registered
                           /\ matchedOperations(Registered[j.seeker], j.read, j.m, j.day) # {}
                           /\ Names(j.read, j.m)

\* Whatever made an alert ran a seeker over operations that were entered.
Found(a) == a.seeker \in ToSet(Registered) /\ a.ids \subseteq Entered

TypeInv ==
    /\ Shapes /\ Distinct
    /\ \A q \in queue : Known(q.m)
    /\ \A w \in Workers : Holds(w)

FoundInv == \A a \in alerts \cup told : Found(a)

\* Consumer w has yet to come to the seeker at k, or is about to create its alert.
Yet(w, k) ==
    \/ job[w].at \in Running /\ job[w].seeker < k
    \/ job[w].at \in {"look", "insert"} /\ job[w].seeker = k

\* The seekers that report an operation by itself ...
Single == {"operation_amount_uma", "pep_or_high_risk"}

Reported(s, i) ==
    IF s = "operation_amount_uma" THEN Reaches(operations[i].amount, Threshold)
    ELSE isPep \/ isHighRisk

\* ... are run by the job of that operation.
OwnJob(k, i) ==
    \/ \E q \in queue : q.m = operations[i].id
    \/ \E w \in Workers :
         /\ job[w].m = operations[i].id
         /\ At(w, "read") \/ (i \in DOMAIN job[w].read /\ Yet(w, k))

OwnInv ==
    \A i \in DOMAIN operations, k \in DOMAIN Registered :
        Registered[k] \in Single /\ Reported(Registered[k], i) =>
            \/ [seeker |-> Registered[k], week |-> 0, ids |-> {operations[i].id}] \in alerts
            \/ operations[i].id \in givenUp
            \/ OwnJob(k, i)

\* The seekers that report operations together are run by whatever job reads the table last.
Together == {"aggregate_amount_uma", "frequent_operations", "multiple_cards_requests",
             "structuring_detection"}

LastJob(k) ==
    \/ queue # {}
    \/ \E w \in Workers : At(w, "read") \/ (job[w].read = operations /\ Yet(w, k))

\* On a day since the last operation was entered, the seeker at k shows nothing or has its
\* alert.
Seen(k) ==
    \E day \in since..now :
        LET matched == matchedOperations(Registered[k], operations, Refresh, day)
        IN  matched # {} => KeyOf(Registered[k], operations, matched, day) \in alerts

TogetherInv ==
    \A k \in DOMAIN Registered :
        Registered[k] \in Together /\ operations # <<>> =>
            Seen(k) \/ givenUp # {} \/ LastJob(k)

\* A seeker that runs over all of the operations was begun since the last one was entered.
DayInv ==
    /\ since <= now
    /\ \A w \in Workers :
         job[w].at \in Running =>
             /\ job[w].day <= now
             /\ job[w].read = operations => since <= job[w].day

\* The jobs that report operation i by itself: its own, and a change of the client if it is
\* the first that reaches the threshold.
Reports(m, i) ==
    /\ Reaches(operations[i].amount, Threshold)
    /\ \/ m = operations[i].id
       \/ m = Refresh /\ \A h \in 1..(i - 1) : ~Reaches(operations[h].amount, Threshold)

Telling(i) ==
    \/ \E q \in queue : Reports(q.m, i)
    \/ \E w \in Workers :
         /\ Reports(job[w].m, i)
         /\ \/ At(w, "read")
            \/ /\ i \in DOMAIN job[w].read /\ job[w].at \in Running
               /\ \E k \in DOMAIN Registered :
                    Registered[k] = "operation_amount_uma" /\ job[w].seeker <= k

ToldInv ==
    \A i \in DOMAIN operations :
        LET a == AlertOf(operations[i].id) IN
        a \in alerts => a \in told \/ givenUp # {} \/ Telling(i)

-----------------------------------------------------------------------------
(* Numbers and rows.                                                       *)

LEMMA LeastNatural ==
    ASSUME NEW T, T \subseteq Nat, T # {}
    PROVE  \E x \in T : \A y \in T : x <= y
  <1> DEFINE R == {ss \in Nat \X Nat : ss[1] < ss[2]}
  <1>1. IsWellFoundedOn(R, Nat)
    BY NatLessThanWellFounded DEF OpToRel
  <1> HIDE DEF R
  <1>2. PICK x \in T : \A y \in T : <<y, x>> \notin R
    BY <1>1, WFMin
  <1>3. ASSUME NEW y \in T
        PROVE  x <= y
    <2>1. x \in Nat /\ y \in Nat /\ <<y, x>> \notin R
      BY <1>2, <1>3
    <2>2. ~(y < x)
      BY <2>1 DEF R
    <2> QED
      BY <2>1, <2>2
  <1> QED
    BY <1>3

LEMMA MinIs ==
    ASSUME NEW T, T \subseteq Nat, T # {}
    PROVE  Min(T) \in T /\ \A y \in T : Min(T) <= y
  BY LeastNatural DEF Min

LEMMA Lengths ==
    ASSUME Shapes
    PROVE  /\ Len(operations) \in Nat /\ DOMAIN operations = 1..Len(operations)
           /\ \A i \in DOMAIN operations : operations[i] \in Row /\ operations[i].id \in Operations
           /\ Len(Registered) \in Nat /\ DOMAIN Registered = 1..Len(Registered)
           /\ \A k \in DOMAIN Registered : Registered[k] \in SeekerType
           /\ \A w \in Workers : /\ job[w] \in JobRecord /\ job[w].read \in Seq(Row)
                                 /\ Len(job[w].read) \in Nat
                                 /\ DOMAIN job[w].read = 1..Len(job[w].read)
                                 /\ \A i \in DOMAIN job[w].read : job[w].read[i] \in Row
  <1>1. \A S, s : s \in Seq(S) => /\ Len(s) \in Nat /\ DOMAIN s = 1..Len(s)
                                 /\ \A i \in DOMAIN s : s[i] \in S
    BY LenProperties, ElementOfSeq
  <1>2. operations \in Seq(Row) /\ Registered \in Seq(SeekerType)
    BY AlertDetectionAssumption DEF Shapes
  <1>3. \A w \in Workers : job[w] \in JobRecord /\ job[w].read \in Seq(Row)
    BY DEF Shapes, JobRecord
  <1>4. \A i \in DOMAIN operations : operations[i] \in Row /\ operations[i].id \in Operations
    <2>1. \A i \in DOMAIN operations : operations[i] \in Row
      BY <1>1, <1>2
    <2>2. \A r \in Row : r.id \in Operations
      BY DEF Row
    <2> QED
      BY <2>1, <2>2
  <1> QED
    BY <1>1, <1>2, <1>3, <1>4

\* A new row leaves the others where they are.
LEMMA NewRow ==
    ASSUME Shapes, NEW r \in Row, operations' = Append(operations, r)
    PROVE  \E n \in Nat : /\ n = Len(operations) + 1 /\ Len(operations') = n
                          /\ operations' \in Seq(Row) /\ DOMAIN operations' = 1..n
                          /\ operations'[n] = r /\ n \in DOMAIN operations'
                          /\ n \notin DOMAIN operations
                          /\ \A i \in DOMAIN operations' : i # n => i \in DOMAIN operations
                          /\ \A i \in DOMAIN operations :
                               i \in DOMAIN operations' /\ operations'[i] = operations[i]
  <1>1. operations \in Seq(Row) /\ Len(operations) \in Nat /\ DOMAIN operations = 1..Len(operations)
    BY Lengths DEF Shapes
  <1>2. PICK n \in Nat : n = Len(operations) + 1
    BY <1>1
  <1>3. /\ Append(operations, r) \in Seq(Row) /\ Len(Append(operations, r)) = Len(operations) + 1
        /\ \A i \in 1..Len(operations) : Append(operations, r)[i] = operations[i]
        /\ Append(operations, r)[Len(operations) + 1] = r
    BY <1>1, AppendProperties
  <1>4. /\ operations' \in Seq(Row) /\ Len(operations') = n /\ operations'[n] = r
        /\ \A i \in DOMAIN operations : operations'[i] = operations[i]
    BY <1>1, <1>2, <1>3
  <1>5. DOMAIN operations' = 1..n
    BY <1>4, LenProperties
  <1>6. /\ n \in 1..n /\ n \notin 1..Len(operations) /\ 1..Len(operations) \subseteq 1..n
        /\ \A i \in 1..n : i # n => i \in 1..Len(operations)
    BY <1>1, <1>2
  <1>7. \A i \in DOMAIN operations : i \in DOMAIN operations' /\ operations'[i] = operations[i]
    BY <1>1, <1>4, <1>5, <1>6
  <1>8. \A i \in DOMAIN operations' : i # n => i \in DOMAIN operations
    BY <1>1, <1>5, <1>6
  <1>9. n \in DOMAIN operations' /\ n \notin DOMAIN operations
    BY <1>1, <1>5, <1>6
  <1> QED
    BY <1>2, <1>4, <1>5, <1>7, <1>8, <1>9

LEMMA IdleTyped == Idle \in JobRecord /\ Idle.at = "idle" /\ Idle.m = NoJob /\ Idle.read = <<>>
                   /\ DOMAIN Idle.read = {}
  <1>1. <<>> \in Seq(Row) /\ DOMAIN <<>> = {}
    BY EmptySeq
  <1> QED
    BY <1>1 DEF Idle, JobRecord

\* The next seeker is the first that triggers after the last.
LEMMA NextSeekerIs ==
    ASSUME NEW j \in JobRecord, now \in Nat
    PROVE  /\ NextSeeker(j) \in JobRecord
           /\ \/ NextSeeker(j) = Idle
              \/ /\ NextSeeker(j).at = "look" /\ NextSeeker(j).m = j.m /\ NextSeeker(j).n = j.n
                 /\ NextSeeker(j).day = now
                 /\ NextSeeker(j).read = j.read /\ NextSeeker(j).seeker \in DOMAIN Registered
                 /\ matchedOperations(Registered[NextSeeker(j).seeker], j.read, j.m, now) # {}
           /\ \A k \in DOMAIN Registered :
                j.seeker < k /\ matchedOperations(Registered[k], j.read, j.m, now) # {} =>
                  /\ NextSeeker(j).at = "look" /\ NextSeeker(j).seeker <= k
                  /\ NextSeeker(j).m = j.m /\ NextSeeker(j).read = j.read
  <1> DEFINE T == {k \in (j.seeker + 1)..Len(Registered) :
                        matchedOperations(Registered[k], j.read, j.m, now) # {}}
             q == [j EXCEPT !.seeker = Min(T), !.at = "look", !.attempt = 1,
                   !.day = now]
  <1>1. /\ j.seeker \in Nat /\ Len(Registered) \in Nat /\ DOMAIN Registered = 1..Len(Registered)
    BY AlertDetectionAssumption, LenProperties DEF JobRecord
  <1>2. T \subseteq Nat /\ T \subseteq DOMAIN Registered
    BY <1>1
  <1>3. \A k \in DOMAIN Registered :
          j.seeker < k /\ matchedOperations(Registered[k], j.read, j.m, now) # {} => k \in T
    BY <1>1
  <1>4. \A k \in T : matchedOperations(Registered[k], j.read, j.m, now) # {}
    OBVIOUS
  <1>5. NextSeeker(j) = IF T = {} THEN Idle ELSE q
    BY DEF NextSeeker
  <1> HIDE DEF T
  <1>6. CASE T = {}
    BY <1>3, <1>5, <1>6, IdleTyped
  <1>7. CASE T # {}
    <2>1. PICK s \in Nat : s = Min(T) /\ s \in T /\ \A y \in T : s <= y
      BY <1>2, <1>7, MinIs
    <2>2. /\ q \in JobRecord /\ q.at = "look" /\ q.seeker = s /\ q.m = j.m /\ q.n = j.n
          /\ q.read = j.read /\ q.day = now
      BY <2>1 DEF JobRecord, Running
    <2>3. NextSeeker(j) = q
      BY <1>5, <1>7
    <2> HIDE DEF q
    <2> QED
      BY <1>2, <1>3, <1>4, <2>1, <2>2, <2>3
  <1> QED
    BY <1>6, <1>7

-----------------------------------------------------------------------------
(* What the steps do.                                                      *)

LEMMA SetAt ==
    ASSUME Shapes, NEW w \in Workers, NEW at \in Running, job' = [job EXCEPT ![w].at = at]
    PROVE  /\ job' \in [Workers -> JobRecord] /\ \A k \in Workers \ {w} : job'[k] = job[k]
           /\ job'[w].at = at /\ job'[w].m = job[w].m /\ job'[w].n = job[w].n
           /\ job'[w].read = job[w].read /\ job'[w].seeker = job[w].seeker
           /\ job'[w].day = job[w].day
  <1>1. ASSUME NEW r \in JobRecord
        PROVE  LET q == [r EXCEPT !.at = at] IN
               /\ q \in JobRecord /\ q.at = at /\ q.m = r.m /\ q.n = r.n /\ q.read = r.read
               /\ q.seeker = r.seeker /\ q.day = r.day
    BY DEF JobRecord, Running
  <1> QED
    BY <1>1 DEF Shapes

LEMMA GoOnEffect ==
    ASSUME Shapes, NEW w \in Workers, GoOn(w)
    PROVE  /\ job' \in [Workers -> JobRecord] /\ \A k \in Workers \ {w} : job'[k] = job[k]
           /\ job'[w] = NextSeeker(job[w])
  <1>1. NextSeeker(job[w]) \in JobRecord
    BY NextSeekerIs DEF Shapes
  <1> QED
    BY <1>1 DEF GoOn, Shapes

LEMMA AttemptFailsEffect ==
    ASSUME Shapes, NEW w \in Workers, AttemptFails(w)
    PROVE  /\ job' \in [Workers -> JobRecord] /\ \A k \in Workers \ {w} : job'[k] = job[k]
           /\ \/ /\ job'[w].at = "look" /\ job'[w].m = job[w].m /\ job'[w].n = job[w].n
                 /\ job'[w].read = job[w].read /\ job'[w].seeker = job[w].seeker
                 /\ job'[w].day = job[w].day /\ givenUp' = givenUp
              \/ job'[w] = NextSeeker(job[w]) /\ givenUp' = givenUp \cup {job[w].m}
  <1>1. CASE /\ job' = [job EXCEPT ![w].at = "look", ![w].attempt = @ + 1]
             /\ UNCHANGED givenUp
    <2>1. job[w] \in JobRecord /\ job[w].attempt \in Nat
      BY DEF Shapes, JobRecord
    <2>2. PICK n \in Nat : n = job[w].attempt + 1
      BY <2>1
    <2>3. job' = [job EXCEPT ![w] = [job[w] EXCEPT !.at = "look", !.attempt = n]]
      BY <1>1, <2>2 DEF Shapes
    <2>4. ASSUME NEW r \in JobRecord
          PROVE  LET q == [r EXCEPT !.at = "look", !.attempt = n] IN
                 /\ q \in JobRecord /\ q.at = "look" /\ q.m = r.m /\ q.n = r.n /\ q.read = r.read
                 /\ q.seeker = r.seeker /\ q.day = r.day
      BY DEF JobRecord, Running
    <2> QED
      BY <1>1, <2>1, <2>3, <2>4 DEF Shapes
  <1>2. CASE GoOn(w) /\ givenUp' = givenUp \cup {job[w].m}
    BY <1>2, GoOnEffect
  <1> QED
    BY <1>1, <1>2 DEF AttemptFails

\* A consumer that runs a seeker stays at it, gives up, or tells and goes on.
RunStep(w) == LookForAlert(w) \/ InsertAlert(w) \/ TellOrganization(w)

Stays(w) ==
    /\ job[w].at \in {"look", "insert"} /\ job'[w].at \in Running
    /\ job'[w].m = job[w].m /\ job'[w].n = job[w].n /\ job'[w].read = job[w].read
    /\ job'[w].seeker = job[w].seeker /\ job'[w].day = job[w].day
    /\ job'[w].at = "tell" => Key(w) \in alerts'

LEMMA RunEffect ==
    ASSUME Shapes, NEW w \in Workers, RunStep(w)
    PROVE  /\ job[w].at \in Running /\ UNCHANGED <<operations, queue, changes, now, since>>
           /\ job' \in [Workers -> JobRecord] /\ \A k \in Workers \ {w} : job'[k] = job[k]
           /\ alerts \subseteq alerts' /\ alerts' \subseteq alerts \cup {Key(w)}
           /\ \/ Stays(w) /\ givenUp' = givenUp /\ told' = told
              \/ /\ job'[w] = NextSeeker(job[w]) /\ givenUp' = givenUp \cup {job[w].m}
                 /\ told' = told
              \/ /\ job[w].at = "tell" /\ job'[w] = NextSeeker(job[w]) /\ givenUp' = givenUp
                 /\ told' = told \cup {Key(w)}
  <1> DEFINE Gone == /\ job'[w] = NextSeeker(job[w]) /\ givenUp' = givenUp \cup {job[w].m}
             Shaped == /\ job' \in [Workers -> JobRecord]
                       /\ \A k \in Workers \ {w} : job'[k] = job[k]
  <1>1. CASE LookForAlert(w)
    <2>1. /\ job[w].at = "look" /\ alerts' = alerts /\ told' = told
          /\ UNCHANGED <<operations, queue, changes, now, since>>
          /\ \/ /\ job' = [job EXCEPT ![w].at = IF Key(w) \in alerts THEN "tell" ELSE "insert"]
                /\ UNCHANGED givenUp
             \/ AttemptFails(w)
      BY <1>1 DEF LookForAlert, At
    <2>2. CASE /\ job' = [job EXCEPT ![w].at = IF Key(w) \in alerts THEN "tell" ELSE "insert"]
               /\ UNCHANGED givenUp
      <3>1. PICK at \in Running : /\ at = IF Key(w) \in alerts THEN "tell" ELSE "insert"
                                  /\ at = "tell" => Key(w) \in alerts'
        BY <2>1 DEF Running
      <3>2. Shaped /\ job'[w].at = at /\ job'[w].m = job[w].m /\ job'[w].n = job[w].n
            /\ job'[w].read = job[w].read /\ job'[w].seeker = job[w].seeker
            /\ job'[w].day = job[w].day
        BY <2>2, <3>1, SetAt
      <3> QED
        BY <2>1, <2>2, <3>1, <3>2 DEF Stays, Running
    <2>3. CASE AttemptFails(w)
      BY <2>1, <2>3, AttemptFailsEffect DEF Stays, Running
    <2> QED
      BY <2>1, <2>2, <2>3
  <1>2. CASE InsertAlert(w)
    <2>1. /\ job[w].at = "insert" /\ told' = told
          /\ UNCHANGED <<operations, queue, changes, now, since>>
          /\ alerts \subseteq alerts' /\ alerts' \subseteq alerts \cup {Key(w)}
          /\ \/ /\ alerts' = alerts \cup {Key(w)} /\ job' = [job EXCEPT ![w].at = "tell"]
                /\ UNCHANGED givenUp
             \/ AttemptFails(w)
      BY <1>2 DEF InsertAlert, At
    <2>2. CASE /\ alerts' = alerts \cup {Key(w)} /\ job' = [job EXCEPT ![w].at = "tell"]
               /\ UNCHANGED givenUp
      <3>1. Shaped /\ job'[w].at = "tell" /\ job'[w].m = job[w].m /\ job'[w].n = job[w].n
            /\ job'[w].read = job[w].read /\ job'[w].seeker = job[w].seeker
            /\ job'[w].day = job[w].day
        BY <2>2, SetAt DEF Running
      <3> QED
        BY <2>1, <2>2, <3>1 DEF Stays, Running
    <2>3. CASE AttemptFails(w)
      BY <2>1, <2>3, AttemptFailsEffect DEF Stays, Running
    <2> QED
      BY <2>1, <2>2, <2>3
  <1>3. CASE TellOrganization(w)
    BY <1>3, GoOnEffect DEF TellOrganization, At, Running
  <1> QED
    BY <1>1, <1>2, <1>3 DEF RunStep

LEMMA ReadEffect ==
    ASSUME TypeInv, NEW w \in Workers, ReadOperations(w)
    PROVE  /\ At(w, "read") /\ UNCHANGED <<operations, queue, alerts, told, givenUp, now, since>>
           /\ job' \in [Workers -> JobRecord] /\ \A k \in Workers \ {w} : job'[k] = job[k]
           /\ \E j \in JobRecord : /\ job'[w] = NextSeeker(j) /\ j.m = job[w].m /\ j.n = job[w].n
                                   /\ j.read = operations /\ j.seeker = 0
  <1> DEFINE j == [job[w] EXCEPT !.read = operations]
  <1>1. /\ job[w].at = "read" /\ UNCHANGED <<operations, queue, alerts, told, givenUp, now, since>>
        /\ job' = [job EXCEPT ![w] = NextSeeker(j)] /\ At(w, "read")
    BY DEF ReadOperations, At, TypeInv, Shapes
  <1>2. job[w] \in JobRecord /\ operations \in Seq(Row) /\ job[w].seeker = 0
    BY <1>1 DEF TypeInv, Shapes, Holds
  <1>3. j \in JobRecord /\ j.m = job[w].m /\ j.n = job[w].n /\ j.read = operations /\ j.seeker = 0
    BY <1>2 DEF JobRecord
  <1> HIDE DEF j
  <1>4. NextSeeker(j) \in JobRecord
    BY <1>3, NextSeekerIs DEF TypeInv, Shapes
  <1> QED
    BY <1>1, <1>3, <1>4 DEF TypeInv, Shapes

LEMMA DeliverEffect ==
    ASSUME TypeInv, NEW w \in Workers, NEW m \in Jobs, Deliver(w, m)
    PROVE  /\ job[w] = Idle /\ UNCHANGED <<operations, alerts, told, givenUp, now, since>>
           /\ job' \in [Workers -> JobRecord] /\ \A k \in Workers \ {w} : job'[k] = job[k]
           /\ job'[w].m = m /\ job'[w].at = "read" /\ job'[w].seeker = 0 /\ job'[w].n \in 1..MaxDeliveries
           /\ DOMAIN job'[w].read = {} /\ Known(m)
           /\ queue' \subseteq [m: Jobs, n: 0..(MaxDeliveries - 1)]
           /\ \A q \in queue' : q \in queue \/ q.m = m
           /\ \A q \in queue : q \in queue' \/ q.m = m
  <1>1. PICK q \in queue :
          /\ q.m = m
          /\ \/ queue' = queue \ {q}
             \/ /\ q.n + 1 < MaxDeliveries
                /\ queue' = (queue \ {q}) \cup {[q EXCEPT !.n = @ + 1]}
          /\ job' = [job EXCEPT ![w] = [Idle EXCEPT !.m = m, !.n = q.n + 1, !.at = "read"]]
    BY DEF Deliver
  <1>2. /\ job[w].at = "idle" /\ UNCHANGED <<operations, alerts, told, givenUp, now, since>>
        /\ MaxDeliveries \in Nat \ {0}
    BY AlertDetectionAssumption DEF Deliver, At
  <1>3. /\ job[w] = Idle /\ Known(m) /\ q \in [m: Jobs, n: 0..(MaxDeliveries - 1)]
        /\ queue \subseteq [m: Jobs, n: 0..(MaxDeliveries - 1)]
    BY <1>1, <1>2 DEF TypeInv, Shapes, Holds
  <1>4. PICK n \in Nat : n = q.n + 1 /\ n \in 1..MaxDeliveries
    BY <1>2, <1>3
  <1> DEFINE j == [Idle EXCEPT !.m = m, !.n = n, !.at = "read"]
             r == [q EXCEPT !.n = n]
  <1>5. /\ j \in JobRecord /\ j.m = m /\ j.at = "read" /\ j.seeker = 0 /\ j.n = n
        /\ DOMAIN j.read = {}
    <2>1. <<>> \in Seq(Row) /\ DOMAIN <<>> = {}
      BY EmptySeq
    <2> QED
      BY <2>1 DEF Idle, JobRecord
  <1>6. job' = [job EXCEPT ![w] = j]
    BY <1>1, <1>4
  <1>7. n < MaxDeliveries => r \in [m: Jobs, n: 0..(MaxDeliveries - 1)] /\ r.m = m
    BY <1>1, <1>2, <1>3, <1>4
  <1>8. queue' = queue \ {q} \/ (n < MaxDeliveries /\ queue' = (queue \ {q}) \cup {r})
    BY <1>1, <1>3, <1>4
  <1> HIDE DEF j, r
  <1>9. /\ job' \in [Workers -> JobRecord] /\ \A k \in Workers \ {w} : job'[k] = job[k]
        /\ job'[w] = j
    BY <1>5, <1>6 DEF TypeInv, Shapes
  <1>10. /\ queue' \subseteq [m: Jobs, n: 0..(MaxDeliveries - 1)]
         /\ \A x \in queue' : x \in queue \/ x.m = m
         /\ \A x \in queue : x \in queue' \/ x.m = m
    BY <1>1, <1>3, <1>7, <1>8
  <1> QED
    BY <1>2, <1>3, <1>4, <1>5, <1>9, <1>10

LEMMA RetryEffect ==
    ASSUME TypeInv, NEW w \in Workers, Retry(w)
    PROVE  /\ job[w].at # "idle" /\ UNCHANGED <<operations, alerts, told, now, since>>
           /\ job' \in [Workers -> JobRecord] /\ \A k \in Workers \ {w} : job'[k] = job[k]
           /\ job'[w] = Idle /\ job[w].m \in Jobs /\ Known(job[w].m)
           /\ queue' \subseteq [m: Jobs, n: 0..(MaxDeliveries - 1)]
           /\ \A q \in queue' : q \in queue \/ q.m = job[w].m
           /\ queue \subseteq queue' /\ givenUp \subseteq givenUp'
           /\ givenUp' \subseteq givenUp \cup {job[w].m}
           /\ (\E q \in queue' : q.m = job[w].m) \/ job[w].m \in givenUp'
  <1>1. /\ job[w].at # "idle" /\ UNCHANGED <<operations, alerts, told, now, since>>
        /\ job' = [job EXCEPT ![w] = Idle] /\ job[w] \in JobRecord
        /\ queue \subseteq [m: Jobs, n: 0..(MaxDeliveries - 1)]
    BY DEF Retry, At, TypeInv, Shapes
  <1>2. Known(job[w].m) /\ job[w].m \in Jobs /\ job[w].n \in 1..MaxDeliveries
    BY <1>1 DEF TypeInv, Holds
  <1>3. /\ job' \in [Workers -> JobRecord] /\ \A k \in Workers \ {w} : job'[k] = job[k]
        /\ job'[w] = Idle
    BY <1>1, IdleTyped DEF TypeInv, Shapes
  <1> DEFINE r == [m |-> job[w].m, n |-> job[w].n]
  <1>4. \/ job[w].n < MaxDeliveries /\ queue' = queue \cup {r} /\ givenUp' = givenUp
        \/ givenUp' = givenUp \cup {job[w].m} /\ queue' = queue
    BY DEF Retry
  <1>5. /\ job[w].n < MaxDeliveries => r \in [m: Jobs, n: 0..(MaxDeliveries - 1)]
        /\ r.m = job[w].m
    BY <1>2, AlertDetectionAssumption
  <1> HIDE DEF r
  <1> QED
    BY <1>1, <1>2, <1>3, <1>4, <1>5

LEMMA SendEffect ==
    ASSUME Shapes, NEW m \in Jobs, Send(m)
    PROVE  /\ queue' \subseteq [m: Jobs, n: 0..(MaxDeliveries - 1)]
           /\ \A q \in queue' : q \in queue \/ q.m = m
           /\ queue \subseteq queue' /\ givenUp \subseteq givenUp'
           /\ givenUp' \subseteq givenUp \cup {m}
           /\ (\E q \in queue' : q.m = m) \/ m \in givenUp'
  <1> DEFINE r == [m |-> m, n |-> 0]
  <1>1. r \in [m: Jobs, n: 0..(MaxDeliveries - 1)] /\ r.m = m
    BY AlertDetectionAssumption
  <1>2. \/ queue' = queue \cup {r} /\ givenUp' = givenUp
        \/ givenUp' = givenUp \cup {m} /\ queue' = queue
    BY DEF Send
  <1> HIDE DEF r
  <1> QED
    BY <1>1, <1>2 DEF Shapes

-----------------------------------------------------------------------------
(* Types: rows are only added.                                             *)

Grows == \A i \in DOMAIN operations : i \in DOMAIN operations' /\ operations'[i] = operations[i]

LEMMA TypeFrom ==
    ASSUME TypeInv, Shapes', Grows, Distinct', \A q \in queue' : q \in queue \/ Known(q.m)',
           \A w \in Workers : job'[w] = job[w] \/ Holds(w)'
    PROVE  TypeInv'
  <1>1. Entered \subseteq Entered'
    BY DEF Grows, Entered
  <1>2. \A q \in queue' : Known(q.m)'
    BY <1>1 DEF TypeInv, Known
  <1>3. ASSUME NEW w \in Workers, job'[w] = job[w]
        PROVE  Holds(w)'
    BY <1>1, <1>3 DEF TypeInv, Holds, Known, Grows
  <1> QED
    BY <1>2, <1>3 DEF TypeInv

\* The same while the table stays as it is.
LEMMA TypeSame ==
    ASSUME TypeInv, operations' = operations, givenUp' \subseteq Jobs, now' \in Nat, since' \in Nat,
           queue' \subseteq [m: Jobs, n: 0..(MaxDeliveries - 1)],
           \A q \in queue' : q \in queue \/ Known(q.m),
           job' \in [Workers -> JobRecord], \A w \in Workers : job'[w] = job[w] \/ Holds(w)'
    PROVE  TypeInv'
  <1>1. Shapes' /\ Grows /\ Distinct' /\ \A q \in queue' : q \in queue \/ Known(q.m)'
    BY DEF TypeInv, Shapes, Grows, Distinct, Known, Entered
  <1> QED
    BY <1>1, TypeFrom

LEMMA HoldsIdle ==
    ASSUME NEW w \in Workers, job'[w] = Idle
    PROVE  Holds(w)'
  BY IdleTyped DEF Holds, Running

LEMMA HoldsNext ==
    ASSUME NEW w \in Workers, NEW j \in JobRecord, job'[w] = NextSeeker(j), operations' = operations,
           now \in Nat, j.m \in Jobs, Known(j.m), j.n \in 1..MaxDeliveries, Names(j.read, j.m),
           \A i \in DOMAIN j.read : i \in DOMAIN operations /\ j.read[i] = operations[i]
    PROVE  Holds(w)'
  <1>1. CASE job'[w] = Idle
    BY <1>1, HoldsIdle
  <1>2. CASE /\ job'[w].at = "look" /\ job'[w].m = j.m /\ job'[w].n = j.n
             /\ job'[w].read = j.read /\ job'[w].seeker \in DOMAIN Registered
             /\ job'[w].day = now
             /\ matchedOperations(Registered[job'[w].seeker], j.read, j.m, now) # {}
    BY <1>2 DEF Holds, Known, Entered, Running
  <1> QED
    BY <1>1, <1>2, NextSeekerIs

LEMMA CreateEffect ==
    ASSUME TypeInv, NEW o \in Operations, CreateOperation(o)
    PROVE  /\ TypeInv' /\ Grows /\ UNCHANGED <<alerts, job, told, now>> /\ since' = now
           /\ queue \subseteq queue' /\ givenUp \subseteq givenUp'
           /\ (\E q \in queue' : q.m = o) \/ o \in givenUp'
           /\ \A i \in DOMAIN operations' : i \in DOMAIN operations \/ operations'[i].id = o
           /\ \A i \in DOMAIN operations : operations[i].id # o
           /\ \E n \in DOMAIN operations' : n \notin DOMAIN operations
  <1>1. PICK amount \in Amounts, date \in Dates :
          operations' = Append(operations, [id |-> o, amount |-> amount, date |-> date])
    BY DEF CreateOperation
  <1> DEFINE r == [id |-> o, amount |-> amount, date |-> date]
  <1>2. /\ o \notin Entered /\ Send(o) /\ UNCHANGED <<alerts, job, told, now>> /\ since' = now /\ Shapes /\ o \in Jobs
        /\ operations' = Append(operations, r) /\ r \in Row /\ r.id = o
    BY <1>1 DEF CreateOperation, TypeInv, Jobs, Row
  <1> HIDE DEF r
  <1>3. PICK n \in Nat : /\ operations' \in Seq(Row) /\ operations'[n] = r /\ n \in DOMAIN operations'
                         /\ n \notin DOMAIN operations
                         /\ \A i \in DOMAIN operations' : i # n => i \in DOMAIN operations
                         /\ \A i \in DOMAIN operations :
                              i \in DOMAIN operations' /\ operations'[i] = operations[i]
    BY <1>2, NewRow
  <1>4. /\ queue' \subseteq [m: Jobs, n: 0..(MaxDeliveries - 1)]
        /\ \A q \in queue' : q \in queue \/ q.m = o
        /\ queue \subseteq queue' /\ givenUp \subseteq givenUp'
        /\ givenUp' \subseteq givenUp \cup {o}
        /\ (\E q \in queue' : q.m = o) \/ o \in givenUp'
    BY <1>2, SendEffect
  <1>5. Grows /\ \A i \in DOMAIN operations : operations[i].id # o
    BY <1>2, <1>3 DEF Grows, Entered
  <1>6. Shapes'
    BY <1>2, <1>3, <1>4 DEF Shapes
  <1>7. Distinct'
    <2>1. ASSUME NEW i \in DOMAIN operations', NEW k \in DOMAIN operations',
                 operations'[i].id = operations'[k].id
          PROVE  i = k
      <3>1. CASE i = n
        BY <1>2, <1>3, <1>5, <2>1, <3>1
      <3>2. CASE k = n
        BY <1>2, <1>3, <1>5, <2>1, <3>2
      <3>3. CASE i # n /\ k # n
        BY <1>3, <2>1, <3>3 DEF TypeInv, Distinct
      <3> QED
        BY <3>1, <3>2, <3>3
    <2> QED
      BY <2>1 DEF Distinct
  <1>8. Known(o)'
    BY <1>2, <1>3 DEF Known, Entered
  <1>9. TypeInv'
    BY <1>2, <1>4, <1>5, <1>6, <1>7, <1>8, TypeFrom
  <1>10. \A i \in DOMAIN operations' : i \in DOMAIN operations \/ operations'[i].id = o
    BY <1>2, <1>3
  <1> QED
    BY <1>2, <1>3, <1>4, <1>5, <1>9, <1>10

LEMMA ChangeEffect ==
    ASSUME TypeInv, ChangeClient
    PROVE  /\ TypeInv' /\ UNCHANGED <<operations, alerts, job, told, now, since>>
           /\ queue \subseteq queue' /\ givenUp \subseteq givenUp'
  <1>1. Send(Refresh) /\ UNCHANGED <<operations, alerts, job, told, now, since>> /\ Refresh \in Jobs /\ Shapes
    BY DEF ChangeClient, Jobs, TypeInv
  <1>2. /\ queue' \subseteq [m: Jobs, n: 0..(MaxDeliveries - 1)]
        /\ \A q \in queue' : q \in queue \/ q.m = Refresh
        /\ queue \subseteq queue' /\ givenUp \subseteq givenUp'
        /\ givenUp' \subseteq givenUp \cup {Refresh}
    BY <1>1, SendEffect
  <1>3. TypeInv'
    BY <1>1, <1>2, TypeSame DEF Shapes, Known
  <1> QED
    BY <1>1, <1>2, <1>3

LEMMA TickEffect ==
    ASSUME TypeInv, Tick
    PROVE  /\ TypeInv' /\ UNCHANGED <<operations, queue, alerts, job, told, givenUp, since>>
           /\ now' = now + 1
  <1>1. /\ UNCHANGED <<operations, queue, alerts, job, told, givenUp, since>> /\ now' = now + 1
        /\ now' \in Nat
    BY DEF Tick, TypeInv, Shapes
  <1> QED
    BY <1>1, TypeSame DEF TypeInv, Shapes

LEMMA TypeInit == Init => TypeInv
  <1> SUFFICES ASSUME Init
               PROVE  TypeInv
    OBVIOUS
  <1>1. operations = <<>> /\ <<>> \in Seq(Row) /\ DOMAIN <<>> = {}
    BY EmptySeq DEF Init
  <1>2. Shapes /\ Distinct
    BY <1>1, IdleTyped DEF Init, Shapes, Distinct
  <1>3. \A w \in Workers : Holds(w)
    BY IdleTyped DEF Init, Holds, Running
  <1> QED
    BY <1>2, <1>3 DEF Init, TypeInv

LEMMA TypeStep == TypeInv /\ [Next]_vars => TypeInv'
  <1> SUFFICES ASSUME TypeInv, [Next]_vars
               PROVE  TypeInv'
    OBVIOUS
  <1>0. Shapes /\ givenUp \subseteq Jobs /\ queue \subseteq [m: Jobs, n: 0..(MaxDeliveries - 1)]
        /\ job \in [Workers -> JobRecord] /\ now \in Nat /\ since \in Nat
    BY DEF TypeInv, Shapes
  <1>1. ASSUME NEW w \in Workers, RunStep(w)
        PROVE  TypeInv'
    <2>1. /\ job[w] \in JobRecord /\ job[w].m \in Jobs /\ Known(job[w].m)
          /\ job[w].n \in 1..MaxDeliveries /\ job[w].at \in Running
          /\ \A i \in DOMAIN job[w].read : i \in DOMAIN operations /\ job[w].read[i] = operations[i]
          /\ Names(job[w].read, job[w].m)
      <3>1. job[w].at \in Running /\ Holds(w) /\ job[w] \in JobRecord
        BY <1>0, <1>1, RunEffect DEF TypeInv
      <3>2. job[w].at # "idle"
        BY <3>1 DEF Running
      <3> QED
        BY <3>1, <3>2 DEF Holds
    <2>2. /\ UNCHANGED <<operations, queue, now, since>> /\ job' \in [Workers -> JobRecord]
          /\ \A k \in Workers \ {w} : job'[k] = job[k]
          /\ givenUp' \subseteq givenUp \cup {job[w].m}
          /\ Stays(w) \/ job'[w] = NextSeeker(job[w])
      BY <1>0, <1>1, RunEffect
    <2>3. Holds(w)'
      <3>1. CASE Stays(w)
        <4>1. /\ job'[w].at \in Running /\ job'[w].m = job[w].m /\ job'[w].n = job[w].n
              /\ job'[w].read = job[w].read /\ job'[w].seeker = job[w].seeker
              /\ job'[w].day = job[w].day
          BY <3>1 DEF Stays
        <4>2. /\ job[w].seeker \in DOMAIN Registered
              /\ matchedOperations(Registered[job[w].seeker], job[w].read, job[w].m, job[w].day) # {}
          BY <2>1 DEF TypeInv, Holds
        <4> QED
          BY <2>1, <2>2, <4>1, <4>2 DEF Holds, Running, Known, Entered
      <3>2. CASE job'[w] = NextSeeker(job[w])
        BY <1>0, <2>1, <2>2, <3>2, HoldsNext
      <3> QED
        BY <2>2, <3>1, <3>2
    <2> QED
      BY <1>0, <2>1, <2>2, <2>3, TypeSame
  <1>2. ASSUME NEW w \in Workers, ReadOperations(w)
        PROVE  TypeInv'
    <2>1. job[w].m \in Jobs /\ Known(job[w].m) /\ job[w].n \in 1..MaxDeliveries
      BY <1>2 DEF ReadOperations, TypeInv, Holds, At
    <2>2. /\ UNCHANGED <<operations, queue, alerts, told, givenUp, now, since>>
          /\ job' \in [Workers -> JobRecord] /\ \A k \in Workers \ {w} : job'[k] = job[k]
      BY <1>2, ReadEffect
    <2>3. PICK j \in JobRecord : /\ job'[w] = NextSeeker(j) /\ j.m = job[w].m /\ j.n = job[w].n
                                 /\ j.read = operations /\ j.seeker = 0
      BY <1>2, ReadEffect
    <2>4. Names(j.read, j.m)
      BY <2>1, <2>3 DEF Names, Known, Entered
    <2>5. Holds(w)'
      BY <1>0, <2>1, <2>2, <2>3, <2>4, HoldsNext
    <2> QED
      BY <1>0, <2>2, <2>5, TypeSame
  <1>3. ASSUME NEW w \in Workers, NEW m \in Jobs, Deliver(w, m)
        PROVE  TypeInv'
    <2>1. /\ UNCHANGED <<operations, alerts, told, givenUp, now, since>>
          /\ job' \in [Workers -> JobRecord] /\ \A k \in Workers \ {w} : job'[k] = job[k]
          /\ job'[w].m = m /\ job'[w].at = "read" /\ job'[w].seeker = 0
          /\ job'[w].n \in 1..MaxDeliveries /\ DOMAIN job'[w].read = {} /\ Known(m)
          /\ queue' \subseteq [m: Jobs, n: 0..(MaxDeliveries - 1)]
          /\ \A q \in queue' : q \in queue \/ q.m = m
      BY <1>3, DeliverEffect
    <2>2. Holds(w)'
      BY <2>1 DEF Holds, Running, Known, Entered
    <2> QED
      BY <1>0, <2>1, <2>2, TypeSame
  <1>4. ASSUME NEW w \in Workers, Retry(w)
        PROVE  TypeInv'
    BY <1>0, <1>4, RetryEffect, HoldsIdle, TypeSame
  <1>5. ASSUME NEW o \in Operations, CreateOperation(o)
        PROVE  TypeInv'
    BY <1>5, CreateEffect
  <1>6. CASE ChangeClient
    BY <1>6, ChangeEffect
  <1>7. CASE Tick
    BY <1>7, TickEffect
  <1>8. CASE UNCHANGED vars
    BY <1>0, <1>8, TypeSame DEF vars
  <1> QED
    BY <1>1, <1>2, <1>3, <1>4, <1>5, <1>6, <1>7, <1>8 DEF Next, Process, RunStep

-----------------------------------------------------------------------------
(* The seekers.                                                            *)

Rows(read) == read \in Seq(Row)

LEMMA RowsAre ==
    ASSUME NEW read, Rows(read)
    PROVE  /\ Len(read) \in Nat /\ DOMAIN read = 1..Len(read) /\ IsFiniteSet(DOMAIN read)
           /\ DOMAIN read \subseteq Nat
           /\ \A i \in DOMAIN read : read[i].date \in Int /\ read[i].id \in Operations
  <1>1. Len(read) \in Nat /\ DOMAIN read = 1..Len(read) /\ \A i \in DOMAIN read : read[i] \in Row
    BY LenProperties, ElementOfSeq DEF Rows
  <1>2. \A r \in Row : r.date \in Int /\ r.id \in Operations
    BY AlertDetectionAssumption DEF Row
  <1>3. IsFiniteSet(1..Len(read))
    BY <1>1, FS_Interval
  <1> QED
    BY <1>1, <1>2, <1>3

\* Later is a strict order of the rows ...
LEMMA LaterOrders ==
    ASSUME NEW read, Rows(read)
    PROVE  /\ \A i \in DOMAIN read : ~Later(read, i, i)
           /\ \A i, k \in DOMAIN read : i # k => Later(read, i, k) \/ Later(read, k, i)
           /\ \A i, k \in DOMAIN read : ~(Later(read, i, k) /\ Later(read, k, i))
           /\ \A i, k, h \in DOMAIN read : Later(read, i, k) /\ Later(read, k, h) => Later(read, i, h)
  <1>1. \A i \in DOMAIN read : i \in Nat /\ read[i].date \in Int
    BY RowsAre
  <1>2. ASSUME NEW i \in DOMAIN read, NEW k \in DOMAIN read, NEW h \in DOMAIN read
        PROVE  /\ ~Later(read, i, i) /\ (i # k => Later(read, i, k) \/ Later(read, k, i))
               /\ ~(Later(read, i, k) /\ Later(read, k, i))
               /\ Later(read, i, k) /\ Later(read, k, h) => Later(read, i, h)
    <2>1. /\ i \in Nat /\ k \in Nat /\ h \in Nat
          /\ read[i].date \in Int /\ read[k].date \in Int /\ read[h].date \in Int
      BY <1>1, <1>2
    <2>2. PICK a \in Int, b \in Int, c \in Int :
            a = read[i].date /\ b = read[k].date /\ c = read[h].date
      BY <2>1
    <2> QED
      BY <2>1, <2>2 DEF Later
  <1> QED
    BY <1>2

\* ... so there is a latest one.
LEMMA LatestIs ==
    ASSUME NEW read, Rows(read), NEW S, S \subseteq DOMAIN read, S # {}
    PROVE  Latest(read, S) \in S /\ \A k \in S \ {Latest(read, S)} : Later(read, Latest(read, S), k)
  <1> DEFINE Up(i) == {k \in S : Later(read, k, i)}
             T == {Cardinality(Up(i)) : i \in S}
  <1>1. IsFiniteSet(S)
    BY RowsAre, FS_Subset
  <1>2. \A i \in S : IsFiniteSet(Up(i)) /\ Cardinality(Up(i)) \in Nat
    BY <1>1, FS_Subset, FS_CardinalityType
  <1>3. T \subseteq Nat /\ T # {}
    BY <1>2
  <1>4. PICK t \in T : \A y \in T : t <= y
    BY <1>3, LeastNatural
  <1>5. PICK i \in S : t = Cardinality(Up(i))
    BY <1>4
  <1>6. \A k \in S : Cardinality(Up(i)) <= Cardinality(Up(k))
    BY <1>4, <1>5
  <1>7. ASSUME NEW k \in S, Later(read, k, i)
        PROVE  FALSE
    <2>1. Up(k) \subseteq Up(i) /\ k \in Up(i) /\ k \notin Up(k)
      BY <1>7, LaterOrders
    <2>2. IsFiniteSet(Up(i)) /\ Cardinality(Up(i)) \in Nat /\ Cardinality(Up(k)) \in Nat
      BY <1>2
    <2> HIDE DEF Up
    <2>3. Cardinality(Up(k)) < Cardinality(Up(i))
      BY <2>1, <2>2, FS_Subset
    <2> QED
      BY <1>6, <2>2, <2>3
  <1>8. \A k \in S \ {i} : Later(read, i, k)
    BY <1>7, LaterOrders
  <1> QED
    BY <1>8 DEF Latest

\* The smallest set of latest rows that reaches the threshold is part of every other
\* (findMinimalTriggeringSet stops at the first that does).
LEMMA MinimalIs ==
    ASSUME NEW read, Rows(read), NEW recent, recent \subseteq DOMAIN read,
           Cardinality(recent) >= 2, Reaches(Total(read, recent), Threshold)
    PROVE  LET minimal == MinimalTriggeringSet(read, recent) IN
           /\ minimal \subseteq recent /\ Cardinality(minimal) >= 2
           /\ Reaches(Total(read, minimal), Threshold)
           /\ \A i \in minimal, k \in recent \ minimal : Later(read, i, k)
  <1> DEFINE first == {s \in SUBSET recent :
                         /\ \A i \in s, k \in recent \ s : Later(read, i, k)
                         /\ Cardinality(s) >= 2
                         /\ Reaches(Total(read, s), Threshold)}
             T == {Cardinality(s) : s \in first}
  <1>1. IsFiniteSet(recent)
    BY RowsAre, FS_Subset
  <1>2. \A s \in first : s \subseteq recent /\ IsFiniteSet(s) /\ Cardinality(s) \in Nat
    BY <1>1, FS_Subset, FS_CardinalityType
  <1>3. recent \in first
    OBVIOUS
  <1>4. T \subseteq Nat /\ T # {}
    BY <1>2, <1>3
  <1>5. PICK t \in T : \A y \in T : t <= y
    BY <1>4, LeastNatural
  <1>6. PICK s \in first : t = Cardinality(s)
    BY <1>5
  <1>7. \A r \in first : Cardinality(s) <= Cardinality(r)
    BY <1>5, <1>6
  <1>8. ASSUME NEW r \in first
        PROVE  s \subseteq r
    <2>1. s \subseteq r \/ r \subseteq s
      <3>1. \A x \in s \ r, y \in r \ s :
              x \in DOMAIN read /\ y \in DOMAIN read /\ Later(read, x, y) /\ Later(read, y, x)
        BY <1>2, <1>6, <1>8
      <3> QED
        BY <3>1, LaterOrders
    <2>2. CASE r \subseteq s
      <3>1. IsFiniteSet(s) /\ Cardinality(s) \in Nat /\ Cardinality(r) \in Nat
        BY <1>2, <1>6, <1>8
      <3>2. Cardinality(r) <= Cardinality(s) /\ (Cardinality(s) = Cardinality(r) => s = r)
        BY <2>2, <3>1, FS_Subset
      <3>3. Cardinality(s) <= Cardinality(r)
        BY <1>7, <1>8
      <3>4. Cardinality(s) = Cardinality(r)
        BY <3>1, <3>2, <3>3
      <3> QED
        BY <3>2, <3>4
    <2> QED
      BY <2>1, <2>2
  <1>9. MinimalTriggeringSet(read, recent) = CHOOSE x \in first : \A r \in first : x \subseteq r
    BY DEF MinimalTriggeringSet
  <1>10. MinimalTriggeringSet(read, recent) \in first
    BY <1>8, <1>9
  <1> QED
    BY <1>10

LEMMA MatchedWithin ==
    ASSUME NEW read, Rows(read), NEW m, NEW day, NEW s \in SeekerType
    PROVE  matchedOperations(s, read, m, day) \subseteq DOMAIN read
  <1>1. Evaluated(read, m) \subseteq DOMAIN read
    BY DEF Evaluated
  <1>r. \A days : InWindow(read, days, day) \subseteq DOMAIN read
    BY DEF InWindow
  <1>2. CASE s = "operation_amount_uma"
    BY <1>1, <1>2 DEF matchedOperations, operation_amount_uma, Reaching
  <1>3. CASE s = "aggregate_amount_uma"
    <2> DEFINE recent == InWindow(read, AggregationWindow, day)
    <2>1. recent \subseteq DOMAIN read
      BY <1>r
    <2>2. aggregate_amount_uma(read, day)
            = IF Cardinality(recent) >= 2 /\ Reaches(Total(read, recent), Threshold)
              THEN MinimalTriggeringSet(read, recent) ELSE {}
      BY DEF aggregate_amount_uma
    <2> HIDE DEF recent
    <2>3. aggregate_amount_uma(read, day) \subseteq DOMAIN read
      BY <2>1, <2>2, MinimalIs
    <2> QED
      BY <1>3, <2>3 DEF matchedOperations
  <1>4. CASE s = "frequent_operations"
    BY <1>r, <1>4 DEF matchedOperations, frequent_operations
  <1>5. CASE s = "multiple_cards_requests"
    BY <1>r, <1>5 DEF matchedOperations, multiple_cards_requests
  <1>6. CASE s = "pep_above_threshold"
    BY <1>1, <1>6 DEF matchedOperations, pep_above_threshold, Reaching
  <1>7. CASE s = "pep_or_high_risk"
    <2>1. read # <<>> => Latest(read, DOMAIN read) \in DOMAIN read
      <3>1. read # <<>> => DOMAIN read # {}
        <4>1. read # <<>> => Len(read) # 0
          BY EmptySeq DEF Rows
        <4> QED
          BY <4>1, RowsAre
      <3> QED
        BY <3>1, LatestIs
    <2>2. pep_or_high_risk(read, m) \subseteq DOMAIN read
      BY <1>1, <2>1 DEF pep_or_high_risk
    <2> QED
      BY <1>7, <2>2 DEF matchedOperations
  <1>8. CASE s = "structuring_detection"
    BY <1>r, <1>8 DEF matchedOperations, structuring_detection
  <1> QED
    BY <1>2, <1>3, <1>4, <1>5, <1>6, <1>7, <1>8 DEF SeekerType

LEMMA MinOfOne ==
    ASSUME NEW i \in Nat
    PROVE  Min({i}) = i
  BY MinIs

\* The job of an operation finds that operation by itself.
Copies(read) == \A h \in DOMAIN read : h \in DOMAIN operations /\ read[h] = operations[h]

AloneIn(read, i, s) ==
    \A day : /\ matchedOperations(s, read, operations[i].id, day) = {i}
             /\ KeyOf(s, read, {i}, day) = [seeker |-> s, week |-> 0, ids |-> {operations[i].id}]

LEMMA Alone ==
    ASSUME TypeInv, NEW read, Rows(read), Copies(read), NEW i \in DOMAIN operations,
           i \in DOMAIN read, NEW s \in Single, Reported(s, i)
    PROVE  AloneIn(read, i, s)
  <1>0. \A h \in DOMAIN read : h \in DOMAIN operations /\ read[h] = operations[h]
    BY DEF Copies
  <1>1. i \in Nat /\ read # <<>>
    <2>1. i \in Nat
      BY RowsAre
    <2>2. DOMAIN <<>> = {}
      BY EmptySeq
    <2> QED
      BY <2>1, <2>2
  <1>2. Evaluated(read, operations[i].id) = {i}
    BY <1>0 DEF Evaluated, TypeInv, Distinct
  <1>3. Cardinality({i}) = 1
    BY FS_Singleton
  <1>4. \A day : matchedOperations(s, read, operations[i].id, day) = {i}
    <2>1. CASE s = "operation_amount_uma"
      BY <1>0, <1>2, <2>1 DEF matchedOperations, operation_amount_uma, Reaching, Reported
    <2>2. CASE s = "pep_or_high_risk"
      BY <1>0, <1>1, <1>2, <1>3, <2>2 DEF matchedOperations, pep_or_high_risk, Reported
    <2> QED
      BY <2>1, <2>2 DEF Single
  <1>5. \A day : KeyOf(s, read, {i}, day) = [seeker |-> s, week |-> 0, ids |-> {operations[i].id}]
    BY <1>0, <1>1, MinOfOne DEF KeyOf, Single
  <1> QED
    BY <1>4, <1>5 DEF AloneIn

\* What shows together is the same whatever job runs the seeker.
LEMMA AnyJob ==
    ASSUME NEW s \in Together, NEW read, NEW m, NEW day
    PROVE  matchedOperations(s, read, m, day) = matchedOperations(s, read, Refresh, day)
  BY DEF Together, matchedOperations

-----------------------------------------------------------------------------
(* A consumer comes to every seeker that triggers.                         *)

LEMMA ReadRows ==
    ASSUME TypeInv, NEW w \in Workers
    PROVE  /\ Rows(job[w].read) /\ job[w] \in JobRecord /\ job[w].seeker \in Nat
           /\ \A i \in DOMAIN job[w].read : i \in DOMAIN operations /\ job[w].read[i] = operations[i]
  BY DEF TypeInv, Shapes, JobRecord, Rows, Holds

LEMMA SeekersAre == /\ Len(Registered) \in Nat /\ DOMAIN Registered = 1..Len(Registered)
                    /\ \A k \in DOMAIN Registered : k \in Nat /\ Registered[k] \in SeekerType
  <1>1. Len(Registered) \in Nat /\ DOMAIN Registered = 1..Len(Registered)
    BY AlertDetectionAssumption, LenProperties
  <1>2. \A k \in DOMAIN Registered : Registered[k] \in SeekerType
    BY <1>1, AlertDetectionAssumption, ElementOfSeq
  <1> QED
    BY <1>1, <1>2

LEMMA YetReads ==
    ASSUME TypeInv, NEW w \in Workers, ReadOperations(w), NEW k \in DOMAIN Registered,
           matchedOperations(Registered[k], operations, job[w].m, now) # {}
    PROVE  job'[w].m = job[w].m /\ job'[w].read = operations /\ Yet(w, k)'
           /\ job'[w].at \in Running /\ job'[w].seeker <= k
  <1>1. PICK j \in JobRecord : /\ job'[w] = NextSeeker(j) /\ j.m = job[w].m
                               /\ j.read = operations /\ j.seeker = 0
    BY ReadEffect
  <1>t. now \in Nat
    BY DEF TypeInv, Shapes
  <1>2. k \in Nat /\ 0 < k
    BY SeekersAre
  <1>3. /\ job'[w].at = "look" /\ job'[w].seeker <= k /\ job'[w].m = j.m /\ job'[w].read = j.read
    BY <1>t, <1>1, <1>2, NextSeekerIs
  <1>4. job'[w].seeker \in Nat
    BY <1>t, <1>1, NextSeekerIs DEF JobRecord
  <1>5. job'[w].seeker < k \/ job'[w].seeker = k
    BY <1>2, <1>3, <1>4
  <1> QED
    BY <1>1, <1>3, <1>5 DEF Yet, Running

\* What the seeker at k shows consumer w on a day.
Shows(w, k, day) == matchedOperations(Registered[k], job[w].read, job[w].m, day)

LEMMA KeyIs ==
    \A w, k : job[w].seeker = k =>
        /\ Matched(w) = Shows(w, k, job[w].day)
        /\ Key(w) = KeyOf(Registered[k], job[w].read, Shows(w, k, job[w].day), job[w].day)
  BY DEF Matched, Key, Shows

\* It has its alert, is yet to come, or shows nothing on the day its turn comes.
LEMMA YetRuns ==
    ASSUME TypeInv, NEW w \in Workers, RunStep(w), NEW k \in DOMAIN Registered, Yet(w, k)
    PROVE  \/ job[w].m \in givenUp'
           \/ job'[w].m = job[w].m /\ job'[w].read = job[w].read /\ Yet(w, k)'
           \/ job[w].seeker = k /\ Key(w) \in alerts'
           \/ Shows(w, k, now) = {}
  <1>0. /\ job[w] \in JobRecord /\ job[w].seeker \in Nat /\ k \in Nat /\ Shapes /\ now \in Nat
    BY ReadRows, SeekersAre DEF TypeInv, Shapes
  <1>1. CASE Stays(w)
    <2>1. CASE job'[w].at = "tell" /\ job[w].seeker = k
      BY <1>1, <2>1 DEF Stays
    <2>2. CASE job'[w].at # "tell" \/ job[w].seeker < k
      BY <1>1, <2>2 DEF Stays, Yet, Running
    <2> QED
      BY <1>0, <2>1, <2>2 DEF Yet
  <1>2. CASE givenUp' = givenUp \cup {job[w].m}
    BY <1>2
  <1>3. CASE job[w].at = "tell" /\ job'[w] = NextSeeker(job[w]) /\ Shows(w, k, now) # {}
    <2>1. job[w].seeker < k
      BY <1>3 DEF Yet
    <2>2. /\ job'[w].at = "look" /\ job'[w].seeker <= k
          /\ job'[w].m = job[w].m /\ job'[w].read = job[w].read
      BY <1>0, <1>3, <2>1, NextSeekerIs DEF Shows
    <2>3. job'[w].seeker \in Nat
      BY <1>0, <1>3, NextSeekerIs DEF JobRecord
    <2>4. job'[w].seeker < k \/ job'[w].seeker = k
      BY <1>0, <2>2, <2>3
    <2> QED
      BY <2>2, <2>4 DEF Yet, Running
  <1> QED
    BY <1>0, <1>1, <1>2, <1>3, RunEffect

-----------------------------------------------------------------------------
(* What an operation shows by itself.                                      *)

LEMMA OwnWorks ==
    ASSUME TypeInv, NEW w \in Workers, RunStep(w) \/ ReadOperations(w),
           NEW i \in DOMAIN operations, NEW k \in DOMAIN Registered,
           Registered[k] \in Single, Reported(Registered[k], i),
           job[w].m = operations[i].id, At(w, "read") \/ (i \in DOMAIN job[w].read /\ Yet(w, k))
    PROVE  \/ [seeker |-> Registered[k], week |-> 0, ids |-> {operations[i].id}] \in alerts'
           \/ operations[i].id \in givenUp'
           \/ job'[w].m = operations[i].id /\ i \in DOMAIN job'[w].read /\ Yet(w, k)'
  <1>1. CASE ReadOperations(w)
    <2>1. Rows(operations) /\ Copies(operations)
      BY DEF TypeInv, Shapes, Rows, Copies
    <2>2. AloneIn(operations, i, Registered[k])
      BY <2>1, Alone
    <2>3. matchedOperations(Registered[k], operations, job[w].m, now) = {i}
      BY <2>2 DEF AloneIn
    <2> QED
      BY <1>1, <2>3, YetReads
  <1>2. CASE RunStep(w)
    <2>1. job[w].at \in Running
      BY <1>2, RunEffect DEF TypeInv
    <2>2. i \in DOMAIN job[w].read /\ Yet(w, k)
      BY <2>1 DEF At, Running
    <2>3. ASSUME NEW day
          PROVE  /\ Shows(w, k, day) = {i}
                 /\ KeyOf(Registered[k], job[w].read, {i}, day)
                      = [seeker |-> Registered[k], week |-> 0, ids |-> {operations[i].id}]
      <3>1. Rows(job[w].read) /\ Copies(job[w].read)
        BY ReadRows DEF Copies
      <3>2. AloneIn(job[w].read, i, Registered[k])
        BY <2>2, <3>1, Alone
      <3> QED
        BY <3>2 DEF Shows, AloneIn
    <2>4. job[w].seeker = k =>
            Key(w) = [seeker |-> Registered[k], week |-> 0, ids |-> {operations[i].id}]
      BY <2>3, KeyIs
    <2>5. \/ job[w].m \in givenUp'
          \/ job'[w].m = job[w].m /\ job'[w].read = job[w].read /\ Yet(w, k)'
          \/ job[w].seeker = k /\ Key(w) \in alerts'
          \/ Shows(w, k, now) = {}
      BY <1>2, <2>2, YetRuns
    <2> QED
      BY <2>2, <2>3, <2>4, <2>5
  <1> QED
    BY <1>1, <1>2

LEMMA OwnStep == TypeInv /\ OwnInv /\ [Next]_vars => OwnInv'
  <1> SUFFICES ASSUME TypeInv, OwnInv, [Next]_vars
               PROVE  OwnInv'
    OBVIOUS
  <1> DEFINE Key1(k, i) == [seeker |-> Registered[k], week |-> 0, ids |-> {operations[i].id}]
             Due(k, i) == Registered[k] \in Single /\ Reported(Registered[k], i)
             Safe(k, i) == Key1(k, i) \in alerts \/ operations[i].id \in givenUp \/ OwnJob(k, i)
  <1>1. ASSUME operations' = operations,
               \A i \in DOMAIN operations, k \in DOMAIN Registered :
                 Due(k, i) /\ Safe(k, i) => Safe(k, i)'
        PROVE  OwnInv'
    <2>1. ASSUME NEW i \in DOMAIN operations', NEW k \in DOMAIN Registered,
                 Registered[k] \in Single, Reported(Registered[k], i)'
          PROVE  Safe(k, i)'
      BY <1>1, <2>1 DEF OwnInv, Reported
    <2> QED
      BY <2>1 DEF OwnInv
  <1>2. ASSUME NEW w \in Workers, RunStep(w) \/ ReadOperations(w)
        PROVE  OwnInv'
    <2>1. /\ operations' = operations /\ queue' = queue /\ alerts \subseteq alerts'
          /\ givenUp \subseteq givenUp' /\ \A x \in Workers \ {w} : job'[x] = job[x]
      BY <1>2, RunEffect, ReadEffect DEF TypeInv
    <2>2. ASSUME NEW i \in DOMAIN operations, NEW k \in DOMAIN Registered, Due(k, i), Safe(k, i)
          PROVE  Safe(k, i)'
      <3>1. CASE Key1(k, i) \in alerts \/ operations[i].id \in givenUp
        BY <2>1, <3>1
      <3>2. CASE \E q \in queue : q.m = operations[i].id
        BY <2>1, <3>2 DEF OwnJob
      <3>3. ASSUME NEW x \in Workers, job[x].m = operations[i].id,
                   At(x, "read") \/ (i \in DOMAIN job[x].read /\ Yet(x, k))
            PROVE  Safe(k, i)'
        <4>1. CASE x = w
          <5>1. \/ Key1(k, i) \in alerts' \/ operations[i].id \in givenUp'
                \/ job'[w].m = operations[i].id /\ i \in DOMAIN job'[w].read /\ Yet(w, k)'
            BY <1>2, <2>2, <3>3, <4>1, OwnWorks
          <5> QED
            BY <2>1, <5>1 DEF OwnJob
        <4>2. CASE x # w
          BY <2>1, <3>3, <4>2 DEF OwnJob, At, Yet
        <4> QED
          BY <4>1, <4>2
      <3> QED
        BY <2>2, <3>1, <3>2, <3>3 DEF OwnJob
    <2> QED
      BY <1>1, <2>1, <2>2
  <1>3. ASSUME NEW w \in Workers, NEW m \in Jobs, Deliver(w, m)
        PROVE  OwnInv'
    <2>1. /\ job[w] = Idle /\ UNCHANGED <<operations, alerts, told, givenUp>>
          /\ \A x \in Workers \ {w} : job'[x] = job[x]
          /\ job'[w].m = m /\ job'[w].at = "read" /\ \A q \in queue : q \in queue' \/ q.m = m
      BY <1>3, DeliverEffect
    <2>2. ASSUME NEW i \in DOMAIN operations, NEW k \in DOMAIN Registered, OwnJob(k, i)
          PROVE  OwnJob(k, i)'
      <3>1. CASE \E q \in queue : q.m = operations[i].id
        BY <2>1, <3>1 DEF OwnJob, At
      <3>2. ASSUME NEW x \in Workers, job[x].m = operations[i].id,
                   At(x, "read") \/ (i \in DOMAIN job[x].read /\ Yet(x, k))
            PROVE  OwnJob(k, i)'
        <4>1. x # w
          BY <2>1, <3>2, IdleTyped DEF At
        <4> QED
          BY <2>1, <3>2, <4>1 DEF OwnJob, At, Yet
      <3> QED
        BY <2>2, <3>1, <3>2 DEF OwnJob
    <2> QED
      BY <1>1, <2>1, <2>2
  <1>4. ASSUME NEW w \in Workers, Retry(w)
        PROVE  OwnInv'
    <2>1. /\ UNCHANGED <<operations, alerts, told>> /\ \A x \in Workers \ {w} : job'[x] = job[x]
          /\ queue \subseteq queue' /\ givenUp \subseteq givenUp'
          /\ (\E q \in queue' : q.m = job[w].m) \/ job[w].m \in givenUp'
      BY <1>4, RetryEffect
    <2>2. ASSUME NEW i \in DOMAIN operations, NEW k \in DOMAIN Registered, OwnJob(k, i)
          PROVE  OwnJob(k, i)' \/ operations[i].id \in givenUp'
      <3>1. CASE \E q \in queue : q.m = operations[i].id
        BY <2>1, <3>1 DEF OwnJob
      <3>2. ASSUME NEW x \in Workers, job[x].m = operations[i].id,
                   At(x, "read") \/ (i \in DOMAIN job[x].read /\ Yet(x, k))
            PROVE  OwnJob(k, i)' \/ operations[i].id \in givenUp'
        <4>1. CASE x = w
          BY <2>1, <3>2, <4>1 DEF OwnJob
        <4>2. CASE x # w
          BY <2>1, <3>2, <4>2 DEF OwnJob, At, Yet
        <4> QED
          BY <4>1, <4>2
      <3> QED
        BY <2>2, <3>1, <3>2 DEF OwnJob
    <2> QED
      BY <1>1, <2>1, <2>2
  <1>5. ASSUME NEW o \in Operations, CreateOperation(o)
        PROVE  OwnInv'
    <2>1. /\ Grows /\ UNCHANGED <<alerts, job, told>> /\ queue \subseteq queue'
          /\ givenUp \subseteq givenUp'
          /\ (\E q \in queue' : q.m = o) \/ o \in givenUp'
          /\ \A i \in DOMAIN operations' : i \in DOMAIN operations \/ operations'[i].id = o
      BY <1>5, CreateEffect
    <2>2. ASSUME NEW i \in DOMAIN operations', NEW k \in DOMAIN Registered,
                 Registered[k] \in Single, Reported(Registered[k], i)'
          PROVE  Safe(k, i)'
      <3>1. CASE operations'[i].id = o
        BY <2>1, <3>1 DEF OwnJob
      <3>2. CASE i \in DOMAIN operations
        <4>1. operations'[i] = operations[i]
          BY <2>1, <3>2 DEF Grows
        <4>2. Safe(k, i)
          BY <2>2, <3>2, <4>1 DEF OwnInv, Reported
        <4>3. OwnJob(k, i) => OwnJob(k, i)'
          BY <2>1, <4>1 DEF OwnJob, At, Yet
        <4> QED
          BY <2>1, <4>1, <4>2, <4>3
      <3> QED
        BY <2>1, <2>2, <3>1, <3>2
    <2> QED
      BY <2>2 DEF OwnInv
  <1>6. CASE ChangeClient
    <2>1. /\ UNCHANGED <<operations, alerts, job, told>>
          /\ queue \subseteq queue' /\ givenUp \subseteq givenUp'
      BY <1>6, ChangeEffect
    <2>2. \A i \in DOMAIN operations, k \in DOMAIN Registered : Safe(k, i) => Safe(k, i)'
      BY <2>1 DEF OwnJob, At, Yet
    <2> QED
      BY <1>1, <2>1, <2>2
  <1>7. CASE Tick \/ UNCHANGED vars
    <2>1. UNCHANGED <<operations, queue, alerts, job, givenUp>>
      BY <1>7 DEF Tick, vars
    <2>2. \A i \in DOMAIN operations, k \in DOMAIN Registered : Safe(k, i) => Safe(k, i)'
      BY <2>1 DEF OwnJob, At, Yet
    <2> QED
      BY <1>1, <2>1, <2>2
  <1> QED
    BY <1>2, <1>3, <1>4, <1>5, <1>6, <1>7 DEF Next, Process, RunStep

-----------------------------------------------------------------------------
(* What the operations show together.                                      *)

LEMMA DayStep == TypeInv /\ DayInv /\ [Next]_vars => DayInv'
  <1> SUFFICES ASSUME TypeInv, DayInv, [Next]_vars
               PROVE  DayInv'
    OBVIOUS
  <1>0. /\ now \in Nat /\ since \in Nat /\ since <= now
        /\ \A w \in Workers : job[w].day \in Nat
    BY DEF TypeInv, Shapes, DayInv, JobRecord
  <1>1. ASSUME since' = since, now' = now, operations' = operations, NEW w \in Workers,
               \A x \in Workers \ {w} : job'[x] = job[x],
               \/ job'[w].at \notin Running
               \/ job'[w].day = now
               \/ /\ job[w].at \in Running /\ job'[w].read = job[w].read
                  /\ job'[w].day = job[w].day
        PROVE  DayInv'
    BY <1>0, <1>1 DEF DayInv
  <1>2. \A j \in JobRecord : NextSeeker(j) = Idle \/ NextSeeker(j).day = now
    BY <1>0, NextSeekerIs
  <1>3. ASSUME NEW w \in Workers, RunStep(w)
        PROVE  DayInv'
    <2>1. /\ UNCHANGED <<operations, since, now>> /\ \A x \in Workers \ {w} : job'[x] = job[x]
          /\ job[w].at \in Running /\ (Stays(w) \/ job'[w] = NextSeeker(job[w]))
      BY <1>3, RunEffect DEF TypeInv
    <2>2. job[w] \in JobRecord
      BY ReadRows
    <2> QED
      BY <1>1, <1>2, <2>1, <2>2, IdleTyped DEF Stays, Running
  <1>4. ASSUME NEW w \in Workers, ReadOperations(w)
        PROVE  DayInv'
    <2>1. /\ UNCHANGED <<operations, since, now>> /\ \A x \in Workers \ {w} : job'[x] = job[x]
          /\ \E j \in JobRecord : job'[w] = NextSeeker(j)
      BY <1>4, ReadEffect
    <2> QED
      BY <1>1, <1>2, <2>1, IdleTyped DEF Running
  <1>5. ASSUME NEW w \in Workers, NEW m \in Jobs, Deliver(w, m)
        PROVE  DayInv'
    BY <1>1, <1>5, DeliverEffect DEF Running
  <1>6. ASSUME NEW w \in Workers, Retry(w)
        PROVE  DayInv'
    BY <1>1, <1>6, RetryEffect, IdleTyped DEF Running
  <1>7. ASSUME NEW o \in Operations, CreateOperation(o)
        PROVE  DayInv'
    <2>1. /\ now' = now /\ since' = now /\ job' = job
          /\ \E n \in DOMAIN operations' : n \notin DOMAIN operations
      BY <1>7, CreateEffect
    <2>2. \A w \in Workers : job[w].read # operations'
      BY <2>1, ReadRows
    <2> QED
      BY <1>0, <2>1, <2>2 DEF DayInv
  <1>8. CASE ChangeClient \/ UNCHANGED vars
    <2>1. UNCHANGED <<operations, job, since, now>>
      BY <1>8 DEF ChangeClient, vars
    <2> QED
      BY <2>1 DEF DayInv
  <1>9. CASE Tick
    <2>1. UNCHANGED <<operations, job, since>> /\ now' = now + 1
      BY <1>9, TickEffect
    <2> QED
      BY <1>0, <2>1 DEF DayInv
  <1> QED
    BY <1>3, <1>4, <1>5, <1>6, <1>7, <1>8, <1>9 DEF Next, Process, RunStep

LEMMA SeenStays ==
    ASSUME now \in Nat, since \in Nat, operations' = operations, since' = since,
           now' = now \/ now' = now + 1, alerts \subseteq alerts', NEW k, Seen(k)
    PROVE  Seen(k)'
  <1>1. PICK day \in since..now :
          LET matched == matchedOperations(Registered[k], operations, Refresh, day)
          IN  matched # {} => KeyOf(Registered[k], operations, matched, day) \in alerts
    BY DEF Seen
  <1>2. day \in since'..now'
    BY <1>1
  <1> QED
    BY <1>1, <1>2 DEF Seen

LEMMA SeenOn ==
    ASSUME TypeInv, NEW k, NEW day \in Nat, since <= day, day <= now,
           operations' = operations, since' = since, now' = now,
           LET matched == matchedOperations(Registered[k], operations, Refresh, day)
           IN  matched # {} => KeyOf(Registered[k], operations, matched, day) \in alerts'
    PROVE  Seen(k)'
  <1>1. day \in since'..now'
    BY DEF TypeInv, Shapes
  <1> QED
    BY <1>1 DEF Seen

LEMMA TogetherStep == TypeInv /\ DayInv /\ TogetherInv /\ [Next]_vars => TogetherInv'
  <1> SUFFICES ASSUME TypeInv, DayInv, TogetherInv, [Next]_vars
               PROVE  TogetherInv'
    OBVIOUS
  <1> DEFINE Due(k) == Registered[k] \in Together /\ operations # <<>>
             Safe(k) == Seen(k) \/ givenUp # {} \/ LastJob(k)
  <1>0. now \in Nat /\ since \in Nat /\ since <= now
    BY DEF TypeInv, Shapes, DayInv
  <1>1. ASSUME operations' = operations,
               \A k \in DOMAIN Registered : Due(k) /\ Safe(k) => Safe(k)'
        PROVE  TogetherInv'
    BY <1>1 DEF TogetherInv
  <1>2. ASSUME queue' # {} \/ givenUp' # {}
        PROVE  TogetherInv'
    BY <1>2 DEF TogetherInv, LastJob
  <1>3. ASSUME NEW w \in Workers, RunStep(w) \/ ReadOperations(w)
        PROVE  TogetherInv'
    <2>1. /\ operations' = operations /\ queue' = queue /\ alerts \subseteq alerts'
          /\ givenUp \subseteq givenUp' /\ \A x \in Workers \ {w} : job'[x] = job[x]
          /\ since' = since /\ now' = now
      BY <1>3, RunEffect, ReadEffect DEF TypeInv
    <2>n. ASSUME NEW k \in DOMAIN Registered, Due(k), NEW m,
                 matchedOperations(Registered[k], operations, m, now) = {}
          PROVE  Seen(k)'
      <3>1. matchedOperations(Registered[k], operations, Refresh, now) = {}
        BY <2>n, AnyJob
      <3> QED
        BY <1>0, <2>1, <3>1, SeenOn
    <2>2. ASSUME NEW k \in DOMAIN Registered, Due(k), NEW x \in Workers,
                 At(x, "read") \/ (job[x].read = operations /\ Yet(x, k))
          PROVE  Safe(k)'
      <3>1. CASE x = w /\ ReadOperations(w)
        <4>1. CASE matchedOperations(Registered[k], operations, job[w].m, now) # {}
          <5>1. job'[w].read = operations /\ Yet(w, k)'
            BY <3>1, <4>1, YetReads
          <5> QED
            BY <2>1, <5>1 DEF LastJob
        <4> QED
          BY <2>2, <2>n, <4>1
      <3>2. CASE x = w /\ RunStep(w)
        <4>1. job[w].at \in Running
          BY <3>2, RunEffect DEF TypeInv
        <4>2. job[w].read = operations /\ Yet(w, k)
          BY <2>2, <3>2, <4>1 DEF At, Running
        <4>3. \/ job[w].m \in givenUp'
              \/ job'[w].read = job[w].read /\ Yet(w, k)'
              \/ job[w].seeker = k /\ Key(w) \in alerts'
              \/ Shows(w, k, now) = {}
          BY <3>2, <4>2, YetRuns
        <4>4. CASE job[w].seeker = k /\ Key(w) \in alerts'
          <5>1. job[w].day \in Nat /\ since <= job[w].day /\ job[w].day <= now
            BY <4>1, <4>2, ReadRows DEF DayInv, JobRecord
          <5>2. Shows(w, k, job[w].day)
                  = matchedOperations(Registered[k], operations, Refresh, job[w].day)
            BY <2>2, <4>2, AnyJob DEF Shows
          <5>3. Key(w) = KeyOf(Registered[k], operations, Shows(w, k, job[w].day), job[w].day)
            BY <4>2, <4>4, KeyIs
          <5>4. Seen(k)'
            BY <2>1, <4>4, <5>1, <5>2, <5>3, SeenOn
          <5> QED
            BY <5>4
        <4>5. CASE Shows(w, k, now) = {}
          BY <2>2, <2>n, <4>2, <4>5 DEF Shows
        <4> QED
          BY <2>1, <4>2, <4>3, <4>4, <4>5 DEF LastJob
      <3>3. CASE x # w
        BY <2>1, <2>2, <3>3 DEF LastJob, At, Yet
      <3> QED
        BY <1>3, <3>1, <3>2, <3>3
    <2>3. ASSUME NEW k \in DOMAIN Registered, Due(k), Safe(k)
          PROVE  Safe(k)'
      <3>1. CASE givenUp # {}
        BY <2>1, <3>1
      <3>2. CASE queue # {}
        BY <2>1, <3>2 DEF LastJob
      <3>3. CASE Seen(k)
        BY <1>0, <2>1, <3>3, SeenStays
      <3> QED
        BY <2>2, <2>3, <3>1, <3>2, <3>3 DEF LastJob
    <2> QED
      BY <1>1, <2>1, <2>3
  <1>4. ASSUME NEW w \in Workers, NEW m \in Jobs, Deliver(w, m)
        PROVE  TogetherInv'
    <2>1. UNCHANGED <<operations, alerts, givenUp>> /\ job'[w].at = "read"
      BY <1>4, DeliverEffect
    <2>2. \A k \in DOMAIN Registered : LastJob(k)'
      BY <2>1 DEF LastJob, At
    <2> QED
      BY <1>1, <2>1, <2>2
  <1>5. ASSUME NEW w \in Workers, Retry(w)
        PROVE  TogetherInv'
    BY <1>2, <1>5, RetryEffect
  <1>6. ASSUME NEW o \in Operations, CreateOperation(o)
        PROVE  TogetherInv'
    BY <1>2, <1>6, CreateEffect
  <1>7. CASE ChangeClient
    <2>1. queue' # {} \/ givenUp' # {}
      BY <1>7, SendEffect DEF ChangeClient, TypeInv, Jobs
    <2> QED
      BY <1>2, <2>1
  <1>8. CASE Tick \/ UNCHANGED vars
    <2>1. /\ UNCHANGED <<operations, queue, alerts, job, givenUp, since>>
          /\ now' = now \/ now' = now + 1
      BY <1>8 DEF Tick, vars
    <2>2. \A k \in DOMAIN Registered : LastJob(k) => LastJob(k)'
      BY <2>1 DEF LastJob, At, Yet
    <2>3. \A k \in DOMAIN Registered : Seen(k) => Seen(k)'
      BY <1>0, <2>1, SeenStays
    <2> QED
      BY <1>1, <2>1, <2>2, <2>3
  <1> QED
    BY <1>3, <1>4, <1>5, <1>6, <1>7, <1>8 DEF Next, Process, RunStep

-----------------------------------------------------------------------------
(* What the alerts are about.                                              *)

LEMMA KeyFound ==
    ASSUME TypeInv, NEW w \in Workers, job[w].at \in Running
    PROVE  Found(Key(w)) /\ Key(w).seeker = Registered[job[w].seeker]
  <1> DEFINE read == job[w].read
             s == Registered[job[w].seeker]
             matched == Matched(w)
  <1>1. /\ Rows(read) /\ \A i \in DOMAIN read : i \in DOMAIN operations /\ read[i] = operations[i]
    BY ReadRows
  <1>2. job[w].seeker \in DOMAIN Registered /\ matched # {}
    BY DEF TypeInv, Holds, Matched
  <1>3. s \in SeekerType /\ s \in ToSet(Registered)
    BY <1>2, SeekersAre DEF ToSet
  <1>4. matched \subseteq DOMAIN read
    BY <1>1, <1>3, MatchedWithin DEF Matched
  <1>5. Min(matched) \in matched
    <2>1. matched \subseteq Nat
      BY <1>1, <1>4, RowsAre
    <2> QED
      BY <1>2, <2>1, MinIs
  <1>6. \A i \in matched : read[i].id \in Entered
    BY <1>1, <1>4 DEF Entered
  <1>7. Key(w) = KeyOf(s, read, matched, job[w].day)
    BY DEF Key
  <1> HIDE DEF s, read, matched
  <1>8. Key(w).seeker = s /\ Key(w).ids \subseteq Entered
    BY <1>5, <1>6, <1>7 DEF KeyOf
  <1> QED
    BY <1>3, <1>8 DEF Found, s

LEMMA FoundStep == TypeInv /\ FoundInv /\ [Next]_vars => FoundInv'
  <1> SUFFICES ASSUME TypeInv, FoundInv, [Next]_vars
               PROVE  FoundInv'
    OBVIOUS
  <1>1. ASSUME NEW w \in Workers, RunStep(w)
        PROVE  FoundInv'
    <2>1. /\ job[w].at \in Running /\ operations' = operations
          /\ alerts' \subseteq alerts \cup {Key(w)} /\ told' \subseteq told \cup {Key(w)}
      BY <1>1, RunEffect DEF TypeInv
    <2>2. Found(Key(w))
      BY <2>1, KeyFound
    <2>3. \A a : Found(a) => Found(a)'
      BY <2>1 DEF Found, Entered
    <2>4. \A a \in alerts' \cup told' : Found(a)
      BY <2>1, <2>2 DEF FoundInv
    <2> QED
      BY <2>3, <2>4 DEF FoundInv
  <1>2. ASSUME UNCHANGED <<alerts, told>>, Grows
        PROVE  FoundInv'
    <2>1. Entered \subseteq Entered'
      BY <1>2 DEF Grows, Entered
    <2> QED
      BY <1>2, <2>1 DEF FoundInv, Found
  <1>3. ASSUME NEW w \in Workers, ReadOperations(w) \/ Retry(w) \/ \E m \in Jobs : Deliver(w, m)
        PROVE  UNCHANGED <<operations, alerts, told>>
    BY <1>3 DEF ReadOperations, Retry, Deliver
  <1>4. ChangeClient \/ Tick \/ UNCHANGED vars => UNCHANGED <<operations, alerts, told>>
    BY DEF ChangeClient, Tick, vars
  <1>5. UNCHANGED operations => Grows
    BY DEF Grows
  <1>6. ASSUME NEW o \in Operations, CreateOperation(o)
        PROVE  FoundInv'
    BY <1>2, <1>6, CreateEffect
  <1> QED
    BY <1>1, <1>2, <1>3, <1>4, <1>5, <1>6 DEF Next, Process, RunStep

-----------------------------------------------------------------------------
(* Whoever is to be told.                                                  *)

\* A job that reports an operation makes its alert whenever it reads that operation.
LEMMA ReportsForth ==
    ASSUME TypeInv, NEW read, Rows(read), NEW i \in DOMAIN operations, i \in DOMAIN read,
           \A h \in DOMAIN read : h \in DOMAIN operations /\ read[h] = operations[h],
           NEW m, Reports(m, i), NEW day
    PROVE  LET matched == matchedOperations("operation_amount_uma", read, m, day) IN
           /\ matched # {}
           /\ KeyOf("operation_amount_uma", read, matched, day) = AlertOf(operations[i].id)
  <1> DEFINE matched == matchedOperations("operation_amount_uma", read, m, day)
  <1>1. Reaches(operations[i].amount, Threshold) /\ i \in Nat
    BY RowsAre DEF Reports
  <1>2. CASE m = operations[i].id
    <2>1. Reported("operation_amount_uma", i) /\ "operation_amount_uma" \in Single /\ Copies(read)
      BY <1>1 DEF Reported, Single, Copies
    <2>2. AloneIn(read, i, "operation_amount_uma")
      BY <2>1, Alone
    <2>3. /\ matchedOperations("operation_amount_uma", read, operations[i].id, day) = {i}
          /\ KeyOf("operation_amount_uma", read, {i}, day)
               = [seeker |-> "operation_amount_uma", week |-> 0, ids |-> {operations[i].id}]
      BY <2>2 DEF AloneIn
    <2> QED
      BY <1>2, <2>3 DEF AlertOf
  <1>3. CASE m = Refresh /\ \A h \in 1..(i - 1) : ~Reaches(operations[h].amount, Threshold)
    <2>1. \A h \in DOMAIN read : h \in Nat /\ read[h].id # m
      BY <1>3, RowsAre, AlertDetectionAssumption
    <2>2. matched = Reaching(read, DOMAIN read)
      BY <2>1 DEF matchedOperations, operation_amount_uma, Evaluated
    <2>3. matched \subseteq Nat /\ i \in matched /\ \A h \in matched : Reaches(operations[h].amount, Threshold)
      BY <1>1, <2>1, <2>2 DEF Reaching
    <2> HIDE DEF matched
    <2>4. PICK h \in Nat : h = Min(matched) /\ h \in matched /\ h <= i
      BY <2>3, MinIs
    <2>5. h = i
      <3>1. h >= 1
        <4>1. DOMAIN operations = 1..Len(operations) /\ h \in DOMAIN operations
          BY <2>2, <2>4, Lengths DEF TypeInv, Reaching
        <4> QED
          BY <4>1
      <3>2. h < i => h \in 1..(i - 1)
        BY <1>1, <2>4, <3>1
      <3> QED
        BY <1>1, <1>3, <2>3, <2>4, <3>2
    <2> QED
      BY <2>3, <2>4, <2>5 DEF KeyOf, AlertOf, matched
  <1> QED
    BY <1>2, <1>3 DEF Reports

\* A consumer that makes the alert of an operation works off a job that reports it.
LEMMA ReportsBack ==
    ASSUME TypeInv, NEW w \in Workers, job[w].at \in Running, NEW i \in DOMAIN operations,
           Key(w) = AlertOf(operations[i].id)
    PROVE  /\ Registered[job[w].seeker] = "operation_amount_uma" /\ i \in DOMAIN job[w].read
           /\ Reports(job[w].m, i)
  <1> DEFINE read == job[w].read
             m == job[w].m
             day == job[w].day
             matched == matchedOperations("operation_amount_uma", read, m, day)
  <1>1. /\ Rows(read) /\ \A h \in DOMAIN read : h \in DOMAIN operations /\ read[h] = operations[h]
        /\ Names(read, m)
    BY ReadRows DEF TypeInv, Holds
  <1>2. Registered[job[w].seeker] = "operation_amount_uma"
    BY KeyFound DEF AlertOf
  <1>3. matched # {} /\ Key(w) = KeyOf("operation_amount_uma", read, matched, day)
    BY <1>2 DEF TypeInv, Holds, Key, Matched
  <1>4. matched = Reaching(read, Evaluated(read, m))
    BY DEF matchedOperations, operation_amount_uma
  <1>5. Evaluated(read, m) \subseteq DOMAIN read /\ DOMAIN read \subseteq Nat
    BY <1>1, RowsAre DEF Evaluated
  <1>6. \A h \in matched : h \in DOMAIN read /\ h \in Nat /\ Reaches(operations[h].amount, Threshold)
    BY <1>1, <1>4, <1>5 DEF Reaching
  <1> HIDE DEF matched
  <1>7. PICK h \in Nat : h = Min(matched) /\ h \in matched /\ \A g \in matched : h <= g
    BY <1>3, <1>6, MinIs
  <1>8. KeyOf("operation_amount_uma", read, matched, day).ids = {read[h].id}
    BY <1>7 DEF KeyOf
  <1>9. h = i
    <2>1. {read[h].id} = {operations[i].id}
      BY <1>3, <1>8 DEF AlertOf
    <2>2. h \in DOMAIN operations /\ operations[h].id = operations[i].id
      BY <1>1, <1>6, <1>7, <2>1
    <2> QED
      BY <2>2 DEF TypeInv, Distinct
  <1>10. i \in DOMAIN read /\ Reaches(operations[i].amount, Threshold)
    BY <1>6, <1>7, <1>9
  <1>11. CASE m = Refresh
    <2>1. \A g \in DOMAIN read : read[g].id # m
      BY <1>1, <1>11, RowsAre, AlertDetectionAssumption
    <2>2. Evaluated(read, m) = DOMAIN read
      BY <2>1 DEF Evaluated
    <2>3. ASSUME NEW g \in 1..(i - 1), Reaches(operations[g].amount, Threshold)
          PROVE  FALSE
      <3>1. g \in DOMAIN read
        <4>1. DOMAIN read = 1..Len(read) /\ Len(read) \in Nat
          BY <1>1, RowsAre
        <4> HIDE DEF read
        <4> QED
          BY <1>10, <2>3, <4>1
      <3>2. g \in matched
        BY <1>1, <1>4, <2>2, <2>3, <3>1 DEF Reaching
      <3>3. i <= g
        BY <1>7, <1>9, <3>2
      <3> QED
        BY <1>7, <1>9, <2>3, <3>3
    <2> QED
      BY <1>2, <1>10, <1>11, <2>3 DEF Reports
  <1>12. CASE \E g \in DOMAIN read : read[g].id = m
    <2>1. h \in Evaluated(read, m)
      BY <1>4, <1>7 DEF Reaching
    <2>2. read[h].id = m
      BY <1>12, <2>1 DEF Evaluated
    <2>3. m = operations[i].id
      BY <1>1, <1>9, <1>10, <2>2
    <2> QED
      BY <1>2, <1>10, <2>3 DEF Reports
  <1> QED
    BY <1>1, <1>11, <1>12 DEF Names

LEMMA ToldRuns ==
    ASSUME TypeInv, NEW w \in Workers, RunStep(w), NEW i \in DOMAIN operations,
           Reports(job[w].m, i), i \in DOMAIN job[w].read, NEW k \in DOMAIN Registered,
           Registered[k] = "operation_amount_uma", job[w].seeker <= k
    PROVE  \/ job[w].m \in givenUp'
           \/ AlertOf(operations[i].id) \in told'
           \/ /\ job'[w].m = job[w].m /\ job'[w].read = job[w].read /\ job'[w].at \in Running
              /\ job'[w].seeker <= k
  <1>1. \A day : /\ Shows(w, k, day) # {}
                 /\ KeyOf(Registered[k], job[w].read, Shows(w, k, day), day)
                      = AlertOf(operations[i].id)
    BY ReadRows, ReportsForth DEF Shows
  <1>2. CASE Stays(w)
    BY <1>2 DEF Stays
  <1>3. CASE givenUp' = givenUp \cup {job[w].m}
    BY <1>3
  <1>4. CASE job'[w] = NextSeeker(job[w]) /\ told' = told \cup {Key(w)}
    <2>1. CASE job[w].seeker = k
      <3>1. Key(w) = AlertOf(operations[i].id)
        BY <1>1, <2>1, KeyIs
      <3> QED
        BY <1>4, <3>1
    <2>2. CASE job[w].seeker # k
      <3>1. job[w] \in JobRecord /\ job[w].seeker < k /\ now \in Nat
        BY <2>2, ReadRows, SeekersAre DEF TypeInv, Shapes
      <3>2. matchedOperations(Registered[k], job[w].read, job[w].m, now) # {}
        BY <1>1 DEF Shows
      <3> QED
        BY <1>4, <3>1, <3>2, NextSeekerIs DEF Running
    <2> QED
      BY <2>1, <2>2
  <1> QED
    BY <1>2, <1>3, <1>4, RunEffect DEF TypeInv

\* A consumer that will tell of operation i.
Tells(w, i) ==
    /\ Reports(job[w].m, i)
    /\ \/ At(w, "read")
       \/ /\ i \in DOMAIN job[w].read /\ job[w].at \in Running
          /\ \E k \in DOMAIN Registered :
               Registered[k] = "operation_amount_uma" /\ job[w].seeker <= k

LEMMA TellingIs ==
    /\ \A i : Telling(i) <=> (\E q \in queue : Reports(q.m, i)) \/ \E w \in Workers : Tells(w, i)
    /\ (\A i : Telling(i) <=> (\E q \in queue : Reports(q.m, i)) \/ \E w \in Workers : Tells(w, i))'
  BY DEF Telling, Tells

LEMMA ToldStep == TypeInv /\ FoundInv /\ ToldInv /\ [Next]_vars => ToldInv'
  <1> SUFFICES ASSUME TypeInv, FoundInv, ToldInv, [Next]_vars
               PROVE  ToldInv'
    OBVIOUS
  <1> DEFINE Alert(i) == AlertOf(operations[i].id)
             Safe(i) == Alert(i) \in told \/ givenUp # {} \/ Telling(i)
  <1>1. ASSUME operations' = operations, alerts' = alerts,
               \A i \in DOMAIN operations : Safe(i) => Safe(i)'
        PROVE  ToldInv'
    BY <1>1 DEF ToldInv
  <1>r. ASSUME operations' = operations
        PROVE  \A m, i : Reports(m, i)' <=> Reports(m, i)
    BY <1>r DEF Reports
  <1>2. ASSUME NEW w \in Workers, RunStep(w)
        PROVE  ToldInv'
    <2>1. /\ operations' = operations /\ queue' = queue /\ told \subseteq told'
          /\ job[w].at \in Running /\ alerts' \subseteq alerts \cup {Key(w)}
          /\ givenUp \subseteq givenUp' /\ \A x \in Workers \ {w} : job'[x] = job[x]
          /\ Stays(w) \/ job[w].m \in givenUp' \/ Key(w) \in told'
      BY <1>2, RunEffect DEF TypeInv
    <2>2. \A m, i : Reports(m, i)' <=> Reports(m, i)
      BY <1>r, <2>1
    <2>3. ASSUME NEW i \in DOMAIN operations, NEW x \in Workers, Tells(x, i)
          PROVE  Safe(i)'
      <3>1. CASE x = w
        <4>1. /\ Reports(job[w].m, i) /\ i \in DOMAIN job[w].read
              /\ \E k \in DOMAIN Registered :
                   Registered[k] = "operation_amount_uma" /\ job[w].seeker <= k
          BY <2>1, <2>3, <3>1 DEF Tells, At, Running
        <4>2. \/ job[w].m \in givenUp' \/ Alert(i) \in told'
              \/ /\ job'[w].m = job[w].m /\ job'[w].read = job[w].read /\ job'[w].at \in Running
                 /\ \E k \in DOMAIN Registered :
                      Registered[k] = "operation_amount_uma" /\ job'[w].seeker <= k
          BY <1>2, <4>1, ToldRuns
        <4>3. CASE /\ job'[w].m = job[w].m /\ job'[w].read = job[w].read /\ job'[w].at \in Running
                   /\ \E k \in DOMAIN Registered :
                        Registered[k] = "operation_amount_uma" /\ job'[w].seeker <= k
          <5>1. Reports(job[w].m, i)'
            BY <2>1, <4>1, <4>3 DEF Reports
          <5>2. Tells(w, i)'
            BY <4>1, <4>3, <5>1 DEF Tells
          <5> QED
            BY <5>2, TellingIs
        <4> QED
          BY <2>1, <4>2, <4>3
      <3>2. CASE x # w
        <4>1. job'[x] = job[x]
          BY <2>1, <3>2
        <4>2. Tells(x, i)'
          BY <2>2, <2>3, <4>1 DEF Tells, At
        <4> QED
          BY <4>2, TellingIs
      <3> QED
        BY <3>1, <3>2
    <2>4. ASSUME NEW i \in DOMAIN operations, Safe(i)
          PROVE  Safe(i)'
      <3>1. CASE Alert(i) \in told \/ givenUp # {}
        BY <2>1, <3>1
      <3>2. CASE \E q \in queue : Reports(q.m, i)
        BY <2>1, <2>2, <3>2, TellingIs
      <3> QED
        BY <2>3, <2>4, <3>1, <3>2, TellingIs
    <2>5. ASSUME NEW i \in DOMAIN operations, Alert(i) = Key(w)
          PROVE  Safe(i)'
      <3>1. CASE Stays(w)
        <4>1. /\ Registered[job[w].seeker] = "operation_amount_uma" /\ i \in DOMAIN job[w].read
              /\ Reports(job[w].m, i)
          BY <2>1, <2>5, ReportsBack
        <4>2. job[w].seeker \in DOMAIN Registered /\ job[w].seeker <= job[w].seeker
          BY <2>1, SeekersAre DEF TypeInv, Holds
        <4>3. Reports(job[w].m, i)'
          BY <2>1, <3>1, <4>1 DEF Stays, Reports
        <4>4. Tells(w, i)'
          BY <3>1, <4>1, <4>2, <4>3 DEF Tells, Stays
        <4> QED
          BY <4>4, TellingIs
      <3>2. CASE job[w].m \in givenUp' \/ Key(w) \in told'
        BY <2>1, <2>5, <3>2
      <3> QED
        BY <2>1, <3>1, <3>2
    <2>6. ASSUME NEW i \in DOMAIN operations, Alert(i) \in alerts'
          PROVE  Safe(i)'
      BY <2>1, <2>4, <2>5, <2>6 DEF ToldInv
    <2> QED
      BY <2>1, <2>6 DEF ToldInv
  <1>3. ASSUME NEW w \in Workers, ReadOperations(w)
        PROVE  ToldInv'
    <2>1. /\ UNCHANGED <<operations, queue, alerts, told, givenUp>> /\ job[w].at = "read"
          /\ \A x \in Workers \ {w} : job'[x] = job[x]
      BY <1>3, ReadEffect DEF At
    <2>2. \A m, i : Reports(m, i)' <=> Reports(m, i)
      BY <1>r, <2>1
    <2>3. ASSUME NEW i \in DOMAIN operations, Alert(i) \in alerts, NEW x \in Workers, Tells(x, i)
          PROVE  Tells(x, i)'
      <3>1. CASE x = w
        <4>1. PICK k \in DOMAIN Registered : Registered[k] = "operation_amount_uma"
          BY <2>3 DEF FoundInv, Found, AlertOf, ToSet
        <4>2. Reports(job[w].m, i)
          BY <2>3, <3>1 DEF Tells
        <4>3. matchedOperations(Registered[k], operations, job[w].m, now) # {}
          BY <4>1, <4>2, ReportsForth DEF TypeInv, Shapes, Rows
        <4>4. job'[w].m = job[w].m /\ job'[w].read = operations /\ job'[w].at \in Running
              /\ job'[w].seeker <= k
          BY <1>3, <4>3, YetReads
        <4>5. Reports(job[w].m, i)'
          BY <2>1, <4>2, <4>4 DEF Reports
        <4> QED
          BY <3>1, <4>1, <4>4, <4>5 DEF Tells
      <3>2. CASE x # w
        <4>1. job'[x] = job[x]
          BY <2>1, <3>2
        <4> QED
          BY <2>2, <2>3, <4>1 DEF Tells, At
      <3> QED
        BY <3>1, <3>2
    <2>4. ASSUME NEW i \in DOMAIN operations', Alert(i)' \in alerts'
          PROVE  Safe(i)'
      <3>1. i \in DOMAIN operations /\ Alert(i) \in alerts /\ Safe(i)
        BY <2>1, <2>4 DEF ToldInv
      <3>2. Telling(i) => Telling(i)'
        BY <2>1, <2>2, <2>3, <3>1, TellingIs
      <3> QED
        BY <2>1, <3>1, <3>2
    <2> QED
      BY <2>4 DEF ToldInv
  <1>4. ASSUME NEW w \in Workers, NEW m \in Jobs, Deliver(w, m)
        PROVE  ToldInv'
    <2>1. /\ job[w] = Idle /\ UNCHANGED <<operations, alerts, told, givenUp>>
          /\ \A x \in Workers \ {w} : job'[x] = job[x]
          /\ job'[w].m = m /\ job'[w].at = "read" /\ \A q \in queue : q \in queue' \/ q.m = m
      BY <1>4, DeliverEffect
    <2>2. \A x, i : Reports(x, i)' <=> Reports(x, i)
      BY <1>r, <2>1
    <2>3. ASSUME NEW i \in DOMAIN operations, NEW x \in Workers, Tells(x, i)
          PROVE  Tells(x, i)'
      <3>1. x # w
        BY <2>1, <2>3, IdleTyped DEF Tells, At, Running
      <3>2. job'[x] = job[x]
        BY <2>1, <3>1
      <3> QED
        BY <2>2, <2>3, <3>2 DEF Tells, At
    <2>4. ASSUME NEW i \in DOMAIN operations, NEW q \in queue, Reports(q.m, i)
          PROVE  Telling(i)'
      <3>1. CASE q \in queue'
        BY <2>2, <2>4, <3>1, TellingIs
      <3>2. CASE q.m = m
        <4>1. Reports(job[w].m, i)'
          BY <2>1, <2>4, <3>2 DEF Reports
        <4>2. Tells(w, i)'
          BY <2>1, <4>1 DEF Tells, At
        <4> QED
          BY <4>2, TellingIs
      <3> QED
        BY <2>1, <3>1, <3>2
    <2>5. \A i \in DOMAIN operations : Telling(i) => Telling(i)'
      BY <2>3, <2>4, TellingIs
    <2> QED
      BY <1>1, <2>1, <2>5
  <1>5. ASSUME NEW w \in Workers, Retry(w)
        PROVE  ToldInv'
    <2>1. /\ UNCHANGED <<operations, alerts, told>> /\ \A x \in Workers \ {w} : job'[x] = job[x]
          /\ queue \subseteq queue' /\ givenUp \subseteq givenUp'
          /\ (\E q \in queue' : q.m = job[w].m) \/ job[w].m \in givenUp'
      BY <1>5, RetryEffect
    <2>2. \A x, i : Reports(x, i)' <=> Reports(x, i)
      BY <1>r, <2>1
    <2>3. ASSUME NEW i \in DOMAIN operations, NEW x \in Workers, Tells(x, i), givenUp' = {}
          PROVE  Telling(i)'
      <3>1. CASE x = w
        <4>1. Reports(job[w].m, i)
          BY <2>3, <3>1 DEF Tells
        <4>2. \E q \in queue' : Reports(q.m, i)'
          BY <2>1, <2>2, <2>3, <4>1
        <4> QED
          BY <4>2, TellingIs
      <3>2. CASE x # w
        <4>1. job'[x] = job[x]
          BY <2>1, <3>2
        <4>2. Tells(x, i)'
          BY <2>2, <2>3, <4>1 DEF Tells, At
        <4> QED
          BY <4>2, TellingIs
      <3> QED
        BY <3>1, <3>2
    <2>4. \A i \in DOMAIN operations : Telling(i) => Telling(i)' \/ givenUp' # {}
      BY <2>1, <2>2, <2>3, TellingIs
    <2> QED
      BY <1>1, <2>1, <2>4
  <1>6. ASSUME NEW o \in Operations, CreateOperation(o)
        PROVE  ToldInv'
    <2>1. /\ Grows /\ UNCHANGED <<alerts, job, told>> /\ queue \subseteq queue'
          /\ givenUp \subseteq givenUp'
          /\ \A i \in DOMAIN operations' : i \in DOMAIN operations \/ operations'[i].id = o
          /\ \A i \in DOMAIN operations : operations[i].id # o
      BY <1>6, CreateEffect
    <2>2. ASSUME NEW i \in DOMAIN operations
          PROVE  /\ operations'[i] = operations[i]
                 /\ \A m : Reports(m, i) => Reports(m, i)'
      <3>1. \A h \in DOMAIN operations : operations'[h] = operations[h]
        BY <2>1 DEF Grows
      <3>2. 1..(i - 1) \subseteq DOMAIN operations
        <4>1. DOMAIN operations = 1..Len(operations) /\ Len(operations) \in Nat
          BY Lengths DEF TypeInv
        <4> QED
          BY <4>1
      <3> QED
        BY <3>1, <3>2 DEF Reports
    <2>3. ASSUME NEW i \in DOMAIN operations, Telling(i)
          PROVE  Telling(i)'
      <3>1. \A w \in Workers : Tells(w, i) => Tells(w, i)'
        BY <2>1, <2>2 DEF Tells, At
      <3> QED
        BY <2>1, <2>2, <2>3, <3>1, TellingIs
    <2>4. ASSUME NEW i \in DOMAIN operations', Alert(i)' \in alerts'
          PROVE  Safe(i)'
      <3>1. operations'[i].id \in Entered
        BY <2>1, <2>4 DEF FoundInv, Found, AlertOf
      <3>2. i \in DOMAIN operations
        BY <2>1, <3>1 DEF Entered
      <3> QED
        BY <2>1, <2>2, <2>3, <2>4, <3>2 DEF ToldInv
    <2> QED
      BY <2>4 DEF ToldInv
  <1>7. CASE ChangeClient
    <2>1. /\ UNCHANGED <<operations, alerts, job, told>>
          /\ queue \subseteq queue' /\ givenUp \subseteq givenUp'
      BY <1>7, ChangeEffect
    <2>2. \A m, i : Reports(m, i)' <=> Reports(m, i)
      BY <1>r, <2>1
    <2>3. \A i \in DOMAIN operations, w \in Workers : Tells(w, i) => Tells(w, i)'
      BY <2>1, <2>2 DEF Tells, At
    <2>4. \A i \in DOMAIN operations : Telling(i) => Telling(i)'
      BY <2>1, <2>2, <2>3, TellingIs
    <2> QED
      BY <1>1, <2>1, <2>4
  <1>8. CASE Tick \/ UNCHANGED vars
    <2>1. UNCHANGED <<operations, queue, alerts, job, told, givenUp>>
      BY <1>8 DEF Tick, vars
    <2>2. \A i : Telling(i) => Telling(i)'
      BY <2>1 DEF Telling, Reports, At
    <2> QED
      BY <1>1, <2>1, <2>2
  <1> QED
    BY <1>2, <1>3, <1>4, <1>5, <1>6, <1>7, <1>8 DEF Next, Process, RunStep

-----------------------------------------------------------------------------
(* The theorems.                                                           *)

LEMMA NothingYet ==
    ASSUME Init
    PROVE  FoundInv /\ OwnInv /\ TogetherInv /\ ToldInv /\ DayInv
  <1>1. operations = <<>> /\ alerts = {} /\ told = {} /\ DOMAIN operations = {}
    BY EmptySeq DEF Init
  <1>2. DayInv
    BY IdleTyped DEF Init, DayInv, Running
  <1> QED
    BY <1>1, <1>2 DEF FoundInv, OwnInv, TogetherInv, ToldInv

LEMMA Invariants == Spec => [](TypeInv /\ FoundInv /\ OwnInv /\ DayInv /\ TogetherInv /\ ToldInv)
  <1>1. Init => TypeInv /\ FoundInv /\ OwnInv /\ DayInv /\ TogetherInv /\ ToldInv
    BY TypeInit, NothingYet
  <1>2. TypeInv /\ FoundInv /\ OwnInv /\ DayInv /\ TogetherInv /\ ToldInv /\ [Next]_vars
          => (TypeInv /\ FoundInv /\ OwnInv /\ DayInv /\ TogetherInv /\ ToldInv)'
    BY TypeStep, FoundStep, OwnStep, DayStep, TogetherStep, ToldStep
  <1> QED
    BY <1>1, <1>2, PTL DEF Spec

\* The rows a consumer read are the first of the table.
LEMMA ReadsPrefix ==
    ASSUME TypeInv, NEW w \in Workers
    PROVE  IsPrefix(job[w].read, operations)
  <1> DEFINE read == job[w].read
  <1>1. /\ read \in Seq(Row) /\ Len(read) \in Nat /\ DOMAIN read = 1..Len(read)
        /\ \A i \in DOMAIN read : i \in DOMAIN operations /\ read[i] = operations[i]
    BY ReadRows, RowsAre DEF Rows
  <1>2. /\ operations \in Seq(Row) /\ Len(operations) \in Nat
        /\ DOMAIN operations = 1..Len(operations)
    BY LenProperties DEF TypeInv, Shapes
  <1> HIDE DEF read
  <1>3. Len(read) <= Len(operations)
    <2>1. Len(read) # 0 => Len(read) \in DOMAIN read
      BY <1>1
    <2> QED
      BY <1>1, <1>2, <2>1
  <1>4. SubSeq(read, 1, Len(read)) = read
    BY <1>1, SubSeqFull
  <1> DEFINE first == SubSeq(operations, 1, Len(read))
  <1>5. first = read
    <2>1. \A i \in 1..Len(read) : operations[i] \in Row
      BY <1>1, <1>2, ElementOfSeq
    <2>2. /\ first \in Seq(Row) /\ Len(first) = (IF 1 <= Len(read) THEN Len(read) - 1 + 1 ELSE 0)
          /\ \A i \in 1..(Len(read) - 1 + 1) : first[i] = operations[1 + i - 1]
      BY <1>1, <2>1, SubSeqProperties
    <2> HIDE DEF first
    <2>3. Len(first) = Len(read) /\ \A i \in 1..Len(first) : first[i] = read[i]
      BY <1>1, <2>2
    <2> QED
      BY <1>1, <2>2, <2>3, SeqEqual
  <1>6. IsPrefix(read, operations)
    BY <1>3, <1>4, <1>5 DEF IsPrefix
  <1> QED
    BY <1>6 DEF read

\* The tables hold what their columns may hold, every alert is about operations that were
\* entered, and a consumer works off a job over the first rows of the table, with a seeker
\* that triggered over them (AlertDetectionProcessor.runSeekers).
THEOREM TypeCorrect == Spec => []TypeOK
  <1>1. TypeInv /\ FoundInv /\ DayInv => TypeOK
    <2> SUFFICES ASSUME TypeInv, FoundInv, DayInv
                 PROVE  TypeOK
      OBVIOUS
    <2>1. /\ operations \in Seq([id: Operations, amount: Amounts, date: Dates])
          /\ queue \subseteq [m: Jobs, n: 0..(MaxDeliveries - 1)] /\ givenUp \subseteq Jobs
      BY DEF TypeInv, Shapes, Row
    <2>2. ASSUME NEW a \in alerts \cup told
          PROVE  a.seeker \in SeekerType /\ a.ids \subseteq Entered
      BY <2>2, SeekersAre DEF FoundInv, Found, ToSet
    <2>3. ASSUME NEW w \in Workers
          PROVE  LET j == job[w] IN
                   /\ IsPrefix(j.read, operations)
                   /\ IF j.at = "idle" THEN j = Idle
                      ELSE /\ j.m \in Jobs /\ j.n \in 1..MaxDeliveries
                           /\ j.at \in {"look", "insert", "tell"} => Matched(w) # {}
      BY <2>3, ReadsPrefix DEF TypeInv, Holds, Matched, Running
    <2>4. now \in Nat /\ since \in 0..now
      BY DEF TypeInv, Shapes, DayInv
    <2> QED
      BY <2>1, <2>2, <2>3, <2>4 DEF TypeOK
  <1> QED
    BY <1>1, Invariants, PTL

\* An operation that reaches the threshold has its alert once its job is worked off, unless
\* the job was lost or the seeker failed at every attempt, for any number of operations,
\* consumers and faults (operation-amount-uma.seeker and AlertRepository.create).
THEOREM LargeOperations ==
    ASSUME "operation_amount_uma" \in ToSet(Registered)
    PROVE  Spec => []LargeOperationAlerted
  <1>1. TypeInv /\ OwnInv => LargeOperationAlerted
    <2> SUFFICES ASSUME TypeInv, OwnInv, NEW i \in DOMAIN operations,
                        operations[i].amount >= Threshold, ~InFlight(operations[i].id)
                 PROVE  \/ AlertOf(operations[i].id) \in alerts
                        \/ operations[i].id \in givenUp
      BY DEF LargeOperationAlerted
    <2>1. PICK k \in DOMAIN Registered : Registered[k] = "operation_amount_uma"
      BY DEF ToSet
    <2>2. Registered[k] \in Single /\ Reported(Registered[k], i)
      BY <2>1 DEF Single, Reported, Reaches
    <2>3. ~OwnJob(k, i)
      BY DEF OwnJob, InFlight, Working
    <2> QED
      BY <2>1, <2>2, <2>3 DEF OwnInv, AlertOf
  <1> QED
    BY <1>1, Invariants, PTL

\* When all jobs are worked off, none lost and no seeker failed, then for each seeker there is
\* a day since the last operation was entered on which what all the operations of the client
\* showed together has its alert, in whatever order they were entered and delivered, whatever
\* each consumer had read, and however many days passed meanwhile (runSeekers,
\* findMinimalTriggeringSet, filterOperationsInWindow).
THEOREM TogetherIsAlerted == Spec => []TogetherAlerted
  <1>1. TypeInv /\ OwnInv /\ DayInv /\ TogetherInv => TogetherAlerted
    <2> SUFFICES ASSUME TypeInv, OwnInv, DayInv, TogetherInv, Quiet, operations # <<>>,
                        givenUp = {}, NEW k \in DOMAIN Registered,
                        Registered[k] \notin {"operation_amount_uma", "pep_above_threshold"}
                 PROVE  Seen(k)
      BY DEF TogetherAlerted, ToSet, Seen
    <2>1. queue = {} /\ \A w \in Workers : job[w].at = "idle"
      BY DEF Quiet, At
    <2>2. CASE Registered[k] \in Together
      <3>1. ~LastJob(k)
        BY <2>1 DEF LastJob, At, Yet, Running
      <3> QED
        BY <2>2, <3>1 DEF TogetherInv
    <2>3. CASE Registered[k] = "pep_or_high_risk" /\ (isPep \/ isHighRisk)
      <3>1. Rows(operations) /\ \A i \in DOMAIN operations : i \in Nat /\ operations[i].id # Refresh
        <4>1. Rows(operations)
          BY DEF TypeInv, Shapes, Rows
        <4> QED
          BY <4>1, RowsAre, AlertDetectionAssumption
      <3>2. Evaluated(operations, Refresh) = DOMAIN operations
        BY <3>1 DEF Evaluated
      <3> DEFINE matched == matchedOperations(Registered[k], operations, Refresh, now)
      <3>3. matched = (IF Cardinality(DOMAIN operations) = 1 THEN DOMAIN operations
                       ELSE {Latest(operations, DOMAIN operations)})
        BY <2>3, <3>2 DEF matchedOperations, pep_or_high_risk
      <3> HIDE DEF matched
      <3>4. PICK i \in DOMAIN operations : matched = {i}
        <4>1. CASE Cardinality(DOMAIN operations) = 1
          <5>1. IsFiniteSet(DOMAIN operations)
            BY <3>1, RowsAre
          <5>2. \E i : DOMAIN operations = {i}
            BY <4>1, <5>1, FS_Singleton
          <5> QED
            BY <3>3, <4>1, <5>2
        <4>2. CASE Cardinality(DOMAIN operations) # 1
          <5>1. Len(operations) # 0
            BY <3>1, EmptySeq DEF Rows
          <5>2. DOMAIN operations # {}
            BY <3>1, <5>1, RowsAre
          <5> QED
            BY <3>1, <3>3, <4>2, <5>2, LatestIs
        <4> QED
          BY <4>1, <4>2
      <3>5. KeyOf(Registered[k], operations, {i}, now)
              = [seeker |-> Registered[k], week |-> 0, ids |-> {operations[i].id}]
        BY <2>3, <3>1, <3>4, MinOfOne DEF KeyOf
      <3>6. ~OwnJob(k, i)
        BY <2>1 DEF OwnJob, At, Yet, Running
      <3>7. Registered[k] \in Single /\ Reported(Registered[k], i)
        BY <2>3 DEF Single, Reported
      <3>8. KeyOf(Registered[k], operations, matched, now) \in alerts
        BY <3>4, <3>5, <3>6, <3>7 DEF OwnInv
      <3>9. now \in since..now
        BY DEF DayInv, TypeInv, Shapes
      <3> QED
        BY <3>8, <3>9 DEF Seen, matched
    <2>4. CASE Registered[k] = "pep_or_high_risk" /\ ~(isPep \/ isHighRisk)
      <3>1. matchedOperations(Registered[k], operations, Refresh, now) = {}
        BY <2>4 DEF matchedOperations, pep_or_high_risk
      <3>2. now \in since..now
        BY DEF DayInv, TypeInv, Shapes
      <3> QED
        BY <3>1, <3>2 DEF Seen
    <2> QED
      BY <2>2, <2>3, <2>4, SeekersAre DEF SeekerType, Together
  <1> QED
    BY <1>1, Invariants, PTL

\* Of an alert for an operation the organization is told, even when the consumer died
\* between creating it and telling, unless the job was lost or the seeker failed.
THEOREM AlertsAreTold == Spec => []AlertTold
  <1>1. TypeInv /\ ToldInv => AlertTold
    <2> SUFFICES ASSUME TypeInv, ToldInv, NEW i \in DOMAIN operations,
                        AlertOf(operations[i].id) \in alerts,
                        AlertOf(operations[i].id) \notin told
                 PROVE  \E m \in Jobs : InFlight(m) \/ m \in givenUp
      BY DEF AlertTold, Entered
    <2>1. CASE givenUp # {}
      BY <2>1 DEF TypeInv, Shapes
    <2>2. CASE \E q \in queue : Reports(q.m, i)
      BY <2>2 DEF TypeInv, Shapes, InFlight
    <2>3. CASE \E w \in Workers : Tells(w, i)
      <3>1. PICK w \in Workers : Tells(w, i)
        BY <2>3
      <3>2. job[w].at # "idle"
        BY <3>1 DEF Tells, At, Running
      <3>3. job[w].m \in Jobs
        BY <3>2 DEF TypeInv, Holds
      <3> QED
        BY <3>3 DEF InFlight, Working
    <2> QED
      BY <2>1, <2>2, <2>3, TellingIs DEF ToldInv
  <1> QED
    BY <1>1, Invariants, PTL
=============================================================================
