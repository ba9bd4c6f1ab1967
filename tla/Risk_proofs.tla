---------------------------- MODULE Risk_proofs ----------------------------
(***************************************************************************)
(* Theorems about the rating of risk, for all constants.                   *)
(*                                                                         *)
(* RiskAssessment: whichever jobs are lost, repeated or interrupted, what  *)
(* was not given up is assessed, announced and whole.                      *)
(*                                                                         *)
(* RiskScoring: the two ratings of a client agree up to what ranges round, *)
(* and what makes a client worse never lowers a rating.                    *)
(***************************************************************************)
EXTENDS RiskAssessment, RiskScoring, FiniteSetTheorems, SequenceTheorems, WellFoundedInduction, TLAPS

-----------------------------------------------------------------------------
(* RiskAssessment                                                          *)

OnClient == {"read", "number", "insert", "copy"}
OnOrg == {"number org", "supersede", "insert org", "elements"}
Places == {"idle", "list", "announce"} \cup OnClient \cup OnOrg

Message == [kind: {"assess", "batch", "org"}, c: Clients \cup {NoClient}, n: Nat]
Assessment == [version: Nat \ {0}, level: Levels, basis: Nat \ {0}]
OrgAssessment == [version: Nat \ {0}, status: {"ACTIVE", "SUPERSEDED"}, whole: BOOLEAN]
JobRecord == [m: Message \cup {NoJob}, at: Places, c: Clients \cup {NoClient}, rest: SUBSET Clients,
              level: Levels \cup {"none"}, basis: Nat, version: Nat]

Shapes ==
    /\ facts \in [Clients -> [level: Levels \cup {"none"}, changes: Nat, sent: Nat]]
    /\ assessments \in [Clients -> Seq(Assessment)]
    /\ client \in [Clients -> [riskLevel: Levels \cup {"none"}, due: BOOLEAN]]
    /\ org \in Seq(OrgAssessment)
    /\ IsABag(queue)
    /\ job \in [Workers -> JobRecord]
    /\ owed \subseteq Clients /\ givenUp \subseteq Clients \cup {"org"}
    /\ bound \in [requests: 0..MaxRequests, reviews: Nat, faults: Nat]

\* What the requests and the assessments of a client have to do with each other.
ClientInv(c) ==
    /\ facts[c].changes <= bound.requests /\ facts[c].sent <= facts[c].changes
    /\ c \in Created => facts[c].level \in Levels
    /\ \A i \in DOMAIN assessments[c] :
         /\ assessments[c][i].basis <= facts[c].changes
         /\ assessments[c][i].version <= Len(assessments[c])
    /\ client[c].riskLevel # "none" =>
         \E i \in DOMAIN assessments[c] : assessments[c][i].level = client[c].riskLevel
    /\ client[c].due => client[c].riskLevel # "none"

\* Jobs that wait name clients that exist.
Waiting(m) == m \in Message /\ m.n < MaxDeliveries /\ (m.kind = "assess" => m.c \in Created)

\* What a consumer holds while it works on a job.
Working(w) ==
    LET j == job[w] IN
    /\ j.at # "idle" => /\ j.m \in Message /\ j.m.n \in 1..MaxDeliveries
                        /\ j.m.kind = "assess" => j.m.c \in Created
    /\ j.at \in OnClient =>
         /\ j.c \in Created /\ j.rest \subseteq Created
         /\ j.m.kind = "batch" \/ (j.m.kind = "assess" /\ j.c = j.m.c)
    /\ j.at = "announce" => j.m.kind = "assess" /\ j.c = j.m.c
    /\ j.at = "list" => j.m.kind = "batch"
    /\ j.at \in OnOrg => j.m.kind = "org"
    /\ j.at \in {"number", "insert", "copy"} => j.level \in Levels /\ j.basis \in 1..facts[j.c].changes
    /\ j.at = "insert" => j.version \in 1..(Len(assessments[j.c]) + 1)
    /\ j.at = "copy" => \E i \in DOMAIN assessments[j.c] : assessments[j.c][i].level = j.level
    /\ j.at \in {"supersede", "insert org"} => j.version \in 1..(Len(org) + 1)
    /\ j.at = "elements" => j.basis \in 1..Len(org)

OrgVersions == \A i \in DOMAIN org : org[i].version <= Len(org)

TypeInv ==
    /\ Shapes
    /\ \A c \in Clients : ClientInv(c)
    /\ \A m \in BagToSet(queue) : Waiting(m)
    /\ \A w \in Workers : Working(w)
    /\ OrgVersions

\* A job that waits will assess client c.
Names(m, c) == m.kind = "batch" \/ (m.kind = "assess" /\ m.c = c)

\* A consumer that will assess client c as it is, or did and has yet to write it.
Reaches(w, c) ==
    \/ At(w, "list")
    \/ job[w].at \in OnClient /\ job[w].m.kind = "batch" /\ c \in job[w].rest
    \/ At(w, "read") /\ job[w].c = c
    \/ job[w].at \in {"number", "insert"} /\ job[w].c = c /\ job[w].basis >= facts[c].sent

Covered(c) ==
    \/ c \in givenUp
    \/ \E i \in DOMAIN assessments[c] : assessments[c][i].basis >= facts[c].sent
    \/ \E m \in BagToSet(queue) : Names(m, c)
    \/ \E w \in Workers : Reaches(w, c)

ChangeInv == \A c \in Created : Covered(c)

\* A consumer that will announce client c, or find that it is not HIGH.
WillTell(w, c) ==
    /\ job[w].at \in OnClient \/ (At(w, "announce") /\ job[w].level = "HIGH")
    /\ job[w].m.kind = "assess" /\ job[w].m.c = c

Told(c) ==
    \/ c \in givenUp
    \/ \E m \in BagToSet(queue) : m.kind = "assess" /\ m.c = c
    \/ \E w \in Workers : WillTell(w, c)

HighInv == \A c \in owed : Told(c)

OrgWaits == "org" \in givenUp \/ \E m \in BagToSet(queue) : m.kind = "org"

\* If no assessment of the organization is in force, a job is about to write one, and one
\* in force without its elements has a job that writes them or will supersede it.
InForce ==
    \/ org = <<>> \/ OrgWaits
    \/ \E i \in DOMAIN org : org[i].status = "ACTIVE"
    \/ \E w \in Workers : job[w].at \in {"number org", "supersede", "insert org"}

Complete ==
    \A i \in DOMAIN org : org[i].status = "ACTIVE" /\ ~org[i].whole =>
        \/ OrgWaits
        \/ \E w \in Workers : job[w].at \in {"number org", "supersede"}
        \/ \E w \in Workers : At(w, "elements") /\ job[w].basis = i

OrgInv == InForce /\ Complete

-----------------------------------------------------------------------------
(* Numbers, bags and rows.                                                 *)

LEMMA LeastNatural ==
    ASSUME NEW T, T \subseteq Nat, T # {}
    PROVE  \E x \in T : \A y \in T : x <= y
  <1> DEFINE R == {ss \in Nat \X Nat : ss[1] < ss[2]}
  <1>1. IsWellFoundedOn(R, Nat)
    BY NatLessThanWellFounded DEF OpToRel
  <1> HIDE DEF R
  <1>2. PICK x \in T : \A y \in T : <<y, x>> \notin R
    BY <1>1, WFMin
  <1>3. ASSUME NEW y \in T
        PROVE  x <= y
    <2>1. x \in Nat /\ y \in Nat /\ <<y, x>> \notin R
      BY <1>2, <1>3
    <2>2. ~(y < x)
      BY <2>1 DEF R
    <2> QED
      BY <2>1, <2>2
  <1> QED
    BY <1>3

LEMMA GreatestNatural ==
    ASSUME NEW S, NEW n \in Nat, S \subseteq 1..n, S # {}
    PROVE  \E v \in S : \A u \in S : u <= v
  <1> DEFINE T == {b \in Nat : \A u \in S : u <= b}
  <1>1. n \in T /\ T \subseteq Nat
    OBVIOUS
  <1>2. PICK b \in T : \A y \in T : b <= y
    BY <1>1, LeastNatural
  <1>3. ASSUME b \notin S
        PROVE  FALSE
    <2>1. \A u \in S : u \in Nat /\ u >= 1 /\ u <= b /\ u # b
      BY <1>2, <1>3
    <2>2. b \in Nat /\ b >= 1
      <3>1. PICK u \in S : TRUE
        OBVIOUS
      <3> QED
        BY <1>2, <2>1, <3>1
    <2>3. b - 1 \in Nat /\ \A u \in S : u <= b - 1
      BY <2>1, <2>2
    <2>4. b <= b - 1
      BY <1>2, <2>3
    <2> QED
      BY <2>2, <2>4
  <1> QED
    BY <1>2, <1>3

LEMMA BagAdd ==
    ASSUME NEW q, IsABag(q), NEW S
    PROVE  IsABag(q (+) SetToBag(S)) /\ BagToSet(q (+) SetToBag(S)) = BagToSet(q) \cup S
  BY DEF IsABag, BagToSet, (+), SetToBag

LEMMA BagTake ==
    ASSUME NEW q, IsABag(q), NEW m
    PROVE  /\ IsABag(q (-) SetToBag({m}))
           /\ BagToSet(q (-) SetToBag({m})) \subseteq BagToSet(q)
           /\ BagToSet(q) \ {m} \subseteq BagToSet(q (-) SetToBag({m}))
  BY DEF IsABag, (-), SetToBag, BagToSet

\* The next version follows the versions of the rows there are.
LEMMA NextFits ==
    ASSUME NEW S, NEW rows \in Seq(S), \A r \in S : r.version \in Nat \ {0},
           \A i \in DOMAIN rows : rows[i].version <= Len(rows)
    PROVE  NextVersion(rows) \in 1..(Len(rows) + 1)
  <1>1. Len(rows) \in Nat /\ DOMAIN rows = 1..Len(rows) /\ \A i \in DOMAIN rows : rows[i] \in S
    BY LenProperties, ElementOfSeq
  <1>2. Versions(rows) \subseteq 1..Len(rows)
    BY <1>1 DEF Versions
  <1>3. CASE rows = <<>>
    BY <1>1, <1>3 DEF NextVersion
  <1>4. CASE rows # <<>>
    <2>1. 1 \in DOMAIN rows
      BY <1>1, <1>4, EmptySeq
    <2>2. Versions(rows) # {}
      BY <2>1 DEF Versions
    <2>3. \E v \in Versions(rows) : \A u \in Versions(rows) : u <= v
      BY <1>1, <1>2, <2>2, GreatestNatural
    <2> DEFINE v == CHOOSE v \in Versions(rows) : \A u \in Versions(rows) : u <= v
    <2>4. v \in Versions(rows)
      BY <2>3
    <2>5. NextVersion(rows) = 1 + v
      BY <1>4 DEF NextVersion
    <2> HIDE DEF v
    <2> QED
      BY <1>1, <1>2, <2>4, <2>5
  <1> QED
    BY <1>3, <1>4

-----------------------------------------------------------------------------
(* What the parts of the steps do.                                         *)

Bounds == [requests: 0..MaxRequests, reviews: Nat, faults: Nat]

LEMMA SpendEffect ==
    ASSUME Shapes
    PROVE  /\ Fault => bound' \in Bounds /\ bound'.requests = bound.requests
           /\ Spend("requests", MaxRequests) =>
                bound' \in Bounds /\ bound'.requests = bound.requests + 1
           /\ Spend("reviews", MaxReviews) =>
                bound' \in Bounds /\ bound'.requests = bound.requests
           /\ SpendAndFault("requests", MaxRequests) =>
                bound' \in Bounds /\ bound'.requests = bound.requests + 1
  <1>1. bound \in Bounds /\ MaxRequests \in Nat /\ MaxReviews \in Nat /\ MaxFaults \in Nat
    BY RiskAssessmentAssumption DEF Shapes, Bounds
  <1>2. bound.requests \in 0..MaxRequests /\ bound.reviews \in Nat /\ bound.faults \in Nat
    BY <1>1 DEF Bounds
  <1>3. ASSUME Fault
        PROVE  bound' \in Bounds /\ bound'.requests = bound.requests
    <2>1. bound' = [bound EXCEPT !.faults = bound.faults + 1]
      BY <1>3 DEF Fault, Spend
    <2> QED
      BY <1>1, <1>2, <2>1 DEF Bounds
  <1>4. ASSUME Spend("requests", MaxRequests)
        PROVE  bound' \in Bounds /\ bound'.requests = bound.requests + 1
    <2>1. bound' = [bound EXCEPT !.requests = bound.requests + 1] /\ bound.requests < MaxRequests
      BY <1>4 DEF Spend
    <2> QED
      BY <1>1, <1>2, <2>1 DEF Bounds
  <1>5. ASSUME Spend("reviews", MaxReviews)
        PROVE  bound' \in Bounds /\ bound'.requests = bound.requests
    <2>1. bound' = [bound EXCEPT !.reviews = bound.reviews + 1]
      BY <1>5 DEF Spend
    <2> QED
      BY <1>1, <1>2, <2>1 DEF Bounds
  <1>6. ASSUME SpendAndFault("requests", MaxRequests)
        PROVE  bound' \in Bounds /\ bound'.requests = bound.requests + 1
    <2>1. /\ bound' = [bound EXCEPT !.requests = bound.requests + 1, !.faults = bound.faults + 1]
          /\ bound.requests < MaxRequests
      BY <1>6 DEF SpendAndFault
    <2>2. PICK a \in 0..MaxRequests, b \in Nat : a = bound.requests + 1 /\ b = bound.faults + 1
      BY <1>1, <1>2, <2>1
    <2>3. bound' = [bound EXCEPT !.requests = a, !.faults = b]
      BY <2>1, <2>2
    <2> QED
      BY <1>1, <2>2, <2>3 DEF Bounds
  <1> QED
    BY <1>3, <1>4, <1>5, <1>6

LEMMA SendEffect ==
    ASSUME Shapes, NEW m, Send(m)
    PROVE  /\ IsABag(queue')
           /\ BagToSet(queue) \subseteq BagToSet(queue')
           /\ BagToSet(queue') \subseteq BagToSet(queue) \cup {m}
           /\ givenUp \subseteq givenUp' /\ givenUp' \subseteq givenUp \cup Subjects(m)
           /\ m \in BagToSet(queue') \/ Subjects(m) \subseteq givenUp'
           /\ bound' \in Bounds /\ bound'.requests = bound.requests + 1
  <1>1. CASE /\ Spend("requests", MaxRequests)
             /\ queue' = queue (+) SetToBag({m}) /\ UNCHANGED givenUp
    BY <1>1, SpendEffect, BagAdd DEF Shapes
  <1>2. CASE /\ SpendAndFault("requests", MaxRequests)
             /\ givenUp' = givenUp \cup Subjects(m) /\ UNCHANGED queue
    BY <1>2, SpendEffect DEF Shapes
  <1> QED
    BY <1>1, <1>2 DEF Send

LEMMA SubjectsAre ==
    ASSUME NEW m, m.kind \in {"assess", "batch", "org"}
    PROVE  /\ m.kind = "assess" => Subjects(m) = {m.c}
           /\ m.kind = "batch" => Subjects(m) = Created
           /\ m.kind = "org" => Subjects(m) = {"org"}
  BY DEF Subjects

LEMMA IdleTyped == Idle \in JobRecord /\ Idle.at = "idle"
  BY DEF Idle, JobRecord, Places

LEMMA MoveEffect ==
    ASSUME Shapes, NEW w \in Workers, NEW at \in Places, Move(w, at)
    PROVE  /\ job' \in [Workers -> JobRecord] /\ \A k \in Workers \ {w} : job'[k] = job[k]
           /\ job'[w].at = at /\ job'[w].m = job[w].m /\ job'[w].c = job[w].c
           /\ job'[w].rest = job[w].rest /\ job'[w].level = job[w].level
           /\ job'[w].basis = job[w].basis /\ job'[w].version = job[w].version
  <1>1. ASSUME NEW r \in JobRecord
        PROVE  LET q == [r EXCEPT !.at = at] IN
               /\ q \in JobRecord /\ q.at = at /\ q.m = r.m /\ q.c = r.c /\ q.rest = r.rest
               /\ q.level = r.level /\ q.basis = r.basis /\ q.version = r.version
    BY DEF JobRecord
  <1> QED
    BY <1>1 DEF Move, Shapes

LEMMA GoOnEffect ==
    ASSUME Shapes, NEW w \in Workers, NEW rest \in SUBSET Clients, GoOn(w, rest)
    PROVE  /\ job' \in [Workers -> JobRecord] /\ \A k \in Workers \ {w} : job'[k] = job[k]
           /\ \/ rest = {} /\ job'[w].at = "idle"
              \/ \E c \in rest :
                   /\ job'[w].at = "read" /\ job'[w].m = job[w].m /\ job'[w].c = c
                   /\ job'[w].rest = rest \ {c}
  <1>1. CASE rest = {} /\ job' = [job EXCEPT ![w] = Idle]
    BY <1>1, IdleTyped DEF Shapes
  <1>2. ASSUME NEW c \in rest,
               job' = [job EXCEPT ![w] =
                 [Idle EXCEPT !.m = job[w].m, !.c = c, !.rest = rest \ {c}, !.at = "read"]]
        PROVE  /\ job' \in [Workers -> JobRecord] /\ \A k \in Workers \ {w} : job'[k] = job[k]
               /\ job'[w].at = "read" /\ job'[w].m = job[w].m /\ job'[w].c = c
               /\ job'[w].rest = rest \ {c}
    <2>1. job[w].m \in Message \cup {NoJob} /\ c \in Clients
      BY DEF Shapes, JobRecord
    <2> DEFINE r == [Idle EXCEPT !.m = job[w].m, !.c = c, !.rest = rest \ {c}, !.at = "read"]
    <2>2. /\ r \in JobRecord /\ r.at = "read" /\ r.m = job[w].m /\ r.c = c
          /\ r.rest = rest \ {c}
      BY <2>1 DEF Idle, JobRecord, Places, OnClient
    <2>3. job' = [job EXCEPT ![w] = r]
      BY <1>2
    <2> HIDE DEF r
    <2> QED
      BY <2>2, <2>3 DEF Shapes
  <1> QED
    BY <1>1, <1>2 DEF GoOn

LEMMA DeliverEffect ==
    ASSUME TypeInv, NEW w \in Workers, Deliver(w)
    PROVE  /\ IsABag(queue') /\ At(w, "idle")
           /\ UNCHANGED <<facts, assessments, client, org, owed, givenUp, bound>>
           /\ job' \in [Workers -> JobRecord] /\ \A k \in Workers \ {w} : job'[k] = job[k]
           /\ \E m \in BagToSet(queue) :
                /\ BagToSet(queue') \subseteq BagToSet(queue)
                /\ BagToSet(queue) \ {m} \subseteq BagToSet(queue')
                /\ job'[w].m \in Message /\ job'[w].m.kind = m.kind /\ job'[w].m.c = m.c
                /\ job'[w].m.n \in 1..MaxDeliveries /\ job'[w].c = m.c /\ job'[w].rest = {}
                /\ m.kind = "assess" => job'[w].at = "read"
                /\ m.kind = "batch" => job'[w].at = "list"
                /\ m.kind = "org" => job'[w].at = "number org"
  <1>1. PICK m \in BagToSet(queue) :
          /\ queue' = queue (-) SetToBag({m})
          /\ job' = [job EXCEPT ![w] =
              [Idle EXCEPT !.m = [m EXCEPT !.n = @ + 1], !.c = m.c,
                 !.at = CASE m.kind = "assess" -> "read"
                          [] m.kind = "batch" -> "list"
                          [] m.kind = "org" -> "number org"]]
    BY DEF Deliver
  <1>2. m \in Message /\ m.n < MaxDeliveries /\ m.n \in Nat
    BY DEF TypeInv, Waiting, Message
  <1> DEFINE d == [m EXCEPT !.n = @ + 1]
             at == CASE m.kind = "assess" -> "read"
                     [] m.kind = "batch" -> "list"
                     [] m.kind = "org" -> "number org"
             r == [Idle EXCEPT !.m = d, !.c = m.c, !.at = at]
  <1>3. d \in Message /\ d.kind = m.kind /\ d.c = m.c /\ d.n \in 1..MaxDeliveries
    BY <1>2, RiskAssessmentAssumption DEF Message
  <1>4. /\ m.kind = "assess" => at = "read"
        /\ m.kind = "batch" => at = "list"
        /\ m.kind = "org" => at = "number org"
        /\ m.kind \in {"assess", "batch", "org"} /\ m.c \in Clients \cup {NoClient}
    BY <1>2 DEF Message
  <1>5. at \in Places
    BY <1>4 DEF Places, OnClient, OnOrg
  <1>6. job' = [job EXCEPT ![w] = r]
    BY <1>1
  <1> HIDE DEF d, at
  <1>7. r \in JobRecord /\ r.m = d /\ r.c = m.c /\ r.at = at /\ r.rest = {}
    BY <1>3, <1>4, <1>5 DEF Idle, JobRecord
  <1> HIDE DEF r
  <1>8. job' \in [Workers -> JobRecord] /\ job'[w] = r /\ \A k \in Workers \ {w} : job'[k] = job[k]
    BY <1>6, <1>7 DEF TypeInv, Shapes
  <1>9. /\ IsABag(queue') /\ BagToSet(queue') \subseteq BagToSet(queue)
        /\ BagToSet(queue) \ {m} \subseteq BagToSet(queue')
    BY <1>1, BagTake DEF TypeInv, Shapes
  <1> QED
    BY <1>3, <1>4, <1>7, <1>8, <1>9 DEF Deliver

-----------------------------------------------------------------------------
(* Types: what is on record only grows.                                    *)

Grows ==
    /\ \A c \in Clients :
         /\ facts[c].changes <= facts'[c].changes
         /\ Len(assessments[c]) <= Len(assessments'[c])
         /\ \A i \in DOMAIN assessments[c] :
              i \in DOMAIN assessments'[c] /\ assessments'[c][i] = assessments[c][i]
    /\ Len(org) <= Len(org')

LEMMA Lengths ==
    ASSUME Shapes
    PROVE  /\ \A c \in Clients : /\ Len(assessments[c]) \in Nat
                                 /\ DOMAIN assessments[c] = 1..Len(assessments[c])
                                 /\ assessments[c] \in Seq(Assessment)
                                 /\ \A i \in DOMAIN assessments[c] : assessments[c][i] \in Assessment
           /\ Len(org) \in Nat /\ DOMAIN org = 1..Len(org)
           /\ \A i \in DOMAIN org : org[i] \in OrgAssessment
  BY LenProperties, ElementOfSeq DEF Shapes

LEMMA CreatedGrows ==
    ASSUME Shapes, Shapes', Grows
    PROVE  Created \subseteq Created'
  BY DEF Shapes, Grows, Created

LEMMA WorkingStays ==
    ASSUME TypeInv, Shapes', Grows, NEW w \in Workers, job'[w] = job[w]
    PROVE  Working(w)'
  <1> DEFINE j == job[w]
  <1>1. Working(w) /\ Created \subseteq Created' /\ j \in JobRecord
    BY CreatedGrows DEF TypeInv, Shapes
  <1>2. j.at \in OnClient => j.c \in Clients
    BY <1>1 DEF Working, Created
  <1>3. j.at \in {"number", "insert", "copy"} => j.basis \in 1..facts'[j.c].changes
    <2>1. \A c \in Clients : /\ facts[c].changes \in Nat /\ facts'[c].changes \in Nat
                            /\ facts[c].changes <= facts'[c].changes
      BY DEF TypeInv, Shapes, Grows
    <2>2. j.at \in {"number", "insert", "copy"} =>
            j.c \in Clients /\ j.basis \in 1..facts[j.c].changes
      BY <1>1, <1>2 DEF Working, OnClient
    <2> HIDE DEF j
    <2> QED
      BY <2>1, <2>2
  <1>4. j.at = "insert" => j.version \in 1..(Len(assessments'[j.c]) + 1)
    <2>1. j.at = "insert" => /\ j.version \in 1..(Len(assessments[j.c]) + 1) /\ j.c \in Clients
                             /\ Len(assessments[j.c]) <= Len(assessments'[j.c])
      BY <1>1, <1>2 DEF Working, OnClient, Grows
    <2>2. \A c \in Clients : Len(assessments[c]) \in Nat /\ Len(assessments'[c]) \in Nat
      BY LenProperties DEF TypeInv, Shapes
    <2> QED
      BY <2>1, <2>2
  <1>5. j.at = "copy" => \E i \in DOMAIN assessments'[j.c] : assessments'[j.c][i].level = j.level
    BY <1>1, <1>2 DEF Working, OnClient, Grows
  <1>6. Len(org) \in Nat /\ Len(org') \in Nat /\ Len(org) <= Len(org')
    BY LenProperties DEF TypeInv, Shapes, Grows
  <1>7. /\ j.at \in {"supersede", "insert org"} => j.version \in 1..(Len(org') + 1)
        /\ j.at = "elements" => j.basis \in 1..Len(org')
    <2>1. /\ j.at \in {"supersede", "insert org"} => j.version \in 1..(Len(org) + 1)
          /\ j.at = "elements" => j.basis \in 1..Len(org)
      BY <1>1 DEF Working
    <2>2. PICK a \in Nat, b \in Nat : a = Len(org) /\ b = Len(org') /\ a <= b
      BY <1>6
    <2> HIDE DEF j
    <2>3. \A n : n \in 1..(a + 1) => n \in 1..(b + 1)
      BY <2>2
    <2>4. \A n : n \in 1..a => n \in 1..b
      BY <2>2
    <2> QED
      BY <2>1, <2>2, <2>3, <2>4
  <1> HIDE DEF j
  <1>8. j = job[w] /\ j = job'[w]
    BY DEF j
  <1>9. /\ j.at # "idle" => /\ j.m \in Message /\ j.m.n \in 1..MaxDeliveries
                            /\ j.m.kind = "assess" => j.m.c \in Created'
        /\ j.at \in OnClient =>
             /\ j.c \in Created' /\ j.rest \subseteq Created'
             /\ j.m.kind = "batch" \/ (j.m.kind = "assess" /\ j.c = j.m.c)
        /\ j.at = "announce" => j.m.kind = "assess" /\ j.c = j.m.c
        /\ j.at = "list" => j.m.kind = "batch"
        /\ j.at \in OnOrg => j.m.kind = "org"
        /\ j.at \in {"number", "insert", "copy"} => j.level \in Levels
    BY <1>1, <1>8 DEF Working
  <1> QED
    <2>1. /\ job'[w].at # "idle" => /\ job'[w].m \in Message /\ job'[w].m.n \in 1..MaxDeliveries
                                    /\ job'[w].m.kind = "assess" => job'[w].m.c \in Created'
          /\ job'[w].at \in OnClient =>
               /\ job'[w].c \in Created' /\ job'[w].rest \subseteq Created'
               /\ job'[w].m.kind = "batch"
                    \/ (job'[w].m.kind = "assess" /\ job'[w].c = job'[w].m.c)
          /\ job'[w].at = "announce" => job'[w].m.kind = "assess" /\ job'[w].c = job'[w].m.c
          /\ job'[w].at = "list" => job'[w].m.kind = "batch"
          /\ job'[w].at \in OnOrg => job'[w].m.kind = "org"
      BY <1>8, <1>9
    <2>2. /\ job'[w].at \in {"number", "insert", "copy"} =>
               job'[w].level \in Levels /\ job'[w].basis \in 1..facts'[job'[w].c].changes
          /\ job'[w].at = "insert" => job'[w].version \in 1..(Len(assessments'[job'[w].c]) + 1)
          /\ job'[w].at = "copy" => \E i \in DOMAIN assessments'[job'[w].c] :
               assessments'[job'[w].c][i].level = job'[w].level
          /\ job'[w].at \in {"supersede", "insert org"} => job'[w].version \in 1..(Len(org') + 1)
          /\ job'[w].at = "elements" => job'[w].basis \in 1..Len(org')
      BY <1>3, <1>4, <1>5, <1>7, <1>8, <1>9
    <2> QED
      BY ONLY <2>1, <2>2 DEF Working

LEMMA TypeFrom ==
    ASSUME TypeInv, Shapes', Grows, \A c \in Clients : ClientInv(c)',
           \A m \in BagToSet(queue') : m \in BagToSet(queue) \/ Waiting(m)',
           \A w \in Workers : job'[w] = job[w] \/ Working(w)', OrgVersions'
    PROVE  TypeInv'
  <1>1. \A m \in BagToSet(queue') : Waiting(m)'
    BY CreatedGrows DEF TypeInv, Waiting
  <1>2. \A w \in Workers : Working(w)'
    BY WorkingStays
  <1> QED
    BY <1>1, <1>2 DEF TypeInv

LEMMA ClientsSame ==
    ASSUME TypeInv, UNCHANGED <<facts, assessments, client>>,
           bound'.requests \in Nat, bound'.requests >= bound.requests
    PROVE  \A c \in Clients : ClientInv(c)'
  <1>1. ASSUME NEW c \in Clients
        PROVE  facts'[c].changes <= bound'.requests
    <2>1. facts[c].changes \in Nat /\ bound.requests \in Nat /\ facts[c].changes <= bound.requests
      BY <1>1, RiskAssessmentAssumption DEF TypeInv, ClientInv, Shapes
    <2> QED
      BY <2>1
  <1> QED
    BY <1>1 DEF TypeInv, ClientInv, Created

\* Asking for an assessment leaves what is on record alone.
LEMMA AskedEffect ==
    ASSUME Shapes, NEW S, facts' = Asked(S)
    PROVE  /\ facts' \in [Clients -> [level: Levels \cup {"none"}, changes: Nat, sent: Nat]]
           /\ \A c \in Clients : /\ facts'[c].level = facts[c].level
                                 /\ facts'[c].changes = facts[c].changes
                                 /\ facts'[c].sent \in {facts[c].sent, facts[c].changes}
                                 /\ c \notin S => facts'[c] = facts[c]
           /\ Created' = Created
  <1>1. facts \in [Clients -> [level: Levels \cup {"none"}, changes: Nat, sent: Nat]]
    BY DEF Shapes
  <1>2. ASSUME NEW c \in Clients
        PROVE  /\ facts'[c] \in [level: Levels \cup {"none"}, changes: Nat, sent: Nat]
               /\ facts'[c].level = facts[c].level /\ facts'[c].changes = facts[c].changes
               /\ facts'[c].sent \in {facts[c].sent, facts[c].changes}
               /\ c \notin S => facts'[c] = facts[c]
    <2>1. facts[c] \in [level: Levels \cup {"none"}, changes: Nat, sent: Nat]
      BY <1>1
    <2>2. CASE c \in S
      <3>1. facts'[c] = [facts[c] EXCEPT !.sent = facts[c].changes]
        BY <2>2 DEF Asked
      <3> QED
        BY <2>1, <2>2, <3>1
    <2>3. CASE c \notin S
      <3>1. facts'[c] = facts[c]
        BY <2>3 DEF Asked
      <3> QED
        BY <2>1, <2>3, <3>1
    <2> QED
      BY <2>2, <2>3
  <1>3. facts' = [c \in Clients |-> facts'[c]]
    BY DEF Asked
  <1>4. facts' \in [Clients -> [level: Levels \cup {"none"}, changes: Nat, sent: Nat]]
    BY <1>2, <1>3
  <1>5. \A c \in Clients : facts'[c].changes = facts[c].changes
    BY <1>2
  <1>6. Created' = Created
    BY ONLY <1>5 DEF Created
  <1> QED
    BY <1>2, <1>4, <1>6

LEMMA ClientsAsked ==
    ASSUME TypeInv, NEW S, facts' = Asked(S), UNCHANGED <<assessments, client, org>>,
           bound'.requests \in Nat, bound'.requests >= bound.requests
    PROVE  Grows /\ \A c \in Clients : ClientInv(c)'
  <1>0. Shapes
    BY DEF TypeInv
  <1>a. /\ Created' = Created
        /\ \A c \in Clients : /\ facts'[c].level = facts[c].level
                              /\ facts'[c].changes = facts[c].changes
                              /\ facts'[c].sent \in {facts[c].sent, facts[c].changes}
    BY <1>0, AskedEffect
  <1>1. ASSUME NEW c \in Clients
        PROVE  /\ facts'[c].changes <= bound'.requests /\ facts'[c].sent <= facts'[c].changes
               /\ facts'[c].level = facts[c].level /\ facts'[c].changes = facts[c].changes
               /\ facts[c].changes <= facts'[c].changes
    <2>1. /\ facts[c].changes \in Nat /\ bound.requests \in Nat /\ facts[c].sent \in Nat
          /\ facts[c].changes <= bound.requests /\ facts[c].sent <= facts[c].changes
      BY <1>1, RiskAssessmentAssumption DEF TypeInv, ClientInv, Shapes
    <2>2. /\ facts'[c].level = facts[c].level /\ facts'[c].changes = facts[c].changes
          /\ facts'[c].sent \in {facts[c].sent, facts[c].changes}
      BY <1>a
    <2> QED
      BY <2>1, <2>2
  <1>3. \A c \in Clients : ClientInv(c)'
    BY <1>1, <1>a DEF TypeInv, ClientInv
  <1>4. \A c \in Clients : facts[c].changes <= facts'[c].changes
    BY <1>1
  <1>5. /\ \A c \in Clients : Len(assessments[c]) \in Nat
        /\ Len(org) \in Nat /\ UNCHANGED <<assessments, org>>
    BY <1>0, Lengths
  <1>6. Grows
    BY <1>4, <1>5 DEF Grows
  <1> QED
    BY <1>3, <1>6

LEMMA TypeInit == Init => TypeInv
  <1> SUFFICES ASSUME Init
               PROVE  TypeInv
    OBVIOUS
  <1>1. IsABag(queue) /\ BagToSet(queue) = {}
    BY DEF Init, EmptyBag, SetToBag, IsABag, BagToSet
  <1>2. Shapes
    BY <1>1, IdleTyped, EmptySeq, RiskAssessmentAssumption DEF Init, Shapes
  <1>3. \A w \in Workers : Working(w)
    BY IdleTyped DEF Init, Working, OnClient, OnOrg
  <1>4. \A c \in Clients : ClientInv(c)
    BY EmptySeq DEF Init, ClientInv, Created
  <1>5. OrgVersions
    BY EmptySeq DEF Init, OrgVersions
  <1> QED
    BY <1>1, <1>2, <1>3, <1>4, <1>5 DEF TypeInv

LEMMA RequestsTyped ==
    ASSUME TypeInv,
           \/ \E c \in Clients : Record(c) \/ Edit(c) \/ FallDue(c)
           \/ Request \/ Cron
    PROVE  TypeInv'
  <1>0. Shapes
    BY DEF TypeInv
  <1>n. \A c \in Clients : facts[c].changes \in Nat /\ facts[c].sent \in Nat
    BY <1>0 DEF Shapes
  <1>r. bound.requests \in Nat /\ Bounds = [requests: 0..MaxRequests, reviews: Nat, faults: Nat]
    BY <1>0 DEF Shapes, Bounds
  <1>1. ASSUME NEW c \in Clients, Record(c)
        PROVE  TypeInv'
    <2>1. PICK level \in Levels : facts' = [facts EXCEPT ![c] =
                 [level |-> level, changes |-> facts[c].changes + 1, sent |-> facts[c].changes + 1]]
      BY <1>1 DEF Record
    <2>2. UNCHANGED <<assessments, client, org, job, owed>> /\ Send(Assess(c))
      BY <1>1 DEF Record
    <2>3. /\ IsABag(queue') /\ BagToSet(queue') \subseteq BagToSet(queue) \cup {Assess(c)}
          /\ givenUp' \subseteq givenUp \cup Subjects(Assess(c))
          /\ bound' \in Bounds /\ bound'.requests = bound.requests + 1
      BY <1>0, <2>2, SendEffect
    <2>4. Subjects(Assess(c)) = {c} /\ Assess(c) \in Message /\ Assess(c).kind = "assess"
          /\ Assess(c).c = c /\ Assess(c).n = 0
      BY DEF Subjects, Assess, Message
    <2>5. facts' \in [Clients -> [level: Levels \cup {"none"}, changes: Nat, sent: Nat]]
          /\ facts'[c].changes = facts[c].changes + 1 /\ facts'[c].sent = facts[c].changes + 1
          /\ facts'[c].level \in Levels
          /\ \A k \in Clients \ {c} : facts'[k] = facts[k]
      BY <1>0, <2>1 DEF Shapes
    <2>6. Shapes'
      BY <1>0, <2>2, <2>3, <2>4, <2>5 DEF Shapes, Bounds
    <2>7. Grows
      BY <1>n, <1>0, <2>2, <2>5, Lengths DEF Grows
    <2>8. ASSUME NEW k \in Clients
          PROVE  ClientInv(k)'
      <3>1. facts[k].changes <= bound.requests /\ facts[k].sent <= facts[k].changes /\ ClientInv(k)
        BY DEF TypeInv, ClientInv
      <3>2. facts'[k].changes <= bound'.requests /\ facts'[k].sent <= facts'[k].changes
        BY <1>n, <1>r, <2>3, <2>5, <3>1
      <3>3. k \in Created' => facts'[k].level \in Levels
        BY <2>5, <3>1 DEF ClientInv, Created
      <3>4. \A i \in DOMAIN assessments'[k] : assessments'[k][i].basis <= facts'[k].changes
        <4>1. \A i \in DOMAIN assessments[k] : assessments[k][i].basis \in Nat
          BY <1>0, Lengths DEF Assessment
        <4> QED
          BY <1>n, <2>2, <2>5, <3>1, <4>1 DEF ClientInv
      <3> QED
        BY <2>2, <3>1, <3>2, <3>3, <3>4 DEF ClientInv
    <2>9. c \in Created'
      BY <1>n, <2>5 DEF Created
    <2>10. Waiting(Assess(c))'
      BY <2>4, <2>9, RiskAssessmentAssumption DEF Waiting
    <2>11. OrgVersions'
      BY <2>2 DEF TypeInv, OrgVersions
    <2> QED
      BY <2>2, <2>3, <2>6, <2>7, <2>8, <2>10, <2>11, TypeFrom
  <1>2. ASSUME NEW c \in Clients, Edit(c)
        PROVE  TypeInv'
    <2>1. PICK level \in Levels :
            facts' = [facts EXCEPT ![c].level = level, ![c].changes = @ + 1]
      BY <1>2 DEF Edit
    <2>2. UNCHANGED <<assessments, client, org, queue, job, owed, givenUp>>
          /\ bound' \in Bounds /\ bound'.requests = bound.requests + 1
      BY <1>0, <1>2, SpendEffect DEF Edit
    <2>3. facts[c] \in [level: Levels \cup {"none"}, changes: Nat, sent: Nat]
      BY <1>0 DEF Shapes
    <2>4. PICK n \in Nat : n = facts[c].changes + 1
      BY <1>n
    <2> DEFINE f == [facts[c] EXCEPT !.level = level, !.changes = n]
    <2>5. f \in [level: Levels \cup {"none"}, changes: Nat, sent: Nat]
          /\ f.changes = n /\ f.sent = facts[c].sent /\ f.level = level
      BY <2>3
    <2>6. facts' = [facts EXCEPT ![c] = f]
      BY <1>0, <2>1, <2>4 DEF Shapes
    <2> HIDE DEF f
    <2>7. facts' \in [Clients -> [level: Levels \cup {"none"}, changes: Nat, sent: Nat]]
          /\ facts'[c].changes = facts[c].changes + 1 /\ facts'[c].sent = facts[c].sent
          /\ facts'[c].level \in Levels
          /\ \A k \in Clients \ {c} : facts'[k] = facts[k]
      BY <1>0, <2>4, <2>5, <2>6 DEF Shapes
    <2>8. Shapes'
      BY <1>0, <2>2, <2>7 DEF Shapes, Bounds
    <2>9. Grows
      BY <1>n, <1>0, <2>2, <2>7, Lengths DEF Grows
    <2>10. ASSUME NEW k \in Clients
          PROVE  ClientInv(k)'
      <3>1. facts[k].changes <= bound.requests /\ facts[k].sent <= facts[k].changes /\ ClientInv(k)
        BY DEF TypeInv, ClientInv
      <3>2. facts'[k].changes <= bound'.requests /\ facts'[k].sent <= facts'[k].changes
        BY <1>n, <1>r, <2>2, <2>7, <3>1
      <3>3. k \in Created' => facts'[k].level \in Levels
        BY <2>7, <3>1 DEF ClientInv, Created
      <3>4. \A i \in DOMAIN assessments'[k] : assessments'[k][i].basis <= facts'[k].changes
        <4>1. \A i \in DOMAIN assessments[k] : assessments[k][i].basis \in Nat
          BY <1>0, Lengths DEF Assessment
        <4> QED
          BY <1>n, <2>2, <2>7, <3>1, <4>1 DEF ClientInv
      <3> QED
        BY <2>2, <3>1, <3>2, <3>3, <3>4 DEF ClientInv
    <2>11. OrgVersions'
      BY <2>2 DEF TypeInv, OrgVersions
    <2> QED
      BY <2>2, <2>8, <2>9, <2>10, <2>11, TypeFrom
  <1>3. ASSUME NEW c \in Clients, FallDue(c)
        PROVE  TypeInv'
    <2>1. /\ client' = [client EXCEPT ![c].due = TRUE] /\ client[c].riskLevel # "none"
          /\ UNCHANGED <<facts, assessments, org, queue, job, owed, givenUp>>
          /\ bound' \in Bounds /\ bound'.requests = bound.requests
      BY <1>0, <1>3, SpendEffect DEF FallDue
    <2>2. /\ client' \in [Clients -> [riskLevel: Levels \cup {"none"}, due: BOOLEAN]]
          /\ \A k \in Clients : client'[k].riskLevel = client[k].riskLevel
          /\ \A k \in Clients \ {c} : client'[k] = client[k]
      BY <1>0, <2>1 DEF Shapes
    <2>3. Shapes'
      BY <1>0, <2>1, <2>2 DEF Shapes, Bounds
    <2>4. Grows
      BY <1>n, <1>0, <2>1, Lengths DEF Grows
    <2>5. ASSUME NEW k \in Clients
          PROVE  ClientInv(k)'
      BY <2>1, <2>2 DEF TypeInv, ClientInv, Created
    <2>6. OrgVersions'
      BY <2>1 DEF TypeInv, OrgVersions
    <2> QED
      BY <2>1, <2>3, <2>4, <2>5, <2>6, TypeFrom
  <1>4. CASE Request
    <2>1. PICK m \in {Assess(c) : c \in Created} \cup {Batch, AssessOrg} :
            Send(m) /\ facts' = Asked(Subjects(m)) /\ UNCHANGED <<assessments, client, org, job, owed>>
      BY <1>4 DEF Request
    <2>2. /\ IsABag(queue') /\ BagToSet(queue') \subseteq BagToSet(queue) \cup {m}
          /\ givenUp' \subseteq givenUp \cup Subjects(m)
          /\ bound' \in Bounds /\ bound'.requests = bound.requests + 1
      BY <1>0, <2>1, SendEffect
    <2>3. /\ m \in Message /\ m.n = 0 /\ (m.kind = "assess" => m.c \in Created)
          /\ Subjects(m) \subseteq Clients \cup {"org"}
      BY DEF Assess, Batch, AssessOrg, Message, Created, Subjects
    <2>4. Shapes' /\ Created' = Created
      BY <1>0, <2>1, <2>2, <2>3, AskedEffect DEF Shapes, Bounds
    <2>5. Grows /\ \A k \in Clients : ClientInv(k)'
      BY <1>r, <2>1, <2>2, ClientsAsked
    <2>7. OrgVersions'
      BY <2>1 DEF TypeInv, OrgVersions
    <2>8. Waiting(m)'
      BY <2>3, <2>4, RiskAssessmentAssumption DEF Waiting
    <2> QED
      BY <2>1, <2>2, <2>4, <2>5, <2>7, <2>8, TypeFrom
  <1>5. CASE Cron
    <2>1. PICK sent \in SUBSET {c \in Clients : client[c].due} :
            /\ queue' = queue (+) SetToBag({Assess(c) : c \in sent})
            /\ UNCHANGED bound \/ Fault
            /\ facts' = Asked(sent)
            /\ UNCHANGED <<assessments, client, org, job, owed, givenUp>>
      BY <1>5 DEF Cron
    <2>2. /\ bound' \in Bounds /\ bound'.requests = bound.requests
          /\ IsABag(queue') /\ BagToSet(queue') = BagToSet(queue) \cup {Assess(c) : c \in sent}
      BY <1>0, <2>1, SpendEffect, BagAdd DEF Shapes, Bounds
    <2>3. Shapes' /\ Created' = Created
      BY <1>0, <2>1, <2>2, AskedEffect DEF Shapes, Bounds
    <2>4. Grows /\ \A k \in Clients : ClientInv(k)'
      BY <1>r, <2>1, <2>2, ClientsAsked
    <2>6. OrgVersions'
      BY <2>1 DEF TypeInv, OrgVersions
    <2>7. ASSUME NEW c \in sent
          PROVE  Waiting(Assess(c))'
      <3>1. c \in Clients /\ client[c].riskLevel # "none" /\ ClientInv(c)
        BY DEF TypeInv, ClientInv
      <3>2. PICK i \in DOMAIN assessments[c] : TRUE
        BY <3>1 DEF ClientInv
      <3>3. assessments[c][i].basis \in Nat \ {0} /\ assessments[c][i].basis <= facts[c].changes
        BY <1>0, <3>1, <3>2, Lengths DEF ClientInv, Assessment
      <3>4. c \in Created
        BY <1>n, <3>1, <3>3 DEF Created
      <3> QED
        BY <2>3, <3>1, <3>4, RiskAssessmentAssumption DEF Waiting, Assess, Message
    <2> QED
      BY <2>1, <2>2, <2>3, <2>4, <2>6, <2>7, TypeFrom
  <1> QED
    BY <1>1, <1>2, <1>3, <1>4, <1>5

\* What a consumer at work on a client knows about it.
LEMMA OnClientKnows ==
    ASSUME TypeInv, NEW w \in Workers, job[w].at \in OnClient
    PROVE  /\ job[w] \in JobRecord /\ job[w].m \in Message /\ job[w].m.n \in 1..MaxDeliveries
           /\ job[w].c \in Created /\ job[w].c \in Clients /\ job[w].rest \subseteq Created
           /\ job[w].m.kind = "assess" => job[w].m.c = job[w].c
           /\ job[w].m.kind \in {"assess", "batch"}
           /\ facts[job[w].c] \in [level: Levels \cup {"none"}, changes: Nat, sent: Nat]
           /\ facts[job[w].c].level \in Levels /\ facts[job[w].c].changes \in Nat \ {0}
  <1>1. Working(w) /\ job[w] \in JobRecord /\ job[w].at # "idle"
    BY DEF TypeInv, Shapes, OnClient
  <1>2. /\ job[w].m \in Message /\ job[w].m.n \in 1..MaxDeliveries /\ job[w].c \in Created
        /\ job[w].rest \subseteq Created
        /\ job[w].m.kind = "batch" \/ (job[w].m.kind = "assess" /\ job[w].c = job[w].m.c)
    BY <1>1 DEF Working
  <1>3. job[w].c \in Clients /\ facts[job[w].c].changes > 0
    BY <1>2 DEF Created
  <1>4. ClientInv(job[w].c) /\ facts[job[w].c] \in [level: Levels \cup {"none"}, changes: Nat, sent: Nat]
    BY <1>3 DEF TypeInv, Shapes
  <1> QED
    BY <1>1, <1>2, <1>3, <1>4 DEF ClientInv

\* A consumer that is idle or reads a client, as GoOn leaves it.
LEMMA GoneOn ==
    ASSUME TypeInv, NEW w \in Workers, job[w].m \in Message, job[w].m.n \in 1..MaxDeliveries,
           UNCHANGED facts,
           \/ job'[w].at = "idle"
           \/ /\ job[w].m.kind = "batch"
              /\ job'[w].at = "read" /\ job'[w].m = job[w].m /\ job'[w].c \in Created
              /\ job'[w].rest \subseteq Created
    PROVE  Working(w)'
  BY DEF Working, OnClient, OnOrg, Created

LEMMA SameRecords ==
    ASSUME TypeInv, Shapes', UNCHANGED <<facts, assessments, client, org>>,
           bound'.requests = bound.requests,
           \A m \in BagToSet(queue') : m \in BagToSet(queue) \/ Waiting(m)',
           \A w \in Workers : job'[w] = job[w] \/ Working(w)'
    PROVE  TypeInv'
  <1>1. Grows
    BY Lengths DEF TypeInv, Shapes, Grows
  <1>2. bound.requests \in Nat
    BY RiskAssessmentAssumption DEF TypeInv, Shapes
  <1>3. \A c \in Clients : ClientInv(c)'
    BY <1>2, ClientsSame
  <1>4. OrgVersions'
    BY DEF TypeInv, OrgVersions
  <1> QED
    BY <1>1, <1>3, <1>4, TypeFrom

LEMMA DeliverTyped ==
    ASSUME TypeInv, NEW w \in Workers, Deliver(w)
    PROVE  TypeInv'
  <1>1. /\ IsABag(queue') /\ UNCHANGED <<facts, assessments, client, org, owed, givenUp, bound>>
        /\ job' \in [Workers -> JobRecord] /\ \A k \in Workers \ {w} : job'[k] = job[k]
    BY DeliverEffect
  <1>2. PICK m \in BagToSet(queue) :
          /\ BagToSet(queue') \subseteq BagToSet(queue)
          /\ job'[w].m \in Message /\ job'[w].m.kind = m.kind /\ job'[w].m.c = m.c
          /\ job'[w].m.n \in 1..MaxDeliveries /\ job'[w].c = m.c /\ job'[w].rest = {}
          /\ m.kind = "assess" => job'[w].at = "read"
          /\ m.kind = "batch" => job'[w].at = "list"
          /\ m.kind = "org" => job'[w].at = "number org"
    BY DeliverEffect
  <1>3. Waiting(m) /\ m.kind \in {"assess", "batch", "org"} /\ (m.kind = "assess" => m.c \in Created)
    BY DEF TypeInv, Waiting, Message
  <1>4. Created' = Created
    BY <1>1 DEF Created
  <1>5. Working(w)'
    <2>1. CASE m.kind = "assess"
      BY <1>2, <1>3, <1>4, <2>1 DEF Working, OnClient, OnOrg
    <2>2. CASE m.kind = "batch"
      BY <1>2, <1>3, <1>4, <2>2 DEF Working, OnClient, OnOrg
    <2>3. CASE m.kind = "org"
      BY <1>2, <1>3, <1>4, <2>3 DEF Working, OnClient, OnOrg
    <2> QED
      BY <1>3, <2>1, <2>2, <2>3
  <1>6. Shapes'
    BY <1>1 DEF TypeInv, Shapes
  <1> QED
    BY <1>1, <1>2, <1>5, <1>6, SameRecords

LEMMA ListEffect ==
    ASSUME TypeInv, NEW w \in Workers, ListClients(w)
    PROVE  /\ TypeInv' /\ \A k \in Workers \ {w} : job'[k] = job[k]
           /\ \/ Created = {} /\ job'[w].at = "idle"
              \/ \E c \in Created : /\ job'[w].at = "read" /\ job'[w].m.kind = "batch"
                                     /\ job'[w].c = c /\ job'[w].rest = Created \ {c}
  <1>1. At(w, "list") /\ GoOn(w, Created)
        /\ UNCHANGED <<facts, assessments, client, org, queue, owed, givenUp, bound>>
    BY DEF ListClients
  <1>2. /\ job[w].m \in Message /\ job[w].m.n \in 1..MaxDeliveries /\ job[w].m.kind = "batch"
        /\ Shapes /\ Created \in SUBSET Clients
    BY <1>1 DEF TypeInv, Working, At, Created
  <1>3. /\ job' \in [Workers -> JobRecord] /\ \A k \in Workers \ {w} : job'[k] = job[k]
        /\ \/ Created = {} /\ job'[w].at = "idle"
           \/ \E c \in Created :
                /\ job'[w].at = "read" /\ job'[w].m = job[w].m /\ job'[w].c = c
                /\ job'[w].rest = Created \ {c}
    BY <1>1, <1>2, GoOnEffect
  <1>4. Working(w)'
    BY <1>1, <1>2, <1>3, GoneOn
  <1>5. Shapes'
    BY <1>1, <1>2, <1>3 DEF Shapes
  <1>6. TypeInv'
    BY <1>1, <1>3, <1>4, <1>5, SameRecords
  <1> QED
    BY <1>2, <1>3, <1>6

LEMMA ReadEffect ==
    ASSUME TypeInv, NEW w \in Workers, ReadClient(w)
    PROVE  /\ TypeInv' /\ \A k \in Workers \ {w} : job'[k] = job[k]
           /\ job'[w].at = "number" /\ job'[w].m = job[w].m /\ job'[w].c = job[w].c
           /\ job'[w].rest = job[w].rest /\ job'[w].basis = facts[job[w].c].changes
  <1>1. /\ job[w].at \in OnClient /\ job[w].at = "read"
        /\ UNCHANGED <<facts, assessments, client, org, queue, owed, givenUp, bound>>
    BY DEF ReadClient, At, OnClient
  <1>2. PICK level \in Levels, n \in Nat \ {0} :
          level = facts[job[w].c].level /\ n = facts[job[w].c].changes
    BY <1>1, OnClientKnows
  <1>3. job' = [job EXCEPT ![w] = [job[w] EXCEPT !.level = level, !.basis = n, !.at = "number"]]
    BY <1>2 DEF ReadClient, TypeInv, Shapes
  <1>4. ASSUME NEW r \in JobRecord
        PROVE  LET q == [r EXCEPT !.level = level, !.basis = n, !.at = "number"] IN
               /\ q \in JobRecord /\ q.at = "number" /\ q.m = r.m /\ q.c = r.c
               /\ q.rest = r.rest /\ q.basis = n /\ q.level = level
    BY DEF JobRecord, Places, OnClient
  <1>5. /\ job' \in [Workers -> JobRecord] /\ \A k \in Workers \ {w} : job'[k] = job[k]
        /\ job'[w].at = "number" /\ job'[w].m = job[w].m /\ job'[w].c = job[w].c
        /\ job'[w].rest = job[w].rest /\ job'[w].basis = n /\ job'[w].level = level
    BY <1>3, <1>4 DEF TypeInv, Shapes
  <1>6. Shapes'
    BY <1>1, <1>5 DEF TypeInv, Shapes
  <1>7. Working(w)'
    BY <1>1, <1>2, <1>5, OnClientKnows DEF Working, OnClient, OnOrg, Created
  <1>8. TypeInv'
    BY <1>1, <1>5, <1>6, <1>7, SameRecords
  <1> QED
    BY <1>2, <1>5, <1>8

LEMMA NumberEffect ==
    ASSUME TypeInv, NEW w \in Workers, NumberAssessment(w)
    PROVE  /\ TypeInv' /\ \A k \in Workers \ {w} : job'[k] = job[k]
           /\ job'[w].at = "insert" /\ job'[w].m = job[w].m /\ job'[w].c = job[w].c
           /\ job'[w].rest = job[w].rest /\ job'[w].basis = job[w].basis
  <1>1. /\ job[w].at \in OnClient /\ job[w].at = "number"
        /\ UNCHANGED <<facts, assessments, client, org, queue, owed, givenUp, bound>>
    BY DEF NumberAssessment, At, OnClient
  <1>2. job[w].c \in Clients
    BY <1>1, OnClientKnows
  <1>3. NextVersion(assessments[job[w].c]) \in 1..(Len(assessments[job[w].c]) + 1)
    <2>1. /\ assessments[job[w].c] \in Seq(Assessment)
          /\ \A r \in Assessment : r.version \in Nat \ {0}
          /\ \A i \in DOMAIN assessments[job[w].c] :
               assessments[job[w].c][i].version <= Len(assessments[job[w].c])
      BY <1>2 DEF TypeInv, Shapes, ClientInv, Assessment
    <2> QED
      BY <2>1, NextFits
  <1>4. Len(assessments[job[w].c]) \in Nat
    BY <1>2, Lengths DEF TypeInv
  <1>5. PICK n \in Nat : n = NextVersion(assessments[job[w].c])
    BY <1>3, <1>4
  <1>6. job' = [job EXCEPT ![w] = [job[w] EXCEPT !.version = n, !.at = "insert"]]
    BY <1>5 DEF NumberAssessment, TypeInv, Shapes
  <1>7. ASSUME NEW r \in JobRecord
        PROVE  LET q == [r EXCEPT !.version = n, !.at = "insert"] IN
               /\ q \in JobRecord /\ q.at = "insert" /\ q.m = r.m /\ q.c = r.c
               /\ q.rest = r.rest /\ q.basis = r.basis /\ q.level = r.level /\ q.version = n
    BY DEF JobRecord, Places, OnClient
  <1>8. /\ job' \in [Workers -> JobRecord] /\ \A k \in Workers \ {w} : job'[k] = job[k]
        /\ job'[w].at = "insert" /\ job'[w].m = job[w].m /\ job'[w].c = job[w].c
        /\ job'[w].rest = job[w].rest /\ job'[w].basis = job[w].basis
        /\ job'[w].level = job[w].level /\ job'[w].version = n
    BY <1>6, <1>7 DEF TypeInv, Shapes
  <1>9. Shapes'
    BY <1>1, <1>8 DEF TypeInv, Shapes
  <1>10. Working(w)'
    <2>1. job[w].level \in Levels /\ job[w].basis \in 1..facts[job[w].c].changes
      BY <1>1 DEF TypeInv, Working
    <2> QED
      BY <1>1, <1>3, <1>5, <1>8, <2>1, OnClientKnows DEF Working, OnClient, OnOrg, Created
  <1>11. TypeInv'
    BY <1>1, <1>8, <1>9, <1>10, SameRecords
  <1> QED
    BY <1>8, <1>11

LEMMA InsertEffect ==
    ASSUME TypeInv, NEW w \in Workers, InsertAssessment(w)
    PROVE  /\ TypeInv' /\ \A k \in Workers \ {w} : job'[k] = job[k]
           /\ job'[w].at = "copy" /\ job'[w].m = job[w].m /\ job'[w].c = job[w].c
           /\ job'[w].rest = job[w].rest
           /\ \A c \in Clients : \A i \in DOMAIN assessments[c] :
                i \in DOMAIN assessments'[c] /\ assessments'[c][i] = assessments[c][i]
           /\ \E i \in DOMAIN assessments'[job[w].c] :
                assessments'[job[w].c][i].basis = job[w].basis
  <1> DEFINE c == job[w].c
             a == [version |-> job[w].version, level |-> job[w].level, basis |-> job[w].basis]
             n == Len(assessments[c]) + 1
  <1>1. /\ job[w].at = "insert" /\ job[w].at \in OnClient
        /\ UNCHANGED <<facts, client, org, queue, owed, givenUp, bound>>
        /\ Move(w, "copy") /\ assessments' = [assessments EXCEPT ![c] = Append(@, a)]
    BY DEF InsertAssessment, At, OnClient
  <1>2. /\ c \in Clients /\ facts[c].changes \in Nat /\ Len(assessments[c]) \in Nat /\ Shapes
        /\ assessments[c] \in Seq(Assessment) /\ assessments \in [Clients -> Seq(Assessment)]
    BY <1>1, OnClientKnows, Lengths DEF TypeInv, Shapes
  <1>3. job[w].level \in Levels /\ job[w].basis \in 1..facts[c].changes /\ job[w].version \in 1..n
    BY <1>1 DEF TypeInv, Working
  <1>4. /\ a \in Assessment /\ a.level = job[w].level /\ a.basis = job[w].basis
        /\ a.version \in 1..n /\ a.basis <= facts[c].changes
    BY <1>2, <1>3 DEF Assessment
  <1> HIDE DEF a
  <1>5. /\ assessments'[c] \in Seq(Assessment) /\ Len(assessments'[c]) = n
        /\ DOMAIN assessments'[c] = 1..n
        /\ \A i \in DOMAIN assessments[c] :
             i \in DOMAIN assessments'[c] /\ assessments'[c][i] = assessments[c][i]
        /\ n \in DOMAIN assessments'[c] /\ assessments'[c][n] = a
    <2>1. assessments'[c] = Append(assessments[c], a)
      BY <1>1, <1>2
    <2>2. DOMAIN assessments[c] = 1..Len(assessments[c])
      BY <1>2, LenProperties
    <2>3. /\ assessments'[c] \in Seq(Assessment) /\ Len(assessments'[c]) = n
          /\ \A i \in 1..Len(assessments[c]) : assessments'[c][i] = assessments[c][i]
          /\ assessments'[c][n] = a
      BY <1>2, <1>4, <2>1, AppendProperties
    <2>4. DOMAIN assessments'[c] = 1..n
      BY <2>3, LenProperties
    <2>5. n \in 1..n /\ 1..Len(assessments[c]) \subseteq 1..n
      BY <1>2
    <2>6. ASSUME NEW i \in DOMAIN assessments[c]
          PROVE  i \in DOMAIN assessments'[c] /\ assessments'[c][i] = assessments[c][i]
      <3>1. i \in 1..Len(assessments[c])
        BY <2>2, <2>6
      <3> QED
        BY <2>3, <2>4, <2>5, <3>1
    <2> HIDE DEF n, c
    <2> QED
      BY <2>3, <2>4, <2>5, <2>6
  <1>6. \A k \in Clients \ {c} : assessments'[k] = assessments[k]
    BY <1>1, <1>2
  <1>7. assessments' \in [Clients -> Seq(Assessment)]
    BY <1>1, <1>2, <1>5, <1>6
  <1>8. /\ job' \in [Workers -> JobRecord] /\ \A k \in Workers \ {w} : job'[k] = job[k]
        /\ job'[w].at = "copy" /\ job'[w].m = job[w].m /\ job'[w].c = job[w].c
        /\ job'[w].rest = job[w].rest /\ job'[w].level = job[w].level
        /\ job'[w].basis = job[w].basis
    <2>1. "copy" \in Places
      BY DEF Places, OnClient
    <2> QED
      BY <1>1, <1>2, <2>1, MoveEffect
  <1>9. Shapes'
    BY <1>1, <1>2, <1>7, <1>8 DEF Shapes
  <1>10. \A k \in Clients : \A i \in DOMAIN assessments[k] :
           i \in DOMAIN assessments'[k] /\ assessments'[k][i] = assessments[k][i]
    BY <1>5, <1>6
  <1>11. Grows
    <2>1. \A k \in Clients : Len(assessments[k]) \in Nat /\ facts[k].changes \in Nat
      BY <1>2, LenProperties DEF Shapes
    <2>2. \A k \in Clients : Len(assessments[k]) <= Len(assessments'[k])
      BY <1>5, <1>6, <2>1
    <2>3. Len(org) \in Nat /\ org' = org
      BY <1>1, <1>2, Lengths
    <2> HIDE DEF n, c
    <2> QED
      BY <1>1, <1>10, <2>1, <2>2, <2>3 DEF Grows
  <1>12. ASSUME NEW k \in Clients
         PROVE  ClientInv(k)'
    <2>1. ClientInv(k)
      BY DEF TypeInv
    <2>2. CASE k = c
      <3>1. \A i \in DOMAIN assessments'[c] :
              /\ assessments'[c][i].basis <= facts[c].changes
              /\ assessments'[c][i].version <= Len(assessments'[c])
        <4>1. ASSUME NEW i \in DOMAIN assessments'[c]
              PROVE  /\ assessments'[c][i].basis <= facts[c].changes
                     /\ assessments'[c][i].version <= n
          <5>1. CASE i = n
            BY <1>2, <1>4, <1>5, <5>1
          <5>2. CASE i # n
            <6>1. i \in DOMAIN assessments[c] /\ assessments'[c][i] = assessments[c][i]
              BY <1>2, <1>5, <4>1, <5>2, LenProperties
            <6>2. assessments[c][i].version \in Nat /\ assessments[c][i].version <= n - 1
                  /\ assessments[c][i].basis <= facts[c].changes
              BY <1>2, <2>1, <2>2, <6>1, Lengths DEF ClientInv, Assessment
            <6> QED
              BY <1>2, <6>1, <6>2
          <5> QED
            BY <5>1, <5>2
        <4> QED
          BY <1>5, <4>1
      <3> HIDE DEF c, n
      <3> QED
        BY <1>1, <1>10, <2>1, <2>2, <3>1 DEF ClientInv, Created
    <2>3. CASE k # c
      BY <1>1, <1>6, <2>1, <2>3 DEF ClientInv, Created
    <2> QED
      BY <2>2, <2>3
  <1>13. Working(w)'
    <2>1. \E i \in DOMAIN assessments'[c] : assessments'[c][i].level = job[w].level
      BY <1>4, <1>5
    <2>2. Working(w) /\ Created' = Created
      BY <1>1 DEF TypeInv, Created
    <2>3. /\ job'[w].m \in Message /\ job'[w].m.n \in 1..MaxDeliveries
          /\ job'[w].m.kind = "assess" => job'[w].m.c \in Created'
          /\ job'[w].c \in Created' /\ job'[w].rest \subseteq Created'
          /\ job'[w].m.kind = "batch" \/ (job'[w].m.kind = "assess" /\ job'[w].c = job'[w].m.c)
          /\ job'[w].level \in Levels /\ job'[w].basis \in 1..facts'[job'[w].c].changes
          /\ \E i \in DOMAIN assessments'[job'[w].c] :
               assessments'[job'[w].c][i].level = job'[w].level
      BY <1>1, <1>3, <1>8, <2>1, <2>2 DEF Working
    <2> QED
      BY <1>8, <2>3 DEF Working, OnClient, OnOrg
  <1>14. OrgVersions'
    BY <1>1 DEF TypeInv, OrgVersions
  <1>15. TypeInv'
    <2>1. \A m \in BagToSet(queue') : m \in BagToSet(queue)
      BY <1>1
    <2> QED
      BY <1>8, <1>9, <1>11, <1>12, <1>13, <1>14, <2>1, TypeFrom
  <1> QED
    BY <1>4, <1>5, <1>8, <1>10, <1>15

LEMMA CopyEffect ==
    ASSUME TypeInv, NEW w \in Workers, CopyToClient(w)
    PROVE  /\ TypeInv' /\ \A k \in Workers \ {w} : job'[k] = job[k]
           /\ job[w].m.kind = "batch" =>
                \/ job[w].rest = {} /\ job'[w].at = "idle"
                \/ \E c \in job[w].rest :
                     /\ job'[w].at = "read" /\ job'[w].m = job[w].m /\ job'[w].c = c
                     /\ job'[w].rest = job[w].rest \ {c}
           /\ job[w].m.kind = "assess" =>
                /\ job'[w].at = "announce" /\ job'[w].m = job[w].m /\ job'[w].c = job[w].c
                /\ job'[w].level = job[w].level
  <1> DEFINE c == job[w].c
             r == [riskLevel |-> job[w].level, due |-> FALSE]
  <1>1. /\ job[w].at = "copy" /\ job[w].at \in OnClient
        /\ UNCHANGED <<facts, assessments, org, queue, givenUp, bound>>
        /\ client' = [client EXCEPT ![c] = r]
        /\ owed' \subseteq owed \cup {c}
        /\ IF job[w].m.kind = "batch" THEN GoOn(w, job[w].rest) ELSE Move(w, "announce")
    BY DEF CopyToClient, At, OnClient, Kind
  <1>2. /\ c \in Clients /\ c \in Created /\ Shapes /\ job[w].rest \subseteq Created
        /\ job[w].m \in Message /\ job[w].m.n \in 1..MaxDeliveries
        /\ job[w].m.kind = "assess" => job[w].m.c = c
        /\ job[w].m.kind \in {"assess", "batch"} /\ Created' = Created
    BY <1>1, OnClientKnows DEF TypeInv, Created
  <1>3. /\ job[w].level \in Levels
        /\ \E i \in DOMAIN assessments[c] : assessments[c][i].level = job[w].level
    BY <1>1 DEF TypeInv, Working
  <1>4. /\ r \in [riskLevel: Levels \cup {"none"}, due: BOOLEAN]
        /\ r.riskLevel = job[w].level /\ r.due = FALSE
    BY <1>3
  <1> HIDE DEF r
  <1>5. /\ client' \in [Clients -> [riskLevel: Levels \cup {"none"}, due: BOOLEAN]]
        /\ client'[c] = r /\ \A k \in Clients \ {c} : client'[k] = client[k]
    BY <1>1, <1>2, <1>4 DEF Shapes
  <1> DEFINE Typed == /\ Working(w)' /\ job' \in [Workers -> JobRecord]
                      /\ \A k \in Workers \ {w} : job'[k] = job[k]
  <1>6. ASSUME job[w].m.kind = "batch"
        PROVE  /\ Typed
               /\ \/ job[w].rest = {} /\ job'[w].at = "idle"
                  \/ \E k \in job[w].rest :
                       /\ job'[w].at = "read" /\ job'[w].m = job[w].m /\ job'[w].c = k
                       /\ job'[w].rest = job[w].rest \ {k}
    <2>1. /\ job' \in [Workers -> JobRecord] /\ \A k \in Workers \ {w} : job'[k] = job[k]
          /\ \/ job[w].rest = {} /\ job'[w].at = "idle"
             \/ \E k \in job[w].rest :
                  /\ job'[w].at = "read" /\ job'[w].m = job[w].m /\ job'[w].c = k
                  /\ job'[w].rest = job[w].rest \ {k}
      <3>1. job[w].rest \in SUBSET Clients
        BY <1>2 DEF Created
      <3> QED
        BY <1>1, <1>2, <1>6, <3>1, GoOnEffect
    <2>2. Working(w)'
      BY <1>1, <1>2, <1>6, <2>1, GoneOn
    <2> QED
      BY <2>1, <2>2
  <1>7. ASSUME job[w].m.kind = "assess"
        PROVE  /\ Typed
               /\ job'[w].at = "announce" /\ job'[w].m = job[w].m /\ job'[w].c = job[w].c
               /\ job'[w].level = job[w].level
    <2>1. /\ job' \in [Workers -> JobRecord] /\ \A k \in Workers \ {w} : job'[k] = job[k]
          /\ job'[w].at = "announce" /\ job'[w].m = job[w].m /\ job'[w].c = job[w].c
          /\ job'[w].level = job[w].level
      <3>1. "announce" \in Places
        BY DEF Places
      <3> QED
        BY <1>1, <1>2, <1>7, <3>1, MoveEffect
    <2>2. Working(w)'
      BY <1>1, <1>2, <1>7, <2>1 DEF Working, OnClient, OnOrg
    <2> QED
      BY <2>1, <2>2
  <1>8. Typed
    BY <1>2, <1>6, <1>7
  <1>9. Shapes'
    BY <1>1, <1>2, <1>5, <1>8 DEF Shapes
  <1>10. Grows
    BY <1>1, <1>2, Lengths DEF Shapes, Grows
  <1>11. \A k \in Clients : ClientInv(k)'
    BY <1>1, <1>2, <1>3, <1>4, <1>5 DEF TypeInv, ClientInv, Created
  <1>12. OrgVersions'
    BY <1>1 DEF TypeInv, OrgVersions
  <1>13. TypeInv'
    <2>1. \A m \in BagToSet(queue') : m \in BagToSet(queue)
      BY <1>1
    <2> QED
      BY <1>8, <1>9, <1>10, <1>11, <1>12, <2>1, TypeFrom
  <1> QED
    BY <1>2, <1>6, <1>7, <1>13

LEMMA AnnounceEffect ==
    ASSUME TypeInv, NEW w \in Workers, Announce(w)
    PROVE  /\ TypeInv' /\ \A k \in Workers \ {w} : job'[k] = job[k]
           /\ job'[w].at = "idle" /\ job[w].m.kind = "assess" /\ job[w].m.c = job[w].c
  <1>1. /\ job[w].at = "announce" /\ UNCHANGED <<facts, assessments, client, org, queue, givenUp, bound>>
        /\ owed' \subseteq owed /\ GoOn(w, {}) /\ Shapes
    BY DEF Announce, At, TypeInv
  <1>2. /\ job[w].m \in Message /\ job[w].m.n \in 1..MaxDeliveries
        /\ job[w].m.kind = "assess" /\ job[w].m.c = job[w].c
    BY <1>1 DEF TypeInv, Working
  <1>3. /\ job' \in [Workers -> JobRecord] /\ \A k \in Workers \ {w} : job'[k] = job[k]
        /\ job'[w].at = "idle"
    BY <1>1, GoOnEffect
  <1>4. Working(w)'
    BY <1>1, <1>2, <1>3, GoneOn
  <1>5. Shapes'
    BY <1>1, <1>3 DEF Shapes
  <1>6. TypeInv'
    BY <1>1, <1>3, <1>4, <1>5, SameRecords
  <1> QED
    BY <1>2, <1>3, <1>6

LEMMA SkipEffect ==
    ASSUME TypeInv, NEW w \in Workers, SkipClient(w)
    PROVE  /\ TypeInv' /\ \A k \in Workers \ {w} : job'[k] = job[k]
           /\ job[w].m.kind = "batch" /\ job[w].at \in OnClient
           /\ givenUp' = givenUp \cup {job[w].c}
           /\ \/ job[w].rest = {} /\ job'[w].at = "idle"
              \/ \E c \in job[w].rest :
                   /\ job'[w].at = "read" /\ job'[w].m = job[w].m /\ job'[w].c = c
                   /\ job'[w].rest = job[w].rest \ {c}
  <1>1. /\ job[w].at \in OnClient /\ job[w].m.kind = "batch"
        /\ givenUp' = givenUp \cup {job[w].c}
        /\ UNCHANGED <<facts, assessments, client, org, queue, owed>>
        /\ Fault /\ GoOn(w, job[w].rest) /\ Shapes
    BY DEF SkipClient, Kind, OnClient, TypeInv
  <1>2. /\ job[w].m \in Message /\ job[w].m.n \in 1..MaxDeliveries /\ job[w].c \in Clients
        /\ job[w].rest \subseteq Created /\ job[w].rest \in SUBSET Clients
        /\ bound' \in Bounds /\ bound'.requests = bound.requests
    BY <1>1, OnClientKnows, SpendEffect DEF Created
  <1>3. /\ job' \in [Workers -> JobRecord] /\ \A k \in Workers \ {w} : job'[k] = job[k]
        /\ \/ job[w].rest = {} /\ job'[w].at = "idle"
           \/ \E c \in job[w].rest :
                /\ job'[w].at = "read" /\ job'[w].m = job[w].m /\ job'[w].c = c
                /\ job'[w].rest = job[w].rest \ {c}
    BY <1>1, <1>2, GoOnEffect
  <1>4. Working(w)'
    BY <1>1, <1>2, <1>3, GoneOn
  <1>5. Shapes'
    BY <1>1, <1>2, <1>3 DEF Shapes, Bounds
  <1>6. TypeInv'
    BY <1>1, <1>2, <1>3, <1>4, <1>5, SameRecords
  <1> QED
    BY <1>1, <1>3, <1>6

\* A step that touches neither the clients nor their assessments nor what waits.
LEMMA OrgTyped ==
    ASSUME TypeInv, Shapes', UNCHANGED <<facts, assessments, client, queue, owed, givenUp, bound>>,
           NEW w \in Workers, Working(w)', \A k \in Workers \ {w} : job'[k] = job[k],
           Len(org) <= Len(org'), OrgVersions'
    PROVE  TypeInv'
  <1>1. Grows
    BY Lengths DEF TypeInv, Shapes, Grows
  <1>2. \A c \in Clients : ClientInv(c)'
    <2>1. bound.requests \in Nat
      BY RiskAssessmentAssumption DEF TypeInv, Shapes
    <2> QED
      BY <2>1, ClientsSame
  <1> QED
    BY <1>1, <1>2, TypeFrom

LEMMA NumberOrgEffect ==
    ASSUME TypeInv, NEW w \in Workers, NumberOrg(w)
    PROVE  /\ TypeInv' /\ \A k \in Workers \ {w} : job'[k] = job[k]
           /\ job'[w].at = IF org = <<>> THEN "insert org" ELSE "supersede"
           /\ job'[w].m = job[w].m
  <1>1. /\ job[w].at = "number org" /\ job[w].at \in OnOrg /\ Shapes
        /\ UNCHANGED <<facts, assessments, client, org, queue, owed, givenUp, bound>>
    BY DEF NumberOrg, At, OnOrg, TypeInv
  <1>2. NextVersion(org) \in 1..(Len(org) + 1)
    <2>1. /\ org \in Seq(OrgAssessment) /\ \A r \in OrgAssessment : r.version \in Nat \ {0}
          /\ \A i \in DOMAIN org : org[i].version <= Len(org)
      BY DEF TypeInv, Shapes, OrgVersions, OrgAssessment
    <2> QED
      BY <2>1, NextFits
  <1>3. PICK n \in Nat : n = NextVersion(org)
    <2>1. Len(org) \in Nat
      BY <1>1, Lengths
    <2> QED
      BY <1>2, <2>1
  <1>4. PICK at \in {"insert org", "supersede"} :
          at = IF org = <<>> THEN "insert org" ELSE "supersede"
    OBVIOUS
  <1>5. job' = [job EXCEPT ![w] = [job[w] EXCEPT !.version = n, !.at = at]]
    BY <1>1, <1>3, <1>4 DEF NumberOrg, Shapes
  <1>6. ASSUME NEW r \in JobRecord
        PROVE  LET q == [r EXCEPT !.version = n, !.at = at] IN
               /\ q \in JobRecord /\ q.at = at /\ q.m = r.m /\ q.version = n
    BY DEF JobRecord, Places, OnOrg
  <1>7. /\ job' \in [Workers -> JobRecord] /\ \A k \in Workers \ {w} : job'[k] = job[k]
        /\ job'[w].at = at /\ job'[w].m = job[w].m /\ job'[w].version = n
    BY <1>1, <1>5, <1>6 DEF Shapes
  <1>8. Shapes'
    BY <1>1, <1>7 DEF Shapes
  <1>9. Working(w)'
    <2>1. job[w].m \in Message /\ job[w].m.n \in 1..MaxDeliveries /\ job[w].m.kind = "org"
      BY <1>1 DEF TypeInv, Working
    <2> QED
      BY <1>1, <1>2, <1>3, <1>7, <2>1 DEF Working, OnClient, OnOrg
  <1>10. TypeInv'
    BY <1>1, <1>7, <1>8, <1>9, SameRecords
  <1> QED
    BY <1>4, <1>7, <1>10

LEMMA SupersedeEffect ==
    ASSUME TypeInv, NEW w \in Workers, Supersede(w)
    PROVE  /\ TypeInv' /\ \A k \in Workers \ {w} : job'[k] = job[k]
           /\ job'[w].at = "insert org" /\ job'[w].m = job[w].m
           /\ \A i \in DOMAIN org' : org'[i].status = "SUPERSEDED"
  <1>1. /\ job[w].at = "supersede" /\ job[w].at \in OnOrg /\ Shapes /\ Move(w, "insert org")
        /\ UNCHANGED <<facts, assessments, client, queue, owed, givenUp, bound>>
        /\ org' = Superseded(org)
    BY DEF Supersede, At, OnOrg, TypeInv
  <1>2. /\ org \in Seq(OrgAssessment) /\ Len(org) \in Nat /\ DOMAIN org = 1..Len(org)
        /\ \A i \in DOMAIN org : org[i] \in OrgAssessment
    BY <1>1, Lengths DEF Shapes
  <1>3. ASSUME NEW r \in OrgAssessment
        PROVE  LET q == [r EXCEPT !.status = "SUPERSEDED"] IN
               q \in OrgAssessment /\ q.status = "SUPERSEDED" /\ q.version = r.version
    BY DEF OrgAssessment
  <1>4. /\ org' = [i \in 1..Len(org) |-> [org[i] EXCEPT !.status = "SUPERSEDED"]]
        /\ \A i \in 1..Len(org) : [org[i] EXCEPT !.status = "SUPERSEDED"] \in OrgAssessment
    BY <1>1, <1>2, <1>3 DEF Superseded
  <1>5. /\ org' \in Seq(OrgAssessment) /\ Len(org') = Len(org)
        /\ \A i \in DOMAIN org' : /\ i \in DOMAIN org /\ org'[i].status = "SUPERSEDED"
                                  /\ org'[i].version = org[i].version
    <2>1. org' \in [1..Len(org) -> OrgAssessment]
      BY <1>4
    <2>2. org' \in Seq(OrgAssessment)
      BY <1>2, <2>1, SeqDef
    <2>3. DOMAIN org' = 1..Len(org')
      BY <2>2, LenProperties
    <2>4. DOMAIN org' = 1..Len(org)
      BY <1>4
    <2>5. Len(org') = Len(org)
      BY <1>2, <2>1, <2>2, LenProperties
    <2>6. ASSUME NEW i \in DOMAIN org'
          PROVE  /\ i \in DOMAIN org /\ org'[i].status = "SUPERSEDED"
                 /\ org'[i].version = org[i].version
      <3>1. i \in DOMAIN org /\ org[i] \in OrgAssessment
        BY <1>2, <2>4, <2>6
      <3>2. org'[i] = [org[i] EXCEPT !.status = "SUPERSEDED"]
        BY <1>4, <2>4, <2>6
      <3> QED
        BY <1>3, <3>1, <3>2
    <2> QED
      BY <2>2, <2>5, <2>6
  <1>6. /\ job' \in [Workers -> JobRecord] /\ \A k \in Workers \ {w} : job'[k] = job[k]
        /\ job'[w].at = "insert org" /\ job'[w].m = job[w].m /\ job'[w].version = job[w].version
    <2>1. "insert org" \in Places
      BY DEF Places, OnOrg
    <2> QED
      BY <1>1, <2>1, MoveEffect
  <1>7. Shapes'
    BY <1>1, <1>5, <1>6 DEF Shapes
  <1>8. Working(w)'
    <2>1. /\ job[w].m \in Message /\ job[w].m.n \in 1..MaxDeliveries /\ job[w].m.kind = "org"
          /\ job[w].version \in 1..(Len(org) + 1)
      BY <1>1 DEF TypeInv, Working
    <2> QED
      BY <1>5, <1>6, <2>1 DEF Working, OnClient, OnOrg
  <1>9. OrgVersions'
    BY <1>5 DEF TypeInv, OrgVersions
  <1>10. TypeInv'
    <2>1. Len(org) <= Len(org')
      BY <1>2, <1>5
    <2> QED
      BY <1>1, <1>6, <1>7, <1>8, <1>9, <2>1, OrgTyped
  <1> QED
    BY <1>5, <1>6, <1>10

LEMMA InsertOrgEffect ==
    ASSUME TypeInv, NEW w \in Workers, InsertOrg(w)
    PROVE  /\ TypeInv' /\ \A k \in Workers \ {w} : job'[k] = job[k]
           /\ job'[w].at = "elements" /\ job'[w].m = job[w].m /\ job'[w].basis = Len(org) + 1
           /\ DOMAIN org' = 1..(Len(org) + 1) /\ org'[Len(org) + 1].status = "ACTIVE"
           /\ \A i \in DOMAIN org : org'[i] = org[i]
  <1> DEFINE a == [version |-> job[w].version, status |-> "ACTIVE", whole |-> FALSE]
  <1>1. /\ job[w].at = "insert org" /\ job[w].at \in OnOrg /\ Shapes
        /\ UNCHANGED <<facts, assessments, client, queue, owed, givenUp, bound>>
        /\ org' = Append(org, a)
    BY DEF InsertOrg, At, OnOrg, TypeInv
  <1>2. /\ org \in Seq(OrgAssessment) /\ Len(org) \in Nat /\ DOMAIN org = 1..Len(org)
        /\ \A i \in DOMAIN org : org[i] \in OrgAssessment
    BY <1>1, Lengths DEF Shapes
  <1>3. PICK n \in Nat : n = Len(org) + 1
    BY <1>2
  <1>4. /\ job[w].m \in Message /\ job[w].m.n \in 1..MaxDeliveries /\ job[w].m.kind = "org"
        /\ job[w].version \in 1..n
    BY <1>1, <1>3 DEF TypeInv, Working
  <1>5. a \in OrgAssessment /\ a.status = "ACTIVE" /\ a.version \in 1..n
    BY <1>4 DEF OrgAssessment
  <1> HIDE DEF a
  <1>6. /\ org' \in Seq(OrgAssessment) /\ Len(org') = n /\ org'[n] = a
        /\ \A i \in DOMAIN org : org'[i] = org[i]
    <2>1. /\ org' \in Seq(OrgAssessment) /\ Len(org') = Len(org) + 1 /\ org'[Len(org) + 1] = a
          /\ \A i \in 1..Len(org) : org'[i] = org[i]
      <3>1. /\ Append(org, a) \in Seq(OrgAssessment) /\ Len(Append(org, a)) = Len(org) + 1
            /\ \A i \in 1..Len(org) : Append(org, a)[i] = org[i]
            /\ Append(org, a)[Len(org) + 1] = a
        BY <1>2, <1>5, AppendProperties
      <3>2. org' = Append(org, a)
        BY <1>1
      <3> QED
        BY <3>1, <3>2
    <2> QED
      BY <1>2, <1>3, <2>1
  <1>7. DOMAIN org' = 1..n
    BY <1>6, LenProperties
  <1>8. job' = [job EXCEPT ![w] = [job[w] EXCEPT !.basis = n, !.at = "elements"]]
    BY <1>1, <1>3 DEF InsertOrg, Shapes
  <1>9. ASSUME NEW r \in JobRecord
        PROVE  LET q == [r EXCEPT !.basis = n, !.at = "elements"] IN
               /\ q \in JobRecord /\ q.at = "elements" /\ q.m = r.m /\ q.basis = n
    BY DEF JobRecord, Places, OnOrg
  <1>10. /\ job' \in [Workers -> JobRecord] /\ \A k \in Workers \ {w} : job'[k] = job[k]
         /\ job'[w].at = "elements" /\ job'[w].m = job[w].m /\ job'[w].basis = n
    BY <1>1, <1>8, <1>9 DEF Shapes
  <1>11. Shapes'
    BY <1>1, <1>6, <1>10 DEF Shapes
  <1>12. Working(w)'
    <2>1. n \in 1..Len(org')
      BY <1>2, <1>3, <1>6
    <2> QED
      BY <1>4, <1>10, <2>1 DEF Working, OnClient, OnOrg
  <1>13. OrgVersions'
    <2>1. ASSUME NEW i \in 1..n
          PROVE  org'[i].version <= n
      <3>1. CASE i = n
        BY <1>5, <1>6, <3>1
      <3>2. CASE i # n
        <4>1. i \in DOMAIN org
          BY <1>2, <1>3, <2>1, <3>2
        <4>2. org[i].version <= n - 1 /\ org[i].version \in Nat
          BY <1>2, <1>3, <4>1 DEF TypeInv, OrgVersions, OrgAssessment
        <4> QED
          BY <1>6, <4>1, <4>2
      <3> QED
        BY <3>1, <3>2
    <2> QED
      BY <1>6, <1>7, <2>1 DEF OrgVersions
  <1>14. TypeInv'
    <2>1. Len(org) <= Len(org')
      BY <1>2, <1>3, <1>6
    <2> QED
      BY <1>1, <1>10, <1>11, <1>12, <1>13, <2>1, OrgTyped
  <1> QED
    BY <1>3, <1>5, <1>6, <1>7, <1>10, <1>14

LEMMA ElementsEffect ==
    ASSUME TypeInv, NEW w \in Workers, InsertElements(w)
    PROVE  /\ TypeInv' /\ \A k \in Workers \ {w} : job'[k] = job[k]
           /\ job'[w].at = "idle" /\ DOMAIN org' = DOMAIN org
           /\ \A i \in DOMAIN org : org'[i].status = org[i].status
           /\ org'[job[w].basis].whole = TRUE
           /\ \A i \in DOMAIN org \ {job[w].basis} : org'[i] = org[i]
  <1>1. /\ job[w].at = "elements" /\ job[w].at \in OnOrg /\ Shapes /\ GoOn(w, {})
        /\ UNCHANGED <<facts, assessments, client, queue, owed, givenUp, bound>>
        /\ org' = [org EXCEPT ![job[w].basis].whole = TRUE]
    BY DEF InsertElements, At, OnOrg, TypeInv
  <1>2. /\ org \in Seq(OrgAssessment) /\ Len(org) \in Nat /\ DOMAIN org = 1..Len(org)
        /\ \A i \in DOMAIN org : org[i] \in OrgAssessment
    BY <1>1, Lengths DEF Shapes
  <1>3. /\ job[w].m \in Message /\ job[w].m.n \in 1..MaxDeliveries /\ job[w].m.kind = "org"
        /\ job[w].basis \in DOMAIN org
    BY <1>1, <1>2 DEF TypeInv, Working
  <1>4. PICK i \in DOMAIN org : i = job[w].basis
    BY <1>3
  <1> DEFINE q == [org[i] EXCEPT !.whole = TRUE]
  <1>5. q \in OrgAssessment /\ q.status = org[i].status /\ q.version = org[i].version /\ q.whole = TRUE
    BY <1>2 DEF OrgAssessment
  <1>6. org' = [org EXCEPT ![i] = q]
    BY <1>1, <1>2, <1>4
  <1> HIDE DEF q
  <1>7. /\ org' \in Seq(OrgAssessment) /\ Len(org') = Len(org)
    BY <1>2, <1>5, <1>6, ExceptSeq
  <1>8. /\ DOMAIN org' = DOMAIN org /\ org'[i] = q
        /\ \A k \in DOMAIN org \ {i} : org'[k] = org[k]
    BY <1>2, <1>6
  <1>9. /\ job' \in [Workers -> JobRecord] /\ \A k \in Workers \ {w} : job'[k] = job[k]
        /\ job'[w].at = "idle"
    BY <1>1, GoOnEffect
  <1>10. Shapes'
    BY <1>1, <1>7, <1>9 DEF Shapes
  <1>11. Working(w)'
    BY <1>9 DEF Working, OnClient, OnOrg
  <1>12. OrgVersions'
    BY <1>5, <1>7, <1>8 DEF TypeInv, OrgVersions
  <1>13. TypeInv'
    BY <1>1, <1>2, <1>7, <1>9, <1>10, <1>11, <1>12, OrgTyped
  <1> QED
    BY <1>4, <1>5, <1>8, <1>9, <1>13

LEMMA RetryEffect ==
    ASSUME TypeInv, NEW w \in Workers, Retry(w)
    PROVE  /\ TypeInv' /\ \A k \in Workers \ {w} : job'[k] = job[k]
           /\ job[w].at # "idle" /\ job[w].m \in Message /\ job'[w].at = "idle"
           /\ BagToSet(queue) \subseteq BagToSet(queue') /\ givenUp \subseteq givenUp'
           /\ job[w].m \in BagToSet(queue') \/ Subjects(job[w].m) \subseteq givenUp'
  <1> DEFINE m == job[w].m
  <1>1. /\ job[w].at # "idle" /\ Fault /\ Shapes /\ job' = [job EXCEPT ![w] = Idle]
        /\ UNCHANGED <<facts, assessments, client, org, owed>>
    BY DEF Retry, At, TypeInv
  <1>2. /\ m \in Message /\ m.n \in 1..MaxDeliveries /\ (m.kind = "assess" => m.c \in Created)
        /\ Created' = Created
    BY <1>1 DEF TypeInv, Working, Created
  <1>3. bound' \in Bounds /\ bound'.requests = bound.requests
    BY <1>1, SpendEffect
  <1>4. /\ job' \in [Workers -> JobRecord] /\ \A k \in Workers \ {w} : job'[k] = job[k]
        /\ job'[w].at = "idle"
    BY <1>1, IdleTyped DEF Shapes
  <1>5. \/ m.n < MaxDeliveries /\ queue' = queue (+) SetToBag({m}) /\ UNCHANGED givenUp
        \/ givenUp' = givenUp \cup Subjects(m) /\ UNCHANGED queue
    BY DEF Retry
  <1>6. Subjects(m) \subseteq Clients \cup {"org"}
    <2>1. m.kind \in {"assess", "batch", "org"}
      BY <1>2 DEF Message
    <2> HIDE DEF m
    <2> QED
      BY <1>2, <2>1, SubjectsAre DEF Created
  <1> HIDE DEF m
  <1>7. /\ IsABag(queue') /\ BagToSet(queue) \subseteq BagToSet(queue')
        /\ \A k \in BagToSet(queue') : k \in BagToSet(queue) \/ (k = m /\ m.n < MaxDeliveries)
        /\ givenUp \subseteq givenUp' /\ givenUp' \subseteq Clients \cup {"org"}
        /\ m \in BagToSet(queue') \/ Subjects(m) \subseteq givenUp'
    <2>1. CASE m.n < MaxDeliveries /\ queue' = queue (+) SetToBag({m}) /\ UNCHANGED givenUp
      BY <1>1, <2>1, BagAdd DEF Shapes
    <2>2. CASE givenUp' = givenUp \cup Subjects(m) /\ UNCHANGED queue
      BY <1>1, <1>6, <2>2 DEF Shapes
    <2> QED
      BY <1>5, <2>1, <2>2
  <1>8. Shapes'
    BY <1>1, <1>3, <1>4, <1>7 DEF Shapes, Bounds
  <1>9. Working(w)'
    BY <1>4 DEF Working, OnClient, OnOrg
  <1>10. \A k \in BagToSet(queue') : k \in BagToSet(queue) \/ Waiting(k)'
    BY <1>2, <1>7 DEF Waiting
  <1>11. TypeInv'
    BY <1>1, <1>3, <1>4, <1>8, <1>9, <1>10, SameRecords
  <1> QED
    BY <1>1, <1>2, <1>4, <1>7, <1>11 DEF m

LEMMA TypeStep == TypeInv /\ [Next]_vars => TypeInv'
  <1> SUFFICES ASSUME TypeInv, [Next]_vars
               PROVE  TypeInv'
    OBVIOUS
  <1>1. CASE \/ \E c \in Clients : Record(c) \/ Edit(c) \/ FallDue(c)
             \/ Request \/ Cron
    BY <1>1, RequestsTyped
  <1>2. ASSUME NEW w \in Workers, Deliver(w) \/ Work(w) \/ SkipClient(w) \/ Retry(w)
        PROVE  TypeInv'
    BY <1>2, DeliverTyped, ListEffect, ReadEffect, NumberEffect, InsertEffect, CopyEffect,
       AnnounceEffect, SkipEffect, NumberOrgEffect, SupersedeEffect, InsertOrgEffect,
       ElementsEffect, RetryEffect DEF Work
  <1>3. CASE UNCHANGED vars
    BY <1>3, SameRecords DEF vars, TypeInv, Shapes
  <1> QED
    BY <1>1, <1>2, <1>3 DEF Next

\* The columns hold what they may hold; a client has a level only if it was assessed at it
\* (saveAssessment, processRiskJob).
THEOREM TypeCorrect == Spec => []TypeOK
  <1>1. TypeInv => TypeOK
    <2> SUFFICES ASSUME TypeInv
                 PROVE  TypeOK
      OBVIOUS
    <2>1. ASSUME NEW c \in Clients
          PROVE  /\ facts[c].changes \in 0..MaxRequests /\ facts[c].sent \in 0..facts[c].changes
                 /\ \A i \in DOMAIN assessments[c] :
                      /\ assessments[c][i].level \in Levels
                      /\ assessments[c][i].basis \in 1..facts[c].changes
                 /\ client[c].riskLevel # "none" =>
                      \E i \in DOMAIN assessments[c] : assessments[c][i].level = client[c].riskLevel
      <3>1. /\ facts[c].changes \in Nat /\ facts[c].sent \in Nat /\ MaxRequests \in Nat
            /\ bound.requests \in 0..MaxRequests
        BY RiskAssessmentAssumption DEF TypeInv, Shapes
      <3>2. ClientInv(c)
        BY DEF TypeInv
      <3>3. facts[c].changes \in 0..MaxRequests /\ facts[c].sent \in 0..facts[c].changes
        BY <3>1, <3>2 DEF ClientInv
      <3>4. ASSUME NEW i \in DOMAIN assessments[c]
            PROVE  assessments[c][i].level \in Levels /\ assessments[c][i].basis \in 1..facts[c].changes
        <4>1. assessments[c][i] \in Assessment
          BY Lengths DEF TypeInv
        <4>2. assessments[c][i].basis <= facts[c].changes
          BY <3>2 DEF ClientInv
        <4> QED
          BY <3>1, <4>1, <4>2 DEF Assessment
      <3> QED
        BY <3>2, <3>3, <3>4 DEF ClientInv
    <2>2. \A i \in DOMAIN org : org[i].status \in {"ACTIVE", "SUPERSEDED"} /\ org[i].whole \in BOOLEAN
      BY Lengths DEF TypeInv, OrgAssessment
    <2>3. \A m \in BagToSet(queue) : m.n \in 0..(MaxDeliveries - 1)
      BY RiskAssessmentAssumption DEF TypeInv, Waiting, Message
    <2>4. \A w \in Workers : At(w, "idle") \/ job[w].m.n \in 1..MaxDeliveries
      BY DEF TypeInv, Working, At
    <2>5. owed \subseteq Clients /\ givenUp \subseteq Clients \cup {"org"}
      BY DEF TypeInv, Shapes
    <2> QED
      BY <2>1, <2>2, <2>3, <2>4, <2>5 DEF TypeOK
  <1> QED
    BY <1>1, TypeInit, TypeStep, PTL DEF Spec

-----------------------------------------------------------------------------
(* What is on record is assessed.                                          *)

\* Requests never take a job back.
RequestStep ==
    \/ \E c \in Clients : Record(c) \/ Edit(c) \/ FallDue(c)
    \/ Request \/ Cron

LEMMA RequestsAdd ==
    ASSUME TypeInv, RequestStep
    PROVE  /\ BagToSet(queue) \subseteq BagToSet(queue') /\ givenUp \subseteq givenUp'
           /\ UNCHANGED <<assessments, org, job, owed>>
  <1> USE DEF TypeInv
  <1>1. ASSUME NEW c \in Clients, Record(c)
        PROVE  /\ BagToSet(queue) \subseteq BagToSet(queue') /\ givenUp \subseteq givenUp'
               /\ UNCHANGED <<assessments, org, job, owed>>
    BY <1>1, SendEffect DEF Record
  <1>2. ASSUME NEW c \in Clients, Edit(c) \/ FallDue(c)
        PROVE  UNCHANGED <<queue, givenUp, assessments, org, job, owed>>
    BY <1>2 DEF Edit, FallDue
  <1>3. CASE Request
    BY <1>3, SendEffect DEF Request
  <1>4. CASE Cron
    BY <1>4, BagAdd DEF Cron, Shapes
  <1> QED
    BY <1>1, <1>2, <1>3, <1>4 DEF RequestStep

LEMMA CoverStays ==
    ASSUME NEW c, Covered(c), facts'[c].sent = facts[c].sent, givenUp \subseteq givenUp',
           \A i \in DOMAIN assessments[c] :
             i \in DOMAIN assessments'[c] /\ assessments'[c][i] = assessments[c][i],
           \A m \in BagToSet(queue) : Names(m, c) => Covered(c)' \/ m \in BagToSet(queue'),
           \A w \in Workers : Reaches(w, c) => Covered(c)' \/ Reaches(w, c)'
    PROVE  Covered(c)'
  BY DEF Covered

\* The same for the step of one consumer that takes no job off the queue.
LEMMA CoverKept ==
    ASSUME NEW w \in Workers, NEW c, Covered(c), facts' = facts,
           givenUp \subseteq givenUp', BagToSet(queue) \subseteq BagToSet(queue'),
           \A i \in DOMAIN assessments[c] :
             i \in DOMAIN assessments'[c] /\ assessments'[c][i] = assessments[c][i],
           \A k \in Workers \ {w} : job'[k] = job[k],
           Reaches(w, c) => Covered(c)' \/ Reaches(w, c)'
    PROVE  Covered(c)'
  <1>1. \A k \in Workers \ {w} : Reaches(k, c) => Reaches(k, c)'
    BY DEF Reaches, At
  <1>2. \A k \in Workers : Reaches(k, c) => Covered(c)' \/ Reaches(k, c)'
    BY <1>1
  <1> QED
    BY <1>2, CoverStays

LEMMA ChangeRequests ==
    ASSUME TypeInv, ChangeInv, RequestStep
    PROVE  ChangeInv'
  <1>1. /\ BagToSet(queue) \subseteq BagToSet(queue') /\ givenUp \subseteq givenUp'
        /\ UNCHANGED <<assessments, org, job, owed>>
    BY RequestsAdd
  <1>2. ASSUME NEW c \in Clients, Covered(c), facts'[c].sent = facts[c].sent
        PROVE  Covered(c)'
    <2>1. \A w \in Workers : Reaches(w, c) => Reaches(w, c)'
      BY <1>1, <1>2 DEF Reaches, At
    <2> QED
      BY <1>1, <1>2, <2>1, CoverStays
  <1>3. ASSUME NEW c \in Clients, Record(c)
        PROVE  ChangeInv'
    <2>1. /\ Send(Assess(c))
          /\ \A k \in Clients \ {c} : facts'[k] = facts[k]
      BY <1>3 DEF Record, TypeInv, Shapes
    <2>2. Covered(c)'
      <3>1. Assess(c) \in BagToSet(queue') \/ Subjects(Assess(c)) \subseteq givenUp'
        BY <2>1, SendEffect DEF TypeInv
      <3>2. Subjects(Assess(c)) = {c} /\ Names(Assess(c), c)
        BY DEF Subjects, Assess, Names
      <3> QED
        BY <3>1, <3>2 DEF Covered, Names
    <2>3. ASSUME NEW k \in Created', k # c
          PROVE  Covered(k)'
      <3>1. k \in Created /\ k \in Clients /\ facts'[k] = facts[k]
        BY <2>1, <2>3 DEF Created
      <3> QED
        BY <1>2, <3>1 DEF ChangeInv
    <2> QED
      BY <2>2, <2>3 DEF ChangeInv
  <1>4. ASSUME NEW c \in Clients, Edit(c)
        PROVE  ChangeInv'
    <2>1. c \in Created /\ \A k \in Clients : facts'[k].sent = facts[k].sent
          /\ (k # c => facts'[k] = facts[k])
      BY <1>4 DEF Edit, TypeInv, Shapes
    <2>2. Created' \subseteq Created
      BY <2>1 DEF Created
    <2> QED
      BY <1>2, <2>1, <2>2 DEF ChangeInv, Created
  <1>5. ASSUME UNCHANGED facts
        PROVE  ChangeInv'
    BY <1>2, <1>5 DEF ChangeInv, Created
  <1>6. ASSUME NEW S, facts' = Asked(S),
               \A c \in S \cap Created :
                 c \in givenUp' \/ \E m \in BagToSet(queue') : Names(m, c)
        PROVE  ChangeInv'
    <2>0. Shapes
      BY DEF TypeInv
    <2>1. Created' = Created /\ \A c \in Clients : c \notin S => facts'[c] = facts[c]
      BY <1>6, <2>0, AskedEffect
    <2>2. ASSUME NEW c \in Created
          PROVE  Covered(c)'
      <3>1. CASE c \in S
        <4>1. c \in givenUp' \/ \E m \in BagToSet(queue') : Names(m, c)
          BY <1>6, <2>2, <3>1
        <4> QED
          BY <4>1 DEF Covered, Names
      <3>2. CASE c \notin S
        BY <1>2, <2>1, <3>2 DEF ChangeInv, Created
      <3> QED
        BY <3>1, <3>2
    <2> QED
      BY <2>1, <2>2 DEF ChangeInv
  <1>7. CASE Request
    <2>1. PICK m \in {Assess(c) : c \in Created} \cup {Batch, AssessOrg} :
            Send(m) /\ facts' = Asked(Subjects(m))
      BY <1>7 DEF Request
    <2>2. m \in BagToSet(queue') \/ Subjects(m) \subseteq givenUp'
      BY <2>1, SendEffect DEF TypeInv
    <2>3. \A c \in Subjects(m) \cap Created : Names(m, c)
      <3>1. CASE m \in {Assess(c) : c \in Created}
        BY <3>1 DEF Subjects, Assess, Names
      <3>2. CASE m = Batch
        BY <3>2 DEF Batch, Names
      <3>3. CASE m = AssessOrg
        <4>1. Subjects(m) = {"org"} /\ "org" \notin Clients
          BY <3>3, RiskAssessmentAssumption DEF AssessOrg, Subjects
        <4> QED
          BY <4>1 DEF Created
      <3> QED
        BY <2>1, <3>1, <3>2, <3>3
    <2> QED
      BY <1>6, <2>1, <2>2, <2>3
  <1>8. CASE Cron
    <2>1. PICK sent \in SUBSET Clients :
            queue' = queue (+) SetToBag({Assess(c) : c \in sent}) /\ facts' = Asked(sent)
      BY <1>8 DEF Cron
    <2>2. BagToSet(queue') = BagToSet(queue) \cup {Assess(c) : c \in sent}
      BY <2>1, BagAdd DEF TypeInv, Shapes
    <2>3. ASSUME NEW c \in sent
          PROVE  Assess(c) \in BagToSet(queue') /\ Names(Assess(c), c)
      BY <2>2 DEF Assess, Names
    <2> QED
      BY <1>6, <2>1, <2>3
  <1>9. (\E c \in Clients : FallDue(c)) => UNCHANGED facts
    BY DEF FallDue
  <1> QED
    BY <1>3, <1>4, <1>5, <1>7, <1>8, <1>9 DEF RequestStep

LEMMA ChangeDeliver ==
    ASSUME TypeInv, ChangeInv, NEW w \in Workers, Deliver(w)
    PROVE  ChangeInv'
  <1>1. /\ At(w, "idle") /\ UNCHANGED <<facts, assessments, client, org, owed, givenUp, bound>>
        /\ \A k \in Workers \ {w} : job'[k] = job[k]
    BY DeliverEffect
  <1>2. PICK m \in BagToSet(queue) :
          /\ BagToSet(queue) \ {m} \subseteq BagToSet(queue')
          /\ job'[w].c = m.c
          /\ m.kind = "assess" => job'[w].at = "read"
          /\ m.kind = "batch" => job'[w].at = "list"
    BY DeliverEffect
  <1>3. ASSUME NEW c \in Created
        PROVE  Covered(c)'
    <2>1. Names(m, c) => Covered(c)'
      BY <1>2 DEF Names, Covered, Reaches, At
    <2>2. ~Reaches(w, c)
      BY <1>1 DEF Reaches, At, OnClient
    <2>3. \A k \in Workers : Reaches(k, c) => Reaches(k, c)'
      BY <1>1, <2>2 DEF Reaches, At
    <2>4. \A n \in BagToSet(queue) : Names(n, c) => Covered(c)' \/ n \in BagToSet(queue')
      BY <1>2, <2>1
    <2> QED
      BY <1>1, <2>3, <2>4, CoverStays DEF ChangeInv
  <1>4. Created' = Created
    BY <1>1 DEF Created
  <1> QED
    BY <1>3, <1>4 DEF ChangeInv

LEMMA ChangeWork ==
    ASSUME TypeInv, ChangeInv, NEW w \in Workers, Work(w) \/ SkipClient(w) \/ Retry(w)
    PROVE  ChangeInv'
  <1>1. /\ facts' = facts /\ givenUp \subseteq givenUp'
        /\ \A k \in Workers \ {w} : job'[k] = job[k]
        /\ BagToSet(queue) \subseteq BagToSet(queue')
        /\ \A c \in Clients : \A i \in DOMAIN assessments[c] :
             i \in DOMAIN assessments'[c] /\ assessments'[c][i] = assessments[c][i]
    <2>1. CASE SkipClient(w)
      BY <2>1, SkipEffect DEF SkipClient
    <2>2. CASE Retry(w)
      BY <2>2, RetryEffect DEF Retry
    <2>3. CASE InsertAssessment(w)
      BY <2>3, InsertEffect DEF InsertAssessment
    <2>4. CASE ListClients(w) \/ ReadClient(w) \/ NumberAssessment(w)
      BY <2>4, ListEffect, ReadEffect, NumberEffect DEF ListClients, ReadClient, NumberAssessment
    <2>5. CASE CopyToClient(w) \/ Announce(w)
      BY <2>5, CopyEffect, AnnounceEffect DEF CopyToClient, Announce
    <2>6. CASE NumberOrg(w) \/ Supersede(w) \/ InsertOrg(w) \/ InsertElements(w)
      BY <2>6, NumberOrgEffect, SupersedeEffect, InsertOrgEffect, ElementsEffect
         DEF NumberOrg, Supersede, InsertOrg, InsertElements
    <2> QED
      BY <2>1, <2>2, <2>3, <2>4, <2>5, <2>6 DEF Work
  <1>2. ASSUME NEW c \in Created, Reaches(w, c)
        PROVE  Covered(c)' \/ Reaches(w, c)'
    <2>1. c \in Clients /\ ClientInv(c) /\ facts[c].sent \in Nat /\ facts[c].changes \in Nat
      BY DEF Created, TypeInv, Shapes
    <2>2. /\ At(w, "list") => job[w].m.kind = "batch"
          /\ job[w].at \in OnClient /\ job[w].c = c => Names(job[w].m, c)
      BY OnClientKnows DEF TypeInv, Working, At, Names
    <2>3. CASE ListClients(w)
      BY <2>3, ListEffect DEF Reaches, At, OnClient
    <2>4. CASE ReadClient(w)
      <3>1. job[w].at = "read"
        BY <2>4 DEF ReadClient, At
      <3>2. facts[c].changes >= facts[c].sent
        BY <2>1 DEF ClientInv
      <3> QED
        BY <1>1, <1>2, <2>4, <3>1, <3>2, ReadEffect DEF Reaches, At, OnClient
    <2>5. CASE NumberAssessment(w)
      <3>1. job[w].at = "number"
        BY <2>5 DEF NumberAssessment, At
      <3> QED
        BY <1>1, <1>2, <2>5, <3>1, NumberEffect DEF Reaches, At, OnClient
    <2>6. CASE InsertAssessment(w)
      <3>1. job[w].at = "insert"
        BY <2>6 DEF InsertAssessment, At
      <3>2. CASE job[w].m.kind = "batch" /\ c \in job[w].rest
        BY <2>6, <3>2, InsertEffect DEF Reaches, OnClient
      <3>3. CASE job[w].c = c /\ job[w].basis >= facts[c].sent
        BY <1>1, <2>6, <3>3, InsertEffect DEF Covered
      <3> QED
        BY <1>2, <3>1, <3>2, <3>3 DEF Reaches, At
    <2>7. CASE CopyToClient(w)
      <3>1. job[w].at = "copy"
        BY <2>7 DEF CopyToClient, At
      <3>2. job[w].m.kind = "batch" /\ c \in job[w].rest
        BY <1>2, <3>1 DEF Reaches, At
      <3> QED
        BY <2>7, <3>2, CopyEffect DEF Reaches, At, OnClient
    <2>8. CASE SkipClient(w)
      <3>1. c = job[w].c \/ (job[w].m.kind = "batch" /\ c \in job[w].rest)
        BY <1>2, <2>8 DEF Reaches, At, SkipClient
      <3> QED
        BY <2>8, <3>1, SkipEffect DEF Reaches, At, OnClient, Covered
    <2>9. CASE Retry(w)
      <3>1. job[w].m \in Message /\ Names(job[w].m, c)
        BY <1>2, <2>2, <2>9, RetryEffect DEF Reaches, Names, At, OnClient
      <3>2. c \in Subjects(job[w].m)
        BY <3>1, SubjectsAre DEF Names, Message
      <3> QED
        BY <2>9, <3>1, <3>2, RetryEffect DEF Covered, Names
    <2>10. CASE Announce(w) \/ NumberOrg(w) \/ Supersede(w) \/ InsertOrg(w) \/ InsertElements(w)
      BY <1>2, <2>10
         DEF Reaches, At, OnClient, Announce, NumberOrg, Supersede, InsertOrg, InsertElements
    <2> QED
      BY <2>3, <2>4, <2>5, <2>6, <2>7, <2>8, <2>9, <2>10 DEF Work
  <1>3. Created' = Created
    BY <1>1 DEF Created
  <1>4. ASSUME NEW c \in Created
        PROVE  Covered(c)'
    <2>1. c \in Clients /\ Covered(c)
      BY DEF Created, ChangeInv
    <2> QED
      BY <1>1, <1>2, <2>1, CoverKept
  <1> QED
    BY <1>3, <1>4 DEF ChangeInv

\* Once the jobs about a client are done and none was lost, some assessment of it took into
\* account all that was on record when the last of them was sent, by a change, a person or the
\* cron, changes that send no job included (RiskQueueService, processRiskJob),
\* whichever job came first and whatever interrupted it.
THEOREM ChangesAreAssessed == Spec => []ChangeAssessed
  <1>1. Init => ChangeInv
    BY DEF Init, ChangeInv, Created
  <1>2. TypeInv /\ ChangeInv /\ [Next]_vars => ChangeInv'
    <2> SUFFICES ASSUME TypeInv, ChangeInv, [Next]_vars
                 PROVE  ChangeInv'
      OBVIOUS
    <2>1. CASE UNCHANGED vars
      BY <2>1 DEF vars, ChangeInv, Created, Covered, Reaches, At
    <2> QED
      BY <2>1, ChangeRequests, ChangeDeliver, ChangeWork DEF Next, RequestStep
  <1>3. TypeInv /\ ChangeInv => ChangeAssessed
    <2> SUFFICES ASSUME TypeInv, ChangeInv, NEW c \in Created, ~InFlight(c), c \notin givenUp
                 PROVE  \E i \in DOMAIN assessments[c] : assessments[c][i].basis >= facts[c].sent
      BY DEF ChangeAssessed
    <2>1. ASSUME NEW m \in BagToSet(queue)
          PROVE  ~Names(m, c)
      <3>1. m.kind \in {"assess", "batch", "org"} /\ c \notin Subjects(m)
        BY DEF TypeInv, Waiting, Message, InFlight
      <3> QED
        BY <3>1, SubjectsAre DEF Names
    <2>2. ASSUME NEW w \in Workers
          PROVE  ~Reaches(w, c)
      <3>1. CASE At(w, "list")
        <4>1. job[w].m.kind = "batch"
          BY <3>1 DEF TypeInv, Working, At
        <4>2. c \in Subjects(job[w].m) /\ ~At(w, "idle")
          BY <3>1, <4>1, SubjectsAre DEF At
        <4> QED
          BY <4>2 DEF InFlight
      <3>2. CASE job[w].at \in OnClient
        <4>1. c \notin Subjects(job[w].m)
          BY <3>2 DEF InFlight, At, OnClient
        <4>2. job[w].m.kind = "assess" /\ c # job[w].c
          BY <3>2, <4>1, SubjectsAre, OnClientKnows
        <4> QED
          BY <3>2, <4>2 DEF Reaches, At, OnClient
      <3> QED
        BY <3>1, <3>2 DEF Reaches, At, OnClient
    <2> QED
      BY <2>1, <2>2 DEF ChangeInv, Covered
  <1> QED
    BY <1>1, <1>2, <1>3, TypeInit, TypeStep, PTL DEF Spec

-----------------------------------------------------------------------------
(* Who got the level HIGH is announced.                                    *)

LEMMA ToldStays ==
    ASSUME NEW c, Told(c), givenUp \subseteq givenUp',
           \A m \in BagToSet(queue) :
             m.kind = "assess" /\ m.c = c => Told(c)' \/ m \in BagToSet(queue'),
           \A w \in Workers : WillTell(w, c) => Told(c)' \/ WillTell(w, c)'
    PROVE  Told(c)'
  BY DEF Told

LEMMA HighDeliver ==
    ASSUME TypeInv, HighInv, NEW w \in Workers, Deliver(w)
    PROVE  HighInv'
  <1>1. /\ At(w, "idle") /\ UNCHANGED <<facts, assessments, client, org, owed, givenUp, bound>>
        /\ \A k \in Workers \ {w} : job'[k] = job[k]
    BY DeliverEffect
  <1>2. PICK m \in BagToSet(queue) :
          /\ BagToSet(queue) \ {m} \subseteq BagToSet(queue')
          /\ job'[w].m.kind = m.kind /\ job'[w].m.c = m.c
          /\ m.kind = "assess" => job'[w].at = "read"
    BY DeliverEffect
  <1>3. ASSUME NEW c \in owed
        PROVE  Told(c)'
    <2>1. m.kind = "assess" /\ m.c = c => Told(c)'
      BY <1>2 DEF Told, WillTell, OnClient
    <2>2. ~WillTell(w, c)
      BY <1>1 DEF WillTell, At, OnClient
    <2>3. \A k \in Workers : WillTell(k, c) => WillTell(k, c)'
      BY <1>1, <2>2 DEF WillTell, At
    <2>4. \A n \in BagToSet(queue) :
            n.kind = "assess" /\ n.c = c => Told(c)' \/ n \in BagToSet(queue')
      BY <1>2, <2>1
    <2> QED
      BY <1>1, <2>3, <2>4, ToldStays DEF HighInv
  <1> QED
    BY <1>1, <1>3 DEF HighInv

LEMMA HighWork ==
    ASSUME TypeInv, HighInv, NEW w \in Workers, Work(w) \/ SkipClient(w) \/ Retry(w)
    PROVE  HighInv'
  <1>1. /\ givenUp \subseteq givenUp' /\ BagToSet(queue) \subseteq BagToSet(queue')
        /\ \A k \in Workers \ {w} : job'[k] = job[k]
    <2>1. CASE SkipClient(w)
      BY <2>1, SkipEffect DEF SkipClient
    <2>2. CASE Retry(w)
      BY <2>2, RetryEffect DEF Retry
    <2>3. CASE ListClients(w) \/ ReadClient(w) \/ NumberAssessment(w) \/ InsertAssessment(w)
      BY <2>3, ListEffect, ReadEffect, NumberEffect, InsertEffect
         DEF ListClients, ReadClient, NumberAssessment, InsertAssessment
    <2>4. CASE CopyToClient(w) \/ Announce(w)
      BY <2>4, CopyEffect, AnnounceEffect DEF CopyToClient, Announce
    <2>5. CASE NumberOrg(w) \/ Supersede(w) \/ InsertOrg(w) \/ InsertElements(w)
      BY <2>5, NumberOrgEffect, SupersedeEffect, InsertOrgEffect, ElementsEffect
         DEF NumberOrg, Supersede, InsertOrg, InsertElements
    <2> QED
      BY <2>1, <2>2, <2>3, <2>4, <2>5 DEF Work
  <1>2. ASSUME NEW c \in owed', c \in owed, WillTell(w, c) => Told(c)' \/ WillTell(w, c)'
        PROVE  Told(c)'
    <2>1. \A k \in Workers \ {w} : WillTell(k, c) => WillTell(k, c)'
      BY <1>1 DEF WillTell, At
    <2>2. \A k \in Workers : WillTell(k, c) => Told(c)' \/ WillTell(k, c)'
      BY <1>2, <2>1
    <2>3. Told(c)
      BY <1>2 DEF HighInv
    <2> QED
      BY <1>1, <2>2, <2>3, ToldStays
  <1>3. CASE CopyToClient(w)
    <2>1. /\ job[w].at = "copy" /\ job[w].at \in OnClient
          /\ owed' = IF job[w].level = "HIGH" /\ job[w].m.kind = "assess" THEN owed \cup {job[w].c}
                     ELSE owed \ {job[w].c}
      BY <1>3 DEF CopyToClient, At, Kind, OnClient
    <2>2. job[w].m.kind = "assess" => job[w].m.c = job[w].c
      BY <2>1, OnClientKnows
    <2>3. ASSUME NEW c \in owed', c = job[w].c
          PROVE  Told(c)'
      <3>1. job[w].level = "HIGH" /\ job[w].m.kind = "assess"
        BY <2>1, <2>3
      <3>2. WillTell(w, c)'
        BY <1>3, <2>2, <2>3, <3>1, CopyEffect DEF WillTell, At
      <3> QED
        BY <3>2 DEF Told
    <2>4. ASSUME NEW c \in owed', c # job[w].c
          PROVE  Told(c)'
      <3>1. c \in owed /\ ~WillTell(w, c)
        BY <2>1, <2>2, <2>4 DEF WillTell
      <3> QED
        BY <1>2, <3>1
    <2> QED
      BY <2>3, <2>4 DEF HighInv
  <1>4. CASE Announce(w)
    <2>1. /\ owed' = IF job[w].level = "HIGH" THEN owed \ {job[w].c} ELSE owed
          /\ job[w].at = "announce"
      BY <1>4 DEF Announce, At
    <2>2. job[w].m.c = job[w].c
      BY <1>4, AnnounceEffect
    <2>3. \A c \in owed' : c \in owed /\ ~WillTell(w, c)
      BY <2>1, <2>2 DEF WillTell, At, OnClient
    <2> QED
      BY <1>2, <2>3 DEF HighInv
  <1>5. ASSUME ~CopyToClient(w), ~Announce(w)
        PROVE  HighInv'
    <2>1. owed' = owed
      BY <1>5 DEF Work, ListClients, ReadClient, NumberAssessment, InsertAssessment, NumberOrg,
                  Supersede, InsertOrg, InsertElements, SkipClient, Retry
    <2>2. ASSUME NEW c \in owed, WillTell(w, c)
          PROVE  Told(c)' \/ WillTell(w, c)'
      <3>1. CASE ReadClient(w) \/ NumberAssessment(w) \/ InsertAssessment(w)
        BY <2>2, <3>1, ReadEffect, NumberEffect, InsertEffect
           DEF WillTell, OnClient
      <3>2. CASE SkipClient(w)
        BY <2>2, <3>2, SkipEffect DEF WillTell
      <3>3. CASE Retry(w)
        <4>1. job[w].m.kind = "assess" /\ job[w].m.c = c
          BY <2>2 DEF WillTell
        <4>2. Subjects(job[w].m) = {c}
          BY <4>1, SubjectsAre
        <4> QED
          BY <3>3, <4>1, <4>2, RetryEffect DEF Told
      <3>4. CASE ListClients(w) \/ NumberOrg(w) \/ Supersede(w) \/ InsertOrg(w) \/ InsertElements(w)
        BY <2>2, <3>4
           DEF WillTell, At, OnClient, ListClients, NumberOrg, Supersede, InsertOrg, InsertElements
      <3> QED
        BY <1>5, <3>1, <3>2, <3>3, <3>4 DEF Work
    <2> QED
      BY <1>2, <2>1, <2>2 DEF HighInv
  <1> QED
    BY <1>3, <1>4, <1>5

\* A client that got the level HIGH is announced as such (emitClientNotifications), even when
\* the consumer died after it wrote the level, unless the job was lost.
THEOREM HighIsAnnounced == Spec => []HighAnnounced
  <1>1. Init => HighInv
    BY DEF Init, HighInv
  <1>2. TypeInv /\ HighInv /\ [Next]_vars => HighInv'
    <2> SUFFICES ASSUME TypeInv, HighInv, [Next]_vars
                 PROVE  HighInv'
      OBVIOUS
    <2>1. CASE UNCHANGED vars
      BY <2>1 DEF vars, HighInv, Told, WillTell, At
    <2>2. CASE RequestStep
      BY <2>2, RequestsAdd DEF HighInv, Told, WillTell, At
    <2> QED
      BY <2>1, <2>2, HighDeliver, HighWork DEF Next, RequestStep
  <1>3. TypeInv /\ HighInv => HighAnnounced
    <2> SUFFICES ASSUME TypeInv, HighInv, NEW c \in owed, c \notin givenUp
                 PROVE  InFlight(c)
      BY DEF HighAnnounced
    <2>1. ASSUME NEW m \in BagToSet(queue), m.kind = "assess", m.c = c
          PROVE  InFlight(c)
      BY <2>1, SubjectsAre DEF InFlight
    <2>2. ASSUME NEW w \in Workers, WillTell(w, c)
          PROVE  InFlight(c)
      <3>1. ~At(w, "idle") /\ job[w].m.kind = "assess" /\ job[w].m.c = c
        BY <2>2 DEF WillTell, At, OnClient
      <3> QED
        BY <3>1, SubjectsAre DEF InFlight
    <2> QED
      BY <2>1, <2>2 DEF HighInv, Told
  <1> QED
    BY <1>1, <1>2, <1>3, TypeInit, TypeStep, PTL DEF Spec

-----------------------------------------------------------------------------
(* The assessment of the organization.                                     *)

\* A step that leaves the organization's rows and jobs alone.
LEMMA OrgKept ==
    ASSUME OrgInv, NEW w \in Workers, job[w].at \notin OnOrg, \A k \in Workers \ {w} : job'[k] = job[k],
           org' = org, OrgWaits => OrgWaits'
    PROVE  OrgInv'
  <1>1. \A k \in Workers : job[k].at \in OnOrg => job'[k] = job[k]
    OBVIOUS
  <1>2. /\ \A k \in Workers : job[k].at \in {"number org", "supersede", "insert org"} =>
             job'[k].at = job[k].at
        /\ \A k \in Workers : At(k, "elements") => At(k, "elements")' /\ job'[k].basis = job[k].basis
    BY <1>1 DEF OnOrg, At
  <1>3. InForce'
    BY <1>2 DEF OrgInv, InForce
  <1>4. ASSUME NEW i \in DOMAIN org, org[i].status = "ACTIVE", ~org[i].whole
        PROVE  \/ OrgWaits'
               \/ \E k \in Workers : job'[k].at \in {"number org", "supersede"}
               \/ \E k \in Workers : At(k, "elements")' /\ job'[k].basis = i
    <2>1. \/ OrgWaits
          \/ \E k \in Workers : job[k].at \in {"number org", "supersede"}
          \/ \E k \in Workers : At(k, "elements") /\ job[k].basis = i
      BY <1>4 DEF OrgInv, Complete
    <2> QED
      BY <1>2, <2>1
  <1> QED
    BY <1>3, <1>4 DEF OrgInv, Complete

LEMMA OrgDeliver ==
    ASSUME TypeInv, OrgInv, NEW w \in Workers, Deliver(w)
    PROVE  OrgInv'
  <1>1. /\ At(w, "idle") /\ UNCHANGED <<facts, assessments, client, org, owed, givenUp, bound>>
        /\ \A k \in Workers \ {w} : job'[k] = job[k]
    BY DeliverEffect
  <1>2. PICK m \in BagToSet(queue) :
          /\ BagToSet(queue) \ {m} \subseteq BagToSet(queue')
          /\ m.kind = "org" => job'[w].at = "number org"
    BY DeliverEffect
  <1>3. CASE m.kind = "org"
    BY <1>2, <1>3 DEF OrgInv, InForce, Complete
  <1>4. CASE m.kind # "org"
    <2>1. OrgWaits => OrgWaits'
      BY <1>1, <1>2, <1>4 DEF OrgWaits
    <2>2. job[w].at \notin OnOrg
      BY <1>1 DEF At, OnOrg
    <2> QED
      BY <1>1, <2>1, <2>2, OrgKept
  <1> QED
    BY <1>3, <1>4

LEMMA OrgWork ==
    ASSUME TypeInv, OrgInv, NEW w \in Workers, Work(w) \/ SkipClient(w) \/ Retry(w)
    PROVE  OrgInv'
  <1>1. CASE ListClients(w) \/ ReadClient(w) \/ NumberAssessment(w) \/ InsertAssessment(w)
             \/ CopyToClient(w) \/ Announce(w) \/ SkipClient(w)
    <2>1. /\ job[w].at \notin OnOrg /\ org' = org /\ queue' = queue /\ givenUp \subseteq givenUp'
      BY <1>1 DEF ListClients, ReadClient, NumberAssessment, InsertAssessment, CopyToClient,
                  Announce, SkipClient, At, OnOrg
    <2>2. \A k \in Workers \ {w} : job'[k] = job[k]
      BY <1>1, ListEffect, ReadEffect, NumberEffect, InsertEffect, CopyEffect, AnnounceEffect,
         SkipEffect
    <2>3. OrgWaits => OrgWaits'
      BY <2>1 DEF OrgWaits
    <2> QED
      BY <2>1, <2>2, <2>3, OrgKept
  <1>2. CASE Retry(w)
    <2>1. /\ job[w].m \in Message /\ \A k \in Workers \ {w} : job'[k] = job[k]
          /\ BagToSet(queue) \subseteq BagToSet(queue') /\ givenUp \subseteq givenUp'
          /\ job[w].m \in BagToSet(queue') \/ Subjects(job[w].m) \subseteq givenUp'
          /\ org' = org
      BY <1>2, RetryEffect DEF Retry
    <2>2. OrgWaits => OrgWaits'
      BY <2>1 DEF OrgWaits
    <2>3. CASE job[w].at \in OnOrg
      <3>1. job[w].m.kind = "org"
        BY <2>3 DEF TypeInv, Working
      <3>2. OrgWaits'
        BY <2>1, <3>1, SubjectsAre DEF OrgWaits
      <3> QED
        BY <3>2 DEF OrgInv, InForce, Complete
    <2>4. CASE job[w].at \notin OnOrg
      BY <2>1, <2>2, <2>4, OrgKept
    <2> QED
      BY <2>3, <2>4
  <1>3. CASE NumberOrg(w)
    <2>1. /\ org' = org /\ queue' = queue /\ givenUp' = givenUp
          /\ job'[w].at = IF org = <<>> THEN "insert org" ELSE "supersede"
      BY <1>3, NumberOrgEffect DEF NumberOrg
    <2>2. org = <<>> => DOMAIN org = {}
      BY EmptySeq
    <2> QED
      BY <2>1, <2>2 DEF OrgInv, InForce, Complete
  <1>4. CASE Supersede(w)
    BY <1>4, SupersedeEffect DEF OrgInv, InForce, Complete
  <1>5. CASE InsertOrg(w)
    <2>1. /\ job[w].at = "insert org" /\ queue' = queue /\ givenUp' = givenUp
          /\ \A k \in Workers \ {w} : job'[k] = job[k]
      BY <1>5, InsertOrgEffect DEF InsertOrg, At
    <2>2. PICK n \in Nat : n = Len(org) + 1
      BY Lengths DEF TypeInv
    <2>3. /\ At(w, "elements")' /\ job'[w].basis = n /\ DOMAIN org' = 1..n
          /\ org'[n].status = "ACTIVE" /\ n \in DOMAIN org'
          /\ \A i \in DOMAIN org' \ {n} : i \in DOMAIN org /\ org'[i] = org[i]
      <3>1. /\ job'[w].at = "elements" /\ job'[w].basis = n /\ DOMAIN org' = 1..n
            /\ org'[n].status = "ACTIVE" /\ \A i \in DOMAIN org : org'[i] = org[i]
        BY <1>5, <2>2, InsertOrgEffect
      <3>2. DOMAIN org = 1..Len(org) /\ Len(org) \in Nat
        BY Lengths DEF TypeInv
      <3>3. \A i \in 1..n : i # n => i \in 1..Len(org)
        BY <2>2, <3>2
      <3>4. n \in 1..n
        BY <2>2, <3>2
      <3> QED
        BY <3>1, <3>2, <3>3, <3>4 DEF At
    <2>4. InForce'
      BY <2>3 DEF InForce
    <2>5. ASSUME NEW i \in DOMAIN org', org'[i].status = "ACTIVE", ~org'[i].whole
          PROVE  \/ OrgWaits'
                 \/ \E k \in Workers : job'[k].at \in {"number org", "supersede"}
                 \/ \E k \in Workers : At(k, "elements")' /\ job'[k].basis = i
      <3>1. CASE i = n
        BY <2>3, <3>1
      <3>2. CASE i # n
        <4>1. \/ OrgWaits
              \/ \E k \in Workers : job[k].at \in {"number org", "supersede"}
              \/ \E k \in Workers : At(k, "elements") /\ job[k].basis = i
          BY <2>3, <2>5, <3>2 DEF OrgInv, Complete
        <4>2. OrgWaits => OrgWaits'
          BY <2>1 DEF OrgWaits
        <4> QED
          BY <2>1, <4>1, <4>2 DEF At
      <3> QED
        BY <3>1, <3>2
    <2> QED
      BY <2>4, <2>5 DEF OrgInv, Complete
  <1>6. CASE InsertElements(w)
    <2>1. /\ job[w].at = "elements" /\ queue' = queue /\ givenUp' = givenUp
          /\ \A k \in Workers \ {w} : job'[k] = job[k]
          /\ DOMAIN org' = DOMAIN org /\ \A i \in DOMAIN org : org'[i].status = org[i].status
      BY <1>6, ElementsEffect DEF InsertElements, At
    <2>2. OrgWaits => OrgWaits'
      BY <2>1 DEF OrgWaits
    <2>3. InForce'
      <3>1. org = <<>> => org' = <<>>
        <4>1. org' = [org EXCEPT ![job[w].basis].whole = TRUE]
          BY <1>6 DEF InsertElements
        <4>2. job[w].basis \in 1..Len(org)
          BY <2>1 DEF TypeInv, Working
        <4>3. org = <<>> => Len(org) = 0
          BY EmptySeq
        <4> QED
          BY <4>2, <4>3
      <3> QED
        BY <2>1, <2>2, <3>1 DEF OrgInv, InForce
    <2>4. ASSUME NEW i \in DOMAIN org, org'[i].status = "ACTIVE", ~org'[i].whole
          PROVE  \/ OrgWaits'
                 \/ \E k \in Workers : job'[k].at \in {"number org", "supersede"}
                 \/ \E k \in Workers : At(k, "elements")' /\ job'[k].basis = i
      <3>1. i # job[w].basis /\ org'[i] = org[i]
        BY <1>6, <2>4, ElementsEffect
      <3>2. \/ OrgWaits
            \/ \E k \in Workers : job[k].at \in {"number org", "supersede"}
            \/ \E k \in Workers : At(k, "elements") /\ job[k].basis = i
        BY <2>4, <3>1 DEF OrgInv, Complete
      <3> QED
        BY <2>1, <2>2, <3>1, <3>2 DEF At
    <2> QED
      BY <2>1, <2>3, <2>4 DEF OrgInv, Complete
  <1> QED
    BY <1>1, <1>2, <1>3, <1>4, <1>5, <1>6 DEF Work

\* Once the organization's jobs are done and none was lost, an assessment is in force, and
\* whatever is in force has all its elements (OrgRiskRepository.saveAssessment), also after a
\* job died between any two of its statements.
THEOREM OrgStands == Spec => []OrgAssessmentStands
  <1>1. Init => OrgInv
    BY EmptySeq DEF Init, OrgInv, InForce, Complete
  <1>2. TypeInv /\ OrgInv /\ [Next]_vars => OrgInv'
    <2> SUFFICES ASSUME TypeInv, OrgInv, [Next]_vars
                 PROVE  OrgInv'
      OBVIOUS
    <2>1. CASE UNCHANGED vars
      BY <2>1 DEF vars, OrgInv, InForce, Complete, OrgWaits, At
    <2>2. CASE RequestStep
      <3>1. /\ BagToSet(queue) \subseteq BagToSet(queue') /\ givenUp \subseteq givenUp'
            /\ org' = org /\ job' = job
        BY <2>2, RequestsAdd
      <3>2. OrgWaits => OrgWaits'
        BY <3>1 DEF OrgWaits
      <3> QED
        BY <3>1, <3>2 DEF OrgInv, InForce, Complete, At
    <2> QED
      BY <2>1, <2>2, OrgDeliver, OrgWork DEF Next, RequestStep
  <1>3. TypeInv /\ OrgInv => OrgAssessmentStands
    <2> SUFFICES ASSUME TypeInv, OrgInv, org # <<>>, ~InFlight("org"), "org" \notin givenUp
                 PROVE  /\ \E i \in DOMAIN org : org[i].status = "ACTIVE"
                        /\ \A i \in DOMAIN org : org[i].status = "ACTIVE" => org[i].whole
      BY DEF OrgAssessmentStands
    <2>1. ~OrgWaits
      BY SubjectsAre DEF OrgWaits, InFlight
    <2>2. ASSUME NEW w \in Workers
          PROVE  job[w].at \notin OnOrg
      <3>1. job[w].at \in OnOrg => job[w].m.kind = "org" /\ ~At(w, "idle")
        BY DEF TypeInv, Working, At, OnOrg
      <3> QED
        BY <3>1, SubjectsAre DEF InFlight
    <2> QED
      BY <2>1, <2>2 DEF OrgInv, InForce, Complete, OnOrg, At
  <1> QED
    BY <1>1, <1>2, <1>3, TypeInit, TypeStep, PTL DEF Spec

-----------------------------------------------------------------------------
(* RiskScoring                                                             *)

-----------------------------------------------------------------------------
(* Sums.  SumFunction is a fold over the subsets of the domain; what it     *)
(* computes is shown by induction over them.                                *)

\* Among the subsets of a finite set that have something in common one is smallest.
LEMMA Smallest ==
    ASSUME NEW S, IsFiniteSet(S), NEW B \in SUBSET (SUBSET S), B # {}
    PROVE  \E t \in B : \A u \in B : u \subseteq t => u = t
  <1>1. IsWellFoundedOn(StrictSubsetOrdering(S), SUBSET S)
    BY FS_StrictSubsetOrderingWellFounded, FS_FiniteSubsetsOfFinite
  <1>2. PICK t \in B : \A u \in B : <<u, t>> \notin StrictSubsetOrdering(S)
    BY <1>1, WFMin
  <1>3. ASSUME NEW u \in B, u \subseteq t PROVE u = t
    BY <1>2, <1>3 DEF StrictSubsetOrdering
  <1> QED
    BY <1>3

First(s) == CHOOSE x \in s : TRUE

\* What the fold computes on the subsets of a set.
Folded(value, S, g) ==
    g = [s \in SUBSET S |-> IF s = {} THEN 0 ELSE value[First(s)] + g[s \ {First(s)}]]
Sum(value, S) == (CHOOSE g : Folded(value, S, g))[S]

LEMMA FirstIn == ASSUME NEW s, s # {} PROVE First(s) \in s
  BY DEF First

LEMMA FoldedAt ==
    ASSUME NEW value, NEW S, NEW g, Folded(value, S, g), NEW s \in SUBSET S
    PROVE  /\ s = {} => g[s] = 0
           /\ s # {} => g[s] = value[First(s)] + g[s \ {First(s)}]
  BY DEF Folded

\* What it computes of a set does not depend on the set it was begun with.
LEMMA FoldedOnce ==
    ASSUME NEW value, NEW S, IsFiniteSet(S), NEW T \in SUBSET S,
           NEW f, Folded(value, S, f), NEW g, Folded(value, T, g)
    PROVE  f[T] = g[T]
  <1> DEFINE B == {s \in SUBSET T : f[s] # g[s]}
  <1>1. B \in SUBSET (SUBSET T) /\ IsFiniteSet(T)
    BY FS_Subset
  <1> HIDE DEF B
  <1>2. ASSUME B # {} PROVE FALSE
    <2>1. PICK s \in B : \A u \in B : u \subseteq s => u = s
      BY <1>1, <1>2, Smallest
    <2> USE DEF B
    <2>2. s \in SUBSET T /\ s \in SUBSET S /\ f[s] # g[s]
      BY <2>1
    <2>3. CASE s = {}
      BY <2>2, <2>3, FoldedAt
    <2>4. CASE s # {}
      <3>1. First(s) \in s
        BY <2>4, FirstIn
      <3>2. s \ {First(s)} \notin B /\ s \ {First(s)} \in SUBSET T
        BY <2>1, <2>2, <3>1
      <3>3. f[s \ {First(s)}] = g[s \ {First(s)}]
        BY <3>2
      <3>4. f[s] = value[First(s)] + f[s \ {First(s)}]
        BY <2>2, <2>4, FoldedAt
      <3>5. g[s] = value[First(s)] + g[s \ {First(s)}]
        BY <2>2, <2>4, FoldedAt
      <3> QED
        BY <2>2, <3>3, <3>4, <3>5
    <2> QED
      BY <2>3, <2>4
  <1> QED
    BY <1>2 DEF B

\* It computes something.
LEMMA FoldedExists ==
    ASSUME NEW value, NEW S, IsFiniteSet(S)
    PROVE  \E g : Folded(value, S, g)
  <1> DEFINE B == {s \in SUBSET S : ~\E g : Folded(value, s, g)}
  <1>a. B \in SUBSET (SUBSET S)
    OBVIOUS
  <1> HIDE DEF B
  <1>1. ASSUME B # {} PROVE FALSE
    <2>1. PICK t \in B : \A u \in B : u \subseteq t => u = t
      BY <1>a, <1>1, Smallest
    <2> USE DEF B
    <2> DEFINE f == [s \in SUBSET t |-> IF s = {} THEN 0 ELSE value[First(s)]
                                                      + Sum(value, s \ {First(s)})]
    <2>2. ASSUME NEW s \in SUBSET t, s # {}
          PROVE  f[s \ {First(s)}] = Sum(value, s \ {First(s)})
      <3>1. PICK u \in SUBSET t : u = s \ {First(s)}
        OBVIOUS
      <3>2. u # t /\ u \in SUBSET S /\ IsFiniteSet(u)
        BY <2>1, <2>2, <3>1, FirstIn, FS_Subset
      <3>3. \E g : Folded(value, u, g)
        BY <2>1, <3>2
      <3> DEFINE g == CHOOSE h : Folded(value, u, h)
      <3>4. Folded(value, u, g) /\ Sum(value, u) = g[u]
        BY <3>3 DEF Sum
      <3> HIDE DEF g
      <3>5. CASE u = {}
        BY <3>1, <3>4, <3>5, FoldedAt
      <3>6. CASE u # {}
        <4>1. First(u) \in u
          BY <3>6, FirstIn
        <4>2. PICK v \in SUBSET u : v = u \ {First(u)}
          OBVIOUS
        <4>3. v # t /\ v \in SUBSET S
          BY <3>1, <3>2, <4>1, <4>2
        <4>4. \E h : Folded(value, v, h)
          BY <2>1, <4>2, <4>3
        <4>5. Folded(value, v, CHOOSE h : Folded(value, v, h))
          BY <4>4
        <4>6. g[v] = Sum(value, v)
          BY <3>2, <3>4, <4>5, FoldedOnce DEF Sum
        <4>7. g[u] = value[First(u)] + g[v]
          BY <3>4, <3>6, <4>2, FoldedAt
        <4>8. f[u] = value[First(u)] + Sum(value, v)
          BY <3>6, <4>2
        <4> QED
          BY <3>1, <3>4, <4>6, <4>7, <4>8
      <3> QED
        BY <3>5, <3>6
    <2>3. f = [s \in SUBSET t |-> IF s = {} THEN 0 ELSE value[First(s)] + f[s \ {First(s)}]]
      BY <2>2
    <2>4. Folded(value, t, f)
      BY <2>3 DEF Folded
    <2> QED
      BY <2>1, <2>4
  <1> QED
    BY <1>1 DEF B

\* The sum of a set is the first value and the sum of the others ...

LEMMA SumFirst ==
    ASSUME NEW value, NEW S, IsFiniteSet(S)
    PROVE  /\ S = {} => Sum(value, S) = 0
           /\ S # {} => Sum(value, S) = value[First(S)] + Sum(value, S \ {First(S)})
  <1> DEFINE g == CHOOSE h : Folded(value, S, h)
             R == S \ {First(S)}
  <1>1. Folded(value, S, g) /\ Sum(value, S) = g[S]
    BY FoldedExists DEF Sum
  <1>2. R \in SUBSET S /\ IsFiniteSet(R)
    BY FS_Subset
  <1>3. Folded(value, R, CHOOSE h : Folded(value, R, h))
    BY <1>2, FoldedExists
  <1> HIDE DEF g, R
  <1>4. g[R] = Sum(value, R)
    BY <1>1, <1>2, <1>3, FoldedOnce DEF Sum
  <1>5. (S = {} => g[S] = 0) /\ (S # {} => g[S] = value[First(S)] + g[R])
    <2>1. S \in SUBSET S
      OBVIOUS
    <2> QED
      BY <1>1, <2>1, FoldedAt DEF R
  <1> QED
    BY <1>1, <1>4, <1>5 DEF R

AreNatural(value, S) == \A h \in S : value[h] \in Nat

\* ... a natural number ...
LEMMA SumTyped ==
    ASSUME NEW value, NEW S, IsFiniteSet(S), AreNatural(value, S)
    PROVE  Sum(value, S) \in Nat
  <1> DEFINE B == {s \in SUBSET S : Sum(value, s) \notin Nat}
  <1>a. B \in SUBSET (SUBSET S)
    OBVIOUS
  <1> HIDE DEF B
  <1>1. ASSUME B # {} PROVE FALSE
    <2>1. PICK s \in B : \A u \in B : u \subseteq s => u = s
      BY <1>a, <1>1, Smallest
    <2> USE DEF B
    <2>2. s \in SUBSET S /\ IsFiniteSet(s)
      BY FS_Subset
    <2>3. CASE s = {}
      <3>1. Sum(value, s) = 0
        BY <2>2, <2>3, SumFirst
      <3> QED
        BY <2>1, <3>1
    <2>4. CASE s # {}
      <3>1. First(s) \in s
        BY <2>4, FirstIn
      <3>2. Sum(value, s \ {First(s)}) \in Nat
        BY <2>1, <2>2, <3>1
      <3>3. value[First(s)] \in Nat
        BY <2>2, <3>1 DEF AreNatural
      <3>4. Sum(value, s) = value[First(s)] + Sum(value, s \ {First(s)})
        BY <2>2, <2>4, SumFirst
      <3> QED
        BY <2>1, <3>2, <3>3, <3>4
    <2> QED
      BY <2>3, <2>4
  <1> QED
    BY <1>1 DEF B

\* ... and so for any one of them.

LEMMA SumWithout ==
    ASSUME NEW value, NEW S, IsFiniteSet(S), AreNatural(value, S), NEW h \in S
    PROVE  Sum(value, S) = value[h] + Sum(value, S \ {h})
  <1> DEFINE B == {s \in SUBSET S : \E x \in s :
                     Sum(value, s) # value[x] + Sum(value, s \ {x})}
  <1>a. B \in SUBSET (SUBSET S)
    OBVIOUS
  <1> HIDE DEF B
  <1>1. ASSUME B # {} PROVE FALSE
    <2>1. PICK s \in B : \A u \in B : u \subseteq s => u = s
      BY <1>a, <1>1, Smallest
    <2> USE DEF B
    <2>2. s \in SUBSET S /\ IsFiniteSet(s)
      BY FS_Subset
    <2>3. PICK x \in s : Sum(value, s) # value[x] + Sum(value, s \ {x})
      BY <2>1
    <2>4. PICK y \in s : y = First(s)
      BY <2>3, FirstIn
    <2>5. Sum(value, s) = value[y] + Sum(value, s \ {y})
      BY <2>2, <2>4, SumFirst
    <2>6. x # y
      BY <2>3, <2>5
    <2>7. s \ {x} \notin B /\ s \ {y} \notin B /\ s \ {x} \in SUBSET S /\ s \ {y} \in SUBSET S
      BY <2>1, <2>2
    <2>8. PICK r \in SUBSET S : r = (s \ {x}) \ {y} /\ r = (s \ {y}) \ {x}
      BY <2>2
    <2>9. Sum(value, s \ {y}) = value[x] + Sum(value, r)
      BY <2>6, <2>7, <2>8
    <2>10. Sum(value, s \ {x}) = value[y] + Sum(value, r)
      BY <2>6, <2>7, <2>8
    <2>11. IsFiniteSet(r) /\ AreNatural(value, r)
      BY <2>8, FS_Subset DEF AreNatural
    <2>12. PICK n \in Nat, i \in Nat, j \in Nat :
             n = Sum(value, r) /\ i = value[x] /\ j = value[y]
      BY <2>2, <2>11, SumTyped DEF AreNatural
    <2>13. i + (j + n) = j + (i + n)
      BY <2>12
    <2> QED
      BY <2>3, <2>5, <2>9, <2>10, <2>12, <2>13
  <1> QED
    BY <1>1 DEF B

\* Smaller values do not sum to more ...
LEMMA SumLess ==
    ASSUME NEW value, NEW more, NEW S, IsFiniteSet(S), AreNatural(value, S), AreNatural(more, S),
           \A x \in S : value[x] <= more[x]
    PROVE  Sum(value, S) <= Sum(more, S)
  <1> DEFINE B == {s \in SUBSET S : ~(Sum(value, s) <= Sum(more, s))}
  <1>a. B \in SUBSET (SUBSET S)
    OBVIOUS
  <1> HIDE DEF B
  <1>1. ASSUME B # {} PROVE FALSE
    <2>1. PICK s \in B : \A u \in B : u \subseteq s => u = s
      BY <1>a, <1>1, Smallest
    <2> USE DEF B
    <2>2. s \in SUBSET S /\ IsFiniteSet(s) /\ ~(Sum(value, s) <= Sum(more, s))
      BY <2>1, FS_Subset
    <2>3. CASE s = {}
      <3>1. Sum(value, s) = 0 /\ Sum(more, s) = 0
        BY <2>2, <2>3, SumFirst
      <3> QED
        BY <2>2, <3>1
    <2>4. CASE s # {}
      <3>1. PICK x \in s : TRUE
        BY <2>4
      <3>2. PICK r \in SUBSET S : r = s \ {x}
        BY <2>2
      <3>3. IsFiniteSet(r) /\ r # s /\ r \subseteq s
        BY <2>2, <3>1, <3>2, FS_Subset
      <3>4. Sum(value, r) <= Sum(more, r)
        BY <2>1, <3>2, <3>3
      <3>5. Sum(value, s) = value[x] + Sum(value, r) /\ Sum(more, s) = more[x] + Sum(more, r)
        <4>1. AreNatural(value, s) /\ AreNatural(more, s)
          BY <2>2 DEF AreNatural
        <4> QED
          BY <2>2, <3>2, <4>1, SumWithout
      <3>6. /\ Sum(value, r) \in Nat /\ Sum(more, r) \in Nat
            /\ value[x] \in Nat /\ more[x] \in Nat /\ value[x] <= more[x]
        BY <2>2, <3>2, <3>3, SumTyped DEF AreNatural
      <3> QED
        BY <2>2, <3>4, <3>5, <3>6
    <2> QED
      BY <2>3, <2>4
  <1> QED
    BY <1>1 DEF B

\* ... and values of m at most not to more than m times their number.
LEMMA SumAtMost ==
    ASSUME NEW value, NEW S, IsFiniteSet(S), AreNatural(value, S), NEW m \in Nat,
           \A x \in S : value[x] <= m
    PROVE  Sum(value, S) <= m * Cardinality(S)
  <1> DEFINE B == {s \in SUBSET S : ~(Sum(value, s) <= m * Cardinality(s))}
  <1>a. B \in SUBSET (SUBSET S)
    OBVIOUS
  <1> HIDE DEF B
  <1>1. ASSUME B # {} PROVE FALSE
    <2>1. PICK s \in B : \A u \in B : u \subseteq s => u = s
      BY <1>a, <1>1, Smallest
    <2> USE DEF B
    <2>2. s \in SUBSET S /\ IsFiniteSet(s) /\ ~(Sum(value, s) <= m * Cardinality(s))
      BY <2>1, FS_Subset
    <2>3. CASE s = {}
      <3>1. Sum(value, s) = 0 /\ Cardinality(s) = 0
        BY <2>2, <2>3, SumFirst, FS_EmptySet
      <3> QED
        BY <2>2, <3>1
    <2>4. CASE s # {}
      <3>1. PICK x \in s : TRUE
        BY <2>4
      <3>2. PICK r \in SUBSET S : r = s \ {x}
        BY <2>2
      <3>3. IsFiniteSet(r) /\ r # s /\ r \subseteq s
        BY <2>2, <3>1, <3>2, FS_Subset
      <3>4. Sum(value, r) <= m * Cardinality(r)
        BY <2>1, <3>2, <3>3
      <3>5. Sum(value, s) = value[x] + Sum(value, r)
        <4>1. AreNatural(value, s)
          BY <2>2 DEF AreNatural
        <4> QED
          BY <2>2, <3>2, <4>1, SumWithout
      <3>6. /\ Sum(value, r) \in Nat /\ value[x] \in Nat /\ value[x] <= m
        BY <2>2, <3>2, <3>3, SumTyped DEF AreNatural
      <3>7. PICK n \in Nat : n = Cardinality(r) /\ Cardinality(s) = n + 1
        BY <2>2, <3>1, <3>2, <3>3, FS_RemoveElement, FS_CardinalityType
      <3>8. m * (n + 1) = m * n + m /\ m * n \in Nat
        OBVIOUS
      <3> QED
        BY <2>2, <3>4, <3>5, <3>6, <3>7, <3>8
    <2> QED
      BY <2>3, <2>4
  <1> QED
    BY <1>1 DEF B

LEMMA SumIs ==
    ASSUME NEW value
    PROVE  SumFunction(value) = Sum(value, DOMAIN value)
  BY DEF SumFunction, SumFunctionOnSet, FoldFunctionOnSet, MapThenFoldSet, Folded, Sum, First

\* The sum of the values up to n.
LEMMA SumTo ==
    ASSUME NEW value, NEW n \in Nat \ {0}, \A i \in 1..n : value[i] \in Nat
    PROVE  /\ Sum(value, 1..n) = value[n] + Sum(value, 1..(n - 1))
           /\ Sum(value, 1..0) = 0
  <1>1. IsFiniteSet(1..n) /\ AreNatural(value, 1..n) /\ n \in 1..n /\ (1..n) \ {n} = 1..(n - 1)
    BY FS_Interval DEF AreNatural
  <1>2. 1..0 = {} /\ IsFiniteSet(1..0)
    BY FS_EmptySet
  <1>3. Sum(value, 1..0) = 0
    BY <1>2, SumFirst
  <1>4. Sum(value, 1..n) = value[n] + Sum(value, (1..n) \ {n})
    BY <1>1, SumWithout
  <1> QED
    BY <1>1, <1>3, <1>4

-----------------------------------------------------------------------------
(* What is on record of a client.                                          *)

Operation == [activity: Activities, cash: Nat, payments: Nat, amount: Nat]
Found == {"pending", "clear", "flagged", "adverse_media", "sat69b_listed", "ofac_sanctioned"}

Known(f) ==
    /\ f.person \in {"PHYSICAL", "MORAL", "TRUST"} /\ f.country \in Countries
    /\ f.pep \in BOOLEAN /\ f.listed \in Found /\ f.bc \in Nat /\ f.months \in Nat
    /\ f.kyc \in BOOLEAN /\ f.docs \in BOOLEAN /\ f.operations \in Seq(Operation)

LEMMA FindingsAre ==
    /\ DOMAIN Findings = 1..5 /\ {Findings[i] : i \in DOMAIN Findings} \subseteq Found \ {"pending"}
    /\ \A i \in DOMAIN Findings : Findings[i] # "pending"
  BY DEF Findings, Found

LEMMA KnownFirst == ScoringInit => Known(onRecord)
  <1>1. <<>> \in Seq(Operation)
    OBVIOUS
  <1>2. SUFFICES ASSUME ScoringInit
                 PROVE  Known(onRecord)
    OBVIOUS
  <1>3. PICK p \in Persons, c \in Countries :
          onRecord = [person |-> p, country |-> c, pep |-> FALSE, listed |-> "pending", bc |-> 0,
                      months |-> 0, kyc |-> FALSE, docs |-> FALSE, operations |-> <<>>]
    BY <1>2 DEF ScoringInit
  <1>4. p \in {"PHYSICAL", "MORAL", "TRUST"}
    BY RiskScoringAssumption
  <1> QED
    BY <1>1, <1>3, <1>4 DEF Known, Found

LEMMA KnownStep == Known(onRecord) /\ [ScoringNext]_onRecord => Known(onRecord')
  <1> SUFFICES ASSUME Known(onRecord), [ScoringNext]_onRecord
               PROVE  Known(onRecord')
    OBVIOUS
  <1>1. CASE Save
    BY <1>1 DEF Save, Known, Found
  <1>2. CASE Screened
    BY <1>2, RiskScoringAssumption, FindingsAre DEF Screened, Known
  <1>3. CASE FoundPep
    BY <1>3 DEF FoundPep, Known
  <1>4. CASE Controllers
    BY <1>4, RiskScoringAssumption DEF Controllers, Known
  <1>5. CASE File
    BY <1>5 DEF File, Known
  <1>6. CASE TimePasses
    BY <1>6, RiskScoringAssumption DEF TimePasses, Known
  <1>7. CASE Operate
    <2>1. ASSUME NEW s \in Seq(Operation), onRecord' = [onRecord EXCEPT !.operations = s]
          PROVE  Known(onRecord')
      BY <2>1 DEF Known
    <2>2. ASSUME NEW o \in Operations, onRecord' = [onRecord EXCEPT !.operations = Append(@, o)]
          PROVE  Known(onRecord')
      BY <2>1, <2>2, RiskScoringAssumption DEF Known, Operation
    <2>3. ASSUME NEW o \in Operations, NEW i \in DOMAIN onRecord.operations,
                 onRecord' = [onRecord EXCEPT !.operations[i] = o]
          PROVE  Known(onRecord')
      <3>1. onRecord.operations \in Seq(Operation) /\ o \in Operation
        BY RiskScoringAssumption DEF Known, Operation
      <3>2. [onRecord.operations EXCEPT ![i] = o] \in Seq(Operation)
        BY <3>1, ExceptSeq
      <3> QED
        BY <2>1, <2>3, <3>2
    <2>4. ASSUME NEW i \in DOMAIN onRecord.operations,
                 onRecord' = [onRecord EXCEPT !.operations = RemoveAt(@, i)]
          PROVE  Known(onRecord')
      <3> DEFINE s == onRecord.operations
      <3>1. s \in Seq(Operation) /\ i \in 1..Len(s)
        BY DEF Known
      <3>2. RemoveAt(s, i) \in Seq(Operation)
        BY <3>1 DEF RemoveAt
      <3> QED
        BY <2>1, <2>4, <3>2
    <2> QED
      BY <1>7, <2>2, <2>3, <2>4 DEF Operate
  <1>8. CASE UNCHANGED onRecord
    BY <1>8
  <1> QED
    BY <1>1, <1>2, <1>3, <1>4, <1>5, <1>6, <1>7, <1>8 DEF ScoringNext

\* The sums over the operations are natural numbers ...
LEMMA CountsTyped ==
    ASSUME NEW f, Known(f)
    PROVE  /\ totalOps(f) \in Nat /\ DOMAIN f.operations = 1..totalOps(f)
           /\ \A i \in 1..totalOps(f) : f.operations[i] \in Operation
           /\ cashPayments(f) \in Nat /\ totalAmount(f) \in Nat
           /\ SumFunction([i \in DOMAIN f.operations |-> f.operations[i].payments]) \in Nat
  <1>1. /\ totalOps(f) \in Nat /\ DOMAIN f.operations = 1..totalOps(f)
        /\ \A i \in 1..totalOps(f) : f.operations[i] \in Operation
    BY DEF Known, totalOps
  <1>2. ASSUME NEW value, DOMAIN value = 1..totalOps(f), \A i \in 1..totalOps(f) : value[i] \in Nat
        PROVE  SumFunction(value) \in Nat
    <2>1. IsFiniteSet(DOMAIN value) /\ AreNatural(value, DOMAIN value)
      BY <1>1, <1>2, FS_Interval DEF AreNatural
    <2> QED
      BY <2>1, SumIs, SumTyped
  <1>3. cashPayments(f) \in Nat
    BY <1>1, <1>2 DEF cashPayments, Operation
  <1>4. totalAmount(f) \in Nat
    BY <1>1, <1>2 DEF totalAmount, Operation
  <1>5. SumFunction([i \in DOMAIN f.operations |-> f.operations[i].payments]) \in Nat
    BY <1>1, <1>2 DEF Operation
  <1> QED
    BY <1>1, <1>3, <1>4, <1>5

\* ... and what the reference data say is a factor.
LEMMA RisksTyped ==
    ASSUME NEW f, Known(f)
    PROVE  /\ countryRisk(f) \in 0..900
           /\ Cardinality(activityCodes(f)) \in Nat
           /\ averageActivity(activityCodes(f)) \in 0..900
  <1>1. countryRisk(f) \in 0..900
    BY RiskScoringAssumption DEF countryRisk, Over
  <1>2. IsFiniteSet(activityCodes(f)) /\ Cardinality(activityCodes(f)) \in Nat
    <2> DEFINE code == [i \in 1..totalOps(f) |-> f.operations[i].activity]
    <2>1. totalOps(f) \in Nat /\ DOMAIN f.operations = 1..totalOps(f)
      BY CountsTyped
    <2>2. IsFiniteSet(1..totalOps(f))
      BY <2>1, FS_Interval
    <2>3. activityCodes(f) = {code[i] : i \in 1..totalOps(f)}
      BY <2>1 DEF activityCodes
    <2>4. code \in Surjection(1..totalOps(f), activityCodes(f))
      BY <2>3 DEF Surjection
    <2> QED
      BY <2>2, <2>4, FS_Surjection, FS_CardinalityType
  <1>3. CASE activityCodes(f) # {}
    <2> DEFINE value == [a \in activityCodes(f) |-> Over(ActivityRisk, a, 300)]
    <2>1. \A a \in activityCodes(f) : value[a] \in 0..900
      BY RiskScoringAssumption DEF Over
    <2>2. DOMAIN value = activityCodes(f)
      OBVIOUS
    <2> HIDE DEF value
    <2>3. AreNatural(value, activityCodes(f)) /\ \A a \in activityCodes(f) : value[a] <= 900
      <3>1. ASSUME NEW a \in activityCodes(f)
            PROVE  value[a] \in Nat /\ value[a] <= 900
        <4>1. PICK n \in 0..900 : n = value[a]
          BY <2>1
        <4> QED
          BY <4>1
      <3> QED
        BY <3>1 DEF AreNatural
    <2>4. PICK sum \in Nat, n \in Nat :
             sum = SumFunction(value) /\ n = Cardinality(activityCodes(f)) /\ sum <= 900 * n
      BY <1>2, <2>2, <2>3, SumIs, SumTyped, SumAtMost
    <2>5. n > 0
      BY <1>2, <1>3, <2>4, FS_EmptySet
    <2>6. sum \div n \in 0..900
      BY <2>4, <2>5
    <2> QED
      BY <1>1, <1>2, <1>3, <2>4, <2>6 DEF averageActivity, value
  <1>4. CASE activityCodes(f) = {}
    BY <1>1, <1>2, <1>4 DEF averageActivity
  <1> QED
    BY <1>3, <1>4

-----------------------------------------------------------------------------
(* Ranges and steps, as the bounds they compare with.                      *)

LEMMA MinIs ==
    ASSUME NEW S, S \subseteq Int, NEW n \in S, \A m \in S : n <= m
    PROVE  Min(S) = n
  <1>1. Min(S) \in S /\ \A m \in S : Min(S) <= m
    BY DEF Min
  <1>2. PICK k \in Int : k = Min(S) /\ k <= n /\ n <= k
    BY <1>1
  <1> QED
    BY <1>2

LEMMA MinOne == \A n \in Int : Min({n}) = n
  BY MinIs

\* The range that is hit is the first whose end the value does not exceed, if it begins
\* below whatever exceeds the end of the one before; beyond the last end it is the last.
LEMMA FirstHit ==
    ASSUME NEW ranges, NEW k \in Nat \ {0}, DOMAIN ranges = 1..k, Len(ranges) = k, NEW value,
           NEW i \in 1..k, i = k \/ i \in Hits(ranges, value),
           \A j \in 1..(i - 1) : j \notin Hits(ranges, value)
    PROVE  evaluateNumericRange(ranges, value) = ranges[i].score
  <1> DEFINE hits == Hits(ranges, value)
  <1>1. hits \subseteq 1..k
    BY DEF Hits
  <1>2. CASE i \in hits
    <2>1. \A m \in hits : i <= m
      BY <1>1
    <2>2. Min(hits) = i
      BY <1>1, <1>2, <2>1, MinIs
    <2> QED
      BY <1>2, <2>2 DEF evaluateNumericRange
  <1>3. CASE i \notin hits
    <2>1. i = k /\ hits = {}
      BY <1>1, <1>3
    <2> QED
      BY <2>1 DEF evaluateNumericRange
  <1> QED
    BY <1>2, <1>3

AreRanges(r, k) ==
    /\ DOMAIN r = 1..k /\ Len(r) = k
    /\ \A i \in 1..k : r[i].min \in Nat /\ r[i].max \in Nat
    /\ r[1].min = 0

Joined(r, n, d) ==
    (n > r[1].max * d => n >= r[2].min * d) /\ (n > r[2].max * d => n >= r[3].min * d)
ScoreIn(r, n, d) ==
    IF n <= r[1].max * d THEN r[1].score ELSE IF n <= r[2].max * d THEN r[2].score
    ELSE IF n <= r[3].max * d THEN r[3].score ELSE r[4].score

LEMMA FourRanges ==
    ASSUME NEW n \in Nat, NEW d \in Nat \ {0}, NEW r, AreRanges(r, 4), Joined(r, n, d)
    PROVE  evaluateNumericRange(r, Ratio(n, d)) = ScoreIn(r, n, d)
  <1> USE DEF AreRanges, Joined, ScoreIn
  <1> DEFINE value == Ratio(n, d)
             hits == Hits(r, value)
  <1>1. value.num = n /\ value.den = d
    BY DEF Ratio
  <1> HIDE DEF value
  <1>2. PICK p1 \in Nat, p2 \in Nat, p3 \in Nat, q2 \in Nat, q3 \in Nat :
          /\ p1 = r[1].max * d /\ p2 = r[2].max * d /\ p3 = r[3].max * d
          /\ q2 = r[2].min * d /\ q3 = r[3].min * d /\ r[1].min * d = 0
    <2>1. PICK m1 \in Nat, m2 \in Nat, m3 \in Nat, l2 \in Nat, l3 \in Nat :
            /\ m1 = r[1].max /\ m2 = r[2].max /\ m3 = r[3].max /\ l2 = r[2].min /\ l3 = r[3].min
      BY 1 \in 1..4, 2 \in 1..4, 3 \in 1..4
    <2>2. m1 * d \in Nat /\ m2 * d \in Nat /\ m3 * d \in Nat /\ l2 * d \in Nat /\ l3 * d \in Nat
      OBVIOUS
    <2>3. r[1].min * d = 0
      OBVIOUS
    <2> QED
      BY <2>1, <2>2, <2>3
  <1>3. /\ 1 \in hits <=> n <= p1
        /\ 2 \in hits <=> n >= q2 /\ n <= p2
        /\ 3 \in hits <=> n >= q3 /\ n <= p3
    BY <1>1, <1>2 DEF Hits
  <1> HIDE DEF hits
  <1>4. ASSUME NEW i \in 1..4, i = 4 \/ i \in hits, \A j \in 1..(i - 1) : j \notin hits
        PROVE  evaluateNumericRange(r, value) = r[i].score
    BY <1>4, FirstHit, 4 \in Nat \ {0} DEF hits
  <1>5. CASE n <= p1
    <2>1. evaluateNumericRange(r, value) = r[1].score
      BY <1>3, <1>4, <1>5
    <2> QED
      BY <1>2, <1>5, <2>1 DEF value
  <1>6. CASE ~(n <= p1) /\ n <= p2
    <2>1. evaluateNumericRange(r, value) = r[2].score
      BY <1>2, <1>3, <1>4, <1>6
    <2> QED
      BY <1>2, <1>6, <2>1 DEF value
  <1>7. CASE ~(n <= p1) /\ ~(n <= p2) /\ n <= p3
    <2>1. evaluateNumericRange(r, value) = r[3].score
      BY <1>2, <1>3, <1>4, <1>7
    <2> QED
      BY <1>2, <1>7, <2>1 DEF value
  <1>8. CASE ~(n <= p1) /\ ~(n <= p2) /\ ~(n <= p3)
    <2>1. evaluateNumericRange(r, value) = r[4].score
      BY <1>2, <1>3, <1>4, <1>8
    <2> QED
      BY <1>2, <1>8, <2>1 DEF value
  <1> QED
    BY <1>5, <1>6, <1>7, <1>8

LEMMA ThreeRanges ==
    ASSUME NEW n \in Nat, NEW r, AreRanges(r, 3),
           n > r[1].max => n >= r[2].min
    PROVE  evaluateNumericRange(r, Ratio(n, 1))
             = IF n <= r[1].max THEN r[1].score ELSE IF n <= r[2].max THEN r[2].score ELSE r[3].score
  <1> USE DEF AreRanges
  <1> DEFINE value == Ratio(n, 1)
             hits == Hits(r, value)
  <1>1. value.num = n /\ value.den = 1
    BY DEF Ratio
  <1> HIDE DEF value
  <1>2. (1 \in hits <=> n <= r[1].max) /\ (2 \in hits <=> n >= r[2].min /\ n <= r[2].max)
    BY <1>1 DEF Hits
  <1> HIDE DEF hits
  <1>3. ASSUME NEW i \in 1..3, i = 3 \/ i \in hits, \A j \in 1..(i - 1) : j \notin hits
        PROVE  evaluateNumericRange(r, value) = r[i].score
    BY <1>3, FirstHit, 3 \in Nat \ {0} DEF hits
  <1>4. CASE n <= r[1].max
    <2>1. evaluateNumericRange(r, value) = r[1].score
      BY <1>2, <1>3, <1>4
    <2> QED
      BY <1>4, <2>1 DEF value
  <1>5. CASE ~(n <= r[1].max) /\ n <= r[2].max
    <2>1. evaluateNumericRange(r, value) = r[2].score
      BY <1>2, <1>3, <1>5
    <2> QED
      BY <1>5, <2>1 DEF value
  <1>6. CASE ~(n <= r[1].max) /\ ~(n <= r[2].max)
    <2>1. evaluateNumericRange(r, value) = r[3].score
      BY <1>2, <1>3, <1>6
    <2> QED
      BY <1>6, <2>1 DEF value
  <1> QED
    BY <1>4, <1>5, <1>6

LEMMA UpTo ==
    ASSUME NEW k \in Nat
    PROVE  Cardinality(1..k) = k
  BY FS_Interval

LEMMA CountTo ==
    /\ Cardinality({}) = 0 /\ Cardinality({1}) = 1
    /\ Cardinality({1, 2}) = 2 /\ Cardinality({1, 2, 3}) = 3
  <1>1. 1..1 = {1} /\ 1..2 = {1, 2} /\ 1..3 = {1, 2, 3}
    OBVIOUS
  <1>2. Cardinality(1..1) = 1 /\ Cardinality(1..2) = 2 /\ Cardinality(1..3) = 3
    BY UpTo
  <1> QED
    BY <1>1, <1>2, FS_EmptySet

\* Of bounds in order, those that a value is above are the first ones.
LEMMA TwoSteps ==
    ASSUME NEW n \in Nat, NEW b1 \in Nat, NEW b2 \in Nat, b1 < b2,
           NEW s1 \in Nat, NEW s2 \in Nat, NEW s3 \in Nat
    PROVE  Step(Whole(n), <<b1, b2>>, <<s1, s2, s3>>)
             = IF n <= b1 THEN s1 ELSE IF n <= b2 THEN s2 ELSE s3
  <1> DEFINE above == {i \in DOMAIN <<b1, b2>> : Above(Whole(n), <<b1, b2>>[i])}
  <1>1. \A i \in 1..2 : i \in above <=> n > <<b1, b2>>[i]
    BY DEF Above, Whole, Ratio
  <1>2. above \subseteq {1, 2}
    OBVIOUS
  <1>3. Step(Whole(n), <<b1, b2>>, <<s1, s2, s3>>) = <<s1, s2, s3>>[1 + Cardinality(above)]
    BY DEF Step
  <1> HIDE DEF above
  <1>4. (1 \in above <=> n > b1) /\ (2 \in above <=> n > b2)
    BY <1>1
  <1>5. CASE n <= b1
    <2>1. above = {}
      BY <1>2, <1>4, <1>5
    <2> QED
      BY <1>3, <1>5, <2>1, CountTo
  <1>6. CASE ~(n <= b1) /\ n <= b2
    <2>1. 1 \in above /\ 2 \notin above
      BY <1>4, <1>6
    <2>2. above = {1}
      BY <1>2, <2>1
    <2> QED
      BY <1>3, <1>6, <2>2, CountTo
  <1>7. CASE ~(n <= b1) /\ ~(n <= b2)
    <2>1. 1 \in above /\ 2 \in above
      BY <1>4, <1>7
    <2>2. above = {1, 2}
      BY <1>2, <2>1
    <2> QED
      BY <1>3, <1>7, <2>2, CountTo
  <1> QED
    BY <1>5, <1>6, <1>7

AreBounds(b, d) ==
    /\ DOMAIN b = 1..3 /\ b[1] \in Nat /\ b[2] \in Nat /\ b[3] \in Nat
    /\ b[1] * d <= b[2] * d /\ b[2] * d <= b[3] * d
StepIn(s, b, n, d) ==
    IF n <= b[1] * d THEN s[1] ELSE IF n <= b[2] * d THEN s[2] ELSE IF n <= b[3] * d THEN s[3]
    ELSE s[4]

LEMMA ThreeSteps ==
    ASSUME NEW n \in Nat, NEW d \in Nat, NEW b, NEW s, AreBounds(b, d)
    PROVE  Step(Ratio(n, d), b, s) = StepIn(s, b, n, d)
  <1> USE DEF AreBounds
  <1> DEFINE above == {i \in DOMAIN b : Above(Ratio(n, d), b[i])}
  <1>1. \A i \in 1..3 : i \in above <=> n > b[i] * d
    BY DEF Above, Ratio
  <1>2. above \subseteq {1, 2, 3}
    OBVIOUS
  <1>3. Step(Ratio(n, d), b, s) = s[1 + Cardinality(above)]
    BY DEF Step
  <1> HIDE DEF above
  <1>4. PICK p1 \in Nat, p2 \in Nat, p3 \in Nat :
          p1 = b[1] * d /\ p2 = b[2] * d /\ p3 = b[3] * d /\ p1 <= p2 /\ p2 <= p3
    OBVIOUS
  <1>5. (1 \in above <=> n > p1) /\ (2 \in above <=> n > p2) /\ (3 \in above <=> n > p3)
    BY <1>1, <1>4
  <1>6. CASE n <= p1
    <2>1. above = {}
      BY <1>2, <1>4, <1>5, <1>6
    <2> QED
      BY <1>3, <1>4, <1>6, <2>1, CountTo DEF StepIn
  <1>7. CASE ~(n <= p1) /\ n <= p2
    <2>1. 1 \in above /\ 2 \notin above /\ 3 \notin above
      BY <1>4, <1>5, <1>7
    <2>2. above = {1}
      BY <1>2, <2>1
    <2> QED
      BY <1>3, <1>4, <1>7, <2>2, CountTo DEF StepIn
  <1>8. CASE ~(n <= p1) /\ ~(n <= p2) /\ n <= p3
    <2>1. 1 \in above /\ 2 \in above /\ 3 \notin above
      BY <1>4, <1>5, <1>8
    <2>2. above = {1, 2}
      BY <1>2, <2>1
    <2> QED
      BY <1>3, <1>4, <1>8, <2>2, CountTo DEF StepIn
  <1>9. CASE ~(n <= p1) /\ ~(n <= p2) /\ ~(n <= p3)
    <2>1. 1 \in above /\ 2 \in above /\ 3 \in above
      BY <1>4, <1>5, <1>9
    <2>2. above = {1, 2, 3}
      BY <1>2, <2>1
    <2> QED
      BY <1>3, <1>4, <1>9, <2>2, CountTo DEF StepIn
  <1> QED
    BY <1>6, <1>7, <1>8, <1>9

-----------------------------------------------------------------------------
(* The factors of the seed, as functions of what is on record.             *)

PepScore(f) == IF f.pep THEN 800 ELSE 0
PersonScore(f) == IF f.person = "PHYSICAL" THEN 200 ELSE IF f.person = "MORAL" THEN 500 ELSE 700
FoundScore(f) ==
    IF f.listed = "ofac_sanctioned" THEN 900 ELSE IF f.listed = "sat69b_listed" THEN 800
    ELSE IF f.listed = "adverse_media" THEN 600 ELSE IF f.listed = "flagged" THEN 500 ELSE 0
AgeScore(f) == IF f.months <= 5 THEN 600 ELSE IF f.months <= 11 THEN 400 ELSE 100
BcScore(f) == IF f.bc = 0 THEN 0 ELSE IF f.bc <= 2 THEN 300 ELSE IF f.bc <= 4 THEN 600 ELSE 900
BorderScore(f) == IF hasCrossBorderOps(f) THEN 600 ELSE 0
CodesScore(n) == IF n <= 1 THEN 100 ELSE IF n <= 3 THEN 300 ELSE IF n <= 5 THEN 500 ELSE 600

\* Of c payments in cash and d operations, of n operations in d months, of an amount.
CashScore(c, d) ==
    IF 10 * c <= d THEN 100 ELSE IF 10 * c <= 3 * d THEN 300 ELSE IF 10 * c <= 6 * d THEN 500 ELSE 800
FrequencyScore(n, d) ==
    IF n <= 5 * d THEN 100 ELSE IF n <= 10 * d THEN 300 ELSE IF n <= 20 * d THEN 500 ELSE 700
AmountScore(a) ==
    IF a <= 100000 THEN 200 ELSE IF a <= 1000000 THEN 400 ELSE IF a <= 10000000 THEN 600 ELSE 800

LEMMA FactorOf ==
    ASSUME NEW weight, NEW source, NEW maps, NEW bag
    PROVE  /\ evaluateFactor(Factor(weight, "BOOLEAN", source, maps), bag)
                = maps[IF bag[source] THEN "true" ELSE "false"]
           /\ evaluateFactor(Factor(weight, "ENUM", source, maps), bag)
                = evaluateEnum(Factor(weight, "ENUM", source, maps), bag)
           /\ evaluateFactor(Factor(weight, "NUMERIC_RANGE", source, maps), bag)
                = evaluateNumericRange(maps, bag[source])
           /\ evaluateFactor(Factor(weight, "LOOKUP", source, maps), bag)
                = evaluateLookup(Factor(weight, "LOOKUP", source, maps), bag)
  BY DEF evaluateFactor, Factor

LEMMA FactorsAre ==
    /\ DOMAIN ClientFactors = 1..6 /\ DOMAIN GeographyFactors = 1..4
    /\ DOMAIN ProductFactors = 1..2 /\ DOMAIN TransactionFactors = 1..5
  BY DEF ClientFactors, GeographyFactors, ProductFactors, TransactionFactors

\* What the rules in the code look up is no different.
LEMMA EqualFactors ==
    ASSUME NEW f, Known(f)
    PROVE  /\ [PHYSICAL |-> 200, MORAL |-> 500, TRUST |-> 700][f.person] = PersonScore(f)
           /\ Over([ofac_sanctioned |-> 900, sat69b_listed |-> 800, adverse_media |-> 600,
                    flagged |-> 500], f.listed, 0) = FoundScore(f)
           /\ Step(Whole(f.months), <<5, 11>>, <<600, 400, 100>>) = AgeScore(f)
  <1>1. [PHYSICAL |-> 200, MORAL |-> 500, TRUST |-> 700][f.person] = PersonScore(f)
    BY DEF Known, PersonScore
  <1>2. Over([ofac_sanctioned |-> 900, sat69b_listed |-> 800, adverse_media |-> 600,
              flagged |-> 500], f.listed, 0) = FoundScore(f)
    BY DEF Known, Found, FoundScore, Over
  <1>3. Step(Whole(f.months), <<5, 11>>, <<600, 400, 100>>) = AgeScore(f)
    <2>1. f.months \in Nat
      BY DEF Known
    <2> QED
      BY <2>1, TwoSteps DEF AgeScore
  <1> QED
    BY <1>1, <1>2, <1>3

LEMMA ClientFactorsAre ==
    ASSUME NEW f, Known(f)
    PROVE  /\ evaluateFactor(ClientFactors[1], dataBag(f)) = PepScore(f)
           /\ evaluateFactor(ClientFactors[2], dataBag(f)) = countryRisk(f)
           /\ evaluateFactor(ClientFactors[3], dataBag(f)) = PersonScore(f)
           /\ evaluateFactor(ClientFactors[4], dataBag(f)) = FoundScore(f)
           /\ evaluateFactor(ClientFactors[5], dataBag(f)) = BcScore(f)
           /\ evaluateFactor(ClientFactors[6], dataBag(f)) = AgeScore(f)
  <1> DEFINE bag == dataBag(f)
  <1>1. /\ bag.isPep = f.pep /\ bag.countryCode = f.country /\ bag.personType = f.person
        /\ bag.listed = f.listed /\ bag.bcCount = Ratio(100 * f.bc, 1)
        /\ bag.monthsSinceCreation = Ratio(100 * f.months, 1)
    BY DEF dataBag
  <1> HIDE DEF bag
  <1>2. evaluateFactor(ClientFactors[1], bag) = PepScore(f)
    <2>1. ClientFactors[1] = Factor(25, "BOOLEAN", "isPep", [true |-> 800, false |-> 0])
      BY DEF ClientFactors
    <2>2. evaluateFactor(ClientFactors[1], bag)
            = [true |-> 800, false |-> 0][IF bag["isPep"] THEN "true" ELSE "false"]
      BY <2>1, FactorOf
    <2> QED
      BY <1>1, <2>2 DEF PepScore
  <1>3. evaluateFactor(ClientFactors[2], bag) = countryRisk(f)
    <2>1. ClientFactors[2] = Factor(15, "LOOKUP", "countryCode", 200)
      BY DEF ClientFactors
    <2>2. evaluateFactor(ClientFactors[2], bag) = evaluateLookup(Factor(15, "LOOKUP", "countryCode", 200), bag)
      BY <2>1, FactorOf
    <2> QED
      BY <1>1, <2>2 DEF evaluateLookup, Factor, countryRisk
  <1>4. evaluateFactor(ClientFactors[3], bag) = PersonScore(f)
    <2> DEFINE factor == Factor(10, "ENUM", "personType", [TRUST |-> 700, MORAL |-> 500, PHYSICAL |-> 200])
    <2>1. ClientFactors[3] = factor
      BY DEF ClientFactors
    <2>2. evaluateFactor(ClientFactors[3], bag) = evaluateEnum(factor, bag)
      BY <2>1, FactorOf
    <2>3. evaluateEnum(factor, bag)
            = Over([TRUST |-> 700, MORAL |-> 500, PHYSICAL |-> 200], bag["personType"], 0)
      BY DEF evaluateEnum, Factor
    <2> QED
      BY <1>1, <2>2, <2>3 DEF Over, Known, PersonScore
  <1>5. evaluateFactor(ClientFactors[4], bag) = FoundScore(f)
    <2> DEFINE maps == [ofac_sanctioned |-> 900, sat69b_listed |-> 800, adverse_media |-> 600,
                        flagged |-> 500, clear |-> 0]
               factor == Factor(25, "ENUM", "screeningResult", maps)
    <2>1. ClientFactors[4] = factor
      BY DEF ClientFactors
    <2>2. evaluateFactor(ClientFactors[4], bag) = evaluateEnum(factor, bag)
      BY <2>1, FactorOf
    <2>3. evaluateEnum(factor, bag) = maps[IF bag.listed = "pending" THEN "clear" ELSE bag.listed]
      BY DEF evaluateEnum, Factor
    <2> QED
      BY <1>1, <2>2, <2>3 DEF Known, Found, FoundScore
  <1>6. evaluateFactor(ClientFactors[5], bag) = BcScore(f)
    <2> DEFINE r == <<From(0, 0, 0), From(100, 200, 300), From(300, 400, 600), From(500, 99900, 900)>>
    <2>1. ClientFactors[5] = Factor(10, "NUMERIC_RANGE", "bcCount", r)
      BY DEF ClientFactors
    <2>2. PICK b \in Nat : b = f.bc
      BY DEF Known
    <2>3. PICK n \in Nat : n = 100 * b
      OBVIOUS
    <2>4. evaluateFactor(ClientFactors[5], bag) = evaluateNumericRange(r, Ratio(n, 1))
      BY <1>1, <2>1, <2>2, <2>3, FactorOf
    <2>5. /\ AreRanges(r, 4)
          /\ r[1].min = 0 /\ r[1].max = 0 /\ r[1].score = 0
          /\ r[2].min = 100 /\ r[2].max = 200 /\ r[2].score = 300
          /\ r[3].min = 300 /\ r[3].max = 400 /\ r[3].score = 600 /\ r[4].score = 900
      BY DEF From, AreRanges
    <2> HIDE DEF r
    <2>6. evaluateNumericRange(r, Ratio(n, 1)) = ScoreIn(r, n, 1)
      <3>1. Joined(r, n, 1)
        BY <2>3, <2>5 DEF Joined
      <3>2. 1 \in Nat \ {0} /\ n \in Nat
        OBVIOUS
      <3> QED
        BY <2>5, <3>1, <3>2, FourRanges
    <2> QED
      BY <2>2, <2>3, <2>4, <2>5, <2>6 DEF BcScore, ScoreIn
  <1>7. evaluateFactor(ClientFactors[6], bag) = AgeScore(f)
    <2> DEFINE r == <<From(0, 500, 600), From(600, 1100, 400), From(1200, 99900, 100)>>
    <2>1. ClientFactors[6] = Factor(15, "NUMERIC_RANGE", "monthsSinceCreation", r)
      BY DEF ClientFactors
    <2>2. PICK m \in Nat : m = f.months
      BY DEF Known
    <2>3. PICK n \in Nat : n = 100 * m
      OBVIOUS
    <2>4. evaluateFactor(ClientFactors[6], bag) = evaluateNumericRange(r, Ratio(n, 1))
      BY <1>1, <2>1, <2>2, <2>3, FactorOf
    <2>5. /\ AreRanges(r, 3)
          /\ r[1].min = 0 /\ r[1].max = 500 /\ r[1].score = 600
          /\ r[2].min = 600 /\ r[2].max = 1100 /\ r[2].score = 400 /\ r[3].score = 100
      BY DEF From, AreRanges
    <2> HIDE DEF r
    <2>6. evaluateNumericRange(r, Ratio(n, 1))
            = IF n <= r[1].max THEN r[1].score ELSE IF n <= r[2].max THEN r[2].score ELSE r[3].score
      BY <2>3, <2>5, ThreeRanges
    <2> QED
      BY <2>2, <2>3, <2>4, <2>5, <2>6 DEF AgeScore
  <1> QED
    BY <1>2, <1>3, <1>4, <1>5, <1>6, <1>7 DEF bag

LEMMA GeographyFactorsAre ==
    ASSUME NEW f, Known(f)
    PROVE  /\ evaluateFactor(GeographyFactors[1], dataBag(f)) = StateRisk
           /\ evaluateFactor(GeographyFactors[2], dataBag(f)) = 300
           /\ evaluateFactor(GeographyFactors[3], dataBag(f)) = BorderScore(f)
           /\ evaluateFactor(GeographyFactors[4], dataBag(f)) = countryRisk(f)
  <1> DEFINE bag == dataBag(f)
  <1>1. bag.countryCode = f.country /\ bag.hasCrossBorderOps = hasCrossBorderOps(f)
    BY DEF dataBag
  <1> HIDE DEF bag
  <1>2. /\ GeographyFactors[1] = Factor(30, "LOOKUP", "clientStateCode", 300)
        /\ GeographyFactors[2] = Factor(25, "LOOKUP", "operationStateCodes", 300)
        /\ GeographyFactors[3] = Factor(25, "BOOLEAN", "hasCrossBorderOps", [true |-> 600, false |-> 0])
        /\ GeographyFactors[4] = Factor(20, "LOOKUP", "countryCode", 200)
    BY DEF GeographyFactors
  <1>3. evaluateFactor(GeographyFactors[1], bag) = StateRisk
    <2>1. evaluateFactor(GeographyFactors[1], bag)
            = evaluateLookup(Factor(30, "LOOKUP", "clientStateCode", 300), bag)
      BY <1>2, FactorOf
    <2> QED
      BY <2>1 DEF evaluateLookup, Factor
  <1>4. evaluateFactor(GeographyFactors[2], bag) = 300
    <2>1. evaluateFactor(GeographyFactors[2], bag)
            = evaluateLookup(Factor(25, "LOOKUP", "operationStateCodes", 300), bag)
      BY <1>2, FactorOf
    <2> QED
      BY <2>1 DEF evaluateLookup, Factor
  <1>5. evaluateFactor(GeographyFactors[3], bag) = BorderScore(f)
    <2>1. evaluateFactor(GeographyFactors[3], bag)
            = [true |-> 600, false |-> 0][IF bag["hasCrossBorderOps"] THEN "true" ELSE "false"]
      BY <1>2, FactorOf
    <2>2. hasCrossBorderOps(f) \in BOOLEAN
      BY DEF hasCrossBorderOps
    <2> QED
      BY <1>1, <2>1, <2>2 DEF BorderScore
  <1>6. evaluateFactor(GeographyFactors[4], bag) = countryRisk(f)
    <2>1. evaluateFactor(GeographyFactors[4], bag)
            = evaluateLookup(Factor(20, "LOOKUP", "countryCode", 200), bag)
      BY <1>2, FactorOf
    <2> QED
      BY <1>1, <2>1 DEF evaluateLookup, Factor, countryRisk
  <1> QED
    BY <1>3, <1>4, <1>5, <1>6 DEF bag

LEMMA ProductFactorsAre ==
    ASSUME NEW f, Known(f)
    PROVE  /\ evaluateFactor(ProductFactors[1], dataBag(f)) = averageActivity(activityCodes(f))
           /\ evaluateFactor(ProductFactors[2], dataBag(f)) = CodesScore(Cardinality(activityCodes(f)))
  <1> DEFINE bag == dataBag(f)
  <1>1. /\ bag.activityCodes = activityCodes(f)
        /\ bag.activityCodeCount = Ratio(100 * Cardinality(activityCodes(f)), 1)
    BY DEF dataBag
  <1> HIDE DEF bag
  <1>2. evaluateFactor(ProductFactors[1], bag) = averageActivity(activityCodes(f))
    <2>1. ProductFactors[1] = Factor(60, "LOOKUP", "activityCodes", 300)
      BY DEF ProductFactors
    <2>2. evaluateFactor(ProductFactors[1], bag)
            = evaluateLookup(Factor(60, "LOOKUP", "activityCodes", 300), bag)
      BY <2>1, FactorOf
    <2> QED
      BY <1>1, <2>2 DEF evaluateLookup, Factor
  <1>3. evaluateFactor(ProductFactors[2], bag) = CodesScore(Cardinality(activityCodes(f)))
    <2> DEFINE r == <<From(0, 100, 100), From(200, 300, 300), From(400, 500, 500), From(600, 99900, 600)>>
    <2>1. ProductFactors[2] = Factor(40, "NUMERIC_RANGE", "activityCodeCount", r)
      BY DEF ProductFactors
    <2>2. PICK k \in Nat : k = Cardinality(activityCodes(f))
      BY RisksTyped
    <2>3. PICK n \in Nat : n = 100 * k
      OBVIOUS
    <2>4. evaluateFactor(ProductFactors[2], bag) = evaluateNumericRange(r, Ratio(n, 1))
      BY <1>1, <2>1, <2>2, <2>3, FactorOf
    <2>5. /\ AreRanges(r, 4)
          /\ r[1].max = 100 /\ r[1].score = 100
          /\ r[2].min = 200 /\ r[2].max = 300 /\ r[2].score = 300
          /\ r[3].min = 400 /\ r[3].max = 500 /\ r[3].score = 500 /\ r[4].score = 600
      BY DEF From, AreRanges
    <2> HIDE DEF r
    <2>6. evaluateNumericRange(r, Ratio(n, 1)) = ScoreIn(r, n, 1)
      <3>1. Joined(r, n, 1)
        BY <2>3, <2>5 DEF Joined
      <3>2. 1 \in Nat \ {0} /\ n \in Nat
        OBVIOUS
      <3>3. AreRanges(r, 4)
        BY <2>5
      <3> QED
        BY ONLY <3>1, <3>2, <3>3, FourRanges
    <2> QED
      BY <2>2, <2>3, <2>4, <2>5, <2>6 DEF CodesScore, ScoreIn
  <1> QED
    BY <1>2, <1>3 DEF bag

\* The operations a month, of which there are none or which are over some months.
Months(f) == IF totalOps(f) = 0 THEN 1 ELSE AtLeast(1, f.months)
Ops(f) == AtLeast(1, totalOps(f))

LEMMA FrequencyIs ==
    ASSUME NEW f, Known(f)
    PROVE  /\ Months(f) \in Nat \ {0} /\ Ops(f) \in Nat \ {0} /\ totalOps(f) \in Nat
           /\ avgFrequency(f) = Ratio(totalOps(f), Months(f))
  <1>1. totalOps(f) \in Nat /\ f.months \in Nat
    BY CountsTyped DEF Known
  <1> QED
    BY <1>1 DEF Months, Ops, AtLeast, avgFrequency, Whole

LEMMA TransactionFactorsAre ==
    ASSUME NEW f, Known(f)
    PROVE  /\ evaluateFactor(TransactionFactors[1], dataBag(f)) = CashScore(cashPayments(f), Ops(f))
           /\ evaluateFactor(TransactionFactors[2], dataBag(f)) = 0
           /\ evaluateFactor(TransactionFactors[3], dataBag(f)) = 0
           /\ evaluateFactor(TransactionFactors[4], dataBag(f)) = FrequencyScore(totalOps(f), Months(f))
           /\ evaluateFactor(TransactionFactors[5], dataBag(f)) = AmountScore(totalAmount(f))
  <1> DEFINE bag == dataBag(f)
  <1>1. PICK c \in Nat, o \in Nat, d \in Nat \ {0}, m \in Nat \ {0}, a \in Nat :
          /\ c = cashPayments(f) /\ o = totalOps(f) /\ d = Ops(f) /\ m = Months(f) /\ a = totalAmount(f)
    BY CountsTyped, FrequencyIs
  <1>2. avgFrequency(f).num = o /\ avgFrequency(f).den = m
    BY <1>1, FrequencyIs DEF Ratio
  <1>3. /\ bag.cashRatio = Ratio(100 * c, d)
        /\ bag.nearThresholdRatio = Ratio(0, 1) /\ bag.thirdPartyRatio = Ratio(0, 1)
        /\ bag.avgFrequencyPerMonth = Ratio(100 * o, m)
        /\ bag.totalAmountThousands = Ratio(a, 10)
    BY <1>1, <1>2 DEF dataBag, Ops
  <1> HIDE DEF bag
  <1>4. evaluateFactor(TransactionFactors[1], bag) = CashScore(c, d)
    <2> DEFINE r == <<From(0, 10, 100), From(10, 30, 300), From(30, 60, 500), From(60, 100, 800)>>
    <2>1. TransactionFactors[1] = Factor(25, "NUMERIC_RANGE", "cashRatio", r)
      BY DEF TransactionFactors
    <2>3. PICK n \in Nat : n = 100 * c
      OBVIOUS
    <2>4. evaluateFactor(TransactionFactors[1], bag) = evaluateNumericRange(r, Ratio(n, d))
      BY <1>3, <2>1, <2>3, FactorOf
    <2>5. /\ AreRanges(r, 4)
          /\ r[1].max = 10 /\ r[1].score = 100
          /\ r[2].min = 10 /\ r[2].max = 30 /\ r[2].score = 300
          /\ r[3].min = 30 /\ r[3].max = 60 /\ r[3].score = 500 /\ r[4].score = 800
      BY DEF From, AreRanges
    <2> HIDE DEF r
    <2>6. evaluateNumericRange(r, Ratio(n, d)) = ScoreIn(r, n, d)
      <3>1. Joined(r, n, d)
        BY <2>3, <2>5 DEF Joined
      <3> QED
        BY <2>5, <3>1, FourRanges
    <2> QED
      BY <2>3, <2>4, <2>5, <2>6 DEF CashScore, ScoreIn
  <1>5. ASSUME NEW r, AreRanges(r, 4), r[1].score = 0, r[1].max = 5, r[2].max \in Nat
        PROVE  evaluateNumericRange(r, Ratio(0, 1)) = 0
    <2>1. 1 \in Nat \ {0} /\ 0 \in Nat /\ Joined(r, 0, 1) /\ ScoreIn(r, 0, 1) = 0
      BY <1>5 DEF Joined, ScoreIn
    <2> QED
      BY <1>5, <2>1, FourRanges
  <1>6. evaluateFactor(TransactionFactors[2], bag) = 0
    <2> DEFINE r == <<From(0, 5, 0), From(5, 15, 300), From(15, 40, 600), From(40, 100, 900)>>
    <2>1. TransactionFactors[2] = Factor(25, "NUMERIC_RANGE", "nearThresholdRatio", r)
      BY DEF TransactionFactors
    <2>2. AreRanges(r, 4) /\ r[1].score = 0 /\ r[1].max = 5 /\ r[2].max \in Nat
      BY DEF From, AreRanges
    <2> HIDE DEF r
    <2> QED
      BY <1>3, <1>5, <2>1, <2>2, FactorOf
  <1>7. evaluateFactor(TransactionFactors[3], bag) = 0
    <2> DEFINE r == <<From(0, 5, 0), From(5, 20, 300), From(20, 50, 600), From(50, 100, 900)>>
    <2>1. TransactionFactors[3] = Factor(20, "NUMERIC_RANGE", "thirdPartyRatio", r)
      BY DEF TransactionFactors
    <2>2. AreRanges(r, 4) /\ r[1].score = 0 /\ r[1].max = 5 /\ r[2].max \in Nat
      BY DEF From, AreRanges
    <2> HIDE DEF r
    <2> QED
      BY <1>3, <1>5, <2>1, <2>2, FactorOf
  <1>8. evaluateFactor(TransactionFactors[4], bag) = FrequencyScore(o, m)
    <2> DEFINE r == <<From(0, 500, 100), From(500, 1000, 300), From(1000, 2000, 500),
                      From(2000, Unbounded, 700)>>
    <2>1. TransactionFactors[4] = Factor(15, "NUMERIC_RANGE", "avgFrequencyPerMonth", r)
      BY DEF TransactionFactors
    <2>3. PICK n \in Nat : n = 100 * o
      OBVIOUS
    <2>4. evaluateFactor(TransactionFactors[4], bag) = evaluateNumericRange(r, Ratio(n, m))
      BY <1>3, <2>1, <2>3, FactorOf
    <2>5. /\ AreRanges(r, 4)
          /\ r[1].max = 500 /\ r[1].score = 100
          /\ r[2].min = 500 /\ r[2].max = 1000 /\ r[2].score = 300
          /\ r[3].min = 1000 /\ r[3].max = 2000 /\ r[3].score = 500 /\ r[4].score = 700
      BY DEF From, AreRanges, Unbounded
    <2> HIDE DEF r
    <2>6. evaluateNumericRange(r, Ratio(n, m)) = ScoreIn(r, n, m)
      <3>1. Joined(r, n, m)
        BY <2>3, <2>5 DEF Joined
      <3> QED
        BY <2>5, <3>1, FourRanges
    <2> QED
      BY <2>3, <2>4, <2>5, <2>6 DEF FrequencyScore, ScoreIn
  <1>9. evaluateFactor(TransactionFactors[5], bag) = AmountScore(a)
    <2> DEFINE r == <<From(0, 10000, 200), From(10000, 100000, 400), From(100000, 1000000, 600),
                      From(1000000, Unbounded, 800)>>
    <2>1. TransactionFactors[5] = Factor(15, "NUMERIC_RANGE", "totalAmountThousands", r)
      BY DEF TransactionFactors
    <2>4. evaluateFactor(TransactionFactors[5], bag) = evaluateNumericRange(r, Ratio(a, 10))
      BY <1>3, <2>1, FactorOf
    <2>5. /\ AreRanges(r, 4)
          /\ r[1].max = 10000 /\ r[1].score = 200
          /\ r[2].min = 10000 /\ r[2].max = 100000 /\ r[2].score = 400
          /\ r[3].min = 100000 /\ r[3].max = 1000000 /\ r[3].score = 600 /\ r[4].score = 800
      BY DEF From, AreRanges, Unbounded
    <2> HIDE DEF r
    <2>6. evaluateNumericRange(r, Ratio(a, 10)) = ScoreIn(r, a, 10)
      <3>1. Joined(r, a, 10)
        BY <2>5 DEF Joined
      <3>2. 10 \in Nat \ {0}
        OBVIOUS
      <3> QED
        BY <2>5, <3>1, <3>2, FourRanges
    <2> QED
      BY <2>4, <2>5, <2>6 DEF AmountScore, ScoreIn
  <1> QED
    BY <1>1, <1>4, <1>6, <1>7, <1>8, <1>9 DEF bag

-----------------------------------------------------------------------------
(* The elements, as sums of their factors.                                 *)

LEMMA SumOfTwo ==
    ASSUME NEW v, \A i \in 1..2 : v[i] \in Nat
    PROVE  Sum(v, 1..2) = v[1] + v[2]
  <1>1. Sum(v, 1..2) = v[2] + Sum(v, 1..1) /\ Sum(v, 1..1) = v[1] + Sum(v, 1..0) /\ Sum(v, 1..0) = 0
    <2>1. ASSUME NEW n \in 1..2
          PROVE  Sum(v, 1..n) = v[n] + Sum(v, 1..(n - 1)) /\ Sum(v, 1..0) = 0
      <3>1. n \in Nat \ {0} /\ \A i \in 1..n : v[i] \in Nat
        OBVIOUS
      <3> QED
        BY <3>1, SumTo
    <2> QED
      BY <2>1
  <1> QED
    BY <1>1

LEMMA SumOfFour ==
    ASSUME NEW v, \A i \in 1..4 : v[i] \in Nat
    PROVE  Sum(v, 1..4) = v[1] + v[2] + v[3] + v[4]
  <1>1. Sum(v, 1..4) = v[4] + Sum(v, 1..3) /\ Sum(v, 1..3) = v[3] + Sum(v, 1..2)
    <2>1. ASSUME NEW n \in 1..4
          PROVE  Sum(v, 1..n) = v[n] + Sum(v, 1..(n - 1))
      <3>1. n \in Nat \ {0} /\ \A i \in 1..n : v[i] \in Nat
        OBVIOUS
      <3> QED
        BY <3>1, SumTo
    <2> QED
      BY <2>1
  <1> QED
    BY <1>1, SumOfTwo

LEMMA SumOfFive ==
    ASSUME NEW v, \A i \in 1..5 : v[i] \in Nat
    PROVE  Sum(v, 1..5) = v[1] + v[2] + v[3] + v[4] + v[5]
  <1>1. 5 \in Nat \ {0} /\ 5 - 1 = 4
    OBVIOUS
  <1>2. Sum(v, 1..5) = v[5] + Sum(v, 1..4)
    BY <1>1, SumTo
  <1> QED
    BY <1>2, SumOfFour

LEMMA SumOfSix ==
    ASSUME NEW v, \A i \in 1..6 : v[i] \in Nat
    PROVE  Sum(v, 1..6) = v[1] + v[2] + v[3] + v[4] + v[5] + v[6]
  <1>1. 6 \in Nat \ {0} /\ 6 - 1 = 5
    OBVIOUS
  <1>2. Sum(v, 1..6) = v[6] + Sum(v, 1..5)
    BY <1>1, SumTo
  <1> QED
    BY <1>2, SumOfFive

IsScore(n) == n \in Nat /\ n <= 900

LEMMA Uncut ==
    ASSUME NEW k, IsScore(k)
    PROVE  AtLeast(0, AtMost(900, k)) = k
  BY DEF AtLeast, AtMost, IsScore

\* No factor of the seed is beyond the bounds it would be cut to.
Scored(category, bag, n, value) ==
    /\ DOMAIN category.factors = 1..n
    /\ value \in [1..n -> Nat]
    /\ \A i \in 1..n : /\ IsScore(evaluateFactor(category.factors[i], bag))
                      /\ value[i] = category.factors[i].weight
                                      * evaluateFactor(category.factors[i], bag)

LEMMA CategoryOf ==
    ASSUME NEW category, NEW bag, NEW n \in Nat, NEW value, Scored(category, bag, n, value)
    PROVE  scoreCategoryDynamic(category, bag) = Sum(value, 1..n)
  <1> USE DEF Scored
  <1> DEFINE cut == [i \in DOMAIN category.factors |->
                       category.factors[i].weight
                         * AtLeast(0, AtMost(900, evaluateFactor(category.factors[i], bag)))]
  <1>1. ASSUME NEW i \in 1..n
        PROVE  AtLeast(0, AtMost(900, evaluateFactor(category.factors[i], bag)))
                 = evaluateFactor(category.factors[i], bag)
    BY Uncut
  <1>2. cut = value
    BY <1>1
  <1>3. DOMAIN cut = 1..n
    OBVIOUS
  <1>4. scoreCategoryDynamic(category, bag) = SumFunction(cut)
    BY DEF scoreCategoryDynamic
  <1> HIDE DEF cut
  <1> QED
    BY <1>2, <1>3, <1>4, SumIs

SeedClient(f) ==
    25 * PepScore(f) + 15 * countryRisk(f) + 10 * PersonScore(f) + 25 * FoundScore(f)
    + 10 * BcScore(f) + 15 * AgeScore(f)
SeedGeography(f) == 30 * StateRisk + 25 * 300 + 25 * BorderScore(f) + 20 * countryRisk(f)
SeedProduct(f) ==
    60 * averageActivity(activityCodes(f)) + 40 * CodesScore(Cardinality(activityCodes(f)))
SeedTransaction(f) ==
    25 * CashScore(cashPayments(f), Ops(f)) + 15 * FrequencyScore(totalOps(f), Months(f))
    + 15 * AmountScore(totalAmount(f))

LEMMA ScoresTyped ==
    ASSUME NEW f, Known(f)
    PROVE  /\ IsScore(PepScore(f)) /\ IsScore(PersonScore(f)) /\ IsScore(FoundScore(f))
           /\ IsScore(BcScore(f)) /\ IsScore(AgeScore(f)) /\ IsScore(BorderScore(f))
           /\ IsScore(CodesScore(Cardinality(activityCodes(f))))
           /\ IsScore(CashScore(cashPayments(f), Ops(f)))
           /\ IsScore(FrequencyScore(totalOps(f), Months(f)))
           /\ IsScore(AmountScore(totalAmount(f)))
           /\ IsScore(StateRisk) /\ IsScore(countryRisk(f))
           /\ IsScore(averageActivity(activityCodes(f)))
  <1>1. \A n \in 0..900 : IsScore(n)
    BY DEF IsScore
  <1>2. StateRisk \in 0..900 /\ countryRisk(f) \in 0..900 /\ averageActivity(activityCodes(f)) \in 0..900
    BY RiskScoringAssumption, RisksTyped
  <1>3. /\ IsScore(PepScore(f)) /\ IsScore(PersonScore(f)) /\ IsScore(FoundScore(f))
        /\ IsScore(BcScore(f)) /\ IsScore(AgeScore(f)) /\ IsScore(BorderScore(f))
        /\ IsScore(CodesScore(Cardinality(activityCodes(f))))
        /\ IsScore(CashScore(cashPayments(f), Ops(f)))
        /\ IsScore(FrequencyScore(totalOps(f), Months(f)))
        /\ IsScore(AmountScore(totalAmount(f)))
    BY DEF PepScore, PersonScore, FoundScore, BcScore, AgeScore, BorderScore, CodesScore, CashScore,
           FrequencyScore, AmountScore, IsScore
  <1> QED
    BY <1>1, <1>2, <1>3

LEMMA SeedClientIs ==
    ASSUME NEW f, Known(f)
    PROVE  /\ scoreCategoryDynamic(Seed.categories["CLIENTS"], dataBag(f)) = SeedClient(f)
           /\ SeedClient(f) \in Nat /\ SeedClient(f) <= 90000
  <1> DEFINE category == Seed.categories["CLIENTS"]
             bag == dataBag(f)
  <1>1. category.factors = ClientFactors
    BY DEF Seed
  <1> HIDE DEF category, bag
  <1>a. /\ IsScore(PepScore(f))
        /\ IsScore(countryRisk(f))
        /\ IsScore(PersonScore(f))
        /\ IsScore(FoundScore(f))
        /\ IsScore(BcScore(f))
        /\ IsScore(AgeScore(f))
    BY ScoresTyped
  <1>b. PICK p \in Nat : p = PepScore(f) /\ p <= 900
    BY <1>a DEF IsScore
  <1>c. PICK c \in Nat : c = countryRisk(f) /\ c <= 900
    BY <1>a DEF IsScore
  <1>d. PICK t \in Nat : t = PersonScore(f) /\ t <= 900
    BY <1>a DEF IsScore
  <1>e. PICK l \in Nat : l = FoundScore(f) /\ l <= 900
    BY <1>a DEF IsScore
  <1>f. PICK b \in Nat : b = BcScore(f) /\ b <= 900
    BY <1>a DEF IsScore
  <1>g. PICK a \in Nat : a = AgeScore(f) /\ a <= 900
    BY <1>a DEF IsScore
  <1> DEFINE value == <<25 * p, 15 * c, 10 * t, 25 * l, 10 * b, 15 * a>>
  <1>3. /\ ClientFactors[1].weight = 25 /\ ClientFactors[2].weight = 15
        /\ ClientFactors[3].weight = 10 /\ ClientFactors[4].weight = 25
        /\ ClientFactors[5].weight = 10 /\ ClientFactors[6].weight = 15
    BY DEF ClientFactors, Factor
  <1>4. /\ evaluateFactor(ClientFactors[1], bag) = p /\ evaluateFactor(ClientFactors[2], bag) = c
        /\ evaluateFactor(ClientFactors[3], bag) = t /\ evaluateFactor(ClientFactors[4], bag) = l
        /\ evaluateFactor(ClientFactors[5], bag) = b /\ evaluateFactor(ClientFactors[6], bag) = a
    BY <1>b, <1>c, <1>d, <1>e, <1>f, <1>g, ClientFactorsAre DEF bag
  <1>5. value \in [1..6 -> Nat]
    OBVIOUS
  <1>6. /\ value[1] = 25 * p /\ value[2] = 15 * c /\ value[3] = 10 * t /\ value[4] = 25 * l
        /\ value[5] = 10 * b /\ value[6] = 15 * a
    OBVIOUS
  <1> HIDE DEF value
  <1>7. ASSUME NEW i \in 1..6
        PROVE  /\ IsScore(evaluateFactor(category.factors[i], bag))
               /\ value[i] = category.factors[i].weight * evaluateFactor(category.factors[i], bag)
    <2>1. i = 1 \/ i = 2 \/ i = 3 \/ i = 4 \/ i = 5 \/ i = 6
      OBVIOUS
    <2> QED
      BY <2>1, <1>1, <1>b, <1>c, <1>d, <1>e, <1>f, <1>g, <1>3, <1>4, <1>6 DEF IsScore
  <1>8. scoreCategoryDynamic(category, bag) = Sum(value, 1..6)
    <2>1. DOMAIN category.factors = 1..6 /\ 6 \in Nat
      BY <1>1, FactorsAre
    <2>2. Scored(category, bag, 6, value)
      BY <1>5, <1>7, <2>1 DEF Scored
    <2> QED
      BY <2>1, <2>2, CategoryOf
  <1>9. Sum(value, 1..6) = 25 * p + 15 * c + 10 * t + 25 * l + 10 * b + 15 * a
    BY <1>5, <1>6, SumOfSix
  <1>10. 25 * p + 15 * c + 10 * t + 25 * l + 10 * b + 15 * a <= 90000
    BY <1>b, <1>c, <1>d, <1>e, <1>f, <1>g
  <1> QED
    BY <1>b, <1>c, <1>d, <1>e, <1>f, <1>g, <1>8, <1>9, <1>10 DEF category, bag, SeedClient

LEMMA SeedGeographyIs ==
    ASSUME NEW f, Known(f)
    PROVE  /\ scoreCategoryDynamic(Seed.categories["GEOGRAPHY"], dataBag(f)) = SeedGeography(f)
           /\ SeedGeography(f) \in Nat /\ SeedGeography(f) <= 90000
  <1> DEFINE category == Seed.categories["GEOGRAPHY"]
             bag == dataBag(f)
  <1>1. category.factors = GeographyFactors
    BY DEF Seed
  <1> HIDE DEF category, bag
  <1>a. /\ IsScore(StateRisk)
        /\ IsScore(BorderScore(f))
        /\ IsScore(countryRisk(f))
    BY ScoresTyped
  <1>b. PICK s \in Nat : s = StateRisk /\ s <= 900
    BY <1>a DEF IsScore
  <1>c. PICK b \in Nat : b = BorderScore(f) /\ b <= 900
    BY <1>a DEF IsScore
  <1>d. PICK c \in Nat : c = countryRisk(f) /\ c <= 900
    BY <1>a DEF IsScore
  <1> DEFINE value == <<30 * s, 25 * 300, 25 * b, 20 * c>>
  <1>3. /\ GeographyFactors[1].weight = 30 /\ GeographyFactors[2].weight = 25
        /\ GeographyFactors[3].weight = 25 /\ GeographyFactors[4].weight = 20
    BY DEF GeographyFactors, Factor
  <1>4. /\ evaluateFactor(GeographyFactors[1], bag) = s /\ evaluateFactor(GeographyFactors[2], bag) = 300
        /\ evaluateFactor(GeographyFactors[3], bag) = b /\ evaluateFactor(GeographyFactors[4], bag) = c
    BY <1>b, <1>c, <1>d, GeographyFactorsAre DEF bag
  <1>5. value \in [1..4 -> Nat]
    OBVIOUS
  <1>6. value[1] = 30 * s /\ value[2] = 25 * 300 /\ value[3] = 25 * b /\ value[4] = 20 * c
    OBVIOUS
  <1> HIDE DEF value
  <1>7. ASSUME NEW i \in 1..4
        PROVE  /\ IsScore(evaluateFactor(category.factors[i], bag))
               /\ value[i] = category.factors[i].weight * evaluateFactor(category.factors[i], bag)
    <2>1. i = 1 \/ i = 2 \/ i = 3 \/ i = 4
      OBVIOUS
    <2> QED
      BY <2>1, <1>1, <1>b, <1>c, <1>d, <1>3, <1>4, <1>6 DEF IsScore
  <1>8. scoreCategoryDynamic(category, bag) = Sum(value, 1..4)
    <2>1. DOMAIN category.factors = 1..4 /\ 4 \in Nat
      BY <1>1, FactorsAre
    <2>2. Scored(category, bag, 4, value)
      BY <1>5, <1>7, <2>1 DEF Scored
    <2> QED
      BY <2>1, <2>2, CategoryOf
  <1>9. Sum(value, 1..4) = 30 * s + 25 * 300 + 25 * b + 20 * c
    BY <1>5, <1>6, SumOfFour
  <1>10. 30 * s + 25 * 300 + 25 * b + 20 * c <= 90000
    BY <1>b, <1>c, <1>d
  <1> QED
    BY <1>b, <1>c, <1>d, <1>8, <1>9, <1>10 DEF category, bag, SeedGeography

LEMMA SeedProductIs ==
    ASSUME NEW f, Known(f)
    PROVE  /\ scoreCategoryDynamic(Seed.categories["PRODUCTS"], dataBag(f)) = SeedProduct(f)
           /\ SeedProduct(f) \in Nat /\ SeedProduct(f) <= 90000
  <1> DEFINE category == Seed.categories["PRODUCTS"]
             bag == dataBag(f)
  <1>1. category.factors = ProductFactors
    BY DEF Seed
  <1> HIDE DEF category, bag
  <1>a. /\ IsScore(averageActivity(activityCodes(f)))
        /\ IsScore(CodesScore(Cardinality(activityCodes(f))))
    BY ScoresTyped
  <1>b. PICK a \in Nat : a = averageActivity(activityCodes(f)) /\ a <= 900
    BY <1>a DEF IsScore
  <1>c. PICK c \in Nat : c = CodesScore(Cardinality(activityCodes(f))) /\ c <= 900
    BY <1>a DEF IsScore
  <1> DEFINE value == <<60 * a, 40 * c>>
  <1>3. ProductFactors[1].weight = 60 /\ ProductFactors[2].weight = 40
    BY DEF ProductFactors, Factor
  <1>4. evaluateFactor(ProductFactors[1], bag) = a /\ evaluateFactor(ProductFactors[2], bag) = c
    BY <1>b, <1>c, ProductFactorsAre DEF bag
  <1>5. value \in [1..2 -> Nat]
    OBVIOUS
  <1>6. value[1] = 60 * a /\ value[2] = 40 * c
    OBVIOUS
  <1> HIDE DEF value
  <1>7. ASSUME NEW i \in 1..2
        PROVE  /\ IsScore(evaluateFactor(category.factors[i], bag))
               /\ value[i] = category.factors[i].weight * evaluateFactor(category.factors[i], bag)
    <2>1. i = 1 \/ i = 2
      OBVIOUS
    <2> QED
      BY <2>1, <1>1, <1>b, <1>c, <1>3, <1>4, <1>6 DEF IsScore
  <1>8. scoreCategoryDynamic(category, bag) = Sum(value, 1..2)
    <2>1. DOMAIN category.factors = 1..2 /\ 2 \in Nat
      BY <1>1, FactorsAre
    <2>2. Scored(category, bag, 2, value)
      BY <1>5, <1>7, <2>1 DEF Scored
    <2> QED
      BY <2>1, <2>2, CategoryOf
  <1>9. Sum(value, 1..2) = 60 * a + 40 * c
    BY <1>5, <1>6, SumOfTwo
  <1>10. 60 * a + 40 * c <= 90000
    BY <1>b, <1>c
  <1> QED
    BY <1>b, <1>c, <1>8, <1>9, <1>10 DEF category, bag, SeedProduct

LEMMA SeedTransactionIs ==
    ASSUME NEW f, Known(f)
    PROVE  /\ scoreCategoryDynamic(Seed.categories["TRANSACTIONS"], dataBag(f)) = SeedTransaction(f)
           /\ SeedTransaction(f) \in Nat /\ SeedTransaction(f) <= 90000
  <1> DEFINE category == Seed.categories["TRANSACTIONS"]
             bag == dataBag(f)
  <1>1. category.factors = TransactionFactors
    BY DEF Seed
  <1> HIDE DEF category, bag
  <1>a. /\ IsScore(CashScore(cashPayments(f), Ops(f)))
        /\ IsScore(FrequencyScore(totalOps(f), Months(f)))
        /\ IsScore(AmountScore(totalAmount(f)))
    BY ScoresTyped
  <1>b. PICK c \in Nat : c = CashScore(cashPayments(f), Ops(f)) /\ c <= 900
    BY <1>a DEF IsScore
  <1>c. PICK m \in Nat : m = FrequencyScore(totalOps(f), Months(f)) /\ m <= 900
    BY <1>a DEF IsScore
  <1>d. PICK a \in Nat : a = AmountScore(totalAmount(f)) /\ a <= 900
    BY <1>a DEF IsScore
  <1> DEFINE value == <<25 * c, 0, 0, 15 * m, 15 * a>>
  <1>3. /\ TransactionFactors[1].weight = 25 /\ TransactionFactors[2].weight = 25
        /\ TransactionFactors[3].weight = 20 /\ TransactionFactors[4].weight = 15
        /\ TransactionFactors[5].weight = 15
    BY DEF TransactionFactors, Factor
  <1>4. /\ evaluateFactor(TransactionFactors[1], bag) = c /\ evaluateFactor(TransactionFactors[2], bag) = 0
        /\ evaluateFactor(TransactionFactors[3], bag) = 0 /\ evaluateFactor(TransactionFactors[4], bag) = m
        /\ evaluateFactor(TransactionFactors[5], bag) = a
    BY <1>b, <1>c, <1>d, TransactionFactorsAre DEF bag
  <1>5. value \in [1..5 -> Nat]
    OBVIOUS
  <1>6. value[1] = 25 * c /\ value[2] = 0 /\ value[3] = 0 /\ value[4] = 15 * m /\ value[5] = 15 * a
    OBVIOUS
  <1> HIDE DEF value
  <1>7. ASSUME NEW i \in 1..5
        PROVE  /\ IsScore(evaluateFactor(category.factors[i], bag))
               /\ value[i] = category.factors[i].weight * evaluateFactor(category.factors[i], bag)
    <2>1. i = 1 \/ i = 2 \/ i = 3 \/ i = 4 \/ i = 5
      OBVIOUS
    <2> QED
      BY <2>1, <1>1, <1>b, <1>c, <1>d, <1>3, <1>4, <1>6 DEF IsScore
  <1>8. scoreCategoryDynamic(category, bag) = Sum(value, 1..5)
    <2>1. DOMAIN category.factors = 1..5 /\ 5 \in Nat
      BY <1>1, FactorsAre
    <2>2. Scored(category, bag, 5, value)
      BY <1>5, <1>7, <2>1 DEF Scored
    <2> QED
      BY <2>1, <2>2, CategoryOf
  <1>9. Sum(value, 1..5) = 25 * c + 15 * m + 15 * a
    BY <1>5, <1>6, SumOfFive
  <1>10. 25 * c + 15 * m + 15 * a <= 90000
    BY <1>b, <1>c, <1>d
  <1> QED
    BY <1>b, <1>c, <1>d, <1>8, <1>9, <1>10 DEF category, bag, SeedTransaction

-----------------------------------------------------------------------------
(* The scores.                                                             *)

LEMMA SumOfCategories ==
    ASSUME NEW v, DOMAIN v = {"CLIENTS", "GEOGRAPHY", "PRODUCTS", "TRANSACTIONS"},
           \A k \in DOMAIN v : v[k] \in Nat
    PROVE  SumFunction(v) = v["CLIENTS"] + v["GEOGRAPHY"] + v["PRODUCTS"] + v["TRANSACTIONS"]
  <1> DEFINE D1 == {"CLIENTS"}
             D2 == {"CLIENTS", "GEOGRAPHY"}
             D3 == {"CLIENTS", "GEOGRAPHY", "PRODUCTS"}
             D4 == {"CLIENTS", "GEOGRAPHY", "PRODUCTS", "TRANSACTIONS"}
  <1>1. /\ D4 \ {"TRANSACTIONS"} = D3 /\ D3 \ {"PRODUCTS"} = D2 /\ D2 \ {"GEOGRAPHY"} = D1
        /\ D1 \ {"CLIENTS"} = {}
        /\ "TRANSACTIONS" \in D4 /\ "PRODUCTS" \in D3 /\ "GEOGRAPHY" \in D2 /\ "CLIENTS" \in D1
    OBVIOUS
  <1>2. IsFiniteSet(D1) /\ IsFiniteSet(D2) /\ IsFiniteSet(D3) /\ IsFiniteSet(D4)
    <2>1. /\ D1 = {} \cup {"CLIENTS"} /\ D2 = D1 \cup {"GEOGRAPHY"} /\ D3 = D2 \cup {"PRODUCTS"}
          /\ D4 = D3 \cup {"TRANSACTIONS"}
      OBVIOUS
    <2> HIDE DEF D1, D2, D3, D4
    <2> QED
      BY <2>1, FS_EmptySet, FS_AddElement
  <1>3. AreNatural(v, D1) /\ AreNatural(v, D2) /\ AreNatural(v, D3) /\ AreNatural(v, D4)
    BY DEF AreNatural
  <1>4. /\ v["CLIENTS"] \in Nat /\ v["GEOGRAPHY"] \in Nat /\ v["PRODUCTS"] \in Nat
        /\ v["TRANSACTIONS"] \in Nat
    OBVIOUS
  <1>5. DOMAIN v = D4
    OBVIOUS
  <1> HIDE DEF D1, D2, D3, D4
  <1>6. Sum(v, D4) = v["TRANSACTIONS"] + Sum(v, D3)
    BY <1>1, <1>2, <1>3, SumWithout
  <1>7. Sum(v, D3) = v["PRODUCTS"] + Sum(v, D2)
    BY <1>1, <1>2, <1>3, SumWithout
  <1>8. Sum(v, D2) = v["GEOGRAPHY"] + Sum(v, D1)
    BY <1>1, <1>2, <1>3, SumWithout
  <1>9. Sum(v, D1) = v["CLIENTS"] + Sum(v, {})
    BY <1>1, <1>2, <1>3, SumWithout
  <1>10. Sum(v, {}) = 0
    BY FS_EmptySet, SumFirst
  <1>11. SumFunction(v) = Sum(v, D4)
    BY <1>5, SumIs
  <1> QED
    BY <1>4, <1>6, <1>7, <1>8, <1>9, <1>10, <1>11

\* The place of a score among the thresholds.
Rank(s) == IF s < 3000000 THEN 1 ELSE IF s < 5000000 THEN 2 ELSE IF s < 7000000 THEN 3 ELSE 4
IsTotal(n) == n \in Nat /\ n <= 9000000

LEMMA ThresholdIs ==
    ASSUME NEW s, IsTotal(s)
    PROVE  findThreshold(Seed.thresholds, s) = Seed.thresholds[Rank(s)]
  <1> USE DEF IsTotal
  <1> DEFINE t == Seed.thresholds
             hits == {i \in DOMAIN t : s >= t[i].minScore /\ s < t[i].maxScore}
  <1>1. /\ DOMAIN t = 1..4 /\ Len(t) = 4
        /\ t[1].minScore = 0 /\ t[1].maxScore = 3000000
        /\ t[2].minScore = 3000000 /\ t[2].maxScore = 5000000
        /\ t[3].minScore = 5000000 /\ t[3].maxScore = 7000000
        /\ t[4].minScore = 7000000 /\ t[4].maxScore = 9000000
    BY DEF Seed, Threshold
  <1> HIDE DEF t
  <1>2. hits \subseteq 1..4
    BY <1>1
  <1>3. /\ 1 \in hits <=> s < 3000000
        /\ 2 \in hits <=> s >= 3000000 /\ s < 5000000
        /\ 3 \in hits <=> s >= 5000000 /\ s < 7000000
        /\ 4 \in hits <=> s >= 7000000 /\ s < 9000000
    BY <1>1
  <1>4. findThreshold(t, s) = t[IF hits = {} THEN 4 ELSE Min(hits)]
    BY <1>1 DEF findThreshold
  <1> HIDE DEF hits
  <1>5. ASSUME NEW i \in 1..4, i \in hits, \A j \in 1..4 : j # i => j \notin hits
        PROVE  findThreshold(t, s) = t[i]
    <2>1. hits = {i}
      <3>1. \A x \in hits : x = i
        BY <1>2, <1>5
      <3>2. i \in hits
        BY <1>5
      <3> QED
        BY ONLY <3>1, <3>2
    <2>2. Min(hits) = i
      <3>1. Min({i}) = i
        BY ONLY i \in 1..4, MinOne
      <3> QED
        BY <2>1, <3>1
    <2>3. (IF hits = {} THEN 4 ELSE Min(hits)) = i
      BY <1>5, <2>2
    <2> QED
      BY <1>4, <2>3
  <1>6. CASE s < 3000000
    BY <1>3, <1>5, <1>6 DEF Rank, t
  <1>7. CASE s >= 3000000 /\ s < 5000000
    BY <1>3, <1>5, <1>7 DEF Rank, t
  <1>8. CASE s >= 5000000 /\ s < 7000000
    BY <1>3, <1>5, <1>8 DEF Rank, t
  <1>9. CASE s >= 7000000 /\ s < 9000000
    BY <1>3, <1>5, <1>9 DEF Rank, t
  <1>10. CASE s = 9000000
    <2>1. hits = {}
      BY <1>2, <1>3, <1>10
    <2> QED
      BY <1>4, <1>10, <2>1 DEF Rank, t
  <1> QED
    BY <1>6, <1>7, <1>8, <1>9, <1>10

LEMMA ClampTyped == \A n \in Int : IsTotal(clampScore(n))
  BY DEF IsTotal, clampScore, AtLeast, AtMost

LEMMA MitigantsTyped ==
    ASSUME NEW f, Known(f)
    PROVE  mitigantEffect(f) \in Int
  <1> DEFINE age == CASE f.months > 24 -> 60 [] f.months \in 13..24 -> 30 [] f.months < 13 -> 0
  <1>1. age \in Int
    <2>1. PICK m \in Nat : m = f.months
      BY DEF Known
    <2>2. CASE m > 24
      BY <2>1, <2>2
    <2>3. CASE m \in 13..24
      BY <2>1, <2>3
    <2>4. CASE m < 13
      BY <2>1, <2>4
    <2> QED
      BY <2>1, <2>2, <2>3, <2>4
  <1>2. mitigantEffect(f)
          = 30 * (IF f.kyc THEN 100 ELSE -50) + 25 * (IF f.docs THEN 80 ELSE 0) + 20 * age
    BY Zenon DEF mitigantEffect
  <1> HIDE DEF age
  <1> QED
    BY <1>1, <1>2

LEMMA ResidualTyped ==
    ASSUME NEW f, Known(f), NEW n \in Int
    PROVE  IsTotal(Residual(f, n))
  <1>1. clampScore(n) \in Nat /\ mitigantEffect(f) \in Int
    BY ClampTyped, MitigantsTyped DEF IsTotal
  <1> QED
    BY <1>1, ClampTyped DEF Residual

SeedInherent(f) ==
    30 * SeedClient(f) + 20 * SeedGeography(f) + 25 * SeedProduct(f) + 25 * SeedTransaction(f)
SeedScore(f) == Residual(f, SeedInherent(f))
SeedElements(f) ==
    [CLIENTS |-> SeedClient(f), GEOGRAPHY |-> SeedGeography(f), PRODUCTS |-> SeedProduct(f),
     TRANSACTIONS |-> SeedTransaction(f)]

LEMMA SeedTyped ==
    ASSUME NEW f, Known(f)
    PROVE  /\ SeedInherent(f) \in Int /\ IsTotal(SeedScore(f))
           /\ IsTotal(100 * SeedClient(f)) /\ IsTotal(100 * SeedGeography(f))
           /\ IsTotal(100 * SeedProduct(f)) /\ IsTotal(100 * SeedTransaction(f))
  <1>1. PICK c \in Nat : c = SeedClient(f) /\ c <= 90000
    BY SeedClientIs
  <1>2. PICK g \in Nat : g = SeedGeography(f) /\ g <= 90000
    BY SeedGeographyIs
  <1>3. PICK p \in Nat : p = SeedProduct(f) /\ p <= 90000
    BY SeedProductIs
  <1>4. PICK t \in Nat : t = SeedTransaction(f) /\ t <= 90000
    BY SeedTransactionIs
  <1>5. SeedInherent(f) \in Int
    BY <1>1, <1>2, <1>3, <1>4 DEF SeedInherent
  <1> QED
    BY <1>1, <1>2, <1>3, <1>4, <1>5, ResidualTyped DEF IsTotal, SeedScore

\* What the methodology makes of a client.
LEMMA SeedIs ==
    ASSUME NEW f, Known(f)
    PROVE  LET rating == calculateWithMethodology(Seed, f)
               threshold == Seed.thresholds[Rank(SeedScore(f))]
               Level(n) == Seed.thresholds[Rank(100 * n)].riskLevel
           IN  /\ rating.score = SeedScore(f)
               /\ rating.riskLevel = threshold.riskLevel
               /\ rating.dueDiligenceLevel = threshold.ddLevel
               /\ rating.nextReviewMonths = threshold.reviewMonths
               /\ rating.ddProfile
                    = buildDDProfile(threshold.riskLevel,
                        [CLIENTS |-> Level(SeedClient(f)), GEOGRAPHY |-> Level(SeedGeography(f)),
                         PRODUCTS |-> Level(SeedProduct(f)),
                         TRANSACTIONS |-> Level(SeedTransaction(f))], f.pep)
  <1> DEFINE E(c) == scoreCategoryDynamic(Seed.categories[c], dataBag(f))
             element == [CLIENTS |-> E("CLIENTS"), GEOGRAPHY |-> E("GEOGRAPHY"),
                         PRODUCTS |-> E("PRODUCTS"), TRANSACTIONS |-> E("TRANSACTIONS")]
             weighted == [c \in DOMAIN element |-> Seed.categories[c].weight * element[c]]
  <1>1. element = SeedElements(f)
    BY SeedClientIs, SeedGeographyIs, SeedProductIs, SeedTransactionIs DEF SeedElements
  <1>2. /\ Seed.categories["CLIENTS"].weight = 30 /\ Seed.categories["GEOGRAPHY"].weight = 20
        /\ Seed.categories["PRODUCTS"].weight = 25 /\ Seed.categories["TRANSACTIONS"].weight = 25
    BY DEF Seed
  <1>3. /\ DOMAIN element = {"CLIENTS", "GEOGRAPHY", "PRODUCTS", "TRANSACTIONS"}
        /\ DOMAIN weighted = DOMAIN element
    OBVIOUS
  <1>4. /\ weighted["CLIENTS"] = 30 * SeedClient(f) /\ weighted["GEOGRAPHY"] = 20 * SeedGeography(f)
        /\ weighted["PRODUCTS"] = 25 * SeedProduct(f)
        /\ weighted["TRANSACTIONS"] = 25 * SeedTransaction(f)
    <2> HIDE DEF E
    <2>1. \A c \in DOMAIN element : weighted[c] = Seed.categories[c].weight * element[c]
      OBVIOUS
    <2> QED
      BY <1>1, <1>2, <1>3, <2>1 DEF SeedElements
  <1>5. calculateWithMethodology(Seed, f).score = Residual(f, SumFunction(weighted))
    BY DEF calculateWithMethodology
  <1>6. Residual(f, SumFunction(weighted)) = SeedScore(f)
    <2> HIDE DEF element
    <2>1. \A k \in DOMAIN weighted : weighted[k] \in Nat
      BY <1>3, <1>4, SeedClientIs, SeedGeographyIs, SeedProductIs, SeedTransactionIs
    <2> HIDE DEF weighted
    <2>2. SumFunction(weighted) = SeedInherent(f)
      BY <1>3, <1>4, <2>1, SumOfCategories DEF SeedInherent
    <2> QED
      BY <2>2 DEF SeedScore
  <1> DEFINE Of(n) == findThreshold(Seed.thresholds, n)
  <1>7. /\ calculateWithMethodology(Seed, f).riskLevel = Of(Residual(f, SumFunction(weighted))).riskLevel
        /\ calculateWithMethodology(Seed, f).dueDiligenceLevel
             = Of(Residual(f, SumFunction(weighted))).ddLevel
        /\ calculateWithMethodology(Seed, f).nextReviewMonths
             = Of(Residual(f, SumFunction(weighted))).reviewMonths
        /\ calculateWithMethodology(Seed, f).ddProfile
             = buildDDProfile(Of(Residual(f, SumFunction(weighted))).riskLevel,
                 [c \in DOMAIN element |-> Of(100 * element[c]).riskLevel], f.pep)
    BY DEF calculateWithMethodology
  <1>8. Of(SeedScore(f)) = Seed.thresholds[Rank(SeedScore(f))]
    BY SeedTyped, ThresholdIs
  <1>9. [c \in DOMAIN element |-> Of(100 * element[c]).riskLevel]
          = [CLIENTS |-> Seed.thresholds[Rank(100 * SeedClient(f))].riskLevel,
             GEOGRAPHY |-> Seed.thresholds[Rank(100 * SeedGeography(f))].riskLevel,
             PRODUCTS |-> Seed.thresholds[Rank(100 * SeedProduct(f))].riskLevel,
             TRANSACTIONS |-> Seed.thresholds[Rank(100 * SeedTransaction(f))].riskLevel]
    <2>1. /\ element["CLIENTS"] = SeedClient(f) /\ element["GEOGRAPHY"] = SeedGeography(f)
          /\ element["PRODUCTS"] = SeedProduct(f) /\ element["TRANSACTIONS"] = SeedTransaction(f)
      BY <1>1 DEF SeedElements
    <2> HIDE DEF element
    <2>2. /\ Of(100 * SeedClient(f)) = Seed.thresholds[Rank(100 * SeedClient(f))]
          /\ Of(100 * SeedGeography(f)) = Seed.thresholds[Rank(100 * SeedGeography(f))]
          /\ Of(100 * SeedProduct(f)) = Seed.thresholds[Rank(100 * SeedProduct(f))]
          /\ Of(100 * SeedTransaction(f)) = Seed.thresholds[Rank(100 * SeedTransaction(f))]
      BY SeedTyped, ThresholdIs
    <2> HIDE DEF Of
    <2> QED
      BY <1>3, <2>1, <2>2
  <1> HIDE DEF weighted, element, Of
  <1> QED
    BY <1>5, <1>6, <1>7, <1>8, <1>9

-----------------------------------------------------------------------------
(* The rules in the code, factor by factor.                                *)

LegacyBc(f) == AtMost(900, 150 * f.bc)
LegacyCodes(f) == AtMost(600, 100 * Cardinality(activityCodes(f)))
LegacyCash(f) ==
    IF totalOps(f) = 0 THEN 0 ELSE AtMost(900, (900 * cashPayments(f)) \div totalOps(f))

LegacyClient(f) ==
    25 * PepScore(f) + 15 * countryRisk(f) + 10 * PersonScore(f) + 25 * FoundScore(f)
    + 10 * LegacyBc(f) + 15 * AgeScore(f)
LegacyProduct(f) == 60 * averageActivity(activityCodes(f)) + 40 * LegacyCodes(f)
LegacyTransaction(f) ==
    25 * LegacyCash(f) + 15 * FrequencyScore(totalOps(f), Months(f)) + 15 * AmountScore(totalAmount(f))
LegacyInherent(f) ==
    30 * LegacyClient(f) + 20 * SeedGeography(f) + 25 * LegacyProduct(f) + 25 * LegacyTransaction(f)

LEMMA DivLess ==
    ASSUME NEW a \in Nat, NEW d \in Nat \ {0}, NEW k \in Nat
    PROVE  /\ a \div d \in Nat
           /\ a <= k * d => a \div d <= k
           /\ a >= k * d => a \div d >= k
  <1>1. PICK q \in Nat : q = a \div d /\ q * d <= a /\ a < (q + 1) * d
    OBVIOUS
  <1>2. ASSUME a <= k * d PROVE q <= k
    <2>1. CASE q >= k + 1
      <3>1. q * d >= (k + 1) * d /\ (k + 1) * d = k * d + d
        BY <2>1
      <3> QED
        BY <1>1, <1>2, <3>1
    <2> QED
      BY <2>1
  <1>3. ASSUME a >= k * d PROVE q >= k
    <2>1. CASE q + 1 <= k
      <3>1. (q + 1) * d <= k * d
        BY <2>1
      <3> QED
        BY <1>1, <1>3, <3>1
    <2> QED
      BY <2>1
  <1> QED
    BY <1>1, <1>2, <1>3

\* What is divided by the same gives more for more.
LEMMA DivMore ==
    ASSUME NEW k \in Nat, NEW c \in Nat, NEW e \in Nat, c <= e, NEW d \in Nat \ {0}
    PROVE  /\ (k * c) \div d \in Nat /\ (k * e) \div d \in Nat
           /\ (k * c) \div d <= (k * e) \div d
  <1>1. PICK a \in Nat, b \in Nat : a = k * c /\ b = k * e /\ a <= b
    <2>1. k * c \in Nat /\ k * e \in Nat /\ k * c <= k * e
      OBVIOUS
    <2> QED
      BY <2>1
  <1>2. PICK q \in Nat : q = a \div d /\ q * d <= a
    OBVIOUS
  <1>3. b \div d >= q
    BY <1>1, <1>2, DivLess
  <1>4. b \div d \in Nat
    BY DivLess
  <1> QED
    BY <1>1, <1>2, <1>3, <1>4

LEMMA LegacyIs ==
    ASSUME NEW f, Known(f)
    PROVE  calculateLegacy(f) = Residual(f, LegacyInherent(f))
  <1>1. scoreClientElement(f) = LegacyClient(f)
    <2> DEFINE person == [PHYSICAL |-> 200, MORAL |-> 500, TRUST |-> 700][f.person]
               found == Over([ofac_sanctioned |-> 900, sat69b_listed |-> 800, adverse_media |-> 600,
                              flagged |-> 500], f.listed, 0)
               age == Step(Whole(f.months), <<5, 11>>, <<600, 400, 100>>)
               Element(p, l, a) == 25 * PepScore(f) + 15 * countryRisk(f) + 10 * p + 25 * l
                                   + 10 * LegacyBc(f) + 15 * a
    <2>1. person = PersonScore(f) /\ found = FoundScore(f) /\ age = AgeScore(f)
      BY EqualFactors
    <2>2. scoreClientElement(f) = Element(person, found, age)
      BY Zenon DEF scoreClientElement, PepScore, LegacyBc
    <2>3. LegacyClient(f) = Element(PersonScore(f), FoundScore(f), AgeScore(f))
      BY Zenon DEF LegacyClient
    <2> HIDE DEF person, found, age, Element
    <2> QED
      BY <2>1, <2>2, <2>3
  <1>2. scoreGeographicElement(f) = SeedGeography(f)
    BY Zenon DEF scoreGeographicElement, SeedGeography, BorderScore
  <1>3. scoreActivityElement(f) = LegacyProduct(f)
    BY Zenon DEF scoreActivityElement, LegacyProduct, LegacyCodes
  <1>4. Step(avgFrequency(f), <<5, 10, 20>>, <<100, 300, 500, 700>>)
          = FrequencyScore(totalOps(f), Months(f))
    <2>1. PICK n \in Nat, d \in Nat \ {0} : n = totalOps(f) /\ d = Months(f)
      BY FrequencyIs
    <2> DEFINE b == <<5, 10, 20>>
               s == <<100, 300, 500, 700>>
    <2>2. d \in Nat /\ AreBounds(b, d)
      BY DEF AreBounds
    <2>3. StepIn(s, b, n, d) = FrequencyScore(n, d)
      BY DEF StepIn, FrequencyScore
    <2> HIDE DEF b, s
    <2>4. Step(Ratio(n, d), b, s) = FrequencyScore(n, d)
      BY <2>2, <2>3, ThreeSteps
    <2> QED
      BY <2>1, <2>4, FrequencyIs DEF b, s
  <1>5. Step(Whole(totalAmount(f)), <<100000, 1000000, 10000000>>, <<200, 400, 600, 800>>)
          = AmountScore(totalAmount(f))
    <2>1. PICK n \in Nat : n = totalAmount(f)
      BY CountsTyped
    <2> DEFINE b == <<100000, 1000000, 10000000>>
               s == <<200, 400, 600, 800>>
    <2>2. 1 \in Nat /\ AreBounds(b, 1)
      BY DEF AreBounds
    <2>3. StepIn(s, b, n, 1) = AmountScore(n)
      BY DEF StepIn, AmountScore
    <2> HIDE DEF b, s
    <2>4. Step(Whole(n), b, s) = AmountScore(n)
      BY <2>2, <2>3, ThreeSteps DEF Whole
    <2> QED
      BY <2>1, <2>4 DEF b, s
  <1>6. scoreTransactionElement(f) = LegacyTransaction(f)
    BY <1>4, <1>5 DEF scoreTransactionElement, LegacyTransaction, LegacyCash
  <1> QED
    BY <1>1, <1>2, <1>3, <1>6 DEF calculateLegacy, LegacyInherent

LEMMA CashNear ==
    ASSUME NEW f, Known(f)
    PROVE  /\ LegacyCash(f) \in Nat
           /\ CashScore(cashPayments(f), Ops(f)) - LegacyCash(f) >= -100
           /\ CashScore(cashPayments(f), Ops(f)) - LegacyCash(f) <= 261
  <1>1. PICK c \in Nat, n \in Nat : c = cashPayments(f) /\ n = totalOps(f)
    BY CountsTyped
  <1>2. CASE n = 0
    <2>1. DOMAIN f.operations = {}
      <3>1. DOMAIN f.operations = 1..n
        BY <1>1, CountsTyped
      <3> QED
        BY <1>2, <3>1
    <2>2. c = 0
      BY <1>1, <2>1, SumIs, SumFirst, FS_EmptySet DEF cashPayments
    <2> QED
      BY <1>1, <1>2, <2>2 DEF LegacyCash, CashScore, Ops, AtLeast
  <1>3. CASE n # 0
    <2>1. PICK d \in Nat \ {0} : d = n /\ d = Ops(f)
      BY <1>1, <1>3 DEF Ops, AtLeast
    <2>2. PICK a \in Nat : a = 900 * c
      OBVIOUS
    <2>3. PICK q \in Nat : q = a \div d
      BY DivLess
    <2>4. /\ a <= 90 * d => q <= 90
          /\ a <= 270 * d => q <= 270
          /\ a <= 540 * d => q <= 540
          /\ a >= 90 * d => q >= 90
          /\ a >= 270 * d => q >= 270
          /\ a >= 540 * d => q >= 540
      BY <2>3, DivLess
    <2>5. LegacyCash(f) = IF q > 900 THEN 900 ELSE q
      BY <1>1, <1>3, <2>1, <2>2, <2>3 DEF LegacyCash, AtMost
    <2>6. CashScore(c, d) = IF a <= 90 * d THEN 100 ELSE IF a <= 270 * d THEN 300
                            ELSE IF a <= 540 * d THEN 500 ELSE 800
      BY <2>2 DEF CashScore
    <2> QED
      BY <1>1, <2>1, <2>4, <2>5, <2>6
  <1> QED
    BY <1>2, <1>3

LEMMA LegacyTyped ==
    ASSUME NEW f, Known(f)
    PROVE  LegacyClient(f) \in Nat /\ LegacyProduct(f) \in Nat /\ LegacyTransaction(f) \in Nat
  <1>1. LegacyBc(f) \in Nat /\ LegacyCodes(f) \in Nat /\ LegacyCash(f) \in Nat
    BY RisksTyped, CashNear DEF Known, LegacyBc, LegacyCodes, AtMost
  <1>2. LegacyClient(f) \in Nat
    BY <1>1, ScoresTyped DEF LegacyClient, IsScore
  <1>3. LegacyProduct(f) \in Nat
    BY <1>1, ScoresTyped DEF LegacyProduct, IsScore
  <1>4. LegacyTransaction(f) \in Nat
    BY <1>1, ScoresTyped DEF LegacyTransaction, IsScore
  <1> QED
    BY <1>2, <1>3, <1>4

LEMMA InherentNear ==
    ASSUME NEW f, Known(f)
    PROVE  /\ LegacyInherent(f) \in Int
           /\ SeedInherent(f) - LegacyInherent(f) >= -70000
           /\ SeedInherent(f) - LegacyInherent(f) <= 320000
  <1>1. PICK s \in Nat, l \in Nat : /\ s = BcScore(f) /\ l = LegacyBc(f)
                                    /\ s - l >= 0 /\ s - l <= 150
    <2>1. PICK n \in Nat : n = f.bc
      BY DEF Known
    <2>2. BcScore(f) = IF n = 0 THEN 0 ELSE IF n <= 2 THEN 300 ELSE IF n <= 4 THEN 600 ELSE 900
      BY <2>1 DEF BcScore
    <2>3. LegacyBc(f) = IF 150 * n > 900 THEN 900 ELSE 150 * n
      BY <2>1 DEF LegacyBc, AtMost
    <2>4. BcScore(f) \in Nat /\ LegacyBc(f) \in Nat
      BY <2>2, <2>3
    <2>5. BcScore(f) - LegacyBc(f) >= 0 /\ BcScore(f) - LegacyBc(f) <= 150
      BY <2>2, <2>3
    <2> QED
      BY <2>4, <2>5
  <1>2. PICK s2 \in Nat, l2 \in Nat : /\ s2 = CodesScore(Cardinality(activityCodes(f)))
                                      /\ l2 = LegacyCodes(f) /\ s2 - l2 >= 0 /\ s2 - l2 <= 100
    BY RisksTyped DEF CodesScore, LegacyCodes, AtMost
  <1>3. PICK s3 \in Nat, l3 \in Nat : /\ s3 = CashScore(cashPayments(f), Ops(f))
                                      /\ l3 = LegacyCash(f) /\ s3 - l3 >= -100 /\ s3 - l3 <= 261
    BY ScoresTyped, CashNear DEF IsScore
  <1>4. PICK c \in Nat : c = 25 * PepScore(f) + 15 * countryRisk(f) + 10 * PersonScore(f)
                             + 25 * FoundScore(f) + 15 * AgeScore(f)
    BY ScoresTyped DEF IsScore
  <1>5. SeedClient(f) = c + 10 * s /\ LegacyClient(f) = c + 10 * l
    BY <1>1, <1>4, ScoresTyped DEF SeedClient, LegacyClient, IsScore
  <1>6. PICK p \in Nat : p = 60 * averageActivity(activityCodes(f))
    BY ScoresTyped DEF IsScore
  <1>7. SeedProduct(f) = p + 40 * s2 /\ LegacyProduct(f) = p + 40 * l2
    BY <1>2, <1>6 DEF SeedProduct, LegacyProduct
  <1>8. PICK t \in Nat : t = 15 * FrequencyScore(totalOps(f), Months(f)) + 15 * AmountScore(totalAmount(f))
    BY ScoresTyped DEF IsScore
  <1>9. SeedTransaction(f) = 25 * s3 + t /\ LegacyTransaction(f) = 25 * l3 + t
    BY <1>3, <1>8, ScoresTyped DEF SeedTransaction, LegacyTransaction, IsScore
  <1>10. PICK g \in Nat : g = SeedGeography(f)
    BY SeedGeographyIs
  <1>11. /\ SeedInherent(f) = 30 * (c + 10 * s) + 20 * g + 25 * (p + 40 * s2) + 25 * (25 * s3 + t)
         /\ LegacyInherent(f) = 30 * (c + 10 * l) + 20 * g + 25 * (p + 40 * l2) + 25 * (25 * l3 + t)
    BY <1>5, <1>7, <1>9, <1>10 DEF SeedInherent, LegacyInherent
  <1> QED
    BY <1>1, <1>2, <1>3, <1>11

\* Cutting to the bounds brings two scores no further apart.
LEMMA ClampNear ==
    ASSUME NEW m \in Int, NEW n \in Int, m - n >= -70000, m - n <= 320000
    PROVE  /\ clampScore(m) - clampScore(n) >= -70000
           /\ clampScore(m) - clampScore(n) <= 320000
  BY DEF clampScore, AtLeast, AtMost

LEMMA ScoreNear ==
    ASSUME NEW f, Known(f)
    PROVE  /\ SeedScore(f) \in Nat /\ calculateLegacy(f) \in Nat
           /\ SeedScore(f) - calculateLegacy(f) >= -70000
           /\ SeedScore(f) - calculateLegacy(f) <= 320000
  <1>1. PICK m \in Int, n \in Int : /\ m = SeedInherent(f) /\ n = LegacyInherent(f)
                                    /\ m - n >= -70000 /\ m - n <= 320000
    BY SeedTyped, InherentNear
  <1>2. PICK e \in Int : e = 100 * mitigantEffect(f)
    BY MitigantsTyped
  <1>3. PICK i \in Int, j \in Int : /\ i = clampScore(m) - e /\ j = clampScore(n) - e
                                    /\ i - j >= -70000 /\ i - j <= 320000
    <2>1. PICK x \in Nat, y \in Nat : x = clampScore(m) /\ y = clampScore(n)
      BY ClampTyped DEF IsTotal
    <2>2. x - y >= -70000 /\ x - y <= 320000
      BY <1>1, <2>1, ClampNear
    <2> QED
      BY <2>1, <2>2
  <1>4. SeedScore(f) = clampScore(i) /\ calculateLegacy(f) = clampScore(j)
    BY <1>1, <1>2, <1>3, LegacyIs DEF SeedScore, Residual
  <1>5. PICK x \in Nat, y \in Nat : x = clampScore(i) /\ y = clampScore(j)
    BY ClampTyped DEF IsTotal
  <1>6. x - y >= -70000 /\ x - y <= 320000
    BY <1>3, <1>5, ClampNear
  <1> QED
    BY <1>4, <1>5, <1>6

\* What follows from a level is the same by either.
Follows(threshold, level) ==
    /\ threshold.riskLevel = level
    /\ threshold.ddLevel = riskLevelToDDLevel(level)
    /\ threshold.reviewMonths = riskLevelToReviewMonths(level)

LEMMA LevelsAre ==
    ASSUME NEW s, IsTotal(s)
    PROVE  Follows(Seed.thresholds[Rank(s)], scoreToRiskLevel(s))
  <1> DEFINE t == Seed.thresholds
  <1>1. /\ t[1].riskLevel = "LOW" /\ t[1].ddLevel = "SIMPLIFIED" /\ t[1].reviewMonths = 12
        /\ t[2].riskLevel = "MEDIUM_LOW" /\ t[2].ddLevel = "STANDARD" /\ t[2].reviewMonths = 6
        /\ t[3].riskLevel = "MEDIUM" /\ t[3].ddLevel = "STANDARD" /\ t[3].reviewMonths = 3
        /\ t[4].riskLevel = "HIGH" /\ t[4].ddLevel = "ENHANCED" /\ t[4].reviewMonths = 1
    BY DEF Seed, Threshold
  <1> HIDE DEF t
  <1>2. /\ Follows(t[1], "LOW") /\ Follows(t[2], "MEDIUM_LOW")
        /\ Follows(t[3], "MEDIUM") /\ Follows(t[4], "HIGH")
    <2>1. /\ riskLevelToDDLevel("LOW") = "SIMPLIFIED" /\ riskLevelToDDLevel("MEDIUM_LOW") = "STANDARD"
          /\ riskLevelToDDLevel("MEDIUM") = "STANDARD" /\ riskLevelToDDLevel("HIGH") = "ENHANCED"
          /\ riskLevelToReviewMonths("LOW") = 12 /\ riskLevelToReviewMonths("MEDIUM_LOW") = 6
          /\ riskLevelToReviewMonths("MEDIUM") = 3 /\ riskLevelToReviewMonths("HIGH") = 1
      BY DEF riskLevelToDDLevel, riskLevelToReviewMonths
    <2> QED
      BY <1>1, <2>1 DEF Follows
  <1>3. \/ scoreToRiskLevel(s) = "LOW" /\ Rank(s) = 1
        \/ scoreToRiskLevel(s) = "MEDIUM_LOW" /\ Rank(s) = 2
        \/ scoreToRiskLevel(s) = "MEDIUM" /\ Rank(s) = 3
        \/ scoreToRiskLevel(s) = "HIGH" /\ Rank(s) = 4
    <2>1. s \in Nat
      BY DEF IsTotal
    <2>2. CASE s < 3000000
      BY <2>1, <2>2 DEF scoreToRiskLevel, Rank
    <2>3. CASE s >= 3000000 /\ s < 5000000
      BY <2>1, <2>3 DEF scoreToRiskLevel, Rank
    <2>4. CASE s >= 5000000 /\ s < 7000000
      BY <2>1, <2>4 DEF scoreToRiskLevel, Rank
    <2>5. CASE s >= 7000000
      BY <2>1, <2>5 DEF scoreToRiskLevel, Rank
    <2> QED
      BY <2>1, <2>2, <2>3, <2>4, <2>5
  <1>4. Follows(t[Rank(s)], scoreToRiskLevel(s))
    BY <1>2, <1>3, Zenon
  <1> QED
    BY <1>4 DEF t

Recorded == Known(onRecord)

LEMMA RecordedAlways == ScoringSpec => []Recorded
  <1>1. ScoringInit => Recorded
    BY KnownFirst DEF Recorded
  <1>2. Recorded /\ [ScoringNext]_onRecord => Recorded'
    BY KnownStep DEF Recorded
  <1> QED
    BY <1>1, <1>2, PTL DEF ScoringSpec

\* The methodology that is data and the rules in the code rate every client alike, but for what
\* the ranges of the methodology round, and the same follows from a score by either.
THEOREM SeedIsNear == ScoringSpec => []SeedNear
  <1>1. ASSUME Recorded
        PROVE  SeedNear
    <2> DEFINE rating == calculateWithMethodology(Seed, onRecord)
               score == SeedScore(onRecord)
               level == scoreToRiskLevel(score)
               legacy == calculateLegacy(onRecord)
    <2>1. score - legacy >= -70000 /\ score - legacy <= 320000
      BY <1>1, ScoreNear DEF Recorded
    <2>2. Follows(Seed.thresholds[Rank(score)], level)
      BY <1>1, SeedTyped, LevelsAre DEF Recorded
    <2>3. /\ rating.score = score
          /\ rating.riskLevel = Seed.thresholds[Rank(score)].riskLevel
          /\ rating.dueDiligenceLevel = Seed.thresholds[Rank(score)].ddLevel
          /\ rating.nextReviewMonths = Seed.thresholds[Rank(score)].reviewMonths
      BY <1>1, SeedIs DEF Recorded
    <2>4. SeedNear = /\ rating.score - legacy >= -70000 /\ rating.score - legacy <= 320000
                     /\ rating.riskLevel = scoreToRiskLevel(rating.score)
                     /\ rating.dueDiligenceLevel = riskLevelToDDLevel(scoreToRiskLevel(rating.score))
                     /\ rating.nextReviewMonths
                          = riskLevelToReviewMonths(scoreToRiskLevel(rating.score))
      BY DEF SeedNear
    <2> HIDE DEF rating, score, legacy
    <2> QED
      BY <2>1, <2>2, <2>3, <2>4 DEF Follows
  <1> QED
    BY <1>1, RecordedAlways, PTL

-----------------------------------------------------------------------------
(* What is worse of a client, factor by factor.                            *)

\* g is the same person as f, on whom there is worse.
WorseOf(f, g) == Known(f) /\ Known(g) /\ Worse(f, g) /\ g.person = f.person

LEMMA WorseFacts ==
    ASSUME NEW f, NEW g, WorseOf(f, g)
    PROVE  /\ PepScore(f) <= PepScore(g) /\ countryRisk(f) <= countryRisk(g)
           /\ PersonScore(f) = PersonScore(g) /\ FoundScore(f) <= FoundScore(g)
           /\ BcScore(f) <= BcScore(g) /\ LegacyBc(f) <= LegacyBc(g)
           /\ AgeScore(f) = AgeScore(g) /\ BorderScore(f) <= BorderScore(g)
  <1>1. Known(f) /\ Known(g) /\ Worse(f, g) /\ g.person = f.person
    BY DEF WorseOf
  <1>2. PepScore(f) <= PepScore(g)
    BY <1>1 DEF Known, Worse, PepScore
  <1>3. countryRisk(f) <= countryRisk(g)
    <2>1. CASE g.country = f.country
      <3>1. countryRisk(f) = countryRisk(g)
        BY <2>1 DEF countryRisk
      <3>2. PICK n \in Nat : n = countryRisk(g)
        BY <1>1, ScoresTyped DEF IsScore
      <3> QED
        BY <3>1, <3>2
    <2>2. CASE g.country # f.country
      <3>1. countryRisk(g) >= countryRisk(f)
        BY <1>1, <2>2 DEF Worse
      <3>2. countryRisk(f) \in Nat /\ countryRisk(g) \in Nat
        BY <1>1, ScoresTyped DEF IsScore
      <3> QED
        BY <3>1, <3>2
    <2> QED
      BY <2>1, <2>2
  <1>4. PersonScore(f) = PersonScore(g)
    BY <1>1 DEF PersonScore
  <1>5. FoundScore(f) <= FoundScore(g)
    <2>1. CASE g.listed = f.listed
      BY <2>1 DEF FoundScore
    <2>2. ASSUME NEW i \in DOMAIN Findings, NEW j \in DOMAIN Findings, i < j,
                 f.listed = Findings[i], g.listed = Findings[j]
          PROVE  FoundScore(f) <= FoundScore(g)
      <3>1. i \in 1..5 /\ j \in 1..5
        BY FindingsAre
      <3>2. /\ Findings[1] = "clear" /\ Findings[2] = "flagged" /\ Findings[3] = "adverse_media"
            /\ Findings[4] = "sat69b_listed" /\ Findings[5] = "ofac_sanctioned"
        BY DEF Findings
      <3> DEFINE score == [k \in 1..5 |-> IF k = 1 THEN 0 ELSE IF k = 2 THEN 500
                                          ELSE IF k = 3 THEN 600 ELSE IF k = 4 THEN 800 ELSE 900]
      <3>3. ASSUME NEW h, NEW k \in 1..5, h.listed = Findings[k]
            PROVE  FoundScore(h) = score[k]
        <4>1. k = 1 \/ k = 2 \/ k = 3 \/ k = 4 \/ k = 5
          OBVIOUS
        <4> QED
          BY <3>2, <3>3, <4>1 DEF FoundScore
      <3>4. FoundScore(f) = score[i] /\ FoundScore(g) = score[j]
        BY <2>2, <3>1, <3>3
      <3>5. score[i] <= score[j]
        BY <2>2, <3>1
      <3> QED
        BY <3>4, <3>5
    <2> QED
      BY <1>1, <2>1, <2>2 DEF Worse
  <1>6. BcScore(f) <= BcScore(g) /\ LegacyBc(f) <= LegacyBc(g)
    <2>1. PICK m \in Nat, n \in Nat : m = f.bc /\ n = g.bc /\ n >= m
      BY <1>1 DEF Known, Worse
    <2> QED
      BY <2>1 DEF BcScore, LegacyBc, AtMost
  <1>7. AgeScore(f) = AgeScore(g)
    BY <1>1 DEF Worse, AgeScore
  <1>8. BorderScore(f) <= BorderScore(g)
    <2>1. hasCrossBorderOps(f) => hasCrossBorderOps(g)
      BY <1>1 DEF Worse, hasCrossBorderOps
    <2> QED
      BY <2>1 DEF BorderScore
  <1> QED
    BY <1>2, <1>3, <1>4, <1>5, <1>6, <1>7, <1>8

LEMMA WorseOperations ==
    ASSUME NEW f, NEW g, WorseOf(f, g)
    PROVE  /\ totalOps(f) = totalOps(g) /\ activityCodes(f) = activityCodes(g)
           /\ cashPayments(f) <= cashPayments(g) /\ totalAmount(f) <= totalAmount(g)
           /\ SumFunction([i \in DOMAIN f.operations |-> f.operations[i].payments])
                = SumFunction([i \in DOMAIN g.operations |-> g.operations[i].payments])
           /\ Ops(f) = Ops(g) /\ Months(f) = Months(g)
  <1>1. Known(f) /\ Known(g) /\ Worse(f, g)
    BY DEF WorseOf
  <1>2. PICK m \in Nat, n \in Nat : /\ m = totalOps(f) /\ n = totalOps(g)
                                    /\ DOMAIN f.operations = 1..m /\ DOMAIN g.operations = 1..n
    BY <1>1, CountsTyped
  <1>3. m = n
    <2>1. 1..m = 1..n
      BY <1>1, <1>2 DEF Worse
    <2> QED
      BY <2>1, UpTo
  <1>4. ASSUME NEW i \in 1..m
        PROVE  /\ f.operations[i].cash \in Nat /\ g.operations[i].cash \in Nat
               /\ f.operations[i].amount \in Nat /\ g.operations[i].amount \in Nat
               /\ f.operations[i].cash <= g.operations[i].cash
               /\ f.operations[i].amount <= g.operations[i].amount
               /\ f.operations[i].activity = g.operations[i].activity
               /\ f.operations[i].payments = g.operations[i].payments
    <2>1. f.operations[i] \in Operation /\ g.operations[i] \in Operation
      BY <1>1, <1>2, <1>3, CountsTyped
    <2>2. /\ g.operations[i].activity = f.operations[i].activity
          /\ g.operations[i].payments = f.operations[i].payments
          /\ g.operations[i].cash >= f.operations[i].cash
          /\ g.operations[i].amount >= f.operations[i].amount
      BY <1>1, <1>2 DEF Worse
    <2> QED
      BY <2>1, <2>2 DEF Operation
  <1>5. activityCodes(f) = activityCodes(g)
    BY <1>2, <1>3, <1>4 DEF activityCodes
  <1>6. ASSUME NEW value, NEW more, DOMAIN value = 1..m, DOMAIN more = 1..m,
               \A i \in 1..m : value[i] \in Nat /\ more[i] \in Nat /\ value[i] <= more[i]
        PROVE  SumFunction(value) <= SumFunction(more)
    <2>1. IsFiniteSet(1..m) /\ AreNatural(value, 1..m) /\ AreNatural(more, 1..m)
      <3>1. IsFiniteSet(1..m)
        BY FS_Interval
      <3>2. AreNatural(value, 1..m) /\ AreNatural(more, 1..m)
        BY <1>6 DEF AreNatural
      <3> QED
        BY <3>1, <3>2
    <2>2. Sum(value, 1..m) <= Sum(more, 1..m)
      BY <1>6, <2>1, SumLess
    <2> QED
      BY <1>6, <2>2, SumIs
  <1>7. cashPayments(f) <= cashPayments(g)
    <2> DEFINE value == [i \in DOMAIN f.operations |-> f.operations[i].cash]
               more == [i \in DOMAIN g.operations |-> g.operations[i].cash]
    <2>1. /\ DOMAIN value = 1..m /\ DOMAIN more = 1..m
          /\ \A i \in 1..m : value[i] \in Nat /\ more[i] \in Nat /\ value[i] <= more[i]
      BY <1>2, <1>3, <1>4
    <2> HIDE DEF value, more
    <2>2. SumFunction(value) <= SumFunction(more)
      BY <1>6, <2>1
    <2> QED
      BY <2>2 DEF cashPayments, value, more
  <1>8. totalAmount(f) <= totalAmount(g)
    <2> DEFINE value == [i \in DOMAIN f.operations |-> f.operations[i].amount]
               more == [i \in DOMAIN g.operations |-> g.operations[i].amount]
    <2>1. /\ DOMAIN value = 1..m /\ DOMAIN more = 1..m
          /\ \A i \in 1..m : value[i] \in Nat /\ more[i] \in Nat /\ value[i] <= more[i]
      BY <1>2, <1>3, <1>4
    <2> HIDE DEF value, more
    <2>2. SumFunction(value) <= SumFunction(more)
      BY <1>6, <2>1
    <2> QED
      BY <2>2 DEF totalAmount, value, more
  <1>9. SumFunction([i \in DOMAIN f.operations |-> f.operations[i].payments])
          = SumFunction([i \in DOMAIN g.operations |-> g.operations[i].payments])
    <2>1. [i \in DOMAIN f.operations |-> f.operations[i].payments]
            = [i \in DOMAIN g.operations |-> g.operations[i].payments]
      BY <1>2, <1>3, <1>4
    <2> QED
      BY <2>1
  <1>10. Ops(f) = Ops(g) /\ Months(f) = Months(g)
    BY <1>1, <1>2, <1>3 DEF Ops, Months, Worse
  <1> QED
    BY <1>2, <1>3, <1>5, <1>7, <1>8, <1>9, <1>10

LEMMA WorseCash ==
    ASSUME NEW f, NEW g, WorseOf(f, g)
    PROVE  /\ CashScore(cashPayments(f), Ops(f)) <= CashScore(cashPayments(g), Ops(g))
           /\ LegacyCash(f) \in Nat /\ LegacyCash(g) \in Nat /\ LegacyCash(f) <= LegacyCash(g)
           /\ AmountScore(totalAmount(f)) <= AmountScore(totalAmount(g))
  <1>1. Known(f) /\ Known(g)
    BY DEF WorseOf
  <1>2. PICK c \in Nat, e \in Nat : c = cashPayments(f) /\ e = cashPayments(g) /\ c <= e
    BY <1>1, CountsTyped, WorseOperations
  <1>3. PICK d \in Nat \ {0} : d = Ops(f) /\ d = Ops(g)
    BY <1>1, FrequencyIs, WorseOperations
  <1>4. CashScore(c, d) <= CashScore(e, d)
    BY <1>2 DEF CashScore
  <1>5. PICK a \in Nat, b \in Nat : a = totalAmount(f) /\ b = totalAmount(g) /\ a <= b
    BY <1>1, CountsTyped, WorseOperations
  <1>6. AmountScore(a) <= AmountScore(b)
    BY <1>5 DEF AmountScore
  <1>7. PICK n \in Nat : n = totalOps(f) /\ n = totalOps(g)
    BY <1>1, CountsTyped, WorseOperations
  <1>8. LegacyCash(f) <= LegacyCash(g)
    <2>1. CASE n = 0
      BY <1>7, <2>1 DEF LegacyCash
    <2>2. CASE n # 0
      <3>1. PICK p \in Nat, q \in Nat : p = (900 * c) \div n /\ q = (900 * e) \div n /\ p <= q
        BY <1>2, <2>2, DivMore
      <3>2. LegacyCash(f) = AtMost(900, p) /\ LegacyCash(g) = AtMost(900, q)
        BY <1>2, <1>7, <2>2, <3>1 DEF LegacyCash
      <3>3. AtMost(900, p) <= AtMost(900, q)
        BY <3>1 DEF AtMost
      <3> QED
        BY <3>2, <3>3
    <2> QED
      BY <2>1, <2>2
  <1> QED
    BY <1>1, <1>2, <1>3, <1>4, <1>5, <1>6, <1>8, CashNear

LEMMA WorseClient ==
    ASSUME NEW f, NEW g, WorseOf(f, g)
    PROVE  SeedClient(f) <= SeedClient(g) /\ LegacyClient(f) <= LegacyClient(g)
  <1>1. Known(f) /\ Known(g)
    BY DEF WorseOf
  <1>2. PICK p \in Nat, q \in Nat : p = PepScore(f) /\ q = PepScore(g) /\ p <= q
    BY <1>1, ScoresTyped, WorseFacts DEF IsScore
  <1>3. PICK c \in Nat, d \in Nat : c = countryRisk(f) /\ d = countryRisk(g) /\ c <= d
    BY <1>1, ScoresTyped, WorseFacts DEF IsScore
  <1>4. PICK t \in Nat : t = PersonScore(f) /\ t = PersonScore(g)
    BY <1>1, ScoresTyped, WorseFacts DEF IsScore
  <1>5. PICK l \in Nat, m \in Nat : l = FoundScore(f) /\ m = FoundScore(g) /\ l <= m
    BY <1>1, ScoresTyped, WorseFacts DEF IsScore
  <1>6. PICK b \in Nat, e \in Nat : b = BcScore(f) /\ e = BcScore(g) /\ b <= e
    BY <1>1, ScoresTyped, WorseFacts DEF IsScore
  <1>7. PICK a \in Nat : a = AgeScore(f) /\ a = AgeScore(g)
    BY <1>1, ScoresTyped, WorseFacts DEF IsScore
  <1>8. PICK i \in Nat, j \in Nat : i = LegacyBc(f) /\ j = LegacyBc(g) /\ i <= j
    <2>1. f.bc \in Nat /\ g.bc \in Nat
      BY <1>1 DEF Known
    <2>2. LegacyBc(f) \in Nat /\ LegacyBc(g) \in Nat
      BY <2>1 DEF LegacyBc, AtMost
    <2> QED
      BY <2>2, WorseFacts
  <1>9. /\ SeedClient(f) = 25 * p + 15 * c + 10 * t + 25 * l + 10 * b + 15 * a
        /\ SeedClient(g) = 25 * q + 15 * d + 10 * t + 25 * m + 10 * e + 15 * a
        /\ LegacyClient(f) = 25 * p + 15 * c + 10 * t + 25 * l + 10 * i + 15 * a
        /\ LegacyClient(g) = 25 * q + 15 * d + 10 * t + 25 * m + 10 * j + 15 * a
    BY <1>2, <1>3, <1>4, <1>5, <1>6, <1>7, <1>8 DEF SeedClient, LegacyClient
  <1>10. /\ 25 * p + 15 * c + 10 * t + 25 * l + 10 * b + 15 * a
              <= 25 * q + 15 * d + 10 * t + 25 * m + 10 * e + 15 * a
         /\ 25 * p + 15 * c + 10 * t + 25 * l + 10 * i + 15 * a
              <= 25 * q + 15 * d + 10 * t + 25 * m + 10 * j + 15 * a
    BY <1>2, <1>3, <1>5, <1>6, <1>8
  <1> QED
    BY <1>9, <1>10

LEMMA WorseGeography ==
    ASSUME NEW f, NEW g, WorseOf(f, g)
    PROVE  SeedGeography(f) <= SeedGeography(g)
  <1>1. Known(f) /\ Known(g)
    BY DEF WorseOf
  <1>2. PICK b \in Nat, e \in Nat : b = BorderScore(f) /\ e = BorderScore(g) /\ b <= e
    BY <1>1, ScoresTyped, WorseFacts DEF IsScore
  <1>3. PICK c \in Nat, d \in Nat : c = countryRisk(f) /\ d = countryRisk(g) /\ c <= d
    BY <1>1, ScoresTyped, WorseFacts DEF IsScore
  <1>4. PICK s \in Nat : s = StateRisk
    BY <1>1, ScoresTyped DEF IsScore
  <1>5. /\ SeedGeography(f) = 30 * s + 25 * 300 + 25 * b + 20 * c
        /\ SeedGeography(g) = 30 * s + 25 * 300 + 25 * e + 20 * d
    BY <1>2, <1>3, <1>4 DEF SeedGeography
  <1> QED
    BY <1>2, <1>3, <1>5

LEMMA WorseProduct ==
    ASSUME NEW f, NEW g, WorseOf(f, g)
    PROVE  SeedProduct(f) = SeedProduct(g) /\ LegacyProduct(f) = LegacyProduct(g)
  BY WorseOperations DEF SeedProduct, LegacyProduct, LegacyCodes

LEMMA WorseTransaction ==
    ASSUME NEW f, NEW g, WorseOf(f, g)
    PROVE  SeedTransaction(f) <= SeedTransaction(g) /\ LegacyTransaction(f) <= LegacyTransaction(g)
  <1>1. Known(f) /\ Known(g)
    BY DEF WorseOf
  <1>2. PICK c \in Nat, d \in Nat : /\ c = CashScore(cashPayments(f), Ops(f))
                                    /\ d = CashScore(cashPayments(g), Ops(g)) /\ c <= d
    BY <1>1, ScoresTyped, WorseCash DEF IsScore
  <1>3. PICK i \in Nat, j \in Nat : i = LegacyCash(f) /\ j = LegacyCash(g) /\ i <= j
    BY WorseCash
  <1>4. PICK n \in Nat : /\ n = FrequencyScore(totalOps(f), Months(f))
                         /\ n = FrequencyScore(totalOps(g), Months(g))
    <2>1. FrequencyScore(totalOps(f), Months(f)) \in Nat
      BY <1>1, ScoresTyped DEF IsScore
    <2>2. totalOps(f) = totalOps(g) /\ Months(f) = Months(g)
      BY WorseOperations
    <2>3. FrequencyScore(totalOps(f), Months(f)) = FrequencyScore(totalOps(g), Months(g))
      BY ONLY <2>2, Zenon
    <2> QED
      BY ONLY <2>1, <2>3
  <1>5. PICK a \in Nat, b \in Nat : /\ a = AmountScore(totalAmount(f))
                                    /\ b = AmountScore(totalAmount(g)) /\ a <= b
    BY <1>1, ScoresTyped, WorseCash DEF IsScore
  <1>6. /\ SeedTransaction(f) = 25 * c + 15 * n + 15 * a
        /\ SeedTransaction(g) = 25 * d + 15 * n + 15 * b
        /\ LegacyTransaction(f) = 25 * i + 15 * n + 15 * a
        /\ LegacyTransaction(g) = 25 * j + 15 * n + 15 * b
    BY <1>2, <1>3, <1>4, <1>5 DEF SeedTransaction, LegacyTransaction
  <1> QED
    BY <1>2, <1>3, <1>5, <1>6

\* What takes from the risk does not take more.
LEMMA WorseMitigants ==
    ASSUME NEW f, NEW g, WorseOf(f, g)
    PROVE  mitigantEffect(g) <= mitigantEffect(f)
  <1>1. /\ f.kyc \in BOOLEAN /\ g.kyc \in BOOLEAN /\ f.docs \in BOOLEAN /\ g.docs \in BOOLEAN
        /\ (g.kyc => f.kyc) /\ (g.docs => f.docs) /\ g.months = f.months /\ f.months \in Nat
    BY DEF WorseOf, Known, Worse
  <1> DEFINE age == CASE f.months > 24 -> 60 [] f.months \in 13..24 -> 30 [] f.months < 13 -> 0
             Effect(h) == 30 * (IF h.kyc THEN 100 ELSE -50) + 25 * (IF h.docs THEN 80 ELSE 0)
  <1>2. mitigantEffect(f) = Effect(f) + 20 * age
    BY Zenon DEF mitigantEffect
  <1>3. mitigantEffect(g) = Effect(g) + 20 * age
    BY <1>1, Zenon DEF mitigantEffect
  <1>4. PICK m \in Int : m = age
    <2>1. PICK k \in Nat : k = f.months
      BY <1>1
    <2>2. CASE k > 24
      BY <2>1, <2>2
    <2>3. CASE k \in 13..24
      BY <2>1, <2>3
    <2>4. CASE k < 13
      BY <2>1, <2>4
    <2> QED
      BY <2>1, <2>2, <2>3, <2>4
  <1> HIDE DEF age
  <1>5. Effect(g) <= Effect(f) /\ Effect(f) \in Int /\ Effect(g) \in Int
    BY <1>1
  <1> HIDE DEF Effect
  <1> QED
    BY <1>2, <1>3, <1>4, <1>5

LEMMA ClampMore ==
    ASSUME NEW m \in Int, NEW n \in Int, m <= n
    PROVE  clampScore(m) <= clampScore(n)
  BY DEF clampScore, AtLeast, AtMost

LEMMA ResidualMore ==
    ASSUME NEW f, NEW g, WorseOf(f, g), NEW m \in Int, NEW n \in Int, m <= n
    PROVE  Residual(f, m) <= Residual(g, n)
  <1>1. PICK d \in Int, e \in Int : d = mitigantEffect(f) /\ e = mitigantEffect(g) /\ e <= d
    BY MitigantsTyped, WorseMitigants DEF WorseOf
  <1>2. PICK x \in Nat, y \in Nat : x = clampScore(m) /\ y = clampScore(n) /\ x <= y
    BY ClampTyped, ClampMore DEF IsTotal
  <1>3. clampScore(x - 100 * d) <= clampScore(y - 100 * e)
    BY <1>1, <1>2, ClampMore
  <1> QED
    BY <1>1, <1>2, <1>3 DEF Residual

LEMMA WorseScores ==
    ASSUME NEW f, NEW g, WorseOf(f, g)
    PROVE  SeedScore(f) <= SeedScore(g) /\ calculateLegacy(f) <= calculateLegacy(g)
  <1>1. Known(f) /\ Known(g)
    BY DEF WorseOf
  <1>2. PICK a \in Nat, b \in Nat : a = SeedGeography(f) /\ b = SeedGeography(g) /\ a <= b
    BY <1>1, SeedGeographyIs, WorseGeography
  <1>3. SeedInherent(f) <= SeedInherent(g)
    <2>1. PICK c \in Nat, d \in Nat : c = SeedClient(f) /\ d = SeedClient(g) /\ c <= d
      BY <1>1, SeedClientIs, WorseClient
    <2>2. PICK p \in Nat : p = SeedProduct(f) /\ p = SeedProduct(g)
      BY <1>1, SeedProductIs, WorseProduct
    <2>3. PICK t \in Nat, u \in Nat : t = SeedTransaction(f) /\ u = SeedTransaction(g) /\ t <= u
      BY <1>1, SeedTransactionIs, WorseTransaction
    <2>4. /\ SeedInherent(f) = 30 * c + 20 * a + 25 * p + 25 * t
          /\ SeedInherent(g) = 30 * d + 20 * b + 25 * p + 25 * u
      BY <1>2, <2>1, <2>2, <2>3 DEF SeedInherent
    <2> QED
      BY <1>2, <2>1, <2>3, <2>4
  <1>4. LegacyInherent(f) <= LegacyInherent(g)
    <2>1. PICK c \in Nat, d \in Nat : c = LegacyClient(f) /\ d = LegacyClient(g) /\ c <= d
      BY <1>1, LegacyTyped, WorseClient
    <2>2. PICK p \in Nat : p = LegacyProduct(f) /\ p = LegacyProduct(g)
      BY <1>1, LegacyTyped, WorseProduct
    <2>3. PICK t \in Nat, u \in Nat : t = LegacyTransaction(f) /\ u = LegacyTransaction(g) /\ t <= u
      BY <1>1, LegacyTyped, WorseTransaction
    <2>4. /\ LegacyInherent(f) = 30 * c + 20 * a + 25 * p + 25 * t
          /\ LegacyInherent(g) = 30 * d + 20 * b + 25 * p + 25 * u
      BY <1>2, <2>1, <2>2, <2>3 DEF LegacyInherent
    <2> QED
      BY <1>2, <2>1, <2>3, <2>4
  <1>5. /\ SeedInherent(f) \in Int /\ SeedInherent(g) \in Int
        /\ LegacyInherent(f) \in Int /\ LegacyInherent(g) \in Int
    BY <1>1, SeedTyped, InherentNear
  <1> QED
    BY <1>1, <1>3, <1>4, <1>5, ResidualMore, LegacyIs DEF SeedScore

-----------------------------------------------------------------------------
(* What is worse of a client, and how the client is watched.               *)

LEMMA RankMore ==
    ASSUME NEW m \in Nat, NEW n \in Nat, m <= n
    PROVE  Rank(m) \in 1..4 /\ Rank(n) \in 1..4 /\ Rank(m) <= Rank(n)
  BY DEF Rank

LEMMA MaxIs ==
    ASSUME NEW S, S \subseteq Int, NEW m \in S, \A n \in S : n <= m
    PROVE  Max(S) = m
  <1>1. Max(S) \in S /\ \A n \in S : Max(S) >= n
    BY DEF Max
  <1>2. PICK k \in Int : k = Max(S) /\ k >= m /\ k <= m
    BY <1>1
  <1> QED
    BY <1>2

LevelNames == <<"LOW", "MEDIUM_LOW", "MEDIUM", "HIGH">>
Higher(r, q) == IF r <= q THEN q ELSE r

\* How closely a client of a rank is watched.
Watch(r) == IF r = 1 THEN 1 ELSE IF r = 4 THEN 3 ELSE 2

LEMMA NamesAre ==
    /\ DOMAIN LevelNames = 1..4
    /\ LevelNames[1] = "LOW" /\ LevelNames[2] = "MEDIUM_LOW"
    /\ LevelNames[3] = "MEDIUM" /\ LevelNames[4] = "HIGH"
    /\ \A r \in 1..4 : Seed.thresholds[r].riskLevel = LevelNames[r]
    /\ \A r, q \in 1..4 : LevelNames[r] = LevelNames[q] => r = q
    /\ \A r \in 1..4 : DDRank(riskLevelToDDLevel(LevelNames[r])) = Watch(r)
  <1>1. /\ DOMAIN LevelNames = 1..4
        /\ LevelNames[1] = "LOW" /\ LevelNames[2] = "MEDIUM_LOW"
        /\ LevelNames[3] = "MEDIUM" /\ LevelNames[4] = "HIGH"
    BY DEF LevelNames
  <1>2. \A r \in 1..4 : r = 1 \/ r = 2 \/ r = 3 \/ r = 4
    OBVIOUS
  <1>3. \A r \in 1..4 : Seed.thresholds[r].riskLevel = LevelNames[r]
    <2> DEFINE t == Seed.thresholds
    <2>1. /\ t[1].riskLevel = "LOW" /\ t[2].riskLevel = "MEDIUM_LOW"
          /\ t[3].riskLevel = "MEDIUM" /\ t[4].riskLevel = "HIGH"
      BY DEF Seed, Threshold
    <2> HIDE DEF t
    <2>2. \A r \in 1..4 : t[r].riskLevel = LevelNames[r]
      BY <1>1, <1>2, <2>1
    <2> QED
      BY <2>2 DEF t
  <1>4. \A r, q \in 1..4 : LevelNames[r] = LevelNames[q] => r = q
    BY <1>1, <1>2
  <1>5. \A r \in 1..4 : DDRank(riskLevelToDDLevel(LevelNames[r])) = Watch(r)
    <2>1. /\ riskLevelToDDLevel("LOW") = "SIMPLIFIED" /\ riskLevelToDDLevel("MEDIUM_LOW") = "STANDARD"
          /\ riskLevelToDDLevel("MEDIUM") = "STANDARD" /\ riskLevelToDDLevel("HIGH") = "ENHANCED"
      BY DEF riskLevelToDDLevel
    <2>2. DDRank("SIMPLIFIED") = 1 /\ DDRank("STANDARD") = 2 /\ DDRank("ENHANCED") = 3
      BY DEF DDRank
    <2>3. Watch(1) = 1 /\ Watch(2) = 2 /\ Watch(3) = 2 /\ Watch(4) = 3
      BY DEF Watch
    <2> QED
      BY <1>1, <1>2, <2>1, <2>2, <2>3
  <1> QED
    BY <1>1, <1>3, <1>4, <1>5

\* Of two ranks the higher one counts.
LEMMA HigherCounts ==
    ASSUME NEW r \in 1..4, NEW q \in 1..4
    PROVE  DDRank(riskLevelToDDLevel(maxRiskLevel({LevelNames[r], LevelNames[q]})))
             = Watch(Higher(r, q))
  <1> DEFINE named == {i \in DOMAIN LevelNames : LevelNames[i] \in {LevelNames[r], LevelNames[q]}}
  <1>1. named = {r, q}
    BY NamesAre
  <1>2. PICK h \in 1..4 : h = Higher(r, q) /\ h \in {r, q} /\ \A n \in {r, q} : n <= h
    BY DEF Higher
  <1>3. {r, q} \subseteq Int
    OBVIOUS
  <1>4. Max(named) = h
    BY <1>1, <1>2, <1>3, MaxIs
  <1>5. maxRiskLevel({LevelNames[r], LevelNames[q]}) = LevelNames[Max(named)]
    BY DEF maxRiskLevel, LevelNames
  <1> QED
    BY <1>2, <1>4, <1>5, NamesAre

\* The levels of the elements of which the profile is made.
Named(c, g, p, t) ==
    [CLIENTS |-> LevelNames[c], GEOGRAPHY |-> LevelNames[g], PRODUCTS |-> LevelNames[p],
     TRANSACTIONS |-> LevelNames[t]]

WatchedAs(profile, o, c, g, t, pep) ==
    /\ DOMAIN profile = {"overall", "acceptance", "ongoingMonitoring", "reviewFrequency",
                         "reporting"}
    /\ DDRank(profile.overall) = Watch(o)
    /\ DDRank(profile.acceptance) = Watch(Higher(o, c))
    /\ DDRank(profile.ongoingMonitoring) = IF pep \/ g = 4 THEN 3 ELSE Watch(Higher(o, t))
    /\ DDRank(profile.reviewFrequency) = Watch(Higher(g, t))
    /\ DDRank(profile.reporting) = Watch(o)

LEMMA ProfileIs ==
    ASSUME NEW o \in 1..4, NEW c \in 1..4, NEW g \in 1..4, NEW p \in 1..4, NEW t \in 1..4, NEW pep
    PROVE  WatchedAs(buildDDProfile(LevelNames[o], Named(c, g, p, t), pep), o, c, g, t, pep)
  <1> DEFINE DD(levels) == riskLevelToDDLevel(maxRiskLevel(levels))
             element == Named(c, g, p, t)
             profile == buildDDProfile(LevelNames[o], element, pep)
  <1>1. /\ element.CLIENTS = LevelNames[c] /\ element.GEOGRAPHY = LevelNames[g]
        /\ element.TRANSACTIONS = LevelNames[t]
    BY DEF Named
  <1>2. DDRank(DD({LevelNames[o]})) = Watch(o)
    <2>1. {LevelNames[o]} = {LevelNames[o], LevelNames[o]}
      OBVIOUS
    <2>2. Higher(o, o) = o
      BY DEF Higher
    <2> QED
      BY ONLY <2>1, <2>2, HigherCounts, o \in 1..4
  <1>3. /\ DDRank(DD({LevelNames[o], LevelNames[c]})) = Watch(Higher(o, c))
        /\ DDRank(DD({LevelNames[o], LevelNames[t]})) = Watch(Higher(o, t))
        /\ DDRank(DD({LevelNames[g], LevelNames[t]})) = Watch(Higher(g, t))
    BY HigherCounts
  <1>4. LevelNames[g] = "HIGH" <=> g = 4
    BY NamesAre
  <1>5. DDRank("ENHANCED") = 3
    BY DEF DDRank
  <1> HIDE DEF element
  <1>6. profile = [overall |-> DD({LevelNames[o]}),
                   acceptance |-> DD({LevelNames[o], element.CLIENTS}),
                   ongoingMonitoring |->
                     IF pep \/ element.GEOGRAPHY = "HIGH" THEN "ENHANCED"
                     ELSE DD({LevelNames[o], element.TRANSACTIONS}),
                   reviewFrequency |-> DD({element.GEOGRAPHY, element.TRANSACTIONS}),
                   reporting |-> DD({LevelNames[o]})]
    BY Zenon DEF buildDDProfile
  <1> HIDE DEF DD, profile
  <1>7. /\ DOMAIN profile = {"overall", "acceptance", "ongoingMonitoring", "reviewFrequency",
                             "reporting"}
        /\ DDRank(profile.overall) = Watch(o)
        /\ DDRank(profile.acceptance) = Watch(Higher(o, c))
        /\ DDRank(profile.ongoingMonitoring) = IF pep \/ g = 4 THEN 3 ELSE Watch(Higher(o, t))
        /\ DDRank(profile.reviewFrequency) = Watch(Higher(g, t))
        /\ DDRank(profile.reporting) = Watch(o)
    BY <1>1, <1>2, <1>3, <1>4, <1>5, <1>6
  <1> QED
    BY <1>7 DEF profile, element, WatchedAs

LEMMA RankTyped == \A n : IsTotal(n) => Rank(n) \in 1..4
  BY DEF IsTotal, Rank

LEMMA ProfileOf ==
    ASSUME NEW f, Known(f)
    PROVE  calculateWithMethodology(Seed, f).ddProfile
             = buildDDProfile(LevelNames[Rank(SeedScore(f))],
                 Named(Rank(100 * SeedClient(f)), Rank(100 * SeedGeography(f)),
                       Rank(100 * SeedProduct(f)), Rank(100 * SeedTransaction(f))), f.pep)
  <1> DEFINE L(r) == Seed.thresholds[r].riskLevel
  <1>1. /\ Rank(SeedScore(f)) \in 1..4
        /\ Rank(100 * SeedClient(f)) \in 1..4 /\ Rank(100 * SeedGeography(f)) \in 1..4
        /\ Rank(100 * SeedProduct(f)) \in 1..4 /\ Rank(100 * SeedTransaction(f)) \in 1..4
    BY SeedTyped, RankTyped
  <1>2. \A r \in 1..4 : L(r) = LevelNames[r]
    BY NamesAre
  <1>3. calculateWithMethodology(Seed, f).ddProfile
          = buildDDProfile(L(Rank(SeedScore(f))),
              [CLIENTS |-> L(Rank(100 * SeedClient(f))),
               GEOGRAPHY |-> L(Rank(100 * SeedGeography(f))),
               PRODUCTS |-> L(Rank(100 * SeedProduct(f))),
               TRANSACTIONS |-> L(Rank(100 * SeedTransaction(f)))], f.pep)
    BY SeedIs
  <1> HIDE DEF L
  <1>4. /\ L(Rank(SeedScore(f))) = LevelNames[Rank(SeedScore(f))]
        /\ L(Rank(100 * SeedClient(f))) = LevelNames[Rank(100 * SeedClient(f))]
        /\ L(Rank(100 * SeedGeography(f))) = LevelNames[Rank(100 * SeedGeography(f))]
        /\ L(Rank(100 * SeedProduct(f))) = LevelNames[Rank(100 * SeedProduct(f))]
        /\ L(Rank(100 * SeedTransaction(f))) = LevelNames[Rank(100 * SeedTransaction(f))]
    BY ONLY <1>1, <1>2
  <1> QED
    BY ONLY <1>3, <1>4, Zenon DEF Named

\* With no rank lower, no part of the profile is watched less.
LEMMA WatchMore ==
    ASSUME NEW o \in 1..4, NEW q \in 1..4, o <= q, NEW r \in 1..4, NEW s \in 1..4, r <= s
    PROVE  Watch(o) <= Watch(q) /\ Watch(Higher(o, r)) <= Watch(Higher(q, s))
  BY DEF Watch, Higher

LEMMA WatchTyped == \A o, r \in 1..4 : Watch(o) \in 1..3 /\ Watch(Higher(o, r)) \in 1..3
  BY DEF Watch, Higher

LEMMA WorseWatched ==
    ASSUME NEW f, NEW g, WorseOf(f, g)
    PROVE  LET old == calculateWithMethodology(Seed, f)
               new == calculateWithMethodology(Seed, g)
           IN  /\ new.nextReviewMonths <= old.nextReviewMonths
               /\ \A k \in DOMAIN old.ddProfile :
                    DDRank(new.ddProfile[k]) >= DDRank(old.ddProfile[k])
  <1> DEFINE old == calculateWithMethodology(Seed, f)
             new == calculateWithMethodology(Seed, g)
  <1>1. Known(f) /\ Known(g)
    BY DEF WorseOf
  <1>2. ASSUME NEW m, NEW n, IsTotal(m), IsTotal(n), m <= n
        PROVE  Rank(m) \in 1..4 /\ Rank(n) \in 1..4 /\ Rank(m) <= Rank(n)
    BY <1>2, RankMore DEF IsTotal
  <1>3. PICK o \in 1..4, q \in 1..4 : o = Rank(SeedScore(f)) /\ q = Rank(SeedScore(g)) /\ o <= q
    BY <1>1, <1>2, SeedTyped, WorseScores
  <1>4. PICK c \in 1..4, d \in 1..4 : /\ c = Rank(100 * SeedClient(f))
                                      /\ d = Rank(100 * SeedClient(g)) /\ c <= d
    <2>1. 100 * SeedClient(f) <= 100 * SeedClient(g)
      BY <1>1, WorseClient, SeedClientIs
    <2> QED
      BY <1>1, <1>2, <2>1, SeedTyped
  <1>5. PICK x \in 1..4, y \in 1..4 : /\ x = Rank(100 * SeedGeography(f))
                                      /\ y = Rank(100 * SeedGeography(g)) /\ x <= y
    <2>1. 100 * SeedGeography(f) <= 100 * SeedGeography(g)
      BY <1>1, WorseGeography, SeedGeographyIs
    <2> QED
      BY <1>1, <1>2, <2>1, SeedTyped
  <1>6. PICK p \in 1..4 : p = Rank(100 * SeedProduct(f)) /\ p = Rank(100 * SeedProduct(g))
    BY <1>1, RankTyped, SeedTyped, WorseProduct
  <1>7. PICK t \in 1..4, u \in 1..4 : /\ t = Rank(100 * SeedTransaction(f))
                                      /\ u = Rank(100 * SeedTransaction(g)) /\ t <= u
    <2>1. 100 * SeedTransaction(f) <= 100 * SeedTransaction(g)
      BY <1>1, WorseTransaction, SeedTransactionIs
    <2> QED
      BY <1>1, <1>2, <2>1, SeedTyped
  <1>8. new.nextReviewMonths <= old.nextReviewMonths
    <2> DEFINE months == [r \in 1..4 |-> IF r = 1 THEN 12 ELSE IF r = 2 THEN 6
                                         ELSE IF r = 3 THEN 3 ELSE 1]
    <2>1. \A r \in 1..4 : Seed.thresholds[r].reviewMonths = months[r]
      <3> DEFINE v == Seed.thresholds
      <3>1. /\ v[1].reviewMonths = 12 /\ v[2].reviewMonths = 6
            /\ v[3].reviewMonths = 3 /\ v[4].reviewMonths = 1
        BY DEF Seed, Threshold
      <3> HIDE DEF v
      <3>2. \A r \in 1..4 : v[r].reviewMonths = months[r]
        <4>1. \A r \in 1..4 : r = 1 \/ r = 2 \/ r = 3 \/ r = 4
          OBVIOUS
        <4> QED
          BY <3>1, <4>1
      <3> QED
        BY <3>2 DEF v
    <2>2. /\ old.nextReviewMonths = Seed.thresholds[o].reviewMonths
          /\ new.nextReviewMonths = Seed.thresholds[q].reviewMonths
      BY <1>1, <1>3, SeedIs
    <2>3. months[q] <= months[o]
      BY <1>3
    <2> HIDE DEF months, old, new
    <2> QED
      BY <2>1, <2>2, <2>3
  <1>9. \A k \in DOMAIN old.ddProfile : DDRank(new.ddProfile[k]) >= DDRank(old.ddProfile[k])
    <2> DEFINE before == buildDDProfile(LevelNames[o], Named(c, x, p, t), f.pep)
               after == buildDDProfile(LevelNames[q], Named(d, y, p, u), g.pep)
    <2>1. old.ddProfile = before /\ new.ddProfile = after
      <3>1. old.ddProfile = before
        BY <1>1, <1>3, <1>4, <1>5, <1>6, <1>7, ProfileOf, Zenon
      <3>2. new.ddProfile = after
        BY <1>1, <1>3, <1>4, <1>5, <1>6, <1>7, ProfileOf, Zenon
      <3> QED
        BY <3>1, <3>2
    <2>11. WatchedAs(before, o, c, x, t, f.pep) /\ WatchedAs(after, q, d, y, u, g.pep)
      BY ProfileIs
    <2> HIDE DEF before, after
    <2>2. /\ DOMAIN before = {"overall", "acceptance", "ongoingMonitoring", "reviewFrequency",
                              "reporting"}
          /\ DDRank(before.overall) = Watch(o)
          /\ DDRank(before.acceptance) = Watch(Higher(o, c))
          /\ DDRank(before.ongoingMonitoring)
               = IF f.pep \/ x = 4 THEN 3 ELSE Watch(Higher(o, t))
          /\ DDRank(before.reviewFrequency) = Watch(Higher(x, t))
          /\ DDRank(before.reporting) = Watch(o)
      BY <2>11 DEF WatchedAs
    <2>3. /\ DDRank(after.overall) = Watch(q)
          /\ DDRank(after.acceptance) = Watch(Higher(q, d))
          /\ DDRank(after.ongoingMonitoring)
               = IF g.pep \/ y = 4 THEN 3 ELSE Watch(Higher(q, u))
          /\ DDRank(after.reviewFrequency) = Watch(Higher(y, u))
          /\ DDRank(after.reporting) = Watch(q)
      BY <2>11 DEF WatchedAs
    <2>4. /\ Watch(o) <= Watch(q) /\ Watch(Higher(o, c)) <= Watch(Higher(q, d))
          /\ Watch(Higher(o, t)) <= Watch(Higher(q, u))
          /\ Watch(Higher(x, t)) <= Watch(Higher(y, u))
      BY <1>3, <1>4, <1>5, <1>7, WatchMore
    <2>5. /\ Watch(o) \in 1..3 /\ Watch(q) \in 1..3
          /\ Watch(Higher(o, c)) \in 1..3 /\ Watch(Higher(q, d)) \in 1..3
          /\ Watch(Higher(o, t)) \in 1..3 /\ Watch(Higher(q, u)) \in 1..3
          /\ Watch(Higher(x, t)) \in 1..3 /\ Watch(Higher(y, u)) \in 1..3
      BY WatchTyped
    <2>6. (f.pep => g.pep) /\ (x = 4 => y = 4) /\ f.pep \in BOOLEAN /\ g.pep \in BOOLEAN
      BY <1>5 DEF WorseOf, Worse, Known
    <2>7. DDRank(after.overall) >= DDRank(before.overall)
          /\ DDRank(after.acceptance) >= DDRank(before.acceptance)
          /\ DDRank(after.reviewFrequency) >= DDRank(before.reviewFrequency)
          /\ DDRank(after.reporting) >= DDRank(before.reporting)
      BY <2>2, <2>3, <2>4, <2>5
    <2>8. DDRank(after.ongoingMonitoring) >= DDRank(before.ongoingMonitoring)
      BY <2>2, <2>3, <2>4, <2>5, <2>6
    <2>9. \A k \in DOMAIN before : DDRank(after[k]) >= DDRank(before[k])
      BY <2>2, <2>7, <2>8
    <2> QED
      BY ONLY <2>1, <2>9
  <1> QED
    BY ONLY <1>8, <1>9

-----------------------------------------------------------------------------
(* What is worse of a client, and the organization.                        *)

\* The counts n have no less than the counts m of what adds to the risk, and no more of what
\* takes from it.
Grown(m, n) ==
    /\ \A k \in Counts : m[k] \in Nat /\ n[k] \in Nat
    /\ m.clients \in Nat \ {0} /\ n.clients = m.clients
    /\ m.pep <= n.pep /\ m.highRisk <= n.highRisk /\ m.controllers <= n.controllers
    /\ m.cash <= n.cash /\ n.complete <= m.complete
    /\ n.moralOrTrust = m.moralOrTrust /\ n.new = m.new /\ n.screened = m.screened
    /\ n.payments = m.payments

\* Of what is on record of a client, what counts.
Payments(f) == SumFunction([i \in DOMAIN f.operations |-> f.operations[i].payments])
Mine(f) ==
    [clients |-> 1,
     pep |-> IF f.pep THEN 1 ELSE 0,
     highRisk |-> IF f.country \in HighRiskNationality THEN 1 ELSE 0,
     moralOrTrust |-> IF f.person = "PHYSICAL" THEN 0 ELSE 1,
     new |-> IF f.months < 6 THEN 1 ELSE 0,
     controllers |-> f.bc,
     complete |-> IF f.kyc THEN 1 ELSE 0,
     screened |-> IF f.listed = "pending" THEN 0 ELSE 1,
     cash |-> cashPayments(f),
     payments |-> Payments(f)]

LEMMA PaymentsTyped ==
    ASSUME NEW f, Known(f)
    PROVE  Payments(f) \in Nat
  BY CountsTyped DEF Payments

LEMMA MineTyped ==
    ASSUME NEW f, Known(f)
    PROVE  \A k \in Counts : Mine(f)[k] \in Nat
  <1>1. /\ f.bc \in Nat /\ cashPayments(f) \in Nat /\ Payments(f) \in Nat
    BY CountsTyped, PaymentsTyped DEF Known
  <1> QED
    BY <1>1 DEF Mine, Counts

LEMMA OrgGrown ==
    ASSUME NEW f, NEW g, WorseOf(f, g)
    PROVE  Grown(OrgCounts(f), OrgCounts(g))
  <1>1. Known(f) /\ Known(g) /\ Worse(f, g) /\ g.person = f.person
    BY DEF WorseOf
  <1>2. \A k \in Counts : Mine(f)[k] \in Nat /\ Mine(g)[k] \in Nat
    BY <1>1, MineTyped
  <1>3. \A k \in Counts : Others[k] \in Nat
    BY RiskScoringAssumption
  <1>4. /\ \A k \in Counts : OrgCounts(f)[k] = Mine(f)[k] + Others[k]
        /\ \A k \in Counts : OrgCounts(g)[k] = Mine(g)[k] + Others[k]
    BY Zenon DEF OrgCounts, Mine, Payments
  <1>5. Mine(f).clients = 1 /\ Mine(g).clients = 1
    BY DEF Mine
  <1>6. Mine(f).pep <= Mine(g).pep /\ Mine(g).complete <= Mine(f).complete
    BY <1>1 DEF Mine, Worse, Known
  <1>7. Mine(f).highRisk <= Mine(g).highRisk
    BY <1>1 DEF Mine, Worse
  <1>8. Mine(f).controllers <= Mine(g).controllers
    BY <1>1 DEF Mine, Worse, Known
  <1>9. Mine(g).moralOrTrust = Mine(f).moralOrTrust /\ Mine(g).new = Mine(f).new
    BY <1>1 DEF Mine, Worse
  <1>10. Mine(f).cash <= Mine(g).cash /\ Mine(g).payments = Mine(f).payments
    BY WorseOperations DEF Mine, Payments
  <1>11. Mine(g).screened = Mine(f).screened
    <2>1. f.listed = "pending" <=> g.listed = "pending"
      <3>1. \A i \in DOMAIN Findings : Findings[i] # "pending"
        BY FindingsAre
      <3> QED
        BY <1>1, <3>1 DEF Worse
    <2> QED
      BY <2>1 DEF Mine
  <1>12. /\ "clients" \in Counts /\ "pep" \in Counts /\ "highRisk" \in Counts
         /\ "moralOrTrust" \in Counts /\ "new" \in Counts /\ "controllers" \in Counts
         /\ "complete" \in Counts /\ "screened" \in Counts /\ "cash" \in Counts
         /\ "payments" \in Counts
    BY DEF Counts
  <1> QED
    BY <1>2, <1>3, <1>4, <1>5, <1>6, <1>7, <1>8, <1>9, <1>10, <1>11, <1>12 DEF Grown

LEMMA ShareMore ==
    ASSUME NEW a \in Nat, NEW b \in Nat, a <= b, NEW d \in Nat
    PROVE  Share(a, d) \in Nat /\ Share(b, d) \in Nat /\ Share(a, d) <= Share(b, d)
  <1>1. PICK e \in Nat \ {0} : e = AtLeast(1, d)
    BY DEF AtLeast
  <1>2. /\ (900 * a) \div e \in Nat /\ (900 * b) \div e \in Nat
        /\ (900 * a) \div e <= (900 * b) \div e
    BY DivMore
  <1> QED
    BY <1>1, <1>2 DEF Share

LEMMA MitigantMore ==
    ASSUME NEW k \in Nat, NEW a \in Nat, NEW b \in Nat, a <= b, NEW d \in Nat \ {0}
    PROVE  Mitigant(k, a, d) \in Int /\ Mitigant(k, b, d) \in Int /\ Mitigant(k, a, d) <= Mitigant(k, b, d)
  <1>1. PICK x \in Nat, y \in Nat : x = (k * a) \div d /\ y = (k * b) \div d /\ x <= y
    BY DivMore
  <1>2. PICK h \in Nat : h = k \div 2
    OBVIOUS
  <1> QED
    BY <1>1, <1>2 DEF Mitigant

LEMMA OrgElements ==
    ASSUME NEW m, NEW n, Grown(m, n)
    PROVE  /\ evaluateClientElement(m) \in Nat /\ evaluateClientElement(n) \in Nat
           /\ evaluateClientElement(m) <= evaluateClientElement(n)
           /\ evaluateProductElement(m) \in Nat /\ evaluateProductElement(n) \in Nat
           /\ evaluateProductElement(m) <= evaluateProductElement(n)
           /\ evaluateTransactionElement(m) \in Nat /\ evaluateTransactionElement(n) \in Nat
           /\ evaluateTransactionElement(m) <= evaluateTransactionElement(n)
  <1>1. /\ m.clients \in Nat \ {0} /\ m.clients \in Nat /\ n.clients = m.clients
        /\ n.payments = m.payments /\ m.payments \in Nat
        /\ m.pep \in Nat /\ n.pep \in Nat /\ m.pep <= n.pep
        /\ m.highRisk \in Nat /\ n.highRisk \in Nat /\ m.highRisk <= n.highRisk
        /\ m.controllers \in Nat /\ n.controllers \in Nat /\ m.controllers <= n.controllers
        /\ m.cash \in Nat /\ n.cash \in Nat /\ m.cash <= n.cash
        /\ m.moralOrTrust \in Nat /\ n.moralOrTrust = m.moralOrTrust
        /\ m.new \in Nat /\ n.new = m.new
    BY DEF Grown, Counts
  <1>2. PICK a \in Nat, b \in Nat : /\ a = Share(m.pep, m.clients)
                                    /\ b = Share(n.pep, n.clients) /\ a <= b
    <2>1. PICK x \in Nat, y \in Nat, z \in Nat :
            x = m.pep /\ y = n.pep /\ x <= y /\ z = m.clients /\ z = n.clients
      BY <1>1
    <2>2. Share(x, z) \in Nat /\ Share(y, z) \in Nat /\ Share(x, z) <= Share(y, z)
      BY <2>1, ShareMore
    <2> QED
      BY <2>1, <2>2
  <1>3. PICK c \in Nat, d \in Nat : /\ c = Share(m.highRisk, m.clients)
                                    /\ d = Share(n.highRisk, n.clients) /\ c <= d
    <2>1. PICK x \in Nat, y \in Nat, z \in Nat :
            x = m.highRisk /\ y = n.highRisk /\ x <= y /\ z = m.clients /\ z = n.clients
      BY <1>1
    <2>2. Share(x, z) \in Nat /\ Share(y, z) \in Nat /\ Share(x, z) <= Share(y, z)
      BY <2>1, ShareMore
    <2> QED
      BY <2>1, <2>2
  <1>4. PICK e \in Nat : e = Share(m.moralOrTrust, m.clients) /\ e = Share(n.moralOrTrust, n.clients)
    <2>1. PICK x \in Nat, z \in Nat : x = m.moralOrTrust /\ x = n.moralOrTrust /\ z = m.clients /\ z = n.clients
      BY <1>1
    <2>2. Share(x, z) \in Nat
      BY ShareMore
    <2> QED
      BY <2>1, <2>2
  <1>5. PICK h \in Nat : h = Share(m.new, m.clients) /\ h = Share(n.new, n.clients)
    <2>1. PICK x \in Nat, z \in Nat : x = m.new /\ x = n.new /\ z = m.clients /\ z = n.clients
      BY <1>1
    <2>2. Share(x, z) \in Nat
      BY ShareMore
    <2> QED
      BY <2>1, <2>2
  <1>6. PICK i \in Nat, j \in Nat : /\ i = AtMost(900, (250 * m.controllers) \div m.clients)
                                    /\ j = AtMost(900, (250 * n.controllers) \div n.clients) /\ i <= j
    <2>4. PICK z \in Nat \ {0} : z = m.clients /\ z = n.clients
      <3>1. m.clients \in Nat \ {0} /\ m.clients = n.clients
        BY ONLY <1>1
      <3> QED
        BY ONLY <3>1, Zenon
    <2>1. PICK u \in Nat, v \in Nat : u = m.controllers /\ v = n.controllers /\ u <= v
      BY <1>1
    <2>2. PICK x \in Nat, y \in Nat : x = (250 * u) \div z /\ y = (250 * v) \div z /\ x <= y
      <3>1. ASSUME NEW k \in Nat
            PROVE  /\ (k * u) \div z \in Nat /\ (k * v) \div z \in Nat
                   /\ (k * u) \div z <= (k * v) \div z
        BY <2>1, DivMore
      <3>2. /\ (250 * u) \div z \in Nat /\ (250 * v) \div z \in Nat
            /\ (250 * u) \div z <= (250 * v) \div z
        BY ONLY <3>1, 250 \in Nat, Zenon
      <3> QED
        BY ONLY <3>2, Zenon
    <2>3. AtMost(900, x) \in Nat /\ AtMost(900, y) \in Nat /\ AtMost(900, x) <= AtMost(900, y)
      BY <2>2 DEF AtMost
    <2> QED
      BY <2>1, <2>2, <2>3, <2>4
  <1>7. PICK s \in Nat, t \in Nat : /\ s = Share(m.cash, m.payments)
                                    /\ t = Share(n.cash, n.payments) /\ s <= t
    <2>1. PICK x \in Nat, y \in Nat, z \in Nat :
            x = m.cash /\ y = n.cash /\ x <= y /\ z = m.payments /\ z = n.payments
      BY <1>1
    <2>2. Share(x, z) \in Nat /\ Share(y, z) \in Nat /\ Share(x, z) <= Share(y, z)
      BY <2>1, ShareMore
    <2> QED
      BY <2>1, <2>2
  <1>8. PICK r \in Nat : r = PrimaryActivityRisk
    BY RiskScoringAssumption
  <1>9. /\ evaluateClientElement(m) = 25 * a + 20 * c + 15 * e + 20 * h + 20 * i
        /\ evaluateClientElement(n) = 25 * b + 20 * d + 15 * e + 20 * h + 20 * j
    BY <1>2, <1>3, <1>4, <1>5, <1>6 DEF evaluateClientElement
  <1>10. /\ evaluateProductElement(m) = 40 * r + 25 * s + 20 * 100
         /\ evaluateProductElement(n) = 40 * r + 25 * t + 20 * 100
    BY <1>7, <1>8 DEF evaluateProductElement
  <1>11. evaluateTransactionElement(m) = 30 * s /\ evaluateTransactionElement(n) = 30 * t
    BY <1>7 DEF evaluateTransactionElement
  <1>12. /\ 25 * a + 20 * c + 15 * e + 20 * h + 20 * i <= 25 * b + 20 * d + 15 * e + 20 * h + 20 * j
         /\ 25 * a + 20 * c + 15 * e + 20 * h + 20 * i \in Nat
         /\ 25 * b + 20 * d + 15 * e + 20 * h + 20 * j \in Nat
    BY <1>2, <1>3, <1>6
  <1>13. /\ 40 * r + 25 * s + 20 * 100 <= 40 * r + 25 * t + 20 * 100
         /\ 40 * r + 25 * s + 20 * 100 \in Nat /\ 40 * r + 25 * t + 20 * 100 \in Nat
         /\ 30 * s <= 30 * t /\ 30 * s \in Nat /\ 30 * t \in Nat
    BY <1>7
  <1> QED
    BY <1>9, <1>10, <1>11, <1>12, <1>13

LEMMA OrgMitigants ==
    ASSUME NEW m, NEW n, Grown(m, n)
    PROVE  /\ evaluateMitigants(m) \in Int /\ evaluateMitigants(n) \in Int
           /\ evaluateMitigants(n) <= evaluateMitigants(m)
  <1>1. /\ m.clients \in Nat \ {0} /\ n.clients = m.clients
        /\ m.complete \in Nat /\ n.complete \in Nat /\ n.complete <= m.complete
        /\ m.screened \in Nat /\ n.screened = m.screened
    BY DEF Grown, Counts
  <1>2. PICK a \in Int, b \in Int : /\ a = Mitigant(800000, n.complete, n.clients)
                                    /\ b = Mitigant(800000, m.complete, m.clients) /\ a <= b
    BY <1>1, MitigantMore
  <1>3. PICK c \in Int : /\ c = Mitigant(700000, m.screened, m.clients)
                         /\ c = Mitigant(700000, n.screened, n.clients)
    BY <1>1, MitigantMore
  <1>4. PICK d \in Int : d = Mitigant(600000, 5, 10)
    BY MitigantMore
  <1>5. PICK e \in Int : e = Mitigant(500000, 5, 10)
    BY MitigantMore
  <1>6. PICK h \in Int : h = Mitigant(400000, 3, 10)
    BY MitigantMore
  <1>7. evaluateMitigants(m) = b + c + d + e + h + e /\ evaluateMitigants(n) = a + c + d + e + h + e
    BY <1>2, <1>3, <1>4, <1>5, <1>6 DEF evaluateMitigants
  <1> QED
    BY <1>2, <1>7

LEMMA WorseOrg ==
    ASSUME NEW f, NEW g, WorseOf(f, g)
    PROVE  calculateOrgRisk(f) <= calculateOrgRisk(g)
  <1> DEFINE m == OrgCounts(f)
             n == OrgCounts(g)
             Inherent(k) == 30 * evaluateClientElement(k) + 25 * evaluateProductElement(k)
                            + 25 * evaluateTransactionElement(k)
  <1>1. Grown(m, n)
    BY OrgGrown
  <1>2. /\ calculateOrgRisk(f) = clampScore(clampScore(Inherent(m)) - evaluateMitigants(m))
        /\ calculateOrgRisk(g) = clampScore(clampScore(Inherent(n)) - evaluateMitigants(n))
    BY Zenon DEF calculateOrgRisk
  <1> HIDE DEF m, n
  <1>3. Inherent(m) \in Int /\ Inherent(n) \in Int /\ Inherent(m) <= Inherent(n)
    BY <1>1, OrgElements
  <1> HIDE DEF Inherent
  <1>4. PICK x \in Nat, y \in Nat : x = clampScore(Inherent(m)) /\ y = clampScore(Inherent(n)) /\ x <= y
    BY <1>3, ClampTyped, ClampMore DEF IsTotal
  <1>5. PICK a \in Int, b \in Int : a = evaluateMitigants(m) /\ b = evaluateMitigants(n) /\ b <= a
    BY <1>1, OrgMitigants
  <1>6. clampScore(x - a) <= clampScore(y - b)
    BY <1>4, <1>5, ClampMore
  <1> QED
    BY <1>2, <1>4, <1>5, <1>6

-----------------------------------------------------------------------------
(* The property                                                            *)

\* Who the client is does not change.
LEMMA PersonStays == Known(onRecord) /\ ScoringNext => onRecord'.person = onRecord.person
  <1> SUFFICES ASSUME Known(onRecord), ScoringNext
               PROVE  onRecord'.person = onRecord.person
    OBVIOUS
  <1>1. CASE Save
    BY <1>1 DEF Save, Known
  <1>2. CASE Screened
    BY <1>2 DEF Screened, Known
  <1>3. CASE FoundPep
    BY <1>3 DEF FoundPep, Known
  <1>4. CASE Controllers
    BY <1>4 DEF Controllers, Known
  <1>5. CASE File
    BY <1>5 DEF File, Known
  <1>6. CASE TimePasses
    BY <1>6 DEF TimePasses, Known
  <1>7. CASE Operate
    <2>1. PICK s : onRecord' = [onRecord EXCEPT !.operations = s]
      BY <1>7, Zenon DEF Operate
    <2> QED
      BY <2>1 DEF Known
  <1> QED
    BY <1>1, <1>2, <1>3, <1>4, <1>5, <1>6, <1>7 DEF ScoringNext

\* No step that makes what is on record of a client worse lowers the client's score by either
\* rating, how closely or how soon the client is looked at, or the organization's score.
THEOREM WorseIsNotLower == ScoringSpec => WorseNotLower
  <1> DEFINE Kept ==
               Worse(onRecord, onRecord') =>
                 LET old == calculateWithMethodology(Seed, onRecord)
                     new == calculateWithMethodology(Seed, onRecord')
                 IN  /\ new.score >= old.score
                     /\ new.nextReviewMonths <= old.nextReviewMonths
                     /\ \A k \in DOMAIN old.ddProfile :
                          DDRank(new.ddProfile[k]) >= DDRank(old.ddProfile[k])
                     /\ calculateLegacy(onRecord') >= calculateLegacy(onRecord)
                     /\ calculateOrgRisk(onRecord') >= calculateOrgRisk(onRecord)
  <1>1. ASSUME Recorded, Recorded', ScoringNext
        PROVE  Kept
    <2> SUFFICES ASSUME Worse(onRecord, onRecord')
                 PROVE  Kept
      OBVIOUS
    <2> DEFINE f == onRecord
               g == onRecord'
    <2>1. WorseOf(f, g)
      BY <1>1, PersonStays DEF Recorded, WorseOf
    <2>2. Known(f) /\ Known(g)
      BY <1>1 DEF Recorded
    <2> HIDE DEF f, g
    <2> DEFINE old == calculateWithMethodology(Seed, f)
               new == calculateWithMethodology(Seed, g)
    <2>3. /\ new.nextReviewMonths <= old.nextReviewMonths
          /\ \A k \in DOMAIN old.ddProfile : DDRank(new.ddProfile[k]) >= DDRank(old.ddProfile[k])
      BY <2>1, WorseWatched
    <2>4. new.score >= old.score
      <3>1. PICK a \in Nat, b \in Nat : a = SeedScore(f) /\ b = SeedScore(g) /\ a <= b
        BY <2>1, <2>2, SeedTyped, WorseScores DEF IsTotal
      <3>2. old.score = SeedScore(f) /\ new.score = SeedScore(g)
        BY <2>2, SeedIs
      <3> HIDE DEF old, new
      <3> QED
        BY <3>1, <3>2
    <2>5. calculateLegacy(g) >= calculateLegacy(f)
      <3>1. calculateLegacy(f) \in Nat /\ calculateLegacy(g) \in Nat
        BY <2>2, LegacyIs, InherentNear, ResidualTyped DEF IsTotal
      <3> QED
        BY <2>1, <3>1, WorseScores
    <2>6. calculateOrgRisk(g) >= calculateOrgRisk(f)
      <3>1. calculateOrgRisk(f) \in Nat /\ calculateOrgRisk(g) \in Nat
        <4>1. Grown(OrgCounts(f), OrgCounts(g))
          BY <2>1, OrgGrown
        <4> QED
          BY <4>1, OrgElements, OrgMitigants, ClampTyped DEF calculateOrgRisk, IsTotal
      <3> QED
        BY <2>1, <3>1, WorseOrg
    <2> QED
      BY <2>3, <2>4, <2>5, <2>6 DEF f, g
  <1>2. Recorded /\ Recorded' /\ [ScoringNext]_onRecord => [Kept]_onRecord
    BY <1>1
  <1> QED
    BY <1>2, RecordedAlways, PTL DEF ScoringSpec, WorseNotLower
=============================================================================
