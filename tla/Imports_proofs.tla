--------------------------- MODULE Imports_proofs ---------------------------
(***************************************************************************)
(* Theorems about Imports for all imports, files, batch sizes and numbers  *)
(* of deliveries, whatever is deleted and whichever consumer dies.         *)
(***************************************************************************)
EXTENDS Imports, FiniteSetTheorems, SequenceTheorems, TLAPS

Rowed == Seq(Keys \cup {Invalid}) \ {<<>>}
Preparing == {"claim", "parse", "total", "insert", "start"}
OnRow == {"row", "hash", "create", "result"}
WithRows == {"total", "insert", "start", "complete"} \cup OnRow
Early == {"UNBORN", "PENDING", "VALIDATING"}

\* Where a message can be, given the status of its import.
Phase(i) ==
    /\ imports[i].status \in {"UNBORN", "PENDING"} => At(i, "idle")
    /\ job[i].at \in Preparing \cup {"send"} => imports[i].status \in {"VALIDATING", "DELETED"}
    /\ job[i].at \in OnRow \cup {"complete"} => imports[i].status \in {"PROCESSING", "DELETED"}
    /\ At(i, "fail") => imports[i].status \notin Ended

\* How often the message was delivered.
Counted(i) ==
    /\ job[i].at \in {"idle", "send"} => deliveries[i] = 0
    /\ At(i, "queued") => deliveries[i] < MaxDeliveries
    /\ job[i].at \in Running => deliveries[i] > 0

\* What the consumer holds while it walks through the file.
Walk(i) ==
    /\ job[i].at \in WithRows => Rows(i) \in Rowed
    /\ job[i].at \in {"total", "insert", "start"} => job[i].row = 1 /\ job[i].counts = NoCounts
    /\ At(i, "total") => job[i].inserted = 0
    /\ At(i, "insert") => job[i].inserted < Len(Rows(i))
    /\ job[i].at \in OnRow => job[i].row \in 1..Len(Rows(i))
    /\ At(i, "complete") => job[i].row = Len(Rows(i)) + 1
    /\ job[i].at \in {"hash", "create"} =>
         imports[i].type = "OPERATION" /\ Rows(i)[job[i].row] # Invalid
    /\ At(i, "result") => job[i].status \in {"SUCCESS", "ERROR", "SKIPPED"}

TypeInv == TypeOK /\ \A i \in Imports : Phase(i) /\ Counted(i) /\ Walk(i)

\* A step of import i leaves the others alone and takes nothing away.
Others(i) ==
    /\ \A k \in Imports \ {i} :
         /\ imports'[k] = imports[k] /\ results'[k] = results[k]
         /\ job'[k] = job[k] /\ deliveries'[k] = deliveries[k]
    /\ entities \subseteq entities'
    /\ \A e \in entities' \ entities : e.source = i

Result == [row: Nat \ {0}, status: RowStatus, entity: entities \cup {NoEntity}]

\* Only the delivery that got as far as the rows makes anything, and it makes at most
\* one thing of each row, in their order.
Making(i) ==
    /\ imports[i].status \in Early => \A e \in entities : e.source # i
    /\ job[i].at \in Preparing => \A e \in entities : e.source # i
    /\ job[i].at \in OnRow => \A e \in entities : e.source = i => e.row <= job[i].row
    /\ job[i].at \in OnRow \ {"result"} =>
         \A e \in entities : e.source = i => e.row # job[i].row

MadeInv == RowMadeOnce /\ \A i \in Imports : Making(i)

\* Row n of the file has a result, or a result of this status.
Listed(i, n) == \E k \in DOMAIN results[i] : results[i][k].row = n
Reported(i, n, s) == \E k \in DOMAIN results[i] : results[i][k].row = n /\ results[i][k].status = s
Settled(i, n, s) == {r \in 1..n : Reported(i, r, s)}

\* Results are PENDING until the rows are walked through, from then on the rows before
\* the current one are settled and counted, and every row has a result to settle.
Listing(i) ==
    /\ imports[i].status \in {"UNBORN", "DELETED"} => results[i] = <<>>
    /\ imports[i].status \in Early =>
         \A k \in DOMAIN results[i] : results[i][k].status = "PENDING"
    /\ Exists(i) =>
         /\ At(i, "insert") => \A n \in 1..job[i].inserted : Listed(i, n)
         /\ job[i].at \in OnRow \cup {"start", "complete"} => \A n \in 1..Len(Rows(i)) : Listed(i, n)
         /\ job[i].at \in OnRow \cup {"insert", "start", "complete"} =>
              imports[i].totalRows = Len(Rows(i))
         /\ job[i].at \in OnRow \cup {"complete"} =>
              /\ \A k \in DOMAIN results[i] :
                   results[i][k].row >= job[i].row => results[i][k].status = "PENDING"
              /\ \A s \in RowStatus \ {"PENDING"} :
                   job[i].counts[s] = Cardinality(Settled(i, job[i].row - 1, s))

CountsMatch(i) ==
    /\ imports[i].totalRows = Len(Rows(i))
    /\ imports[i].processedRows = Len(Rows(i))
    /\ \A s \in RowStatus \ {"PENDING"} :
         imports[i].counts[s] = Cardinality(Settled(i, Len(Rows(i)), s))

CountsInv ==
    \A i \in Imports : Listing(i) /\ (imports[i].status = "COMPLETED" => CountsMatch(i))

\* Row n is in the database, or reported as an error.
Handled(i, n) == Reported(i, n, "ERROR") \/ Live(imports[i].type, Rows(i)[n]) # {}

Done(i) == Exists(i) =>
    /\ job[i].at \in OnRow \cup {"complete"} => \A n \in 1..(job[i].row - 1) : Handled(i, n)
    /\ At(i, "result") =>
         job[i].status = "ERROR" \/ Live(imports[i].type, Rows(i)[job[i].row]) # {}
    /\ imports[i].status = "COMPLETED" => \A n \in 1..Len(Rows(i)) : Handled(i, n)

HandledInv == \A i \in Imports : Done(i)

\* Whoever made the operation that i is about to create knew that i was about to.
Known(i) == \A e \in Live("OPERATION", Rows(i)[job[i].row]) : i \in e.beside

UniqueInv ==
    /\ OperationsUnique
    /\ \A e \in entities : e.source \notin e.beside
    /\ \A i \in Imports : At(i, "create") => Known(i)

-----------------------------------------------------------------------------
(* Types and phases.                                                       *)

LEMMA FreshTyped ==
    ASSUME NEW at \in Running \cup {"idle", "send", "queued", "done", "lost"}
    PROVE  /\ Fresh(at) \in [at: Running \cup {"idle", "send", "queued", "done", "lost"},
                             row: Nat \ {0}, inserted: Nat, status: RowStatus,
                             entity: entities \cup {NoEntity}, counts: [RowStatus -> Nat]]
           /\ Fresh(at).at = at /\ Fresh(at).row = 1 /\ Fresh(at).inserted = 0
           /\ Fresh(at).counts = NoCounts
  BY DEF Fresh, NoCounts, RowStatus

LEMMA FileRows ==
    ASSUME NEW f \in Rowed
    PROVE  /\ Len(f) \in Nat \ {0} /\ DOMAIN f = 1..Len(f)
           /\ f \in File /\ f # Unreadable
           /\ \A n \in 1..Len(f) : f[n] \in Keys \cup {Invalid}
  BY ImportsAssumption DEF Rowed, File

LEMMA TypeInit == Init => TypeInv
  <1> SUFFICES ASSUME Init
               PROVE  TypeInv
    OBVIOUS
  <1>1. NoImport \in [status: Status, type: EntityType, file: File, totalRows: Nat,
                      processedRows: Nat, counts: [RowStatus -> Nat]]
        /\ NoImport.status = "UNBORN"
    BY DEF NoImport, ImportRow, Status, EntityType, File, NoCounts, RowStatus
  <1>2. TypeOK
    BY <1>1, FreshTyped, ImportsAssumption DEF Init, TypeOK, NoCounts
  <1>3. ASSUME NEW i \in Imports
        PROVE  Phase(i) /\ Counted(i) /\ Walk(i)
    BY <1>1, <1>3, FreshTyped DEF Init, Phase, Counted, Walk, At, Preparing, OnRow, WithRows,
       Running, InTry, Ended
  <1> QED
    BY <1>2, <1>3 DEF TypeInv

\* What holds of one import is enough, since the others are left alone.
LEMMA TypeLocal ==
    ASSUME TypeInv, NEW i \in Imports, TypeOK', Others(i), (Phase(i) /\ Counted(i) /\ Walk(i))'
    PROVE  TypeInv'
  <1>1. ASSUME NEW k \in Imports, k # i
        PROVE  (Phase(k) /\ Counted(k) /\ Walk(k))'
    BY <1>1 DEF TypeInv, Others, Phase, Counted, Walk, At, Rows
  <1> QED
    BY <1>1 DEF TypeInv

JobRecord == [at: Running \cup {"idle", "send", "queued", "done", "lost"},
              row: Nat \ {0}, inserted: Nat, status: RowStatus,
              entity: entities \cup {NoEntity}, counts: [RowStatus -> Nat]]
JobsTyped == job \in [Imports -> JobRecord]

LEMMA JobsAreTyped ==
    ASSUME TypeOK
    PROVE  JobsTyped
  BY DEF TypeOK, JobsTyped, JobRecord, JobRecord

LEMMA LeaveTyped ==
    ASSUME TypeOK, NEW i \in Imports,
           NEW at \in Running \cup {"idle", "send", "queued", "done", "lost"},
           Leave(i, at), UNCHANGED entities
    PROVE  /\ JobsTyped' /\ job'[i] = Fresh(at)
           /\ \A k \in Imports \ {i} : job'[k] = job[k]
  BY FreshTyped DEF TypeOK, JobsTyped, JobRecord, Leave

LEMMA GoTyped ==
    ASSUME TypeOK, NEW i \in Imports,
           NEW at \in Running \cup {"idle", "send", "queued", "done", "lost"},
           Go(i, at), UNCHANGED entities
    PROVE  /\ JobsTyped' /\ job'[i] = [job[i] EXCEPT !.at = at] /\ job'[i].at = at
           /\ job'[i].row = job[i].row /\ job'[i].inserted = job[i].inserted
           /\ job'[i].status = job[i].status /\ job'[i].counts = job[i].counts
           /\ \A k \in Imports \ {i} : job'[k] = job[k]
  BY DEF TypeOK, JobsTyped, JobRecord, Go

ImportRecord == [status: Status, type: EntityType, file: File, totalRows: Nat,
                 processedRows: Nat, counts: [RowStatus -> Nat]]

LEMMA StatusTyped ==
    ASSUME TypeOK, NEW i \in Imports, NEW st \in Status,
           imports' = [imports EXCEPT ![i].status = st]
    PROVE  /\ imports' \in [Imports -> ImportRecord]
           /\ imports'[i].status = st /\ imports'[i].type = imports[i].type
           /\ imports'[i].file = imports[i].file
           /\ imports'[i].totalRows = imports[i].totalRows
           /\ \A k \in Imports \ {i} : imports'[k] = imports[k]
  <1>1. imports \in [Imports -> ImportRecord]
    BY DEF TypeOK, ImportRecord
  <1>2. ASSUME NEW r \in ImportRecord
        PROVE  LET q == [r EXCEPT !.status = st] IN
               /\ q \in ImportRecord /\ q.status = st /\ q.type = r.type /\ q.file = r.file
               /\ q.totalRows = r.totalRows
    BY DEF ImportRecord
  <1> QED
    BY <1>1, <1>2

LEMMA RequestsTyped ==
    ASSUME TypeInv, NEW i \in Imports,
           Create(i) \/ StartImport(i) \/ SendJob(i) \/ SendFails(i) \/ DeleteImport(i)
    PROVE  TypeInv' /\ Others(i)
  <1>t. TypeOK /\ Phase(i) /\ Counted(i) /\ Walk(i)
    BY DEF TypeInv
  <1>1. CASE Create(i)
    <2>1. PICK u \in Uploads[i] : imports' = [imports EXCEPT ![i] = ImportRow(u)]
      BY <1>1 DEF Create
    <2>2. ImportRow(u) \in [status: Status, type: EntityType, file: File, totalRows: Nat,
                            processedRows: Nat, counts: [RowStatus -> Nat]]
          /\ ImportRow(u).status = "PENDING"
      BY ImportsAssumption DEF ImportRow, Status, ImportStatus, NoCounts, RowStatus
    <2>3. TypeOK' /\ Others(i)
      BY <1>t, <1>1, <2>1, <2>2 DEF Create, TypeOK, Others
    <2>4. (Phase(i) /\ Counted(i) /\ Walk(i))'
      BY <1>t, <1>1, <2>1, <2>2 DEF Create, TypeOK, Phase, Counted, Walk, At, Preparing, OnRow,
         WithRows, Running, InTry
    <2> QED
      BY <2>3, <2>4, TypeLocal
  <1>2. CASE StartImport(i)
    <2>1. /\ imports[i].status = "PENDING"
          /\ imports' = [imports EXCEPT ![i].status = "VALIDATING"] /\ Go(i, "send")
          /\ UNCHANGED <<results, entities, deliveries>> /\ "VALIDATING" \in Status
      BY <1>2 DEF StartImport, Status, ImportStatus
    <2>2. /\ imports' \in [Imports -> ImportRecord]
          /\ imports'[i].status = "VALIDATING" /\ imports'[i].type = imports[i].type
          /\ imports'[i].file = imports[i].file
          /\ \A k \in Imports \ {i} : imports'[k] = imports[k]
      BY <1>t, <2>1, StatusTyped
    <2>3. JobsTyped' /\ job'[i].at = "send" /\ \A k \in Imports \ {i} : job'[k] = job[k]
      BY <1>t, <2>1, GoTyped
    <2>4. TypeOK' /\ Others(i)
      BY <1>t, <2>1, <2>2, <2>3 DEF TypeOK, JobsTyped, JobRecord, ImportRecord, Others
    <2>5. (Phase(i) /\ Counted(i) /\ Walk(i))'
      BY <1>t, <2>1, <2>2, <2>3 DEF Phase, Counted, Walk, At, Preparing, OnRow, WithRows, Running,
         InTry
    <2> QED
      BY <2>4, <2>5, TypeLocal
  <1>3. CASE SendJob(i) \/ SendFails(i)
    <2>1. PICK at \in {"queued", "lost"} : Go(i, at) /\ UNCHANGED <<tables, deliveries>>
      BY <1>3 DEF SendJob, SendFails
    <2>2. At(i, "send")
      BY <1>3 DEF SendJob, SendFails
    <2>3. JobsTyped' /\ job'[i].at = at /\ \A k \in Imports \ {i} : job'[k] = job[k]
      BY <1>t, <2>1, GoTyped DEF tables
    <2>4. TypeOK' /\ Others(i)
      BY <1>t, <2>1, <2>3 DEF TypeOK, JobsTyped, JobRecord, Others, tables
    <2>5. imports[i].status \notin {"UNBORN", "PENDING"} /\ deliveries[i] = 0
      BY <1>t, <2>2 DEF Phase, Counted, At, Preparing
    <2>6. (Phase(i) /\ Counted(i) /\ Walk(i))'
      BY <1>t, <2>1, <2>3, <2>5, ImportsAssumption DEF tables, Phase, Counted, Walk, At,
         Preparing, OnRow, WithRows, Running, InTry
    <2> QED
      BY <2>4, <2>6, TypeLocal
  <1>4. CASE DeleteImport(i)
    <2>1. /\ Exists(i) /\ imports' = [imports EXCEPT ![i].status = "DELETED"]
          /\ results' = [results EXCEPT ![i] = <<>>]
          /\ UNCHANGED <<entities, job, deliveries>> /\ "DELETED" \in Status
      BY <1>4 DEF DeleteImport, Status
    <2>2. /\ imports' \in [Imports -> ImportRecord]
          /\ imports'[i].status = "DELETED" /\ imports'[i].type = imports[i].type
          /\ imports'[i].file = imports[i].file
          /\ \A k \in Imports \ {i} : imports'[k] = imports[k]
      BY <1>t, <2>1, StatusTyped
    <2>3. results' \in [Imports -> Seq(Result)]
      <3>1. results \in [Imports -> Seq(Result)]
        BY <1>t DEF TypeOK, Result
      <3>2. <<>> \in Seq(Result)
        BY EmptySeq
      <3> QED
        BY <2>1, <3>1, <3>2
    <2>4. TypeOK' /\ Others(i)
      BY <1>t, <2>1, <2>2, <2>3 DEF TypeOK, ImportRecord, Others, Result
    <2>5. (Phase(i) /\ Counted(i) /\ Walk(i))'
      BY <1>t, <2>1, <2>2 DEF Phase, Counted, Walk, At, Rows, Ended, Exists, ImportStatus,
         Preparing, OnRow
    <2> QED
      BY <2>4, <2>5, TypeLocal
  <1> QED
    BY <1>1, <1>2, <1>3, <1>4

LEMMA RowYieldsTyped ==
    ASSUME TypeOK, NEW i \in Imports, NEW st \in RowStatus, NEW en \in entities' \cup {NoEntity},
           entities \subseteq entities', RowYields(i, st, en)
    PROVE  /\ JobsTyped'
           /\ job'[i].at = "result" /\ job'[i].status = st /\ job'[i].row = job[i].row
           /\ job'[i].inserted = job[i].inserted /\ job'[i].counts = job[i].counts
           /\ \A k \in Imports \ {i} : job'[k] = job[k]
  <1>1. ASSUME NEW r \in JobRecord
        PROVE  LET q == [r EXCEPT !.at = "result", !.status = st, !.entity = en] IN
               /\ q \in JobRecord'
               /\ q.at = "result" /\ q.status = st /\ q.row = r.row
               /\ q.inserted = r.inserted /\ q.counts = r.counts
    BY DEF JobRecord, Running, InTry
  <1>2. JobsTyped /\ \A r \in JobRecord : r \in JobRecord'
    BY JobsAreTyped DEF JobRecord
  <1>3. job' = [job EXCEPT ![i] = [job[i] EXCEPT !.at = "result", !.status = st, !.entity = en]]
    BY <1>2 DEF RowYields, JobsTyped
  <1> QED
    BY <1>1, <1>2, <1>3 DEF JobsTyped

\* Steps that leave the consumer without local variables, and all tables as they are.
LEMMA LeaveKeeps ==
    ASSUME TypeInv, NEW i \in Imports,
           NEW at \in {"done", "claim", "queued", "lost", "fail", "notify", "total"},
           Leave(i, at), UNCHANGED tables,
           deliveries' \in [Imports -> 0..MaxDeliveries],
           \A k \in Imports \ {i} : deliveries'[k] = deliveries[k],
           at \in Running => deliveries'[i] > 0,
           at = "queued" => deliveries'[i] < MaxDeliveries,
           at \in {"claim", "total"} => imports[i].status \in {"VALIDATING", "DELETED"},
           at = "fail" => imports[i].status \notin Ended,
           at = "total" => Rows(i) \in Rowed,
           ~At(i, "idle")
    PROVE  TypeInv' /\ Others(i)
  <1>t. TypeOK /\ Phase(i) /\ Counted(i) /\ Walk(i)
    BY DEF TypeInv
  <1>1. /\ JobsTyped' /\ job'[i] = Fresh(at) /\ \A k \in Imports \ {i} : job'[k] = job[k]
        /\ Fresh(at).at = at /\ Fresh(at).row = 1 /\ Fresh(at).inserted = 0
        /\ Fresh(at).counts = NoCounts
    BY <1>t, LeaveTyped, FreshTyped DEF Running, InTry, tables
  <1>2. TypeOK' /\ Others(i)
    BY <1>t, <1>1 DEF TypeOK, JobsTyped, JobRecord, Others, tables
  <1>3. (Phase(i) /\ Counted(i) /\ Walk(i))'
    BY <1>t, <1>1 DEF tables, Phase, Counted, Walk, At, Rows, Preparing, OnRow, WithRows, Running,
       InTry
  <1> QED
    BY <1>2, <1>3, TypeLocal

LEMMA DeliveryTyped ==
    ASSUME TypeInv, NEW i \in Imports, Deliver(i) \/ Retry(i)
    PROVE  TypeInv' /\ Others(i)
  <1>t. TypeOK /\ Phase(i) /\ Counted(i) /\ Walk(i)
    BY DEF TypeInv
  <1>1. CASE Deliver(i)
    <2>1. PICK at \in {"done", "claim"} :
            /\ Leave(i, at) /\ UNCHANGED tables /\ At(i, "queued")
            /\ deliveries' = [deliveries EXCEPT ![i] = @ + 1]
            /\ at = "claim" => ~Skipped(i)
      BY <1>1 DEF Deliver
    <2>2. deliveries[i] \in 0..MaxDeliveries /\ deliveries[i] < MaxDeliveries /\ MaxDeliveries \in Nat
      BY <1>t, <2>1, ImportsAssumption DEF TypeOK, Counted
    <2>3. deliveries' \in [Imports -> 0..MaxDeliveries] /\ deliveries'[i] > 0
          /\ \A k \in Imports \ {i} : deliveries'[k] = deliveries[k]
      BY <1>t, <2>1, <2>2 DEF TypeOK
    <2>4. at = "claim" => imports[i].status \in {"VALIDATING", "DELETED"}
      BY <1>t, <2>1 DEF Skipped, Exists, ImportStatus, Ended, Phase, At
    <2>5. ~At(i, "idle") /\ at # "queued" /\ at # "fail" /\ at # "total"
      BY <2>1 DEF At
    <2> QED
      BY <2>1, <2>3, <2>4, <2>5, LeaveKeeps
  <1>2. CASE Retry(i)
    <2>1. PICK at \in {"queued", "lost"} :
            /\ Leave(i, at) /\ UNCHANGED <<tables, deliveries>> /\ job[i].at \in Running
            /\ at = "queued" => deliveries[i] < MaxDeliveries
      BY <1>2 DEF Retry
    <2>2. ~At(i, "idle") /\ deliveries' \in [Imports -> 0..MaxDeliveries] /\ deliveries' = deliveries
          /\ at \notin Running /\ at # "fail" /\ at # "total" /\ at # "claim"
      BY <1>t, <2>1 DEF At, Running, InTry, TypeOK
    <2> QED
      BY <2>1, <2>2, LeaveKeeps
  <1> QED
    BY <1>1, <1>2

LEMMA StatusSet ==
    ASSUME TypeInv, NEW i \in Imports, Claim(i) \/ StartProcessing(i) \/ MarkFailed(i)
    PROVE  TypeInv' /\ Others(i)
  <1>t. TypeOK /\ Phase(i) /\ Counted(i) /\ Walk(i)
    BY DEF TypeInv
  <1>1. PICK st \in Status : imports' = [imports EXCEPT ![i].status = st]
                             /\ (Claim(i) => st = "VALIDATING")
                             /\ (StartProcessing(i) => st = "PROCESSING")
                             /\ (MarkFailed(i) => st = "FAILED")
    <2>1. CASE Claim(i)
      BY <2>1 DEF Claim, StartProcessing, MarkFailed, At, SetStatus, Status, ImportStatus
    <2>2. CASE StartProcessing(i)
      BY <2>2 DEF Claim, StartProcessing, MarkFailed, At, SetStatus, Status, ImportStatus
    <2>3. CASE MarkFailed(i)
      BY <2>3 DEF Claim, StartProcessing, MarkFailed, At, SetStatus, Status, ImportStatus
    <2> QED
      BY <2>1, <2>2, <2>3
  <1>2. /\ imports' \in [Imports -> ImportRecord]
        /\ imports'[i].status = st /\ imports'[i].type = imports[i].type
        /\ imports'[i].file = imports[i].file
        /\ \A k \in Imports \ {i} : imports'[k] = imports[k]
    BY <1>t, <1>1, StatusTyped
  <1>3. UNCHANGED <<results, entities, deliveries>> /\ job[i].at \in Running
    BY DEF Claim, StartProcessing, MarkFailed, At, Running, InTry
  <1>4. /\ JobsTyped' /\ \A k \in Imports \ {i} : job'[k] = job[k]
        /\ Claim(i) => job'[i].at = "parse"
        /\ StartProcessing(i) => job'[i].at = "row"
        /\ MarkFailed(i) => job'[i].at = "notify"
        /\ Claim(i) \/ StartProcessing(i) => job'[i].row = job[i].row
    <2>1. CASE Claim(i)
      <3>1. Go(i, "parse") /\ ~StartProcessing(i) /\ ~MarkFailed(i)
        BY <2>1 DEF Claim, StartProcessing, MarkFailed, At
      <3> QED
        BY <1>t, <1>3, <2>1, <3>1, GoTyped DEF Running, InTry
    <2>2. CASE StartProcessing(i)
      <3>1. Go(i, "row") /\ ~Claim(i) /\ ~MarkFailed(i)
        BY <2>2 DEF Claim, StartProcessing, MarkFailed, At
      <3> QED
        BY <1>t, <1>3, <2>2, <3>1, GoTyped DEF Running, InTry
    <2>3. CASE MarkFailed(i)
      <3>1. Leave(i, "notify") /\ ~Claim(i) /\ ~StartProcessing(i)
        BY <2>3 DEF Claim, StartProcessing, MarkFailed, At
      <3> QED
        BY <1>t, <1>3, <2>3, <3>1, LeaveTyped, FreshTyped DEF Running, InTry
    <2> QED
      BY <2>1, <2>2, <2>3
  <1>5. TypeOK' /\ Others(i)
    BY <1>t, <1>2, <1>3, <1>4 DEF TypeOK, JobsTyped, JobRecord, ImportRecord, Others
  <1>6. Phase(i)' /\ Counted(i)'
    <2>1. imports[i].status \notin {"UNBORN", "PENDING"} /\ deliveries[i] > 0
      BY <1>t, <1>3 DEF Phase, Counted, At, Running, InTry
    <2> QED
      BY <2>1, <1>1, <1>2, <1>3, <1>4 DEF Phase, Counted, At, Preparing, OnRow, Running, InTry, Ended
  <1>7. Walk(i)'
    <2>1. StartProcessing(i) => job[i].row = 1 /\ Rows(i) \in Rowed
      BY <1>t DEF StartProcessing, At, Walk, WithRows
    <2>2. StartProcessing(i) => 1 \in 1..Len(Rows(i))
      BY <2>1, FileRows
    <2> QED
      BY <2>1, <2>2, <1>2, <1>4 DEF Walk, At, Rows, OnRow, WithRows
  <1> QED
    BY <1>5, <1>6, <1>7, TypeLocal

LEMMA LeavingTyped ==
    ASSUME TypeInv, NEW i \in Imports, ParseFile(i) \/ Throw(i) \/ Notify(i)
    PROVE  TypeInv' /\ Others(i)
  <1>t. TypeOK /\ Phase(i) /\ Counted(i) /\ Walk(i)
    BY DEF TypeInv
  <1>1. PICK at \in {"fail", "total", "done"} :
          /\ Leave(i, at) /\ UNCHANGED <<tables, deliveries>>
          /\ job[i].at \in Running
          /\ at = "total" => At(i, "parse") /\ Rows(i) # Unreadable
          /\ at = "fail" => job[i].at \in InTry
    <2>1. CASE ParseFile(i)
      BY <2>1 DEF ParseFile, At, Running, InTry
    <2>2. CASE Throw(i)
      BY <2>2 DEF Throw, Running
    <2>3. CASE Notify(i)
      BY <2>3 DEF Notify, At, Running
    <2> QED
      BY <2>1, <2>2, <2>3
  <1>2. at = "total" => Rows(i) \in Rowed /\ imports[i].status \in {"VALIDATING", "DELETED"}
    BY <1>t, <1>1 DEF TypeOK, File, Rows, Rowed, Phase, At, Preparing
  <1>3. at = "fail" => imports[i].status \notin Ended
    BY <1>t, <1>1 DEF Phase, InTry, Preparing, OnRow, Ended
  <1>4. deliveries'[i] > 0 /\ ~At(i, "idle") /\ at # "queued" /\ at # "claim"
        /\ deliveries' \in [Imports -> 0..MaxDeliveries] /\ deliveries' = deliveries
    BY <1>t, <1>1 DEF Counted, At, Running, InTry, TypeOK
  <1> QED
    BY <1>1, <1>2, <1>3, <1>4, LeaveKeeps

\* What CreateRowResults adds: the batch is never empty.
LEMMA BatchEffect ==
    ASSUME TypeInv, NEW i \in Imports, CreateRowResults(i)
    PROVE  \E last \in (job[i].inserted + 1)..Len(Rows(i)) :
             LET n == Len(results[i])
                 d == last - job[i].inserted
             IN  /\ n \in Nat /\ DOMAIN results[i] = 1..n /\ DOMAIN results'[i] = 1..(n + d)
                 /\ d \in Nat
                 /\ results' \in [Imports -> Seq(Result)]
                 /\ \A k \in 1..n : results'[i][k] = results[i][k]
                 /\ \A k \in 1..d : results'[i][n + k] =
                      [row |-> job[i].inserted + k, status |-> "PENDING", entity |-> NoEntity]
                 /\ \A k \in Imports \ {i} : results'[k] = results[k]
                 /\ JobsTyped' /\ \A k \in Imports \ {i} : job'[k] = job[k]
                 /\ job'[i].inserted = last /\ job'[i].row = job[i].row
                 /\ job'[i].counts = job[i].counts /\ job'[i].status = job[i].status
                 /\ job'[i].at = IF last = Len(Rows(i)) THEN "start" ELSE "insert"
  <1>t. TypeOK /\ Walk(i) /\ At(i, "insert")
    BY DEF TypeInv, CreateRowResults
  <1> DEFINE last == IF job[i].inserted + BatchSize < Len(Rows(i))
                       THEN job[i].inserted + BatchSize ELSE Len(Rows(i))
             d == last - job[i].inserted
             n == Len(results[i])
             made == [k \in 1..d |-> [row |-> job[i].inserted + k, status |-> "PENDING",
                                      entity |-> NoEntity]]
  <1>1. Rows(i) \in Rowed /\ job[i].inserted \in Nat /\ job[i].inserted < Len(Rows(i))
    BY <1>t DEF TypeOK, Walk, At, WithRows
  <1>2. Len(Rows(i)) \in Nat
    BY <1>1, FileRows
  <1>3. last \in (job[i].inserted + 1)..Len(Rows(i)) /\ d \in Nat
    BY <1>1, <1>2, ImportsAssumption
  <1>4. results[i] \in Seq(Result) /\ results \in [Imports -> Seq(Result)]
    BY <1>t DEF TypeOK, Result
  <1>5. made \in [1..d -> Result]
    BY <1>1, <1>3 DEF Result, RowStatus
  <1>6. made \in Seq(Result) /\ Len(made) = d
    <2> HIDE DEF made, d
    <2>1. made \in Seq(Result) /\ DOMAIN made = 1..d
      BY <1>3, <1>5, SeqDef
    <2>2. Len(made) \in Nat /\ 1..Len(made) = 1..d
      BY <2>1, LenProperties
    <2> QED
      BY <1>3, <2>1, <2>2
  <1>7. n \in Nat /\ DOMAIN results[i] = 1..n
    BY <1>4, LenProperties
  <1> HIDE DEF last, d, n, made
  <1>8. /\ results[i] \o made \in Seq(Result)
        /\ DOMAIN (results[i] \o made) = 1..(n + d)
        /\ \A k \in 1..n : (results[i] \o made)[k] = results[i][k]
        /\ \A k \in 1..d : (results[i] \o made)[n + k] = made[k]
    <2>1. results[i] \o made \in Seq(Result) /\ Len(results[i] \o made) = n + d
          /\ \A k \in 1..(n + d) : (results[i] \o made)[k] =
                IF k <= n THEN results[i][k] ELSE made[k - n]
      BY <1>4, <1>6, ConcatProperties DEF n
    <2>2. DOMAIN (results[i] \o made) = 1..(n + d)
      BY <2>1, LenProperties
    <2>3. ASSUME NEW k \in 1..d PROVE (results[i] \o made)[n + k] = made[k]
      <3>1. n + k \in 1..(n + d) /\ ~(n + k <= n) /\ (n + k) - n = k
        BY <1>3, <1>7
      <3> QED
        BY <2>1, <3>1
    <2>4. ASSUME NEW k \in 1..n PROVE (results[i] \o made)[k] = results[i][k]
      <3>1. k \in 1..(n + d) /\ k <= n
        BY <1>3, <1>7
      <3> QED
        BY <2>1, <3>1
    <2> QED
      BY <2>1, <2>2, <2>3, <2>4
  <1>9. /\ results' = [results EXCEPT ![i] = results[i] \o made]
        /\ job' = [job EXCEPT ![i].inserted = last,
                              ![i].at = IF last = Len(Rows(i)) THEN "start" ELSE "insert"]
        /\ entities' = entities
    BY DEF CreateRowResults, made, d, last
  <1>10. /\ results' \in [Imports -> Seq(Result)]
         /\ results'[i] = results[i] \o made
         /\ \A k \in Imports \ {i} : results'[k] = results[k]
    BY <1>4, <1>8, <1>9
  <1>11. \A k \in 1..d : made[k] =
           [row |-> job[i].inserted + k, status |-> "PENDING", entity |-> NoEntity]
    BY DEF made
  <1>12. last \in Nat
    BY <1>1, <1>2, <1>3
  <1>13. /\ JobsTyped' /\ \A k \in Imports \ {i} : job'[k] = job[k]
         /\ job'[i].inserted = last /\ job'[i].row = job[i].row
         /\ job'[i].counts = job[i].counts /\ job'[i].status = job[i].status
         /\ job'[i].at = IF last = Len(Rows(i)) THEN "start" ELSE "insert"
    <2> DEFINE at == IF last = Len(Rows(i)) THEN "start" ELSE "insert"
    <2>1. at \in Running
      BY DEF Running, InTry
    <2>2. job' = [job EXCEPT ![i] = [job[i] EXCEPT !.inserted = last, !.at = at]]
      BY <1>t, <1>9, JobsAreTyped DEF JobsTyped
    <2> HIDE DEF at
    <2>3. ASSUME NEW r \in JobRecord
          PROVE  LET q == [r EXCEPT !.inserted = last, !.at = at] IN
                 /\ q \in JobRecord /\ q.inserted = last /\ q.row = r.row
                 /\ q.counts = r.counts /\ q.status = r.status /\ q.at = at
      BY <1>12, <2>1 DEF JobRecord
    <2>4. JobRecord' = JobRecord
      BY <1>9 DEF JobRecord
    <2>5. /\ JobsTyped' /\ \A k \in Imports \ {i} : job'[k] = job[k]
          /\ job'[i].inserted = last /\ job'[i].row = job[i].row
          /\ job'[i].counts = job[i].counts /\ job'[i].status = job[i].status
          /\ job'[i].at = at
      BY <1>t, <2>2, <2>3, <2>4, JobsAreTyped DEF JobsTyped
    <2> QED
      BY <2>5 DEF at
  <1>14. /\ DOMAIN results'[i] = 1..(n + d)
         /\ \A k \in 1..n : results'[i][k] = results[i][k]
         /\ \A k \in 1..d : results'[i][n + k] =
              [row |-> job[i].inserted + k, status |-> "PENDING", entity |-> NoEntity]
    BY <1>8, <1>10, <1>11
  <1> USE <1>3
  <1> WITNESS last \in (job[i].inserted + 1)..Len(Rows(i))
  <1> QED
    BY <1>3, <1>7, <1>10, <1>13, <1>14 DEF n, d

\* What UpdateRowResult changes: one result at most, and the count of the status.
LEMMA ResultEffect ==
    ASSUME TypeInv, NEW i \in Imports, UpdateRowResult(i)
    PROVE  /\ results' \in [Imports -> Seq(Result)]
           /\ DOMAIN results'[i] = DOMAIN results[i]
           /\ \A k \in Imports \ {i} : results'[k] = results[k]
           /\ \/ /\ \A k \in DOMAIN results[i] : results[i][k].row # job[i].row
                 /\ results' = results
              \/ \E k \in DOMAIN results[i] :
                   /\ results[i][k].row = job[i].row
                   /\ results'[i][k].row = job[i].row
                   /\ results'[i][k].status = job[i].status
                   /\ \A m \in DOMAIN results[i] \ {k} : results'[i][m] = results[i][m]
           /\ JobsTyped' /\ \A k \in Imports \ {i} : job'[k] = job[k]
           /\ job'[i].row = job[i].row + 1
           /\ job'[i].counts[job[i].status] = job[i].counts[job[i].status] + 1
           /\ \A s \in RowStatus \ {job[i].status} : job'[i].counts[s] = job[i].counts[s]
           /\ job'[i].at = IF job[i].row = Len(Rows(i)) THEN "complete" ELSE "row"
  <1>t. TypeOK
    BY DEF TypeInv
  <1>1. results[i] \in Seq(Result) /\ results \in [Imports -> Seq(Result)]
    BY <1>t DEF TypeOK, Result
  <1>2. /\ job' = [job EXCEPT
              ![i].counts[job[i].status] = @ + 1,
              ![i].row = @ + 1,
              ![i].at = IF job[i].row = Len(Rows(i)) THEN "complete" ELSE "row"]
        /\ entities' = entities
    BY DEF UpdateRowResult, Counter
  <1>3. /\ JobsTyped' /\ \A k \in Imports \ {i} : job'[k] = job[k]
        /\ job'[i].row = job[i].row + 1
        /\ job'[i].counts[job[i].status] = job[i].counts[job[i].status] + 1
        /\ \A s \in RowStatus \ {job[i].status} : job'[i].counts[s] = job[i].counts[s]
        /\ job'[i].at = IF job[i].row = Len(Rows(i)) THEN "complete" ELSE "row"
    <2> DEFINE at == IF job[i].row = Len(Rows(i)) THEN "complete" ELSE "row"
               counts == [job[i].counts EXCEPT ![job[i].status] = @ + 1]
    <2>1. at \in Running
      BY DEF Running, InTry
    <2>2. job' = [job EXCEPT ![i] = [job[i] EXCEPT !.counts = counts, !.row = job[i].row + 1,
                                                  !.at = at]]
      BY <1>t, <1>2 DEF TypeOK
    <2>3. counts \in [RowStatus -> Nat]
          /\ counts[job[i].status] = job[i].counts[job[i].status] + 1
          /\ \A s \in RowStatus \ {job[i].status} : counts[s] = job[i].counts[s]
      BY <1>t DEF TypeOK
    <2>4. job[i].row + 1 \in Nat \ {0}
      BY <1>t DEF TypeOK
    <2> HIDE DEF at, counts
    <2>5. ASSUME NEW r \in JobRecord, NEW n \in Nat \ {0}
          PROVE  LET q == [r EXCEPT !.counts = counts, !.row = n, !.at = at] IN
                 /\ q \in JobRecord /\ q.row = n /\ q.counts = counts /\ q.at = at
      BY <2>1, <2>3 DEF JobRecord
    <2>6. JobRecord' = JobRecord
      BY <1>2 DEF JobRecord
    <2>7. /\ JobsTyped' /\ \A k \in Imports \ {i} : job'[k] = job[k]
          /\ job'[i].row = job[i].row + 1 /\ job'[i].counts = counts /\ job'[i].at = at
      BY <1>t, <2>2, <2>4, <2>5, <2>6, JobsAreTyped DEF JobsTyped
    <2> QED
      BY <2>3, <2>7 DEF at
  <1>4. CASE \A k \in DOMAIN results[i] : results[i][k].row # job[i].row
    <2>1. results' = results
      BY <1>4 DEF UpdateRowResult
    <2> QED
      BY <1>1, <1>3, <1>4, <2>1
  <1>5. CASE \E k \in DOMAIN results[i] : results[i][k].row = job[i].row
    <2>1. PICK k \in DOMAIN results[i] :
            /\ results[i][k].row = job[i].row
            /\ results' = [results EXCEPT ![i][k].status = job[i].status,
                                          ![i][k].entity = job[i].entity]
      BY <1>5 DEF UpdateRowResult
    <2> DEFINE r == [results[i][k] EXCEPT !.status = job[i].status, !.entity = job[i].entity]
    <2>2. results[i][k] \in Result /\ job[i].status \in RowStatus
          /\ job[i].entity \in entities \cup {NoEntity}
      BY <1>t, <1>1 DEF TypeOK
    <2>3. r \in Result /\ r.row = job[i].row /\ r.status = job[i].status
      BY <2>1, <2>2 DEF Result
    <2>4. results' = [results EXCEPT ![i] = [results[i] EXCEPT ![k] = r]]
      BY <1>1, <2>1
    <2> HIDE DEF r
    <2>5. [results[i] EXCEPT ![k] = r] \in Seq(Result)
      <3>1. k \in 1..Len(results[i])
        BY <1>1, <2>1, LenProperties
      <3> QED
        BY <1>1, <2>3, <3>1, ExceptSeq
    <2>6. results'[i] = [results[i] EXCEPT ![k] = r] /\ results' \in [Imports -> Seq(Result)]
          /\ \A m \in Imports \ {i} : results'[m] = results[m]
      BY <1>1, <2>4, <2>5
    <2>7. /\ DOMAIN results'[i] = DOMAIN results[i] /\ results'[i][k] = r
          /\ \A m \in DOMAIN results[i] \ {k} : results'[i][m] = results[i][m]
      BY <2>6, <2>1
    <2> QED
      BY <1>3, <2>1, <2>3, <2>6, <2>7
  <1> QED
    BY <1>4, <1>5

LEMMA TotalTyped ==
    ASSUME TypeInv, NEW i \in Imports, SetTotalRows(i)
    PROVE  /\ TypeInv' /\ Others(i)
           /\ imports'[i].status = "VALIDATING" /\ imports'[i].type = imports[i].type
           /\ imports'[i].file = imports[i].file /\ imports'[i].totalRows = Len(Rows(i))
           /\ job'[i].at = "insert" /\ job'[i].inserted = 0
  <1>t. TypeOK /\ Phase(i) /\ Counted(i) /\ Walk(i) /\ At(i, "total")
    BY DEF TypeInv, SetTotalRows
  <1>1. Rows(i) \in Rowed /\ job[i].row = 1 /\ job[i].counts = NoCounts /\ job[i].inserted = 0
        /\ imports[i].status = "VALIDATING"
    BY <1>t DEF Walk, At, WithRows, Phase, Preparing, SetTotalRows, Exists, ImportStatus
  <1>2. Len(Rows(i)) \in Nat \ {0}
    BY <1>1, FileRows
  <1>3. imports \in [Imports -> ImportRecord] /\ "VALIDATING" \in Status
    BY <1>t DEF TypeOK, ImportRecord, Status, ImportStatus
  <1>4. ASSUME NEW r \in ImportRecord, NEW n \in Nat
        PROVE  LET q == [r EXCEPT !.status = "VALIDATING", !.totalRows = n] IN
               /\ q \in ImportRecord /\ q.status = "VALIDATING" /\ q.type = r.type
               /\ q.file = r.file /\ q.totalRows = n
    BY <1>3 DEF ImportRecord
  <1>5. imports' = [imports EXCEPT ![i] = [imports[i] EXCEPT !.status = "VALIDATING",
                                                          !.totalRows = Len(Rows(i))]]
    BY <1>3 DEF SetTotalRows
  <1>6. /\ imports' \in [Imports -> ImportRecord]
        /\ imports'[i].status = "VALIDATING" /\ imports'[i].type = imports[i].type
        /\ imports'[i].file = imports[i].file /\ imports'[i].totalRows = Len(Rows(i))
        /\ \A k \in Imports \ {i} : imports'[k] = imports[k]
    BY <1>2, <1>3, <1>4, <1>5
  <1>7. Go(i, "insert") /\ UNCHANGED <<results, entities, deliveries>> /\ "insert" \in Running
    BY DEF SetTotalRows, Running, InTry
  <1>8. /\ JobsTyped' /\ job'[i].at = "insert" /\ job'[i].row = job[i].row
        /\ job'[i].inserted = job[i].inserted /\ job'[i].counts = job[i].counts
        /\ \A k \in Imports \ {i} : job'[k] = job[k]
    BY <1>t, <1>7, GoTyped
  <1>9. TypeOK' /\ Others(i)
    BY <1>t, <1>6, <1>7, <1>8 DEF TypeOK, JobsTyped, JobRecord, ImportRecord, Others
  <1>10. (Phase(i) /\ Counted(i) /\ Walk(i))'
    <2>1. deliveries[i] > 0
      BY <1>t DEF Counted, At, Running, InTry
    <2> QED
      BY <2>1, <1>1, <1>2, <1>6, <1>7, <1>8 DEF Phase, Counted, Walk, At, Rows, Preparing, OnRow,
         WithRows, Running, InTry
  <1> QED
    BY <1>1, <1>6, <1>8, <1>9, <1>10, TypeLocal

LEMMA CompleteTyped ==
    ASSUME TypeInv, NEW i \in Imports, Complete(i)
    PROVE  /\ TypeInv' /\ Others(i)
           /\ imports'[i].status = "COMPLETED" /\ imports'[i].type = imports[i].type
           /\ imports'[i].file = imports[i].file /\ imports'[i].totalRows = imports[i].totalRows
           /\ imports'[i].processedRows = Len(Rows(i)) /\ imports'[i].counts = job[i].counts
           /\ job'[i].at = "notify"
  <1>t. TypeOK /\ Phase(i) /\ Counted(i) /\ Walk(i) /\ At(i, "complete") /\ job[i] \in JobRecord
    BY JobsAreTyped DEF TypeInv, Complete, JobsTyped
  <1>1. Rows(i) \in Rowed /\ job[i].counts \in [RowStatus -> Nat]
    BY <1>t DEF Walk, At, WithRows, JobRecord
  <1>2. Len(Rows(i)) \in Nat
    BY <1>1, FileRows
  <1>3. imports \in [Imports -> ImportRecord] /\ "COMPLETED" \in Status
    BY <1>t DEF TypeOK, ImportRecord, Status, ImportStatus
  <1>4. ASSUME NEW r \in ImportRecord, NEW n \in Nat, NEW c \in [RowStatus -> Nat]
        PROVE  LET q == [r EXCEPT !.status = "COMPLETED", !.processedRows = n, !.counts = c] IN
               /\ q \in ImportRecord /\ q.status = "COMPLETED" /\ q.type = r.type
               /\ q.file = r.file /\ q.totalRows = r.totalRows
               /\ q.processedRows = n /\ q.counts = c
    BY <1>3 DEF ImportRecord
  <1>5. imports' = [imports EXCEPT ![i] = [imports[i] EXCEPT !.status = "COMPLETED",
                      !.processedRows = Len(Rows(i)), !.counts = job[i].counts]]
    BY <1>3 DEF Complete
  <1>6. /\ imports' \in [Imports -> ImportRecord]
        /\ imports'[i].status = "COMPLETED" /\ imports'[i].type = imports[i].type
        /\ imports'[i].file = imports[i].file /\ imports'[i].totalRows = imports[i].totalRows
        /\ imports'[i].processedRows = Len(Rows(i)) /\ imports'[i].counts = job[i].counts
        /\ \A k \in Imports \ {i} : imports'[k] = imports[k]
    <2>1. PICK r \in ImportRecord, n \in Nat, c \in [RowStatus -> Nat] :
            r = imports[i] /\ n = Len(Rows(i)) /\ c = job[i].counts
      BY <1>1, <1>2, <1>3
    <2> DEFINE q == [r EXCEPT !.status = "COMPLETED", !.processedRows = n, !.counts = c]
    <2>2. /\ q \in ImportRecord /\ q.status = "COMPLETED" /\ q.type = r.type
          /\ q.file = r.file /\ q.totalRows = r.totalRows
          /\ q.processedRows = n /\ q.counts = c
      BY <1>3 DEF ImportRecord
    <2>3. imports' = [imports EXCEPT ![i] = q]
      BY <1>5, <2>1
    <2> HIDE DEF q
    <2> QED
      BY <1>3, <2>1, <2>2, <2>3
  <1>7. Leave(i, "notify") /\ UNCHANGED <<results, entities, deliveries>> /\ "notify" \in Running
    BY DEF Complete, Running
  <1>8. /\ JobsTyped' /\ job'[i].at = "notify" /\ \A k \in Imports \ {i} : job'[k] = job[k]
    BY <1>t, <1>7, LeaveTyped, FreshTyped
  <1>9. TypeOK' /\ Others(i)
    BY <1>t, <1>6, <1>7, <1>8 DEF TypeOK, JobsTyped, JobRecord, ImportRecord, Others
  <1>10. (Phase(i) /\ Counted(i) /\ Walk(i))'
    <2>1. deliveries[i] > 0
      BY <1>t DEF Counted, At, Running, InTry
    <2> QED
      BY <2>1, <1>6, <1>7, <1>8 DEF Phase, Counted, Walk, At, Rows, Preparing, OnRow,
         WithRows, Running, InTry
  <1> QED
    BY <1>6, <1>8, <1>9, <1>10, TypeLocal

LEMMA ResultsTyped ==
    ASSUME TypeInv, NEW i \in Imports, CreateRowResults(i) \/ UpdateRowResult(i)
    PROVE  TypeInv' /\ Others(i)
  <1>t. TypeOK /\ Phase(i) /\ Counted(i) /\ Walk(i) /\ job[i].row \in Nat
    BY DEF TypeInv, TypeOK
  <1>1. UNCHANGED <<imports, entities, deliveries>> /\ job[i].at \in {"insert", "result"}
    BY DEF CreateRowResults, UpdateRowResult, At
  <1>2. /\ results' \in [Imports -> Seq(Result)]
        /\ \A k \in Imports \ {i} : results'[k] = results[k]
        /\ JobsTyped' /\ \A k \in Imports \ {i} : job'[k] = job[k]
    <2>1. CASE CreateRowResults(i)
      BY <2>1, BatchEffect
    <2>2. CASE UpdateRowResult(i)
      BY <2>2, ResultEffect
    <2> QED
      BY <2>1, <2>2
  <1>3. TypeOK' /\ Others(i)
    BY <1>t, <1>1, <1>2 DEF TypeOK, JobsTyped, JobRecord, Others, Result
  <1>4. Rows(i) \in Rowed /\ Len(Rows(i)) \in Nat \ {0}
    BY <1>t, <1>1, FileRows DEF Walk, WithRows, OnRow
  <1>5. CASE CreateRowResults(i)
    <2>1. PICK last \in (job[i].inserted + 1)..Len(Rows(i)) :
            /\ job'[i].inserted = last /\ job'[i].row = job[i].row
            /\ job'[i].counts = job[i].counts
            /\ job'[i].at = IF last = Len(Rows(i)) THEN "start" ELSE "insert"
      BY <1>5, BatchEffect
    <2>2. At(i, "insert") /\ deliveries[i] > 0
      BY <1>t, <1>5 DEF CreateRowResults, At, Counted, Running, InTry
    <2>3. At(i, "insert")' => job'[i].inserted < Len(Rows(i))
      BY <1>4, <2>1 DEF At
    <2>4. (Phase(i) /\ Counted(i) /\ Walk(i))'
      BY <1>t, <1>1, <1>4, <2>1, <2>2, <2>3 DEF Phase, Counted, Walk, At, Rows, Preparing, OnRow,
         WithRows, Running, InTry
    <2> QED
      BY <1>3, <2>4, TypeLocal
  <1>6. CASE UpdateRowResult(i)
    <2>1. /\ job'[i].row = job[i].row + 1
          /\ job'[i].at = IF job[i].row = Len(Rows(i)) THEN "complete" ELSE "row"
      BY <1>6, ResultEffect
    <2>2. At(i, "result") /\ deliveries[i] > 0 /\ job[i].row \in 1..Len(Rows(i))
      BY <1>t, <1>6 DEF UpdateRowResult, At, Counted, Running, InTry, Walk, OnRow
    <2>3. /\ job'[i].at = "row" => job'[i].row \in 1..Len(Rows(i))
          /\ job'[i].at = "complete" => job'[i].row = Len(Rows(i)) + 1
      BY <1>t, <1>4, <2>1, <2>2
    <2>4. (Phase(i) /\ Counted(i) /\ Walk(i))'
      BY <1>t, <1>1, <1>4, <2>1, <2>2, <2>3 DEF Phase, Counted, Walk, At, Rows, Preparing, OnRow,
         WithRows, Running, InTry
    <2> QED
      BY <1>3, <2>4, TypeLocal
  <1> QED
    BY <1>5, <1>6

\* What a step of processRow does: it ends without having made anything, it goes on to
\* the next check, or it makes the entity of its row.
Passes(i) ==
    /\ entities' = entities
    /\ \/ /\ job[i].at \in {"row", "hash", "create"}
          /\ job'[i].at = "result" /\ job'[i].status = "ERROR"
       \/ /\ At(i, "hash") /\ Live("OPERATION", Rows(i)[job[i].row]) # {}
          /\ job'[i].at = "result" /\ job'[i].status = "SKIPPED"
       \/ /\ At(i, "row") /\ imports[i].type = "OPERATION" /\ Rows(i)[job[i].row] # Invalid
          /\ job'[i].at = "hash"
       \/ /\ At(i, "hash") /\ Live("OPERATION", Rows(i)[job[i].row]) = {}
          /\ job'[i].at = "create"

Makes(i) ==
    /\ entities' = entities \cup {Entity(i)}
    /\ \/ At(i, "row") /\ imports[i].type = "CLIENT"
       \/ At(i, "create")
    /\ job'[i].at = "result" /\ job'[i].status \in {"SUCCESS", "ERROR"}

EntityRecord == [type: EntityType, key: Keys, source: Imports, row: Nat \ {0}, delivery: Nat \ {0},
                 beside: SUBSET Imports]

LEMMA RowEffect ==
    ASSUME TypeInv, NEW i \in Imports, ProcessRow(i)
    PROVE  /\ UNCHANGED <<imports, results, deliveries>>
           /\ JobsTyped' /\ \A k \in Imports \ {i} : job'[k] = job[k]
           /\ job'[i].row = job[i].row /\ job'[i].counts = job[i].counts
           /\ entities' \subseteq EntityRecord
           /\ Passes(i) \/ Makes(i)
  <1>t. TypeOK /\ Phase(i) /\ Counted(i) /\ Walk(i) /\ entities \subseteq EntityRecord
    BY DEF TypeInv, TypeOK, EntityRecord
  <1>1. job[i].at \in OnRow /\ UNCHANGED <<imports, results, deliveries>>
    BY DEF ProcessRow, RowFails, CreateClient, FindClient, CheckImportHash, CreateOperation, Insert,
       At, OnRow, tables
  <1>2. /\ Rows(i) \in Rowed /\ job[i].row \in 1..Len(Rows(i)) /\ deliveries[i] \in Nat \ {0}
        /\ job[i].row \in Nat \ {0}
    BY <1>t, <1>1 DEF Walk, WithRows, OnRow, Counted, Running, InTry, TypeOK
  <1>3. ASSUME Rows(i)[job[i].row] # Invalid
        PROVE  Entity(i) \in EntityRecord
    <2>1. Rows(i)[job[i].row] \in Keys
      BY <1>2, <1>3, FileRows
    <2>2. imports[i].type \in EntityType
      BY <1>t DEF TypeOK
    <2>3. Beside(i) \in SUBSET Imports
      BY DEF Beside
    <2> QED
      BY <1>2, <2>1, <2>2, <2>3 DEF Entity, EntityRecord
  <1>4. ASSUME NEW st \in RowStatus, RowYields(i, st, NoEntity), entities' = entities
        PROVE  /\ JobsTyped' /\ \A k \in Imports \ {i} : job'[k] = job[k]
               /\ job'[i].row = job[i].row /\ job'[i].counts = job[i].counts
               /\ job'[i].at = "result" /\ job'[i].status = st
    BY <1>t, <1>4, RowYieldsTyped
  <1>5. ASSUME NEW at \in {"hash", "create"}, Go(i, at), entities' = entities
        PROVE  /\ JobsTyped' /\ \A k \in Imports \ {i} : job'[k] = job[k]
               /\ job'[i].row = job[i].row /\ job'[i].counts = job[i].counts
               /\ job'[i].at = at
    BY <1>t, <1>5, GoTyped DEF Running, InTry
  <1>6. ASSUME Insert(i), Rows(i)[job[i].row] # Invalid
        PROVE  /\ JobsTyped' /\ \A k \in Imports \ {i} : job'[k] = job[k]
               /\ job'[i].row = job[i].row /\ job'[i].counts = job[i].counts
               /\ job'[i].at = "result" /\ job'[i].status \in {"SUCCESS", "ERROR"}
               /\ entities' \subseteq EntityRecord /\ entities' = entities \cup {Entity(i)}
    <2>1. entities' = entities \cup {Entity(i)} /\ entities' \subseteq EntityRecord
      BY <1>t, <1>3, <1>6 DEF Insert
    <2>2. PICK st \in {"SUCCESS", "ERROR"}, en \in entities' \cup {NoEntity} : RowYields(i, st, en)
      BY <1>6, <2>1 DEF Insert
    <2> QED
      BY <1>t, <2>1, <2>2, RowYieldsTyped DEF RowStatus
  <1>7. CASE RowFails(i)
    BY <1>t, <1>1, <1>4, <1>7 DEF RowFails, RowStatus, tables, Passes
  <1>8. CASE CreateClient(i)
    BY <1>1, <1>6, <1>8 DEF CreateClient, Makes
  <1>9. CASE FindClient(i)
    <2>1. \/ Go(i, "hash") \/ RowYields(i, "ERROR", NoEntity)
      BY <1>9 DEF FindClient
    <2> QED
      BY <1>t, <1>1, <1>4, <1>5, <1>9, <2>1 DEF FindClient, RowStatus, tables, Passes, At
  <1>10. CASE CheckImportHash(i)
    BY <1>t, <1>1, <1>4, <1>5, <1>10 DEF CheckImportHash, RowStatus, tables, Passes, At
  <1>11. CASE CreateOperation(i)
    <2>1. Rows(i)[job[i].row] # Invalid
      BY <1>t, <1>11 DEF Walk, CreateOperation, At
    <2> QED
      BY <1>1, <1>6, <1>11, <2>1 DEF CreateOperation, Makes
  <1> QED
    BY <1>7, <1>8, <1>9, <1>10, <1>11 DEF ProcessRow

LEMMA RowTyped ==
    ASSUME TypeInv, NEW i \in Imports, ProcessRow(i)
    PROVE  TypeInv' /\ Others(i)
  <1>t. TypeOK /\ Phase(i) /\ Counted(i) /\ Walk(i)
    BY DEF TypeInv
  <1>1. /\ UNCHANGED <<imports, results, deliveries>>
        /\ JobsTyped' /\ \A k \in Imports \ {i} : job'[k] = job[k]
        /\ job'[i].row = job[i].row /\ entities' \subseteq EntityRecord
        /\ Passes(i) \/ Makes(i)
    BY RowEffect
  <1>2. entities \subseteq entities' /\ \A e \in entities' \ entities : e.source = i
    BY <1>1 DEF Passes, Makes, Entity
  <1>3. results' \in [Imports -> Seq(Result)]'
    <2>1. results \in [Imports -> Seq(Result)] /\ Result \subseteq Result'
      BY <1>t, <1>2 DEF TypeOK, Result
    <2>2. Seq(Result) \subseteq Seq(Result')
      BY <2>1, SeqMonotonic
    <2> QED
      BY <1>1, <2>1, <2>2
  <1>4. TypeOK' /\ Others(i)
    BY <1>t, <1>1, <1>2, <1>3 DEF TypeOK, JobsTyped, JobRecord, EntityRecord, Result, Others
  <1>5. job[i].at \in {"row", "hash", "create"} /\ job'[i].at \in {"hash", "create", "result"}
    BY <1>1 DEF Passes, Makes, At
  <1>6. (Phase(i) /\ Counted(i))'
    BY <1>t, <1>1, <1>5 DEF Phase, Counted, At, Preparing, OnRow, Running, InTry
  <1>7. Walk(i)'
    BY <1>t, <1>1, <1>5 DEF Walk, At, Rows, OnRow, WithRows, Passes, Makes
  <1> QED
    BY <1>4, <1>6, <1>7, TypeLocal

\* Steps that neither touch the results nor walk on: an import is born, deleted, gets a
\* status, or its message moves.
SameFile(i) == imports'[i].file = imports[i].file /\ imports'[i].type = imports[i].type
                 /\ imports'[i].totalRows = imports[i].totalRows

Quiet(i) ==
    /\ entities' = entities
    /\ \/ /\ imports[i].status = "UNBORN" /\ imports'[i].status = "PENDING"
          /\ job' = job /\ results' = results
       \/ /\ Exists(i) /\ imports'[i].status = "DELETED" /\ results'[i] = <<>> /\ job' = job
          /\ SameFile(i)
       \/ /\ results' = results /\ SameFile(i) /\ Exists(i)
          /\ \/ /\ imports[i].status = "PENDING" /\ imports'[i].status = "VALIDATING"
                /\ job'[i].at = "send"
             \/ /\ At(i, "claim") /\ imports'[i].status = "VALIDATING" /\ job'[i].at = "parse"
             \/ /\ At(i, "start") /\ imports'[i].status = "PROCESSING" /\ job'[i].at = "row"
                /\ job'[i].row = job[i].row /\ job'[i].counts = job[i].counts
             \/ /\ At(i, "fail") /\ imports'[i].status = "FAILED" /\ job'[i].at = "notify"
       \/ /\ results' = results /\ imports' = imports
          /\ \/ job'[i].at \in {"queued", "lost", "fail", "done"}
             \/ /\ At(i, "queued") /\ imports[i].status \in Early /\ job'[i].at = "claim"
             \/ /\ At(i, "parse") /\ job'[i].at = "total"

QuietAction(i) ==
    \/ Create(i) \/ StartImport(i) \/ SendJob(i) \/ SendFails(i) \/ DeleteImport(i) \/ Deliver(i)
    \/ Claim(i) \/ ParseFile(i) \/ StartProcessing(i) \/ Throw(i) \/ MarkFailed(i) \/ Notify(i)
    \/ Retry(i)

LEMMA QuietEffect ==
    ASSUME TypeInv, NEW i \in Imports, QuietAction(i)
    PROVE  Quiet(i)
  <1>t. TypeOK /\ JobsTyped /\ Phase(i)
    BY JobsAreTyped DEF TypeInv
  <1>1. CASE Create(i)
    <2>1. PICK u \in Uploads[i] : imports' = [imports EXCEPT ![i] = ImportRow(u)]
      BY <1>1 DEF Create
    <2>2. imports'[i].status = "PENDING"
      BY <1>t, <2>1 DEF TypeOK, ImportRow
    <2> QED
      BY <1>1, <2>2 DEF Create, Quiet
  <1>2. ASSUME NEW st \in Status, imports' = [imports EXCEPT ![i].status = st]
        PROVE  imports'[i].status = st /\ SameFile(i)
    BY <1>t, <1>2, StatusTyped DEF SameFile
  <1>3. ASSUME NEW at \in Running \cup {"idle", "send", "queued", "done", "lost"},
               Go(i, at), entities' = entities
        PROVE  job'[i].at = at /\ job'[i].row = job[i].row /\ job'[i].counts = job[i].counts
    BY <1>t, <1>3, GoTyped
  <1>4. ASSUME NEW at \in Running \cup {"idle", "send", "queued", "done", "lost"},
               Leave(i, at), entities' = entities
        PROVE  job'[i].at = at
    BY <1>t, <1>4, LeaveTyped, FreshTyped
  <1>5. CASE StartImport(i)
    BY <1>2, <1>3, <1>5 DEF StartImport, Quiet, Exists, Status, ImportStatus
  <1>6. CASE SendJob(i) \/ SendFails(i)
    BY <1>3, <1>6 DEF SendJob, SendFails, Quiet, tables
  <1>7. CASE DeleteImport(i)
    <2>1. results'[i] = <<>>
      BY <1>t, <1>7 DEF DeleteImport, TypeOK
    <2> QED
      BY <1>2, <1>7, <2>1 DEF DeleteImport, Quiet, Status
  <1>8. CASE Deliver(i)
    <2>1. CASE Skipped(i)
      BY <1>4, <1>8, <2>1 DEF Deliver, Quiet, tables
    <2>2. CASE ~Skipped(i)
      <3>1. job'[i].at = "claim" /\ At(i, "queued") /\ UNCHANGED tables
        BY <1>4, <1>8, <2>2 DEF Deliver, tables, Running, InTry
      <3>2. imports[i].status \in Early
        BY <2>2 DEF Skipped, Exists, ImportStatus, Ended, Early
      <3> QED
        BY <3>1, <3>2 DEF Quiet, tables
    <2> QED
      BY <2>1, <2>2
  <1>9. CASE Claim(i)
    BY <1>2, <1>3, <1>9 DEF Claim, SetStatus, Quiet, Status, ImportStatus, Running, InTry
  <1>10. CASE StartProcessing(i)
    BY <1>2, <1>3, <1>10 DEF StartProcessing, SetStatus, Quiet, Status, ImportStatus, Running, InTry
  <1>11. CASE MarkFailed(i)
    BY <1>2, <1>4, <1>11 DEF MarkFailed, SetStatus, Quiet, Status, ImportStatus, Running, At
  <1>12. CASE ParseFile(i)
    <2>1. PICK at \in {"fail", "total"} : Leave(i, at)
      BY <1>12 DEF ParseFile
    <2>2. job'[i].at = at /\ At(i, "parse")
      BY <1>4, <1>12, <2>1 DEF ParseFile, tables, Running, InTry
    <2> QED
      BY <1>12, <2>2 DEF ParseFile, Quiet, tables
  <1>13. CASE Throw(i) \/ Notify(i) \/ Retry(i)
    <2>1. PICK at \in {"queued", "lost", "fail", "done"} : Leave(i, at)
      BY <1>13 DEF Throw, Notify, Retry
    <2> QED
      BY <1>4, <1>13, <2>1 DEF Throw, Notify, Retry, Quiet, tables, Running
  <1> QED
    BY <1>1, <1>5, <1>6, <1>7, <1>8, <1>9, <1>10, <1>11, <1>12, <1>13 DEF QuietAction

LEMMA StepCases ==
    ASSUME Next
    PROVE  \E i \in Imports :
             \/ QuietAction(i) \/ SetTotalRows(i) \/ CreateRowResults(i) \/ ProcessRow(i)
             \/ UpdateRowResult(i) \/ Complete(i)
  BY DEF Next, Queue, ProcessJob, QuietAction

LEMMA TypeStep ==
    ASSUME TypeInv, NEW i \in Imports,
           \/ QuietAction(i) \/ SetTotalRows(i) \/ CreateRowResults(i) \/ ProcessRow(i)
           \/ UpdateRowResult(i) \/ Complete(i)
    PROVE  TypeInv' /\ Others(i)
  BY RequestsTyped, DeliveryTyped, StatusSet, LeavingTyped, TotalTyped, CompleteTyped, ResultsTyped,
     RowTyped DEF QuietAction

LEMMA TypeStutters ==
    ASSUME TypeInv, UNCHANGED vars
    PROVE  TypeInv'
  BY DEF TypeInv, TypeOK, Phase, Counted, Walk, At, Rows, vars

\* The tables, the messages and the consumers' variables keep their types.
THEOREM TypeCorrect == Spec => []TypeOK
  <1>1. TypeInv /\ [Next]_vars => TypeInv'
    BY StepCases, TypeStep, TypeStutters
  <1>2. TypeInv => TypeOK
    BY DEF TypeInv
  <1> QED
    BY TypeInit, <1>1, <1>2, PTL DEF Spec

-----------------------------------------------------------------------------
(* What is made of a row.                                                  *)

LEMMA MadeLocal ==
    ASSUME TypeInv, MadeInv, NEW i \in Imports, Others(i), RowMadeOnce', Making(i)'
    PROVE  MadeInv'
  <1>1. ASSUME NEW k \in Imports, k # i
        PROVE  Making(k)'
    <2>1. imports'[k] = imports[k] /\ job'[k] = job[k] /\ Making(k)
      BY <1>1 DEF Others, MadeInv
    <2>2. \A e \in entities' : e.source = k => e \in entities
      BY <1>1 DEF Others
    <2> QED
      BY <2>1, <2>2 DEF Making
  <1> QED
    BY <1>1 DEF MadeInv

LEMMA MadeStep ==
    ASSUME TypeInv, MadeInv, NEW i \in Imports, TypeInv', Others(i),
           \/ QuietAction(i) \/ SetTotalRows(i) \/ CreateRowResults(i) \/ ProcessRow(i)
           \/ UpdateRowResult(i) \/ Complete(i)
    PROVE  MadeInv'
  <1>m. RowMadeOnce /\ Making(i) /\ Phase(i)
    BY DEF MadeInv, TypeInv
  <1>k. ASSUME entities' = entities
        PROVE  RowMadeOnce'
    BY <1>m, <1>k DEF RowMadeOnce
  <1>1. CASE QuietAction(i)
    <2>1. Quiet(i)
      BY <1>1, QuietEffect
    <2>2. Making(i)'
      BY <1>m, <2>1 DEF Making, Quiet, At, Early, Preparing, OnRow
    <2>3. RowMadeOnce'
      BY <1>k, <2>1 DEF Quiet
    <2> QED
      BY <2>2, <2>3, MadeLocal
  <1>2. CASE SetTotalRows(i)
    <2>1. job'[i].at = "insert" /\ At(i, "total") /\ entities' = entities
      BY <1>2, TotalTyped DEF SetTotalRows
    <2>2. Making(i)'
      BY <1>m, <2>1 DEF Making, At, Early, Preparing, OnRow
    <2> QED
      BY <1>k, <2>1, <2>2, MadeLocal
  <1>3. CASE CreateRowResults(i)
    <2>1. job'[i].at \in {"insert", "start"}
      BY <1>3, BatchEffect
    <2>2. At(i, "insert") /\ UNCHANGED <<imports, entities>>
      BY <1>3 DEF CreateRowResults
    <2>3. Making(i)'
      BY <1>m, <2>1, <2>2 DEF Making, At, Early, Preparing, OnRow
    <2> QED
      BY <1>k, <2>2, <2>3, MadeLocal
  <1>4. CASE ProcessRow(i)
    <2>1. UNCHANGED imports /\ job'[i].row = job[i].row /\ (Passes(i) \/ Makes(i))
      BY <1>4, RowEffect
    <2>2. CASE Passes(i)
      <3>1. /\ job[i].at \in OnRow \ {"result"} /\ job'[i].at \in OnRow /\ entities' = entities
            /\ job'[i].row = job[i].row /\ imports' = imports
        BY <2>1, <2>2 DEF Passes, At, OnRow
      <3>2. Making(i)'
        BY <1>m, <3>1 DEF Making, Preparing, OnRow
      <3> QED
        BY <1>k, <3>1, <3>2, MadeLocal
    <2>3. CASE Makes(i)
      <3>1. entities' = entities \cup {Entity(i)} /\ Entity(i).source = i
            /\ Entity(i).row = job[i].row /\ job[i].at \in OnRow \ {"result"}
        BY <2>3 DEF Makes, Entity, At, OnRow
      <3>2. \A e \in entities : e.source = i => e.row # job[i].row
        BY <1>m, <3>1 DEF Making
      <3>3. RowMadeOnce'
        BY <1>m, <3>1, <3>2 DEF RowMadeOnce
      <3>4. job[i].row \in Nat /\ imports[i].status \notin Early
        BY <1>m, <3>1 DEF TypeInv, TypeOK, Phase, OnRow, Early
      <3>5. \A e \in entities' : e.source = i => e.row <= job[i].row
        BY <1>m, <3>1, <3>4 DEF Making
      <3>6. job'[i].at = "result" /\ job'[i].row = job[i].row /\ imports' = imports
        BY <2>1, <2>3 DEF Makes
      <3>7. Making(i)'
        BY <3>4, <3>5, <3>6 DEF Making, Preparing, OnRow
      <3> QED
        BY <3>3, <3>7, MadeLocal
    <2> QED
      BY <2>1, <2>2, <2>3
  <1>5. CASE UpdateRowResult(i)
    <2>1. At(i, "result") /\ UNCHANGED <<imports, entities>>
      BY <1>5 DEF UpdateRowResult
    <2>2. job'[i].row = job[i].row + 1 /\ job'[i].at \in {"row", "complete"}
      BY <1>5, ResultEffect
    <2>3. job[i].row \in Nat /\ \A e \in entities : e.row \in Nat
      BY DEF TypeInv, TypeOK
    <2>4. \A e \in entities' : e.source = i => e.row < job'[i].row
      BY <1>m, <2>1, <2>2, <2>3 DEF Making, At, OnRow
    <2>5. job'[i].row \in Nat
      BY <2>2, <2>3
    <2>6. \A e \in entities' : e.source = i => e.row <= job'[i].row /\ e.row # job'[i].row
      BY <2>1, <2>3, <2>4, <2>5
    <2>7. Making(i)'
      BY <1>m, <2>1, <2>2, <2>6 DEF Making, At, Early, Preparing, OnRow
    <2> QED
      BY <1>k, <2>1, <2>7, MadeLocal
  <1>6. CASE Complete(i)
    <2>1. imports'[i].status = "COMPLETED" /\ job'[i].at = "notify" /\ entities' = entities
      BY <1>6, CompleteTyped DEF Complete
    <2>2. Making(i)'
      BY <2>1 DEF Making, Early, Preparing, OnRow
    <2> QED
      BY <1>k, <2>1, <2>2, MadeLocal
  <1> QED
    BY <1>1, <1>2, <1>3, <1>4, <1>5, <1>6

\* However often a message is delivered, interrupted and delivered again, no row of a
\* file makes two clients or operations.
THEOREM RowsMadeOnce == Spec => []RowMadeOnce
  <1>1. Init => MadeInv
    BY FreshTyped DEF Init, MadeInv, RowMadeOnce, Making
  <1>2. TypeInv /\ MadeInv /\ [Next]_vars => TypeInv' /\ MadeInv'
    <2>1. ASSUME TypeInv, MadeInv, Next
          PROVE  TypeInv' /\ MadeInv'
      BY <2>1, StepCases, TypeStep, MadeStep
    <2>2. ASSUME TypeInv, MadeInv, UNCHANGED vars
          PROVE  TypeInv' /\ MadeInv'
      BY <2>2, TypeStutters DEF MadeInv, RowMadeOnce, Making, vars
    <2> QED
      BY <2>1, <2>2
  <1>3. MadeInv => RowMadeOnce
    BY DEF MadeInv
  <1> QED
    BY TypeInit, <1>1, <1>2, <1>3, PTL DEF Spec

-----------------------------------------------------------------------------
(* What is counted.                                                        *)

LEMMA CountsLocal ==
    ASSUME CountsInv, NEW i \in Imports, Others(i), Listing(i)',
           (imports[i].status = "COMPLETED" => CountsMatch(i))'
    PROVE  CountsInv'
  <1>1. ASSUME NEW k \in Imports, k # i
        PROVE  (Listing(k) /\ (imports[k].status = "COMPLETED" => CountsMatch(k)))'
    <2>1. imports'[k] = imports[k] /\ job'[k] = job[k] /\ results'[k] = results[k]
      BY <1>1 DEF Others
    <2>2. \A n, s : Settled(k, n, s)' = Settled(k, n, s)
      BY <2>1 DEF Settled, Reported
    <2>3. Listing(k)'
      BY <2>1, <2>2 DEF CountsInv, Listing, Listed, At, Exists, Rows
    <2>4. (imports[k].status = "COMPLETED" => CountsMatch(k))'
      BY <2>1, <2>2 DEF CountsInv, CountsMatch, Rows
    <2> QED
      BY <2>3, <2>4
  <1> QED
    BY <1>1 DEF CountsInv

LEMMA SettledFinite ==
    ASSUME NEW i \in Imports, NEW n \in Nat, NEW s
    PROVE  IsFiniteSet(Settled(i, n, s)) /\ Cardinality(Settled(i, n, s)) \in Nat
  <1>1. IsFiniteSet(1..n) /\ Settled(i, n, s) \subseteq 1..n
    BY FS_Interval DEF Settled
  <1> QED
    BY <1>1, FS_Subset, FS_CardinalityType

LEMMA QuietCounts ==
    ASSUME TypeInv, CountsInv, NEW i \in Imports, TypeInv', Others(i), QuietAction(i)
    PROVE  CountsInv'
  <1>m. /\ Listing(i) /\ (imports[i].status = "COMPLETED" => CountsMatch(i))
        /\ Phase(i) /\ Walk(i) /\ Phase(i)'
    BY DEF CountsInv, TypeInv
  <1>q. Quiet(i)
    BY QuietEffect
  <1>1. CASE imports[i].status = "UNBORN" /\ imports'[i].status = "PENDING"
    <2>1. results'[i] = <<>> /\ job'[i].at = "idle"
      BY <1>1, <1>m, <1>q DEF Quiet, Listing, Exists, ImportStatus, Phase, At
    <2>2. Listing(i)'
      BY <1>1, <2>1 DEF Listing, At, OnRow
    <2> QED
      BY <1>1, <2>2, CountsLocal
  <1>2. CASE imports'[i].status = "DELETED" /\ results'[i] = <<>>
    <2>1. Listing(i)'
      BY <1>2 DEF Listing, Exists, ImportStatus, Early
    <2> QED
      BY <1>2, <2>1, CountsLocal
  <1>3. CASE /\ results' = results /\ SameFile(i) /\ Exists(i)
             /\ imports'[i].status \in {"VALIDATING", "FAILED"}
             /\ job'[i].at \in {"send", "parse", "notify"}
             /\ imports'[i].status = "VALIDATING" => imports[i].status \in Early
    <2>1. Listing(i)'
      BY <1>m, <1>3 DEF Listing, Early, At, OnRow
    <2> QED
      BY <1>3, <2>1, CountsLocal
  <1>4. CASE /\ At(i, "start") /\ results' = results /\ SameFile(i) /\ Exists(i)
             /\ imports'[i].status = "PROCESSING" /\ job'[i].at = "row"
             /\ job'[i].row = job[i].row /\ job'[i].counts = job[i].counts
    <2>1. /\ results' = results /\ SameFile(i) /\ Exists(i) /\ imports'[i].status = "PROCESSING"
          /\ job'[i].at = "row" /\ job'[i].row = job[i].row /\ job'[i].counts = job[i].counts
      BY <1>4
    <2>2. job[i].row = 1 /\ job[i].counts = NoCounts /\ imports[i].status = "VALIDATING"
          /\ job[i].at = "start"
      BY <1>m, <1>4, <2>1 DEF Walk, Phase, At, Preparing, Exists, ImportStatus
    <2>3. \A s : Settled(i, 0, s)' = {}
      BY DEF Settled
    <2>4. \A s \in RowStatus \ {"PENDING"} : job'[i].counts[s] = Cardinality(Settled(i, 0, s)')
      BY <2>1, <2>2, <2>3, FS_EmptySet DEF NoCounts
    <2>5. \A n \in 1..Len(Rows(i)) : Listed(i, n)
      BY <1>m, <2>1, <2>2 DEF Listing
    <2>6. imports[i].totalRows = Len(Rows(i))
      BY <1>m, <2>1, <2>2 DEF Listing
    <2>7. \A k \in DOMAIN results[i] : results[i][k].status = "PENDING"
      BY <1>m, <2>2 DEF Listing, Early
    <2>8. job'[i].row - 1 = 0
      BY <2>1, <2>2
    <2>9. Listing(i)'
      BY <2>1, <2>4, <2>5, <2>6, <2>7, <2>8 DEF Listing, At, OnRow, Early, Listed, Rows, SameFile
    <2> QED
      BY <2>1, <2>9, CountsLocal
  <1>5. CASE /\ results' = results /\ imports' = imports
             /\ job'[i].at \in {"queued", "lost", "fail", "done", "claim", "total"}
    <2>1. \A n, s : Settled(i, n, s)' = Settled(i, n, s)
      BY <1>5 DEF Settled, Reported
    <2>2. Listing(i)'
      BY <1>m, <1>5 DEF Listing, At, OnRow, Exists
    <2>3. (imports[i].status = "COMPLETED" => CountsMatch(i))'
      BY <1>m, <1>5, <2>1 DEF CountsMatch, Rows
    <2> QED
      BY <2>2, <2>3, CountsLocal
  <1>6. \/ imports[i].status = "UNBORN" /\ imports'[i].status = "PENDING"
        \/ imports'[i].status = "DELETED" /\ results'[i] = <<>>
        \/ /\ results' = results /\ SameFile(i) /\ Exists(i)
           /\ imports'[i].status \in {"VALIDATING", "FAILED"}
           /\ job'[i].at \in {"send", "parse", "notify"}
           /\ imports'[i].status = "VALIDATING" => imports[i].status \in Early
        \/ /\ At(i, "start") /\ results' = results /\ SameFile(i) /\ Exists(i)
           /\ imports'[i].status = "PROCESSING" /\ job'[i].at = "row"
           /\ job'[i].row = job[i].row /\ job'[i].counts = job[i].counts
        \/ /\ results' = results /\ imports' = imports
           /\ job'[i].at \in {"queued", "lost", "fail", "done", "claim", "total"}
    BY <1>m, <1>q DEF Quiet, At, Phase, Preparing, Exists, ImportStatus, Early
  <1> QED
    BY <1>1, <1>2, <1>3, <1>4, <1>5, <1>6

LEMMA BatchCounts ==
    ASSUME TypeInv, CountsInv, NEW i \in Imports, Others(i), CreateRowResults(i)
    PROVE  CountsInv'
  <1>m. Listing(i) /\ Phase(i) /\ Walk(i) /\ At(i, "insert") /\ Exists(i) /\ imports' = imports
    BY DEF CountsInv, TypeInv, CreateRowResults
  <1>1. imports[i].status = "VALIDATING" /\ job[i].at = "insert" /\ Rows(i) \in Rowed
        /\ job[i].inserted \in Nat
    BY <1>m DEF Phase, Preparing, Exists, ImportStatus, At, Walk, WithRows, TypeInv, TypeOK
  <1> DEFINE n == Len(results[i])
  <1>2. PICK last \in (job[i].inserted + 1)..Len(Rows(i)), d \in Nat :
          /\ d = last - job[i].inserted
          /\ n \in Nat /\ DOMAIN results[i] = 1..n /\ DOMAIN results'[i] = 1..(n + d)
          /\ \A k \in 1..n : results'[i][k] = results[i][k]
          /\ \A k \in 1..d : results'[i][n + k] =
               [row |-> job[i].inserted + k, status |-> "PENDING", entity |-> NoEntity]
          /\ job'[i].inserted = last
          /\ job'[i].at = IF last = Len(Rows(i)) THEN "start" ELSE "insert"
    BY BatchEffect
  <1> HIDE DEF n
  <1>3. Len(Rows(i)) \in Nat /\ last \in Nat
    BY <1>1, <1>2, FileRows
  <1>4. ASSUME NEW r \in 1..last
        PROVE  Listed(i, r)'
    <2>1. CASE r <= job[i].inserted
      <3>1. PICK k \in DOMAIN results[i] : results[i][k].row = r
        BY <1>1, <1>m, <2>1 DEF Listing, Listed
      <3>2. k \in DOMAIN results'[i] /\ results'[i][k].row = r
        BY <1>2, <3>1
      <3> QED
        BY <3>2 DEF Listed
    <2>2. CASE r > job[i].inserted
      <3>1. PICK j \in Nat : j = job[i].inserted
        BY <1>1
      <3>2. PICK m \in Nat : m = r - j /\ m >= 1 /\ m <= d
        <4>1. r \in Nat /\ r <= last /\ r > j /\ d = last - j
          BY <1>2, <1>3, <1>4, <2>2, <3>1
        <4>2. r - j \in Nat /\ r - j >= 1 /\ r - j <= d
          BY <1>3, <4>1
        <4> QED
          BY <4>2
      <3>3. m \in 1..d /\ n + m \in 1..(n + d) /\ j + m = r
        BY <1>2, <3>2
      <3>4. results'[i][n + m] = [row |-> j + m, status |-> "PENDING", entity |-> NoEntity]
        BY <1>2, <3>1, <3>3
      <3>5. results'[i][n + m].row = r /\ n + m \in DOMAIN results'[i]
        BY <1>2, <3>3, <3>4
      <3> QED
        BY <3>5 DEF Listed
    <2> QED
      BY <1>1, <2>1, <2>2
  <1>5. ASSUME NEW k \in DOMAIN results'[i]
        PROVE  results'[i][k].status = "PENDING"
    <2>1. CASE k <= n
      <3>1. k \in 1..n
        BY <1>2, <1>5, <2>1
      <3> QED
        BY <1>1, <1>2, <1>m, <3>1 DEF Listing, Early
    <2>2. CASE k > n
      <3> DEFINE m == k - n
      <3>1. m \in 1..d /\ n + m = k
        BY <1>2, <1>5, <2>2
      <3> HIDE DEF m
      <3>2. results'[i][n + m] = [row |-> job[i].inserted + m, status |-> "PENDING", entity |-> NoEntity]
        BY <1>2, <3>1
      <3>3. results'[i][n + m].status = "PENDING"
        BY <3>2
      <3> QED
        BY <3>1, <3>3
    <2> QED
      BY <1>2, <1>5, <2>1, <2>2
  <1>6. Listing(i)'
    <2>1. job'[i].at \in {"start", "insert"} /\ (job'[i].at = "start" => last = Len(Rows(i)))
      BY <1>2
    <2> QED
      BY <1>1, <1>2, <1>m, <1>4, <1>5, <2>1 DEF Listing, At, OnRow, Early, Rows
  <1> QED
    BY <1>1, <1>m, <1>6, CountsLocal

LEMMA UpdateCounts ==
    ASSUME TypeInv, CountsInv, NEW i \in Imports, Others(i), UpdateRowResult(i)
    PROVE  CountsInv'
  <1>m. /\ Listing(i) /\ Phase(i) /\ Walk(i) /\ job[i].at = "result"
        /\ imports' = imports /\ JobsTyped
    BY JobsAreTyped DEF CountsInv, TypeInv, UpdateRowResult, At
  <1>p. PICK row \in Nat \ {0}, st \in RowStatus : row = job[i].row /\ st = job[i].status
    BY <1>m DEF JobsTyped, JobRecord
  <1>1. /\ DOMAIN results'[i] = DOMAIN results[i]
        /\ \/ results' = results /\ \A k \in DOMAIN results[i] : results[i][k].row # row
           \/ \E k \in DOMAIN results[i] :
                /\ results[i][k].row = row /\ results'[i][k].row = row
                /\ results'[i][k].status = st
                /\ \A m \in DOMAIN results[i] \ {k} : results'[i][m] = results[i][m]
        /\ job'[i].row = row + 1
        /\ job'[i].counts[st] = job[i].counts[st] + 1
        /\ \A s \in RowStatus \ {st} : job'[i].counts[s] = job[i].counts[s]
        /\ job'[i].at = IF row = Len(Rows(i)) THEN "complete" ELSE "row"
    BY <1>p, ResultEffect
  <1>2. /\ row \in 1..Len(Rows(i)) /\ Rows(i) \in Rowed /\ st \in {"SUCCESS", "ERROR", "SKIPPED"}
        /\ imports[i].status \in {"PROCESSING", "DELETED"} /\ row \in Nat \ {0}
    BY <1>m, <1>p DEF Walk, Phase, At, OnRow, WithRows
  <1>3. CASE imports[i].status = "DELETED"
    <2>1. results[i] = <<>>
      BY <1>m, <1>3 DEF Listing
    <2>2. results' = results
      BY <1>1, <2>1
    <2>3. Listing(i)'
      BY <1>m, <1>3, <2>1, <2>2 DEF Listing, Exists, ImportStatus, Early
    <2> QED
      BY <1>m, <1>3, <2>3, CountsLocal
  <1>4. CASE imports[i].status = "PROCESSING"
    <2>1. /\ \A r \in 1..Len(Rows(i)) : Listed(i, r)
          /\ imports[i].totalRows = Len(Rows(i))
          /\ \A k \in DOMAIN results[i] : results[i][k].row >= row => results[i][k].status = "PENDING"
          /\ \A s \in RowStatus \ {"PENDING"} :
               job[i].counts[s] = Cardinality(Settled(i, row - 1, s))
      BY <1>m, <1>p, <1>4 DEF Listing, Exists, ImportStatus, OnRow
    <2>2. PICK k \in DOMAIN results[i] :
            /\ results[i][k].row = row /\ results'[i][k].row = row
            /\ results'[i][k].status = st
            /\ \A m \in DOMAIN results[i] \ {k} : results'[i][m] = results[i][m]
      BY <1>1, <1>2, <2>1 DEF Listed
    <2>3. \A m \in DOMAIN results[i] : results'[i][m].row = results[i][m].row
      BY <2>2
    <2>4. \A r \in 1..Len(Rows(i)) : Listed(i, r)'
      BY <1>1, <2>1, <2>3 DEF Listed
    <2>5. \A m \in DOMAIN results[i] : results[i][m].row \in Nat
      <3>1. results[i] \in Seq(Result)
        BY DEF TypeInv, TypeOK, Result
      <3>2. \A m \in DOMAIN results[i] : results[i][m] \in Result
        BY <3>1
      <3> QED
        BY <3>2 DEF Result
    <2>6. \A m \in DOMAIN results'[i] :
            results'[i][m].row >= row + 1 => results'[i][m].status = "PENDING"
      <3>1. \A m \in DOMAIN results[i] : results[i][m].row >= row + 1 => results[i][m].row >= row /\ m # k
        BY <1>2, <2>2, <2>5
      <3> QED
        BY <1>1, <2>1, <2>2, <2>3, <3>1
    <2>7. ASSUME NEW r \in 1..row, NEW s \in RowStatus \ {"PENDING"}
          PROVE  Reported(i, r, s)' <=> IF r = row THEN s = st ELSE Reported(i, r, s)
      <3>1. CASE r = row
        <4>1. s = st => Reported(i, r, s)'
          BY <1>1, <2>2, <3>1 DEF Reported
        <4>2. ASSUME NEW m \in DOMAIN results[i], results'[i][m].row = row, results'[i][m].status = s
              PROVE  s = st
          <5>1. CASE m = k
            BY <2>2, <4>2, <5>1
          <5>2. CASE m # k
            <6>1. results[i][m].row >= row /\ results[i][m].status = s
              BY <1>2, <2>2, <4>2, <5>2
            <6> QED
              BY <2>1, <2>7, <6>1
          <5> QED
            BY <5>1, <5>2
        <4> QED
          BY <1>1, <3>1, <4>1, <4>2 DEF Reported
      <3>2. CASE r # row
        <4>1. ASSUME NEW m \in DOMAIN results[i]
              PROVE  results'[i][m].row = r /\ results'[i][m].status = s
                       <=> results[i][m].row = r /\ results[i][m].status = s
          BY <2>2, <2>3, <3>2
        <4> QED
          BY <1>1, <3>2, <4>1 DEF Reported
      <3> QED
        BY <3>1, <3>2
    <2>8. ASSUME NEW s \in RowStatus \ {"PENDING"}
          PROVE  job'[i].counts[s] = Cardinality(Settled(i, row, s)')
      <3>1. 1..row = 1..(row - 1) \cup {row} /\ row \notin 1..(row - 1) /\ row - 1 \in Nat
        BY <1>2
      <3>2. CASE s = st
        <4>1. Settled(i, row, s)' = Settled(i, row - 1, s) \cup {row}
          BY <2>7, <2>8, <3>1, <3>2 DEF Settled
        <4>2. row \notin Settled(i, row - 1, s)
          BY <3>1 DEF Settled
        <4>3. IsFiniteSet(Settled(i, row - 1, s))
          BY <3>1, SettledFinite
        <4>4. Cardinality(Settled(i, row, s)') = Cardinality(Settled(i, row - 1, s)) + 1
          BY <4>1, <4>2, <4>3, FS_AddElement
        <4> QED
          BY <1>1, <2>1, <3>2, <4>4
      <3>3. CASE s # st
        <4>1. Settled(i, row, s)' = Settled(i, row - 1, s)
          BY <2>7, <2>8, <3>1, <3>3 DEF Settled
        <4> QED
          BY <1>1, <2>1, <2>8, <3>3, <4>1
      <3> QED
        BY <3>2, <3>3
    <2>9. job'[i].row = row + 1 /\ job'[i].row - 1 = row /\ job'[i].at \in {"row", "complete"}
      BY <1>1, <1>2
    <2>10. Listing(i)'
      BY <1>m, <1>4, <2>1, <2>4, <2>6, <2>8, <2>9 DEF Listing, At, OnRow, Early, Rows, Settled
    <2> QED
      BY <1>m, <1>4, <2>10, CountsLocal
  <1> QED
    BY <1>2, <1>3, <1>4

LEMMA CountsStep ==
    ASSUME TypeInv, CountsInv, NEW i \in Imports, TypeInv', Others(i),
           \/ QuietAction(i) \/ SetTotalRows(i) \/ CreateRowResults(i) \/ ProcessRow(i)
           \/ UpdateRowResult(i) \/ Complete(i)
    PROVE  CountsInv'
  <1>m. /\ Listing(i) /\ (imports[i].status = "COMPLETED" => CountsMatch(i))
        /\ Phase(i) /\ Walk(i) /\ JobsTyped
    BY JobsAreTyped DEF CountsInv, TypeInv
  <1>1. CASE SetTotalRows(i)
    <2>1. /\ imports'[i].status = "VALIDATING" /\ imports'[i].file = imports[i].file
          /\ imports'[i].totalRows = Len(Rows(i)) /\ job'[i].at = "insert" /\ job'[i].inserted = 0
          /\ Exists(i) /\ job[i].at = "total" /\ results' = results
      BY <1>1, TotalTyped DEF SetTotalRows, At
    <2>2. imports[i].status = "VALIDATING"
      BY <1>m, <2>1 DEF Phase, Preparing, Exists, ImportStatus
    <2>3. \A k \in DOMAIN results[i] : results[i][k].status = "PENDING"
      BY <1>m, <2>2 DEF Listing, Early
    <2>4. Listing(i)'
      BY <2>1, <2>3 DEF Listing, At, OnRow, Early, Rows
    <2> QED
      BY <2>1, <2>4, CountsLocal
  <1>2. CASE ProcessRow(i)
    <2>1. /\ UNCHANGED <<imports, results>> /\ job'[i].row = job[i].row
          /\ job'[i].counts = job[i].counts /\ (Passes(i) \/ Makes(i))
      BY <1>2, RowEffect
    <2>2. job[i].at \in OnRow /\ job'[i].at \in OnRow
      BY <2>1 DEF Passes, Makes, At, OnRow
    <2>3. \A n, s : Settled(i, n, s)' = Settled(i, n, s)
      BY <2>1 DEF Settled, Reported
    <2>4. \A s : Settled(i, job[i].row - 1, s)' = Settled(i, job[i].row - 1, s)
      BY <2>1 DEF Settled, Reported
    <2>5. Listing(i)'
      BY <1>m, <2>1, <2>2, <2>4 DEF Listing, At, OnRow, Early, Rows, Exists, Listed
    <2>6. (imports[i].status = "COMPLETED" => CountsMatch(i))'
      BY <1>m, <2>1, <2>3 DEF CountsMatch, Rows
    <2> QED
      BY <2>5, <2>6, CountsLocal
  <1>3. CASE Complete(i)
    <2>1. /\ imports'[i].status = "COMPLETED" /\ imports'[i].file = imports[i].file
          /\ imports'[i].totalRows = imports[i].totalRows
          /\ imports'[i].processedRows = Len(Rows(i)) /\ imports'[i].counts = job[i].counts
          /\ job'[i].at = "notify" /\ results' = results /\ Exists(i) /\ job[i].at = "complete"
      BY <1>3, CompleteTyped DEF Complete, At
    <2>2. job[i].row = Len(Rows(i)) + 1 /\ Rows(i) \in Rowed
      BY <1>m, <2>1 DEF Walk, At, WithRows
    <2>3. job[i].row - 1 = Len(Rows(i))
      BY <2>2, FileRows
    <2>4. \A s : Settled(i, Len(Rows(i)), s)' = Settled(i, Len(Rows(i)), s)
      BY <2>1 DEF Settled, Reported, Rows
    <2>5. /\ imports[i].totalRows = Len(Rows(i))
          /\ \A s \in RowStatus \ {"PENDING"} :
               job[i].counts[s] = Cardinality(Settled(i, Len(Rows(i)), s))
      BY <1>m, <2>1, <2>3 DEF Listing
    <2>6. CountsMatch(i)'
      BY <2>1, <2>4, <2>5 DEF CountsMatch, Rows
    <2>7. Listing(i)'
      BY <2>1 DEF Listing, At, OnRow, Early
    <2> QED
      BY <2>6, <2>7, CountsLocal
  <1> QED
    BY <1>1, <1>2, <1>3, QuietCounts, BatchCounts, UpdateCounts

LEMMA CountsInit == Init => CountsInv
  BY DEF Init, CountsInv, Listing, CountsMatch, NoImport, ImportRow, Exists, ImportStatus, Early

LEMMA CountsStutters ==
    ASSUME CountsInv, UNCHANGED vars
    PROVE  CountsInv'
  BY DEF vars, CountsInv, Listing, CountsMatch, Exists, At, Rows, Listed, Settled, Reported

\* The counts of a completed import are those of its file, whatever deliveries went
\* before the one that completed it.
THEOREM CountsAgree == Spec => []CountsMatchRows
  <1>1. TypeInv /\ CountsInv /\ [Next]_vars => TypeInv' /\ CountsInv'
    BY StepCases, TypeStep, TypeStutters, CountsStep, CountsStutters
  <1>2. CountsInv => CountsMatchRows
    BY DEF CountsInv, CountsMatch, CountsMatchRows, Settled, Reported
  <1> QED
    BY TypeInit, CountsInit, <1>1, <1>2, PTL DEF Spec

-----------------------------------------------------------------------------
(* What becomes of a row.                                                  *)

LEMMA LiveGrows ==
    ASSUME NEW type, NEW key, entities \subseteq entities', Live(type, key) # {}
    PROVE  {e \in entities' : e.type = type /\ e.key = key} # {}
  BY DEF Live

LEMMA HandledStays ==
    ASSUME NEW i \in Imports, NEW n, entities \subseteq entities', results'[i] = results[i],
           imports'[i].type = imports[i].type, imports'[i].file = imports[i].file, Handled(i, n)
    PROVE  Handled(i, n)'
  <1>1. CASE Reported(i, n, "ERROR")
    BY <1>1 DEF Handled, Reported
  <1>2. CASE Live(imports[i].type, Rows(i)[n]) # {}
    BY <1>2, LiveGrows DEF Handled, Live, Rows
  <1> QED
    BY <1>1, <1>2 DEF Handled

LEMMA HandledLocal ==
    ASSUME HandledInv, NEW i \in Imports, Others(i), Done(i)'
    PROVE  HandledInv'
  <1>1. ASSUME NEW k \in Imports, k # i
        PROVE  Done(k)'
    <2>1. /\ imports'[k] = imports[k] /\ job'[k] = job[k] /\ results'[k] = results[k]
          /\ entities \subseteq entities' /\ Done(k)
      BY <1>1 DEF Others, HandledInv
    <2>2. \A n : Handled(k, n) => Handled(k, n)'
      BY <2>1, HandledStays
    <2>3. Live(imports[k].type, Rows(k)[job[k].row]) # {}
            => Live(imports[k].type, Rows(k)[job[k].row])' # {}
      BY <2>1, LiveGrows DEF Live, Rows
    <2> QED
      BY <2>1, <2>2, <2>3 DEF Done, Exists, At, Rows
  <1> QED
    BY <1>1 DEF HandledInv

LEMMA QuietHandled ==
    ASSUME TypeInv, HandledInv, NEW i \in Imports, TypeInv', Others(i), QuietAction(i)
    PROVE  HandledInv'
  <1>m. Done(i) /\ Phase(i)' /\ Walk(i)
    BY DEF HandledInv, TypeInv
  <1>q. Quiet(i)
    BY QuietEffect
  <1>1. CASE imports'[i].status \in {"PENDING", "DELETED"}
    <2>1. Done(i)'
      BY <1>m, <1>1 DEF Done, Exists, ImportStatus, Phase, At, OnRow
    <2> QED
      BY <2>1, HandledLocal
  <1>2. CASE /\ imports'[i].status \in {"VALIDATING", "FAILED"}
             /\ job'[i].at \in {"send", "parse", "notify"}
    <2>1. Done(i)'
      BY <1>2 DEF Done, At, OnRow
    <2> QED
      BY <2>1, HandledLocal
  <1>3. CASE /\ At(i, "start") /\ imports'[i].status = "PROCESSING" /\ job'[i].at = "row"
             /\ job'[i].row = job[i].row
    <2>1. job'[i].row = 1
      BY <1>m, <1>3 DEF Walk, At
    <2>2. job'[i].row - 1 = 0
      BY <2>1
    <2>3. Done(i)'
      BY <1>3, <2>2 DEF Done, At, OnRow
    <2> QED
      BY <2>3, HandledLocal
  <1>4. CASE /\ results' = results /\ imports' = imports /\ entities' = entities
             /\ job'[i].at \in {"queued", "lost", "fail", "done", "claim", "total"}
    <2>1. \A n : Handled(i, n) => Handled(i, n)'
      BY <1>4, HandledStays
    <2>2. Done(i)'
      BY <1>m, <1>4, <2>1 DEF Done, At, OnRow, Exists, Rows
    <2> QED
      BY <2>2, HandledLocal
  <1> QED
    BY <1>q, <1>1, <1>2, <1>3, <1>4 DEF Quiet

LEMMA UpdateHandled ==
    ASSUME TypeInv, CountsInv, HandledInv, NEW i \in Imports, Others(i), UpdateRowResult(i)
    PROVE  HandledInv'
  <1>m. /\ Done(i) /\ Listing(i) /\ Phase(i) /\ Walk(i) /\ job[i].at = "result"
        /\ imports' = imports /\ entities' = entities /\ JobsTyped
    BY JobsAreTyped DEF HandledInv, CountsInv, TypeInv, UpdateRowResult, At
  <1>1. CASE ~Exists(i)
    <2>1. Done(i)'
      BY <1>m, <1>1 DEF Done, Exists
    <2> QED
      BY <2>1, HandledLocal
  <1>2. CASE Exists(i)
    <2>1. PICK row \in Nat \ {0}, st \in RowStatus : row = job[i].row /\ st = job[i].status
      BY <1>m DEF JobsTyped, JobRecord
    <2>2. Listed(i, row) /\ imports[i].status = "PROCESSING"
      BY <1>m, <1>2, <2>1 DEF Walk, OnRow, Listing, Phase, Exists, ImportStatus
    <2>3. PICK k \in DOMAIN results[i] :
            /\ DOMAIN results'[i] = DOMAIN results[i]
            /\ results[i][k].row = row /\ results'[i][k].row = row
            /\ results'[i][k].status = st
            /\ \A m \in DOMAIN results[i] \ {k} : results'[i][m] = results[i][m]
      BY <2>1, <2>2, ResultEffect DEF Listed
    <2>4. job'[i].row = row + 1 /\ job'[i].at \in {"row", "complete"}
      BY <2>1, ResultEffect
    <2>5. ASSUME NEW n \in 1..row
          PROVE  Handled(i, n)'
      <3>1. CASE n = row /\ st = "ERROR"
        <4>1. Reported(i, n, "ERROR")'
          BY <2>3, <3>1 DEF Reported
        <4> QED
          BY <4>1 DEF Handled
      <3>2. CASE n = row /\ st # "ERROR"
        <4>1. Live(imports[i].type, Rows(i)[row]) # {}
          BY <1>m, <1>2, <2>1, <3>2 DEF Done, At
        <4> QED
          BY <1>m, <3>2, <4>1 DEF Handled, Live, Rows
      <3>3. CASE n # row
        <4>1. n \in 1..(row - 1)
          BY <2>5, <3>3
        <4>2. Handled(i, n)
          BY <1>m, <1>2, <2>1, <4>1 DEF Done, OnRow
        <4>3. CASE Live(imports[i].type, Rows(i)[n]) # {}
          BY <1>m, <4>3 DEF Handled, Live, Rows
        <4>4. CASE Reported(i, n, "ERROR")
          <5>1. PICK m \in DOMAIN results[i] : results[i][m].row = n /\ results[i][m].status = "ERROR"
            BY <4>4 DEF Reported
          <5>2. results'[i][m] = results[i][m] /\ m \in DOMAIN results'[i]
            BY <2>3, <3>3, <5>1
          <5>3. Reported(i, n, "ERROR")'
            BY <5>1, <5>2 DEF Reported
          <5> QED
            BY <5>3 DEF Handled
        <4> QED
          BY <4>2, <4>3, <4>4 DEF Handled
      <3> QED
        BY <3>1, <3>2, <3>3
    <2>6. job'[i].row - 1 = row
      BY <2>4
    <2>7. Done(i)'
      BY <1>m, <2>2, <2>4, <2>5, <2>6 DEF Done, At, OnRow
    <2> QED
      BY <2>7, HandledLocal
  <1> QED
    BY <1>1, <1>2

LEMMA HandledStep ==
    ASSUME TypeInv, CountsInv, HandledInv, NEW i \in Imports, TypeInv', Others(i),
           \/ QuietAction(i) \/ SetTotalRows(i) \/ CreateRowResults(i) \/ ProcessRow(i)
           \/ UpdateRowResult(i) \/ Complete(i)
    PROVE  HandledInv'
  <1>m. Done(i) /\ Walk(i) /\ Phase(i)
    BY DEF HandledInv, TypeInv
  <1>1. CASE SetTotalRows(i)
    <2>1. imports'[i].status = "VALIDATING" /\ job'[i].at = "insert"
      BY <1>1, TotalTyped
    <2>2. Done(i)'
      BY <2>1 DEF Done, At, OnRow
    <2> QED
      BY <2>2, HandledLocal
  <1>2. CASE CreateRowResults(i)
    <2>1. imports' = imports /\ At(i, "insert") /\ job'[i].at \in {"insert", "start"}
      BY <1>2, BatchEffect DEF CreateRowResults
    <2>2. imports[i].status # "COMPLETED"
      BY <1>m, <2>1 DEF Phase, Preparing, At
    <2>3. Done(i)'
      BY <2>1, <2>2 DEF Done, At, OnRow
    <2> QED
      BY <2>3, HandledLocal
  <1>3. CASE ProcessRow(i)
    <2>1. /\ UNCHANGED <<imports, results>> /\ job'[i].row = job[i].row
          /\ (Passes(i) \/ Makes(i))
      BY <1>3, RowEffect
    <2>2. job[i].at \in OnRow /\ job'[i].at \in OnRow /\ entities \subseteq entities'
      BY <2>1 DEF Passes, Makes, At, OnRow
    <2>3. \A n : Handled(i, n) => Handled(i, n)'
      BY <2>1, <2>2, HandledStays
    <2>4. imports[i].status # "COMPLETED"
      BY <1>m, <2>2 DEF Phase
    <2>5. ASSUME job'[i].at = "result", job'[i].status # "ERROR"
          PROVE  Live(imports[i].type, Rows(i)[job[i].row])' # {}
      <3>1. CASE Passes(i)
        <4>1. /\ At(i, "hash") /\ Live("OPERATION", Rows(i)[job[i].row]) # {}
              /\ entities' = entities
          BY <2>5, <3>1 DEF Passes
        <4>2. imports[i].type = "OPERATION"
          BY <1>m, <4>1 DEF Walk, At
        <4> QED
          BY <2>1, <4>1, <4>2 DEF Live, Rows
      <3>2. CASE Makes(i)
        <4>1. Entity(i) \in entities' /\ Entity(i).type = imports[i].type
              /\ Entity(i).key = Rows(i)[job[i].row]
          BY <3>2 DEF Makes, Entity
        <4> QED
          BY <2>1, <4>1 DEF Live, Rows
      <3> QED
        BY <2>1, <3>1, <3>2
    <2>6. \A n \in 1..(job[i].row - 1) : Exists(i) => Handled(i, n)'
      BY <1>m, <2>2, <2>3 DEF Done
    <2>7. Done(i)'
      BY <2>1, <2>4, <2>5, <2>6 DEF Done, At, Exists
    <2> QED
      BY <2>7, HandledLocal
  <1>4. CASE Complete(i)
    <2>1. /\ imports'[i].status = "COMPLETED" /\ imports'[i].file = imports[i].file
          /\ imports'[i].type = imports[i].type /\ job'[i].at = "notify" /\ results' = results
          /\ entities' = entities /\ Exists(i) /\ job[i].at = "complete"
      BY <1>4, CompleteTyped DEF Complete, At
    <2>2. job[i].row = Len(Rows(i)) + 1 /\ Rows(i) \in Rowed
      BY <1>m, <2>1 DEF Walk, At, WithRows
    <2>3. job[i].row - 1 = Len(Rows(i))
      BY <2>2, FileRows
    <2>4. \A n \in 1..Len(Rows(i)) : Handled(i, n)
      BY <1>m, <2>1, <2>3 DEF Done
    <2>5. \A n \in 1..Len(Rows(i)) : Handled(i, n)'
      BY <2>1, <2>4, HandledStays
    <2>6. Done(i)'
      BY <2>1, <2>5 DEF Done, At, OnRow, Rows
    <2> QED
      BY <2>6, HandledLocal
  <1> QED
    BY <1>1, <1>2, <1>3, <1>4, QuietHandled, UpdateHandled

\* Every row of a completed import is in the database or reported as an error.
THEOREM NothingIsLost == Spec => []NothingLost
  <1>1. Init => HandledInv
    BY DEF Init, HandledInv, Done, NoImport, ImportRow, Exists, ImportStatus
  <1>2. TypeInv /\ CountsInv /\ HandledInv /\ [Next]_vars => TypeInv' /\ CountsInv' /\ HandledInv'
    <2>1. ASSUME TypeInv, CountsInv, HandledInv, Next
          PROVE  TypeInv' /\ CountsInv' /\ HandledInv'
      BY <2>1, StepCases, TypeStep, CountsStep, HandledStep
    <2>2. ASSUME HandledInv, UNCHANGED vars
          PROVE  HandledInv'
      BY <2>2 DEF vars, HandledInv, Done, Exists, At, Rows, Handled, Reported, Live
    <2> QED
      BY <2>1, <2>2, TypeStutters, CountsStutters
  <1>3. HandledInv => NothingLost
    BY DEF HandledInv, Done, NothingLost, Handled, Reported, Exists, ImportStatus
  <1> QED
    BY TypeInit, CountsInit, <1>1, <1>2, <1>3, PTL DEF Spec

-----------------------------------------------------------------------------
(* No operation twice.                                                     *)

LEMMA UniqueStep ==
    ASSUME TypeInv, UniqueInv, NEW i \in Imports, TypeInv', Others(i),
           \/ QuietAction(i) \/ SetTotalRows(i) \/ CreateRowResults(i) \/ ProcessRow(i)
           \/ UpdateRowResult(i) \/ Complete(i)
    PROVE  UniqueInv'
  <1>1. CASE ~ProcessRow(i)
    <2>1. /\ entities' = entities
          /\ At(i, "create")' => /\ At(i, "create") /\ job'[i].row = job[i].row
                                 /\ imports'[i].file = imports[i].file
      <3>1. CASE QuietAction(i)
        <4>1. Quiet(i) /\ (imports[i].status = "UNBORN" => ~At(i, "create"))
          BY <3>1, QuietEffect DEF TypeInv, Phase, At
        <4> QED
          BY <4>1 DEF Quiet, At, SameFile
      <3>2. CASE SetTotalRows(i)
        BY <3>2, TotalTyped DEF SetTotalRows, At
      <3>3. CASE CreateRowResults(i)
        <4>1. job'[i].at # "create"
          BY <3>3, BatchEffect
        <4> QED
          BY <3>3, <4>1 DEF CreateRowResults, At
      <3>4. CASE UpdateRowResult(i)
        <4>1. job'[i].at # "create"
          BY <3>4, ResultEffect
        <4> QED
          BY <3>4, <4>1 DEF UpdateRowResult, At
      <3>5. CASE Complete(i)
        BY <3>5, CompleteTyped DEF Complete, At
      <3> QED
        BY <1>1, <3>1, <3>2, <3>3, <3>4, <3>5
    <2>2. OperationsUnique'
      BY <2>1 DEF UniqueInv, OperationsUnique
    <2>3. ASSUME NEW k \in Imports, At(k, "create")'
          PROVE  Known(k)'
      <3>1. At(k, "create") /\ job'[k].row = job[k].row /\ imports'[k].file = imports[k].file
        BY <2>1, <2>3 DEF Others, At
      <3> QED
        BY <2>1, <3>1 DEF UniqueInv, Known, Live, Rows
    <2> QED
      BY <2>1, <2>2, <2>3 DEF UniqueInv
  <1>2. CASE ProcessRow(i)
    <2>1. /\ UNCHANGED imports /\ job'[i].row = job[i].row /\ (Passes(i) \/ Makes(i))
      BY <1>2, RowEffect
    <2>2. CASE Passes(i)
      <3>1. entities' = entities
            /\ (At(i, "create")' => Live("OPERATION", Rows(i)[job[i].row]) = {})
        BY <2>2 DEF Passes, At
      <3>2. OperationsUnique'
        BY <3>1 DEF UniqueInv, OperationsUnique
      <3>3. ASSUME NEW k \in Imports, At(k, "create")'
            PROVE  Known(k)'
        <4>1. CASE k = i
          BY <2>1, <3>1, <3>3, <4>1 DEF Known, Live, Rows
        <4>2. CASE k # i
          BY <3>1, <3>3, <4>2 DEF UniqueInv, Others, At, Known, Live, Rows
        <4> QED
          BY <4>1, <4>2
      <3> QED
        BY <3>1, <3>2, <3>3 DEF UniqueInv
    <2>3. CASE Makes(i)
      <3> DEFINE x == Entity(i)
      <3>1. /\ entities' = entities \cup {x} /\ ~At(i, "create")'
            /\ x.type = imports[i].type /\ x.key = Rows(i)[job[i].row]
            /\ x.source = i /\ x.beside = Beside(i)
            /\ (imports[i].type = "CLIENT" \/ At(i, "create"))
        BY <2>3 DEF Makes, Entity, At
      <3> HIDE DEF x
      <3>2. \A e \in entities' : e.source \notin e.beside
        BY <3>1 DEF UniqueInv, Beside
      <3>3. ASSUME NEW e \in entities, e.type = "OPERATION", x.type = "OPERATION", e.key = x.key
            PROVE  e.source # i /\ i \in e.beside
        <4>1. At(i, "create") /\ e \in Live("OPERATION", Rows(i)[job[i].row])
          BY <3>1, <3>3 DEF Live
        <4>2. i \in e.beside /\ e.source \notin e.beside
          BY <4>1 DEF UniqueInv, Known
        <4> QED
          BY <4>2
      <3>4. OperationsUnique'
        BY <3>1, <3>3 DEF UniqueInv, OperationsUnique
      <3>5. ASSUME NEW k \in Imports, At(k, "create")'
            PROVE  Known(k)'
        <4>1. k # i /\ At(k, "create") /\ job'[k] = job[k] /\ imports'[k] = imports[k]
          BY <3>1, <3>5 DEF Others, At
        <4>2. \A e \in entities : e.type = "OPERATION" /\ e.key = Rows(k)[job[k].row] => k \in e.beside
          BY <4>1 DEF UniqueInv, Known, Live
        <4>3. x.type = "OPERATION" /\ x.key = Rows(k)[job[k].row] => k \in x.beside
          BY <3>1, <4>1 DEF Beside
        <4> QED
          BY <3>1, <4>1, <4>2, <4>3 DEF Known, Live, Rows
      <3> QED
        BY <3>2, <3>4, <3>5 DEF UniqueInv
    <2> QED
      BY <2>1, <2>2, <2>3
  <1> QED
    BY <1>1, <1>2

\* No operation is imported twice by rows of one file, by a repeated delivery or by imports
\* one after another (processOperationRow, existsByImportHash), however many there are: only
\* by two imports that both looked for its importHash before either created it.
THEOREM TwiceOnlySideBySide == Spec => []OperationsUnique
  <1>1. Init => UniqueInv
    BY FreshTyped DEF Init, UniqueInv, OperationsUnique, At
  <1>2. TypeInv /\ UniqueInv /\ [Next]_vars => TypeInv' /\ UniqueInv'
    <2>1. ASSUME TypeInv, UniqueInv, Next
          PROVE  TypeInv' /\ UniqueInv'
      BY <2>1, StepCases, TypeStep, UniqueStep
    <2>2. ASSUME UniqueInv, UNCHANGED vars
          PROVE  UniqueInv'
      BY <2>2 DEF vars, UniqueInv, OperationsUnique, At, Rows, Known, Live
    <2> QED
      BY <2>1, <2>2, TypeStutters
  <1>3. UniqueInv => OperationsUnique
    BY DEF UniqueInv
  <1> QED
    BY TypeInit, <1>1, <1>2, <1>3, PTL DEF Spec
=============================================================================
