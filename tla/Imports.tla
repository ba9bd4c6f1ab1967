------------------------------ MODULE Imports ------------------------------
(***************************************************************************)
(* Bulk imports.  POST /imports stores a file and a row, POST .../start    *)
(* claims the row and sends one message to the imports queue, and the      *)
(* queue consumer walks through the file, one D1 statement after another.  *)
(* The queue delivers a message again when the consumer threw or died, at  *)
(* most MaxDeliveries times, and never to two consumers at once.           *)
(*                                                                         *)
(* job[i] is the message of import i: where it is (at), and what the       *)
(* consumer holds in local variables, which a new delivery starts afresh.  *)
(***************************************************************************)
EXTENDS Integers, FiniteSets, Sequences

CONSTANTS
    Imports,        \* import ids
    Keys,           \* what identifies a row: a client's RFC, an operation's importHash
    Invalid,        \* the content of a row that fails validation
    Unreadable,     \* a file that is missing, does not parse or lacks headers
    ClientOf,       \* the RFC of the client an operation row names
    Registered,     \* RFCs of the clients that no import made
    Uploads,        \* what is uploaded as each import: its type and file
    BatchSize,      \* BATCH_SIZE of createRowResults
    MaxDeliveries,  \* bound: 1 + max_retries of the queue consumer
    NoEntity        \* null entityId

EntityType == {"CLIENT", "OPERATION"}
ImportStatus == {"PENDING", "VALIDATING", "PROCESSING", "COMPLETED", "FAILED"}
RowStatus == {"PENDING", "SUCCESS", "WARNING", "ERROR", "SKIPPED"}
Ended == {"COMPLETED", "FAILED"}
\* Both parsers refuse a file without data rows.
File == (Seq(Keys \cup {Invalid}) \ {<<>>}) \cup {Unreadable}

ASSUME ImportsAssumption ==
    /\ Invalid \notin Keys
    /\ Unreadable \notin Seq(Keys \cup {Invalid})
    /\ ClientOf \in [Keys -> Keys]
    /\ \A i \in Imports : \A u \in Uploads[i] :
         u.type \in EntityType /\ u.file \in File
    /\ BatchSize \in Nat \ {0}
    /\ MaxDeliveries \in Nat \ {0}

VARIABLES
    imports,     \* table imports
    results,     \* table import_row_results, in the order of insertion
    entities,    \* the clients and operations the imports created
    job,         \* the message of an import and the consumer's local variables
    deliveries   \* how often the queue delivered the message

vars == <<imports, results, entities, job, deliveries>>
tables == <<imports, results, entities>>

NoCounts == [s \in RowStatus |-> 0]

ImportRow(u) == [status |-> "PENDING", type |-> u.type, file |-> u.file,
                 totalRows |-> 0, processedRows |-> 0, counts |-> NoCounts]
NoImport == [ImportRow([type |-> "CLIENT", file |-> Unreadable])
               EXCEPT !.status = "UNBORN"]

Exists(i) == imports[i].status \in ImportStatus
Rows(i) == imports[i].file

Live(type, key) == {e \in entities : e.type = type /\ e.key = key}

Fresh(at) == [at |-> at, row |-> 1, inserted |-> 0,
              status |-> "PENDING", entity |-> NoEntity, counts |-> NoCounts]

At(i, at) == job[i].at = at
Go(i, at) == job' = [job EXCEPT ![i].at = at]

\* The other imports that found no operation like the one i creates, and have yet to create it.
Beside(i) ==
    {k \in Imports \ {i} : /\ At(i, "create") /\ At(k, "create")
                          /\ Rows(k)[job[k].row] = Rows(i)[job[i].row]}

\* A client or operation row remembers (history) which delivery of which file row made it,
\* and who was about to make the same.
Entity(i) == [type |-> imports[i].type, key |-> Rows(i)[job[i].row],
              source |-> i, row |-> job[i].row, delivery |-> deliveries[i], beside |-> Beside(i)]

\* The consumer's local variables are gone.
Leave(i, at) == job' = [job EXCEPT ![i] = Fresh(at)]

\* The consumer is inside the try block of processJob, or after it.
InTry == {"claim", "parse", "total", "insert", "start", "row", "hash",
          "create", "result", "complete"}
Running == InTry \cup {"fail", "notify"}

Init ==
    /\ imports = [i \in Imports |-> NoImport]
    /\ results = [i \in Imports |-> <<>>]
    /\ entities = {}
    /\ job = [i \in Imports |-> Fresh("idle")]
    /\ deliveries = [i \in Imports |-> 0]

-----------------------------------------------------------------------------
(* Requests                                                                *)

\* POST /imports: the file is in R2 before the row is inserted.
Create(i) ==
    /\ imports[i].status = "UNBORN"
    /\ \E u \in Uploads[i] : imports' = [imports EXCEPT ![i] = ImportRow(u)]
    /\ UNCHANGED <<results, entities, job, deliveries>>

\* POST /imports/:id/start: one updateMany claims a PENDING import, so a second
\* request finds none.
StartImport(i) ==
    /\ imports[i].status = "PENDING"
    /\ imports' = [imports EXCEPT ![i].status = "VALIDATING"]
    /\ Go(i, "send")
    /\ UNCHANGED <<results, entities, deliveries>>

\* ... and only then the message is sent.
SendJob(i) ==
    /\ At(i, "send")
    /\ Go(i, "queued")
    /\ UNCHANGED <<tables, deliveries>>

\* The import was deleted in between, the send failed or the request died.
SendFails(i) ==
    /\ At(i, "send")
    /\ Go(i, "lost")
    /\ UNCHANGED <<tables, deliveries>>

\* DELETE /imports/:id, in any status; row results go by cascade.
DeleteImport(i) ==
    /\ Exists(i)
    /\ imports' = [imports EXCEPT ![i].status = "DELETED"]
    /\ results' = [results EXCEPT ![i] = <<>>]
    /\ UNCHANGED <<entities, job, deliveries>>

-----------------------------------------------------------------------------
(* The queue                                                               *)

\* Fault: an import in PROCESSING is taken up again.
SkippedEnded(i) == ~Exists(i) \/ imports[i].status \in Ended

\* Fault: whatever was claimed is skipped.
SkippedStarted(i) == imports[i].status # "PENDING"

\* Imports a delivery does not process.
Skipped(i) == ~Exists(i) \/ imports[i].status \in Ended \cup {"PROCESSING"}

\* A message is taken and processJob reads the import.
Deliver(i) ==
    /\ At(i, "queued")
    /\ Leave(i, IF Skipped(i) THEN "done" ELSE "claim")
    /\ deliveries' = [deliveries EXCEPT ![i] = @ + 1]
    /\ UNCHANGED tables

\* The consumer dies, or processJob throws, before the message is acknowledged:
\* it is queued again, until its retries are used up.
Retry(i) ==
    /\ job[i].at \in Running
    /\ Leave(i, IF deliveries[i] < MaxDeliveries THEN "queued" ELSE "lost")
    /\ UNCHANGED <<tables, deliveries>>

-----------------------------------------------------------------------------
(* processJob                                                              *)

\* import.update throws on a row that is gone.
SetStatus(i, status) ==
    /\ Exists(i)
    /\ imports' = [imports EXCEPT ![i].status = status]

Claim(i) ==
    /\ At(i, "claim")
    /\ SetStatus(i, "VALIDATING")
    /\ Go(i, "parse")
    /\ UNCHANGED <<results, entities, deliveries>>

\* The file is downloaded and parsed, and its headers are checked.
ParseFile(i) ==
    /\ At(i, "parse")
    /\ Leave(i, IF Rows(i) = Unreadable THEN "fail" ELSE "total")
    /\ UNCHANGED <<tables, deliveries>>

SetTotalRows(i) ==
    /\ At(i, "total")
    /\ Exists(i)
    /\ imports' = [imports EXCEPT ![i].status = "VALIDATING",
                                  ![i].totalRows = Len(Rows(i))]
    /\ Go(i, "insert")
    /\ UNCHANGED <<results, entities, deliveries>>

\* createMany of one batch; nothing makes a row number unique, so a delivery that
\* repeats an interrupted one inserts its rows a second time.
CreateRowResults(i) ==
    LET last == IF job[i].inserted + BatchSize < Len(Rows(i))
                  THEN job[i].inserted + BatchSize ELSE Len(Rows(i))
    IN  /\ At(i, "insert")
        /\ Exists(i)
        /\ results' = [results EXCEPT ![i] =
             @ \o [k \in 1..(last - job[i].inserted) |->
                     [row |-> job[i].inserted + k, status |-> "PENDING",
                      entity |-> NoEntity]]]
        /\ job' = [job EXCEPT ![i].inserted = last,
                              ![i].at = IF last = Len(Rows(i)) THEN "start" ELSE "insert"]
        /\ UNCHANGED <<imports, entities, deliveries>>

StartProcessing(i) ==
    /\ At(i, "start")
    /\ SetStatus(i, "PROCESSING")
    /\ Go(i, "row")
    /\ UNCHANGED <<results, entities, deliveries>>

\* processRow ends and returns a result; an exception inside it is an ERROR.
RowYields(i, status, entity) ==
    job' = [job EXCEPT ![i].at = "result", ![i].status = status, ![i].entity = entity]

\* A row that fails validation, or whose processing throws before it created
\* anything.
RowFails(i) ==
    /\ job[i].at \in {"row", "hash", "create"}
    /\ RowYields(i, "ERROR", NoEntity)
    /\ UNCHANGED <<tables, deliveries>>

\* The row is written; the KYC progress of the client is recomputed after that,
\* and if this throws the row is reported as an error though it exists.
Insert(i) ==
    /\ entities' = entities \cup {Entity(i)}
    /\ \/ RowYields(i, "SUCCESS", Entity(i))
       \/ RowYields(i, "ERROR", NoEntity)
    /\ UNCHANGED <<imports, results, deliveries>>

\* processClientRow: no constraint makes an RFC unique, so client.create never
\* fails with the "UNIQUE constraint failed" that would yield a WARNING.
CreateClient(i) ==
    /\ At(i, "row")
    /\ imports[i].type = "CLIENT"
    /\ Rows(i)[job[i].row] # Invalid
    /\ Insert(i)

IsClient(rfc) == rfc \in Registered \/ Live("CLIENT", rfc) # {}

\* Fault: a row without a client is passed over.
FindClientOrSkip(i) ==
    /\ At(i, "row")
    /\ imports[i].type = "OPERATION"
    /\ Rows(i)[job[i].row] # Invalid
    /\ IF IsClient(ClientOf[Rows(i)[job[i].row]])
         THEN Go(i, "hash")
         ELSE RowYields(i, "SKIPPED", NoEntity)
    /\ UNCHANGED <<tables, deliveries>>

\* processOperationRow: the client must be there ...
FindClient(i) ==
    /\ At(i, "row")
    /\ imports[i].type = "OPERATION"
    /\ Rows(i)[job[i].row] # Invalid
    /\ IF IsClient(ClientOf[Rows(i)[job[i].row]])
         THEN Go(i, "hash")
         ELSE RowYields(i, "ERROR", NoEntity)
    /\ UNCHANGED <<tables, deliveries>>

\* Fault: the operation carries no importHash.
CheckNothing(i) ==
    /\ At(i, "hash")
    /\ Go(i, "create")
    /\ UNCHANGED <<tables, deliveries>>

\* ... and no operation with the same importHash ...
CheckImportHash(i) ==
    /\ At(i, "hash")
    /\ IF Live("OPERATION", Rows(i)[job[i].row]) = {}
         THEN Go(i, "create")
         ELSE RowYields(i, "SKIPPED", NoEntity)
    /\ UNCHANGED <<tables, deliveries>>

\* ... when the operation is created, in a later statement.
CreateOperation(i) ==
    /\ At(i, "create")
    /\ Insert(i)

\* Fault: skipped rows fall into the last branch and count as errors.
CountedAsError(status) == IF status = "SKIPPED" THEN "ERROR" ELSE status

\* The local counter a result increments.
Counter(status) == status

\* updateRowResult settles any one of the results with this row number, if there
\* is one; then the local counter of its status goes up.
UpdateRowResult(i) ==
    LET copies == {k \in DOMAIN results[i] : results[i][k].row = job[i].row}
    IN  /\ At(i, "result")
        /\ IF copies = {}
             THEN UNCHANGED results
             ELSE \E k \in copies :
                    results' = [results EXCEPT ![i][k].status = job[i].status,
                                               ![i][k].entity = job[i].entity]
        /\ job' = [job EXCEPT
             ![i].counts[Counter(job[i].status)] = @ + 1,
             ![i].row = @ + 1,
             ![i].at = IF job[i].row = Len(Rows(i)) THEN "complete" ELSE "row"]
        /\ UNCHANGED <<imports, entities, deliveries>>

Complete(i) ==
    /\ At(i, "complete")
    /\ Exists(i)
    /\ imports' = [imports EXCEPT ![i].status = "COMPLETED",
                                  ![i].processedRows = Len(Rows(i)),
                                  ![i].counts = job[i].counts]
    /\ Leave(i, "notify")
    /\ UNCHANGED <<results, entities, deliveries>>

\* Any statement of the try block may throw, and does when the import is gone.
Throw(i) ==
    /\ job[i].at \in InTry \ {"row", "hash", "create"}
    /\ Leave(i, "fail")
    /\ UNCHANGED <<tables, deliveries>>

MarkFailed(i) ==
    /\ At(i, "fail")
    /\ SetStatus(i, "FAILED")
    /\ Leave(i, "notify")
    /\ UNCHANGED <<results, entities, deliveries>>

\* The notification is sent (its errors are swallowed) and the message acknowledged.
Notify(i) ==
    /\ At(i, "notify")
    /\ Leave(i, "done")
    /\ UNCHANGED <<tables, deliveries>>

-----------------------------------------------------------------------------
ProcessRow(i) ==
    \/ RowFails(i)
    \/ CreateClient(i)
    \/ FindClient(i)
    \/ CheckImportHash(i)
    \/ CreateOperation(i)

ProcessJob(i) ==
    \/ Claim(i)
    \/ ParseFile(i)
    \/ SetTotalRows(i)
    \/ CreateRowResults(i)
    \/ StartProcessing(i)
    \/ ProcessRow(i)
    \/ UpdateRowResult(i)
    \/ Complete(i)
    \/ Throw(i)
    \/ MarkFailed(i)
    \/ Notify(i)
    \/ Retry(i)

Queue(i) == Deliver(i) \/ ProcessJob(i)

Next ==
    \E i \in Imports :
        \/ Create(i)
        \/ StartImport(i)
        \/ SendJob(i)
        \/ SendFails(i)
        \/ DeleteImport(i)
        \/ Queue(i)

\* The queue delivers what it holds, and a consumer that was given a message
\* goes on, or is given up, which redelivers the message.  Requests owe nothing.
Fairness == \A i \in Imports : WF_vars(Queue(i))

Spec == Init /\ [][Next]_vars /\ Fairness

-----------------------------------------------------------------------------
(* Properties                                                              *)

Status == ImportStatus \cup {"UNBORN", "DELETED"}

TypeOK ==
    /\ imports \in [Imports -> [status: Status, type: EntityType, file: File,
                                totalRows: Nat, processedRows: Nat,
                                counts: [RowStatus -> Nat]]]
    /\ entities \subseteq [type: EntityType, key: Keys, source: Imports,
                           row: Nat \ {0}, delivery: Nat \ {0}, beside: SUBSET Imports]
    /\ results \in [Imports -> Seq([row: Nat \ {0}, status: RowStatus,
                                    entity: entities \cup {NoEntity}])]
    /\ job \in [Imports ->
         [at: Running \cup {"idle", "send", "queued", "done", "lost"},
          row: Nat \ {0}, inserted: Nat, status: RowStatus,
          entity: entities \cup {NoEntity}, counts: [RowStatus -> Nat]]]
    /\ deliveries \in [Imports -> 0..MaxDeliveries]

\* The counts of a completed import are those of its file: every row was settled
\* exactly once, and each count is the number of row numbers some result of which
\* has that status, though redeliveries may have left results that are PENDING.
CountsMatchRows ==
    \A i \in Imports : imports[i].status = "COMPLETED" =>
        /\ imports[i].totalRows = Len(Rows(i))
        /\ imports[i].processedRows = Len(Rows(i))
        /\ \A s \in RowStatus \ {"PENDING"} :
             imports[i].counts[s] =
               Cardinality({n \in 1..Len(Rows(i)) :
                 \E k \in DOMAIN results[i] :
                    results[i][k].row = n /\ results[i][k].status = s})

\* However often the message is delivered, no row of a file creates two entities.
RowMadeOnce ==
    \A e, f \in entities : e.source = f.source /\ e.row = f.row => e = f

\* A completed import lost nothing: every row that is not reported as an error is
\* in the database, made by this row or found there.
NothingLost ==
    \A i \in Imports : imports[i].status = "COMPLETED" =>
        \A n \in 1..Len(Rows(i)) :
            \/ \E k \in DOMAIN results[i] :
                 results[i][k].row = n /\ results[i][k].status = "ERROR"
            \/ Live(imports[i].type, Rows(i)[n]) # {}

\* No operation is imported twice, by rows of one file, by a repeated delivery or by imports
\* one after another: the same operation is there twice only where one import created it
\* while another stood between its look for the importHash and its own creation, since no
\* index backs the look (known gap).
OperationsUnique ==
    \A e, f \in entities :
        e.type = "OPERATION" /\ f.type = "OPERATION" /\ e.key = f.key /\ e # f =>
            e.source # f.source /\ (e.source \in f.beside \/ f.source \in e.beside)

\* The import is left in PROCESSING with no message, or its message was given up.
Abandoned(i) ==
    \/ imports[i].status = "PROCESSING" /\ At(i, "done")
    \/ At(i, "lost")

\* An import whose message was sent ends, is deleted or is abandoned: a consumer
\* that dies before it starts on the rows is followed by another.
SentEnds ==
    \A i \in Imports :
        At(i, "queued") ~> \/ imports[i].status \in Ended \cup {"DELETED"}
                           \/ Abandoned(i)
=============================================================================
