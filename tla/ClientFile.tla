----------------------------- MODULE ClientFile -----------------------------
(***************************************************************************)
(* The file of one client: its documents, shareholders, beneficial         *)
(* controllers and operations, and what the row of the client says of      *)
(* them.  Every write of the first is followed by recalculateKycProgress,  *)
(* which reads them all anew and overwrites the second.  Shareholders own  *)
(* shares of the client or of a company that is itself a shareholder;      *)
(* depth and sum are checked before the row is written, in statements of   *)
(* their own: the parent is looked up by its id alone, so it may be a      *)
(* shareholder of another client, and the sum is taken within one client.  *)
(***************************************************************************)
EXTENDS Integers, FiniteSetsExt

CONSTANTS
    Clients,         \* ids of clients
    Subject,         \* the client whose file this is
    Holders,         \* ids of shareholders
    ClientOf,        \* clientId of each, given when it is created and kept
    Shares,          \* ownershipPercentage
    Documents,       \* document types
    Required,        \* DOCUMENT_REQUIREMENTS of the client's person type
    Controllers,     \* ids of beneficial controllers
    Operations,      \* ids of operations
    Amounts,         \* their amounts
    IdThreshold,     \* identification threshold of the activity; 0 is "ALWAYS"
    NoticeThreshold, \* notice threshold of the activity; 0 is "ALWAYS"
    Inputs,          \* what is posted and patched
    Workers,         \* requests in flight at once
    NoParent,        \* null parentShareholderId: a share of the client itself
    Keep             \* a field that a PATCH leaves out

EntityType == {"PERSON", "COMPANY"}

Parent == Holders \cup {NoParent}
Input == [h: Holders, type: EntityType, parent: Parent \cup {Keep},
          share: Shares \cup {Keep}]

ASSUME ClientFileAssumption ==
    /\ IsFiniteSet(Holders) /\ IsFiniteSet(Documents) /\ IsFiniteSet(Controllers)
    /\ Subject \in Clients /\ ClientOf \in [Holders -> Clients]
    /\ Inputs \subseteq Input
    /\ Shares \subseteq 1..100
    /\ Amounts \subseteq Nat \ {0}
    /\ IdThreshold \in Nat /\ NoticeThreshold \in Nat
    /\ NoParent \notin Holders /\ Keep \notin Holders \cup {NoParent} \cup Shares

VARIABLES
    holders,      \* table shareholders
    documents,    \* table client_documents: the types uploaded
    controllers,  \* table beneficial_controllers
    operations,   \* amount of each operation that is not deleted, 0 of others
    recent,       \* those whose operationDate is at most six months ago
    summary,      \* the derived columns of the row of the client
    job,          \* what each request is doing
    raced,        \* history: two requests that write shareholders met
    stale,        \* history: since the last recalculation that was left alone, two
                  \*   requests met, or one stopped before it had recalculated
    patched,      \* history: shareholders that were patched
    counted       \* history: the operations that were recent when the summary was computed

tables == <<holders, documents, controllers, operations, recent>>
vars == <<tables, summary, job, raced, stale, patched, counted>>

NoHolder == [type |-> "PERSON", parent |-> NoParent, share |-> 0]
NoInput == [h |-> NoParent, type |-> "PERSON", parent |-> NoParent, share |-> 0]
NoCap == [parent |-> NoParent, share |-> 0]

Summary == [documentsCount: Nat, shareholdersCount: Nat, controllersCount: Nat,
            documentsComplete: BOOLEAN, identificationRequired: BOOLEAN]

\* cap: the level and the share that are checked.  alone: no other request was in
\* flight since this one began.
Idle == [op |-> "idle", at |-> "done", in |-> NoInput, cap |-> NoCap, alone |-> TRUE,
         read |-> [documents |-> {}, shareholders |-> 0, controllers |-> 0],
         required |-> FALSE, window |-> {}]

Exists(h) == holders[h] # NoHolder
Living == {h \in Holders : Exists(h)}

-----------------------------------------------------------------------------
(* recalculateKycProgress                                                  *)

MaxAmount(amounts) == IF Operations = {} THEN 0 ELSE Max({amounts[o] : o \in Operations})
Cumulative(amounts, window) == MapThenSumSet(LAMBDA o : amounts[o], window)

\* computeClientIdentificationTier: identification is required from an operation of any
\* date, or from a sum of six months that must be reported; a threshold "ALWAYS" for
\* notices has no sum.
identificationRequired(amounts, window) ==
    \/ MaxAmount(amounts) >= IdThreshold
    \/ NoticeThreshold > 0 /\ Cumulative(amounts, window) >= NoticeThreshold

\* Below the threshold no document is needed.
documentsComplete(uploaded, required) == required => Required \subseteq uploaded

Progress(read, required) ==
    [documentsCount |-> Cardinality(read.documents),
     shareholdersCount |-> read.shareholders,
     controllersCount |-> read.controllers,
     documentsComplete |-> documentsComplete(read.documents, required),
     identificationRequired |-> required]

Ours == {h \in Living : ClientOf[h] = Subject}

Rows == [documents |-> documents, shareholders |-> Cardinality(Ours),
         controllers |-> Cardinality(controllers)]

Init ==
    /\ holders = [h \in Holders |-> NoHolder]
    /\ documents = {}
    /\ controllers = {}
    /\ operations = [o \in Operations |-> 0]
    /\ recent = {}
    /\ counted = {}
    /\ summary = Progress(Rows, identificationRequired(operations, {}))
    /\ job = [w \in Workers |-> Idle]
    /\ raced = FALSE
    /\ stale = FALSE
    /\ patched = {}

-----------------------------------------------------------------------------
At(w, at) == job[w].at = at
Go(w, at) == job' = [job EXCEPT ![w].at = at]
Finish(w) == job' = [job EXCEPT ![w] = Idle]

\* What a PATCH leaves out is as in the row, when that is read.
Filled(in) ==
    [in EXCEPT !.parent = IF @ = Keep THEN holders[in.h].parent ELSE @,
               !.share = IF @ = Keep THEN holders[in.h].share ELSE @]
CapOf(in) ==
    IF in = NoInput THEN NoCap
    ELSE [parent |-> Filled(in).parent, share |-> Filled(in).share]

Others(w) == {v \in Workers \ {w} : job[v] # Idle}

Owning == {"create", "patch"}

\* A request begins; those in flight are no longer alone, nor is it.
Begin(w, op, at, in) ==
    /\ job[w] = Idle
    /\ job' = [v \in Workers |->
         IF v = w THEN [Idle EXCEPT !.op = op, !.at = at, !.in = in,
                                    !.cap = CapOf(in), !.alone = Others(w) = {}]
         ELSE [job[v] EXCEPT !.alone = job[v] = Idle]]
    /\ raced' = (raced \/ (op \in Owning /\ \E v \in Others(w) : job[v].op \in Owning))

\* Requests that meet may leave a summary that is not true.
Meet(w) == stale' = (stale \/ Others(w) # {})

\* The client with its documents, controllers and shareholders ...
ReadRows(w) ==
    /\ At(w, "rows")
    /\ job' = [job EXCEPT ![w].at = "tier", ![w].read = Rows]
    /\ UNCHANGED <<tables, summary, raced, stale, patched, counted>>

\* ... its operations ...
ReadTier(w) ==
    /\ At(w, "tier")
    /\ job' = [job EXCEPT ![w].at = "store",
                          ![w].required = identificationRequired(operations, recent),
                          ![w].window = recent]
    /\ UNCHANGED <<tables, summary, raced, stale, patched, counted>>

\* ... and one update of the row.
Store(w) ==
    /\ At(w, "store")
    /\ summary' = Progress(job[w].read, job[w].required)
    /\ stale' = (stale /\ ~job[w].alone)
    /\ counted' = job[w].window
    /\ Finish(w)
    /\ UNCHANGED <<tables, raced, patched>>

\* The request wrote a shareholder of another client: it is that client's row that is
\* recalculated.
StoreElsewhere(w) ==
    /\ At(w, "other")
    /\ Finish(w)
    /\ UNCHANGED <<tables, summary, raced, stale, patched, counted>>

\* A request is cut off, or a statement of it throws.
Die(w) ==
    /\ job[w] # Idle
    /\ stale' = (stale \/ job[w].at \in {"rows", "tier", "store"})
    /\ Finish(w)
    /\ UNCHANGED <<tables, summary, raced, patched, counted>>

-----------------------------------------------------------------------------
(* Documents, controllers, operations: one write, and the recalculation    *)

\* createDocument, deleteDocument
WriteDocument(w, d) ==
    /\ Begin(w, "write", "rows", NoInput) /\ Meet(w)
    /\ documents' = IF d \in documents THEN documents \ {d} ELSE documents \cup {d}
    /\ UNCHANGED <<holders, controllers, operations, recent, summary, patched, counted>>

\* create and delete of a beneficial controller
WriteController(w, c) ==
    /\ Begin(w, "write", "rows", NoInput) /\ Meet(w)
    /\ controllers' = IF c \in controllers THEN controllers \ {c} ELSE controllers \cup {c}
    /\ UNCHANGED <<holders, documents, operations, recent, summary, patched, counted>>

\* create, update and softDelete of an operation, which may bear any date
WriteOperation(w, o) ==
    /\ Begin(w, "write", "rows", NoInput) /\ Meet(w)
    /\ \E a \in Amounts \cup {0}, dated \in SUBSET {o} :
         /\ a = 0 => dated = {}
         /\ operations' = [operations EXCEPT ![o] = a]
         /\ recent' = (recent \ {o}) \cup dated
    /\ <<operations, recent>>' # <<operations, recent>>
    /\ UNCHANGED <<holders, documents, controllers, summary, patched, counted>>

\* Six months after its date an operation no longer counts for the sum.  Nothing is
\* recalculated.
Age(o) ==
    /\ o \in recent
    /\ recent' = recent \ {o}
    /\ UNCHANGED <<holders, documents, controllers, operations, summary, job, raced, stale,
                   patched, counted>>

\* A change of the client's own fields, or the maintenance route: only the
\* recalculation is of interest here.
Recalculate(w) ==
    /\ Begin(w, "write", "rows", NoInput) /\ Meet(w)
    /\ UNCHANGED <<tables, summary, patched, counted>>

-----------------------------------------------------------------------------
(* Shareholders                                                            *)

\* Fault: the parent may be anyone.
AnyParent(parent) == parent # NoParent => Exists(parent)

\* validateDepth: the parent is a company and has no parent itself, whichever client's.
validateDepth(parent) ==
    parent # NoParent =>
        /\ Exists(parent)
        /\ holders[parent].parent = NoParent
        /\ holders[parent].type = "COMPANY"

\* A level: what the shareholders of one client own of one parent.
SumUnder(client, parent, except) ==
    MapThenSumSet(LAMBDA h : holders[h].share,
                  {h \in Living \ except :
                     ClientOf[h] = client /\ holders[h].parent = parent})

\* Fault: what the shareholder owned is taken off the level it comes to as well.
CapAnyLevel(h, cap) ==
    SumUnder(ClientOf[h], cap.parent, {}) - holders[h].share + cap.share <= 100

\* validateOwnershipCap: the sum of the level, without the shareholder itself.
validateOwnershipCap(h, cap) ==
    SumUnder(ClientOf[h], cap.parent, {h}) + cap.share <= 100

\* POST: the parent is checked ...
StartCreate(w, in) ==
    /\ ~Exists(in.h)
    /\ in.parent # Keep /\ in.share # Keep
    /\ validateDepth(in.parent)
    /\ \A v \in Workers : in.h \notin {job[v].in.h, job[v].in.parent}
    /\ Begin(w, "create", "cap", in) /\ Meet(w)
    /\ UNCHANGED <<tables, summary, patched, counted>>

\* PATCH: the row is read, and a parent that changes is checked ...
StartPatch(w, in) ==
    /\ Exists(in.h)
    /\ in.parent \notin {Keep, holders[in.h].parent} => validateDepth(in.parent)
    /\ Begin(w, "patch", "cap", in) /\ Meet(w)
    /\ UNCHANGED <<tables, summary, patched, counted>>

\* ... the sum is read and checked ...
CheckCap(w) ==
    /\ At(w, "cap")
    /\ IF validateOwnershipCap(job[w].in.h, job[w].cap)
         THEN Go(w, IF job[w].op = "create" THEN "insert" ELSE "update") ELSE Finish(w)
    /\ UNCHANGED <<tables, summary, raced, stale, patched, counted>>

Recalculates(h) == IF ClientOf[h] = Subject THEN "rows" ELSE "other"

\* ... and the row is inserted, if the parent is still there (a foreign key), or
Insert(w) ==
    LET in == job[w].in
    IN  /\ At(w, "insert")
        /\ in.parent # NoParent => Exists(in.parent)
        /\ holders' = [holders EXCEPT ![in.h] =
             [type |-> in.type, parent |-> in.parent, share |-> in.share]]
        /\ patched' = patched \ {in.h}
        /\ job' = [job EXCEPT ![w] = [Idle EXCEPT !.op = "write", !.at = Recalculates(in.h),
                                                !.alone = job[w].alone]]
        /\ UNCHANGED <<documents, controllers, operations, recent, summary, raced, stale,
                       counted>>

\* updated in the columns that are named.  The counts do not change and are not
\* recalculated.
Update(w) ==
    LET in == Filled(job[w].in)
    IN  /\ At(w, "update")
        /\ Exists(in.h)
        /\ in.parent # NoParent => Exists(in.parent)
        /\ holders' = [holders EXCEPT ![in.h] =
             [type |-> in.type, parent |-> in.parent, share |-> in.share]]
        /\ patched' = patched \cup {in.h}
        /\ Finish(w)
        /\ UNCHANGED <<documents, controllers, operations, recent, summary, raced, stale,
                       counted>>

\* Shareholders that go with h by cascade: every set that holds h and whoever owns
\* shares of its members has them.
Under(h) ==
    {k \in Living : \A S \in SUBSET Living :
       h \in S /\ (\A j \in Living : holders[j].parent \in S => j \in S) => k \in S}

Remove(h) ==
    /\ holders' = [k \in Holders |-> IF k \in Under(h) THEN NoHolder ELSE holders[k]]
    /\ UNCHANGED <<documents, controllers, operations, recent, summary, patched, counted>>

\* Fault: the count is not brought up to date after a deletion.
DeleteQuietly(w, h) ==
    /\ Exists(h)
    /\ Begin(w, "write", "done", NoInput) /\ Meet(w)
    /\ Remove(h)

\* DELETE, with what the shareholder owns shares of by cascade, whichever client's.  The
\* row that is recalculated is that of its own client.
DeleteHolder(w, h) ==
    /\ Exists(h)
    /\ Begin(w, "write", Recalculates(h), NoInput)
    /\ stale' = \/ stale \/ Others(w) # {}
                \/ ClientOf[h] # Subject /\ Under(h) \cap Ours # {}
    /\ Remove(h)

-----------------------------------------------------------------------------
Request(w) ==
    \/ \E d \in Documents : WriteDocument(w, d)
    \/ \E c \in Controllers : WriteController(w, c)
    \/ \E o \in Operations : WriteOperation(w, o)
    \/ Recalculate(w)
    \/ \E in \in Inputs : StartCreate(w, in)
    \/ \E in \in Inputs : StartPatch(w, in)
    \/ CheckCap(w)
    \/ Insert(w)
    \/ Update(w)
    \/ \E h \in Holders : DeleteHolder(w, h)
    \/ ReadRows(w)
    \/ ReadTier(w)
    \/ Store(w)
    \/ StoreElsewhere(w)
    \/ Die(w)

Next == (\E w \in Workers : Request(w)) \/ (\E o \in Operations : Age(o))

Spec == Init /\ [][Next]_vars

-----------------------------------------------------------------------------
(* Properties                                                              *)

TypeOK ==
    /\ holders \in [Holders -> [type: EntityType, parent: Parent, share: Shares \cup {0}]]
    /\ documents \subseteq Documents
    /\ controllers \subseteq Controllers
    /\ operations \in [Operations -> Amounts \cup {0}]
    /\ recent \subseteq Operations /\ counted \subseteq Operations
    /\ summary \in Summary
    /\ job \in [Workers ->
         [op: Owning \cup {"idle", "write"},
          at: {"done", "cap", "insert", "update", "rows", "tier", "store", "other"},
          in: Input \cup {NoInput},
          cap: [parent: Parent, share: Shares \cup {0}],
          alone: BOOLEAN,
          read: [documents: SUBSET Documents, shareholders: Nat, controllers: Nat],
          required: BOOLEAN, window: SUBSET Operations]]
    /\ raced \in BOOLEAN /\ stale \in BOOLEAN
    /\ patched \subseteq Holders

\* What the shareholders of one client own of one parent, which may be a shareholder of
\* another client, never adds up to more than the whole, wherever they were moved to,
\* unless two requests that write shareholders met: the sum is read before the row is
\* written, and nothing in the table bounds it.
OwnershipCap ==
    raced \/ \A c \in Clients, p \in Parent : SumUnder(c, p, {}) <= 100

\* Among shareholders that were never patched the levels are as validateDepth wants
\* them, even if their requests overlapped: whoever owns shares of a shareholder
\* owns them of a company of the first level.
LevelsAsCreated ==
    \A h \in Living : LET p == holders[h].parent IN
        p # NoParent /\ {h, p} \cap patched = {}
          => Exists(p) /\ holders[p].parent = NoParent /\ holders[p].type = "COMPANY"

\* What the row of the client says of its file is true when no request is in flight,
\* even after requests that overlapped or stopped half way, once a later one
\* recalculated it undisturbed; but for the tier, which still counts operations that
\* have grown older than six months since.
SummaryCurrent ==
    (\A w \in Workers : job[w] = Idle) /\ ~stale
      => /\ recent \subseteq counted
         /\ summary = Progress(Rows, identificationRequired(operations, counted))
=============================================================================
