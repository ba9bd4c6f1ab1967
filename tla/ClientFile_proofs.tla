------------------------- MODULE ClientFile_proofs -------------------------
(* Theorems about ClientFile for all shareholders, documents, controllers, *)
(* operations, shares, inputs and requests in flight.                      *)
EXTENDS ClientFile, FiniteSetTheorems, WellFoundedInduction, TLAPS

Row == [type: EntityType, parent: Parent, share: Shares]
Read == [documents: SUBSET Documents, shareholders: Nat, controllers: Nat]
Cap == [parent: Parent, share: Shares \cup {0}]
Ops == Owning \cup {"idle", "write"}
Steps == {"done", "cap", "insert", "update", "rows", "tier", "store", "other"}
Job == [op: Ops, at: Steps, in: Input \cup {NoInput}, cap: Cap, alone: BOOLEAN,
        read: Read, required: BOOLEAN, window: SUBSET Operations]

\* Which requests stand at which statement, and what they have been given.
Shaped(j) ==
    /\ j.at = "done" => j = Idle
    /\ j.at = "cap" => j.op \in Owning
    /\ j.at = "insert" => j.op = "create"
    /\ j.at = "update" => j.op = "patch"
    /\ j.at \in {"cap", "insert", "update"} => j.in \in Input
    /\ j.at \in {"cap", "insert"} /\ j.op = "create" => j.in.parent # Keep /\ j.in.share # Keep

Tables ==
    /\ holders \in [Holders -> Row \cup {NoHolder}]
    /\ documents \in SUBSET Documents
    /\ controllers \in SUBSET Controllers
    /\ operations \in [Operations -> Amounts \cup {0}]
    /\ recent \in SUBSET Operations /\ counted \in SUBSET Operations
    /\ summary \in Summary
    /\ raced \in BOOLEAN /\ stale \in BOOLEAN
    /\ patched \in SUBSET Holders

TypeInv ==
    /\ Tables
    /\ job \in [Workers -> Job]
    /\ \A w \in Workers : Shaped(job[w])

-----------------------------------------------------------------------------
(* The helpers.                                                            *)

LEMMA IdleTyped ==
    /\ Idle \in Job /\ Shaped(Idle)
    /\ Idle.at = "done" /\ Idle.in = NoInput
  BY DEF Idle, Job, Shaped, Ops, Steps, Owning, NoInput, NoCap, Cap, Parent, Read

LEMMA TypeOKFollows == TypeInv => TypeOK
  <1> SUFFICES ASSUME TypeInv PROVE TypeOK
    OBVIOUS
  <1>1. Row \cup {NoHolder} \subseteq [type: EntityType, parent: Parent, share: Shares \cup {0}]
    BY DEF Row, NoHolder, EntityType, Parent
  <1>2. holders \in [Holders -> [type: EntityType, parent: Parent, share: Shares \cup {0}]]
    BY <1>1 DEF TypeInv, Tables
  <1>3. job \in [Workers -> Job]
    BY DEF TypeInv
  <1> QED
    BY <1>2, <1>3 DEF TypeInv, Tables, TypeOK, Job, Ops, Steps, Cap, Read

\* A shareholder that exists has a share, and what has a share exists.
LEMMA RowExists ==
    /\ \A r \in Row : r # NoHolder
    /\ NoHolder.parent = NoParent
  BY ClientFileAssumption DEF Row, NoHolder

LEMMA RequiredTyped ==
    ASSUME NEW amounts, NEW window
    PROVE  identificationRequired(amounts, window) \in BOOLEAN
  BY DEF identificationRequired

LEMMA CompleteTyped ==
    ASSUME NEW uploaded, NEW required
    PROVE  documentsComplete(uploaded, required) \in BOOLEAN
  BY DEF documentsComplete

LEMMA RowsTyped == TypeInv => Rows \in Read
  <1> SUFFICES ASSUME TypeInv PROVE Rows \in Read
    OBVIOUS
  <1>1. IsFiniteSet(Ours)
    BY ClientFileAssumption, FS_Subset DEF Ours, Living
  <1>2. IsFiniteSet(controllers)
    BY ClientFileAssumption, FS_Subset DEF TypeInv, Tables
  <1>3. Cardinality(Ours) \in Nat /\ Cardinality(controllers) \in Nat
    BY <1>1, <1>2, FS_CardinalityType
  <1> QED
    BY <1>3 DEF Rows, Read, TypeInv, Tables

LEMMA ProgressTyped ==
    ASSUME NEW read \in Read, NEW required \in BOOLEAN
    PROVE  Progress(read, required) \in Summary
  <1>1. IsFiniteSet(read.documents)
    BY ClientFileAssumption, FS_Subset DEF Read
  <1>2. Cardinality(read.documents) \in Nat
    BY <1>1, FS_CardinalityType
  <1>3. documentsComplete(read.documents, required) \in BOOLEAN
    BY CompleteTyped
  <1> QED
    BY <1>2, <1>3 DEF Progress, Summary, Read

\* What a PATCH leaves out comes from a row that is of its type.
LEMMA FilledTyped ==
    ASSUME TypeInv, NEW in \in Input
    PROVE  /\ Filled(in).h = in.h /\ Filled(in).type \in EntityType
           /\ Filled(in).parent \in Parent /\ Filled(in).share \in Shares \cup {0}
           /\ Exists(in.h) => Filled(in).share \in Shares
  <1>1. in.h \in Holders /\ holders[in.h] \in Row \cup {NoHolder}
    BY DEF Input, TypeInv, Tables
  <1>2. /\ holders[in.h].parent \in Parent
        /\ holders[in.h].share \in Shares \cup {0}
        /\ Exists(in.h) => holders[in.h].share \in Shares
    BY <1>1 DEF Row, NoHolder, Parent, Exists
  <1> QED
    BY <1>2 DEF Filled, Input

LEMMA CapTyped ==
    ASSUME TypeInv, NEW in \in Input \cup {NoInput}
    PROVE  CapOf(in) \in Cap
  <1>1. NoCap \in Cap
    BY DEF NoCap, Cap, Parent
  <1>2. CASE in = NoInput
    BY <1>1, <1>2 DEF CapOf
  <1>3. CASE in # NoInput
    BY <1>3, FilledTyped DEF CapOf, Cap
  <1> QED
    BY <1>2, <1>3

-----------------------------------------------------------------------------
(* What the steps do to the requests.                                      *)

\* Of a request in flight all that another one that begins changes is that neither is alone.
Kept(old, new) ==
    /\ new.op = old.op /\ new.at = old.at /\ new.in = old.in /\ new.cap = old.cap
    /\ new.read = old.read /\ new.required = old.required /\ new.window = old.window
    /\ new.alone => old.alone

\* A request that begins at a worker that had none.
Begun(w, op, at, in) ==
    /\ job' \in [Workers -> Job]
    /\ \A v \in Workers : Shaped(job'[v])
    /\ job[w] = Idle
    /\ job'[w].op = op /\ job'[w].at = at /\ job'[w].in = in
    /\ job'[w].alone = (\A v \in Workers \ {w} : job[v] = Idle)
    /\ \A v \in Workers \ {w} :
         /\ Kept(job[v], job'[v])
         /\ job[v] = Idle => job'[v] = Idle
         /\ job[v] # Idle => ~job'[v].alone
    /\ raced' \in BOOLEAN

LEMMA BeginTyped ==
    ASSUME TypeInv, NEW w \in Workers, NEW op \in Ops, NEW at \in Steps \ {"done"},
           NEW in \in Input \cup {NoInput}, Begin(w, op, at, in),
           \/ at \in {"rows", "other"}
           \/ /\ at = "cap" /\ op \in Owning /\ in \in Input
              /\ op = "create" => in.parent # Keep /\ in.share # Keep
    PROVE  Begun(w, op, at, in)
  <1> DEFINE new == [Idle EXCEPT !.op = op, !.at = at, !.in = in, !.cap = CapOf(in),
                                 !.alone = Others(w) = {}]
  <1>1. new \in Job /\ Shaped(new)
    <2>1. CapOf(in) \in Cap
      BY CapTyped
    <2>2. new \in Job
      BY <2>1, IdleTyped DEF Job
    <2>3. Shaped(new)
      BY DEF Shaped, Idle
    <2> QED
      BY <2>2, <2>3
  <1>2. Others(w) = {} <=> \A v \in Workers \ {w} : job[v] = Idle
    BY DEF Others
  <1>3. job'[w] = new
    BY DEF Begin
  <1>4. ASSUME NEW v \in Workers \ {w}
        PROVE  /\ job'[v] \in Job /\ Shaped(job'[v])
               /\ Kept(job[v], job'[v])
               /\ job[v] = Idle => job'[v] = Idle
               /\ job[v] # Idle => ~job'[v].alone
    <2>1. job[v] \in Job /\ Shaped(job[v])
      BY DEF TypeInv
    <2>2. job'[v] = [job[v] EXCEPT !.alone = job[v] = Idle]
      BY DEF Begin
    <2>3. CASE job[v] = Idle
      <3>1. job[v].alone = TRUE
        BY <2>3 DEF Idle
      <3>2. job'[v] = [job[v] EXCEPT !.alone = TRUE]
        BY <2>2, <2>3
      <3>3. job'[v] = job[v]
        BY <2>1, <3>1, <3>2 DEF Job
      <3> QED
        BY <2>1, <2>3, <3>3 DEF Kept
    <2>4. CASE job[v] # Idle
      <3>1. job[v].at # "done"
        BY <2>1, <2>4 DEF Shaped
      <3>2. job'[v] = [job[v] EXCEPT !.alone = FALSE]
        BY <2>2, <2>4
      <3> QED
        BY <2>1, <2>4, <3>1, <3>2 DEF Kept, Job, Shaped
    <2> QED
      BY <2>3, <2>4
  <1>5. job' \in [Workers -> Job]
    <2> DEFINE next(v) == IF v = w THEN new ELSE [job[v] EXCEPT !.alone = job[v] = Idle]
    <2>1. job' = [v \in Workers |-> next(v)]
      BY DEF Begin
    <2>2. ASSUME NEW v \in Workers PROVE next(v) \in Job
      <3>1. job'[v] = next(v)
        BY <2>1
      <3> QED
        BY <1>1, <1>3, <1>4, <3>1
    <2> HIDE DEF next
    <2> QED
      BY <2>1, <2>2
  <1>6. raced' \in BOOLEAN
    BY DEF Begin
  <1> QED
    BY <1>1, <1>2, <1>3, <1>4, <1>5, <1>6, IdleTyped DEF Begin, Begun, Job

\* A request that goes on or ends leaves the others as they are.
LEMMA MovesTyped ==
    ASSUME TypeInv, NEW w \in Workers, NEW new \in Job, Shaped(new), job' = [job EXCEPT ![w] = new]
    PROVE  /\ job' \in [Workers -> Job]
           /\ \A v \in Workers : Shaped(job'[v])
           /\ job'[w] = new
           /\ \A v \in Workers \ {w} : job'[v] = job[v]
  BY DEF TypeInv

LEMMA GoTyped ==
    ASSUME TypeInv, NEW w \in Workers, NEW at \in Steps, Go(w, at),
           Shaped([job[w] EXCEPT !.at = at])
    PROVE  /\ job' \in [Workers -> Job]
           /\ \A v \in Workers : Shaped(job'[v])
           /\ job'[w] = [job[w] EXCEPT !.at = at]
           /\ \A v \in Workers \ {w} : job'[v] = job[v]
  <1>1. job[w] \in Job
    BY DEF TypeInv
  <1>2. [job[w] EXCEPT !.at = at] \in Job
    BY <1>1 DEF Job
  <1>3. job' = [job EXCEPT ![w] = [job[w] EXCEPT !.at = at]]
    BY DEF Go, TypeInv
  <1> QED
    BY <1>2, <1>3, MovesTyped

LEMMA FinishTyped ==
    ASSUME TypeInv, NEW w \in Workers, Finish(w)
    PROVE  /\ job' \in [Workers -> Job]
           /\ \A v \in Workers : Shaped(job'[v])
           /\ job'[w] = Idle
           /\ \A v \in Workers \ {w} : job'[v] = job[v]
  BY MovesTyped, IdleTyped DEF Finish

-----------------------------------------------------------------------------
(* Type correctness.                                                       *)

TypesKept ==
    /\ Tables'
    /\ job' \in [Workers -> Job]
    /\ \A v \in Workers : Shaped(job'[v])

\* A request that writes something and then recalculates.
LEMMA WriteBegins ==
    ASSUME TypeInv, NEW w \in Workers, NEW at \in {"rows", "other"},
           Begin(w, "write", at, NoInput)
    PROVE  Begun(w, "write", at, NoInput)
  <1>1. PICK op \in Ops, in \in Input \cup {NoInput} : op = "write" /\ in = NoInput
    BY DEF Ops
  <1>2. Begin(w, op, at, in)
    BY <1>1
  <1>3. at \in Steps \ {"done"}
    BY DEF Steps
  <1> QED
    BY <1>1, <1>2, <1>3, BeginTyped

\* Unless they meet, no other request is in flight.
LEMMA MeetIs ==
    ASSUME TypeInv, NEW w \in Workers, Meet(w)
    PROVE  /\ stale' \in BOOLEAN
           /\ ~stale' => ~stale /\ \A v \in Workers \ {w} : job[v] = Idle
  BY DEF Meet, Others, TypeInv, Tables

LEMMA WhatRecalculates == \A h \in Holders : Recalculates(h) \in {"rows", "other"}
  BY DEF Recalculates

\* A request of a shareholder begins.
LEMMA OwningBegins ==
    ASSUME TypeInv, NEW w \in Workers, NEW op \in Owning, NEW in \in Inputs,
           op = "create" => in.parent # Keep /\ in.share # Keep,
           Begin(w, op, "cap", in)
    PROVE  Begun(w, op, "cap", in)
  <1>1. in \in Input /\ in \in Input \cup {NoInput}
    BY ClientFileAssumption
  <1>2. op \in Ops /\ "cap" \in Steps \ {"done"}
    BY DEF Ops, Steps
  <1> QED
    BY <1>1, <1>2, BeginTyped

\* The row that a POST inserts.
LEMMA InsertedRow ==
    ASSUME TypeInv, NEW w \in Workers, At(w, "insert")
    PROVE  /\ job[w].op = "create"
           /\ job[w].in.h \in Holders /\ job[w].in.parent \in Parent
           /\ [type |-> job[w].in.type, parent |-> job[w].in.parent,
               share |-> job[w].in.share] \in Row
  BY DEF TypeInv, Shaped, At, Input, Row

\* The row that a PATCH leaves.
LEMMA UpdatedRow ==
    ASSUME TypeInv, NEW w \in Workers, At(w, "update"), Exists(Filled(job[w].in).h)
    PROVE  /\ job[w].op = "patch"
           /\ job[w].in.h \in Holders /\ Filled(job[w].in).h = job[w].in.h
           /\ [type |-> Filled(job[w].in).type, parent |-> Filled(job[w].in).parent,
               share |-> Filled(job[w].in).share] \in Row
  <1>1. job[w].in \in Input /\ job[w].op = "patch"
    BY DEF TypeInv, Shaped, At
  <1> QED
    BY <1>1, FilledTyped DEF Input, Row

LEMMA TypeStep == TypeInv /\ [Next]_vars => TypeInv'
  <1> SUFFICES ASSUME TypeInv, [Next]_vars PROVE TypeInv'
    OBVIOUS
  <1> SUFFICES TypesKept
    BY DEF TypesKept, TypeInv
  <1> USE DEF TypesKept
  <1>a. Tables
    BY DEF TypeInv
  <1>1. CASE UNCHANGED vars
    BY <1>1 DEF vars, tables, TypeInv, Tables
  <1>2. ASSUME NEW w \in Workers, Request(w) PROVE TypesKept
    <2>1. ASSUME NEW d \in Documents, WriteDocument(w, d) PROVE TypesKept
      BY <1>a, <2>1, WriteBegins, MeetIs DEF Begun, WriteDocument, Tables
    <2>2. ASSUME NEW c \in Controllers, WriteController(w, c) PROVE TypesKept
      BY <1>a, <2>2, WriteBegins, MeetIs DEF Begun, WriteController, Tables
    <2>3. ASSUME NEW o \in Operations, WriteOperation(w, o) PROVE TypesKept
      <3>1. /\ operations' \in [Operations -> Amounts \cup {0}]
            /\ recent' \in SUBSET Operations
        BY <1>a, <2>3 DEF WriteOperation, Tables
      <3> QED
        BY <1>a, <2>3, <3>1, WriteBegins, MeetIs DEF Begun, WriteOperation, Tables
    <2>4. CASE Recalculate(w)
      BY <1>a, <2>4, WriteBegins, MeetIs DEF Begun, Recalculate, tables, Tables
    <2>5. ASSUME NEW in \in Inputs, StartCreate(w, in) PROVE TypesKept
      BY <1>a, <2>5, OwningBegins, MeetIs DEF Begun, StartCreate, tables, Tables, Owning
    <2>6. ASSUME NEW in \in Inputs, StartPatch(w, in) PROVE TypesKept
      BY <1>a, <2>6, OwningBegins, MeetIs DEF Begun, StartPatch, tables, Tables, Owning
    <2>7. CASE CheckCap(w)
      <3>1. Shaped([job[w] EXCEPT !.at = IF job[w].op = "create" THEN "insert" ELSE "update"])
        BY <2>7 DEF CheckCap, At, TypeInv, Shaped, Job, Owning
      <3>2. "insert" \in Steps /\ "update" \in Steps
        BY DEF Steps
      <3>3. /\ job' \in [Workers -> Job]
            /\ \A v \in Workers : Shaped(job'[v])
        BY <2>7, <3>1, <3>2, GoTyped, FinishTyped DEF CheckCap
      <3> QED
        BY <1>a, <2>7, <3>3 DEF CheckCap, tables, Tables
    <2>8. CASE Insert(w)
      <3> DEFINE new == [Idle EXCEPT !.op = "write", !.at = Recalculates(job[w].in.h),
                                     !.alone = job[w].alone]
      <3>1. new \in Job /\ Shaped(new)
        <4>1. Recalculates(job[w].in.h) \in {"rows", "other"}
          BY <2>8, InsertedRow, WhatRecalculates DEF Insert
        <4> QED
          BY <4>1, IdleTyped DEF TypeInv, Job, Ops, Steps, Shaped, Idle
      <3>2. job' = [job EXCEPT ![w] = new]
        BY <2>8 DEF Insert
      <3>3. /\ job' \in [Workers -> Job]
            /\ \A v \in Workers : Shaped(job'[v])
        BY <3>1, <3>2, MovesTyped
      <3>4. holders' \in [Holders -> Row \cup {NoHolder}]
        BY <1>a, <2>8, InsertedRow DEF Insert, Tables
      <3>5. patched' \in SUBSET Holders
        BY <1>a, <2>8 DEF Insert, Tables
      <3> QED
        BY <1>a, <2>8, <3>3, <3>4, <3>5 DEF Insert, Tables
    <2>9. CASE Update(w)
      <3>1. /\ job' \in [Workers -> Job]
            /\ \A v \in Workers : Shaped(job'[v])
        BY <2>9, FinishTyped DEF Update
      <3>2. /\ holders' \in [Holders -> Row \cup {NoHolder}]
            /\ patched' \in SUBSET Holders
        BY <1>a, <2>9, UpdatedRow DEF Update, Tables
      <3> QED
        BY <1>a, <2>9, <3>1, <3>2 DEF Update, Tables
    <2>10. ASSUME NEW h \in Holders, DeleteHolder(w, h) PROVE TypesKept
      <3>1. holders' \in [Holders -> Row \cup {NoHolder}]
        BY <1>a, <2>10 DEF DeleteHolder, Remove, Tables
      <3>2. Begun(w, "write", Recalculates(h), NoInput)
        BY <2>10, WhatRecalculates, WriteBegins DEF DeleteHolder
      <3>3. stale' \in BOOLEAN
        BY <1>a, <2>10 DEF DeleteHolder, Tables
      <3> QED
        BY <1>a, <2>10, <3>1, <3>2, <3>3 DEF Begun, DeleteHolder, Remove, Tables
    <2>11. CASE ReadRows(w)
      <3> DEFINE new == [job[w] EXCEPT !.at = "tier", !.read = Rows]
      <3>1. new \in Job /\ Shaped(new)
        BY RowsTyped DEF TypeInv, Job, Steps, Shaped
      <3>2. job' = [job EXCEPT ![w] = new]
        BY <2>11 DEF ReadRows, TypeInv
      <3> QED
        BY <1>a, <2>11, <3>1, <3>2, MovesTyped DEF ReadRows, tables, Tables
    <2>12. CASE ReadTier(w)
      <3> DEFINE new == [job[w] EXCEPT !.at = "store",
                                       !.required = identificationRequired(operations, recent),
                                       !.window = recent]
      <3>1. new \in Job /\ Shaped(new)
        BY RequiredTyped DEF TypeInv, Tables, Job, Steps, Shaped
      <3>2. job' = [job EXCEPT ![w] = new]
        BY <2>12 DEF ReadTier, TypeInv
      <3> QED
        BY <1>a, <2>12, <3>1, <3>2, MovesTyped DEF ReadTier, tables, Tables
    <2>13. CASE Store(w)
      <3>1. /\ job[w].read \in Read /\ job[w].required \in BOOLEAN /\ job[w].alone \in BOOLEAN
            /\ job[w].window \in SUBSET Operations
        BY DEF TypeInv, Job
      <3>2. summary' \in Summary
        BY <2>13, <3>1, ProgressTyped DEF Store
      <3> QED
        BY <1>a, <2>13, <3>1, <3>2, FinishTyped DEF Store, tables, Tables
    <2>14. CASE Die(w)
      BY <1>a, <2>14, FinishTyped DEF Die, tables, Tables
    <2>15. CASE StoreElsewhere(w)
      BY <1>a, <2>15, FinishTyped DEF StoreElsewhere, tables, Tables
    <2> QED
      BY <1>2, <2>1, <2>2, <2>3, <2>4, <2>5, <2>6, <2>7, <2>8, <2>9, <2>10, <2>11, <2>12,
         <2>13, <2>14, <2>15 DEF Request
  <1>3. ASSUME NEW o \in Operations, Age(o) PROVE TypesKept
    BY <1>a, <1>3 DEF Age, Tables, TypeInv
  <1> QED
    BY <1>1, <1>2, <1>3 DEF Next

LEMMA TypeInit == Init => TypeInv
  <1> SUFFICES ASSUME Init PROVE TypeInv
    OBVIOUS
  <1>1. Ours = {} /\ IsFiniteSet({}) /\ Cardinality({}) \in Nat
    BY FS_EmptySet DEF Init, Ours, Living, Exists
  <1>2. Rows \in Read
    BY <1>1 DEF Init, Rows, Read
  <1>3. summary \in Summary
    BY <1>2, ProgressTyped, RequiredTyped DEF Init
  <1> QED
    BY <1>3, IdleTyped DEF Init, TypeInv, Tables

\* The tables hold what their columns may hold, and a request only what a request at its
\* statement was given or has read (TypeOK).
THEOREM TypeCorrect == Spec => []TypeOK
  <1>1. TypeInv => TypeOK
    BY TypeOKFollows
  <1> QED
    BY <1>1, TypeInit, TypeStep, PTL DEF Spec

-----------------------------------------------------------------------------
(* The levels of shareholders.                                             *)

Creating(w) == job[w].op = "create" /\ job[w].at \in {"cap", "insert"}
Levelled(h) == holders[h].parent = NoParent /\ holders[h].type = "COMPANY"

\* The foreign key: nobody owns shares of a shareholder that is gone.
NoOrphan == \A h \in Living : holders[h].parent # NoParent => Exists(holders[h].parent)

\* What a POST has checked of the parent still holds when it inserts, unless the parent
\* was patched or deleted meanwhile; nobody else waits for the new id.
Awaited ==
    \A w \in Workers :
        LET h == job[w].in.h p == job[w].in.parent IN
          Creating(w) =>
            /\ ~Exists(h) /\ h # p
            /\ \A v \in Workers \ {w} : Creating(v) => h # job[v].in.h /\ h # job[v].in.parent
            /\ p # NoParent /\ Exists(p) /\ p \notin patched => Levelled(p)

LevelInv == NoOrphan /\ LevelsAsCreated /\ Awaited

\* Steps that write no shareholder and begin no POST.
LEMMA LevelsQuiet ==
    ASSUME LevelInv, holders' = holders, patched' = patched,
           \A v \in Workers : Creating(v)' => Creating(v) /\ job'[v].in = job[v].in
    PROVE  LevelInv'
  <1>1. NoOrphan' /\ LevelsAsCreated'
    BY DEF LevelInv, NoOrphan, LevelsAsCreated, Living, Exists
  <1>2. Awaited'
    BY DEF LevelInv, Awaited, Exists, Levelled
  <1> QED
    BY <1>1, <1>2 DEF LevelInv

LEMMA LevelsWrite ==
    ASSUME TypeInv, LevelInv, NEW w \in Workers, NEW at \in {"rows", "other"},
           Begin(w, "write", at, NoInput), holders' = holders, patched' = patched
    PROVE  LevelInv'
  <1>1. \A v \in Workers : Creating(v)' => Creating(v) /\ job'[v].in = job[v].in
    BY WriteBegins DEF Begun, Creating, Kept
  <1> QED
    BY <1>1, LevelsQuiet

LEMMA LevelsCreate ==
    ASSUME TypeInv, LevelInv, NEW w \in Workers, NEW in \in Inputs, StartCreate(w, in)
    PROVE  LevelInv'
  <1>1. /\ job'[w].in = in /\ job[w] = Idle
        /\ \A v \in Workers \ {w} : Kept(job[v], job'[v])
    BY OwningBegins DEF Begun, StartCreate, Owning
  <1>2. holders' = holders /\ patched' = patched
    BY DEF StartCreate, tables
  <1>3. NoOrphan' /\ LevelsAsCreated'
    BY <1>2 DEF LevelInv, NoOrphan, LevelsAsCreated, Living, Exists
  <1>4. /\ ~Exists(in.h) /\ in.h # NoParent
        /\ in.parent # NoParent => Exists(in.parent) /\ Levelled(in.parent)
        /\ \A v \in Workers : in.h # job[v].in.h /\ in.h # job[v].in.parent
    BY ClientFileAssumption DEF StartCreate, validateDepth, Levelled, Input
  <1>5. \A v \in Workers \ {w} : Creating(v)' <=> Creating(v)
    BY <1>1 DEF Creating, Kept
  <1>6. \A v \in Workers \ {w} : job'[v].in = job[v].in
    BY <1>1 DEF Kept
  <1>7. ASSUME NEW v \in Workers, Creating(v)'
        PROVE  /\ ~Exists(job'[v].in.h) /\ job'[v].in.h # job'[v].in.parent
               /\ \A u \in Workers \ {v} : Creating(u)' =>
                    job'[v].in.h # job'[u].in.h /\ job'[v].in.h # job'[u].in.parent
               /\ LET p == job'[v].in.parent IN
                    p # NoParent /\ Exists(p) /\ p \notin patched => Levelled(p)
    <2>1. CASE v = w
      <3>1. job'[v].in = in
        BY <1>1, <2>1
      <3>2. in.h # in.parent
        BY <1>4
      <3> QED
        BY <1>4, <1>6, <2>1, <3>1, <3>2
    <2>2. CASE v # w
      <3>1. Creating(v) /\ job'[v].in = job[v].in
        BY <1>5, <1>6, <1>7, <2>2
      <3>2. ~Exists(job[v].in.h) /\ job[v].in.h \in Holders
        BY <3>1 DEF LevelInv, Awaited, TypeInv, Shaped, Creating, Input
      <3>3. job[v].in.h # in.h /\ job[v].in.h # in.parent
        BY <1>4, <3>2, ClientFileAssumption
      <3> QED
        BY <1>1, <1>5, <1>6, <2>2, <3>1, <3>2, <3>3 DEF LevelInv, Awaited
    <2> QED
      BY <2>1, <2>2
  <1>8. Awaited'
    BY <1>2, <1>7 DEF Awaited, Exists, Levelled
  <1> QED
    BY <1>3, <1>8 DEF LevelInv

LEMMA LevelsInsert ==
    ASSUME TypeInv, LevelInv, NEW w \in Workers, Insert(w)
    PROVE  LevelInv'
  <1> DEFINE h == job[w].in.h
             p == job[w].in.parent
             row == [type |-> job[w].in.type, parent |-> job[w].in.parent,
                     share |-> job[w].in.share]
  <1>1. /\ Creating(w) /\ h \in Holders /\ p \in Parent /\ row \in Row
        /\ ~Exists(h) /\ h # p
    BY InsertedRow DEF Insert, At, Creating, LevelInv, Awaited
  <1>2. /\ holders'[h] = row /\ \A k \in Holders \ {h} : holders'[k] = holders[k]
        /\ patched' = patched \ {h}
        /\ p # NoParent => Exists(p)
    BY <1>1 DEF Insert, TypeInv, Tables
  <1>3. /\ job'[w].op = "write"
        /\ \A v \in Workers \ {w} : job'[v] = job[v]
    BY DEF Insert, TypeInv
  <1>4. \A k \in Holders \ {h} : Exists(k)' <=> Exists(k)
    BY <1>2 DEF Exists
  <1>5. p # NoParent => p \in Holders \ {h}
    BY <1>1 DEF Parent
  <1>6. \A k \in Living : k # h /\ holders[k].parent # h
    BY <1>1, ClientFileAssumption DEF LevelInv, NoOrphan, Living
  <1>7. \A k \in Living : holders[k].parent \in Parent
    BY RowExists DEF TypeInv, Tables, Living, Exists, Row
  <1>8. NoOrphan'
    <2> SUFFICES ASSUME NEW k \in Living', (holders[k].parent # NoParent)'
                 PROVE  Exists(holders[k].parent)'
      BY DEF NoOrphan
    <2>1. CASE k = h
      BY <1>2, <1>4, <1>5, <2>1
    <2>2. CASE k # h
      <3>1. k \in Living /\ holders'[k] = holders[k]
        BY <1>2, <1>4, <2>2 DEF Living
      <3>2. holders[k].parent \in Holders \ {h} /\ Exists(holders[k].parent)
        BY <1>6, <1>7, <2>2, <3>1 DEF LevelInv, NoOrphan, Parent
      <3> QED
        BY <1>4, <3>1, <3>2
    <2> QED
      BY <2>1, <2>2
  <1>9. LevelsAsCreated'
    <2> SUFFICES ASSUME NEW k \in Living', (holders[k].parent # NoParent)',
                        ({k, holders[k].parent} \cap patched = {})'
                 PROVE  Exists(holders[k].parent)' /\ Levelled(holders[k].parent)'
      BY DEF LevelsAsCreated, Levelled
    <2>1. CASE k = h
      <3>1. p # NoParent /\ p \notin patched
        BY <1>2, <1>5, <2>1
      <3>2. Exists(p) /\ Levelled(p)
        BY <1>1, <1>2, <3>1 DEF LevelInv, Awaited
      <3> QED
        BY <1>2, <1>4, <1>5, <2>1, <3>1, <3>2 DEF Levelled
    <2>2. CASE k # h
      <3>1. k \in Living /\ holders'[k] = holders[k]
        BY <1>2, <1>4, <2>2 DEF Living
      <3>2. holders[k].parent \in Holders \ {h}
        BY <1>6, <1>7, <2>2, <3>1 DEF Parent
      <3>3. {k, holders[k].parent} \cap patched = {}
        BY <1>2, <2>2, <3>1, <3>2
      <3>4. Exists(holders[k].parent) /\ Levelled(holders[k].parent)
        BY <3>1, <3>3 DEF LevelInv, LevelsAsCreated, Levelled
      <3> QED
        BY <1>2, <1>4, <3>1, <3>2, <3>4 DEF Levelled
    <2> QED
      BY <2>1, <2>2
  <1>10. Awaited'
    <2> SUFFICES ASSUME NEW v \in Workers, Creating(v)'
                 PROVE  (/\ ~Exists(job[v].in.h) /\ job[v].in.h # job[v].in.parent
                         /\ \A u \in Workers \ {v} : Creating(u) =>
                               job[v].in.h # job[u].in.h /\ job[v].in.h # job[u].in.parent
                         /\ LET q == job[v].in.parent IN
                              q # NoParent /\ Exists(q) /\ q \notin patched => Levelled(q))'
      BY DEF Awaited
    <2>1. v # w /\ job'[v] = job[v] /\ Creating(v)
      BY <1>3 DEF Creating
    <2>2. \A u \in Workers : Creating(u)' => u # w /\ Creating(u) /\ job'[u] = job[u]
      BY <1>3 DEF Creating
    <2>3. /\ h # job[v].in.h /\ h # job[v].in.parent
          /\ ~Exists(job[v].in.h) /\ job[v].in.h # job[v].in.parent
      BY <1>1, <2>1 DEF LevelInv, Awaited
    <2>4. job[v].in.h \in Holders /\ job[v].in.parent \in Parent
      BY <2>1 DEF TypeInv, Shaped, Creating, Input
    <2>5. ~Exists(job[v].in.h)'
      BY <1>2, <2>1, <2>3, <2>4 DEF Exists
    <2>6. ASSUME job[v].in.parent # NoParent, Exists(job[v].in.parent)',
                 job[v].in.parent \notin patched'
          PROVE  Levelled(job[v].in.parent)'
      <3>1. job[v].in.parent \in Holders \ {h}
        BY <2>3, <2>4, <2>6 DEF Parent
      <3>2. Exists(job[v].in.parent) /\ job[v].in.parent \notin patched
        BY <1>2, <2>1, <2>6, <3>1 DEF Exists
      <3>3. Levelled(job[v].in.parent)
        BY <2>1, <2>6, <3>2 DEF LevelInv, Awaited
      <3> QED
        BY <1>2, <2>1, <3>1, <3>3 DEF Levelled
    <2>7. \A u \in Workers \ {v} : Creating(u)' =>
             job'[v].in.h # job'[u].in.h /\ job'[v].in.h # job'[u].in.parent
      BY <2>1, <2>2 DEF LevelInv, Awaited
    <2> QED
      BY <2>1, <2>3, <2>5, <2>6, <2>7 DEF Exists, Levelled
  <1> QED
    BY <1>8, <1>9, <1>10 DEF LevelInv

LEMMA LevelsUpdate ==
    ASSUME TypeInv, LevelInv, NEW w \in Workers, Update(w)
    PROVE  LevelInv'
  <1> DEFINE in == Filled(job[w].in)
  <1>1. PICK h \in Holders, row \in Row :
          /\ h = in.h /\ row = [type |-> in.type, parent |-> in.parent, share |-> in.share]
          /\ Exists(h)
          /\ row.parent # NoParent => Exists(row.parent)
          /\ job[w].op = "patch"
    BY UpdatedRow DEF Update
  <1>2. /\ holders'[h] = row /\ \A k \in Holders \ {h} : holders'[k] = holders[k]
        /\ patched' = patched \cup {h}
    BY <1>1 DEF Update, TypeInv, Tables
  <1>3. \A v \in Workers : Creating(v)' => Creating(v) /\ job'[v] = job[v]
    BY FinishTyped, IdleTyped DEF Update, Creating, Idle
  <1>4. \A k \in Holders : Exists(k)' <=> Exists(k)
    BY <1>1, <1>2, RowExists DEF Exists
  <1>5. \A k \in Living : holders[k].parent \in Parent
    BY RowExists DEF TypeInv, Tables, Living, Exists, Row
  <1>6. row.parent \in Parent
    BY DEF Row
  <1>7. NoOrphan'
    <2> SUFFICES ASSUME NEW k \in Living', (holders[k].parent # NoParent)'
                 PROVE  Exists(holders[k].parent)'
      BY DEF NoOrphan
    <2>1. CASE k = h
      BY <1>1, <1>2, <1>4, <1>6, <2>1 DEF Parent
    <2>2. CASE k # h
      <3>1. k \in Living /\ holders'[k] = holders[k]
        BY <1>2, <1>4, <2>2 DEF Living
      <3> QED
        BY <1>4, <1>5, <3>1 DEF LevelInv, NoOrphan, Parent
    <2> QED
      BY <2>1, <2>2
  <1>8. LevelsAsCreated'
    <2> SUFFICES ASSUME NEW k \in Living', (holders[k].parent # NoParent)',
                        ({k, holders[k].parent} \cap patched = {})'
                 PROVE  Exists(holders[k].parent)' /\ Levelled(holders[k].parent)'
      BY DEF LevelsAsCreated, Levelled
    <2>1. k \in Living /\ k # h /\ holders'[k] = holders[k]
      BY <1>2, <1>4 DEF Living
    <2>2. holders[k].parent \in Holders \ {h}
      BY <1>2, <1>5, <2>1 DEF Parent
    <2>3. Exists(holders[k].parent) /\ Levelled(holders[k].parent)
      BY <1>2, <2>1 DEF LevelInv, LevelsAsCreated, Levelled
    <2> QED
      BY <1>2, <1>4, <2>1, <2>2, <2>3 DEF Levelled
  <1>9. Awaited'
    <2> SUFFICES ASSUME NEW v \in Workers, Creating(v)'
                 PROVE  (/\ ~Exists(job[v].in.h) /\ job[v].in.h # job[v].in.parent
                         /\ \A u \in Workers \ {v} : Creating(u) =>
                               job[v].in.h # job[u].in.h /\ job[v].in.h # job[u].in.parent
                         /\ LET q == job[v].in.parent IN
                              q # NoParent /\ Exists(q) /\ q \notin patched => Levelled(q))'
      BY DEF Awaited
    <2>1. Creating(v) /\ job'[v] = job[v]
      BY <1>3
    <2>2. job[v].in.h \in Holders /\ job[v].in.parent \in Parent
      BY <2>1 DEF TypeInv, Shaped, Creating, Input
    <2>3. ~Exists(job[v].in.h)' /\ job[v].in.h # job[v].in.parent
      BY <1>4, <2>1, <2>2 DEF LevelInv, Awaited, Exists
    <2>4. ASSUME job[v].in.parent # NoParent, Exists(job[v].in.parent)',
                 job[v].in.parent \notin patched'
          PROVE  Levelled(job[v].in.parent)'
      <3>1. job[v].in.parent \in Holders \ {h}
        BY <1>2, <2>1, <2>2, <2>4 DEF Parent
      <3>2. Exists(job[v].in.parent) /\ job[v].in.parent \notin patched
        BY <1>2, <2>1, <2>4, <3>1 DEF Exists
      <3>3. Levelled(job[v].in.parent)
        BY <2>1, <2>4, <3>2 DEF LevelInv, Awaited
      <3> QED
        BY <1>2, <2>1, <3>1, <3>3 DEF Levelled
    <2>5. \A u \in Workers \ {v} : Creating(u)' =>
             job'[v].in.h # job'[u].in.h /\ job'[v].in.h # job'[u].in.parent
      BY <1>3, <2>1 DEF LevelInv, Awaited
    <2> QED
      BY <2>1, <2>3, <2>4, <2>5 DEF Exists, Levelled
  <1> QED
    BY <1>7, <1>8, <1>9 DEF LevelInv

\* Whoever owns shares of a shareholder that is deleted goes with it.
LEMMA CascadeCloses ==
    ASSUME NEW h \in Holders, NEW k \in Living, holders[k].parent \in Under(h)
    PROVE  k \in Under(h)
  BY DEF Under

LEMMA LevelsDelete ==
    ASSUME TypeInv, LevelInv, NEW w \in Workers, NEW h \in Holders, DeleteHolder(w, h)
    PROVE  LevelInv'
  <1>1. \A k \in Holders :
          /\ k \in Under(h) => ~Exists(k)'
          /\ k \notin Under(h) => holders'[k] = holders[k] /\ (Exists(k)' <=> Exists(k))
    BY DEF DeleteHolder, Remove, Exists
  <1>2. /\ patched' = patched
        /\ \E at \in {"rows", "other"} : Begin(w, "write", at, NoInput)
    BY WhatRecalculates DEF DeleteHolder, Remove
  <1>3. \A v \in Workers : Creating(v)' => Creating(v) /\ job'[v].in = job[v].in
    BY <1>2, WriteBegins DEF Begun, Creating, Kept
  <1>4. \A k \in Living : holders[k].parent \in Parent
    BY RowExists DEF TypeInv, Tables, Living, Exists, Row
  <1>5. ASSUME NEW k \in Living'
        PROVE  /\ k \in Living /\ holders'[k] = holders[k]
               /\ holders[k].parent # NoParent =>
                    /\ holders[k].parent \in Holders \ Under(h)
                    /\ Exists(holders[k].parent)' /\ Exists(holders[k].parent)
    <2>1. k \in Living /\ k \notin Under(h) /\ holders'[k] = holders[k]
      BY <1>1 DEF Living
    <2>2. holders[k].parent # NoParent => holders[k].parent \in Holders \ Under(h)
      BY <1>4, <2>1, CascadeCloses DEF Parent
    <2>3. holders[k].parent # NoParent => Exists(holders[k].parent)
      BY <2>1 DEF LevelInv, NoOrphan
    <2>4. ASSUME holders[k].parent # NoParent
          PROVE  holders'[holders[k].parent] # NoHolder
      BY <1>1, <2>2, <2>3, <2>4 DEF Exists
    <2> QED
      BY <2>1, <2>2, <2>3, <2>4 DEF Exists
  <1>6. NoOrphan'
    BY <1>5 DEF NoOrphan, Exists
  <1>7. LevelsAsCreated'
    <2> SUFFICES ASSUME NEW k \in Living', (holders[k].parent # NoParent)',
                        ({k, holders[k].parent} \cap patched = {})'
                 PROVE  Exists(holders[k].parent)' /\ Levelled(holders[k].parent)'
      BY DEF LevelsAsCreated, Levelled
    <2>1. k \in Living /\ holders'[k] = holders[k] /\ holders[k].parent \in Holders \ Under(h)
      BY <1>5
    <2>2. Exists(holders[k].parent) /\ Levelled(holders[k].parent)
      BY <1>2, <2>1 DEF LevelInv, LevelsAsCreated, Levelled
    <2>3. holders'[holders[k].parent] = holders[holders[k].parent]
      BY <1>1, <2>1
    <2> QED
      BY <2>1, <2>2, <2>3 DEF Levelled, Exists
  <1>8. Awaited'
    <2> SUFFICES ASSUME NEW v \in Workers, Creating(v)'
                 PROVE  (/\ ~Exists(job[v].in.h) /\ job[v].in.h # job[v].in.parent
                         /\ \A u \in Workers \ {v} : Creating(u) =>
                               job[v].in.h # job[u].in.h /\ job[v].in.h # job[u].in.parent
                         /\ LET q == job[v].in.parent IN
                              q # NoParent /\ Exists(q) /\ q \notin patched => Levelled(q))'
      BY DEF Awaited
    <2>1. Creating(v) /\ job'[v].in = job[v].in
      BY <1>3
    <2>2. job[v].in.h \in Holders /\ job[v].in.parent \in Parent
      BY <2>1 DEF TypeInv, Shaped, Creating, Input
    <2>3. ~Exists(job[v].in.h)' /\ job[v].in.h # job[v].in.parent
      BY <1>1, <2>1, <2>2 DEF LevelInv, Awaited, Exists
    <2>4. ASSUME job[v].in.parent # NoParent, Exists(job[v].in.parent)',
                 job[v].in.parent \notin patched'
          PROVE  Levelled(job[v].in.parent)'
      <3>1. job[v].in.parent \in Holders \ Under(h)
        BY <1>1, <2>1, <2>2, <2>4 DEF Parent, Exists
      <3>2. holders'[job[v].in.parent] = holders[job[v].in.parent]
        BY <1>1, <3>1
      <3>3. Exists(job[v].in.parent) /\ job[v].in.parent \notin patched
        BY <1>2, <2>1, <2>4, <3>2 DEF Exists
      <3>4. Levelled(job[v].in.parent)
        BY <2>1, <2>4, <3>3 DEF LevelInv, Awaited
      <3> QED
        BY <2>1, <3>2, <3>4 DEF Levelled
    <2>5. \A u \in Workers \ {v} : Creating(u)' =>
             job'[v].in.h # job'[u].in.h /\ job'[v].in.h # job'[u].in.parent
      BY <1>3, <2>1 DEF LevelInv, Awaited
    <2> QED
      BY <2>1, <2>3, <2>4, <2>5 DEF Exists, Levelled
  <1> QED
    BY <1>6, <1>7, <1>8 DEF LevelInv

LEMMA LevelStep == TypeInv /\ LevelInv /\ [Next]_vars => LevelInv'
  <1> SUFFICES ASSUME TypeInv, LevelInv, [Next]_vars PROVE LevelInv'
    OBVIOUS
  <1>1. CASE UNCHANGED vars
    BY <1>1, LevelsQuiet DEF vars, tables, Creating
  <1>2. ASSUME NEW w \in Workers, Request(w) PROVE LevelInv'
    <2>1. ASSUME NEW d \in Documents, WriteDocument(w, d) PROVE LevelInv'
      BY <2>1, LevelsWrite DEF WriteDocument
    <2>2. ASSUME NEW c \in Controllers, WriteController(w, c) PROVE LevelInv'
      BY <2>2, LevelsWrite DEF WriteController
    <2>3. ASSUME NEW o \in Operations, WriteOperation(w, o) PROVE LevelInv'
      BY <2>3, LevelsWrite DEF WriteOperation
    <2>4. CASE Recalculate(w)
      BY <2>4, LevelsWrite DEF Recalculate, tables
    <2>5. ASSUME NEW in \in Inputs, StartCreate(w, in) PROVE LevelInv'
      BY <2>5, LevelsCreate
    <2>6. ASSUME NEW in \in Inputs, StartPatch(w, in) PROVE LevelInv'
      <3>1. /\ job'[w].op = "patch"
            /\ \A v \in Workers \ {w} : Kept(job[v], job'[v])
        BY <2>6, OwningBegins DEF Begun, StartPatch, Owning
      <3>2. \A v \in Workers : Creating(v)' => Creating(v) /\ job'[v].in = job[v].in
        BY <3>1 DEF Creating, Kept
      <3> QED
        BY <2>6, <3>2, LevelsQuiet DEF StartPatch, tables
    <2>7. CASE CheckCap(w)
      <3>1. job[w] \in Job
        BY DEF TypeInv
      <3>2. \A v \in Workers : Creating(v)' => Creating(v) /\ job'[v].in = job[v].in
        BY <2>7, <3>1 DEF CheckCap, At, Go, Finish, Creating, Idle, TypeInv, Job
      <3> QED
        BY <2>7, <3>2, LevelsQuiet DEF CheckCap, tables
    <2>8. CASE Insert(w)
      BY <2>8, LevelsInsert
    <2>9. CASE Update(w)
      BY <2>9, LevelsUpdate
    <2>10. ASSUME NEW h \in Holders, DeleteHolder(w, h) PROVE LevelInv'
      BY <2>10, LevelsDelete
    <2>11. CASE ReadRows(w)
      BY <2>11, LevelsQuiet DEF ReadRows, tables, Creating, TypeInv, Job
    <2>12. CASE ReadTier(w)
      BY <2>12, LevelsQuiet DEF ReadTier, tables, Creating, TypeInv, Job
    <2>13. CASE Store(w)
      BY <2>13, FinishTyped, IdleTyped, LevelsQuiet DEF Store, tables, Creating, Idle
    <2>14. CASE Die(w)
      BY <2>14, FinishTyped, IdleTyped, LevelsQuiet DEF Die, tables, Creating, Idle
    <2>15. CASE StoreElsewhere(w)
      BY <2>15, FinishTyped, IdleTyped, LevelsQuiet DEF StoreElsewhere, tables, Creating, Idle
    <2> QED
      BY <1>2, <2>1, <2>2, <2>3, <2>4, <2>5, <2>6, <2>7, <2>8, <2>9, <2>10, <2>11, <2>12,
         <2>13, <2>14, <2>15 DEF Request
  <1>3. ASSUME NEW o \in Operations, Age(o) PROVE LevelInv'
    BY <1>3, LevelsQuiet DEF Age, Creating
  <1> QED
    BY <1>1, <1>2, <1>3 DEF Next

\* Among shareholders that were never patched, whoever owns shares of a shareholder owns
\* them of a company of the first level, for any number of requests at once, any of which
\* may delete what another one has checked (LevelsAsCreated).
THEOREM LevelsStand == Spec => []LevelsAsCreated
  <1>1. Init => LevelInv
    BY DEF Init, LevelInv, NoOrphan, LevelsAsCreated, Awaited, Living, Exists, Creating, Idle
  <1>2. LevelInv => LevelsAsCreated
    BY DEF LevelInv
  <1> QED
    BY <1>1, <1>2, TypeInit, TypeStep, LevelStep, PTL DEF Spec

-----------------------------------------------------------------------------
(* The summary on the row of the client.                                   *)

Current ==
    /\ recent \subseteq counted
    /\ summary = Progress(Rows, identificationRequired(operations, counted))
Recalculating(w) == job[w].at \in {"rows", "tier", "store"}

\* What a request that is alone has read is as it was read, but for the operations that have
\* grown old since.
Fresh(w) ==
    /\ job[w].at = "tier" => job[w].read = Rows
    /\ job[w].at = "store" =>
         /\ job[w].read = Rows
         /\ recent \subseteq job[w].window
         /\ job[w].required = identificationRequired(operations, job[w].window)

SumInv ==
    /\ \A w \in Workers :
         job[w] # Idle /\ job[w].alone =>
           /\ Fresh(w)
           /\ \A v \in Workers \ {w} : job[v] = Idle
    /\ ~stale => \A w \in Workers : job[w] # Idle => job[w].alone
    /\ ~stale /\ (\A w \in Workers : ~Recalculating(w)) => Current

\* A request that writes begins: it will recalculate, or what it wrote is not of this file.
LEMMA SumWrite ==
    ASSUME TypeInv, SumInv, NEW w \in Workers, NEW at \in {"rows", "other"},
           Begin(w, "write", at, NoInput),
           ~stale' => ~stale /\ \A v \in Workers \ {w} : job[v] = Idle,
           at = "other" /\ ~stale' =>
             /\ Rows' = Rows
             /\ UNCHANGED <<operations, recent, counted, summary>>
    PROVE  SumInv'
  <1>1. /\ job'[w].at = at /\ job[w] = Idle
        /\ job'[w].alone => \A v \in Workers \ {w} : job[v] = Idle
        /\ \A v \in Workers \ {w} :
             /\ job[v] = Idle => job'[v] = Idle
             /\ job[v] # Idle => ~job'[v].alone
        /\ (\A v \in Workers \ {w} : job[v] = Idle) => job'[w].alone
    BY WriteBegins DEF Begun
  <1>2. \A v \in Workers : job'[v] # Idle /\ job'[v].alone => v = w
    BY <1>1
  <1>3. ~stale' => Current
    BY <1>1, IdleTyped DEF SumInv, Recalculating
  <1>4. ~stale' /\ at = "other" => Current'
    BY <1>3 DEF Current
  <1> QED
    BY <1>1, <1>2, <1>4 DEF SumInv, Fresh, Recalculating

\* An operation grows old.
LEMMA SumAge ==
    ASSUME TypeInv, SumInv, NEW o \in Operations, Age(o)
    PROVE  SumInv'
  <1>1. /\ job' = job /\ stale' = stale /\ summary' = summary /\ counted' = counted
        /\ operations' = operations /\ recent' \subseteq recent /\ Rows' = Rows
    BY DEF Age, Rows, Ours, Living, Exists
  <1>2. Current => Current'
    BY <1>1 DEF Current
  <1>3. \A w \in Workers : Fresh(w) => Fresh(w)'
    BY <1>1 DEF Fresh
  <1> QED
    BY <1>1, <1>2, <1>3 DEF SumInv, Recalculating

\* A request of a shareholder begins.
LEMMA SumOwning ==
    ASSUME TypeInv, SumInv, NEW w \in Workers, NEW op \in Owning, NEW in \in Inputs,
           op = "create" => in.parent # Keep /\ in.share # Keep,
           Begin(w, op, "cap", in), Meet(w), UNCHANGED <<tables, summary, counted>>
    PROVE  SumInv'
  <1>1. /\ job'[w].at = "cap" /\ job[w] = Idle
        /\ job'[w].alone => \A v \in Workers \ {w} : job[v] = Idle
        /\ \A v \in Workers \ {w} :
             /\ job[v] = Idle => job'[v] = Idle
             /\ job[v] # Idle => ~job'[v].alone
        /\ ~stale' => ~stale /\ \A v \in Workers \ {w} : job[v] = Idle
        /\ (\A v \in Workers \ {w} : job[v] = Idle) => job'[w].alone
    BY OwningBegins, MeetIs DEF Begun
  <1>2. \A v \in Workers : job'[v] # Idle /\ job'[v].alone => v = w
    BY <1>1
  <1>3. ~stale' => Current
    BY <1>1, IdleTyped DEF SumInv, Recalculating
  <1>4. ~stale' => Current'
    BY <1>3 DEF Current, tables, Rows, Ours, Living, Exists
  <1> QED
    BY <1>1, <1>2, <1>4 DEF SumInv, Fresh, Recalculating

\* A request goes on or ends that recalculates nothing, before and after.
LEMMA SumQuiet ==
    ASSUME TypeInv, SumInv, NEW w \in Workers,
           job[w] # Idle, ~Recalculating(w), ~Recalculating(w)',
           job'[w] = Idle \/ job'[w].alone = job[w].alone,
           \A v \in Workers \ {w} : job'[v] = job[v],
           Rows' = Rows, operations' = operations, recent' = recent, counted' = counted,
           summary' = summary, stale' = stale
    PROVE  SumInv'
  <1>1. Current' <=> Current
    BY DEF Current
  <1>2. \A v \in Workers \ {w} :
          /\ Recalculating(v)' <=> Recalculating(v)
          /\ Fresh(v)' <=> Fresh(v)
    BY DEF Recalculating, Fresh
  <1>3. Fresh(w)'
    BY DEF Recalculating, Fresh
  <1> QED
    BY <1>1, <1>2, <1>3 DEF SumInv

\* A request that is alone reads, or stores; or one that is not does.
LEMMA SumReads ==
    ASSUME TypeInv, SumInv, NEW w \in Workers, ReadRows(w) \/ ReadTier(w)
    PROVE  SumInv'
  <1>1. /\ job[w] # Idle /\ Recalculating(w) /\ Recalculating(w)'
        /\ job'[w].alone = job[w].alone
        /\ \A v \in Workers \ {w} : job'[v] = job[v]
    BY IdleTyped DEF ReadRows, ReadTier, At, Recalculating, TypeInv, Job
  <1>2. /\ Rows' = Rows /\ operations' = operations /\ recent' = recent
        /\ summary' = summary /\ counted' = counted /\ stale' = stale
    BY DEF ReadRows, ReadTier, tables, Rows, Ours, Living, Exists
  <1>3. job[w].alone => Fresh(w)'
    <2>1. CASE ReadRows(w)
      BY <1>2, <2>1 DEF ReadRows, Fresh, TypeInv, Job
    <2>2. CASE ReadTier(w)
      <3>1. job[w].alone => job[w].read = Rows
        BY <1>1, <2>2 DEF ReadTier, At, SumInv, Fresh
      <3> QED
        BY <1>2, <2>2, <3>1 DEF ReadTier, Fresh, TypeInv, Job
    <2> QED
      BY <2>1, <2>2
  <1>4. \A v \in Workers \ {w} : Fresh(v)' <=> Fresh(v)
    BY <1>1, <1>2 DEF Fresh
  <1> QED
    BY <1>1, <1>2, <1>3, <1>4 DEF SumInv

LEMMA SumInsert ==
    ASSUME TypeInv, SumInv, NEW w \in Workers, Insert(w)
    PROVE  SumInv'
  <1>1. /\ job[w] # Idle
        /\ job'[w].at = Recalculates(job[w].in.h) /\ job'[w].alone = job[w].alone
        /\ \A v \in Workers \ {w} : job'[v] = job[v]
        /\ stale' = stale
    BY IdleTyped DEF Insert, At, TypeInv, Idle
  <1>2. \A v \in Workers \ {w} : job[v] # Idle => ~job[v].alone
    BY <1>1 DEF SumInv
  <1>3. ~stale => \A v \in Workers \ {w} : job[v] = Idle
    BY <1>1 DEF SumInv
  <1>4. Recalculates(job[w].in.h) \in {"rows", "other"}
    BY InsertedRow, WhatRecalculates DEF Insert
  <1>5. ASSUME Recalculates(job[w].in.h) = "other", ~stale
        PROVE  Current'
    <2>1. PICK h \in Holders : h = job[w].in.h /\ ClientOf[h] # Subject
      BY <1>5, InsertedRow DEF Insert, Recalculates
    <2>2. \A k \in Holders : ClientOf[k] = Subject => holders'[k] = holders[k]
      BY <2>1 DEF Insert, TypeInv, Tables
    <2>3. Ours' = Ours
      BY <2>2 DEF Ours, Living, Exists
    <2>4. Current
      BY <1>3, <1>5, IdleTyped DEF SumInv, Insert, At, Recalculating
    <2> QED
      BY <2>3, <2>4 DEF Insert, Current, Rows
  <1> QED
    BY <1>1, <1>2, <1>3, <1>4, <1>5 DEF SumInv, Fresh, Recalculating

LEMMA SumStore ==
    ASSUME TypeInv, SumInv, NEW w \in Workers, Store(w)
    PROVE  SumInv'
  <1>1. /\ job[w] # Idle /\ job[w].at = "store"
        /\ job'[w] = Idle
        /\ \A v \in Workers \ {w} : job'[v] = job[v]
    BY FinishTyped, IdleTyped DEF Store, At
  <1>2. /\ Rows' = Rows /\ operations' = operations /\ recent' = recent
        /\ stale' = (stale /\ ~job[w].alone)
    BY DEF Store, tables, Rows, Ours, Living, Exists
  <1>3. \A v \in Workers \ {w} : Fresh(v)' <=> Fresh(v)
    BY <1>1, <1>2 DEF Fresh
  <1>4. ~stale' => job[w].alone
    BY <1>1, <1>2 DEF SumInv
  <1>5. ~stale' => \A v \in Workers : job'[v] = Idle
    BY <1>1, <1>4 DEF SumInv
  <1>6. ~stale' => Current'
    BY <1>1, <1>2, <1>4 DEF SumInv, Fresh, Current, Store
  <1> QED
    BY <1>1, <1>3, <1>5, <1>6 DEF SumInv

LEMMA SumDie ==
    ASSUME TypeInv, SumInv, NEW w \in Workers, Die(w)
    PROVE  SumInv'
  <1>1. /\ job[w] # Idle /\ job'[w] = Idle
        /\ \A v \in Workers \ {w} : job'[v] = job[v]
        /\ stale' = (stale \/ Recalculating(w))
    BY FinishTyped DEF Die, Recalculating
  <1>2. /\ Rows' = Rows /\ operations' = operations /\ recent' = recent
        /\ summary' = summary /\ counted' = counted
    BY DEF Die, tables, Rows, Ours, Living, Exists
  <1>3. \A v \in Workers \ {w} :
          /\ Fresh(v)' <=> Fresh(v)
          /\ Recalculating(v)' <=> Recalculating(v)
    BY <1>1, <1>2 DEF Fresh, Recalculating
  <1>4. Current' <=> Current
    BY <1>2 DEF Current
  <1> QED
    BY <1>1, <1>3, <1>4 DEF SumInv

LEMMA SumStep == TypeInv /\ SumInv /\ [Next]_vars => SumInv'
  <1> SUFFICES ASSUME TypeInv, SumInv, [Next]_vars PROVE SumInv'
    OBVIOUS
  <1>1. CASE UNCHANGED vars
    BY <1>1 DEF vars, tables, SumInv, Fresh, Recalculating, Current, Rows, Ours, Living, Exists
  <1>2. ASSUME NEW w \in Workers, Request(w) PROVE SumInv'
    <2>1. ASSUME NEW d \in Documents, WriteDocument(w, d) PROVE SumInv'
      BY <2>1, SumWrite, MeetIs DEF WriteDocument
    <2>2. ASSUME NEW c \in Controllers, WriteController(w, c) PROVE SumInv'
      BY <2>2, SumWrite, MeetIs DEF WriteController
    <2>3. ASSUME NEW o \in Operations, WriteOperation(w, o) PROVE SumInv'
      BY <2>3, SumWrite, MeetIs DEF WriteOperation
    <2>4. CASE Recalculate(w)
      BY <2>4, SumWrite, MeetIs DEF Recalculate
    <2>5. ASSUME NEW in \in Inputs, StartCreate(w, in) PROVE SumInv'
      BY <2>5, SumOwning DEF StartCreate, Owning
    <2>6. ASSUME NEW in \in Inputs, StartPatch(w, in) PROVE SumInv'
      BY <2>6, SumOwning DEF StartPatch, Owning
    <2>7. CASE CheckCap(w)
      <3>1. /\ job[w] # Idle /\ ~Recalculating(w) /\ ~Recalculating(w)'
            /\ job'[w] = Idle \/ job'[w].alone = job[w].alone
            /\ \A v \in Workers \ {w} : job'[v] = job[v]
        BY <2>7, IdleTyped DEF CheckCap, At, Go, Finish, Recalculating, TypeInv, Job
      <3>2. /\ Rows' = Rows /\ operations' = operations /\ recent' = recent
            /\ counted' = counted /\ summary' = summary /\ stale' = stale
        BY <2>7 DEF CheckCap, tables, Rows, Ours, Living, Exists
      <3> QED
        BY <3>1, <3>2, SumQuiet
    <2>8. CASE Insert(w)
      BY <2>8, SumInsert
    <2>9. CASE Update(w)
      <3>1. /\ job[w] # Idle /\ ~Recalculating(w) /\ ~Recalculating(w)'
            /\ job'[w] = Idle
            /\ \A v \in Workers \ {w} : job'[v] = job[v]
        BY <2>9, FinishTyped, IdleTyped DEF Update, At, Recalculating
      <3>2. PICK h \in Holders, row \in Row :
              /\ h = Filled(job[w].in).h /\ Exists(h)
              /\ row = [type |-> Filled(job[w].in).type, parent |-> Filled(job[w].in).parent,
                        share |-> Filled(job[w].in).share]
        BY <2>9, UpdatedRow DEF Update
      <3>3. holders'[h] = row /\ \A k \in Holders \ {h} : holders'[k] = holders[k]
        BY <2>9, <3>2 DEF Update, TypeInv, Tables
      <3>4. \A k \in Holders : holders'[k] # NoHolder <=> holders[k] # NoHolder
        BY <3>2, <3>3, RowExists DEF Exists
      <3>5. Living' = Living
        BY <3>4 DEF Living, Exists
      <3>6. /\ Rows' = Rows /\ operations' = operations /\ recent' = recent
            /\ counted' = counted /\ summary' = summary /\ stale' = stale
        BY <2>9, <3>5 DEF Update, Rows, Ours
      <3> QED
        BY <3>1, <3>6, SumQuiet
    <2>10. ASSUME NEW h \in Holders, DeleteHolder(w, h) PROVE SumInv'
      <3>1. Recalculates(h) \in {"rows", "other"}
        BY WhatRecalculates
      <3>2. ~stale' => ~stale /\ \A v \in Workers \ {w} : job[v] = Idle
        BY <2>10 DEF DeleteHolder, Others
      <3>3. ASSUME Recalculates(h) = "other", ~stale'
            PROVE  Rows' = Rows
        <4>1. Under(h) \cap Ours = {}
          BY <2>10, <3>3 DEF DeleteHolder, Recalculates
        <4>2. \A k \in Holders : k \in Ours => holders'[k] = holders[k]
          BY <2>10, <4>1 DEF DeleteHolder, Remove
        <4>3. \A k \in Holders : holders'[k] = holders[k] \/ holders'[k] = NoHolder
          BY <2>10 DEF DeleteHolder, Remove
        <4>4. Ours' = Ours
          BY <4>2, <4>3 DEF Ours, Living, Exists
        <4> QED
          BY <2>10, <4>4 DEF DeleteHolder, Remove, Rows
      <3>4. Begin(w, "write", Recalculates(h), NoInput)
            /\ UNCHANGED <<operations, recent, counted, summary>>
        BY <2>10 DEF DeleteHolder, Remove
      <3> QED
        BY <3>1, <3>2, <3>3, <3>4, SumWrite
    <2>11. CASE ReadRows(w)
      BY <2>11, SumReads
    <2>12. CASE ReadTier(w)
      BY <2>12, SumReads
    <2>13. CASE Store(w)
      BY <2>13, SumStore
    <2>14. CASE Die(w)
      BY <2>14, SumDie
    <2>15. CASE StoreElsewhere(w)
      <3>1. /\ job[w] # Idle /\ ~Recalculating(w) /\ ~Recalculating(w)'
            /\ job'[w] = Idle
            /\ \A v \in Workers \ {w} : job'[v] = job[v]
        BY <2>15, FinishTyped, IdleTyped DEF StoreElsewhere, At, Recalculating
      <3>2. /\ Rows' = Rows /\ operations' = operations /\ recent' = recent
            /\ counted' = counted /\ summary' = summary /\ stale' = stale
        BY <2>15 DEF StoreElsewhere, tables, Rows, Ours, Living, Exists
      <3> QED
        BY <3>1, <3>2, SumQuiet
    <2> QED
      BY <1>2, <2>1, <2>2, <2>3, <2>4, <2>5, <2>6, <2>7, <2>8, <2>9, <2>10, <2>11, <2>12,
         <2>13, <2>14, <2>15 DEF Request
  <1>3. ASSUME NEW o \in Operations, Age(o) PROVE SumInv'
    BY <1>3, SumAge
  <1> QED
    BY <1>1, <1>2, <1>3 DEF Next

\* When no request is in flight, what the row of the client says of its file is true, after
\* any number of requests that overlapped or stopped half way, once a later one
\* recalculated it undisturbed; its tier counts the operations of the last six months, and
\* besides them only such as have grown older since (SummaryCurrent).
THEOREM SummaryTrue == Spec => []SummaryCurrent
  <1>1. Init => SumInv
    BY DEF Init, SumInv, Current, Fresh
  <1>2. SumInv => SummaryCurrent
    BY IdleTyped DEF SumInv, SummaryCurrent, Recalculating, Current
  <1> QED
    BY <1>1, <1>2, TypeInit, TypeStep, SumStep, PTL DEF Spec
-----------------------------------------------------------------------------
(* Sums of shares.  MapThenSumSet is a fold over the subsets of a set; what *)
(* it computes is shown by induction over them.                            *)

\* Among the subsets of a finite set that have something in common one is smallest.
LEMMA Smallest ==
    ASSUME NEW S, IsFiniteSet(S), NEW B \in SUBSET (SUBSET S), B # {}
    PROVE  \E t \in B : \A u \in B : u \subseteq t => u = t
  <1>1. IsWellFoundedOn(StrictSubsetOrdering(S), SUBSET S)
    BY FS_StrictSubsetOrderingWellFounded, FS_FiniteSubsetsOfFinite
  <1>2. PICK t \in B : \A u \in B : <<u, t>> \notin StrictSubsetOrdering(S)
    BY <1>1, WFMin
  <1>3. ASSUME NEW u \in B, u \subseteq t PROVE u = t
    BY <1>2, <1>3 DEF StrictSubsetOrdering
  <1> QED
    BY <1>3

First(s) == CHOOSE x \in s : TRUE

\* What the fold computes on the subsets of a set of shareholders.
Folded(rows, S, g) ==
    g = [s \in SUBSET S |-> IF s = {} THEN 0 ELSE rows[First(s)].share + g[s \ {First(s)}]]
Total(rows, S) == (CHOOSE g : Folded(rows, S, g))[S]

LEMMA FirstIn == ASSUME NEW s, s # {} PROVE First(s) \in s
  BY DEF First

LEMMA FoldedAt ==
    ASSUME NEW rows, NEW S, NEW g, Folded(rows, S, g), NEW s \in SUBSET S
    PROVE  g[s] = IF s = {} THEN 0 ELSE rows[First(s)].share + g[s \ {First(s)}]
  BY DEF Folded

\* What it computes of a set does not depend on the set it was begun with.
LEMMA FoldedOnce ==
    ASSUME NEW rows, NEW S, IsFiniteSet(S), NEW T \in SUBSET S,
           NEW f, Folded(rows, S, f), NEW g, Folded(rows, T, g)
    PROVE  f[T] = g[T]
  <1> DEFINE B == {s \in SUBSET T : f[s] # g[s]}
  <1>1. B \in SUBSET (SUBSET T) /\ IsFiniteSet(T)
    BY FS_Subset
  <1> HIDE DEF B
  <1>2. ASSUME B # {} PROVE FALSE
    <2>1. PICK s \in B : \A u \in B : u \subseteq s => u = s
      BY <1>1, <1>2, Smallest
    <2> USE DEF B
    <2>2. s \in SUBSET T /\ s \in SUBSET S /\ f[s] # g[s]
      BY <2>1
    <2>3. CASE s = {}
      BY <2>2, <2>3, FoldedAt
    <2>4. CASE s # {}
      <3>1. First(s) \in s
        BY <2>4, FirstIn
      <3>2. s \ {First(s)} \notin B /\ s \ {First(s)} \in SUBSET T
        BY <2>1, <2>2, <3>1
      <3>3. f[s \ {First(s)}] = g[s \ {First(s)}]
        BY <3>2
      <3>4. f[s] = rows[First(s)].share + f[s \ {First(s)}]
        BY <2>2, <2>4, FoldedAt
      <3>5. g[s] = rows[First(s)].share + g[s \ {First(s)}]
        BY <2>2, <2>4, FoldedAt
      <3> QED
        BY <2>2, <3>3, <3>4, <3>5
    <2> QED
      BY <2>3, <2>4
  <1> QED
    BY <1>2 DEF B

\* It computes something.
LEMMA FoldedExists ==
    ASSUME NEW rows, NEW S, IsFiniteSet(S)
    PROVE  \E g : Folded(rows, S, g)
  <1> DEFINE B == {s \in SUBSET S : ~\E g : Folded(rows, s, g)}
  <1>a. B \in SUBSET (SUBSET S)
    OBVIOUS
  <1> HIDE DEF B
  <1>1. ASSUME B # {} PROVE FALSE
    <2>1. PICK t \in B : \A u \in B : u \subseteq t => u = t
      BY <1>a, <1>1, Smallest
    <2> USE DEF B
    <2> DEFINE f == [s \in SUBSET t |-> IF s = {} THEN 0 ELSE rows[First(s)].share
                                                           + Total(rows, s \ {First(s)})]
    <2>2. ASSUME NEW s \in SUBSET t, s # {}
          PROVE  f[s \ {First(s)}] = Total(rows, s \ {First(s)})
      <3>1. PICK u \in SUBSET t : u = s \ {First(s)}
        OBVIOUS
      <3>2. u # t /\ u \in SUBSET S /\ IsFiniteSet(u)
        BY <2>1, <2>2, <3>1, FirstIn, FS_Subset
      <3>3. \E g : Folded(rows, u, g)
        BY <2>1, <3>2
      <3> DEFINE g == CHOOSE h : Folded(rows, u, h)
      <3>4. Folded(rows, u, g) /\ Total(rows, u) = g[u]
        BY <3>3 DEF Total
      <3> HIDE DEF g
      <3>5. CASE u = {}
        BY <3>1, <3>4, <3>5, FoldedAt
      <3>6. CASE u # {}
        <4>1. First(u) \in u
          BY <3>6, FirstIn
        <4>2. PICK v \in SUBSET u : v = u \ {First(u)}
          OBVIOUS
        <4>3. v # t /\ v \in SUBSET S
          BY <3>1, <3>2, <4>1, <4>2
        <4>4. \E h : Folded(rows, v, h)
          BY <2>1, <4>2, <4>3
        <4>5. Folded(rows, v, CHOOSE h : Folded(rows, v, h))
          BY <4>4
        <4>6. g[v] = Total(rows, v)
          BY <3>2, <3>4, <4>5, FoldedOnce DEF Total
        <4>7. g[u] = rows[First(u)].share + g[v]
          BY <3>4, <3>6, <4>2, FoldedAt
        <4>8. f[u] = rows[First(u)].share + Total(rows, v)
          BY <3>6, <4>2
        <4> QED
          BY <3>1, <3>4, <4>6, <4>7, <4>8
      <3> QED
        BY <3>5, <3>6
    <2>3. f = [s \in SUBSET t |-> IF s = {} THEN 0 ELSE rows[First(s)].share + f[s \ {First(s)}]]
      BY <2>2
    <2>4. Folded(rows, t, f)
      BY <2>3 DEF Folded
    <2> QED
      BY <2>1, <2>4
  <1> QED
    BY <1>1 DEF B

\* The sum of a set is the first share and the sum of the others ...

LEMMA TotalFirst ==
    ASSUME NEW rows, NEW S, IsFiniteSet(S)
    PROVE  Total(rows, S) = IF S = {} THEN 0
                            ELSE rows[First(S)].share + Total(rows, S \ {First(S)})
  <1> DEFINE g == CHOOSE h : Folded(rows, S, h)
             R == S \ {First(S)}
  <1>1. Folded(rows, S, g) /\ Total(rows, S) = g[S]
    BY FoldedExists DEF Total
  <1>2. R \in SUBSET S /\ IsFiniteSet(R)
    BY FS_Subset
  <1>3. Folded(rows, R, CHOOSE h : Folded(rows, R, h))
    BY <1>2, FoldedExists
  <1> HIDE DEF g, R
  <1>4. g[R] = Total(rows, R)
    BY <1>1, <1>2, <1>3, FoldedOnce DEF Total
  <1>5. g[S] = IF S = {} THEN 0 ELSE rows[First(S)].share + g[R]
    <2>1. S \in SUBSET S
      OBVIOUS
    <2> QED
      BY <1>1, <2>1, FoldedAt DEF R
  <1> QED
    BY <1>1, <1>4, <1>5 DEF R

Counted(rows, S) == \A h \in S : rows[h].share \in Nat

\* ... a natural number ...
LEMMA TotalTyped ==
    ASSUME NEW rows, NEW S, IsFiniteSet(S), Counted(rows, S)
    PROVE  Total(rows, S) \in Nat
  <1> DEFINE B == {s \in SUBSET S : Total(rows, s) \notin Nat}
  <1>a. B \in SUBSET (SUBSET S)
    OBVIOUS
  <1> HIDE DEF B
  <1>1. ASSUME B # {} PROVE FALSE
    <2>1. PICK s \in B : \A u \in B : u \subseteq s => u = s
      BY <1>a, <1>1, Smallest
    <2> USE DEF B
    <2>2. s \in SUBSET S /\ IsFiniteSet(s)
      BY FS_Subset
    <2>3. CASE s = {}
      <3>1. Total(rows, s) = 0
        BY <2>2, <2>3, TotalFirst
      <3> QED
        BY <2>1, <3>1
    <2>4. CASE s # {}
      <3>1. First(s) \in s
        BY <2>4, FirstIn
      <3>2. Total(rows, s \ {First(s)}) \in Nat
        BY <2>1, <2>2, <3>1
      <3>3. rows[First(s)].share \in Nat
        BY <2>2, <3>1 DEF Counted
      <3>4. Total(rows, s) = rows[First(s)].share + Total(rows, s \ {First(s)})
        BY <2>2, <2>4, TotalFirst
      <3> QED
        BY <2>1, <3>2, <3>3, <3>4
    <2> QED
      BY <2>3, <2>4
  <1> QED
    BY <1>1 DEF B

\* ... and so for any one of them.

LEMMA TotalWithout ==
    ASSUME NEW rows, NEW S, IsFiniteSet(S), Counted(rows, S), NEW h \in S
    PROVE  Total(rows, S) = rows[h].share + Total(rows, S \ {h})
  <1> DEFINE B == {s \in SUBSET S : \E x \in s :
                     Total(rows, s) # rows[x].share + Total(rows, s \ {x})}
  <1>a. B \in SUBSET (SUBSET S)
    OBVIOUS
  <1> HIDE DEF B
  <1>1. ASSUME B # {} PROVE FALSE
    <2>1. PICK s \in B : \A u \in B : u \subseteq s => u = s
      BY <1>a, <1>1, Smallest
    <2> USE DEF B
    <2>2. s \in SUBSET S /\ IsFiniteSet(s)
      BY FS_Subset
    <2>3. PICK x \in s : Total(rows, s) # rows[x].share + Total(rows, s \ {x})
      BY <2>1
    <2>4. PICK y \in s : y = First(s)
      BY <2>3, FirstIn
    <2>5. Total(rows, s) = rows[y].share + Total(rows, s \ {y})
      BY <2>2, <2>4, TotalFirst
    <2>6. x # y
      BY <2>3, <2>5
    <2>7. s \ {x} \notin B /\ s \ {y} \notin B /\ s \ {x} \in SUBSET S /\ s \ {y} \in SUBSET S
      BY <2>1, <2>2
    <2>8. PICK r \in SUBSET S : r = (s \ {x}) \ {y} /\ r = (s \ {y}) \ {x}
      BY <2>2
    <2>9. Total(rows, s \ {y}) = rows[x].share + Total(rows, r)
      BY <2>6, <2>7, <2>8
    <2>10. Total(rows, s \ {x}) = rows[y].share + Total(rows, r)
      BY <2>6, <2>7, <2>8
    <2>11. IsFiniteSet(r) /\ Counted(rows, r)
      BY <2>8, FS_Subset DEF Counted
    <2>12. PICK n \in Nat, i \in Nat, j \in Nat :
             n = Total(rows, r) /\ i = rows[x].share /\ j = rows[y].share
      BY <2>2, <2>11, TotalTyped DEF Counted
    <2>13. i + (j + n) = j + (i + n)
      BY <2>12
    <2> QED
      BY <2>3, <2>5, <2>9, <2>10, <2>12, <2>13
  <1> QED
    BY <1>1 DEF B

\* Fewer shareholders with the same shares do not own more.

LEMMA TotalFewer ==
    ASSUME NEW rows, NEW next, NEW S, IsFiniteSet(S), Counted(rows, S), NEW T \in SUBSET S,
           \A h \in T : next[h].share = rows[h].share
    PROVE  Total(next, T) <= Total(rows, S)
  <1> DEFINE B == {s \in SUBSET S : \E r \in SUBSET s :
                     /\ \A h \in r : next[h].share = rows[h].share
                     /\ ~(Total(next, r) <= Total(rows, s))}
  <1>a. B \in SUBSET (SUBSET S)
    OBVIOUS
  <1> HIDE DEF B
  <1>1. ASSUME B # {} PROVE FALSE
    <2>1. PICK s \in B : \A u \in B : u \subseteq s => u = s
      BY <1>a, <1>1, Smallest
    <2> USE DEF B
    <2>2. s \in SUBSET S /\ IsFiniteSet(s) /\ Counted(rows, s)
      BY FS_Subset DEF Counted
    <2>3. PICK r \in SUBSET s : /\ \A h \in r : next[h].share = rows[h].share
                                /\ ~(Total(next, r) <= Total(rows, s))
      BY <2>1
    <2>4. Counted(next, r) /\ IsFiniteSet(r)
      BY <2>2, <2>3, FS_Subset DEF Counted
    <2>5. CASE r = {}
      <3>1. Total(next, r) = 0
        BY <2>4, <2>5, TotalFirst
      <3>2. Total(rows, s) \in Nat
        BY <2>2, TotalTyped
      <3> QED
        BY <2>3, <3>1, <3>2
    <2>6. CASE r # {}
      <3>1. PICK x \in r : TRUE
        BY <2>6
      <3>2. Total(next, r) = next[x].share + Total(next, r \ {x})
        BY <2>4, TotalWithout
      <3>3. Total(rows, s) = rows[x].share + Total(rows, s \ {x})
        BY <2>2, <2>3, TotalWithout
      <3>4. s \ {x} \notin B /\ s \ {x} \in SUBSET S /\ r \ {x} \in SUBSET (s \ {x})
        BY <2>1, <2>2, <2>3
      <3>5. Total(next, r \ {x}) <= Total(rows, s \ {x})
        BY <2>3, <3>4
      <3>6. /\ Total(next, r \ {x}) \in Nat /\ Total(rows, s \ {x}) \in Nat
            /\ next[x].share \in Nat /\ next[x].share = rows[x].share
        BY <2>2, <2>3, <2>4, FS_Subset, TotalTyped DEF Counted
      <3> QED
        BY <2>3, <3>2, <3>3, <3>5, <3>6
    <2> QED
      BY <2>5, <2>6
  <1> QED
    BY <1>1 DEF B

-----------------------------------------------------------------------------
(* The sums of the levels.                                                 *)

Level(rows, c, p, except) ==
    {h \in {k \in Holders : rows[k] # NoHolder} \ except :
       ClientOf[h] = c /\ rows[h].parent = p}
Sum(rows, c, p, except) == Total(rows, Level(rows, c, p, except))

Owns(j) == j.at \in {"cap", "insert", "update"}

\* What is checked is what will be written, if there is still a row to patch ...
Asked(j) == j.op = "create" \/ Exists(j.in.h) => j.cap = CapOf(j.in)

\* ... and stays within the level once it was checked.
Fits(j) == j.at \in {"insert", "update"} => validateOwnershipCap(j.in.h, j.cap)

CapInv ==
    raced \/
      /\ \A c \in Clients, p \in Parent : SumUnder(c, p, {}) <= 100
      /\ \A w \in Workers : Owns(job[w]) =>
           /\ Asked(job[w]) /\ Fits(job[w])
           /\ \A v \in Workers \ {w} : ~Owns(job[v])

\* Before and after a step.
LEMMA SumIs ==
    ASSUME NEW c, NEW p, NEW except
    PROVE  /\ SumUnder(c, p, except) = Sum(holders, c, p, except)
           /\ SumUnder(c, p, except)' = Sum(holders', c, p, except)
  BY DEF SumUnder, Sum, Level, Living, Exists, MapThenSumSet, MapThenFoldSet, Folded, Total, First

SumsKept == \A c, p, except : SumUnder(c, p, except)' = SumUnder(c, p, except)

LEMMA SumsQuiet == holders' = holders => SumsKept
  BY SumIs DEF SumsKept

Rowset == [Holders -> Row \cup {NoHolder}]

LEMMA ShareTyped ==
    /\ \A s \in Shares \cup {0} : s \in Nat
    /\ \A r \in Row \cup {NoHolder} : r.share \in Nat
  <1>1. \A s \in Shares \cup {0} : s \in Nat
    BY ClientFileAssumption
  <1>2. \A r \in Row \cup {NoHolder} : r.share \in Shares \cup {0}
    BY DEF Row, NoHolder
  <1> QED
    BY <1>1, <1>2

LEMMA LevelCounted ==
    ASSUME NEW rows \in Rowset, NEW c, NEW p, NEW except
    PROVE  /\ IsFiniteSet(Level(rows, c, p, except)) /\ Counted(rows, Level(rows, c, p, except))
           /\ Sum(rows, c, p, except) \in Nat
  <1>1. Level(rows, c, p, except) \in SUBSET Holders
    BY DEF Level
  <1>2. \A h \in Holders : rows[h].share \in Nat
    BY ShareTyped DEF Rowset
  <1>3. IsFiniteSet(Level(rows, c, p, except)) /\ Counted(rows, Level(rows, c, p, except))
    BY <1>1, <1>2, ClientFileAssumption, FS_Subset DEF Counted
  <1> QED
    BY <1>3, TotalTyped DEF Sum

\* Shareholders that go take their shares with them.
LEMMA SumShrinks ==
    ASSUME NEW rows \in Rowset, NEW next \in Rowset, NEW c, NEW p, NEW except,
           \A k \in Holders : next[k] = rows[k] \/ next[k] = NoHolder
    PROVE  Sum(next, c, p, except) <= Sum(rows, c, p, except)
  <1>1. /\ Level(next, c, p, except) \in SUBSET Level(rows, c, p, except)
        /\ \A k \in Level(next, c, p, except) : next[k].share = rows[k].share
    BY DEF Level
  <1> QED
    BY <1>1, LevelCounted, TotalFewer DEF Sum

\* A row that is written adds its share to the level it comes to, and may leave another.
LEMMA SumWritten ==
    ASSUME NEW rows \in Rowset, NEW h \in Holders, NEW row \in Row, NEW c, NEW p, NEW next \in Rowset,
           next = [rows EXCEPT ![h] = row]
    PROVE  /\ c = ClientOf[h] /\ p = row.parent => Sum(next, c, p, {}) <= row.share + Sum(rows, c, p, {h})
           /\ ~(c = ClientOf[h] /\ p = row.parent) => Sum(next, c, p, {}) <= Sum(rows, c, p, {})
  <1>1. /\ next[h] = row /\ next[h] # NoHolder
        /\ \A k \in Holders \ {h} : next[k] = rows[k]
    BY RowExists DEF Rowset
  <1> DEFINE L == Level(next, c, p, {})
             M == Level(rows, c, p, {h})
  <1>2. L \ {h} = M /\ (h \in L <=> c = ClientOf[h] /\ p = row.parent)
    BY <1>1 DEF Level
  <1>3. \A k \in M : next[k].share = rows[k].share
    BY <1>1 DEF Level
  <1>4. M \in SUBSET Level(rows, c, p, {}) /\ M \in SUBSET M
    BY DEF Level
  <1>5. /\ IsFiniteSet(L) /\ Counted(next, L) /\ IsFiniteSet(M) /\ Counted(rows, M)
        /\ IsFiniteSet(Level(rows, c, p, {})) /\ Counted(rows, Level(rows, c, p, {}))
    BY LevelCounted
  <1>6. Counted(next, M)
    BY <1>3, <1>5 DEF Counted
  <1>7. Sum(next, c, p, {}) = Total(next, L) /\ Sum(rows, c, p, {h}) = Total(rows, M)
    BY DEF Sum
  <1> HIDE DEF L, M
  <1>8. ASSUME c = ClientOf[h] /\ p = row.parent PROVE Sum(next, c, p, {}) <= row.share + Sum(rows, c, p, {h})
    <2>1. Total(next, M) <= Total(rows, M)
      BY <1>3, <1>4, <1>5, TotalFewer
    <2>2. h \in L
      BY <1>2, <1>8
    <2>3. Total(next, L) = row.share + Total(next, M)
      <3>1. \A g \in L : Total(next, L) = next[g].share + Total(next, L \ {g})
        BY ONLY <1>5, TotalWithout
      <3> QED
        BY <1>1, <1>2, <2>2, <3>1
    <2>4. PICK i \in Nat, m \in Nat, n \in Nat :
            i = row.share /\ m = Total(next, M) /\ n = Total(rows, M)
      BY <1>5, <1>6, TotalTyped, ShareTyped
    <2> QED
      BY <1>7, <2>1, <2>3, <2>4
  <1>9. ASSUME ~(c = ClientOf[h] /\ p = row.parent) PROVE Sum(next, c, p, {}) <= Sum(rows, c, p, {})
    <2>1. L = M
      BY <1>2, <1>9
    <2>2. Total(next, M) <= Total(rows, Level(rows, c, p, {}))
      BY <1>3, <1>4, <1>5, TotalFewer
    <2> QED
      BY <1>7, <2>1, <2>2 DEF Sum
  <1> QED
    BY <1>8, <1>9

\* Steps that write no row of a shareholder that stays, and after which no request is about
\* to write one that was not before.
LEMMA CapQuiet ==
    ASSUME TypeInv, TypeInv', CapInv,
           \A k \in Holders : holders'[k] = holders[k] \/ ~Exists(k)',
           raced => raced',
           \A v \in Workers : Owns(job'[v]) =>
             /\ Owns(job[v]) /\ job'[v].op = job[v].op /\ job'[v].in = job[v].in
             /\ job'[v].at = job[v].at /\ job'[v].cap = job[v].cap
    PROVE  CapInv'
  <1> SUFFICES ASSUME ~raced'
               PROVE  /\ \A c \in Clients, p \in Parent : SumUnder(c, p, {})' <= 100
                      /\ \A w \in Workers : Owns(job'[w]) =>
                           /\ Asked(job[w])' /\ Fits(job[w])'
                           /\ \A v \in Workers \ {w} : ~Owns(job'[v])
    BY DEF CapInv, Owns
  <1>a. /\ holders \in Rowset /\ holders' \in Rowset
        /\ \A k \in Holders : holders'[k] = holders[k] \/ holders'[k] = NoHolder
    BY DEF TypeInv, Tables, Rowset, Exists
  <1>1. ~raced
    OBVIOUS
  <1>2. \A c \in Clients, p \in Parent : SumUnder(c, p, {})' <= 100
    <2> TAKE c \in Clients, p \in Parent
    <2>1. SumUnder(c, p, {}) <= 100
      BY <1>1 DEF CapInv
    <2> QED
      BY <1>a, <2>1, SumShrinks, SumIs, LevelCounted
  <1>3. ASSUME NEW w \in Workers, Owns(job'[w])
        PROVE  /\ Asked(job[w])' /\ Fits(job[w])'
               /\ \A v \in Workers \ {w} : ~Owns(job'[v])
    <2>1. PICK in \in Input, cap \in Cap :
            in = job[w].in /\ in = job'[w].in /\ cap = job[w].cap /\ cap = job'[w].cap
      BY <1>3 DEF TypeInv, Shaped, Job, Owns
    <2>2. /\ Owns(job[w]) /\ Asked(job[w]) /\ Fits(job[w])
          /\ \A v \in Workers \ {w} : ~Owns(job[v])
          /\ job'[w].op = job[w].op /\ job'[w].at = job[w].at
      BY <1>1, <1>3 DEF CapInv
    <2>3. in.h \in Holders /\ in # NoInput
      BY ClientFileAssumption DEF Input, NoInput
    <2>4. ASSUME job[w].op = "create" \/ Exists(in.h)'
          PROVE  cap = CapOf(in)'
      <3>1. cap = CapOf(in)
        BY <2>1, <2>2, <2>3, <2>4 DEF Asked, Exists
      <3>2. CASE job[w].op = "create"
        <4>1. in.parent # Keep /\ in.share # Keep
          <5>1. job[w].at # "update"
            BY <3>2 DEF TypeInv, Shaped
          <5> QED
            BY <2>1, <2>2, <3>2, <5>1 DEF TypeInv, Shaped, Owns
        <4> QED
          BY <2>3, <3>1, <4>1 DEF CapOf, Filled
      <3>3. CASE Exists(in.h)'
        <4>1. holders'[in.h] = holders[in.h]
          BY <2>3, <3>3
        <4> QED
          BY <3>1, <4>1 DEF CapOf, Filled
      <3> QED
        BY <2>4, <3>2, <3>3
    <2>5. Asked(job[w])'
      BY <2>1, <2>2, <2>4 DEF Asked, Exists
    <2>6. ASSUME job[w].at \in {"insert", "update"}
          PROVE  SumUnder(ClientOf[in.h], cap.parent, {in.h})' + cap.share <= 100
      <3> DEFINE c == ClientOf[in.h]
      <3>1. SumUnder(c, cap.parent, {in.h}) + cap.share <= 100
        BY <2>1, <2>2, <2>6 DEF Fits, validateOwnershipCap
      <3> HIDE DEF c
      <3>2. cap.share \in Nat
        BY ShareTyped DEF Cap
      <3>3. /\ Sum(holders', c, cap.parent, {in.h}) <= Sum(holders, c, cap.parent, {in.h})
            /\ Sum(holders', c, cap.parent, {in.h}) \in Nat
            /\ Sum(holders, c, cap.parent, {in.h}) \in Nat
        BY <1>a, SumShrinks, LevelCounted
      <3>4. SumUnder(c, cap.parent, {in.h})' + cap.share <= 100
        BY <3>1, <3>2, <3>3, SumIs
      <3> QED
        BY <3>4 DEF c
    <2>7. Fits(job[w])'
      BY <2>1, <2>2, <2>6 DEF Fits, validateOwnershipCap
    <2> QED
      BY <2>2, <2>5, <2>7
  <1> QED
    BY <1>2, <1>3

LEMMA CapWrite ==
    ASSUME TypeInv, TypeInv', CapInv, NEW w \in Workers, NEW at \in {"rows", "other"},
           Begin(w, "write", at, NoInput),
           \A k \in Holders : holders'[k] = holders[k] \/ ~Exists(k)'
    PROVE  CapInv'
  <1>1. \A v \in Workers : Owns(job'[v]) =>
          /\ Owns(job[v]) /\ job'[v].op = job[v].op /\ job'[v].in = job[v].in
          /\ job'[v].at = job[v].at /\ job'[v].cap = job[v].cap
    BY WriteBegins DEF Begun, Owns, Kept
  <1> QED
    BY <1>1, CapQuiet DEF Begin

\* A request of a shareholder begins: alone among those, or they have met.
LEMMA CapBegins ==
    ASSUME TypeInv, TypeInv', CapInv, NEW w \in Workers, NEW op \in Owning, NEW in \in Inputs,
           op = "create" => in.parent # Keep /\ in.share # Keep,
           Begin(w, op, "cap", in), holders' = holders
    PROVE  CapInv'
  <1> SUFFICES ASSUME ~raced'
               PROVE  /\ \A c \in Clients, p \in Parent : SumUnder(c, p, {})' <= 100
                      /\ \A v \in Workers : Owns(job'[v]) =>
                           /\ Asked(job[v])' /\ Fits(job[v])'
                           /\ \A u \in Workers \ {v} : ~Owns(job'[u])
    BY DEF CapInv, Owns
  <1>1. ~raced /\ \A v \in Others(w) : job[v].op \notin Owning
    BY DEF Begin
  <1>2. \A v \in Workers \ {w} : ~Owns(job[v])
    <2> TAKE v \in Workers \ {w}
    <2>1. job[v] = Idle => ~Owns(job[v])
      BY IdleTyped DEF Owns
    <2>2. job[v] # Idle => job[v].op \notin Owning
      BY <1>1 DEF Others
    <2>3. Owns(job[v]) => job[v].op \in Owning
      BY DEF TypeInv, Shaped, Owns, Owning
    <2> QED
      BY <2>1, <2>2, <2>3
  <1>3. \A v \in Workers \ {w} : ~Owns(job'[v])
    BY <1>2, OwningBegins DEF Begun, Kept, Owns
  <1>4. \A c \in Clients, p \in Parent : SumUnder(c, p, {})' <= 100
    BY <1>1, SumsQuiet DEF CapInv, SumsKept
  <1>5. job'[w].at = "cap" /\ job'[w].in = in /\ job'[w].cap = CapOf(in)
    <2>1. job'[w] = [Idle EXCEPT !.op = op, !.at = "cap", !.in = in, !.cap = CapOf(in),
                                 !.alone = Others(w) = {}]
      BY DEF Begin
    <2> QED
      BY <2>1 DEF Idle
  <1>6. CapOf(in)' = CapOf(in)
    BY DEF CapOf, Filled
  <1>7. Asked(job[w])' /\ Fits(job[w])'
    BY <1>5, <1>6 DEF Asked, Fits
  <1> QED
    BY <1>3, <1>4, <1>7

\* The row is written that was checked.
LEMMA CapWritten ==
    ASSUME TypeInv, TypeInv', CapInv, NEW w \in Workers, NEW h \in Holders, NEW row \in Row,
           job[w].at \in {"insert", "update"}, job[w].in.h = h,
           job[w].cap = [parent |-> row.parent, share |-> row.share],
           holders' = [holders EXCEPT ![h] = row], raced' = raced,
           ~Owns(job'[w]), \A v \in Workers \ {w} : job'[v] = job[v]
    PROVE  CapInv'
  <1> SUFFICES ASSUME ~raced'
               PROVE  /\ \A c \in Clients, p \in Parent : SumUnder(c, p, {})' <= 100
                      /\ \A v \in Workers : ~Owns(job'[v])
    BY DEF CapInv, Owns
  <1>1. Owns(job[w]) /\ ~raced
    BY DEF Owns
  <1>2. \A v \in Workers : ~Owns(job'[v])
    BY <1>1 DEF CapInv
  <1>3. SumUnder(ClientOf[h], row.parent, {h}) + row.share <= 100
    <2>1. job[w].cap.parent = row.parent /\ job[w].cap.share = row.share
      OBVIOUS
    <2>2. validateOwnershipCap(job[w].in.h, job[w].cap)
      BY <1>1 DEF CapInv, Fits
    <2> QED
      BY <2>1, <2>2 DEF validateOwnershipCap
  <1>4. holders \in Rowset /\ holders' \in Rowset
    BY DEF TypeInv, Tables, Rowset
  <1>5. \A c \in Clients, p \in Parent : SumUnder(c, p, {})' <= 100
    <2> TAKE c \in Clients, p \in Parent
    <2>1. /\ c = ClientOf[h] /\ p = row.parent =>
               Sum(holders', c, p, {}) <= row.share + Sum(holders, c, p, {h})
          /\ ~(c = ClientOf[h] /\ p = row.parent) =>
               Sum(holders', c, p, {}) <= Sum(holders, c, p, {})
      BY <1>4, SumWritten
    <2>2. PICK i \in Nat, k \in Nat, m \in Nat, n \in Nat :
            /\ i = row.share /\ k = Sum(holders', c, p, {})
            /\ m = Sum(holders, c, p, {h}) /\ n = Sum(holders, c, p, {})
      BY <1>4, LevelCounted, ShareTyped
    <2>3. SumUnder(c, p, {}) <= 100
      BY <1>1 DEF CapInv
    <2>4. CASE c = ClientOf[h] /\ p = row.parent
      <3>1. m + i <= 100
        BY <1>3, <2>2, <2>4, SumIs
      <3>2. k <= i + m
        BY <2>1, <2>2, <2>4
      <3> QED
        BY ONLY <2>2, <3>1, <3>2, SumIs
    <2>5. CASE ~(c = ClientOf[h] /\ p = row.parent)
      <3>1. k <= n /\ n <= 100
        BY <2>1, <2>2, <2>3, <2>5, SumIs
      <3> QED
        BY ONLY <2>2, <3>1, SumIs
    <2> QED
      BY <2>4, <2>5
  <1> QED
    BY <1>2, <1>5

LEMMA CapStep == TypeInv /\ TypeInv' /\ CapInv /\ [Next]_vars => CapInv'
  <1> SUFFICES ASSUME TypeInv, TypeInv', CapInv, [Next]_vars PROVE CapInv'
    OBVIOUS
  <1>1. CASE UNCHANGED vars
    BY <1>1, CapQuiet DEF vars, tables
  <1>2. ASSUME NEW w \in Workers, Request(w) PROVE CapInv'
    <2>1. ASSUME NEW d \in Documents, WriteDocument(w, d) PROVE CapInv'
      BY <2>1, CapWrite DEF WriteDocument
    <2>2. ASSUME NEW c \in Controllers, WriteController(w, c) PROVE CapInv'
      BY <2>2, CapWrite DEF WriteController
    <2>3. ASSUME NEW o \in Operations, WriteOperation(w, o) PROVE CapInv'
      BY <2>3, CapWrite DEF WriteOperation
    <2>4. CASE Recalculate(w)
      BY <2>4, CapWrite DEF Recalculate, tables
    <2>5. ASSUME NEW in \in Inputs, StartCreate(w, in) PROVE CapInv'
      BY <2>5, CapBegins DEF StartCreate, Owning, tables
    <2>6. ASSUME NEW in \in Inputs, StartPatch(w, in) PROVE CapInv'
      BY <2>6, CapBegins DEF StartPatch, Owning, tables
    <2>7. CASE CheckCap(w)
      <3>1. job[w].at = "cap" /\ holders' = holders /\ raced' = raced
        BY <2>7 DEF CheckCap, At, tables
      <3>2. CASE validateOwnershipCap(job[w].in.h, job[w].cap)
        <4>1. PICK at \in {"insert", "update"} : Go(w, at)
          BY <2>7, <3>2 DEF CheckCap
        <4>2. /\ job'[w].at = at /\ job'[w].op = job[w].op /\ job'[w].in = job[w].in
              /\ job'[w].cap = job[w].cap
              /\ \A v \in Workers \ {w} : job'[v] = job[v]
          BY <4>1 DEF Go, TypeInv, Job
        <4>3. raced \/ (/\ \A c \in Clients, p \in Parent : SumUnder(c, p, {})' <= 100
                        /\ Asked(job[w])' /\ Fits(job[w])'
                        /\ \A v \in Workers \ {w} : ~Owns(job'[v]))
          <5>1. raced \/ (/\ \A c \in Clients, p \in Parent : SumUnder(c, p, {}) <= 100
                          /\ Asked(job[w])
                          /\ \A v \in Workers \ {w} : ~Owns(job[v]))
            BY <3>1 DEF CapInv, Owns
          <5>2. \A c \in Clients, p \in Parent : SumUnder(c, p, {})' = SumUnder(c, p, {})
            BY <3>1, SumsQuiet DEF SumsKept
          <5>3. Asked(job[w]) => Asked(job[w])'
            BY <3>1, <4>2 DEF Asked, Exists, CapOf, Filled
          <5>4. Fits(job[w])'
            <6>1. PICK in, cap : /\ in = job[w].in /\ in = job'[w].in
                                 /\ cap = job[w].cap /\ cap = job'[w].cap
              BY <4>2
            <6>2. SumUnder(ClientOf[in.h], cap.parent, {in.h})'
                    = SumUnder(ClientOf[in.h], cap.parent, {in.h})
              BY <3>1, SumsQuiet DEF SumsKept
            <6> QED
              BY <3>2, <6>1, <6>2 DEF Fits, validateOwnershipCap
          <5> QED
            BY <4>2, <5>1, <5>2, <5>3, <5>4
        <4>4. \A v \in Workers \ {w} : ~Owns(job'[v]) <=> ~Owns(job[v])
          BY <4>2
        <4> QED
          BY <3>1, <4>3 DEF CapInv, Owns
      <3>3. CASE ~validateOwnershipCap(job[w].in.h, job[w].cap)
        <4>1. Finish(w)
          BY <2>7, <3>3 DEF CheckCap
        <4> QED
          BY <3>1, <4>1, FinishTyped, IdleTyped, CapQuiet DEF Owns
      <3> QED
        BY <3>2, <3>3
    <2>8. CASE Insert(w)
      <3>1. PICK h \in Holders, row \in Row :
              /\ h = job[w].in.h
              /\ row = [type |-> job[w].in.type, parent |-> job[w].in.parent,
                        share |-> job[w].in.share]
              /\ job[w].op = "create" /\ job[w].at = "insert"
        BY <2>8, InsertedRow DEF Insert, At
      <3>2. holders' = [holders EXCEPT ![h] = row] /\ raced' = raced
        BY <2>8, <3>1 DEF Insert
      <3>3. ~Owns(job'[w]) /\ \A v \in Workers \ {w} : job'[v] = job[v]
        <4>1. Recalculates(job[w].in.h) \in {"rows", "other"}
          BY <3>1, WhatRecalculates
        <4> QED
          BY <2>8, <4>1 DEF Insert, Owns, Idle, TypeInv
      <3>4. raced \/ job[w].cap = [parent |-> row.parent, share |-> row.share]
        <4>1. PICK in \in Input : in = job[w].in /\ in.parent # Keep /\ in.share # Keep
          BY <3>1 DEF TypeInv, Shaped
        <4>2. CapOf(in) = [parent |-> in.parent, share |-> in.share]
          <5>1. in # NoInput
            BY ClientFileAssumption DEF Input, NoInput
          <5> QED
            BY <4>1, <5>1 DEF CapOf, Filled, Input
        <4> QED
          BY <3>1, <4>1, <4>2 DEF CapInv, Owns, Asked
      <3>5. CASE raced
        BY <3>2, <3>5 DEF CapInv
      <3> QED
        BY <3>1, <3>2, <3>3, <3>4, <3>5, CapWritten
    <2>9. CASE Update(w)
      <3>1. PICK h \in Holders, row \in Row :
              /\ h = job[w].in.h /\ h = Filled(job[w].in).h /\ Exists(h)
              /\ row = [type |-> Filled(job[w].in).type, parent |-> Filled(job[w].in).parent,
                        share |-> Filled(job[w].in).share]
              /\ job[w].at = "update"
        BY <2>9, UpdatedRow DEF Update, At
      <3>2. holders' = [holders EXCEPT ![h] = row] /\ raced' = raced
        BY <2>9, <3>1 DEF Update
      <3>3. ~Owns(job'[w]) /\ \A v \in Workers \ {w} : job'[v] = job[v]
        BY <2>9, FinishTyped, IdleTyped DEF Update, Owns
      <3>4. raced \/ job[w].cap = [parent |-> row.parent, share |-> row.share]
        <4>1. job[w].in # NoInput
          <5>1. job[w].in.h \in Holders /\ NoInput.h = NoParent
            BY <3>1 DEF NoInput
          <5> QED
            BY <5>1, ClientFileAssumption
        <4> QED
          BY <3>1, <4>1 DEF CapInv, Owns, Asked, CapOf
      <3>5. CASE raced
        BY <3>2, <3>5 DEF CapInv
      <3> QED
        BY <3>1, <3>2, <3>3, <3>4, <3>5, CapWritten
    <2>10. ASSUME NEW h \in Holders, DeleteHolder(w, h) PROVE CapInv'
      <3>1. \A k \in Holders : holders'[k] = holders[k] \/ ~Exists(k)'
        BY <2>10 DEF DeleteHolder, Remove, Exists
      <3> QED
        BY <2>10, <3>1, WhatRecalculates, CapWrite DEF DeleteHolder
    <2>11. CASE ReadRows(w)
      BY <2>11, CapQuiet DEF ReadRows, tables, Owns, TypeInv, Job
    <2>12. CASE ReadTier(w)
      BY <2>12, CapQuiet DEF ReadTier, tables, Owns, TypeInv, Job
    <2>13. CASE Store(w)
      BY <2>13, FinishTyped, IdleTyped, CapQuiet DEF Store, tables, Owns
    <2>14. CASE Die(w)
      BY <2>14, FinishTyped, IdleTyped, CapQuiet DEF Die, tables, Owns
    <2>15. CASE StoreElsewhere(w)
      BY <2>15, FinishTyped, IdleTyped, CapQuiet DEF StoreElsewhere, tables, Owns
    <2> QED
      BY <1>2, <2>1, <2>2, <2>3, <2>4, <2>5, <2>6, <2>7, <2>8, <2>9, <2>10, <2>11, <2>12,
         <2>13, <2>14, <2>15 DEF Request
  <1>3. ASSUME NEW o \in Operations, Age(o) PROVE CapInv'
    BY <1>3, CapQuiet DEF Age
  <1> QED
    BY <1>1, <1>2, <1>3 DEF Next

\* No level of shareholders adds up to more than the whole, for any shares, wherever they
\* are moved to and whatever is deleted meanwhile, as long as no two requests that write
\* shareholders meet (OwnershipCap).
THEOREM LevelsAddUp == Spec => []OwnershipCap
  <1>1. Init => CapInv
    <2> SUFFICES ASSUME Init PROVE CapInv
      OBVIOUS
    <2>1. \A c \in Clients, p \in Parent : SumUnder(c, p, {}) = 0
      <3> TAKE c \in Clients, p \in Parent
      <3>1. Level(holders, c, p, {}) = {} /\ IsFiniteSet({})
        BY FS_EmptySet DEF Init, Level
      <3>2. \A S : S = {} /\ IsFiniteSet(S) => Total(holders, S) = 0
        BY ONLY TotalFirst
      <3>3. Sum(holders, c, p, {}) = 0
        BY <3>1, <3>2 DEF Sum
      <3> QED
        BY <3>3, SumIs
    <2>2. \A w \in Workers : ~Owns(job[w])
      BY IdleTyped DEF Init, Owns
    <2> QED
      BY <2>1, <2>2 DEF CapInv
  <1>2. CapInv => OwnershipCap
    BY DEF CapInv, OwnershipCap
  <1> QED
    BY <1>1, <1>2, TypeInit, TypeStep, CapStep, PTL DEF Spec
=============================================================================
