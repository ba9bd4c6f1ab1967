---------------------------- MODULE MCClientFile ----------------------------
(* Instances of ClientFile.                                                *)
EXTENDS ClientFile, TLC

CONSTANTS a, b, h1, h2, k1, d1, c1, o1, o2, w1, w2

\* One shareholder is another client's.
MCClientOf == [h \in Holders |-> IF h = k1 THEN b ELSE a]

\* A bound: with more than one shareholder, or a controller, the rest of the file is empty.
\* They meet the rest in the summary alone, and there as a number.
Nothing == documents = {} /\ \A o \in Operations : operations[o] = 0

Apart ==
    \/ Living = {} /\ controllers = {}
    \/ Nothing

Symmetry == Permutations(Workers) \cup Permutations(Holders \ {k1}) \cup Permutations(Operations)

\* While stale holds, no property looks at the summary, and it is overwritten before
\* stale ends; what a request that is not alone read goes nowhere else.
Seen ==
    <<tables, IF stale THEN <<>> ELSE <<summary, counted>>,
      [w \in Workers |-> IF job[w].alone THEN job[w]
                         ELSE [job[w] EXCEPT !.read = Idle.read, !.required = FALSE,
                                             !.window = {}]],
      raced, stale, patched>>

In(h, type, parent, share) == [h |-> h, type |-> type, parent |-> parent, share |-> share]

MCShare == CHOOSE s \in Shares : TRUE

\* A company of the first level, a person of the second; a PATCH that makes a person of
\* the first level of either, one that changes what k1 is in its place, and one that moves
\* another below a company.
MCInputs ==
    {In(h, "COMPANY", NoParent, MCShare) : h \in Holders} \cup
    {In(h, "PERSON", NoParent, MCShare) : h \in Holders \ {k1}} \cup
    {In(k1, "COMPANY", Keep, MCShare)} \cup
    {In(x[1], "PERSON", x[2], MCShare) : x \in {y \in Holders \X Holders : y[1] # y[2]}} \cup
    {In(x[1], "COMPANY", x[2], Keep) : x \in {y \in (Holders \ {k1}) \X Holders : y[1] # y[2]}}
=============================================================================
