----------------------------- MODULE MCImports -----------------------------
(* Uploads for the runs of Imports.                                        *)
EXTENDS Imports, TLC

CONSTANTS i1, i2, k1, k2

\* Each operation belongs to a client of its own.
MCClientOf == [k \in Keys |-> k]

Upload(type, files) == {[type |-> type, file |-> f] : f \in files}

\* Operations, one of them twice in a file, whose client an import makes or not; and an
\* operation that two files hold, of a client who was there before.
ClientsAndOperations ==
    (i1 :> Upload("CLIENT", {<<k1>>, Unreadable}) \cup Upload("OPERATION", {<<k2>>})) @@
    (i2 :> Upload("OPERATION", {<<k1, k1>>, <<Invalid, k2>>}))
=============================================================================
