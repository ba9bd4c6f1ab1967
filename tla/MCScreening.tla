---------------------------- MODULE MCScreening ----------------------------
(***************************************************************************)
(* Screening for TLC.  An entity is a client or a beneficial controller as *)
(* it pleases, so entities, queries and workers are interchangeable.       *)
(***************************************************************************)
EXTENDS Screening, TLC

Symmetry == Permutations(Entities) \cup Permutations(Queries) \cup Permutations(Workers)

\* What decides the flags and the query of the rows: snapshots, results and
\* announcements are written from these and never read back into them, and which of
\* the two PEP searches found somebody makes no difference to them.
FlagView ==
    << [e \in Entities |-> [row[e] EXCEPT !.result = "pending"]],
       [q \in Queries |-> << search[q].entity, FoundBy(search[q]) >>],
       [w \in Workers |-> [job[w] EXCEPT !.before = NoSnapshot, !.after = {},
                                         !.result = "pending", !.assigns = TRUE,
                                         !.tell = {}]] >>

\* Whether a search is answered, and what it finds if a row or a worker names it.
LiveSearch(q) ==
    IF (\E e \in Entities : row[e].query = q) \/ (\E w \in Workers : job[w].q = q)
      THEN << search[q].entity, search[q].lists, Cardinality(search[q].hits \cap PepTypes),
              "adverse_media" \in search[q].hits >>
      ELSE << search[q].entity >>

\* What decides results, snapshots and announcements: the two PEP searches do the same.
HistoryView ==
    << row, snapshot, [q \in Queries |-> LiveSearch(q)], job, announced, raced, torn, passed,
       unseen >>
=============================================================================
