----------------------------- MODULE MCNotices -----------------------------
(* Model values and symmetry for the runs of Notices.                      *)
EXTENDS Notices, TLC

CONSTANTS n1, n2, a1, a2, m1

\* Every alert and notice in one reported month.
MCMonthOf == [x \in Alerts \cup Notices |-> m1]

\* What guards read: record counts, files and audit events are written and
\* never read by a handler, so runs whose properties do not mention them
\* need not tell them apart.
GuardView ==
    <<alert, past, interrupted,
      [n \in Notices |-> <<notice[n].status, notice[n].cycle>>],
      [w \in Workers |-> <<job[w].op, job[w].at, job[w].n, job[w].ids,
                            job[w].seen, job[w].to>>]>>

Symmetry == Permutations(Notices) \cup Permutations(Workers)
=============================================================================
