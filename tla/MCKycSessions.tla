--------------------------- MODULE MCKycSessions ---------------------------
(* Instances of KycSessions.                                               *)
EXTENDS KycSessions

CONSTANTS s1, s2, c1, w1, w2

\* Both sessions are of one client.
OneClient == [s \in Sessions |-> c1]

\* Bound: while there are two sessions, neither the clock nor the cron moves.  A
\* session is looked at in time alone.
TwoAtTheStart ==
    (\A s \in Sessions : Exists(s)) => clock = 0 /\ cron.at = "idle"
=============================================================================
