-------------------------- MODULE NoticeLifecycle --------------------------
(***************************************************************************)
(* What the notice module promises the compliance officer, with every      *)
(* operation taking effect at once: a notice (aviso) is drafted, holds     *)
(* alerts, is generated into one XML report, is filed with the SAT and is  *)
(* then acknowledged, or rebuked and amended.  Notices.tla describes the   *)
(* handlers statement by statement and is checked to implement this.       *)
(***************************************************************************)
EXTENDS Naturals

CONSTANTS
    Alerts,        \* alert ids
    Notices,       \* notice ids
    Reportable,    \* alerts the XML of the primary activity can carry
    NoNotice,      \* the null of alert.noticeId
    Gone           \* the holder of an alert whose row was deleted

VARIABLES
    phase,         \* phase[n]: status of notice n, or why it has none
    amendments,    \* amendments[n]: times n went back to draft
    holder,        \* holder[a]: the notice alert a belongs to
    report         \* report[n]: alerts in the XML that n refers to

vars == <<phase, amendments, holder, report>>

Phases == {"UNBORN", "DRAFT", "GENERATED", "SUBMITTED", "ACKNOWLEDGED",
           "REBUKED", "DELETED"}

Held(n) == {a \in Alerts : holder[a] = n}

Init ==
    /\ phase = [n \in Notices |-> "UNBORN"]
    /\ amendments = [n \in Notices |-> 0]
    /\ holder = [a \in Alerts |-> NoNotice]
    /\ report = [n \in Notices |-> {}]

Open(n) ==
    /\ phase[n] = "UNBORN"
    /\ phase' = [phase EXCEPT ![n] = "DRAFT"]
    /\ UNCHANGED <<amendments, holder, report>>

\* A draft takes alerts that no notice holds.
Take(n, S) ==
    /\ phase[n] = "DRAFT"
    /\ \A a \in S : holder[a] = NoNotice
    /\ holder' = [a \in Alerts |-> IF a \in S THEN n ELSE holder[a]]
    /\ UNCHANGED <<phase, amendments, report>>

\* Alerts leave a notice only before it is filed.
Release(n, S) ==
    /\ phase[n] \in {"DRAFT", "GENERATED"}
    /\ S \subseteq Held(n)
    /\ holder' = [a \in Alerts |-> IF a \in S THEN NoNotice ELSE holder[a]]
    /\ UNCHANGED <<phase, amendments, report>>

\* Deleting an alert is possible at any time and final.
Withdraw(a) ==
    /\ holder' = [holder EXCEPT ![a] = Gone]
    /\ UNCHANGED <<phase, amendments, report>>

\* The report carries every reportable alert of the notice; what else it
\* carries can only be alerts deleted while it was being written.
Generate(n, S) ==
    /\ phase[n] = "DRAFT"
    /\ Held(n) \cap Reportable \subseteq S
    /\ \A a \in S : a \in Reportable /\ holder[a] \in {n, Gone}
    /\ phase' = [phase EXCEPT ![n] = "GENERATED"]
    /\ report' = [report EXCEPT ![n] = S]
    /\ UNCHANGED <<amendments, holder>>

\* Filing and filing again: only a draft cannot be submitted.
Submit(n) ==
    /\ phase[n] \in {"GENERATED", "SUBMITTED", "ACKNOWLEDGED", "REBUKED"}
    /\ phase' = [phase EXCEPT ![n] = "SUBMITTED"]
    /\ UNCHANGED <<amendments, holder, report>>

Answer(n, verdict) ==
    /\ phase[n] = "SUBMITTED"
    /\ verdict \in {"ACKNOWLEDGED", "REBUKED"}
    /\ phase' = [phase EXCEPT ![n] = verdict]
    /\ UNCHANGED <<amendments, holder, report>>

Amend(n) ==
    /\ phase[n] = "REBUKED"
    /\ phase' = [phase EXCEPT ![n] = "DRAFT"]
    /\ amendments' = [amendments EXCEPT ![n] = @ + 1]
    /\ report' = [report EXCEPT ![n] = {}]
    /\ UNCHANGED holder

Discard(n) ==
    /\ phase[n] \in {"DRAFT", "GENERATED"}
    /\ phase' = [phase EXCEPT ![n] = "DELETED"]
    /\ amendments' = [amendments EXCEPT ![n] = 0]
    /\ holder' = [a \in Alerts |->
                     IF holder[a] = n THEN NoNotice ELSE holder[a]]
    /\ report' = [report EXCEPT ![n] = {}]

Next ==
    \/ \E a \in Alerts : Withdraw(a)
    \/ \E n \in Notices :
        \/ Open(n)
        \/ Submit(n)
        \/ Amend(n)
        \/ Discard(n)
        \/ \E S \in SUBSET Alerts : Take(n, S) \/ Release(n, S) \/ Generate(n, S)
        \/ \E verdict \in {"ACKNOWLEDGED", "REBUKED"} : Answer(n, verdict)

Spec == Init /\ [][Next]_vars
=============================================================================
