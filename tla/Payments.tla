------------------------------ MODULE Payments ------------------------------
(***************************************************************************)
(* The payments register of one tenancy (src/server/services/payments.ts): *)
(* cheques move through a table of statuses, a schedule is replaced, and   *)
(* the daily run marks what is late and compares the total with the rent.  *)
(* A transition is checked on an earlier read and written by id, a sweep   *)
(* works through the list it read first, and a schedule deletes the rows   *)
(* it read as SCHEDULED whatever they have become.                         *)
(***************************************************************************)
EXTENDS RiskFlags

CONSTANTS
    Items,     \* ids a PaymentItem of the tenancy may get
    SeqOf,     \* its seq, unique among the items of the tenancy
    Balanced,  \* the sets of items whose amounts add up to the annual rent
    Tenancy    \* the tenancy, as a subject of flags

ASSUME PaymentAssumption ==
    /\ Items \subseteq Subjects /\ Tenancy \in Subjects \ Items
    /\ IsFiniteSet(Items)
    /\ DOMAIN SeqOf = Items

VARIABLES
    item,      \* PaymentItem: its status, absent before it is made and deleted after
    due,       \* obligations whose due date has passed
    paper,     \* evidence CHEQUE_RECEIVED and CHEQUE_DEPOSITED, as <<item, status>>
    reminded   \* payment_late_v1 messages of each item

register == <<item, due, paper, reminded>>

PaymentStatuses == {"SCHEDULED", "REQUESTED", "RECEIVED", "DEPOSITED", "CLEARED", "BOUNCED",
                    "LATE", "CANCELLED"}

PaymentTypeOK ==
    /\ item \in [Items -> PaymentStatuses \cup {"absent", "deleted"}]
    /\ due \subseteq Subjects
    /\ paper \subseteq Items \X {"RECEIVED", "DEPOSITED"}
    /\ reminded \in [Items -> Nat]

PaymentInit ==
    /\ item = [i \in Items |-> "absent"]
    /\ due = {} /\ paper = {}
    /\ reminded = [i \in Items |-> 0]

Live(i) == item[i] \notin {"absent", "deleted"}
Waiting(i) == item[i] \in {"SCHEDULED", "REQUESTED"}

-----------------------------------------------------------------------------
(* transitionPayment *)

Transitions == [
    SCHEDULED |-> {"REQUESTED", "RECEIVED", "LATE", "CANCELLED"},
    REQUESTED |-> {"RECEIVED", "LATE", "CANCELLED"},
    RECEIVED  |-> {"DEPOSITED", "CANCELLED"},
    DEPOSITED |-> {"CLEARED", "BOUNCED"},
    LATE      |-> {"RECEIVED", "CANCELLED"},
    BOUNCED   |-> {"RECEIVED", "CANCELLED"},
    CLEARED   |-> {},
    CANCELLED |-> {}]

\* A slip: a table that lets a cheque clear that was never deposited.
LooseTransitions(s) == Transitions[s] \cup IF s = "RECEIVED" THEN {"CLEARED"} ELSE {}
Allowed(s) == Transitions[s]

\* The read and its check; a forbidden transition changes nothing.
AskTransition(p, i, to) ==
    /\ Live(i) /\ to \in Allowed(item[i])
    /\ Take(p, "idle", "transition", [NoRequest EXCEPT !.subject = i, !.to = to])
    /\ UNCHANGED <<flag, register>>

WriteTransition(p) ==
    /\ Goto(p, "transition", "trail")
    /\ Live(req[p].subject)
    /\ item' = [item EXCEPT ![req[p].subject] = req[p].to]
    /\ UNCHANGED <<flag, req, disturbed, deaths, due, paper, reminded>>

\* The row has been deleted meanwhile: the update throws.
TransitionMissing(p) ==
    /\ Leave(p, "transition")
    /\ ~Live(req[p].subject)
    /\ UNCHANGED <<flag, disturbed, deaths, register>>

\* A slip: leaving the flag of a cheque that was received late.
Settles(s) == s \in {"CLEARED", "CANCELLED"}

\* The statuses after which the late flag is cleared.
EndsLateness(s) == s \in {"RECEIVED", "CLEARED", "CANCELLED"}

\* TRANSITION_EVIDENCE; of its rows the two that ChequeTrail reads are kept.
Trail(p) ==
    LET to == req[p].to IN
    /\ paper' = IF to \in {"RECEIVED", "DEPOSITED"} THEN paper \cup {<<req[p].subject, to>>}
                                                     ELSE paper
    /\ IF EndsLateness(to) THEN Goto(p, "trail", "clear") /\ UNCHANGED req ELSE Leave(p, "trail")
    /\ UNCHANGED <<flag, disturbed, deaths, item, due, reminded>>

-----------------------------------------------------------------------------
(* setPaymentSchedule *)

Scheduled == {i \in Items : item[i] = "SCHEDULED"}
DistinctSeqs(S) == \A i, j \in S : SeqOf[i] = SeqOf[j] => i = j

\* The rows to delete are read, and the rows to create are given.
AskSchedule(p, S) ==
    /\ DistinctSeqs(S) /\ \A i \in S : item[i] = "absent"
    /\ Take(p, "idle", "replace", [NoRequest EXCEPT !.rest = Scheduled, !.fresh = S])
    /\ UNCHANGED <<flag, register>>

\* Deletes by id, then creates what no row's seq prevents.
Replace(p) ==
    LET kept == {i \in Items : Live(i)} \ req[p].rest
        made == {i \in req[p].fresh : item[i] = "absent" /\ \A k \in kept : SeqOf[k] # SeqOf[i]}
    IN
    /\ item' = [i \in Items |-> IF i \in made THEN "SCHEDULED"
                                ELSE IF i \in req[p].rest THEN "deleted" ELSE item[i]]
    /\ Take(p, "replace", "evaluate", [NoRequest EXCEPT !.subject = Tenancy])
    /\ UNCHANGED <<flag, due, paper, reminded>>

-----------------------------------------------------------------------------
(* evaluateRiskForTenancy: CHEQUE_TOTAL_MISMATCH *)

Counted == {i \in Items : Live(i) /\ item[i] # "CANCELLED"}
Mismatch == Counted # {} /\ Counted \notin Balanced

\* A slip: comparing only while a cheque is still to come.
JudgeScheduled(p, from, r) ==
    IF Scheduled = {} THEN Leave(p, from) /\ UNCHANGED <<disturbed, deaths>>
                      ELSE Take(p, from, IF Mismatch THEN "raise" ELSE "clear", r)

\* A register with no cheque to count says nothing.
Judge(p, from, r) ==
    IF Counted = {} THEN Leave(p, from) /\ UNCHANGED <<disturbed, deaths>>
                    ELSE Take(p, from, IF Mismatch THEN "raise" ELSE "clear", r)

Evaluate(p) ==
    /\ Judge(p, "evaluate", req[p])
    /\ UNCHANGED <<flag, register>>

-----------------------------------------------------------------------------
(* The daily run: detectLatePayments *)

ToMark == {i \in Items : Waiting(i)}

ListLate(j) ==
    /\ Take(j, "idle", "late", [NoRequest EXCEPT !.stage = "late", !.rest = due \cap ToMark])
    /\ UNCHANGED <<flag, register>>

\* The next of the list, by id, whatever it has become.
MarkLate(j) ==
    \E i \in req[j].rest :
        /\ Goto(j, "late", "raise")
        /\ Live(i)
        /\ item' = [item EXCEPT ![i] = "LATE"]
        /\ req' = [req EXCEPT ![j].subject = i, ![j].rest = @ \ {i}]
        /\ UNCHANGED <<flag, disturbed, deaths, due, paper, reminded>>

\* The row has been deleted meanwhile: the run throws.
MarkMissing(j) ==
    \E i \in req[j].rest :
        /\ Leave(j, "late")
        /\ ~Live(i)
        /\ UNCHANGED <<flag, disturbed, deaths, register>>

Remind(j) ==
    /\ Goto(j, "remind", "late")
    /\ reminded' = [reminded EXCEPT ![req[j].subject] = @ + 1]
    /\ req' = [req EXCEPT ![j].subject = None]
    /\ UNCHANGED <<flag, disturbed, deaths, item, due, paper>>
=============================================================================
