---------------------------- MODULE Obligations ----------------------------
(***************************************************************************)
(* What somebody owes by a date: the cheques of a tenancy and the proofs   *)
(* asked of a contact, the risk flags about both, the people who work on   *)
(* them and the daily runs (src/server/outbox/runner.ts) that mark what is *)
(* late, mark what is overdue and compare totals, in this order.           *)
(***************************************************************************)
EXTENDS Payments, ProofRequests

CONSTANT MaxTables  \* bound on the tables, payments and proofs, one behaviour uses

\* The subjects of a flag are told apart by their type.
ASSUME KindsAssumption == Items \cap Proofs = {} /\ Tenancy \notin Proofs

vars == <<flag, pc, req, disturbed, deaths, item, due, paper, reminded, link, proof, uploads>>

ObligationTypeOK == FlagTypeOK /\ PaymentTypeOK /\ ProofTypeOK

Init == FlagInit /\ PaymentInit /\ ProofInit

Used == (IF \E i \in Items : item[i] # "absent" THEN {"payments"} ELSE {})
        \cup (IF \E r \in Proofs : proof[r] # "absent" THEN {"proofs"} ELSE {})
        \cup (IF \E p \in Requests : req[p].fresh # {} THEN {"payments"} ELSE {})
MayUse(table) == Cardinality(Used \cup {table}) <= MaxTables

\* raisePaymentLate and clearPaymentLate ask first whether the cheque is still there.
There(s) == s \in Items => Live(s)

-----------------------------------------------------------------------------
(* Handlers of people *)

PaymentStep(p) ==
    /\ \/ \E i \in Items, to \in PaymentStatuses : AskTransition(p, i, to)
       \/ WriteTransition(p)
       \/ TransitionMissing(p)
       \/ Trail(p)
       \/ \E S \in SUBSET Items : MayUse("payments") /\ AskSchedule(p, S)
       \/ Replace(p)
       \/ Evaluate(p)
    /\ UNCHANGED proofs

ProofStep(p) ==
    /\ \/ \E r \in Proofs : AskSend(p, r)
       \/ MintProofLink(p)
       \/ WriteSent(p)
       \/ \E l \in Links : PresentProof(p, l)
       \/ UseLink(p)
       \/ LinkRefused(p)
       \/ RecordUpload(p)
       \/ Submit(p)
       \/ \E r \in Proofs, d \in {"APPROVED", "REJECTED"} : AskDecide(p, r, d)
       \/ WriteDecision(p)
    /\ UNCHANGED register

FlagStep(p) ==
    /\ \/ FindToRaise(p, There(req[p].subject))
       \/ CreateFlag(p)
       \/ CreateRefused(p)
       \/ FindToClear(p, There(req[p].subject))
       \/ WriteCleared(p)
    /\ UNCHANGED <<register, proofs>>

Work(p) == PaymentStep(p) \/ ProofStep(p) \/ FlagStep(p)

-----------------------------------------------------------------------------
(* The daily run *)

\* A slip: sweeping only what has been sent.
SentOnly == {r \in due \cap Proofs : proof[r] = "SENT"}
Overdue == {r \in due \cap Proofs : Unanswered(r)}

\* The list of late cheques is done: sweepOverdueProofRequests reads its own.
ListOverdue(j) ==
    /\ req[j].rest = {}
    /\ Take(j, "late", "overdue",
            [NoRequest EXCEPT !.stage = "overdue", !.rest = Overdue])
    /\ UNCHANGED <<flag, register, proofs>>

\* The list of overdue proofs is done: evaluateWorkspaceRisk.
Compare(j) ==
    /\ req[j].rest = {}
    /\ Judge(j, "overdue", [NoRequest EXCEPT !.stage = "evaluate", !.subject = Tenancy])
    /\ UNCHANGED <<flag, register, proofs>>

DailyStep(j) ==
    \/ (ListLate(j) \/ MarkLate(j) \/ MarkMissing(j) \/ Remind(j)) /\ UNCHANGED proofs
    \/ ListOverdue(j)
    \/ MarkOverdue(j) /\ UNCHANGED register
    \/ Compare(j)

-----------------------------------------------------------------------------
(* What happens around them *)

\* A due date passes; nothing reads the date of what no longer waits.
Elapse(s) ==
    /\ s \notin due
    /\ s \in Items => Waiting(s)
    /\ s \in Proofs => Unanswered(s)
    /\ due' = due \cup {s}
    /\ UNCHANGED <<flag, pc, req, disturbed, deaths, item, paper, reminded, proofs>>

Next ==
    \/ \E p \in Users : Work(p)
    \/ \E j \in Jobs : DailyStep(j) \/ FlagStep(j)
    \/ \E p \in Requests : Die(p) /\ UNCHANGED <<register, proofs>>
    \/ \E f \in FlagRows : Acknowledge(f) /\ UNCHANGED <<register, proofs>>
    \/ \E r \in Proofs : MayUse("proofs") /\ CreateProof(r) /\ UNCHANGED register
    \/ \E l \in Links : ProofLinkEnds(l) /\ UNCHANGED register
    \/ \E s \in Items \cup Proofs : Elapse(s)

Spec == Init /\ [][Next]_vars

\* The daily run is started every day, and a request once under way goes on until
\* it is done or dies; nothing makes people ask.
Busy(p) == pc[p] # "idle" /\ Work(p)
Fairness == /\ \A j \in Jobs : WF_vars(DailyStep(j) \/ FlagStep(j))
            /\ \A p \in Users : WF_vars(Busy(p))
FairSpec == Spec /\ Fairness

-----------------------------------------------------------------------------
(* Properties *)

AtRest(s) == \A p \in Requests : s \notin Holds(p)
Quiet(s) == s \notin disturbed /\ AtRest(s)

\* A cleared cheque has its trail: its receipt and its deposit are on the
\* timeline, though status and evidence are written apart and other requests
\* move the cheque between the two (payments.ts:144-176).
ChequeTrail ==
    \A i \in Items :
        /\ deaths = 0 /\ AtRest(i) /\ item[i] = "CLEARED"
        => {<<i, "RECEIVED">>, <<i, "DEPOSITED">>} \subseteq paper

\* A flag and its subject agree when nobody is at work on it and no two requests
\* ever met there: late and flagged, reminded of and not received, overdue and flagged,
\* submitted and no longer flagged.
FlagsAgree ==
    /\ \A i \in Items : Quiet(i) =>
        /\ ActiveFlags(i) # {} => item[i] \in {"LATE", "deleted"}
        /\ item[i] = "LATE" /\ reminded[i] > 0 => ActiveFlags(i) # {}
    /\ \A r \in Proofs : Quiet(r) =>
        /\ proof[r] = "OVERDUE" => ActiveFlags(r) # {}
        /\ proof[r] = "SUBMITTED" => ActiveFlags(r) = {}

\* A link pays for each upload, and a request is called submitted only after an
\* upload is on the timeline, whoever sends, decides or sweeps meanwhile, and
\* wherever the upload is cut off.
UploadBacked ==
    /\ \A l \in Links : uploads[l] <= link[l].uses /\ link[l].uses <= MaxUses[l]
    /\ \A r \in Proofs : proof[r] = "SUBMITTED" =>
        \E l \in Links : RequestOf[l] = r /\ uploads[l] > 0

\* What is due does not wait for ever: a cheque is received, called late or
\* cancelled, a proof request is answered or called overdue.
WaitingSwept ==
    /\ \A i \in Items : (i \in due /\ Waiting(i)) ~> ~Waiting(i)
    /\ \A r \in Proofs : (r \in due /\ Unanswered(r)) ~> ~Unanswered(r)

\* A register that stays different from the rent ends up flagged, though no
\* transition compares the two.
MismatchFlagged == <>[]Mismatch => <>[](ActiveFlags(Tenancy) # {})
=============================================================================
