-------------------------- MODULE ObligationProofs --------------------------
(***************************************************************************)
(* Theorems about Obligations.                                             *)
(*                                                                         *)
(* The types need to know what a transition holds (Moving).  The trail of  *)
(* a cheque is followed through the requests that still have it in hand    *)
(* (Trailed), an upload is paid by the use its request took (Paid), and a  *)
(* flag agrees with its subject until a request begins to write (FlagInv). *)
(***************************************************************************)
EXTENDS Obligations, FiniteSetTheorems, TLAPS

\* A transition knows its cheque and the status to write.
Moving ==
    \A p \in Requests :
        pc[p] \in {"transition", "trail"} => req[p].subject \in Items /\ req[p].to \in PaymentStatuses

TypeInv == ObligationTypeOK /\ Moving

-----------------------------------------------------------------------------
(* How requests move *)

LEMMA NoRequestTyped ==
    /\ NoRequest \in Request
    /\ NoRequest.subject = None /\ NoRequest.rest = {} /\ NoRequest.link = None
BY DEF NoRequest, Request, Stages, Targets

\* The requests p does not touch keep their place and what they hold.
Others(p) == \A q \in Requests \ {p} : pc'[q] = pc[q] /\ req'[q] = req[q]

LEMMA Leaving ==
    ASSUME FlagTypeOK, NEW p \in Requests, NEW from, Leave(p, from)
    PROVE  /\ pc' \in [Requests -> Steps] /\ req' \in [Requests -> Request]
           /\ pc[p] = from /\ pc'[p] = "idle" /\ req'[p] = NoRequest /\ Others(p)
BY NoRequestTyped DEF FlagTypeOK, Leave, Goto, Steps, Others

LEMMA Going ==
    ASSUME FlagTypeOK, NEW p \in Requests, NEW from, NEW to \in Steps, Goto(p, from, to)
    PROVE  /\ pc' \in [Requests -> Steps]
           /\ pc[p] = from /\ pc'[p] = to
           /\ \A q \in Requests \ {p} : pc'[q] = pc[q]
BY DEF FlagTypeOK, Goto

LEMMA Taking ==
    ASSUME FlagTypeOK, NEW p \in Requests, NEW from, NEW to \in Steps, NEW r \in Request,
           Take(p, from, to, r)
    PROVE  /\ pc' \in [Requests -> Steps] /\ req' \in [Requests -> Request]
           /\ pc[p] = from /\ pc'[p] = to /\ req'[p] = r /\ Others(p)
           /\ disturbed' \subseteq Subjects /\ deaths' \in 0 .. MaxDeaths
BY Going DEF FlagTypeOK, Take, Goto, Meets, Others

\* A request that has dealt with a flag: it still holds a link or cheque no more than before.
LEMMA Resuming ==
    ASSUME FlagTypeOK, NEW p \in Requests, NEW from, Resume(p, from)
    PROVE  /\ pc' \in [Requests -> Steps] /\ req' \in [Requests -> Request]
           /\ pc[p] = from /\ pc'[p] \in {"idle", "remind", "overdue"} /\ Others(p)
<1>1. CASE req[p].stage \in DOMAIN AfterFlag
    <2> DEFINE r == [req[p] EXCEPT !.flag = None,
                                   !.subject = IF req[p].stage = "late" THEN req[p].subject ELSE None]
    <2>1. req[p] \in Request
        BY DEF FlagTypeOK
    <2>2. r \in Request
        BY <2>1 DEF Request
    <2>3. req' = [req EXCEPT ![p] = r]
        BY <1>1 DEF Resume
    <2>4. AfterFlag[req[p].stage] \in {"remind", "overdue"}
        BY <1>1 DEF AfterFlag
    <2>5. Goto(p, from, AfterFlag[req[p].stage])
        BY <1>1 DEF Resume
    <2> HIDE DEF r
    <2> QED BY <2>2, <2>3, <2>4, <2>5 DEF FlagTypeOK, Goto, Steps, Others
<1>2. CASE req[p].stage \notin DOMAIN AfterFlag
    <2>1. Leave(p, from)
        BY <1>2 DEF Resume
    <2> QED BY <2>1, Leaving
<1> QED BY <1>1, <1>2

\* A sweep takes the next of its list.
LEMMA NextOfList ==
    ASSUME FlagTypeOK, NEW p \in Requests, NEW s \in req[p].rest,
           req' = [req EXCEPT ![p].subject = s, ![p].rest = @ \ {s}]
    PROVE  req' \in [Requests -> Request] /\ \A q \in Requests \ {p} : req'[q] = req[q]
<1> DEFINE r == [req[p] EXCEPT !.subject = s, !.rest = @ \ {s}]
<1>1. req[p] \in Request
    BY DEF FlagTypeOK
<1>2. r \in Request
    BY <1>1 DEF Request
<1>3. req' = [req EXCEPT ![p] = r]
    BY <1>1 DEF FlagTypeOK
<1> HIDE DEF r
<1> QED BY <1>2, <1>3 DEF FlagTypeOK

\* What a request is given and reads leaves it a request.
LEMMA Asking ==
    ASSUME NEW d \in Request
    PROVE  /\ \A s \in Subjects \cup {None} : [d EXCEPT !.subject = s] \in Request
           /\ \A s \in Subjects \cup {None}, to \in Targets :
                  [d EXCEPT !.subject = s, !.to = to] \in Request
           /\ \A S, F \in SUBSET Subjects : [d EXCEPT !.rest = S, !.fresh = F] \in Request
           /\ \A S \in SUBSET Subjects, g \in Stages : [d EXCEPT !.stage = g, !.rest = S] \in Request
           /\ \A s \in Subjects, g \in Stages : [d EXCEPT !.stage = g, !.subject = s] \in Request
           /\ \A s \in Subjects, l \in Held : [d EXCEPT !.subject = s, !.link = l] \in Request
<1>1. \A s \in Subjects \cup {None} : [d EXCEPT !.subject = s] \in Request
    BY DEF Request
<1>2. \A s \in Subjects \cup {None}, to \in Targets :
          [d EXCEPT !.subject = s, !.to = to] \in Request
    BY DEF Request
<1>3. \A S, F \in SUBSET Subjects : [d EXCEPT !.rest = S, !.fresh = F] \in Request
    BY DEF Request
<1>4. \A S \in SUBSET Subjects, g \in Stages : [d EXCEPT !.stage = g, !.rest = S] \in Request
    BY DEF Request
<1>5. \A s \in Subjects, g \in Stages : [d EXCEPT !.stage = g, !.subject = s] \in Request
    BY DEF Request
<1>6. \A s \in Subjects, l \in Held : [d EXCEPT !.subject = s, !.link = l] \in Request
    BY DEF Request
<1> QED BY <1>1, <1>2, <1>3, <1>4, <1>5, <1>6

\* Counting once more, under any key.
LEMMA OneMore ==
    ASSUME NEW S, NEW f \in [S -> Nat], NEW x
    PROVE  [f EXCEPT ![x] = @ + 1] \in [S -> Nat]
<1>1. CASE x \in S
    BY <1>1
<1>2. CASE x \notin S
    <2>1. [f EXCEPT ![x] = @ + 1] = f
        BY <1>2
    <2> QED BY <2>1
<1> QED BY <1>1, <1>2

LEMMA LinkMoves ==
    ASSUME LinkTypeOK
    PROVE  /\ \A l \in Links : Mint(l) \/ End({l}) => LinkTypeOK'
           /\ \A l : Consume(l) => LinkTypeOK'
<1>1. ASSUME NEW l \in Links, End({l}) PROVE LinkTypeOK'
    BY <1>1 DEF LinkTypeOK, Link, End
<1>2. ASSUME NEW l \in Links, Mint(l) PROVE LinkTypeOK'
    BY <1>2 DEF LinkTypeOK, Link, Mint
<1>3. ASSUME NEW l, Consume(l) PROVE LinkTypeOK'
    <2>1. CASE l \in Links
        BY <1>3, <2>1 DEF LinkTypeOK, Link, Consume
    <2>2. CASE l \notin Links
        <3>1. link' = link
            BY <1>3, <2>2 DEF LinkTypeOK, Consume
        <3> QED BY <3>1 DEF LinkTypeOK
    <2> QED BY <2>1, <2>2
<1> QED BY <1>1, <1>2, <1>3

-----------------------------------------------------------------------------
(* One step of one request, and what it leaves *)

\* p has moved, the types hold, and a transition p begins or goes on with is known.
Moved(p) ==
    /\ ObligationTypeOK' /\ Others(p)
    /\ pc'[p] \in {"transition", "trail"} =>
           req'[p].subject \in Items /\ req'[p].to \in PaymentStatuses

LEMMA FlagMoves ==
    ASSUME ObligationTypeOK, NEW p \in Requests, FlagStep(p)
    PROVE  /\ Moved(p)
           /\ pc[p] \in {"raise", "create", "clear", "clearing"}
           /\ pc'[p] \in {"create", "clearing", "idle", "remind", "overdue"}
<1> USE DEF Steps, FlagStatuses
<1>t. FlagTypeOK /\ PaymentTypeOK /\ ProofTypeOK
    BY DEF ObligationTypeOK
<1>u. PaymentTypeOK' /\ ProofTypeOK'
    BY <1>t DEF FlagStep, register, proofs, PaymentTypeOK, ProofTypeOK, LinkTypeOK
<1>1. CASE FindToRaise(p, There(req[p].subject))
    <2>1. CASE Goto(p, "raise", "create") /\ UNCHANGED req
        BY <1>1, <1>t, <1>u, <2>1, Going
           DEF FindToRaise, FlagTypeOK, ObligationTypeOK, Moved, Others
    <2>2. CASE Resume(p, "raise")
        BY <1>1, <1>t, <1>u, <2>2, Resuming
           DEF FindToRaise, FlagTypeOK, ObligationTypeOK, Moved
    <2> QED BY <1>1, <2>1, <2>2 DEF FindToRaise
<1>2. CASE CreateFlag(p)
    <2>1. Resume(p, "create") /\ flag' \in [FlagRows -> FlagStatuses] /\ UNCHANGED <<disturbed, deaths>>
        BY <1>2, <1>t DEF CreateFlag, FlagTypeOK
    <2> QED BY <1>t, <1>u, <2>1, Resuming DEF FlagTypeOK, ObligationTypeOK, Moved
<1>3. CASE CreateRefused(p)
    BY <1>3, <1>t, <1>u, Leaving DEF CreateRefused, FlagTypeOK, ObligationTypeOK, Moved
<1>4. CASE FindToClear(p, There(req[p].subject))
    <2>1. ASSUME NEW f \in FlagRows,
                 Goto(p, "clear", "clearing"), req' = [req EXCEPT ![p].flag = f]
          PROVE  Moved(p) /\ pc[p] = "clear" /\ pc'[p] = "clearing"
        <3> DEFINE r == [req[p] EXCEPT !.flag = f]
        <3>1. r \in Request
            <4>1. req[p] \in Request
                BY <1>t DEF FlagTypeOK
            <4> QED BY <4>1 DEF Request
        <3>2. req' = [req EXCEPT ![p] = r]
            BY <2>1
        <3> HIDE DEF r
        <3>3. req' \in [Requests -> Request] /\ \A q \in Requests \ {p} : req'[q] = req[q]
            BY <3>1, <3>2, <1>t DEF FlagTypeOK
        <3>4. UNCHANGED <<flag, disturbed, deaths>>
            BY <1>4 DEF FindToClear
        <3> QED BY <1>t, <1>u, <2>1, <3>3, <3>4, Going DEF FlagTypeOK, ObligationTypeOK, Moved, Others
    <2>2. CASE Resume(p, "clear")
        BY <1>4, <1>t, <1>u, <2>2, Resuming
           DEF FindToClear, FlagTypeOK, ObligationTypeOK, Moved
    <2> QED BY <1>4, <2>1, <2>2 DEF FindToClear, ActiveFlags
<1>5. CASE WriteCleared(p)
    <2>1. Resume(p, "clearing") /\ flag' \in [FlagRows -> FlagStatuses] /\ UNCHANGED <<disturbed, deaths>>
        BY <1>5, <1>t DEF WriteCleared, FlagTypeOK
    <2> QED BY <1>t, <1>u, <2>1, Resuming DEF FlagTypeOK, ObligationTypeOK, Moved
<1> QED BY <1>1, <1>2, <1>3, <1>4, <1>5 DEF FlagStep

LEMMA PaymentMoves ==
    ASSUME TypeInv, NEW p \in Requests, PaymentStep(p)
    PROVE  /\ Moved(p)
           /\ pc[p] \in {"idle", "transition", "trail", "replace", "evaluate"}
           /\ pc'[p] \in {"transition", "trail", "idle", "clear", "replace", "evaluate", "raise"}
<1> USE DEF Steps
<1>t. FlagTypeOK /\ PaymentTypeOK /\ ProofTypeOK /\ Moving
    BY DEF ObligationTypeOK, TypeInv
<1>u. ProofTypeOK'
    BY <1>t DEF PaymentStep, proofs, ProofTypeOK, LinkTypeOK
<1>n. NoRequest \in Request /\ NoRequest.subject = None
    BY NoRequestTyped
<1>1. ASSUME NEW i \in Items, NEW to \in PaymentStatuses, AskTransition(p, i, to)
      PROVE  Moved(p) /\ pc[p] = "idle" /\ pc'[p] = "transition"
    <2> DEFINE r == [NoRequest EXCEPT !.subject = i, !.to = to]
    <2>1. r \in Request /\ r.subject = i /\ r.to = to
        <3>1. i \in Subjects /\ to \in Targets
            BY PaymentAssumption DEF Targets, PaymentStatuses
        <3>2. r \in Request
            BY <1>n, <3>1, Asking
        <3> QED BY <3>2 DEF NoRequest
    <2>2. Take(p, "idle", "transition", r) /\ UNCHANGED <<flag, register>>
        BY <1>1 DEF AskTransition
    <2> HIDE DEF r
    <2> QED BY <1>t, <1>u, <2>1, <2>2, Taking
            DEF ObligationTypeOK, FlagTypeOK, PaymentTypeOK, register, Moved
<1>2. CASE WriteTransition(p)
    <2>1. pc[p] = "transition" /\ req[p].subject \in Items /\ req[p].to \in PaymentStatuses
        BY <1>2, <1>t DEF WriteTransition, Goto, Moving
    <2>2. item' \in [Items -> PaymentStatuses \cup {"absent", "deleted"}]
        BY <1>2, <1>t, <2>1 DEF WriteTransition, PaymentTypeOK
    <2> QED BY <1>2, <1>t, <1>u, <2>1, <2>2, Going
            DEF WriteTransition, ObligationTypeOK, FlagTypeOK, PaymentTypeOK, Moved, Others
<1>3. CASE TransitionMissing(p)
    BY <1>3, <1>t, <1>u, Leaving
       DEF TransitionMissing, ObligationTypeOK, FlagTypeOK, PaymentTypeOK, register, Moved
<1>4. CASE Trail(p)
    <2>1. pc[p] = "trail" /\ req[p].subject \in Items
        BY <1>4, <1>t DEF Trail, Goto, Leave, Moving
    <2>2. paper' \subseteq Items \X {"RECEIVED", "DEPOSITED"}
        BY <1>4, <1>t, <2>1 DEF Trail, PaymentTypeOK
    <2>3. UNCHANGED <<flag, disturbed, deaths, item, due, reminded>>
        BY <1>4 DEF Trail
    <2>4. CASE Goto(p, "trail", "clear") /\ UNCHANGED req
        BY <1>t, <1>u, <2>2, <2>3, <2>4, Going
           DEF ObligationTypeOK, FlagTypeOK, PaymentTypeOK, Moved, Others
    <2>5. CASE Leave(p, "trail")
        BY <1>t, <1>u, <2>2, <2>3, <2>5, Leaving
           DEF ObligationTypeOK, FlagTypeOK, PaymentTypeOK, Moved
    <2> QED BY <1>4, <2>4, <2>5 DEF Trail
<1>5. ASSUME NEW S \in SUBSET Items, AskSchedule(p, S)
      PROVE  Moved(p) /\ pc[p] = "idle" /\ pc'[p] = "replace"
    <2> DEFINE r == [NoRequest EXCEPT !.rest = Scheduled, !.fresh = S]
    <2>1. Scheduled \subseteq Subjects /\ S \subseteq Subjects
        BY PaymentAssumption DEF Scheduled
    <2>2. r \in Request
        BY <1>n, <2>1, Asking
    <2>3. Take(p, "idle", "replace", r) /\ UNCHANGED <<flag, register>>
        BY <1>5 DEF AskSchedule
    <2> HIDE DEF r
    <2> QED BY <1>t, <1>u, <2>2, <2>3, Taking
            DEF ObligationTypeOK, FlagTypeOK, PaymentTypeOK, register, Moved
<1>6. CASE Replace(p)
    <2> DEFINE r == [NoRequest EXCEPT !.subject = Tenancy]
    <2>1. r \in Request
        BY <1>n, Asking, PaymentAssumption
    <2>2. /\ Take(p, "replace", "evaluate", r)
          /\ UNCHANGED <<flag, due, paper, reminded>>
          /\ item' \in [Items -> PaymentStatuses \cup {"absent", "deleted"}]
        BY <1>6, <1>t DEF Replace, PaymentTypeOK, PaymentStatuses
    <2> HIDE DEF r
    <2> QED BY <1>t, <1>u, <2>1, <2>2, Taking
            DEF ObligationTypeOK, FlagTypeOK, PaymentTypeOK, Moved
<1>7. CASE Evaluate(p)
    <2>1. UNCHANGED <<flag, register>>
        BY <1>7 DEF Evaluate
    <2>2. CASE Leave(p, "evaluate") /\ UNCHANGED <<disturbed, deaths>>
        BY <1>t, <1>u, <2>1, <2>2, Leaving
           DEF ObligationTypeOK, FlagTypeOK, PaymentTypeOK, register, Moved
    <2> DEFINE r == req[p]
    <2>r. r \in Request
        BY <1>t DEF FlagTypeOK
    <2> HIDE DEF r
    <2>3. CASE Take(p, "evaluate", "raise", r)
        <3>1. /\ pc' \in [Requests -> Steps] /\ req' \in [Requests -> Request]
              /\ pc[p] = "evaluate" /\ pc'[p] = "raise" /\ Others(p)
              /\ disturbed' \subseteq Subjects /\ deaths' \in 0 .. MaxDeaths
            BY <1>t, <2>r, <2>3, Taking
        <3> QED BY <1>t, <1>u, <2>1, <3>1
                     DEF ObligationTypeOK, FlagTypeOK, PaymentTypeOK, register, Moved
    <2>6. CASE Take(p, "evaluate", "clear", r)
        <3>1. /\ pc' \in [Requests -> Steps] /\ req' \in [Requests -> Request]
              /\ pc[p] = "evaluate" /\ pc'[p] = "clear" /\ Others(p)
              /\ disturbed' \subseteq Subjects /\ deaths' \in 0 .. MaxDeaths
            BY <1>t, <2>r, <2>6, Taking
        <3> QED BY <1>t, <1>u, <2>1, <3>1
           DEF ObligationTypeOK, FlagTypeOK, PaymentTypeOK, register, Moved
    <2>4. \/ Leave(p, "evaluate") /\ UNCHANGED <<disturbed, deaths>>
          \/ Take(p, "evaluate", "raise", r)
          \/ Take(p, "evaluate", "clear", r)
        BY <1>7 DEF Evaluate, Judge, r
    <2> QED BY <2>2, <2>3, <2>4, <2>6
<1>8. \/ \E i \in Items, to \in PaymentStatuses : AskTransition(p, i, to)
      \/ WriteTransition(p) \/ TransitionMissing(p) \/ Trail(p)
      \/ \E S \in SUBSET Items : AskSchedule(p, S)
      \/ Replace(p) \/ Evaluate(p)
    BY DEF PaymentStep
<1>9. /\ WriteTransition(p) => pc[p] = "transition" /\ pc'[p] = "trail"
      /\ TransitionMissing(p) => pc[p] = "transition" /\ pc'[p] = "idle"
      /\ Trail(p) => pc[p] = "trail" /\ pc'[p] \in {"clear", "idle"}
      /\ Replace(p) => pc[p] = "replace" /\ pc'[p] = "evaluate"
      /\ Evaluate(p) => pc[p] = "evaluate" /\ pc'[p] \in {"raise", "clear", "idle"}
    BY <1>t DEF FlagTypeOK, WriteTransition, TransitionMissing, Trail, Replace, Evaluate, Judge,
                Take, Leave, Goto
<1> QED BY <1>1, <1>2, <1>3, <1>4, <1>5, <1>6, <1>7, <1>8, <1>9

LEMMA ProofMoves ==
    ASSUME TypeInv, NEW p \in Requests, ProofStep(p)
    PROVE  /\ Moved(p)
           /\ pc[p] \in {"idle", "mint", "sent", "use", "upload", "submit", "decide"}
           /\ pc'[p] \in {"mint", "sent", "idle", "use", "upload", "submit", "clear", "decide"}
<1> USE DEF Steps
<1>t. FlagTypeOK /\ PaymentTypeOK /\ ProofTypeOK /\ LinkTypeOK
    BY DEF ObligationTypeOK, TypeInv, ProofTypeOK
<1>u. PaymentTypeOK'
    BY <1>t DEF ProofStep, register, PaymentTypeOK
<1>n. NoRequest \in Request
    BY NoRequestTyped
<1>1. ASSUME NEW r \in Proofs, AskSend(p, r)
      PROVE  Moved(p) /\ pc[p] = "idle" /\ pc'[p] = "mint"
    <2> DEFINE x == [NoRequest EXCEPT !.subject = r]
    <2>1. x \in Request
        BY <1>n, Asking, ProofAssumption
    <2>2. Take(p, "idle", "mint", x) /\ UNCHANGED <<flag, proofs>>
        BY <1>1 DEF AskSend
    <2> HIDE DEF x
    <2> QED BY <1>t, <1>u, <2>1, <2>2, Taking
            DEF ObligationTypeOK, FlagTypeOK, ProofTypeOK, LinkTypeOK, proofs, Moved
<1>2. CASE MintProofLink(p)
    <2>1. /\ Goto(p, "mint", "sent") /\ LinkTypeOK'
          /\ UNCHANGED <<flag, req, disturbed, deaths, proof, uploads>>
        BY <1>2, <1>t, LinkMoves DEF MintProofLink
    <2> QED BY <1>t, <1>u, <2>1, Going
            DEF ObligationTypeOK, FlagTypeOK, ProofTypeOK, Moved, Others
<1>3. CASE WriteSent(p)
    <2>1. /\ Leave(p, "sent") /\ proof' \in [Proofs -> ProofStatuses]
          /\ UNCHANGED <<flag, disturbed, deaths, link, uploads>>
        BY <1>3, <1>t DEF WriteSent, ProofTypeOK, ProofStatuses
    <2> QED BY <1>t, <1>u, <2>1, Leaving
            DEF ObligationTypeOK, FlagTypeOK, ProofTypeOK, LinkTypeOK, Moved
<1>4. ASSUME NEW l \in Links, PresentProof(p, l)
      PROVE  Moved(p) /\ pc[p] = "idle" /\ pc'[p] = "use"
    <2> DEFINE x == [NoRequest EXCEPT !.subject = RequestOf[l], !.link = l]
    <2>1. x \in Request
        <3>1. RequestOf[l] \in Subjects /\ l \in Held
            BY ProofAssumption
        <3> QED BY <1>n, <3>1, Asking
    <2>2. Take(p, "idle", "use", x) /\ UNCHANGED <<flag, proofs>>
        BY <1>4 DEF PresentProof
    <2> HIDE DEF x
    <2> QED BY <1>t, <1>u, <2>1, <2>2, Taking
            DEF ObligationTypeOK, FlagTypeOK, ProofTypeOK, LinkTypeOK, proofs, Moved
<1>5. CASE UseLink(p)
    <2>1. /\ Goto(p, "use", "upload") /\ LinkTypeOK'
          /\ UNCHANGED <<flag, req, disturbed, deaths, proof, uploads>>
        BY <1>5, <1>t, LinkMoves DEF UseLink
    <2> QED BY <1>t, <1>u, <2>1, Going
            DEF ObligationTypeOK, FlagTypeOK, ProofTypeOK, Moved, Others
<1>6. CASE LinkRefused(p)
    BY <1>6, <1>t, <1>u, Leaving
       DEF LinkRefused, ObligationTypeOK, FlagTypeOK, ProofTypeOK, LinkTypeOK, proofs, Moved
<1>7. CASE RecordUpload(p)
    <2>1. /\ Goto(p, "upload", "submit")
          /\ UNCHANGED <<flag, req, disturbed, deaths, link, proof>>
        BY <1>7 DEF RecordUpload
    <2>2. uploads' \in [Links -> Nat]
        BY <1>7, <1>t, OneMore DEF RecordUpload, ProofTypeOK
    <2> QED BY <1>t, <1>u, <2>1, <2>2, Going
            DEF ObligationTypeOK, FlagTypeOK, ProofTypeOK, LinkTypeOK, Moved, Others
<1>8. CASE Submit(p)
    <2>1. /\ Goto(p, "submit", "clear") /\ proof' \in [Proofs -> ProofStatuses]
          /\ UNCHANGED <<flag, req, disturbed, deaths, link, uploads>>
        BY <1>8, <1>t DEF Submit, ProofTypeOK, ProofStatuses
    <2> QED BY <1>t, <1>u, <2>1, Going
            DEF ObligationTypeOK, FlagTypeOK, ProofTypeOK, LinkTypeOK, Moved, Others
<1>9. ASSUME NEW r \in Proofs, NEW d \in {"APPROVED", "REJECTED"}, AskDecide(p, r, d)
      PROVE  Moved(p) /\ pc[p] = "idle" /\ pc'[p] = "decide"
    <2> DEFINE x == [NoRequest EXCEPT !.subject = r, !.to = d]
    <2>1. x \in Request
        <3>1. r \in Subjects /\ d \in Targets
            BY ProofAssumption DEF Targets
        <3> QED BY <1>n, <3>1, Asking
    <2>2. Take(p, "idle", "decide", x) /\ UNCHANGED <<flag, proofs>>
        BY <1>9 DEF AskDecide
    <2> HIDE DEF x
    <2> QED BY <1>t, <1>u, <2>1, <2>2, Taking
            DEF ObligationTypeOK, FlagTypeOK, ProofTypeOK, LinkTypeOK, proofs, Moved
<1>10. CASE WriteDecision(p)
    <2>1. /\ Leave(p, "decide") /\ proof' \in [Proofs -> ProofStatuses]
          /\ UNCHANGED <<flag, disturbed, deaths, link, uploads>>
        BY <1>10, <1>t DEF WriteDecision, ProofTypeOK, ProofStatuses
    <2> QED BY <1>t, <1>u, <2>1, Leaving
            DEF ObligationTypeOK, FlagTypeOK, ProofTypeOK, LinkTypeOK, Moved
<1>11. /\ MintProofLink(p) => pc[p] = "mint" /\ pc'[p] = "sent"
       /\ WriteSent(p) => pc[p] = "sent" /\ pc'[p] = "idle"
       /\ UseLink(p) => pc[p] = "use" /\ pc'[p] = "upload"
       /\ LinkRefused(p) => pc[p] = "use" /\ pc'[p] = "idle"
       /\ RecordUpload(p) => pc[p] = "upload" /\ pc'[p] = "submit"
       /\ Submit(p) => pc[p] = "submit" /\ pc'[p] = "clear"
       /\ WriteDecision(p) => pc[p] = "decide" /\ pc'[p] = "idle"
    BY <1>t DEF FlagTypeOK, MintProofLink, WriteSent, UseLink, LinkRefused, RecordUpload, Submit,
                WriteDecision, Leave, Goto
<1> QED
    BY <1>1, <1>2, <1>3, <1>4, <1>5, <1>6, <1>7, <1>8, <1>9, <1>10, <1>11 DEF ProofStep

LEMMA DailyMoves ==
    ASSUME TypeInv, NEW j \in Requests, DailyStep(j)
    PROVE  /\ Moved(j)
           /\ pc[j] \in {"idle", "late", "remind", "overdue"}
           /\ pc'[j] \in {"late", "raise", "idle", "overdue", "clear"}
<1> USE DEF Steps
<1>t. FlagTypeOK /\ PaymentTypeOK /\ ProofTypeOK
    BY DEF ObligationTypeOK, TypeInv
<1>n. NoRequest \in Request
    BY NoRequestTyped
<1>1. CASE ListLate(j) /\ UNCHANGED proofs
    <2> DEFINE x == [NoRequest EXCEPT !.stage = "late", !.rest = due \cap ToMark]
    <2>1. x \in Request
        <3>1. (due \cap ToMark) \subseteq Subjects /\ "late" \in Stages
            BY <1>t DEF PaymentTypeOK, Stages
        <3> QED BY <1>n, <3>1, Asking
    <2>2. Take(j, "idle", "late", x) /\ UNCHANGED <<flag, register, proofs>>
        BY <1>1 DEF ListLate
    <2> HIDE DEF x
    <2> QED BY <1>t, <2>1, <2>2, Taking
            DEF ObligationTypeOK, FlagTypeOK, PaymentTypeOK, ProofTypeOK, LinkTypeOK, register, proofs, Moved
<1>2. CASE MarkLate(j) /\ UNCHANGED proofs
    <2>1. PICK i \in req[j].rest :
              /\ Goto(j, "late", "raise")
              /\ item' = [item EXCEPT ![i] = "LATE"]
              /\ req' = [req EXCEPT ![j].subject = i, ![j].rest = @ \ {i}]
              /\ UNCHANGED <<flag, disturbed, deaths, due, paper, reminded, link, proof, uploads>>
        BY <1>2 DEF MarkLate, proofs
    <2>2. item' \in [Items -> PaymentStatuses \cup {"absent", "deleted"}]
        BY <1>t, <2>1 DEF PaymentTypeOK, PaymentStatuses
    <2>3. req' \in [Requests -> Request] /\ \A q \in Requests \ {j} : req'[q] = req[q]
        BY <1>t, <2>1, NextOfList
    <2> QED BY <1>t, <2>1, <2>2, <2>3, Going
            DEF ObligationTypeOK, FlagTypeOK, PaymentTypeOK, ProofTypeOK, LinkTypeOK, Moved, Others
<1>3. CASE MarkMissing(j) /\ UNCHANGED proofs
    <2>1. Leave(j, "late") /\ UNCHANGED <<flag, disturbed, deaths, register, proofs>>
        BY <1>3 DEF MarkMissing
    <2> QED BY <1>t, <2>1, Leaving
            DEF ObligationTypeOK, FlagTypeOK, PaymentTypeOK, ProofTypeOK, LinkTypeOK, register, proofs, Moved
<1>4. CASE Remind(j) /\ UNCHANGED proofs
    <2> DEFINE x == [req[j] EXCEPT !.subject = None]
    <2>1. x \in Request
        <3>1. req[j] \in Request
            BY <1>t DEF FlagTypeOK
        <3> QED BY <3>1, Asking
    <2>2. req' = [req EXCEPT ![j] = x]
        BY <1>4 DEF Remind
    <2> HIDE DEF x
    <2>3. req' \in [Requests -> Request] /\ \A q \in Requests \ {j} : req'[q] = req[q]
        BY <1>t, <2>1, <2>2 DEF FlagTypeOK
    <2>4. reminded' \in [Items -> Nat]
        BY <1>t, <1>4, OneMore DEF Remind, PaymentTypeOK
    <2>5. /\ Goto(j, "remind", "late")
          /\ UNCHANGED <<flag, disturbed, deaths, item, due, paper, link, proof, uploads>>
        BY <1>4 DEF Remind, proofs
    <2> QED BY <1>t, <2>3, <2>4, <2>5, Going
            DEF ObligationTypeOK, FlagTypeOK, PaymentTypeOK, ProofTypeOK, LinkTypeOK, Moved, Others
<1>5. CASE ListOverdue(j)
    <2> DEFINE x == [NoRequest EXCEPT !.stage = "overdue", !.rest = Overdue]
    <2>1. x \in Request
        <3>1. Overdue \subseteq Subjects /\ "overdue" \in Stages
            BY <1>t DEF PaymentTypeOK, Overdue, Stages
        <3> QED BY <1>n, <3>1, Asking
    <2>2. Take(j, "late", "overdue", x) /\ UNCHANGED <<flag, register, proofs>>
        BY <1>5 DEF ListOverdue
    <2> HIDE DEF x
    <2> QED BY <1>t, <2>1, <2>2, Taking
            DEF ObligationTypeOK, FlagTypeOK, PaymentTypeOK, ProofTypeOK, LinkTypeOK, register, proofs, Moved
<1>6. CASE MarkOverdue(j) /\ UNCHANGED register
    <2>1. PICK r \in req[j].rest :
              /\ Goto(j, "overdue", "raise")
              /\ proof' = [proof EXCEPT ![r] = "OVERDUE"]
              /\ req' = [req EXCEPT ![j].subject = r, ![j].rest = @ \ {r}]
              /\ UNCHANGED <<flag, disturbed, deaths, link, uploads, item, due, paper, reminded>>
        BY <1>6 DEF MarkOverdue, register
    <2>2. proof' \in [Proofs -> ProofStatuses]
        BY <1>t, <2>1 DEF ProofTypeOK, ProofStatuses
    <2>3. req' \in [Requests -> Request] /\ \A q \in Requests \ {j} : req'[q] = req[q]
        BY <1>t, <2>1, NextOfList
    <2> QED BY <1>t, <2>1, <2>2, <2>3, Going
            DEF ObligationTypeOK, FlagTypeOK, PaymentTypeOK, ProofTypeOK, LinkTypeOK, Moved, Others
<1>7. CASE Compare(j)
    <2> DEFINE x == [NoRequest EXCEPT !.stage = "evaluate", !.subject = Tenancy]
    <2>1. x \in Request
        <3>1. Tenancy \in Subjects /\ "evaluate" \in Stages
            BY PaymentAssumption DEF Stages
        <3> QED BY <1>n, <3>1, Asking
    <2>2. UNCHANGED <<flag, register, proofs>>
        BY <1>7 DEF Compare
    <2>3. \/ Leave(j, "overdue") /\ UNCHANGED <<disturbed, deaths>>
          \/ Take(j, "overdue", "raise", x)
          \/ Take(j, "overdue", "clear", x)
        BY <1>7 DEF Compare, Judge
    <2> HIDE DEF x
    <2>4. CASE Leave(j, "overdue") /\ UNCHANGED <<disturbed, deaths>>
        BY <1>t, <2>2, <2>4, Leaving
           DEF ObligationTypeOK, FlagTypeOK, PaymentTypeOK, ProofTypeOK, LinkTypeOK, register, proofs, Moved
    <2>5. CASE Take(j, "overdue", "raise", x)
        BY <1>t, <2>1, <2>2, <2>5, Taking
           DEF ObligationTypeOK, FlagTypeOK, PaymentTypeOK, ProofTypeOK, LinkTypeOK, register, proofs, Moved
    <2>6. CASE Take(j, "overdue", "clear", x)
        BY <1>t, <2>1, <2>2, <2>6, Taking
           DEF ObligationTypeOK, FlagTypeOK, PaymentTypeOK, ProofTypeOK, LinkTypeOK, register, proofs, Moved
    <2> QED BY <2>3, <2>4, <2>5, <2>6
<1> QED BY <1>1, <1>2, <1>3, <1>4, <1>5, <1>6, <1>7 DEF DailyStep
-----------------------------------------------------------------------------
(* Types *)

\* What any one step leaves: the types, and the transitions of every request known.
LEMMA MovedTyped ==
    ASSUME TypeInv, NEW p \in Requests, Moved(p)
    PROVE  TypeInv'
BY DEF TypeInv, Moving, Moved, Others

LEMMA Deaths ==
    ASSUME TypeInv, NEW p \in Requests, Die(p), UNCHANGED <<register, proofs>>
    PROVE  Moved(p) /\ pc'[p] = "idle" /\ deaths' # 0
<1>1. Leave(p, pc[p]) /\ deaths < MaxDeaths /\ deaths' = deaths + 1
      /\ disturbed' = disturbed \cup Holds(p) /\ UNCHANGED flag
    BY DEF Die
<1>2. FlagTypeOK /\ PaymentTypeOK /\ ProofTypeOK
    BY DEF TypeInv, ObligationTypeOK
<1>3. PaymentTypeOK' /\ ProofTypeOK'
    BY <1>2 DEF PaymentTypeOK, ProofTypeOK, LinkTypeOK, register, proofs
<1>4. disturbed' \subseteq Subjects
    BY <1>1, <1>2 DEF FlagTypeOK, Holds
<1>5. deaths' \in 0 .. MaxDeaths /\ deaths' # 0
    BY <1>1, <1>2, FlagAssumption DEF FlagTypeOK
<1>6. /\ pc' \in [Requests -> Steps] /\ req' \in [Requests -> Request]
      /\ pc'[p] = "idle" /\ Others(p)
    BY <1>1, <1>2, Leaving
<1> QED BY <1>1, <1>2, <1>3, <1>4, <1>5, <1>6 DEF FlagTypeOK, ObligationTypeOK, Moved

\* Steps that no request takes.
Around ==
    \/ \E f \in FlagRows : Acknowledge(f) /\ UNCHANGED <<register, proofs>>
    \/ \E r \in Proofs : MayUse("proofs") /\ CreateProof(r) /\ UNCHANGED register
    \/ \E l \in Links : ProofLinkEnds(l) /\ UNCHANGED register
    \/ \E s \in Items \cup Proofs : Elapse(s)
    \/ UNCHANGED vars

LEMMA AroundTyped ==
    ASSUME TypeInv, Around
    PROVE  TypeInv' /\ UNCHANGED <<pc, req, deaths, item, paper, uploads>>
<1>t. FlagTypeOK /\ PaymentTypeOK /\ ProofTypeOK /\ LinkTypeOK /\ Moving
    BY DEF ObligationTypeOK, TypeInv, ProofTypeOK
<1>s. SUFFICES ObligationTypeOK' /\ UNCHANGED <<pc, req, deaths, item, paper, uploads>>
    BY <1>t DEF TypeInv, Moving
<1>1. ASSUME NEW f \in FlagRows, Acknowledge(f), UNCHANGED <<register, proofs>>
      PROVE  ObligationTypeOK' /\ UNCHANGED <<pc, req, deaths, item, paper, uploads>>
    <2>1. flag' \in [FlagRows -> FlagStatuses] /\ disturbed' \subseteq Subjects
        BY <1>1, <1>t, FlagAssumption DEF Acknowledge, FlagTypeOK, FlagStatuses
    <2> QED BY <1>1, <1>t, <2>1
            DEF Acknowledge, register, proofs, ObligationTypeOK, FlagTypeOK, PaymentTypeOK,
                ProofTypeOK, LinkTypeOK
<1>2. ASSUME NEW r \in Proofs, CreateProof(r), UNCHANGED register
      PROVE  ObligationTypeOK' /\ UNCHANGED <<pc, req, deaths, item, paper, uploads>>
    <2>1. proof' \in [Proofs -> ProofStatuses]
        BY <1>2, <1>t DEF CreateProof, ProofTypeOK, ProofStatuses
    <2> QED BY <1>2, <1>t, <2>1
            DEF CreateProof, register, ObligationTypeOK, FlagTypeOK, PaymentTypeOK,
                ProofTypeOK, LinkTypeOK
<1>3. ASSUME NEW l \in Links, ProofLinkEnds(l), UNCHANGED register
      PROVE  ObligationTypeOK' /\ UNCHANGED <<pc, req, deaths, item, paper, uploads>>
    <2>1. LinkTypeOK'
        BY <1>3, <1>t, LinkMoves DEF ProofLinkEnds
    <2> QED BY <1>3, <1>t, <2>1
            DEF ProofLinkEnds, register, ObligationTypeOK, FlagTypeOK, PaymentTypeOK, ProofTypeOK
<1>4. ASSUME NEW s \in Items \cup Proofs, Elapse(s)
      PROVE  ObligationTypeOK' /\ UNCHANGED <<pc, req, deaths, item, paper, uploads>>
    <2>1. due' \subseteq Subjects
        BY <1>4, <1>t, PaymentAssumption, ProofAssumption DEF Elapse, PaymentTypeOK
    <2> QED BY <1>4, <1>t, <2>1
            DEF Elapse, proofs, ObligationTypeOK, FlagTypeOK, PaymentTypeOK, ProofTypeOK, LinkTypeOK
<1>5. CASE UNCHANGED vars
    BY <1>5, <1>t
       DEF vars, ObligationTypeOK, FlagTypeOK, PaymentTypeOK, ProofTypeOK, LinkTypeOK
<1> QED BY <1>1, <1>2, <1>3, <1>4, <1>5 DEF Around

\* The kinds of a step.
LEMMA StepKinds ==
    ASSUME [Next]_vars
    PROVE  \/ \E p \in Requests : PaymentStep(p) \/ ProofStep(p) \/ DailyStep(p) \/ FlagStep(p)
           \/ \E p \in Requests : Die(p) /\ UNCHANGED <<register, proofs>>
           \/ Around
<1>1. ASSUME NEW p \in Users, Work(p)
      PROVE  p \in Requests /\ (PaymentStep(p) \/ ProofStep(p) \/ DailyStep(p) \/ FlagStep(p))
    BY <1>1 DEF Work, Requests
<1>2. ASSUME NEW j \in Jobs, DailyStep(j) \/ FlagStep(j)
      PROVE  j \in Requests /\ (PaymentStep(j) \/ ProofStep(j) \/ DailyStep(j) \/ FlagStep(j))
    BY <1>2 DEF Requests
<1> QED BY <1>1, <1>2 DEF Next, Around

LEMMA TypeInit == ASSUME Init PROVE TypeInv
<1>1. FlagTypeOK
    BY NoRequestTyped, FlagAssumption
       DEF Init, FlagInit, FlagTypeOK, FlagStatuses, Steps
<1>2. PaymentTypeOK
    BY DEF Init, PaymentInit, PaymentTypeOK
<1>3. ProofTypeOK
    BY DEF Init, ProofInit, LinkInit, ProofTypeOK, LinkTypeOK, Link, ProofStatuses
<1>4. Moving
    BY DEF Init, FlagInit, Moving
<1> QED BY <1>1, <1>2, <1>3, <1>4 DEF TypeInv, ObligationTypeOK

LEMMA TypeNext == ASSUME TypeInv, [Next]_vars PROVE TypeInv'
<1>1. ASSUME NEW p \in Requests, PaymentStep(p) PROVE TypeInv'
    BY <1>1, PaymentMoves, MovedTyped
<1>2. ASSUME NEW p \in Requests, ProofStep(p) PROVE TypeInv'
    BY <1>2, ProofMoves, MovedTyped
<1>3. ASSUME NEW p \in Requests, DailyStep(p) PROVE TypeInv'
    BY <1>3, DailyMoves, MovedTyped
<1>4. ASSUME NEW p \in Requests, FlagStep(p) PROVE TypeInv'
    BY <1>4, FlagMoves, MovedTyped DEF TypeInv
<1>5. ASSUME NEW p \in Requests, Die(p) /\ UNCHANGED <<register, proofs>> PROVE TypeInv'
    BY <1>5, Deaths, MovedTyped
<1>6. Around => TypeInv'
    BY AroundTyped
<1> QED BY <1>1, <1>2, <1>3, <1>4, <1>5, <1>6, StepKinds

\* Every row, request and count of the obligations keeps its type, and a transition
\* under way knows its cheque and the status to write.
THEOREM ObligationTypes == Spec => []TypeInv
BY TypeInit, TypeNext, PTL DEF Spec
-----------------------------------------------------------------------------
(* The trail of a cheque *)

\* The step is on the timeline, or the request that wrote the status is about to note it.
Told(i, status) ==
    \/ <<i, status>> \in paper
    \/ \E p \in Requests : pc[p] = "trail" /\ req[p].subject = i /\ req[p].to = status

\* What a cheque, or a transition to come, has behind it.
Behind(i, status) ==
    /\ status \in {"RECEIVED", "DEPOSITED", "CLEARED"} => Told(i, "RECEIVED")
    /\ status \in {"DEPOSITED", "CLEARED"} => Told(i, "DEPOSITED")

\* What a transition to status needs to have found.
Before(i, status) ==
    /\ status \in {"DEPOSITED", "CLEARED"} => Told(i, "RECEIVED")
    /\ status = "CLEARED" => Told(i, "DEPOSITED")

Trailed ==
    deaths = 0 =>
        /\ \A i \in Items : Behind(i, item[i])
        /\ \A p \in Requests : pc[p] = "transition" => Before(req[p].subject, req[p].to)

\* A step of p that writes no status of the trail, and begins and ends no transition.
Aside(p) ==
    /\ \A i \in Items : item'[i] = item[i] \/ item'[i] \in {"LATE", "deleted", "SCHEDULED"}
    /\ pc[p] # "trail" /\ pc'[p] # "transition"
    /\ UNCHANGED <<paper, deaths>>

LEMMA PaymentAside ==
    ASSUME TypeInv, NEW p \in Requests,
           \/ TransitionMissing(p) \/ Replace(p) \/ Evaluate(p)
           \/ \E S \in SUBSET Items : AskSchedule(p, S)
    PROVE  Aside(p)
<1>t. FlagTypeOK /\ PaymentTypeOK
    BY DEF TypeInv, ObligationTypeOK
<1>1. CASE TransitionMissing(p)
    BY <1>1, <1>t, Leaving DEF TransitionMissing, Aside, register
<1>2. CASE Replace(p)
    BY <1>2, <1>t DEF Replace, Take, Goto, Aside, FlagTypeOK
<1>3. CASE Evaluate(p)
    BY <1>3, <1>t DEF Evaluate, Judge, Take, Leave, Goto, Aside, FlagTypeOK, register
<1>4. CASE \E S \in SUBSET Items : AskSchedule(p, S)
    BY <1>4, <1>t DEF AskSchedule, Take, Goto, Aside, FlagTypeOK, register
<1> QED BY <1>1, <1>2, <1>3, <1>4

LEMMA DailyAside ==
    ASSUME TypeInv, NEW j \in Requests, DailyStep(j)
    PROVE  Aside(j)
<1>1. pc[j] # "trail" /\ pc'[j] # "transition"
    BY DailyMoves
<1>2. UNCHANGED <<paper, deaths>>
    BY DEF DailyStep, ListLate, MarkLate, MarkMissing, Remind, ListOverdue, MarkOverdue, Compare,
           Judge, Take, register
<1>3. \A i \in Items : item'[i] = item[i] \/ item'[i] = "LATE"
    BY DEF DailyStep, ListLate, MarkLate, MarkMissing, Remind, ListOverdue, MarkOverdue, Compare,
           register, TypeInv, ObligationTypeOK, PaymentTypeOK
<1> QED BY <1>1, <1>2, <1>3 DEF Aside

LEMMA FlagAside ==
    ASSUME TypeInv, NEW p \in Requests, FlagStep(p)
    PROVE  Aside(p)
<1>1. pc[p] # "trail" /\ pc'[p] # "transition"
    BY FlagMoves DEF TypeInv
<1>2. UNCHANGED <<item, paper, deaths>>
    BY DEF FlagStep, register, FindToRaise, CreateFlag, CreateRefused, FindToClear, WriteCleared
<1> QED BY <1>1, <1>2 DEF Aside

LEMMA ProofAside ==
    ASSUME TypeInv, NEW p \in Requests, ProofStep(p)
    PROVE  Aside(p)
<1>1. pc[p] # "trail" /\ pc'[p] # "transition"
    BY ProofMoves
<1>2. UNCHANGED <<item, paper>>
    BY DEF ProofStep, register
<1>3. UNCHANGED deaths
    BY DEF ProofStep, AskSend, MintProofLink, WriteSent, PresentProof, UseLink, LinkRefused,
           RecordUpload, Submit, AskDecide, WriteDecision, Take
<1> QED BY <1>1, <1>2, <1>3 DEF Aside

\* What has been told stays told, unless a request is cut off.
LEMMA ToldStays ==
    ASSUME TypeInv, NEW p \in Requests, Others(p), paper \subseteq paper',
           pc[p] # "trail" \/ Trail(p),
           NEW i, NEW status \in {"RECEIVED", "DEPOSITED"}, Told(i, status)
    PROVE  Told(i, status)'
<1>1. CASE <<i, status>> \in paper
    BY <1>1 DEF Told
<1>2. ASSUME NEW q \in Requests, pc[q] = "trail", req[q].subject = i, req[q].to = status
      PROVE  Told(i, status)'
    <2>1. CASE q = p
        <3>1. <<i, status>> \in paper'
            BY <1>2, <2>1 DEF Trail
        <3> QED BY <3>1 DEF Told
    <2>2. CASE q # p
        BY <1>2, <2>2 DEF Told, Others
    <2> QED BY <2>1, <2>2
<1> QED BY <1>1, <1>2 DEF Told

LEMMA AsideTrailed ==
    ASSUME TypeInv, Trailed, NEW p \in Requests, Others(p), Aside(p)
    PROVE  Trailed'
<1> SUFFICES ASSUME deaths' = 0
             PROVE  /\ \A i \in Items : Behind(i, item[i])'
                    /\ \A q \in Requests :
                           pc'[q] = "transition" => Before(req[q].subject, req[q].to)'
    BY DEF Trailed
<1>1. deaths = 0
    BY DEF Aside
<1>2. \A i, status : status \in {"RECEIVED", "DEPOSITED"} /\ Told(i, status) => Told(i, status)'
    BY ToldStays DEF Aside
<1>3. ASSUME NEW i \in Items PROVE Behind(i, item[i])'
    <2>1. Behind(i, item[i])
        BY <1>1 DEF Trailed
    <2>2. item'[i] = item[i] \/ item'[i] \in {"LATE", "deleted", "SCHEDULED"}
        BY DEF Aside
    <2> QED BY <1>2, <2>1, <2>2 DEF Behind
<1>4. ASSUME NEW q \in Requests, pc'[q] = "transition" PROVE Before(req[q].subject, req[q].to)'
    <2>1. q # p
        BY <1>4 DEF Aside
    <2>2. pc[q] = "transition" /\ req'[q] = req[q]
        BY <1>4, <2>1 DEF Others
    <2>3. Before(req[q].subject, req[q].to)
        BY <1>1, <2>2 DEF Trailed
    <2> QED BY <1>2, <2>2, <2>3 DEF Before
<1> QED BY <1>3, <1>4
LEMMA AskTrailed ==
    ASSUME TypeInv, Trailed, NEW p \in Requests, Moved(p), NEW i \in Items,
           NEW to \in PaymentStatuses, AskTransition(p, i, to)
    PROVE  Trailed'
<1> DEFINE r == [NoRequest EXCEPT !.subject = i, !.to = to]
<1>r. r.subject = i /\ r.to = to
    BY DEF NoRequest
<1>1. /\ pc[p] = "idle" /\ pc'[p] = "transition" /\ req'[p] = r
      /\ UNCHANGED <<item, paper, deaths>>
    BY DEF AskTransition, Take, Goto, register, TypeInv, ObligationTypeOK, FlagTypeOK
<1>2. Live(i) /\ to \in Allowed(item[i])
    BY DEF AskTransition
<1> HIDE DEF r
<1> SUFFICES ASSUME deaths' = 0
             PROVE  /\ \A k \in Items : Behind(k, item[k])'
                    /\ \A q \in Requests :
                           pc'[q] = "transition" => Before(req[q].subject, req[q].to)'
    BY DEF Trailed
<1>3. \A k, status : status \in {"RECEIVED", "DEPOSITED"} /\ Told(k, status) => Told(k, status)'
    BY <1>1, ToldStays DEF Moved
<1>4. ASSUME NEW k \in Items PROVE Behind(k, item[k])'
    BY <1>1, <1>3 DEF Trailed, Behind
<1>5. Before(i, to)
    <2>1. Behind(i, item[i])
        BY <1>1 DEF Trailed
    <2>2. item[i] \in PaymentStatuses
        BY <1>2 DEF Live, TypeInv, ObligationTypeOK, PaymentTypeOK
    <2>3. to = "DEPOSITED" => item[i] = "RECEIVED"
        BY <1>2, <2>2 DEF Allowed, Transitions, PaymentStatuses
    <2>4. to = "CLEARED" => item[i] = "DEPOSITED"
        BY <1>2, <2>2 DEF Allowed, Transitions, PaymentStatuses
    <2> QED BY <2>1, <2>3, <2>4 DEF Behind, Before
<1>6. ASSUME NEW q \in Requests, pc'[q] = "transition" PROVE Before(req[q].subject, req[q].to)'
    <2>1. CASE q = p
        BY <1>1, <1>r, <1>3, <1>5, <2>1 DEF Before
    <2>2. CASE q # p
        <3>1. pc[q] = "transition" /\ req'[q] = req[q]
            BY <1>6, <2>2 DEF Moved, Others
        <3>2. Before(req[q].subject, req[q].to)
            BY <1>1, <3>1 DEF Trailed
        <3> QED BY <1>3, <3>1, <3>2 DEF Before
    <2> QED BY <2>1, <2>2
<1> QED BY <1>4, <1>6

LEMMA WriteTrailed ==
    ASSUME TypeInv, Trailed, NEW p \in Requests, Moved(p), WriteTransition(p)
    PROVE  Trailed'
<1>0. pc[p] = "transition"
    BY DEF WriteTransition, Goto
<1>2. PICK i \in Items, to \in PaymentStatuses : req[p].subject = i /\ req[p].to = to
    BY <1>0 DEF TypeInv, Moving
<1>1. /\ pc[p] = "transition" /\ pc'[p] = "trail" /\ req' = req
      /\ item' = [item EXCEPT ![i] = to] /\ UNCHANGED <<paper, deaths>>
    BY <1>2 DEF WriteTransition, Goto, TypeInv, ObligationTypeOK, FlagTypeOK
<1>p. deaths = 0 => Before(i, to)
    BY <1>1, <1>2 DEF Trailed
<1>w. Told(i, to)'
    BY <1>1, <1>2 DEF Told
<1>q. \A q \in Requests : pc'[q] = "transition" => pc[q] = "transition" /\ req'[q] = req[q]
    BY <1>1 DEF Moved, Others
<1> SUFFICES ASSUME deaths' = 0
             PROVE  /\ \A k \in Items : Behind(k, item[k])'
                    /\ \A q \in Requests :
                           pc'[q] = "transition" => Before(req[q].subject, req[q].to)'
    BY DEF Trailed
<1>3. \A k, status : status \in {"RECEIVED", "DEPOSITED"} /\ Told(k, status) => Told(k, status)'
    BY <1>1, ToldStays DEF Moved
<1>4. ASSUME NEW k \in Items PROVE Behind(k, item[k])'
    <2>1. CASE k = i
        <3>1. item'[k] = to
            BY <1>1, <1>2, <2>1 DEF TypeInv, ObligationTypeOK, PaymentTypeOK
        <3> QED BY <1>1, <1>3, <1>p, <1>w, <2>1, <3>1 DEF Behind, Before
    <2>2. CASE k # i
        <3>1. item'[k] = item[k]
            BY <1>1, <2>2 DEF TypeInv, ObligationTypeOK, PaymentTypeOK
        <3> QED BY <1>1, <1>3, <3>1 DEF Trailed, Behind
    <2> QED BY <2>1, <2>2
<1>5. ASSUME NEW q \in Requests, pc'[q] = "transition" PROVE Before(req[q].subject, req[q].to)'
    <2>1. Before(req[q].subject, req[q].to)
        BY <1>1, <1>5, <1>q DEF Trailed
    <2> QED BY <1>3, <1>5, <1>q, <2>1 DEF Before
<1> QED BY <1>4, <1>5

LEMMA TrailTrailed ==
    ASSUME TypeInv, Trailed, NEW p \in Requests, Moved(p), Trail(p)
    PROVE  Trailed'
<1>1. /\ UNCHANGED <<item, deaths>> /\ paper \subseteq paper'
      /\ pc[p] = "trail" /\ pc'[p] # "transition"
    BY DEF Trail, Goto, Leave, TypeInv, ObligationTypeOK, FlagTypeOK
<1> SUFFICES ASSUME deaths' = 0
             PROVE  /\ \A k \in Items : Behind(k, item[k])'
                    /\ \A q \in Requests :
                           pc'[q] = "transition" => Before(req[q].subject, req[q].to)'
    BY DEF Trailed
<1>3. \A k, status : status \in {"RECEIVED", "DEPOSITED"} /\ Told(k, status) => Told(k, status)'
    BY <1>1, ToldStays DEF Moved
<1>4. ASSUME NEW k \in Items PROVE Behind(k, item[k])'
    BY <1>1, <1>3 DEF Trailed, Behind
<1>5. ASSUME NEW q \in Requests, pc'[q] = "transition" PROVE Before(req[q].subject, req[q].to)'
    <2>1. pc[q] = "transition" /\ req'[q] = req[q]
        BY <1>1, <1>5 DEF Moved, Others
    <2>2. Before(req[q].subject, req[q].to)
        BY <1>1, <2>1 DEF Trailed
    <2> QED BY <1>3, <2>1, <2>2 DEF Before
<1> QED BY <1>4, <1>5

LEMMA TrailedNext == ASSUME TypeInv, Trailed, [Next]_vars PROVE Trailed'
<1>1. ASSUME NEW p \in Requests, PaymentStep(p) PROVE Trailed'
    <2>1. Moved(p) /\ Others(p)
        BY <1>1, PaymentMoves DEF Moved
    <2>2. CASE \/ TransitionMissing(p) \/ Replace(p) \/ Evaluate(p)
               \/ \E S \in SUBSET Items : MayUse("payments") /\ AskSchedule(p, S)
        BY <2>1, <2>2, PaymentAside, AsideTrailed
    <2>3. ASSUME NEW i \in Items, NEW to \in PaymentStatuses, AskTransition(p, i, to)
          PROVE  Trailed'
        BY <2>1, <2>3, AskTrailed
    <2>4. WriteTransition(p) => Trailed'
        BY <2>1, WriteTrailed
    <2>5. Trail(p) => Trailed'
        BY <2>1, TrailTrailed
    <2> QED BY <1>1, <2>2, <2>3, <2>4, <2>5 DEF PaymentStep
<1>2. ASSUME NEW p \in Requests, ProofStep(p) PROVE Trailed'
    BY <1>2, ProofMoves, ProofAside, AsideTrailed DEF Moved
<1>3. ASSUME NEW p \in Requests, DailyStep(p) PROVE Trailed'
    BY <1>3, DailyMoves, DailyAside, AsideTrailed DEF Moved
<1>4. ASSUME NEW p \in Requests, FlagStep(p) PROVE Trailed'
    BY <1>4, FlagMoves, FlagAside, AsideTrailed DEF Moved, TypeInv
<1>5. ASSUME NEW p \in Requests, Die(p) /\ UNCHANGED <<register, proofs>> PROVE Trailed'
    BY <1>5, Deaths DEF Trailed
<1>6. Around => Trailed'
    BY AroundTyped DEF Trailed, Behind, Before, Told
<1> QED BY <1>1, <1>2, <1>3, <1>4, <1>5, <1>6, StepKinds

\* Whoever moves the cheques of a tenancy, replaces their schedule or sweeps them, a
\* cleared cheque that nobody has in hand has its receipt and its deposit on the
\* timeline, unless some request was cut off half-way.
THEOREM TrailComplete == Spec => []ChequeTrail
<1>1. ASSUME Init PROVE Trailed
    BY <1>1 DEF Init, FlagInit, PaymentInit, Trailed, Behind
<1>2. ASSUME TypeInv, Trailed PROVE ChequeTrail
    <2> SUFFICES ASSUME NEW i \in Items, deaths = 0, AtRest(i), item[i] = "CLEARED"
                 PROVE  {<<i, "RECEIVED">>, <<i, "DEPOSITED">>} \subseteq paper
        BY DEF ChequeTrail
    <2>1. Told(i, "RECEIVED") /\ Told(i, "DEPOSITED")
        BY <1>2 DEF Trailed, Behind
    <2>2. \A p \in Requests : req[p].subject # i
        BY PaymentAssumption DEF AtRest, Holds
    <2> QED BY <2>1, <2>2 DEF Told
<1> QED BY <1>1, <1>2, TypeInit, TypeNext, TrailedNext, PTL DEF Spec
-----------------------------------------------------------------------------
(* What an upload is paid with *)

\* Requests whose use of l has been taken and whose upload is not yet on the timeline.
Uploading(l) == {p \in Requests : pc[p] = "upload" /\ req[p].link = l}

Backed(r) == \E l \in Links : RequestOf[l] = r /\ uploads[l] > 0

Paid ==
    /\ \A p \in Requests : pc[p] \in {"use", "upload", "submit"} =>
           req[p].link \in Links /\ req[p].subject = RequestOf[req[p].link]
    /\ \A p \in Requests : pc[p] = "submit" => uploads[req[p].link] > 0
    /\ \A l \in Links : /\ uploads[l] + Cardinality(Uploading(l)) <= link[l].uses
                        /\ link[l].uses <= MaxUses[l]
    /\ \A r \in Proofs : proof[r] = "SUBMITTED" => Backed(r)

\* A step of p that uploads nothing and calls no request submitted.
Empty(p) ==
    /\ pc[p] # "upload" /\ pc'[p] \notin {"use", "upload", "submit"}
    /\ \A l \in Links : link'[l].uses = link[l].uses
    /\ \A r \in Proofs : proof'[r] = "SUBMITTED" => proof[r] = "SUBMITTED"
    /\ UNCHANGED uploads

LEMMA UploadingFinite ==
    /\ \A l : IsFiniteSet(Uploading(l)) /\ Cardinality(Uploading(l)) \in Nat
    /\ \A l : IsFiniteSet(Uploading(l)') /\ Cardinality(Uploading(l)') \in Nat
<1>1. IsFiniteSet(Requests)
    BY FlagAssumption DEF Requests
<1>2. ASSUME NEW l PROVE Uploading(l) \subseteq Requests /\ Uploading(l)' \subseteq Requests
    BY DEF Uploading
<1> QED BY <1>1, <1>2, FS_Subset, FS_CardinalityType

\* Uploads and uses are numbers.
LEMMA CountsTyped ==
    ASSUME TypeInv, NEW l \in Links
    PROVE  uploads[l] \in Nat /\ link[l].uses \in Nat /\ MaxUses[l] \in Nat
BY LinkAssumption DEF TypeInv, ObligationTypeOK, ProofTypeOK, LinkTypeOK, Link

LEMMA EmptyPaid ==
    ASSUME TypeInv, Paid, NEW p \in Requests, Others(p), Empty(p)
    PROVE  Paid'
<1>1. \A l : Uploading(l)' = Uploading(l)
    BY DEF Uploading, Empty, Others
<1>2. ASSUME NEW q \in Requests, pc'[q] \in {"use", "upload", "submit"}
      PROVE  pc'[q] = pc[q] /\ req'[q] = req[q]
    BY <1>2 DEF Empty, Others
<1>3. \A q \in Requests : pc'[q] \in {"use", "upload", "submit"} =>
          req'[q].link \in Links /\ req'[q].subject = RequestOf[req'[q].link]
    BY <1>2 DEF Paid
<1>4. \A q \in Requests : pc'[q] = "submit" => uploads'[req'[q].link] > 0
    BY <1>2 DEF Paid, Empty
<1>5. \A l \in Links : /\ uploads'[l] + Cardinality(Uploading(l)') <= link'[l].uses
                       /\ link'[l].uses <= MaxUses[l]
    BY <1>1 DEF Paid, Empty
<1>6. \A r \in Proofs : proof'[r] = "SUBMITTED" => Backed(r)'
    BY DEF Paid, Empty, Backed
<1> QED BY <1>3, <1>4, <1>5, <1>6 DEF Paid

\* Who neither sends, uploads nor decides changes no request for proof.
LEMMA StillEmpty ==
    ASSUME NEW p, pc[p] # "upload", pc'[p] \notin {"use", "upload", "submit"}, UNCHANGED proofs
    PROVE  Empty(p)
BY DEF Empty, proofs

LEMMA DailyEmpty ==
    ASSUME TypeInv, NEW j \in Requests, DailyStep(j)
    PROVE  Empty(j)
<1>1. pc[j] # "upload" /\ pc'[j] \notin {"use", "upload", "submit"}
    BY DailyMoves
<1>2. UNCHANGED <<link, uploads>>
    BY DEF DailyStep, ListOverdue, MarkOverdue, Compare, proofs
<1>3. \A r \in Proofs : proof'[r] = "SUBMITTED" => proof[r] = "SUBMITTED"
    BY DEF DailyStep, ListOverdue, MarkOverdue, Compare, proofs, TypeInv, ObligationTypeOK, ProofTypeOK
<1> QED BY <1>1, <1>2, <1>3 DEF Empty

LEMMA ProofEmpty ==
    ASSUME TypeInv, NEW p \in Requests,
           \/ \E r \in Proofs : AskSend(p, r)
           \/ MintProofLink(p) \/ WriteSent(p) \/ LinkRefused(p)
           \/ \E r \in Proofs, d \in {"APPROVED", "REJECTED"} : AskDecide(p, r, d)
           \/ WriteDecision(p)
    PROVE  Empty(p)
<1>t. FlagTypeOK /\ ProofTypeOK /\ LinkTypeOK
    BY DEF TypeInv, ObligationTypeOK, ProofTypeOK
<1>1. ASSUME NEW r \in Proofs, AskSend(p, r) PROVE Empty(p)
    BY <1>1, <1>t, StillEmpty DEF AskSend, Take, Goto, FlagTypeOK
<1>2. CASE MintProofLink(p)
    <2>1. PICK l \in Links : Mint(l) /\ Goto(p, "mint", "sent") /\ UNCHANGED <<proof, uploads>>
        BY <1>2 DEF MintProofLink
    <2>2. \A k \in Links : link'[k].uses = link[k].uses
        BY <1>t, <2>1 DEF Mint, LinkTypeOK, Link
    <2> QED BY <1>t, <2>1, <2>2 DEF Goto, FlagTypeOK, Empty
<1>3. CASE WriteSent(p)
    BY <1>3, <1>t DEF WriteSent, Leave, Goto, FlagTypeOK, ProofTypeOK, Empty
<1>4. CASE LinkRefused(p)
    BY <1>4, <1>t, StillEmpty DEF LinkRefused, Leave, Goto, FlagTypeOK
<1>5. ASSUME NEW r \in Proofs, NEW d, AskDecide(p, r, d) PROVE Empty(p)
    BY <1>5, <1>t, StillEmpty DEF AskDecide, Take, Goto, FlagTypeOK
<1>6. CASE WriteDecision(p)
    BY <1>6, <1>t DEF WriteDecision, Leave, Goto, FlagTypeOK, ProofTypeOK, Empty
<1> QED BY <1>1, <1>2, <1>3, <1>4, <1>5, <1>6
LEMMA PresentPaid ==
    ASSUME TypeInv, Paid, NEW p \in Requests, Others(p), NEW l \in Links, PresentProof(p, l)
    PROVE  Paid'
<1> DEFINE x == [NoRequest EXCEPT !.subject = RequestOf[l], !.link = l]
<1>x. x.subject = RequestOf[l] /\ x.link = l
    BY DEF NoRequest
<1>1. pc[p] = "idle" /\ pc'[p] = "use" /\ req'[p] = x /\ UNCHANGED <<link, proof, uploads>>
    BY DEF PresentProof, Take, Goto, proofs, TypeInv, ObligationTypeOK, FlagTypeOK
<1> HIDE DEF x
<1>2. \A k : Uploading(k)' = Uploading(k)
    BY <1>1 DEF Uploading, Others
<1>3. \A q \in Requests : pc'[q] \in {"use", "upload", "submit"} =>
          req'[q].link \in Links /\ req'[q].subject = RequestOf[req'[q].link]
    BY <1>1, <1>x DEF Paid, Others
<1>4. \A q \in Requests : pc'[q] = "submit" => uploads'[req'[q].link] > 0
    BY <1>1 DEF Paid, Others
<1>5. \A k \in Links : /\ uploads'[k] + Cardinality(Uploading(k)') <= link'[k].uses
                       /\ link'[k].uses <= MaxUses[k]
    BY <1>1, <1>2 DEF Paid
<1>6. \A r \in Proofs : proof'[r] = "SUBMITTED" => Backed(r)'
    BY <1>1 DEF Paid, Backed
<1> QED BY <1>3, <1>4, <1>5, <1>6 DEF Paid

LEMMA UsePaid ==
    ASSUME TypeInv, Paid, NEW p \in Requests, Others(p), UseLink(p)
    PROVE  Paid'
<1>0. pc[p] = "use"
    BY DEF UseLink, Goto
<1>l. PICK l \in Links : req[p].link = l
    BY <1>0 DEF Paid
<1>1. /\ pc'[p] = "upload" /\ req' = req /\ UNCHANGED <<proof, uploads>>
      /\ link' = [link EXCEPT ![l].uses = @ + 1] /\ link[l].uses < MaxUses[l]
    BY <1>l DEF UseLink, Goto, Consume, CanConsume, Usable, TypeInv, ObligationTypeOK, FlagTypeOK
<1>2. link'[l].uses = link[l].uses + 1 /\ \A k \in Links \ {l} : link'[k].uses = link[k].uses
    BY <1>1 DEF TypeInv, ObligationTypeOK, ProofTypeOK, LinkTypeOK, Link
<1>3. Uploading(l)' = Uploading(l) \cup {p} /\ p \notin Uploading(l)
    BY <1>0, <1>1, <1>l DEF Uploading, Others
<1>4. \A k \in Links \ {l} : Uploading(k)' = Uploading(k)
    BY <1>0, <1>1, <1>l DEF Uploading, Others
<1>5. Cardinality(Uploading(l)') = Cardinality(Uploading(l)) + 1
    BY <1>3, UploadingFinite, FS_AddElement
<1>6. \A q \in Requests : pc'[q] \in {"use", "upload", "submit"} =>
          req'[q].link \in Links /\ req'[q].subject = RequestOf[req'[q].link]
    BY <1>0, <1>1 DEF Paid, Others
<1>7. \A q \in Requests : pc'[q] = "submit" => uploads'[req'[q].link] > 0
    BY <1>1 DEF Paid, Others
<1>8. ASSUME NEW k \in Links
      PROVE  /\ uploads'[k] + Cardinality(Uploading(k)') <= link'[k].uses
             /\ link'[k].uses <= MaxUses[k]
    <2>1. uploads[k] + Cardinality(Uploading(k)) <= link[k].uses /\ link[k].uses <= MaxUses[k]
        BY DEF Paid
    <2>2. CASE k = l
        BY <1>1, <1>2, <1>5, <2>1, <2>2, UploadingFinite, CountsTyped
    <2>3. CASE k # l
        BY <1>1, <1>2, <1>4, <2>1, <2>3
    <2> QED BY <2>2, <2>3
<1>9. \A r \in Proofs : proof'[r] = "SUBMITTED" => Backed(r)'
    BY <1>1 DEF Paid, Backed
<1> QED BY <1>6, <1>7, <1>8, <1>9 DEF Paid

LEMMA RecordPaid ==
    ASSUME TypeInv, Paid, NEW p \in Requests, Others(p), RecordUpload(p)
    PROVE  Paid'
<1>0. pc[p] = "upload"
    BY DEF RecordUpload, Goto
<1>l. PICK l \in Links : req[p].link = l
    BY <1>0 DEF Paid
<1>1. /\ pc'[p] = "submit" /\ req' = req /\ UNCHANGED <<link, proof>>
      /\ uploads' = [uploads EXCEPT ![l] = @ + 1]
    BY <1>l DEF RecordUpload, Goto, TypeInv, ObligationTypeOK, FlagTypeOK
<1>2. uploads'[l] = uploads[l] + 1 /\ \A k \in Links \ {l} : uploads'[k] = uploads[k]
    BY <1>1 DEF TypeInv, ObligationTypeOK, ProofTypeOK
<1>3. Uploading(l)' = Uploading(l) \ {p} /\ p \in Uploading(l)
    BY <1>0, <1>1, <1>l DEF Uploading, Others
<1>4. \A k \in Links \ {l} : Uploading(k)' = Uploading(k)
    BY <1>0, <1>1, <1>l DEF Uploading, Others
<1>5. Cardinality(Uploading(l)') = Cardinality(Uploading(l)) - 1
    BY <1>3, UploadingFinite, FS_RemoveElement
<1>6. \A q \in Requests : pc'[q] \in {"use", "upload", "submit"} =>
          req'[q].link \in Links /\ req'[q].subject = RequestOf[req'[q].link]
    BY <1>0, <1>1 DEF Paid, Others
<1>g. \A k \in Links : uploads'[k] >= uploads[k] /\ uploads[k] \in Nat
    BY <1>2, CountsTyped
<1>7. ASSUME NEW q \in Requests, pc'[q] = "submit" PROVE uploads'[req'[q].link] > 0
    <2>1. CASE q = p
        <3>1. req'[q].link = l
            BY <1>1, <1>l, <2>1
        <3> QED BY <1>2, <3>1, CountsTyped
    <2>2. CASE q # p
        <3>1. pc[q] = "submit"
            BY <1>7, <2>2 DEF Others
        <3>2. PICK k \in Links : req[q].link = k
            BY <3>1 DEF Paid
        <3>3. uploads[k] > 0
            BY <3>1, <3>2 DEF Paid
        <3>4. uploads'[k] > 0
            BY <1>2, <3>3, CountsTyped
        <3> QED BY <1>1, <3>2, <3>4
    <2> QED BY <2>1, <2>2
<1>8. ASSUME NEW k \in Links
      PROVE  /\ uploads'[k] + Cardinality(Uploading(k)') <= link'[k].uses
             /\ link'[k].uses <= MaxUses[k]
    <2>1. uploads[k] + Cardinality(Uploading(k)) <= link[k].uses /\ link[k].uses <= MaxUses[k]
        BY DEF Paid
    <2>2. CASE k = l
        BY <1>1, <1>2, <1>5, <2>1, <2>2, UploadingFinite, CountsTyped
    <2>3. CASE k # l
        BY <1>1, <1>2, <1>4, <2>1, <2>3
    <2> QED BY <2>2, <2>3
<1>9. ASSUME NEW r \in Proofs, proof'[r] = "SUBMITTED" PROVE Backed(r)'
    <2>1. PICK k \in Links : RequestOf[k] = r /\ uploads[k] > 0
        BY <1>1, <1>9 DEF Paid, Backed
    <2>2. uploads'[k] > 0
        BY <1>2, <2>1, CountsTyped
    <2> QED BY <2>1, <2>2 DEF Backed
<1> QED BY <1>6, <1>7, <1>8, <1>9 DEF Paid

LEMMA SubmitPaid ==
    ASSUME TypeInv, Paid, NEW p \in Requests, Others(p), Submit(p)
    PROVE  Paid'
<1>0. pc[p] = "submit"
    BY DEF Submit, Goto
<1>l. PICK l \in Links : req[p].link = l /\ req[p].subject = RequestOf[l]
    BY <1>0 DEF Paid
<1>1. /\ pc'[p] = "clear" /\ req' = req /\ UNCHANGED <<link, uploads>>
      /\ proof' = [proof EXCEPT ![RequestOf[l]] = "SUBMITTED"]
    BY <1>l DEF Submit, Goto, TypeInv, ObligationTypeOK, FlagTypeOK
<1>2. uploads[l] > 0
    BY <1>0, <1>l DEF Paid
<1>3. \A k : Uploading(k)' = Uploading(k)
    BY <1>0, <1>1 DEF Uploading, Others
<1>4. \A q \in Requests : pc'[q] \in {"use", "upload", "submit"} =>
          req'[q].link \in Links /\ req'[q].subject = RequestOf[req'[q].link]
    BY <1>1 DEF Paid, Others
<1>5. \A q \in Requests : pc'[q] = "submit" => uploads'[req'[q].link] > 0
    BY <1>1 DEF Paid, Others
<1>6. \A k \in Links : /\ uploads'[k] + Cardinality(Uploading(k)') <= link'[k].uses
                       /\ link'[k].uses <= MaxUses[k]
    BY <1>1, <1>3 DEF Paid
<1>7. ASSUME NEW r \in Proofs, proof'[r] = "SUBMITTED" PROVE Backed(r)'
    <2>1. CASE r = RequestOf[l]
        BY <1>1, <1>2, <2>1 DEF Backed
    <2>2. CASE r # RequestOf[l]
        <3>1. proof[r] = "SUBMITTED"
            BY <1>1, <1>7, <2>2 DEF TypeInv, ObligationTypeOK, ProofTypeOK
        <3> QED BY <1>1, <3>1 DEF Paid, Backed
    <2> QED BY <2>1, <2>2
<1> QED BY <1>4, <1>5, <1>6, <1>7 DEF Paid

\* A request that is cut off has used its link for nothing.
LEMMA DeadPaid ==
    ASSUME TypeInv, Paid, NEW p \in Requests, Die(p), UNCHANGED <<register, proofs>>
    PROVE  Paid'
<1>1. Others(p) /\ pc'[p] = "idle" /\ UNCHANGED <<link, proof, uploads>>
    BY Deaths DEF Moved, proofs
<1>2. \A k : Uploading(k)' = Uploading(k) \ {p}
    BY <1>1 DEF Uploading, Others
<1>3. \A k : Cardinality(Uploading(k)') <= Cardinality(Uploading(k))
    BY <1>2, UploadingFinite, FS_RemoveElement
<1>4. \A q \in Requests : pc'[q] \in {"use", "upload", "submit"} =>
          req'[q].link \in Links /\ req'[q].subject = RequestOf[req'[q].link]
    BY <1>1 DEF Paid, Others
<1>5. \A q \in Requests : pc'[q] = "submit" => uploads'[req'[q].link] > 0
    BY <1>1 DEF Paid, Others
<1>6. ASSUME NEW k \in Links
      PROVE  /\ uploads'[k] + Cardinality(Uploading(k)') <= link'[k].uses
             /\ link'[k].uses <= MaxUses[k]
    <2>1. uploads[k] + Cardinality(Uploading(k)) <= link[k].uses /\ link[k].uses <= MaxUses[k]
        BY DEF Paid
    <2> QED BY <1>1, <1>3, <2>1, UploadingFinite, CountsTyped
<1>7. \A r \in Proofs : proof'[r] = "SUBMITTED" => Backed(r)'
    BY <1>1 DEF Paid, Backed
<1> QED BY <1>4, <1>5, <1>6, <1>7 DEF Paid

LEMMA AroundPaid ==
    ASSUME TypeInv, Paid, Around
    PROVE  Paid'
<1>1. UNCHANGED <<pc, req, uploads>>
    BY AroundTyped
<1>2. \A l \in Links : link'[l].uses = link[l].uses
    <2>1. ASSUME NEW k \in Links, ProofLinkEnds(k) PROVE \A l \in Links : link'[l].uses = link[l].uses
        BY <2>1 DEF ProofLinkEnds, End, TypeInv, ObligationTypeOK, ProofTypeOK, LinkTypeOK, Link
    <2> QED BY <2>1 DEF Around, CreateProof, Elapse, proofs, vars
<1>3. \A r \in Proofs : proof'[r] = "SUBMITTED" => proof[r] = "SUBMITTED"
    BY DEF Around, CreateProof, ProofLinkEnds, Elapse, proofs, vars, TypeInv, ObligationTypeOK,
           ProofTypeOK
<1>4. \A l : Uploading(l)' = Uploading(l)
    BY <1>1 DEF Uploading
<1>5. \A q \in Requests : pc'[q] \in {"use", "upload", "submit"} =>
          req'[q].link \in Links /\ req'[q].subject = RequestOf[req'[q].link]
    BY <1>1 DEF Paid
<1>6. \A q \in Requests : pc'[q] = "submit" => uploads'[req'[q].link] > 0
    BY <1>1 DEF Paid
<1>7. \A l \in Links : /\ uploads'[l] + Cardinality(Uploading(l)') <= link'[l].uses
                       /\ link'[l].uses <= MaxUses[l]
    BY <1>1, <1>2, <1>4 DEF Paid
<1>8. \A r \in Proofs : proof'[r] = "SUBMITTED" => Backed(r)'
    BY <1>1, <1>3 DEF Paid, Backed
<1> QED BY <1>5, <1>6, <1>7, <1>8 DEF Paid

LEMMA PaidNext == ASSUME TypeInv, Paid, [Next]_vars PROVE Paid'
<1>1. ASSUME NEW p \in Requests, ProofStep(p) PROVE Paid'
    <2>1. Others(p)
        BY <1>1, ProofMoves DEF Moved
    <2>2. CASE \/ \E r \in Proofs : AskSend(p, r)
               \/ MintProofLink(p) \/ WriteSent(p) \/ LinkRefused(p)
               \/ \E r \in Proofs, d \in {"APPROVED", "REJECTED"} : AskDecide(p, r, d)
               \/ WriteDecision(p)
        BY <2>1, <2>2, ProofEmpty, EmptyPaid
    <2>3. ASSUME NEW l \in Links, PresentProof(p, l) PROVE Paid'
        BY <2>1, <2>3, PresentPaid
    <2>4. UseLink(p) \/ RecordUpload(p) \/ Submit(p) => Paid'
        BY <2>1, UsePaid, RecordPaid, SubmitPaid
    <2> QED BY <1>1, <2>2, <2>3, <2>4 DEF ProofStep
<1>2. ASSUME NEW p \in Requests, PaymentStep(p) PROVE Paid'
    <2>1. /\ Others(p) /\ UNCHANGED proofs
          /\ pc[p] # "upload" /\ pc'[p] \notin {"use", "upload", "submit"}
        BY <1>2, PaymentMoves DEF Moved, PaymentStep
    <2> QED BY <2>1, StillEmpty, EmptyPaid
<1>3. ASSUME NEW p \in Requests, DailyStep(p) PROVE Paid'
    BY <1>3, DailyMoves, DailyEmpty, EmptyPaid DEF Moved
<1>4. ASSUME NEW p \in Requests, FlagStep(p) PROVE Paid'
    <2>1. /\ Others(p) /\ UNCHANGED proofs
          /\ pc[p] # "upload" /\ pc'[p] \notin {"use", "upload", "submit"}
        BY <1>4, FlagMoves DEF Moved, FlagStep, TypeInv
    <2> QED BY <2>1, StillEmpty, EmptyPaid
<1>5. ASSUME NEW p \in Requests, Die(p) /\ UNCHANGED <<register, proofs>> PROVE Paid'
    BY <1>5, DeadPaid
<1>6. Around => Paid'
    BY AroundPaid
<1> QED BY <1>1, <1>2, <1>3, <1>4, <1>5, <1>6, StepKinds

LEMMA PaidInit == ASSUME Init PROVE Paid
<1>1. TypeInv
    BY TypeInit
<1>2. ASSUME NEW l \in Links
      PROVE  uploads[l] = 0 /\ link[l].uses = 0 /\ Cardinality(Uploading(l)) = 0
    <2>1. Uploading(l) = {}
        BY DEF Init, FlagInit, Uploading
    <2> QED BY <2>1, FS_EmptySet DEF Init, ProofInit, LinkInit
<1>3. \A l \in Links : MaxUses[l] \in Nat
    BY LinkAssumption
<1>4. \A l \in Links : /\ uploads[l] + Cardinality(Uploading(l)) <= link[l].uses
                       /\ link[l].uses <= MaxUses[l]
    BY <1>2, <1>3
<1> QED BY <1>4 DEF Init, FlagInit, ProofInit, Paid

\* However many people hold a proof's link, send it again, decide or sweep the request,
\* and wherever an upload is cut off: a link pays for each upload, within its uses, and
\* what is called submitted has an upload on the timeline.
THEOREM UploadsPaid == Spec => []UploadBacked
<1>1. ASSUME TypeInv, Paid PROVE UploadBacked
    <2>1. ASSUME NEW l \in Links
          PROVE  uploads[l] <= link[l].uses /\ link[l].uses <= MaxUses[l]
        <3>1. uploads[l] + Cardinality(Uploading(l)) <= link[l].uses /\ link[l].uses <= MaxUses[l]
            BY <1>1 DEF Paid
        <3> QED BY <1>1, <3>1, UploadingFinite, CountsTyped
    <2> QED BY <1>1, <2>1 DEF UploadBacked, Paid, Backed
<1> QED BY <1>1, PaidInit, TypeInit, TypeNext, PaidNext, PTL DEF Spec

-----------------------------------------------------------------------------
(* Flags and their subjects.  A subject that is not disturbed is in the hands of *)
(* one request at most, and while nobody has begun to write about it, flag and   *)
(* subject agree; a request that has begun knows what is still to be done.       *)

Unflagged(s) == ActiveFlags(s) = {}

\* At most one active flag for a subject: the partial unique index.
Unique == \A f, g \in FlagRows : IsActive(f) /\ IsActive(g) /\ SubjectOf[f] = SubjectOf[g] => f = g

Alone ==
    \A s \in Subjects \ disturbed, p, q \in Requests :
        s \in Holds(p) /\ s \in Holds(q) => p = q

\* What a request holds at each step.
Shape(p) ==
    /\ pc[p] = "idle" => req[p].subject = None /\ req[p].rest = {}
    /\ pc[p] \in {"transition", "trail"} => req[p].subject \in Items
    /\ pc[p] \in {"clear", "clearing"} => req[p].subject \in Items \cup Proofs \cup {Tenancy}
    /\ pc[p] = "clearing" => req[p].flag \in FlagRows /\ SubjectOf[req[p].flag] = req[p].subject
    /\ pc[p] \in {"raise", "create"} =>
        \/ req[p].stage = "late" /\ req[p].subject \in Items
        \/ req[p].stage = "overdue" /\ req[p].subject \in Proofs
        \/ req[p].stage \notin {"late", "overdue"} /\ req[p].subject = Tenancy
    /\ pc[p] = "remind" => req[p].subject \in Items
    /\ pc[p] \in {"mint", "sent", "use", "upload", "submit", "decide"} => req[p].subject \in Proofs
    /\ pc[p] = "evaluate" => req[p].subject = Tenancy
    /\ pc[p] \in {"late", "overdue", "replace"} => req[p].subject = None
    /\ pc[p] \notin {"late", "overdue", "raise", "create", "remind"} =>
        req[p].stage \notin {"late", "overdue"}
    /\ pc[p] \in {"remind", "late"} => req[p].stage = "late"
    /\ pc[p] = "overdue" => req[p].stage = "overdue"
    /\ req[p].stage \notin {"late", "overdue"} /\ pc[p] # "replace" => req[p].rest = {}
    /\ req[p].stage = "overdue" => req[p].rest \subseteq Proofs
    /\ req[p].stage = "late" \/ pc[p] = "replace" => req[p].rest \subseteq Items
    /\ req[p].subject \notin req[p].rest

\* Flag and subject agree.
Agree(s) ==
    /\ s \in Items => /\ ~Unflagged(s) => item[s] \in {"LATE", "deleted"}
                      /\ item[s] = "LATE" /\ reminded[s] > 0 => ~Unflagged(s)
    /\ s \in Proofs => /\ proof[s] = "OVERDUE" => ~Unflagged(s)
                       /\ proof[s] = "SUBMITTED" => Unflagged(s)

\* p has begun to write about s.
Begun(p, s) ==
    s = req[p].subject /\ pc[p] \in {"trail", "clear", "clearing", "raise", "create", "remind"}

\* What is still to be done, and why it ends in agreement.
Left(p, s) ==
    /\ pc[p] = "trail" /\ s \in Items => /\ item[s] = req[p].to
                                         /\ ~Unflagged(s) => EndsLateness(item[s])
                                         /\ item[s] = "LATE" /\ reminded[s] > 0 => ~Unflagged(s)
    /\ pc[p] \in {"clear", "clearing"} => /\ s \in Items => EndsLateness(item[s])
                                          /\ s \in Proofs => proof[s] = "SUBMITTED"
    /\ pc[p] = "clearing" => ActiveFlags(s) \subseteq {req[p].flag}
    /\ pc[p] \in {"raise", "create", "remind"} => /\ s \in Items => item[s] = "LATE"
                                                  /\ s \in Proofs => proof[s] = "OVERDUE"
    /\ pc[p] = "remind" => ~Unflagged(s)

\* The checked transition is still allowed, and nobody is reminded of what still waits.
Fresh(s) ==
    s \in Items =>
        /\ item[s] \in {"absent", "SCHEDULED", "REQUESTED"} => reminded[s] = 0
        /\ \A p \in Requests : pc[p] = "transition" /\ req[p].subject = s
                                   => Live(s) /\ req[p].to \in Allowed(item[s])

Agreeing(s) ==
    /\ Fresh(s)
    /\ Agree(s) \/ \E p \in Requests : Begun(p, s)
    /\ \A p \in Requests : Begun(p, s) => Left(p, s)

FlagInv ==
    /\ Unique /\ Alone
    /\ \A p \in Requests : Shape(p)
    /\ \A s \in (Items \cup Proofs) \ disturbed : Agreeing(s)

-----------------------------------------------------------------------------
(* What a step leaves of it *)

LEMMA Kinds ==
    /\ Items \cup Proofs \subseteq Subjects /\ Tenancy \in Subjects
    /\ Tenancy \notin Items \cup Proofs /\ Items \cap Proofs = {}
    /\ None \notin Subjects /\ None \notin FlagRows
BY PaymentAssumption, ProofAssumption, KindsAssumption, FlagAssumption

\* A step leaves alone what s is about.
Steady(s) ==
    /\ s \in Items => item'[s] = item[s] /\ reminded'[s] = reminded[s]
    /\ s \in Proofs => proof'[s] = proof[s]
    /\ ActiveFlags(s)' = ActiveFlags(s)

\* After a step p has not begun to write about s, and what it checked about s holds.
Passive(p, s) ==
    /\ ~(s = req'[p].subject
            /\ pc'[p] \in {"trail", "clear", "clearing", "raise", "create", "remind"})
    /\ s \in Items /\ pc'[p] = "transition" /\ req'[p].subject = s
           => Live(s) /\ req'[p].to \in Allowed(item[s])

\* A request lets go of what it held, or takes something and disturbs what it meets.
Met(p) ==
    \/ Holds(p)' \subseteq Holds(p) /\ disturbed \subseteq disturbed'
    \/ disturbed' = disturbed \cup Meets(p, Holds(p)')

Kept == \A s \in (Items \cup Proofs) \ disturbed' : Agreeing(s)'

Good(p) == Shape(p)' /\ Met(p) /\ Kept /\ Unique'

\* A subject p has not written about, and does not touch, agrees as before.
LEMMA Steadily ==
    ASSUME NEW p \in Requests, NEW s \in Items \cup Proofs, Agreeing(s), Others(p), Steady(s),
           ~Begun(p, s), Passive(p, s)
    PROVE  Agreeing(s)'
<1>1. Agree(s)' <=> Agree(s)
    BY Kinds DEF Agree, Steady, Unflagged
<1>2. \A q \in Requests : Begun(q, s)' <=> Begun(q, s)
    BY DEF Begun, Others, Passive
<1>3. ASSUME NEW q \in Requests, Begun(q, s)' PROVE Left(q, s)'
    <2>1. q # p /\ Begun(q, s)
        BY <1>2, <1>3
    <2>2. Left(q, s) /\ pc'[q] = pc[q] /\ req'[q] = req[q]
        BY <2>1 DEF Agreeing, Others
    <2>3. s \in Items => item'[s] = item[s] /\ reminded'[s] = reminded[s]
        BY DEF Steady
    <2>4. s \in Proofs => proof'[s] = proof[s]
        BY DEF Steady
    <2>5. ActiveFlags(s)' = ActiveFlags(s) /\ (Unflagged(s)' <=> Unflagged(s))
        BY DEF Steady, Unflagged
    <2> QED BY <2>2, <2>3, <2>4, <2>5 DEF Left, EndsLateness
<1>4. Fresh(s)'
    <2>1. Fresh(s)
        BY DEF Agreeing
    <2>2. s \in Items /\ item'[s] \in {"absent", "SCHEDULED", "REQUESTED"} => reminded'[s] = 0
        BY <2>1 DEF Fresh, Steady
    <2>3. ASSUME s \in Items, NEW q \in Requests, pc'[q] = "transition", req'[q].subject = s
          PROVE  Live(s)' /\ req'[q].to \in Allowed(item'[s])
        <3>1. CASE q = p
            BY <2>3, <3>1 DEF Passive, Live, Steady
        <3>2. CASE q # p
            <4>1. pc[q] = "transition" /\ req[q] = req'[q]
                BY <2>3, <3>2 DEF Others
            <4>2. Live(s) /\ req[q].to \in Allowed(item[s])
                BY <2>1, <2>3, <4>1 DEF Fresh
            <4>3. item'[s] = item[s]
                BY <2>3 DEF Steady
            <4> QED BY <4>1, <4>2, <4>3 DEF Live
        <3> QED BY <3>1, <3>2
    <2> QED BY <2>2, <2>3 DEF Fresh, Allowed
<1> QED BY <1>1, <1>2, <1>3, <1>4 DEF Agreeing

\* A request that writes about s is the only one that has it in hand.
LEMMA Here ==
    ASSUME Alone, NEW p \in Requests, NEW s \in (Items \cup Proofs) \ disturbed, s \in Holds(p),
           Agreeing(s), Others(p),
           s \in Items /\ item'[s] \in {"absent", "SCHEDULED", "REQUESTED"} => reminded'[s] = 0,
           ~(pc'[p] = "transition" /\ req'[p].subject = s),
           Agree(s)' \/ Begun(p, s)',
           Begun(p, s)' => Left(p, s)'
    PROVE  Agreeing(s)'
<1>1. ASSUME NEW q \in Requests \ {p} PROVE s # req'[q].subject
    <2>1. s \notin Holds(q) /\ s \in Subjects
        BY Kinds DEF Alone
    <2> QED BY <2>1 DEF Holds, Others
<1>2. \A q \in Requests : Begun(q, s)' => q = p
    BY <1>1 DEF Begun
<1>3. Fresh(s)'
    BY <1>1 DEF Fresh
<1>4. \A q \in Requests : Begun(q, s)' => Left(q, s)'
    BY <1>2
<1>5. Agree(s)' \/ \E q \in Requests : Begun(q, s)'
    OBVIOUS
<1> QED BY <1>3, <1>4, <1>5 DEF Agreeing

\* What a request knows of the subject it holds, written about or not.
LEMMA Known ==
    ASSUME FlagInv, NEW p \in Requests, NEW s \in (Items \cup Proofs) \ disturbed, s \in Holds(p)
    PROVE  /\ Agreeing(s) /\ Fresh(s)
           /\ Begun(p, s) => Left(p, s)
           /\ ~Begun(p, s) => Agree(s)
<1>1. Agreeing(s) /\ Alone
    BY DEF FlagInv
<1>2. ASSUME NEW q \in Requests, Begun(q, s) PROVE q = p
    <2>1. s \in Holds(q)
        BY <1>2, Kinds DEF Begun, Holds
    <2> QED BY <1>1, <2>1, Kinds DEF Alone
<1> QED BY <1>1, <1>2 DEF Agreeing

LEMMA HoldsIt ==
    ASSUME NEW p \in Requests
    PROVE  /\ req[p].subject \in Items \cup Proofs => req[p].subject \in Holds(p)
           /\ \A s \in Items \cup Proofs : s \in req[p].rest => s \in Holds(p)
BY Kinds DEF Holds

LEMMA AloneKept ==
    ASSUME Alone, NEW p \in Requests, Others(p), Met(p)
    PROVE  Alone'
<1>1. \A q \in Requests \ {p} : Holds(q)' = Holds(q)
    BY DEF Holds, Others
<1>2. CASE Holds(p)' \subseteq Holds(p) /\ disturbed \subseteq disturbed'
    BY <1>1, <1>2 DEF Alone
<1>3. CASE disturbed' = disturbed \cup Meets(p, Holds(p)')
    <2>1. ASSUME NEW s \in Subjects \ disturbed', NEW q \in Requests \ {p},
                 s \in Holds(p)', s \in Holds(q)'
          PROVE FALSE
        <3>1. s \in Holds(q)
            BY <1>1, <2>1
        <3>2. s \in Meets(p, Holds(p)')
            BY <2>1, <3>1 DEF Meets
        <3> QED BY <1>3, <2>1, <3>2
    <2>2. ASSUME NEW s \in Subjects \ disturbed', NEW q \in Requests, NEW o \in Requests,
                 s \in Holds(q)', s \in Holds(o)'
          PROVE q = o
        <3>1. CASE q = p \/ o = p
            BY <2>1, <2>2, <3>1
        <3>2. CASE q # p /\ o # p
            BY <1>1, <1>3, <2>2, <3>2 DEF Alone
        <3> QED BY <3>1, <3>2
    <2> QED BY <2>2 DEF Alone
<1> QED BY <1>2, <1>3 DEF Met

\* A request takes a subject or a list.
LEMMA Taken ==
    ASSUME FlagTypeOK, NEW p \in Requests, NEW from, NEW to \in Steps, NEW r \in Request,
           Take(p, from, to, r)
    PROVE  pc[p] = from /\ pc'[p] = to /\ req'[p] = r /\ Met(p) /\ disturbed \subseteq disturbed'
<1>1. pc[p] = from /\ pc'[p] = to /\ req'[p] = r
    BY Taking
<1>2. Holds(p)' = ({r.subject} \cup r.rest) \cap Subjects
    BY <1>1 DEF Holds
<1> QED BY <1>1, <1>2 DEF Take, Met

\* A request ends.
LEMMA LeftOff ==
    ASSUME FlagTypeOK, NEW p \in Requests, NEW from, Leave(p, from), disturbed \subseteq disturbed'
    PROVE  /\ Shape(p)' /\ Met(p) /\ pc[p] = from /\ pc'[p] = "idle" /\ Holds(p)' = {}
           /\ req'[p].subject = None
           /\ \A s \in Items \cup Proofs : Passive(p, s) /\ ~Begun(p, s)'
<1>1. pc[p] = from /\ pc'[p] = "idle" /\ req'[p] = NoRequest
    BY Leaving
<1>2. /\ req'[p].subject = None /\ req'[p].rest = {} /\ req'[p].stage = "request"
    BY <1>1 DEF NoRequest
<1>3. Holds(p)' = {}
    BY <1>2, Kinds DEF Holds
<1>4. Shape(p)'
    BY <1>1, <1>2, Kinds DEF Shape
<1> QED BY <1>1, <1>2, <1>3, <1>4, Kinds DEF Met, Passive, Begun

\* A request has dealt with a flag: where it goes and what it then holds.
LEMMA Resumed ==
    ASSUME FlagTypeOK, NEW p \in Requests, NEW from, Resume(p, from), Shape(p),
           from \in {"raise", "create", "clear", "clearing"}, UNCHANGED disturbed
    PROVE  /\ Shape(p)' /\ Met(p) /\ pc[p] = from /\ Others(p)
           /\ \/ req[p].stage = "late" /\ pc'[p] = "remind" /\ req'[p].subject = req[p].subject
              \/ req[p].stage # "late" /\ pc'[p] \in {"overdue", "idle"} /\ req'[p].subject = None
<1>0. pc[p] = from /\ Others(p)
    BY Resuming
<1>1. CASE req[p].stage = "late"
    <2> DEFINE r == [req[p] EXCEPT !.flag = None]
    <2>1. req[p] \in Request /\ req \in [Requests -> Request] /\ pc \in [Requests -> Steps]
        BY DEF FlagTypeOK
    <2>2. /\ r \in Request /\ r.stage = "late" /\ r.subject = req[p].subject
          /\ r.rest = req[p].rest
        BY <1>1, <2>1 DEF Request
    <2>3. req' = [req EXCEPT ![p] = r] /\ Goto(p, from, "remind")
        BY <1>1, <2>1 DEF Resume, AfterFlag, Request
    <2> HIDE DEF r
    <2>4. req'[p] = r /\ pc'[p] = "remind"
        BY <2>1, <2>3 DEF Goto
    <2>5. req[p].subject \in Items /\ req[p].rest \subseteq Items /\ req[p].subject \notin req[p].rest
        BY <1>0, <1>1 DEF Shape
    <2>6. Shape(p)'
        BY <2>2, <2>4, <2>5 DEF Shape
    <2>7. Met(p)
        BY <2>2, <2>4 DEF Met, Holds
    <2> QED BY <1>0, <1>1, <2>2, <2>4, <2>6, <2>7
<1>2. CASE req[p].stage = "overdue"
    <2> DEFINE r == [req[p] EXCEPT !.flag = None, !.subject = None]
    <2>1. req[p] \in Request /\ req \in [Requests -> Request] /\ pc \in [Requests -> Steps]
        BY DEF FlagTypeOK
    <2>2. /\ r \in Request /\ r.stage = "overdue" /\ r.subject = None
          /\ r.rest = req[p].rest
        BY <1>2, <2>1 DEF Request
    <2>a. req[p].stage \in DOMAIN AfterFlag /\ AfterFlag[req[p].stage] = "overdue"
        BY <1>2 DEF AfterFlag
    <2>b. Goto(p, from, "overdue")
        BY <2>a DEF Resume
    <2>c. req' = [req EXCEPT ![p].flag = None,
                             ![p].subject = IF req[p].stage = "late" THEN @ ELSE None]
        BY <2>a DEF Resume
    <2>d. req' = [req EXCEPT ![p] = r]
        BY <1>2, <2>1, <2>c
    <2>3. req' = [req EXCEPT ![p] = r] /\ Goto(p, from, "overdue")
        BY <2>b, <2>d
    <2> HIDE DEF r
    <2>4. req'[p] = r /\ pc'[p] = "overdue"
        BY <2>1, <2>3 DEF Goto
    <2>5. req[p].rest \subseteq Proofs
        BY <1>0, <1>2 DEF Shape
    <2>6. Shape(p)'
        BY <2>2, <2>4, <2>5, Kinds DEF Shape
    <2>7. Met(p)
        BY <2>2, <2>4, Kinds DEF Met, Holds
    <2> QED BY <1>0, <1>2, <2>2, <2>4, <2>6, <2>7
<1>3. CASE req[p].stage \notin {"late", "overdue"}
    <2>1. Leave(p, from)
        BY <1>3 DEF Resume, AfterFlag
    <2> QED BY <1>0, <1>3, <2>1, LeftOff
<1> QED BY <1>1, <1>2, <1>3

\* A step that writes none of the tables, and neither goes on with a flag nor begins to.
LEMMA Plain ==
    ASSUME FlagInv, NEW p \in Requests, Others(p), UNCHANGED <<flag, item, reminded, proof>>,
           disturbed \subseteq disturbed',
           \A s \in Items \cup Proofs : ~Begun(p, s) /\ Passive(p, s)
    PROVE  Kept /\ Unique'
<1>1. ASSUME NEW s \in (Items \cup Proofs) \ disturbed' PROVE Agreeing(s)'
    <2>1. Agreeing(s)
        BY DEF FlagInv
    <2>2. Steady(s)
        BY DEF Steady, ActiveFlags, IsActive
    <2> QED BY <2>1, <2>2, Steadily
<1>2. Unique'
    BY DEF FlagInv, Unique, IsActive
<1> QED BY <1>1, <1>2 DEF Kept

\* A step that writes about one subject in hand, and leaves all others alone.
LEMMA Writes ==
    ASSUME FlagInv, NEW p \in Requests, NEW x, Others(p), disturbed \subseteq disturbed',
           \A s \in Items \cup Proofs : s # x => Steady(s) /\ ~Begun(p, s) /\ Passive(p, s),
           x \in (Items \cup Proofs) \ disturbed' =>
               /\ x \in Holds(p)
               /\ x \in Items /\ item'[x] \in {"absent", "SCHEDULED", "REQUESTED"}
                      => reminded'[x] = 0
               /\ ~(pc'[p] = "transition" /\ req'[p].subject = x)
               /\ Agree(x)' \/ Begun(p, x)'
               /\ Begun(p, x)' => Left(p, x)'
    PROVE  Kept
<1>1. ASSUME NEW s \in (Items \cup Proofs) \ disturbed' PROVE Agreeing(s)'
    <2>1. Agreeing(s) /\ Alone
        BY DEF FlagInv
    <2>2. CASE s # x
        BY <2>1, <2>2, Steadily
    <2>3. CASE s = x
        BY <2>1, <2>3, Here
    <2> QED BY <2>2, <2>3
<1> QED BY <1>1 DEF Kept

-----------------------------------------------------------------------------
(* The handlers of people *)

\* What the table of transitions says of lateness.
LEMMA LateTable ==
    ASSUME NEW s \in PaymentStatuses, NEW to \in Allowed(s)
    PROVE  /\ to \notin {"absent", "SCHEDULED"}
           /\ to = "REQUESTED" => s = "SCHEDULED"
           /\ to = "LATE" => s \in {"SCHEDULED", "REQUESTED"}
           /\ s = "LATE" => EndsLateness(to)
BY DEF PaymentStatuses, Allowed, Transitions, EndsLateness

\* Nobody writes about a row that does not exist.
LEMMA Unbegun ==
    ASSUME TypeInv, FlagInv, NEW s \in (Items \cup Proofs) \ disturbed,
           IF s \in Items THEN item[s] = "absent" ELSE proof[s] = "absent"
    PROVE  /\ Agree(s)
           /\ \A q \in Requests : ~Begun(q, s)
<1>1. Agreeing(s)
    BY DEF FlagInv
<1>2. ASSUME NEW q \in Requests, Begun(q, s) PROVE FALSE
    <2>1. Left(q, s) /\ Shape(q) /\ Moving
        BY <1>1, <1>2 DEF Agreeing, FlagInv, TypeInv
    <2>2. "absent" \notin PaymentStatuses
        BY DEF PaymentStatuses
    <2>3. CASE s \in Items
        BY <1>2, <2>1, <2>2, <2>3 DEF Begun, Left, EndsLateness, Moving
    <2>4. CASE s \in Proofs
        BY <1>2, <2>1, <2>4, Kinds DEF Begun, Left, Shape
    <2> QED BY <2>3, <2>4
<1> QED BY <1>1, <1>2 DEF Agreeing

LEMMA AskTransitionGood ==
    ASSUME TypeInv, FlagInv, NEW p \in Requests, Others(p), UNCHANGED proof,
           NEW i \in Items, NEW to \in PaymentStatuses, AskTransition(p, i, to)
    PROVE  Good(p)
<1> DEFINE r == [NoRequest EXCEPT !.subject = i, !.to = to]
<1>1. /\ r \in Request /\ r.subject = i /\ r.to = to /\ r.rest = {} /\ r.stage = "request"
    <2>1. i \in Subjects /\ to \in Targets
        BY Kinds DEF Targets, PaymentStatuses
    <2>2. NoRequest \in Request
        BY NoRequestTyped
    <2>3. r \in Request
        BY <2>1, <2>2 DEF Request
    <2> QED BY <2>3 DEF NoRequest
<1>2. /\ Take(p, "idle", "transition", r) /\ UNCHANGED <<flag, item, reminded>>
      /\ Live(i) /\ to \in Allowed(item[i])
    BY DEF AskTransition, register
<1> HIDE DEF r
<1>3. pc[p] = "idle" /\ pc'[p] = "transition" /\ req'[p] = r /\ Met(p) /\ disturbed \subseteq disturbed'
    BY <1>1, <1>2, Taken DEF Steps, TypeInv, ObligationTypeOK
<1>4. Shape(p)'
    BY <1>1, <1>3 DEF Shape
<1>5. \A s \in Items \cup Proofs : ~Begun(p, s) /\ Passive(p, s)
    BY <1>1, <1>2, <1>3 DEF Begun, Passive
<1> QED BY <1>2, <1>3, <1>4, <1>5, Plain DEF Good

LEMMA WriteTransitionGood ==
    ASSUME TypeInv, FlagInv, NEW p \in Requests, Others(p), UNCHANGED proof, WriteTransition(p)
    PROVE  Good(p)
<1>1. PICK x : x = req[p].subject
    OBVIOUS
<1>2. /\ pc[p] = "transition" /\ x \in Items /\ req[p].to \in PaymentStatuses
      /\ pc'[p] = "trail" /\ Shape(p)
    BY <1>1 DEF WriteTransition, Goto, TypeInv, ObligationTypeOK, FlagTypeOK, Moving, FlagInv
<1>3. /\ item' = [item EXCEPT ![x] = req[p].to]
      /\ UNCHANGED <<flag, req, disturbed, reminded>>
    BY <1>1 DEF WriteTransition
<1>4. item \in [Items -> PaymentStatuses \cup {"absent", "deleted"}]
    BY DEF TypeInv, ObligationTypeOK, PaymentTypeOK
<1>5. Shape(p)' /\ Met(p)
    BY <1>2, <1>3 DEF Shape, Met, Holds
<1>6. ASSUME NEW s \in Items \cup Proofs, s # x PROVE Steady(s) /\ ~Begun(p, s) /\ Passive(p, s)
    BY <1>1, <1>3, <1>4, <1>6 DEF Steady, Begun, Passive, ActiveFlags, IsActive
<1>7. ASSUME x \in (Items \cup Proofs) \ disturbed'
      PROVE  /\ x \in Holds(p)
             /\ item'[x] \in {"absent", "SCHEDULED", "REQUESTED"} => reminded'[x] = 0
             /\ Begun(p, x)' /\ Left(p, x)'
    <2>1. x \in Holds(p) /\ x \notin disturbed
        BY <1>1, <1>3, <1>7, HoldsIt
    <2>2. Fresh(x) /\ Agree(x)
        BY <1>2, <2>1, Known DEF Begun
    <2>3. /\ item[x] \in PaymentStatuses /\ req[p].to \in Allowed(item[x])
          /\ item[x] \in {"absent", "SCHEDULED", "REQUESTED"} => reminded[x] = 0
        BY <1>1, <1>2, <1>4, <2>2 DEF Fresh, Live
    <2>4. item'[x] = req[p].to /\ reminded'[x] = reminded[x] /\ (Unflagged(x)' <=> Unflagged(x))
        BY <1>2, <1>3, <1>4 DEF Unflagged, ActiveFlags, IsActive
    <2>5. ~Unflagged(x) => item[x] = "LATE"
        BY <1>2, <2>2, <2>3 DEF Agree, PaymentStatuses
    <2>6. Left(p, x)'
        BY <1>2, <1>3, <2>3, <2>4, <2>5, LateTable DEF Left
    <2>7. Begun(p, x)'
        BY <1>1, <1>2, <1>3 DEF Begun
    <2>8. item'[x] \in {"absent", "SCHEDULED", "REQUESTED"} => reminded'[x] = 0
        BY <2>3, <2>4, LateTable
    <2> QED BY <2>1, <2>6, <2>7, <2>8
<1>8. Kept
    BY <1>2, <1>3, <1>6, <1>7, Writes
<1>9. Unique'
    BY <1>3 DEF FlagInv, Unique, IsActive
<1> QED BY <1>5, <1>8, <1>9 DEF Good

LEMMA TrailGood ==
    ASSUME TypeInv, FlagInv, NEW p \in Requests, Others(p), UNCHANGED proof, Trail(p)
    PROVE  Good(p)
<1>1. PICK x : x = req[p].subject
    OBVIOUS
<1>2. FlagTypeOK /\ Shape(p) /\ UNCHANGED <<flag, disturbed, item, reminded>>
    BY DEF Trail, TypeInv, ObligationTypeOK, FlagInv
<1>3. Unique'
    BY <1>2 DEF FlagInv, Unique, IsActive
<1>4. \A s \in Items \cup Proofs : Steady(s)
    BY <1>2 DEF Steady, ActiveFlags, IsActive
<1>5. ASSUME x \in (Items \cup Proofs) \ disturbed', pc[p] = "trail"
      PROVE  /\ x \in Holds(p) /\ Left(p, x)
             /\ x \in Items /\ item'[x] \in {"absent", "SCHEDULED", "REQUESTED"} => reminded'[x] = 0
    <2>1. x \in Holds(p) /\ x \notin disturbed
        BY <1>1, <1>2, <1>5, HoldsIt
    <2>2. Fresh(x) /\ Left(p, x)
        BY <1>1, <1>5, <2>1, Known DEF Begun
    <2> QED BY <1>2, <2>1, <2>2 DEF Fresh
<1>6. CASE Goto(p, "trail", "clear") /\ UNCHANGED req /\ EndsLateness(req[p].to)
    <2>1. pc[p] = "trail" /\ pc'[p] = "clear"
        BY <1>2, <1>6 DEF Goto, FlagTypeOK
    <2>2. Shape(p)' /\ Met(p)
        BY <1>2, <1>6, <2>1 DEF Shape, Met, Holds
    <2>3. x \in Items
        BY <1>1, <1>2, <2>1 DEF Shape
    <2>4. ASSUME x \in (Items \cup Proofs) \ disturbed' PROVE Begun(p, x)' /\ Left(p, x)'
        <3>1. Left(p, x)
            BY <1>5, <2>1, <2>4
        <3> QED BY <1>1, <1>2, <1>6, <2>1, <2>3, <3>1, Kinds DEF Left, Begun
    <2>5. \A s \in Items \cup Proofs : s # x => ~Begun(p, s) /\ Passive(p, s)
        BY <1>1, <1>6, <2>1 DEF Begun, Passive
    <2>6. Kept
        BY <1>2, <1>4, <1>5, <2>1, <2>4, <2>5, Writes
    <2> QED BY <1>3, <2>2, <2>6 DEF Good
<1>7. CASE Leave(p, "trail") /\ ~EndsLateness(req[p].to)
    <2>1. /\ Shape(p)' /\ Met(p) /\ pc[p] = "trail" /\ pc'[p] = "idle"
          /\ \A s \in Items \cup Proofs : Passive(p, s) /\ ~Begun(p, s)'
        BY <1>2, <1>7, LeftOff
    <2>2. x \in Items
        BY <1>1, <1>2, <2>1 DEF Shape
    <2>3. ASSUME x \in (Items \cup Proofs) \ disturbed' PROVE Agree(x)'
        <3>1. Left(p, x)
            BY <1>5, <2>1, <2>3
        <3>2. Unflagged(x)' <=> Unflagged(x)
            BY <1>2 DEF Unflagged, ActiveFlags, IsActive
        <3> QED BY <1>2, <1>7, <2>1, <2>2, <3>1, <3>2, Kinds DEF Left, Agree
    <2>4. \A s \in Items \cup Proofs : s # x => ~Begun(p, s)
        BY <1>1 DEF Begun
    <2>5. Kept
        BY <1>2, <1>4, <1>5, <2>1, <2>3, <2>4, Writes
    <2> QED BY <1>3, <2>1, <2>5 DEF Good
<1> QED BY <1>6, <1>7 DEF Trail

LEMMA ReplaceGood ==
    ASSUME TypeInv, FlagInv, NEW p \in Requests, Others(p), UNCHANGED proof, Replace(p)
    PROVE  Good(p)
<1> DEFINE r == [NoRequest EXCEPT !.subject = Tenancy]
<1>1. r \in Request /\ r.subject = Tenancy /\ r.rest = {} /\ r.stage = "request"
    <2>1. NoRequest \in Request /\ Tenancy \in Subjects
        BY NoRequestTyped, Kinds
    <2>2. r \in Request
        BY <2>1 DEF Request
    <2> QED BY <2>2 DEF NoRequest
<1> DEFINE old == req[p].rest
<1> DEFINE made == {i \in req[p].fresh : item[i] = "absent"
                       /\ \A k \in {x \in Items : Live(x)} \ old : SeqOf[k] # SeqOf[i]}
<1>2. /\ \A s \in made : item[s] = "absent"
      /\ item' = [i \in Items |-> IF i \in made THEN "SCHEDULED"
                                  ELSE IF i \in old THEN "deleted" ELSE item[i]]
      /\ Take(p, "replace", "evaluate", r)
      /\ UNCHANGED <<flag, reminded>>
    BY Zenon DEF Replace
<1>o. old = req[p].rest
    OBVIOUS
<1> HIDE DEF r, made, old
<1>3. /\ pc[p] = "replace" /\ pc'[p] = "evaluate" /\ req'[p] = r /\ Met(p)
      /\ disturbed \subseteq disturbed'
    BY <1>1, <1>2, Taken DEF Steps, TypeInv, ObligationTypeOK
<1>4. Shape(p)' /\ Unique'
    BY <1>1, <1>2, <1>3, Kinds DEF Shape, FlagInv, Unique, IsActive
<1>5. \A s \in Items \cup Proofs : ~Begun(p, s) /\ Passive(p, s)
    BY <1>1, <1>3, Kinds DEF Begun, Passive
<1>6. \A s \in Items \cup Proofs : ActiveFlags(s)' = ActiveFlags(s)
    BY <1>2 DEF ActiveFlags, IsActive
<1>7. ASSUME NEW s \in (Items \cup Proofs) \ disturbed' PROVE Agreeing(s)'
    <2>1. Agreeing(s) /\ Alone /\ s \notin disturbed
        BY <1>3, <1>7 DEF FlagInv
    <2>2. CASE s \in Proofs \/ s \notin made \cup old
        <3>1. Steady(s)
            BY <1>2, <1>6, <2>2, Kinds DEF Steady
        <3> QED BY <1>5, <2>1, <3>1, Steadily
    <2>3. CASE s \in Items /\ s \in old /\ s \notin made
        <3>1. s \in Holds(p)
            BY <1>o, <2>3, HoldsIt
        <3>2. item'[s] = "deleted" /\ pc'[p] # "transition"
            BY <1>2, <1>3, <2>3
        <3>3. Agree(s)'
            BY <2>3, <3>2, Kinds DEF Agree
        <3>4. ~Begun(p, s)'
            BY <1>5 DEF Begun, Passive
        <3> QED BY <2>1, <3>1, <3>2, <3>3, <3>4, Here
    <2>4. CASE s \in Items /\ s \in made
        <3>1. item[s] = "absent" /\ item'[s] = "SCHEDULED" /\ reminded'[s] = reminded[s]
            BY <1>2, <2>4
        <3>2. Agree(s) /\ \A q \in Requests : ~Begun(q, s)
            BY <2>1, <2>4, <3>1, Unbegun
        <3>3. Unflagged(s) /\ Unflagged(s)'
            BY <1>6, <2>4, <3>1, <3>2 DEF Agree, Unflagged
        <3>4. Agree(s)'
            BY <2>4, <3>1, <3>3, Kinds DEF Agree
        <3>5. ASSUME NEW q \in Requests
              PROVE  ~Begun(q, s)' /\ ~(pc'[q] = "transition" /\ req'[q].subject = s)
            <4>1. CASE q = p
                BY <1>1, <1>3, <2>4, <4>1, Kinds DEF Begun
            <4>2. CASE q # p
                <5>1. pc'[q] = pc[q] /\ req'[q] = req[q]
                    BY <4>2 DEF Others
                <5>2. ~(pc[q] = "transition" /\ req[q].subject = s)
                    BY <2>1, <2>4, <3>1 DEF Agreeing, Fresh, Live
                <5> QED BY <3>2, <5>1, <5>2 DEF Begun
            <4> QED BY <4>1, <4>2
        <3>6. reminded'[s] = 0
            BY <2>1, <2>4, <3>1 DEF Agreeing, Fresh
        <3>7. Fresh(s)'
            BY <3>1, <3>5, <3>6 DEF Fresh
        <3> QED BY <3>4, <3>5, <3>7 DEF Agreeing
    <2> QED BY <1>7, <2>2, <2>3, <2>4
<1> QED BY <1>3, <1>4, <1>7 DEF Good, Kept

LEMMA PaymentGood ==
    ASSUME TypeInv, FlagInv, NEW p \in Requests, PaymentStep(p)
    PROVE  Good(p)
<1>0. FlagTypeOK /\ Others(p) /\ UNCHANGED proof /\ Shape(p)
    BY PaymentMoves DEF Moved, PaymentStep, proofs, TypeInv, ObligationTypeOK, FlagInv
<1>1. ASSUME NEW i \in Items, NEW to \in PaymentStatuses, AskTransition(p, i, to) PROVE Good(p)
    BY <1>0, <1>1, AskTransitionGood
<1>2. CASE TransitionMissing(p)
    <2>1. Leave(p, "transition") /\ UNCHANGED <<flag, disturbed, item, reminded>>
        BY <1>2 DEF TransitionMissing, register
    <2>2. Shape(p)' /\ Met(p) /\ pc[p] = "transition" /\ \A s \in Items \cup Proofs : Passive(p, s)
        BY <1>0, <2>1, LeftOff
    <2>3. Kept /\ Unique'
        BY <1>0, <2>1, <2>2, Plain DEF Begun
    <2> QED BY <2>2, <2>3 DEF Good
<1>3. ASSUME NEW S \in SUBSET Items, AskSchedule(p, S) PROVE Good(p)
    <2> DEFINE r == [NoRequest EXCEPT !.rest = Scheduled, !.fresh = S]
    <2>1. /\ r \in Request /\ r.subject = None /\ r.rest = Scheduled /\ r.stage = "request"
          /\ Scheduled \subseteq Items
        <3>1. Scheduled \subseteq Subjects /\ S \subseteq Subjects /\ NoRequest \in Request
            BY Kinds, NoRequestTyped DEF Scheduled
        <3>2. r \in Request
            BY <3>1 DEF Request
        <3> QED BY <3>2 DEF NoRequest, Scheduled
    <2>2. Take(p, "idle", "replace", r) /\ UNCHANGED <<flag, item, reminded>>
        BY <1>3 DEF AskSchedule, register
    <2> HIDE DEF r
    <2>3. /\ pc[p] = "idle" /\ pc'[p] = "replace" /\ req'[p] = r /\ Met(p)
          /\ disturbed \subseteq disturbed'
        BY <1>0, <2>1, <2>2, Taken DEF Steps
    <2>4. Shape(p)'
        BY <2>1, <2>3, Kinds DEF Shape
    <2>5. Kept /\ Unique'
        BY <1>0, <2>2, <2>3, Plain DEF Begun, Passive
    <2> QED BY <2>3, <2>4, <2>5 DEF Good
<1>4. CASE Evaluate(p)
    <2>1. UNCHANGED <<flag, item, reminded>>
        BY <1>4 DEF Evaluate, register
    <2>2. CASE Leave(p, "evaluate") /\ UNCHANGED <<disturbed, deaths>>
        <3>1. Shape(p)' /\ Met(p) /\ pc[p] = "evaluate" /\ \A s \in Items \cup Proofs : Passive(p, s)
            BY <1>0, <2>2, LeftOff
        <3>2. Kept /\ Unique'
            BY <1>0, <2>1, <2>2, <3>1, Plain DEF Begun
        <3> QED BY <3>1, <3>2 DEF Good
    <2>3. ASSUME NEW to \in {"raise", "clear"}, Take(p, "evaluate", to, req[p]) PROVE Good(p)
        <3>1. PICK r \in Request : r = req[p]
            BY <1>0 DEF FlagTypeOK
        <3>e. Take(p, "evaluate", to, r) /\ to \in Steps
            BY <2>3, <3>1 DEF Steps
        <3>2. /\ pc[p] = "evaluate" /\ pc'[p] = to /\ req'[p] = r /\ Met(p)
              /\ disturbed \subseteq disturbed'
            BY <1>0, <3>e, Taken
        <3>3. r.subject = Tenancy /\ r.rest = {} /\ r.stage \notin {"late", "overdue"}
            BY <1>0, <3>1, <3>2 DEF Shape
        <3>4. Shape(p)'
            BY <2>3, <3>2, <3>3 DEF Shape
        <3>5. \A s \in Items \cup Proofs : ~Begun(p, s) /\ Passive(p, s)
            BY <2>3, <3>1, <3>2, <3>3, Kinds DEF Begun, Passive
        <3>6. Kept /\ Unique'
            BY <1>0, <2>1, <3>2, <3>5, Plain
        <3> QED BY <3>2, <3>4, <3>6 DEF Good
    <2> QED BY <1>4, <2>2, <2>3 DEF Evaluate, Judge
<1>5. WriteTransition(p) => Good(p)
    BY <1>0, WriteTransitionGood
<1>6. Trail(p) => Good(p)
    BY <1>0, TrailGood
<1>7. Replace(p) => Good(p)
    BY <1>0, ReplaceGood
<1> QED BY <1>1, <1>2, <1>3, <1>4, <1>5, <1>6, <1>7 DEF PaymentStep

-----------------------------------------------------------------------------
(* Raising and clearing *)

\* A step of raiseFlag or clearFlag writes none of the tables.
OnlyFlags(p) ==
    /\ FlagTypeOK /\ Others(p) /\ Shape(p) /\ Moving
    /\ UNCHANGED <<item, reminded, proof, disturbed>>

\* A request that deals with flags knows its subject and holds it.
LEMMA AtFlag ==
    ASSUME TypeInv, FlagInv, NEW p \in Requests, OnlyFlags(p),
           pc[p] \in {"raise", "create", "clear", "clearing"},
           req[p].subject \in (Items \cup Proofs) \ disturbed'
    PROVE  /\ req[p].subject \in Holds(p)
           /\ Left(p, req[p].subject)
           /\ req[p].subject \in Items /\ item'[req[p].subject] \in {"absent", "SCHEDULED", "REQUESTED"}
                  => reminded'[req[p].subject] = 0
<1>1. PICK x : x = req[p].subject
    OBVIOUS
<1>2. x \in Holds(p) /\ x \in (Items \cup Proofs) \ disturbed
    BY <1>1, HoldsIt DEF OnlyFlags
<1>3. Fresh(x) /\ Left(p, x)
    BY <1>1, <1>2, Known DEF Begun
<1>4. x \in Items /\ item'[x] \in {"absent", "SCHEDULED", "REQUESTED"} => reminded'[x] = 0
    BY <1>3 DEF Fresh, OnlyFlags
<1> QED BY <1>1, <1>2, <1>3, <1>4

\* Where a request stays with its subject, or lets go of it once they agree.
LEMMA FlagWrites ==
    ASSUME TypeInv, FlagInv, NEW p \in Requests, OnlyFlags(p), NEW x, x = req[p].subject,
           pc[p] \in {"raise", "create", "clear", "clearing"},
           \A s \in Subjects : s # x => ActiveFlags(s)' = ActiveFlags(s),
           req'[p].subject \in {x, None}, pc'[p] # "transition",
           x \in (Items \cup Proofs) \ disturbed =>
               (Agree(x)' /\ ~Begun(p, x)') \/ (Begun(p, x)' /\ Left(p, x)')
    PROVE  Kept
<1>2. \A s \in Items \cup Proofs : s # x => Steady(s) /\ ~Begun(p, s) /\ Passive(p, s)
    BY Kinds DEF Steady, Begun, Passive, OnlyFlags
<1>3. ASSUME x \in (Items \cup Proofs) \ disturbed'
      PROVE  /\ x \in Holds(p)
             /\ x \in Items /\ item'[x] \in {"absent", "SCHEDULED", "REQUESTED"} => reminded'[x] = 0
             /\ Agree(x)' \/ Begun(p, x)'
             /\ Begun(p, x)' => Left(p, x)'
    <2>1. x \in Holds(p) /\ (x \in Items /\ item'[x] \in {"absent", "SCHEDULED", "REQUESTED"}
                                 => reminded'[x] = 0)
        BY <1>3, AtFlag
    <2>2. (Agree(x)' /\ ~Begun(p, x)') \/ (Begun(p, x)' /\ Left(p, x)')
        BY <1>3 DEF OnlyFlags
    <2> QED BY <2>1, <2>2
<1>4. Others(p) /\ disturbed \subseteq disturbed'
    BY DEF OnlyFlags
<1> QED BY <1>2, <1>3, <1>4, Writes

LEMMA FindToRaiseGood ==
    ASSUME TypeInv, FlagInv, NEW p \in Requests, OnlyFlags(p),
           FindToRaise(p, There(req[p].subject))
    PROVE  Good(p)
<1>1. PICK x : x = req[p].subject
    OBVIOUS
<1>2. UNCHANGED <<flag, disturbed, item, reminded, proof>> /\ FlagTypeOK /\ Shape(p)
    BY DEF FindToRaise, OnlyFlags
<1>3. Unique' /\ \A s \in Subjects : ActiveFlags(s)' = ActiveFlags(s)
    BY <1>2 DEF FlagInv, Unique, ActiveFlags, IsActive
<1>4. CASE Goto(p, "raise", "create") /\ UNCHANGED req
    <2>1. pc[p] = "raise" /\ pc'[p] = "create"
        BY <1>2, <1>4 DEF Goto, FlagTypeOK
    <2>2. Shape(p)' /\ Met(p)
        BY <1>2, <1>4, <2>1 DEF Shape, Met, Holds
    <2>3. ASSUME x \in (Items \cup Proofs) \ disturbed PROVE Begun(p, x)' /\ Left(p, x)'
        <3>1. Left(p, x)
            BY <1>1, <1>2, <2>1, <2>3, AtFlag
        <3> QED BY <1>1, <1>2, <1>4, <2>1, <3>1 DEF Left, Begun
    <2>4. Kept
        BY <1>1, <1>3, <1>4, <2>1, <2>3, FlagWrites
    <2> QED BY <1>3, <2>2, <2>4 DEF Good
<1>5. CASE Resume(p, "raise") /\ ~(There(x) /\ ActiveFlags(x) = {})
    <2>1. /\ Shape(p)' /\ Met(p) /\ pc[p] = "raise"
          /\ \/ req[p].stage = "late" /\ pc'[p] = "remind" /\ req'[p].subject = x
             \/ req[p].stage # "late" /\ pc'[p] \in {"overdue", "idle"} /\ req'[p].subject = None
        BY <1>1, <1>2, <1>5, Resumed
    <2>2. ASSUME x \in (Items \cup Proofs) \ disturbed
          PROVE  (Agree(x)' /\ ~Begun(p, x)') \/ (Begun(p, x)' /\ Left(p, x)')
        <3>1. Left(p, x)
            BY <1>1, <1>2, <2>1, <2>2, AtFlag
        <3>2. ~Unflagged(x)'
            <4>1. There(x)
                BY <2>1, <3>1 DEF There, Left, Live
            <4> QED BY <1>3, <1>5, <2>2, <4>1, Kinds DEF Unflagged
        <3>3. CASE x \in Items
            <4>1. req[p].stage = "late"
                BY <1>1, <1>2, <2>1, <3>3, Kinds DEF Shape
            <4>2. Begun(p, x)' /\ Left(p, x)'
                BY <1>2, <2>1, <3>1, <3>2, <3>3, <4>1, Kinds DEF Begun, Left
            <4> QED BY <4>2
        <3>4. CASE x \in Proofs
            <4>1. req[p].stage # "late" /\ proof[x] = "OVERDUE"
                BY <1>1, <1>2, <2>1, <3>1, <3>4, Kinds DEF Shape, Left
            <4>2. Agree(x)'
                BY <1>2, <3>2, <3>4, <4>1, Kinds DEF Agree
            <4>3. ~Begun(p, x)'
                BY <2>1, <4>1 DEF Begun
            <4> QED BY <4>2, <4>3
        <3> QED BY <2>2, <3>3, <3>4
    <2>3. Kept
        BY <1>1, <1>3, <2>1, <2>2, FlagWrites
    <2> QED BY <1>3, <2>1, <2>3 DEF Good
<1> QED BY <1>1, <1>4, <1>5 DEF FindToRaise

LEMMA CreateFlagGood ==
    ASSUME TypeInv, FlagInv, NEW p \in Requests, OnlyFlags(p), CreateFlag(p)
    PROVE  Good(p)
<1>1. PICK x : x = req[p].subject
    OBVIOUS
<1>2. PICK f \in FlagRows : /\ SubjectOf[f] = x /\ ~IsActive(f) /\ ActiveFlags(x) = {}
                            /\ Resume(p, "create")
                            /\ flag' = [flag EXCEPT ![f] = "OPEN"]
    BY <1>1 DEF CreateFlag
<1>3. FlagTypeOK /\ Shape(p) /\ UNCHANGED <<disturbed, item, reminded, proof>>
    BY DEF OnlyFlags
<1>4. /\ \A g \in FlagRows : IsActive(g)' <=> IsActive(g) \/ g = f
      /\ \A s \in Subjects : s # x => ActiveFlags(s)' = ActiveFlags(s)
      /\ f \in ActiveFlags(x)'
    BY <1>2, <1>3 DEF FlagTypeOK, IsActive, ActiveFlags
<1>5. Unique'
    <2>1. \A g \in FlagRows : IsActive(g) => SubjectOf[g] # x
        BY <1>2 DEF ActiveFlags
    <2> QED BY <1>2, <1>4, <2>1 DEF FlagInv, Unique
<1>6. /\ Shape(p)' /\ Met(p) /\ pc[p] = "create"
      /\ \/ req[p].stage = "late" /\ pc'[p] = "remind" /\ req'[p].subject = x
         \/ req[p].stage # "late" /\ pc'[p] \in {"overdue", "idle"} /\ req'[p].subject = None
    BY <1>1, <1>2, <1>3, Resumed
<1>7. ~Unflagged(x)'
    BY <1>4 DEF Unflagged
<1>8. ASSUME x \in (Items \cup Proofs) \ disturbed
      PROVE  (Agree(x)' /\ ~Begun(p, x)') \/ (Begun(p, x)' /\ Left(p, x)')
    <2>1. Left(p, x)
        BY <1>1, <1>3, <1>6, <1>8, AtFlag
    <2>3. CASE x \in Items
        <3>1. req[p].stage = "late"
            BY <1>1, <1>3, <1>6, <2>3, Kinds DEF Shape
        <3>2. Begun(p, x)' /\ Left(p, x)'
            BY <1>3, <1>6, <1>7, <2>1, <2>3, <3>1, Kinds DEF Begun, Left
        <3> QED BY <3>2
    <2>4. CASE x \in Proofs
        <3>1. req[p].stage # "late" /\ proof[x] = "OVERDUE"
            BY <1>1, <1>3, <1>6, <2>1, <2>4, Kinds DEF Shape, Left
        <3>2. Agree(x)'
            BY <1>3, <1>7, <2>4, <3>1, Kinds DEF Agree
        <3>3. ~Begun(p, x)'
            BY <1>6, <3>1 DEF Begun
        <3> QED BY <3>2, <3>3
    <2> QED BY <1>8, <2>3, <2>4
<1>9. Kept
    BY <1>1, <1>4, <1>6, <1>8, FlagWrites
<1> QED BY <1>5, <1>6, <1>9 DEF Good

LEMMA CreateRefusedGood ==
    ASSUME TypeInv, FlagInv, NEW p \in Requests, OnlyFlags(p), CreateRefused(p)
    PROVE  Good(p)
<1>1. PICK x : x = req[p].subject
    OBVIOUS
<1>2. /\ FlagTypeOK /\ Shape(p) /\ UNCHANGED <<flag, disturbed, item, reminded, proof>>
      /\ Leave(p, "create") /\ ActiveFlags(x) # {}
    BY <1>1 DEF OnlyFlags, CreateRefused
<1>3. Unique' /\ \A s : ActiveFlags(s)' = ActiveFlags(s)
    BY <1>2 DEF FlagInv, Unique, ActiveFlags, IsActive
<1>4. /\ Shape(p)' /\ Met(p) /\ pc[p] = "create" /\ pc'[p] = "idle" /\ req'[p].subject = None
    BY <1>2, LeftOff
<1>5. ASSUME x \in (Items \cup Proofs) \ disturbed PROVE Agree(x)' /\ ~Begun(p, x)'
    <2>1. Left(p, x)
        BY <1>1, <1>2, <1>4, <1>5, AtFlag
    <2>2. ~Unflagged(x)'
        BY <1>2, <1>3 DEF Unflagged
    <2>3. Agree(x)'
        BY <1>2, <1>4, <2>1, <2>2 DEF Agree, Left
    <2> QED BY <1>4, <2>3 DEF Begun
<1>6. Kept
    BY <1>1, <1>3, <1>4, <1>5, FlagWrites
<1> QED BY <1>3, <1>4, <1>6 DEF Good

LEMMA FindToClearGood ==
    ASSUME TypeInv, FlagInv, NEW p \in Requests, OnlyFlags(p),
           FindToClear(p, There(req[p].subject))
    PROVE  Good(p)
<1>1. PICK x : x = req[p].subject
    OBVIOUS
<1>2. UNCHANGED <<flag, disturbed, item, reminded, proof>> /\ FlagTypeOK /\ Shape(p)
    BY DEF FindToClear, OnlyFlags
<1>3. Unique' /\ \A s : ActiveFlags(s)' = ActiveFlags(s)
    BY <1>2 DEF FlagInv, Unique, ActiveFlags, IsActive
<1>4. ASSUME NEW f \in ActiveFlags(x), Goto(p, "clear", "clearing"),
             req' = [req EXCEPT ![p].flag = f]
      PROVE  Good(p)
    <2>1. pc[p] = "clear" /\ pc'[p] = "clearing"
        BY <1>2, <1>4 DEF Goto, FlagTypeOK
    <2>2. /\ req'[p].subject = x /\ req'[p].rest = req[p].rest /\ req'[p].stage = req[p].stage
          /\ req'[p].flag = f /\ f \in FlagRows /\ SubjectOf[f] = x
        BY <1>1, <1>2, <1>4 DEF FlagTypeOK, Request, ActiveFlags
    <2>3. Shape(p)' /\ Met(p)
        BY <1>1, <1>2, <2>1, <2>2 DEF Shape, Met, Holds
    <2>4. ASSUME x \in (Items \cup Proofs) \ disturbed PROVE Begun(p, x)' /\ Left(p, x)'
        <3>1. Left(p, x)
            BY <1>1, <1>2, <2>1, <2>4, AtFlag
        <3>2. ActiveFlags(x)' \subseteq {f}
            BY <1>3, <1>4 DEF FlagInv, Unique, ActiveFlags
        <3> QED BY <1>2, <2>1, <2>2, <3>1, <3>2 DEF Left, Begun
    <2>5. Kept
        BY <1>1, <1>3, <2>1, <2>2, <2>4, FlagWrites
    <2> QED BY <1>3, <2>3, <2>5 DEF Good
<1>5. CASE Resume(p, "clear") /\ ~(There(x) /\ ActiveFlags(x) # {})
    <2>1. /\ Shape(p)' /\ Met(p) /\ pc[p] = "clear"
          /\ \/ req[p].stage = "late" /\ pc'[p] = "remind" /\ req'[p].subject = x
             \/ req[p].stage # "late" /\ pc'[p] \in {"overdue", "idle"} /\ req'[p].subject = None
        BY <1>1, <1>2, <1>5, Resumed
    <2>2. pc'[p] \in {"overdue", "idle"} /\ req'[p].subject = None
        BY <1>2, <2>1 DEF Shape
    <2>3. ASSUME x \in (Items \cup Proofs) \ disturbed PROVE Agree(x)' /\ ~Begun(p, x)'
        <3>1. Left(p, x)
            BY <1>1, <1>2, <2>1, <2>3, AtFlag
        <3>2. There(x)
            BY <2>1, <3>1 DEF There, Left, Live, EndsLateness
        <3>3. Unflagged(x)'
            BY <1>3, <1>5, <3>2 DEF Unflagged
        <3>4. Agree(x)'
            BY <1>2, <2>1, <3>1, <3>3 DEF Agree, Left, EndsLateness
        <3> QED BY <2>2, <3>4 DEF Begun
    <2>4. Kept
        BY <1>1, <1>3, <2>1, <2>2, <2>3, FlagWrites
    <2> QED BY <1>3, <2>1, <2>4 DEF Good
<1> QED BY <1>1, <1>4, <1>5 DEF FindToClear

LEMMA WriteClearedGood ==
    ASSUME TypeInv, FlagInv, NEW p \in Requests, OnlyFlags(p), WriteCleared(p)
    PROVE  Good(p)
<1>1. PICK x, f : x = req[p].subject /\ f = req[p].flag
    OBVIOUS
<1>2. /\ FlagTypeOK /\ Shape(p) /\ UNCHANGED <<disturbed, item, reminded, proof>>
      /\ Resume(p, "clearing") /\ flag' = [flag EXCEPT ![f] = "CLEARED"]
    BY <1>1 DEF OnlyFlags, WriteCleared
<1>3. /\ Shape(p)' /\ Met(p) /\ pc[p] = "clearing"
      /\ \/ req[p].stage = "late" /\ pc'[p] = "remind" /\ req'[p].subject = x
         \/ req[p].stage # "late" /\ pc'[p] \in {"overdue", "idle"} /\ req'[p].subject = None
    BY <1>1, <1>2, Resumed
<1>4. pc'[p] \in {"overdue", "idle"} /\ req'[p].subject = None /\ f \in FlagRows /\ SubjectOf[f] = x
    BY <1>1, <1>2, <1>3 DEF Shape
<1>5. /\ \A g \in FlagRows : IsActive(g)' <=> IsActive(g) /\ g # f
      /\ \A s : s # x => ActiveFlags(s)' = ActiveFlags(s)
      /\ ActiveFlags(x)' = ActiveFlags(x) \ {f}
    BY <1>2, <1>4 DEF FlagTypeOK, IsActive, ActiveFlags
<1>6. Unique'
    BY <1>5 DEF FlagInv, Unique
<1>7. ASSUME x \in (Items \cup Proofs) \ disturbed PROVE Agree(x)' /\ ~Begun(p, x)'
    <2>1. Left(p, x)
        BY <1>1, <1>2, <1>3, <1>7, AtFlag
    <2>2. Unflagged(x)'
        BY <1>1, <1>3, <1>5, <2>1 DEF Unflagged, Left
    <2>3. Agree(x)'
        BY <1>2, <1>3, <2>1, <2>2 DEF Agree, Left, EndsLateness
    <2> QED BY <1>4, <2>3 DEF Begun
<1>8. Kept
    BY <1>1, <1>3, <1>4, <1>5, <1>7, FlagWrites
<1> QED BY <1>3, <1>6, <1>8 DEF Good

LEMMA FlagGood ==
    ASSUME TypeInv, FlagInv, NEW p \in Requests, FlagStep(p)
    PROVE  Good(p)
<1>1. OnlyFlags(p)
    <2>1. FlagTypeOK /\ Others(p) /\ Shape(p) /\ Moving /\ UNCHANGED <<item, reminded, proof>>
        BY FlagMoves DEF Moved, FlagStep, register, proofs, TypeInv, ObligationTypeOK, FlagInv
    <2>2. UNCHANGED disturbed
        BY DEF FlagStep, FindToRaise, CreateFlag, CreateRefused, FindToClear, WriteCleared
    <2> QED BY <2>1, <2>2 DEF OnlyFlags
<1> QED BY <1>1, FindToRaiseGood, CreateFlagGood, CreateRefusedGood, FindToClearGood,
           WriteClearedGood DEF FlagStep

-----------------------------------------------------------------------------
(* Proof requests, the daily run, and what happens around them *)

\* A step of a request for proof that only moves on.
LEMMA ProofPlain ==
    ASSUME TypeInv, FlagInv, NEW p \in Requests, Others(p),
           UNCHANGED <<flag, item, reminded, proof>>, disturbed \subseteq disturbed',
           pc[p] \notin {"trail", "clear", "clearing", "raise", "create", "remind"},
           pc'[p] \notin {"transition", "trail", "clear", "clearing", "raise", "create", "remind"}
    PROVE  Kept /\ Unique'
<1>1. \A s \in Items \cup Proofs : ~Begun(p, s) /\ Passive(p, s)
    BY DEF Begun, Passive
<1> QED BY <1>1, Plain

LEMMA ProofTakes ==
    ASSUME TypeInv, FlagInv, NEW p \in Requests, Others(p),
           UNCHANGED <<flag, item, reminded, proof>>,
           NEW to \in {"mint", "use", "decide"}, NEW r \in Request, Take(p, "idle", to, r),
           r.subject \in Proofs, r.rest = {}, r.stage = "request"
    PROVE  Good(p)
<1>0. to \in Steps /\ FlagTypeOK
    BY DEF Steps, TypeInv, ObligationTypeOK
<1>1. /\ pc[p] = "idle" /\ pc'[p] = to /\ req'[p] = r /\ Met(p) /\ disturbed \subseteq disturbed'
    BY <1>0, Taken
<1>2. Shape(p)'
    BY <1>1 DEF Shape
<1> QED BY <1>1, <1>2, ProofPlain DEF Good

LEMMA ProofGoes ==
    ASSUME TypeInv, FlagInv, NEW p \in Requests, Others(p),
           UNCHANGED <<flag, item, reminded, proof, req, disturbed>>,
           pc[p] \in {"mint", "use", "upload"}, pc'[p] \in {"sent", "upload", "submit"}
    PROVE  Good(p)
<1>1. Shape(p)
    BY DEF FlagInv
<1>2. Shape(p)' /\ Met(p)
    BY <1>1 DEF Shape, Met, Holds
<1> QED BY <1>2, ProofPlain DEF Good

\* A status of the request in hand is written, after which it agrees or is begun.
LEMMA ProofWrites ==
    ASSUME TypeInv, FlagInv, NEW p \in Requests, Others(p), NEW r \in Proofs, NEW st,
           UNCHANGED <<flag, item, reminded, disturbed>>, proof' = [proof EXCEPT ![r] = st],
           r \in Holds(p), pc'[p] # "transition",
           \A s \in (Items \cup Proofs) \ {r} : ~Begun(p, s) /\ Passive(p, s),
           Agree(r)' \/ Begun(p, r)', Begun(p, r)' => Left(p, r)'
    PROVE  Kept /\ Unique'
<1>1. \A s \in Items \cup Proofs : s # r => Steady(s) /\ ~Begun(p, s) /\ Passive(p, s)
    BY DEF Steady, ActiveFlags, IsActive, TypeInv, ObligationTypeOK, ProofTypeOK
<1>2. r \notin Items
    BY Kinds
<1>3. Kept
    BY <1>1, <1>2, Writes
<1> QED BY <1>3 DEF FlagInv, Unique, IsActive

LEMMA ProofGood ==
    ASSUME TypeInv, FlagInv, NEW p \in Requests, ProofStep(p)
    PROVE  Good(p)
<1>0. /\ FlagTypeOK /\ Others(p) /\ Shape(p) /\ UNCHANGED <<item, reminded>>
      /\ proof \in [Proofs -> ProofStatuses] /\ RequestOf \in [Links -> Proofs] /\ Links = Held
    BY ProofMoves, ProofAssumption
       DEF Moved, ProofStep, register, TypeInv, ObligationTypeOK, ProofTypeOK, FlagInv
<1>n. NoRequest \in Request
    BY NoRequestTyped
<1>1. ASSUME NEW r \in Proofs, AskSend(p, r) PROVE Good(p)
    <2> DEFINE x == [NoRequest EXCEPT !.subject = r]
    <2>1. x \in Request /\ x.subject = r /\ x.rest = {} /\ x.stage = "request"
        BY <1>n, Kinds DEF Request, NoRequest
    <2>2. Take(p, "idle", "mint", x) /\ UNCHANGED <<flag, proof>>
        BY <1>1 DEF AskSend, proofs
    <2> HIDE DEF x
    <2> QED BY <1>0, <2>1, <2>2, ProofTakes
<1>2. CASE MintProofLink(p)
    <2>1. Goto(p, "mint", "sent") /\ UNCHANGED <<flag, proof, req, disturbed>>
        BY <1>2 DEF MintProofLink
    <2> QED BY <1>0, <2>1, ProofGoes, Going DEF Steps
<1>3. CASE WriteSent(p)
    <2>1. PICK r : r = req[p].subject
        OBVIOUS
    <2>2. /\ Leave(p, "sent") /\ proof' = [proof EXCEPT ![r] = "SENT"]
          /\ UNCHANGED <<flag, disturbed>>
        BY <1>3, <2>1 DEF WriteSent
    <2>3. /\ Shape(p)' /\ Met(p) /\ pc[p] = "sent" /\ pc'[p] = "idle"
          /\ \A s \in Items \cup Proofs : Passive(p, s) /\ ~Begun(p, s)'
        BY <1>0, <2>2, LeftOff
    <2>4. r \in Proofs /\ r \in Holds(p)
        BY <1>0, <2>1, <2>3, HoldsIt DEF Shape
    <2>5. Agree(r)'
        BY <1>0, <2>2, <2>4, Kinds DEF Agree
    <2>6. Kept /\ Unique'
        BY <1>0, <2>2, <2>3, <2>4, <2>5, ProofWrites DEF Begun
    <2> QED BY <2>3, <2>6 DEF Good
<1>4. ASSUME NEW l \in Links, PresentProof(p, l) PROVE Good(p)
    <2> DEFINE x == [NoRequest EXCEPT !.subject = RequestOf[l], !.link = l]
    <2>1. x \in Request /\ x.subject = RequestOf[l] /\ x.rest = {} /\ x.stage = "request"
        <3>1. RequestOf[l] \in Subjects /\ l \in Held
            BY <1>0, Kinds
        <3>2. x \in Request
            BY <1>n, <3>1 DEF Request
        <3> QED BY <3>2 DEF NoRequest
    <2>2. Take(p, "idle", "use", x) /\ UNCHANGED <<flag, proof>> /\ RequestOf[l] \in Proofs
        BY <1>0, <1>4 DEF PresentProof, proofs
    <2> HIDE DEF x
    <2> QED BY <1>0, <2>1, <2>2, ProofTakes
<1>5. CASE UseLink(p)
    <2>1. Goto(p, "use", "upload") /\ UNCHANGED <<flag, proof, req, disturbed>>
        BY <1>5 DEF UseLink
    <2> QED BY <1>0, <2>1, ProofGoes, Going DEF Steps
<1>6. CASE LinkRefused(p)
    <2>1. Leave(p, "use") /\ UNCHANGED <<flag, proof, disturbed>>
        BY <1>6 DEF LinkRefused, proofs
    <2>2. Shape(p)' /\ Met(p) /\ pc[p] = "use" /\ pc'[p] = "idle"
        BY <1>0, <2>1, LeftOff
    <2> QED BY <1>0, <2>1, <2>2, ProofPlain DEF Good
<1>7. CASE RecordUpload(p)
    <2>1. Goto(p, "upload", "submit") /\ UNCHANGED <<flag, proof, req, disturbed>>
        BY <1>7 DEF RecordUpload
    <2> QED BY <1>0, <2>1, ProofGoes, Going DEF Steps
<1>8. CASE Submit(p)
    <2>1. PICK r : r = req[p].subject
        OBVIOUS
    <2>2. /\ Goto(p, "submit", "clear") /\ proof' = [proof EXCEPT ![r] = "SUBMITTED"]
          /\ UNCHANGED <<flag, disturbed, req>>
        BY <1>8, <2>1 DEF Submit
    <2>3. pc[p] = "submit" /\ pc'[p] = "clear"
        BY <1>0, <2>2 DEF Goto, FlagTypeOK
    <2>4. r \in Proofs /\ r \in Holds(p)
        BY <1>0, <2>1, <2>3, HoldsIt DEF Shape
    <2>5. Shape(p)' /\ Met(p)
        BY <1>0, <2>2, <2>3, <2>4 DEF Shape, Met, Holds
    <2>6. Begun(p, r)' /\ Left(p, r)'
        BY <1>0, <2>1, <2>2, <2>3, <2>4, Kinds DEF Begun, Left
    <2>7. \A s \in (Items \cup Proofs) \ {r} : ~Begun(p, s) /\ Passive(p, s)
        BY <2>1, <2>2, <2>3 DEF Begun, Passive
    <2>8. Kept /\ Unique'
        BY <1>0, <2>2, <2>3, <2>4, <2>6, <2>7, ProofWrites
    <2> QED BY <2>5, <2>8 DEF Good
<1>9. ASSUME NEW r \in Proofs, NEW d \in {"APPROVED", "REJECTED"}, AskDecide(p, r, d) PROVE Good(p)
    <2> DEFINE x == [NoRequest EXCEPT !.subject = r, !.to = d]
    <2>1. x \in Request /\ x.subject = r /\ x.rest = {} /\ x.stage = "request"
        <3>1. r \in Subjects /\ d \in Targets
            BY Kinds DEF Targets
        <3>2. x \in Request
            BY <1>n, <3>1 DEF Request
        <3> QED BY <3>2 DEF NoRequest
    <2>2. Take(p, "idle", "decide", x) /\ UNCHANGED <<flag, proof>>
        BY <1>9 DEF AskDecide, proofs
    <2> HIDE DEF x
    <2> QED BY <1>0, <2>1, <2>2, ProofTakes
<1>10. CASE WriteDecision(p)
    <2>1. PICK r, st : r = req[p].subject /\ st = IF req[p].to = "APPROVED" THEN "APPROVED" ELSE "OPEN"
        OBVIOUS
    <2>2. /\ Leave(p, "decide") /\ proof' = [proof EXCEPT ![r] = st]
          /\ UNCHANGED <<flag, disturbed>>
        BY <1>10, <2>1 DEF WriteDecision
    <2>3. /\ Shape(p)' /\ Met(p) /\ pc[p] = "decide" /\ pc'[p] = "idle"
          /\ \A s \in Items \cup Proofs : Passive(p, s) /\ ~Begun(p, s)'
        BY <1>0, <2>2, LeftOff
    <2>4. r \in Proofs /\ r \in Holds(p) /\ st \notin {"OVERDUE", "SUBMITTED"}
        BY <1>0, <2>1, <2>3, HoldsIt DEF Shape
    <2>5. Agree(r)'
        BY <1>0, <2>2, <2>4, Kinds DEF Agree
    <2>6. Kept /\ Unique'
        BY <1>0, <2>2, <2>3, <2>4, <2>5, ProofWrites DEF Begun
    <2> QED BY <2>3, <2>6 DEF Good
<1> QED BY <1>1, <1>2, <1>3, <1>4, <1>5, <1>6, <1>7, <1>8, <1>9, <1>10 DEF ProofStep

\* The daily run begins with the next of its list.
LEMMA NextShape ==
    ASSUME FlagInv, FlagTypeOK, NEW j \in Requests, NEW s \in req[j].rest,
           pc[j] \in {"late", "overdue"}, pc'[j] = "raise", UNCHANGED disturbed,
           req' = [req EXCEPT ![j].subject = s, ![j].rest = @ \ {s}]
    PROVE  /\ Shape(j)' /\ Met(j) /\ s \in Holds(j)
           /\ req'[j].subject = s
           /\ s \in IF pc[j] = "late" THEN Items ELSE Proofs
<1>1. PICK r, rest : r = [req[j] EXCEPT !.subject = s, !.rest = @ \ {s}] /\ rest = req[j].rest
    OBVIOUS
<1>2. req[j] \in Request /\ req \in [Requests -> Request]
    BY DEF FlagTypeOK
<1>3. r.subject = s /\ r.rest = rest \ {s} /\ r.stage = req[j].stage
    BY <1>1, <1>2 DEF Request
<1>4. req' = [req EXCEPT ![j] = r]
    BY <1>1, <1>2
<1>5. req'[j] = r
    BY <1>2, <1>4
<1>6. /\ pc[j] = "late" => req[j].stage = "late" /\ rest \subseteq Items
      /\ pc[j] = "overdue" => req[j].stage = "overdue" /\ rest \subseteq Proofs
    BY <1>1 DEF FlagInv, Shape
<1>7. s \in rest
    BY <1>1
<1>8. Shape(j)'
    BY <1>3, <1>5, <1>6, <1>7 DEF Shape
<1>9. s \in Holds(j)
    BY <1>1, <1>6, <1>7, HoldsIt
<1>10. Met(j)
    BY <1>1, <1>3, <1>5, <1>7 DEF Met, Holds
<1> QED BY <1>3, <1>5, <1>6, <1>7, <1>8, <1>9, <1>10

LEMMA DailyGood ==
    ASSUME TypeInv, FlagInv, NEW j \in Requests, DailyStep(j)
    PROVE  Good(j)
<1>0. /\ FlagTypeOK /\ Others(j) /\ Shape(j)
      /\ item \in [Items -> PaymentStatuses \cup {"absent", "deleted"}]
      /\ proof \in [Proofs -> ProofStatuses] /\ reminded \in [Items -> Nat]
    BY DailyMoves
       DEF Moved, TypeInv, ObligationTypeOK, PaymentTypeOK, ProofTypeOK, FlagInv
<1>n. NoRequest \in Request
    BY NoRequestTyped
<1>1. CASE ListLate(j) /\ UNCHANGED proofs
    <2> DEFINE x == [NoRequest EXCEPT !.stage = "late", !.rest = due \cap ToMark]
    <2>1. x \in Request /\ x.subject = None /\ x.rest \subseteq Items /\ x.stage = "late"
        <3>1. (due \cap ToMark) \subseteq Items /\ (due \cap ToMark) \subseteq Subjects
            BY Kinds DEF ToMark
        <3>2. x \in Request
            BY <1>n, <3>1 DEF Request, Stages
        <3> QED BY <3>1, <3>2 DEF NoRequest
    <2>2. Take(j, "idle", "late", x) /\ UNCHANGED <<flag, item, reminded, proof>>
        BY <1>1 DEF ListLate, register, proofs
    <2> HIDE DEF x
    <2>3. /\ pc[j] = "idle" /\ pc'[j] = "late" /\ req'[j] = x /\ Met(j)
          /\ disturbed \subseteq disturbed'
        BY <1>0, <2>1, <2>2, Taken DEF Steps
    <2>4. Shape(j)'
        BY <2>1, <2>3, Kinds DEF Shape
    <2> QED BY <1>0, <2>2, <2>3, <2>4, ProofPlain DEF Good
<1>2. CASE MarkLate(j) /\ UNCHANGED proofs
    <2>1. PICK i \in req[j].rest :
              /\ Goto(j, "late", "raise")
              /\ item' = [item EXCEPT ![i] = "LATE"]
              /\ req' = [req EXCEPT ![j].subject = i, ![j].rest = @ \ {i}]
              /\ UNCHANGED <<flag, disturbed, reminded, proof>>
        BY <1>2 DEF MarkLate, proofs
    <2>2. pc[j] = "late" /\ pc'[j] = "raise"
        BY <1>0, <2>1 DEF Goto, FlagTypeOK
    <2>3. Shape(j)' /\ Met(j) /\ i \in Holds(j) /\ req'[j].subject = i /\ i \in Items
        BY <1>0, <2>1, <2>2, NextShape
    <2>4. \A s \in Items \cup Proofs : s # i => Steady(s) /\ ~Begun(j, s) /\ Passive(j, s)
        BY <1>0, <2>1, <2>2, <2>3 DEF Steady, Begun, Passive, ActiveFlags, IsActive
    <2>5. item'[i] = "LATE"
        BY <1>0, <2>1, <2>3
    <2>6. Begun(j, i)' /\ Left(j, i)'
        BY <2>2, <2>3, <2>5, Kinds DEF Begun, Left
    <2>7. Kept
        BY <1>0, <2>1, <2>2, <2>3, <2>4, <2>5, <2>6, Writes
    <2>8. Unique'
        BY <2>1 DEF FlagInv, Unique, IsActive
    <2> QED BY <2>3, <2>7, <2>8 DEF Good
<1>3. CASE MarkMissing(j) /\ UNCHANGED proofs
    <2>1. Leave(j, "late") /\ UNCHANGED <<flag, disturbed, item, reminded, proof>>
        BY <1>3 DEF MarkMissing, register, proofs
    <2>2. Shape(j)' /\ Met(j) /\ pc[j] = "late" /\ pc'[j] = "idle"
        BY <1>0, <2>1, LeftOff
    <2> QED BY <1>0, <2>1, <2>2, ProofPlain DEF Good
<1>4. CASE Remind(j) /\ UNCHANGED proofs
    <2>1. PICK i, x : i = req[j].subject /\ x = [req[j] EXCEPT !.subject = None]
        OBVIOUS
    <2>2. /\ Goto(j, "remind", "late") /\ req' = [req EXCEPT ![j] = x]
          /\ reminded' = [reminded EXCEPT ![i] = @ + 1]
          /\ UNCHANGED <<flag, disturbed, item, proof>>
        BY <1>4, <2>1 DEF Remind, proofs
    <2>3. pc[j] = "remind" /\ pc'[j] = "late" /\ req'[j] = x
        BY <1>0, <2>2 DEF Goto, FlagTypeOK
    <2>4. /\ x.subject = None /\ x.rest = req[j].rest /\ x.stage = "late"
          /\ i \in Items /\ req[j].rest \subseteq Items
        BY <1>0, <2>1, <2>3 DEF FlagTypeOK, Request, Shape
    <2>h. disturbed' = disturbed /\ Holds(j)' \subseteq Holds(j)
        BY <2>2, <2>3, <2>4, Kinds DEF Holds
    <2>s. Shape(j)'
        BY <2>3, <2>4, Kinds DEF Shape
    <2>5. Shape(j)' /\ Met(j)
        BY <2>h, <2>s DEF Met
    <2>6. \A s \in Items \cup Proofs : s # i => Steady(s) /\ ~Begun(j, s) /\ Passive(j, s)
        BY <1>0, <2>1, <2>2, <2>3, <2>4 DEF Steady, Begun, Passive, ActiveFlags, IsActive
    <2>7. ASSUME i \in (Items \cup Proofs) \ disturbed'
          PROVE  /\ i \in Holds(j) /\ item'[i] = "LATE" /\ Agree(i)' /\ ~Begun(j, i)'
        <3>1. i \in Holds(j) /\ i \notin disturbed
            BY <2>1, <2>2, <2>7, HoldsIt
        <3>2. Left(j, i)
            BY <2>1, <2>3, <2>7, <3>1, Known DEF Begun
        <3>3. item'[i] = "LATE" /\ ~Unflagged(i)'
            BY <2>2, <2>3, <2>4, <3>2 DEF Left, Unflagged, ActiveFlags, IsActive
        <3>4. Agree(i)'
            BY <2>4, <3>3, Kinds DEF Agree
        <3> QED BY <2>3, <3>1, <3>3, <3>4 DEF Begun
    <2>8. Kept
        BY <1>0, <2>2, <2>3, <2>6, <2>7, Writes
    <2>9. Unique'
        BY <2>2 DEF FlagInv, Unique, IsActive
    <2> QED BY <2>5, <2>8, <2>9 DEF Good
<1>5. CASE ListOverdue(j)
    <2> DEFINE x == [NoRequest EXCEPT !.stage = "overdue", !.rest = Overdue]
    <2>1. x \in Request /\ x.subject = None /\ x.rest \subseteq Proofs /\ x.stage = "overdue"
        <3>1. Overdue \subseteq Proofs /\ Overdue \subseteq Subjects
            BY Kinds DEF Overdue
        <3>2. x \in Request
            BY <1>n, <3>1 DEF Request, Stages
        <3> QED BY <3>1, <3>2 DEF NoRequest
    <2>2. Take(j, "late", "overdue", x) /\ UNCHANGED <<flag, item, reminded, proof>>
        BY <1>5 DEF ListOverdue, register, proofs
    <2> HIDE DEF x
    <2>3. /\ pc[j] = "late" /\ pc'[j] = "overdue" /\ req'[j] = x /\ Met(j)
          /\ disturbed \subseteq disturbed'
        BY <1>0, <2>1, <2>2, Taken DEF Steps
    <2>4. Shape(j)'
        BY <2>1, <2>3, Kinds DEF Shape
    <2> QED BY <1>0, <2>2, <2>3, <2>4, ProofPlain DEF Good
<1>6. CASE MarkOverdue(j) /\ UNCHANGED register
    <2>1. PICK r \in req[j].rest :
              /\ Goto(j, "overdue", "raise")
              /\ proof' = [proof EXCEPT ![r] = "OVERDUE"]
              /\ req' = [req EXCEPT ![j].subject = r, ![j].rest = @ \ {r}]
              /\ UNCHANGED <<flag, disturbed, item, reminded>>
        BY <1>6 DEF MarkOverdue, register
    <2>2. pc[j] = "overdue" /\ pc'[j] = "raise"
        BY <1>0, <2>1 DEF Goto, FlagTypeOK
    <2>3. Shape(j)' /\ Met(j) /\ r \in Holds(j) /\ req'[j].subject = r /\ r \in Proofs
        BY <1>0, <2>1, <2>2, NextShape
    <2>4. proof'[r] = "OVERDUE"
        BY <1>0, <2>1, <2>3
    <2>5. Begun(j, r)' /\ Left(j, r)'
        BY <2>2, <2>3, <2>4, Kinds DEF Begun, Left
    <2>6. \A s \in (Items \cup Proofs) \ {r} : ~Begun(j, s) /\ Passive(j, s)
        BY <2>2, <2>3 DEF Begun, Passive
    <2>7. Kept /\ Unique'
        BY <1>0, <2>1, <2>2, <2>3, <2>5, <2>6, ProofWrites
    <2> QED BY <2>3, <2>7 DEF Good
<1>7. CASE Compare(j)
    <2> DEFINE x == [NoRequest EXCEPT !.stage = "evaluate", !.subject = Tenancy]
    <2>1. x \in Request /\ x.subject = Tenancy /\ x.rest = {} /\ x.stage = "evaluate"
        <3>1. x \in Request
            BY <1>n, Kinds DEF Request, Stages
        <3> QED BY <3>1 DEF NoRequest
    <2>2. UNCHANGED <<flag, item, reminded, proof>>
        BY <1>7 DEF Compare, register, proofs
    <2>3. \/ Leave(j, "overdue") /\ UNCHANGED <<disturbed, deaths>>
          \/ \E to \in {"raise", "clear"} : Take(j, "overdue", to, x)
        BY <1>7 DEF Compare, Judge
    <2> HIDE DEF x
    <2>4. CASE Leave(j, "overdue") /\ UNCHANGED <<disturbed, deaths>>
        <3>1. Shape(j)' /\ Met(j) /\ pc[j] = "overdue" /\ pc'[j] = "idle"
            BY <1>0, <2>4, LeftOff
        <3> QED BY <1>0, <2>2, <2>4, <3>1, ProofPlain DEF Good
    <2>5. ASSUME NEW to \in {"raise", "clear"}, Take(j, "overdue", to, x) PROVE Good(j)
        <3>1. to \in Steps
            BY DEF Steps
        <3>2. /\ pc[j] = "overdue" /\ pc'[j] = to /\ req'[j] = x /\ Met(j)
              /\ disturbed \subseteq disturbed'
            BY <1>0, <2>1, <2>5, <3>1, Taken
        <3>3. Shape(j)'
            BY <2>1, <3>2, Kinds DEF Shape
        <3>4. \A s \in Items \cup Proofs : ~Begun(j, s) /\ Passive(j, s)
            BY <2>1, <3>2, Kinds DEF Begun, Passive
        <3>5. Kept /\ Unique'
            BY <1>0, <2>2, <3>2, <3>4, Plain
        <3> QED BY <3>2, <3>3, <3>5 DEF Good
    <2> QED BY <2>3, <2>4, <2>5
<1> QED BY <1>1, <1>2, <1>3, <1>4, <1>5, <1>6, <1>7 DEF DailyStep

LEMMA DieGood ==
    ASSUME TypeInv, FlagInv, NEW p \in Requests, Die(p), UNCHANGED <<register, proofs>>
    PROVE  Good(p)
<1>1. /\ FlagTypeOK /\ Others(p) /\ Leave(p, pc[p]) /\ disturbed' = disturbed \cup Holds(p)
      /\ UNCHANGED <<flag, item, reminded, proof>>
    BY Deaths DEF Moved, Die, register, proofs, TypeInv, ObligationTypeOK
<1>2. Shape(p)' /\ Met(p) /\ \A s \in Items \cup Proofs : Passive(p, s)
    BY <1>1, LeftOff
<1>3. ASSUME NEW s \in (Items \cup Proofs) \ disturbed' PROVE Agreeing(s)'
    <2>1. Agreeing(s) /\ s \notin Holds(p)
        BY <1>1, <1>3 DEF FlagInv
    <2>2. ~Begun(p, s)
        BY <1>3, <2>1, HoldsIt DEF Begun
    <2>3. Steady(s)
        BY <1>1 DEF Steady, ActiveFlags, IsActive
    <2> QED BY <1>1, <1>2, <1>3, <2>1, <2>2, <2>3, Steadily
<1>4. Unique'
    BY <1>1 DEF FlagInv, Unique, IsActive
<1> QED BY <1>2, <1>3, <1>4 DEF Good, Kept

\* While no request moves, a subject that is left alone agrees as before.
LEMMA Resting ==
    ASSUME NEW s \in Items \cup Proofs, Agreeing(s), Steady(s), UNCHANGED <<pc, req>>
    PROVE  Agreeing(s)'
<1>1. /\ s \in Items => item'[s] = item[s] /\ reminded'[s] = reminded[s]
      /\ s \in Proofs => proof'[s] = proof[s]
      /\ ActiveFlags(s)' = ActiveFlags(s) /\ (Unflagged(s)' <=> Unflagged(s))
    BY DEF Steady, Unflagged
<1>2. Agree(s)' <=> Agree(s)
    BY <1>1 DEF Agree
<1>3. \A q \in Requests : Begun(q, s)' <=> Begun(q, s)
    BY DEF Begun
<1>4. ASSUME NEW q \in Requests, Begun(q, s) PROVE Left(q, s)'
    <2>1. Left(q, s)
        BY <1>4 DEF Agreeing
    <2> QED BY <1>1, <2>1 DEF Left, EndsLateness
<1>5. Fresh(s)'
    BY <1>1 DEF Agreeing, Fresh, Live, Allowed
<1> QED BY <1>2, <1>3, <1>4, <1>5 DEF Agreeing

LEMMA AroundFlags ==
    ASSUME TypeInv, FlagInv, Around
    PROVE  FlagInv'
<1>1. UNCHANGED <<pc, req, item>> /\ FlagTypeOK /\ proof \in [Proofs -> ProofStatuses]
    BY AroundTyped DEF TypeInv, ObligationTypeOK, ProofTypeOK
<1>2. ASSUME disturbed \subseteq disturbed', Unique', Kept PROVE FlagInv'
    <2>1. \A p \in Requests : Shape(p)'
        BY <1>1 DEF FlagInv, Shape
    <2>2. Alone'
        BY <1>1, <1>2 DEF FlagInv, Alone, Holds
    <2> QED BY <1>2, <2>1, <2>2 DEF FlagInv, Kept
<1>3. ASSUME NEW f \in FlagRows, Acknowledge(f), UNCHANGED <<register, proofs>> PROVE FlagInv'
    <2>1. /\ flag' = [flag EXCEPT ![f] = "ACKNOWLEDGED"] /\ ActiveFlags(SubjectOf[f]) \subseteq {f}
          /\ disturbed \subseteq disturbed' /\ flag[f] \in {"OPEN", "CLEARED"}
          /\ flag[f] = "CLEARED" => SubjectOf[f] \in disturbed'
          /\ UNCHANGED <<reminded, proof>>
        BY <1>3 DEF Acknowledge, register, proofs
    <2>2. /\ \A g \in FlagRows : IsActive(g)' <=> IsActive(g) \/ g = f
          /\ \A g \in FlagRows : IsActive(g) /\ SubjectOf[g] = SubjectOf[f] => g = f
        BY <1>1, <2>1 DEF FlagTypeOK, IsActive, ActiveFlags
    <2>3. Unique'
        BY <2>2 DEF FlagInv, Unique
    <2>4. ASSUME NEW s \in (Items \cup Proofs) \ disturbed' PROVE Agreeing(s)'
        <3>1. ActiveFlags(s)' = ActiveFlags(s)
            BY <2>1, <2>2, <2>4 DEF ActiveFlags, IsActive
        <3>2. Steady(s)
            BY <1>1, <2>1, <3>1 DEF Steady
        <3>3. Agreeing(s)
            BY <2>1, <2>4 DEF FlagInv
        <3> QED BY <1>1, <3>2, <3>3, Resting
    <2> QED BY <1>2, <2>1, <2>3, <2>4 DEF Kept
<1>4. ASSUME NEW r \in Proofs, CreateProof(r), UNCHANGED register PROVE FlagInv'
    <2>1. /\ proof[r] = "absent" /\ proof' = [proof EXCEPT ![r] = "OPEN"]
          /\ UNCHANGED <<flag, disturbed, reminded>>
        BY <1>4 DEF CreateProof, register
    <2>2. Unique' /\ \A s : ActiveFlags(s)' = ActiveFlags(s)
        BY <2>1 DEF FlagInv, Unique, ActiveFlags, IsActive
    <2>3. ASSUME NEW s \in (Items \cup Proofs) \ disturbed' PROVE Agreeing(s)'
        <3>1. Agreeing(s) /\ s \notin disturbed
            BY <2>1, <2>3 DEF FlagInv
        <3>2. CASE s # r
            <4>1. Steady(s)
                BY <1>1, <2>1, <2>2, <3>2 DEF Steady
            <4> QED BY <1>1, <3>1, <4>1, Resting
        <3>3. CASE s = r
            <4>1. s \notin Items /\ proof'[s] = "OPEN"
                BY <1>1, <2>1, <3>3, Kinds
            <4>2. \A q \in Requests : ~Begun(q, s)
                BY <2>1, <2>3, <3>1, <3>3, <4>1, Unbegun
            <4>3. Agree(s)' /\ Fresh(s)'
                BY <4>1 DEF Agree, Fresh
            <4>4. \A q \in Requests : ~Begun(q, s)'
                BY <1>1, <4>2 DEF Begun
            <4> QED BY <4>3, <4>4 DEF Agreeing
        <3> QED BY <3>2, <3>3
    <2> QED BY <1>2, <2>1, <2>2, <2>3 DEF Kept
<1>5. ASSUME UNCHANGED <<flag, disturbed, reminded, proof>> PROVE FlagInv'
    <2>1. Unique' /\ \A s : ActiveFlags(s)' = ActiveFlags(s)
        BY <1>5 DEF FlagInv, Unique, ActiveFlags, IsActive
    <2>2. ASSUME NEW s \in (Items \cup Proofs) \ disturbed' PROVE Agreeing(s)'
        <3>1. Agreeing(s) /\ Steady(s)
            BY <1>1, <1>5, <2>1, <2>2 DEF FlagInv, Steady
        <3> QED BY <1>1, <3>1, Resting
    <2> QED BY <1>2, <1>5, <2>1, <2>2 DEF Kept
<1>6. ASSUME NEW l \in Links, ProofLinkEnds(l), UNCHANGED register PROVE FlagInv'
    BY <1>5, <1>6 DEF ProofLinkEnds, register
<1>7. ASSUME NEW s \in Items \cup Proofs, Elapse(s) PROVE FlagInv'
    BY <1>5, <1>7 DEF Elapse, proofs
<1>8. CASE UNCHANGED vars
    BY <1>5, <1>8 DEF vars
<1> QED BY <1>3, <1>4, <1>6, <1>7, <1>8 DEF Around

LEMMA FlagInvInit == ASSUME Init PROVE FlagInv
<1>1. \A p \in Requests : /\ pc[p] = "idle" /\ req[p].subject = None /\ req[p].rest = {}
                          /\ req[p].stage = "request"
    BY DEF Init, FlagInit, NoRequest
<1>2. \A f \in FlagRows : ~IsActive(f)
    BY DEF Init, FlagInit, IsActive
<1>3. \A p \in Requests : Shape(p) /\ Holds(p) = {}
    BY <1>1, Kinds DEF Shape, Holds
<1>4. ASSUME NEW s \in Items \cup Proofs PROVE Agreeing(s)
    <2>1. Unflagged(s)
        BY <1>2 DEF Unflagged, ActiveFlags
    <2>2. /\ s \in Items => item[s] = "absent" /\ reminded[s] = 0
          /\ s \in Proofs => proof[s] = "absent"
        BY DEF Init, PaymentInit, ProofInit
    <2> QED BY <1>1, <2>1, <2>2 DEF Agreeing, Agree, Fresh, Begun
<1> QED BY <1>2, <1>3, <1>4 DEF FlagInv, Unique, Alone

LEMMA FlagInvNext == ASSUME TypeInv, FlagInv, [Next]_vars PROVE FlagInv'
<1>1. ASSUME NEW p \in Requests, Good(p), Others(p) PROVE FlagInv'
    <2>1. \A q \in Requests : Shape(q)'
        BY <1>1 DEF Good, Others, FlagInv, Shape
    <2>2. Alone'
        BY <1>1, AloneKept DEF Good, FlagInv
    <2> QED BY <1>1, <2>1, <2>2 DEF Good, Kept, FlagInv
<1>2. ASSUME NEW p \in Requests,
             PaymentStep(p) \/ ProofStep(p) \/ DailyStep(p) \/ FlagStep(p)
      PROVE  FlagInv'
    BY <1>1, <1>2, PaymentGood, ProofGood, DailyGood, FlagGood, PaymentMoves, ProofMoves,
       DailyMoves, FlagMoves DEF Moved, TypeInv
<1>3. ASSUME NEW p \in Requests, Die(p) /\ UNCHANGED <<register, proofs>> PROVE FlagInv'
    BY <1>1, <1>3, DieGood, Deaths DEF Moved
<1>4. Around => FlagInv'
    BY AroundFlags
<1> QED BY <1>2, <1>3, <1>4, StepKinds

LEMMA AgreeFlags == ASSUME FlagInv PROVE FlagsAgree
<1>1. ASSUME NEW s \in Items \cup Proofs, Quiet(s) PROVE Agree(s)
    <2>1. s \notin disturbed /\ \A p \in Requests : s \notin Holds(p)
        BY <1>1 DEF Quiet, AtRest
    <2>2. \A p \in Requests : ~Begun(p, s)
        BY <2>1, HoldsIt DEF Begun
    <2> QED BY <2>1, <2>2 DEF FlagInv, Agreeing
<1> QED BY <1>1 DEF FlagsAgree, Agree, Unflagged

\* Late and flagged, reminded of and not received, overdue and flagged, submitted and no
\* longer flagged: a flag and its subject agree whenever nobody is at work on it and no two
\* requests ever met there, for any number of cheques, requests for proof, people and runs
\* (risk.ts, payments.ts, proofs.ts).
THEOREM FlagsFollow == Spec => []FlagsAgree
<1>1. Spec => [](TypeInv /\ FlagInv)
    BY TypeInit, TypeNext, FlagInvInit, FlagInvNext, PTL DEF Spec
<1> QED BY <1>1, AgreeFlags, PTL

=============================================================================
