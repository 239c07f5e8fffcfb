-------------------------- MODULE ApprovalProofs --------------------------
(***************************************************************************)
(* Theorems about Approvals.                                               *)
(*                                                                         *)
(* The inductive invariant adds to the types what a request at a step has  *)
(* filled in (Filled), who holds the one use of a link (Spent), which      *)
(* decisions are still to be told (Owed), and what a manager who is alone  *)
(* with an offer has already closed (Cleared).                             *)
(***************************************************************************)
EXTENDS Approvals, FiniteSetTheorems, TLAPS

Holding == {"find", "claim"}
Deciding == {"consume", "find", "claim", "decided"}

\* What a request has in hand at each step.
Filled ==
    \A p \in Requests :
        /\ pc[p] = "idle" <=> req[p].offer = None
        /\ pc[p] \in Deciding => req[p].link \in Links /\ req[p].decision \in Decisions
        /\ pc[p] \in {"mint", "asked", "claim", "decided"} => req[p].approval \in ApprovalIds

-----------------------------------------------------------------------------
(* Types *)

LEMMA NoRequestTyped == NoRequest \in Request
BY DEF NoRequest, Request

\* Requests move by Goto and end by Leave.
LEMMA Moving ==
    ASSUME ApprovalTypeOK, NEW p \in Requests, NEW from \in Steps, NEW to \in Steps, Goto(p, from, to)
    PROVE  pc' \in [Requests -> Steps]
BY DEF ApprovalTypeOK, Goto

LEMMA Leaving ==
    ASSUME ApprovalTypeOK, NEW p \in Requests, NEW from \in Steps, Leave(p, from)
    PROVE  pc' \in [Requests -> Steps] /\ req' \in [Requests -> Request]
BY NoRequestTyped DEF ApprovalTypeOK, Goto, Leave, Steps

LEMMA Noting ==
    ASSUME ApprovalTypeOK, NEW a \in ApprovalIds, NEW kind \in Kinds, Note(a, kind)
    PROVE  log' \in [ApprovalIds -> [Kinds -> Nat]]
BY DEF ApprovalTypeOK, Note

LEMMA LinkMoves ==
    ASSUME LinkTypeOK
    PROVE  /\ \A l \in Links : Mint(l) \/ Consume(l) => LinkTypeOK'
           /\ \A S : End(S) => LinkTypeOK'
<1>1. ASSUME NEW S, End(S) PROVE LinkTypeOK'
    BY <1>1 DEF LinkTypeOK, Link, End
<1>2. ASSUME NEW l \in Links, Mint(l) PROVE LinkTypeOK'
    BY <1>2 DEF LinkTypeOK, Link, Mint
<1>3. ASSUME NEW l \in Links, Consume(l) PROVE LinkTypeOK'
    BY <1>3 DEF LinkTypeOK, Link, Consume
<1> QED BY <1>1, <1>2, <1>3

\* A request notes the approval it has made or found.
LEMMA Naming ==
    ASSUME ApprovalTypeOK, NEW p \in Requests, NEW a \in ApprovalIds,
           req' = [req EXCEPT ![p].approval = a]
    PROVE  /\ req' \in [Requests -> Request]
           /\ \A q \in Requests \ {p} : req'[q] = req[q]
           /\ req'[p].offer = req[p].offer /\ req'[p].link = req[p].link
           /\ req'[p].decision = req[p].decision /\ req'[p].approval = a
<1> DEFINE r == [req[p] EXCEPT !.approval = a]
<1>1. req[p] \in Request
    BY DEF ApprovalTypeOK
<1>2. /\ r \in Request
      /\ r.offer = req[p].offer /\ r.link = req[p].link
      /\ r.decision = req[p].decision /\ r.approval = a
    BY <1>1 DEF Request
<1>3. req' = [req EXCEPT ![p] = r]
    OBVIOUS
<1> HIDE DEF r
<1> QED BY <1>2, <1>3 DEF ApprovalTypeOK

\* An approval changes its status.
LEMMA Restating ==
    ASSUME ApprovalTypeOK, NEW a \in ApprovalIds, NEW s \in Statuses,
           approval' = [approval EXCEPT ![a].status = s]
    PROVE  /\ approval' \in [ApprovalIds -> [status : Statuses, rank : Nat]]
           /\ \A b \in ApprovalIds \ {a} : approval'[b] = approval[b]
           /\ approval'[a].status = s
<1> DEFINE r == [approval[a] EXCEPT !.status = s]
<1>1. approval[a] \in [status : Statuses, rank : Nat]
    BY DEF ApprovalTypeOK
<1>2. r \in [status : Statuses, rank : Nat] /\ r.status = s
    BY <1>1
<1>3. approval' = [approval EXCEPT ![a] = r]
    OBVIOUS
<1> HIDE DEF r
<1> QED BY <1>2, <1>3 DEF ApprovalTypeOK

LEMMA CreatedIsNat == Created \in Nat
BY ApprovalAssumption, FS_CardinalityType, FS_Subset DEF Created, ApprovalAssumption

LEMMA TypeStep == ApprovalTypeOK /\ Filled /\ [Next]_vars => (ApprovalTypeOK /\ Filled)'
<1> SUFFICES ASSUME ApprovalTypeOK, Filled, [Next]_vars PROVE (ApprovalTypeOK /\ Filled)'
    OBVIOUS
<1> USE ApprovalAssumption DEF Steps, Deciding, Holding
<1>1. CASE UNCHANGED vars
    BY <1>1 DEF vars, ApprovalTypeOK, LinkTypeOK, Filled
<1>2. ASSUME NEW o \in Offers, Supersede(o) PROVE (ApprovalTypeOK /\ Filled)'
    BY <1>2 DEF Supersede, history, ApprovalTypeOK, LinkTypeOK, Filled
<1>3. ASSUME NEW l \in Links, LinkEnds(l) PROVE (ApprovalTypeOK /\ Filled)'
    BY <1>3, LinkMoves DEF LinkEnds, history, ApprovalTypeOK, Filled
<1>4. ASSUME NEW p \in Requests, Fail(p) PROVE (ApprovalTypeOK /\ Filled)'
  <2>1. pc[p] \in Steps
      BY DEF ApprovalTypeOK
  <2>2. pc' \in [Requests -> Steps] /\ req' \in [Requests -> Request]
      BY <1>4, <2>1, Leaving DEF Fail
  <2>3. ApprovalTypeOK'
      BY <1>4, <2>2 DEF Fail, ApprovalTypeOK, LinkTypeOK
  <2>4. Filled'
      BY <1>4, <2>2 DEF Fail, Leave, Goto, Filled, NoRequest, ApprovalTypeOK
  <2> QED BY <2>3, <2>4
<1>5. ASSUME NEW p \in Askers, AskStep(p) PROVE (ApprovalTypeOK /\ Filled)'
  <2> p \in Requests
      BY DEF Requests
  <2>1. ASSUME NEW o \in Offers, Ask(p, o) PROVE (ApprovalTypeOK /\ Filled)'
      BY <2>1 DEF Ask, Goto, ApprovalTypeOK, LinkTypeOK, Filled, Request, NoRequest
  <2>2. CASE Close(p)
      BY <2>2 DEF Close, Goto, ToClose, ApprovalTypeOK, LinkTypeOK, Filled, Statuses, history
  <2>3. CASE RevokeOld(p)
      BY <2>3, LinkMoves DEF RevokeOld, Goto, ApprovalTypeOK, Filled, history
  <2>4. CASE CreateApproval(p)
    <3>1. PICK a \in ApprovalIds :
             /\ Goto(p, "create", "mint")
             /\ approval' = [approval EXCEPT ![a] = [status |-> "open", rank |-> Created + 1]]
             /\ req' = [req EXCEPT ![p].approval = a]
             /\ UNCHANGED <<link, signable, log, history>>
        BY <2>4 DEF CreateApproval
    <3>2. /\ req' \in [Requests -> Request]
          /\ \A q \in Requests \ {p} : req'[q] = req[q]
          /\ req'[p].offer = req[p].offer
        BY <3>1, Naming
    <3>3. approval' \in [ApprovalIds -> [status : Statuses, rank : Nat]]
        BY <3>1, CreatedIsNat DEF ApprovalTypeOK, Statuses
    <3>4. ApprovalTypeOK'
        BY <3>1, <3>2, <3>3 DEF Goto, ApprovalTypeOK, LinkTypeOK, history
    <3>5. Filled'
        BY <3>1, <3>2 DEF Goto, ApprovalTypeOK, Filled
    <3> QED BY <3>4, <3>5
  <2>5. CASE MintLink(p)
      BY <2>5, LinkMoves DEF MintLink, Goto, ApprovalTypeOK, Filled, history
  <2>6. CASE RecordAsked(p)
    <3>1. req[p].approval \in ApprovalIds
        BY <2>6 DEF RecordAsked, Leave, Goto, Filled
    <3>2. log' \in [ApprovalIds -> [Kinds -> Nat]]
        BY <2>6, <3>1, Noting DEF RecordAsked, Kinds
    <3>3. pc' \in [Requests -> Steps] /\ req' \in [Requests -> Request]
        BY <2>6, Leaving DEF RecordAsked
    <3>4. Filled'
        BY <2>6, <3>3 DEF RecordAsked, Leave, Goto, Filled, NoRequest, ApprovalTypeOK
    <3> QED BY <2>6, <3>2, <3>3, <3>4 DEF RecordAsked, history, ApprovalTypeOK, LinkTypeOK
  <2> QED BY <1>5, <2>1, <2>2, <2>3, <2>4, <2>5, <2>6 DEF AskStep
<1>6. ASSUME NEW p \in Owners, DecideStep(p) PROVE (ApprovalTypeOK /\ Filled)'
  <2> p \in Requests
      BY DEF Requests
  <2>1. ASSUME NEW l \in Links, NEW d \in Decisions, Present(p, l, d) PROVE (ApprovalTypeOK /\ Filled)'
    <3>1. OfferOf[l] \in Offers
        BY DEF ApprovalAssumption
    <3> QED BY <2>1, <3>1 DEF Present, Goto, ApprovalTypeOK, LinkTypeOK, Filled, Request, history
  <2>2. CASE TakeUse(p)
    <3>1. req[p].link \in Links
        BY <2>2 DEF TakeUse, Goto, Filled
    <3> QED BY <2>2, <3>1, LinkMoves DEF TakeUse, Goto, ApprovalTypeOK, Filled, history
  <2>3. CASE NoUse(p) \/ FindNone(p) \/ ClaimLost(p)
    <3>1. /\ pc' = [pc EXCEPT ![p] = "idle"] /\ req' = [req EXCEPT ![p] = NoRequest]
          /\ UNCHANGED <<link, approval, signable, log, history>>
        BY <2>3 DEF NoUse, FindNone, ClaimLost, Leave, Goto
    <3> QED BY <3>1, NoRequestTyped DEF ApprovalTypeOK, LinkTypeOK, Filled, NoRequest, history
  <2>4. CASE Find(p)
    <3>1. PICK a \in ApprovalIds :
             /\ Goto(p, "find", "claim")
             /\ req' = [req EXCEPT ![p].approval = a]
             /\ UNCHANGED <<link, approval, signable, log, history>>
      <4>1. PICK a \in OpenOf(req[p].offer) :
               /\ Goto(p, "find", "claim")
               /\ req' = [req EXCEPT ![p].approval = a]
               /\ UNCHANGED <<link, approval, signable, log, history>>
          BY <2>4 DEF Find
      <4> QED BY <4>1 DEF OpenOf
    <3>2. /\ req' \in [Requests -> Request]
          /\ \A q \in Requests \ {p} : req'[q] = req[q]
          /\ req'[p].offer = req[p].offer /\ req'[p].link = req[p].link
          /\ req'[p].decision = req[p].decision /\ req'[p].approval \in ApprovalIds
        BY <3>1, Naming
    <3>3. ApprovalTypeOK'
        BY <3>1, <3>2 DEF Goto, ApprovalTypeOK, LinkTypeOK, history
    <3>4. Filled'
        BY <3>1, <3>2 DEF Goto, ApprovalTypeOK, Filled
    <3> QED BY <3>3, <3>4
  <2>5. CASE Claim(p)
    <3>1. req[p].approval \in ApprovalIds /\ req[p].link \in Links /\ req[p].decision \in Decisions
        BY <2>5 DEF Claim, Goto, Filled
    <3>2. approval' \in [ApprovalIds -> [status : Statuses, rank : Nat]]
        BY <2>5, <3>1, Restating DEF Claim, Statuses
    <3>3. ApprovalTypeOK'
        BY <2>5, <3>1, <3>2 DEF Claim, Goto, ApprovalTypeOK, LinkTypeOK
    <3>4. Filled'
        BY <2>5 DEF Claim, Goto, ApprovalTypeOK, Filled
    <3> QED BY <3>3, <3>4
  <2>6. CASE RecordDecision(p)
    <3>1. req[p].approval \in ApprovalIds /\ req[p].decision \in Kinds
        BY <2>6 DEF RecordDecision, Leave, Goto, Filled, Kinds
    <3>2. log' \in [ApprovalIds -> [Kinds -> Nat]]
        BY <2>6, <3>1, Noting DEF RecordDecision
    <3>3. pc' \in [Requests -> Steps] /\ req' \in [Requests -> Request]
        BY <2>6, Leaving DEF RecordDecision
    <3>4. Filled'
        BY <2>6, <3>3 DEF RecordDecision, Leave, Goto, Filled, NoRequest, ApprovalTypeOK
    <3> QED BY <2>6, <3>2, <3>3, <3>4 DEF RecordDecision, history, ApprovalTypeOK, LinkTypeOK
  <2> QED BY <1>6, <2>1, <2>2, <2>3, <2>4, <2>5, <2>6 DEF DecideStep
<1> QED BY <1>1, <1>2, <1>3, <1>4, <1>5, <1>6 DEF Next

LEMMA TypeInit == Init => ApprovalTypeOK /\ Filled
<1> SUFFICES ASSUME Init PROVE ApprovalTypeOK /\ Filled
    OBVIOUS
<1>1. LinkTypeOK
    BY DEF Init, LinkInit, LinkTypeOK, Link
<1>2. ApprovalTypeOK
    BY <1>1, NoRequestTyped DEF Init, ApprovalTypeOK, Statuses, Kinds, Steps
<1>3. Filled
    BY DEF Init, Filled, NoRequest, Deciding, Holding
<1> QED BY <1>2, <1>3

LEMMA TypesHold == Spec => [](ApprovalTypeOK /\ Filled)
BY TypeInit, TypeStep, PTL DEF Spec

\* The rows of links and approvals, what the requests carry and the evidence
\* counts keep their types in every behaviour of approvals.ts.
THEOREM ApprovalTypeCorrect == Spec => []ApprovalTypeOK
BY TypesHold, PTL

-----------------------------------------------------------------------------
(* Decisions are final *)

\* The steps that change an approval: close open ones, open an absent one, or
\* decide an open one.
LEMMA ApprovalMoves ==
    ASSUME [Next]_vars
    PROVE  \/ approval' = approval
           \/ \E p \in Askers : Close(p)
           \/ \E p \in Askers : CreateApproval(p)
           \/ \E p \in Owners : Claim(p)
<1>1. CASE UNCHANGED vars
    BY <1>1 DEF vars
<1>2. CASE Next
    BY <1>2 DEF Next, Supersede, LinkEnds, Fail, AskStep, DecideStep, Ask, RevokeOld, MintLink,
                RecordAsked, Present, TakeUse, NoUse, Find, FindNone, ClaimLost, RecordDecision
<1> QED BY <1>1, <1>2

LEMMA SettledStep == ApprovalTypeOK /\ Filled /\ [Next]_vars => Settled
<1> SUFFICES ASSUME ApprovalTypeOK, Filled, [Next]_vars,
                    NEW a \in ApprovalIds, approval[a].status \in Decisions \cup {"closed"}
             PROVE  approval'[a] = approval[a]
    BY DEF Settled
<1>1. approval[a].status \notin {"open", "absent"}
    BY DEF Decisions
<1>2. CASE \E p \in Askers : Close(p)
    BY <1>1, <1>2 DEF Close, ToClose, OpenOf, IsOpen
<1>3. CASE \E p \in Askers : CreateApproval(p)
  <2>1. PICK b \in ApprovalIds :
           /\ approval[b].status = "absent"
           /\ approval' = [approval EXCEPT ![b] = [status |-> "open", rank |-> Created + 1]]
      BY <1>3 DEF CreateApproval
  <2> QED BY <1>1, <2>1 DEF ApprovalTypeOK
<1>4. ASSUME NEW p \in Owners, Claim(p) PROVE approval'[a] = approval[a]
  <2>1. req[p].approval \in ApprovalIds /\ req[p].decision \in Statuses
      BY <1>4 DEF Claim, Goto, Filled, Requests, Deciding, Statuses
  <2>2. approval' = [approval EXCEPT ![req[p].approval].status = req[p].decision]
      BY <1>4 DEF Claim
  <2>3. req[p].approval # a
      BY <1>1, <1>4 DEF Claim, Claimable, IsOpen
  <2> QED BY <2>1, <2>2, <2>3, Restating
<1> QED BY <1>2, <1>3, <1>4, ApprovalMoves

\* approvals.ts:255-259: the guarded update decides only what is still pending,
\* so a stale find never rewrites a closed or decided approval.
THEOREM DecisionFinalHolds == Spec => DecisionFinal
<1>1. ApprovalTypeOK /\ Filled /\ [Next]_vars => [Settled]_vars
    BY SettledStep
<1> QED BY <1>1, TypesHold, PTL DEF Spec, DecisionFinal

-----------------------------------------------------------------------------
(* One decision per link *)

\* p has taken a use of l and has not decided yet.
Holds(p, l) == pc[p] \in Holding /\ req[p].link = l

\* The one use of a link is with one request, or in one decision.
Spent ==
    \A l \in Links :
        /\ link[l].uses <= 1
        /\ \A p \in Requests : Holds(p, l) =>
              /\ link[l].uses = 1
              /\ \A q \in Requests : Holds(q, l) => q = p
              /\ \A a \in ApprovalIds : decidedBy[a] # l
        /\ \A a \in ApprovalIds : decidedBy[a] = l =>
              /\ link[l].uses = 1
              /\ \A b \in ApprovalIds : decidedBy[b] = l => b = a

\* No use is taken, and none changes hands.
Idle == /\ \A l \in Links : link'[l].uses = link[l].uses
        /\ decidedBy' = decidedBy
        /\ \A p \in Requests, l \in Links : Holds(p, l)' => Holds(p, l)

LEMMA Spending ==
    ASSUME ApprovalTypeOK, Filled, [Next]_vars
    PROVE  \/ Idle
           \/ \E p \in Owners : TakeUse(p)
           \/ \E p \in Owners : Claim(p)
<1> USE DEF Idle, Holds, Holding
<1>1. CASE UNCHANGED vars
    BY <1>1 DEF vars
<1>2. ASSUME NEW o \in Offers, Supersede(o) PROVE Idle
    BY <1>2 DEF Supersede, history
<1>3. ASSUME NEW S, End(S) PROVE \A l \in Links : link'[l].uses = link[l].uses
    BY <1>3 DEF End, ApprovalTypeOK, LinkTypeOK, Link
<1>4. ASSUME NEW l \in Links, LinkEnds(l) PROVE Idle
    BY <1>3, <1>4 DEF LinkEnds, history
<1>5. ASSUME NEW p \in Requests, Fail(p) PROVE Idle
    BY <1>5 DEF Fail, Leave, Goto, ApprovalTypeOK
<1>6. ASSUME NEW p \in Askers, AskStep(p) PROVE Idle
  <2> p \in Requests
      BY DEF Requests
  <2>1. ASSUME NEW o \in Offers, Ask(p, o) PROVE Idle
      BY <2>1 DEF Ask, Goto, ApprovalTypeOK
  <2>2. CASE Close(p)
      BY <2>2 DEF Close, Goto, history, ApprovalTypeOK
  <2>3. CASE RevokeOld(p)
      BY <2>3, <1>3 DEF RevokeOld, Goto, history, ApprovalTypeOK
  <2>4. CASE CreateApproval(p)
    <3>1. PICK a \in ApprovalIds :
             /\ Goto(p, "create", "mint")
             /\ req' = [req EXCEPT ![p].approval = a]
             /\ UNCHANGED <<link, history>>
        BY <2>4 DEF CreateApproval
    <3> QED BY <3>1, Naming DEF Goto, history, ApprovalTypeOK
  <2>5. CASE MintLink(p)
    <3>1. \A l \in Links : link'[l].uses = link[l].uses
        BY <2>5 DEF MintLink, Mint, ApprovalTypeOK, LinkTypeOK, Link
    <3> QED BY <2>5, <3>1 DEF MintLink, Goto, history, ApprovalTypeOK
  <2>6. CASE RecordAsked(p)
      BY <2>6 DEF RecordAsked, Leave, Goto, history, ApprovalTypeOK
  <2> QED BY <1>6, <2>1, <2>2, <2>3, <2>4, <2>5, <2>6 DEF AskStep
<1>7. ASSUME NEW p \in Owners, DecideStep(p), ~TakeUse(p), ~Claim(p) PROVE Idle
  <2> p \in Requests
      BY DEF Requests
  <2>1. ASSUME NEW l \in Links, NEW d \in Decisions, Present(p, l, d) PROVE Idle
      BY <2>1 DEF Present, Goto, history, ApprovalTypeOK
  <2>2. CASE NoUse(p) \/ FindNone(p) \/ ClaimLost(p) \/ RecordDecision(p)
    <3>1. /\ pc' = [pc EXCEPT ![p] = "idle"] /\ req' = [req EXCEPT ![p] = NoRequest]
          /\ UNCHANGED <<link, history>>
        BY <2>2 DEF NoUse, FindNone, ClaimLost, RecordDecision, Leave, Goto
    <3> QED BY <3>1 DEF history, ApprovalTypeOK
  <2>3. CASE Find(p)
    <3>1. PICK a \in OpenOf(req[p].offer) :
             /\ Goto(p, "find", "claim")
             /\ req' = [req EXCEPT ![p].approval = a]
             /\ UNCHANGED <<link, history>>
        BY <2>3 DEF Find
    <3>2. a \in ApprovalIds
        BY DEF OpenOf
    <3> QED BY <3>1, <3>2, Naming DEF Goto, history, ApprovalTypeOK
  <2> QED BY <1>7, <2>1, <2>2, <2>3 DEF DecideStep
<1> QED BY <1>1, <1>2, <1>4, <1>5, <1>6, <1>7 DEF Next

LEMMA SpentStep == ApprovalTypeOK /\ Filled /\ Spent /\ [Next]_vars => Spent'
<1> SUFFICES ASSUME ApprovalTypeOK, Filled, Spent, [Next]_vars PROVE Spent'
    OBVIOUS
<1>1. CASE Idle
    BY <1>1 DEF Idle, Spent, ApprovalTypeOK, LinkTypeOK, Link
<1>2. ASSUME NEW p \in Owners, TakeUse(p) PROVE Spent'
  <2> DEFINE m == req[p].link
  <2>1. p \in Requests /\ m \in Links
      BY <1>2 DEF TakeUse, Goto, Filled, Requests, Deciding
  <2>2. link[m].uses = 0
      BY <1>2, <2>1, ApprovalAssumption
         DEF TakeUse, Consume, CanConsume, Usable, ApprovalTypeOK, LinkTypeOK, Link, ApprovalAssumption
  <2>3. /\ link'[m].uses = 1
        /\ \A l \in Links \ {m} : link'[l] = link[l]
      BY <1>2, <2>1, <2>2 DEF TakeUse, Consume, ApprovalTypeOK, LinkTypeOK, Link
  <2>4. \A q \in Requests, l \in Links : Holds(q, l)' => Holds(q, l) \/ (q = p /\ l = m)
      BY <1>2, <2>1 DEF TakeUse, Goto, Holds, ApprovalTypeOK
  <2>5. decidedBy' = decidedBy
      BY <1>2 DEF TakeUse, history
  <2>6. /\ \A q \in Requests : ~Holds(q, m)
        /\ \A a \in ApprovalIds : decidedBy[a] # m
      BY <2>1, <2>2 DEF Spent
  <2> HIDE DEF m
  <2>7. ASSUME NEW l \in Links PROVE Spent!(l)'
    <3>1. CASE l = m
        BY <3>1, <2>1, <2>3, <2>4, <2>5, <2>6
    <3>2. CASE l # m
        BY <3>2, <2>1, <2>3, <2>4, <2>5 DEF Spent
    <3> QED BY <3>1, <3>2
  <2> QED BY <2>7 DEF Spent
<1>3. ASSUME NEW p \in Owners, Claim(p) PROVE Spent'
  <2> DEFINE m == req[p].link
             c == req[p].approval
  <2>1. p \in Requests /\ m \in Links /\ c \in ApprovalIds
      BY <1>3 DEF Claim, Goto, Filled, Requests, Deciding, Holding
  <2>2. link' = link /\ decidedBy' = [decidedBy EXCEPT ![c] = m]
      BY <1>3 DEF Claim
  <2>3. Holds(p, m)
      BY <1>3 DEF Claim, Goto, Holds, Holding
  <2>4. \A q \in Requests, l \in Links : Holds(q, l)' => Holds(q, l) /\ q # p
      BY <1>3, <2>1 DEF Claim, Goto, Holds, Holding, ApprovalTypeOK
  <2>5. /\ decidedBy'[c] = m
        /\ \A a \in ApprovalIds \ {c} : decidedBy'[a] = decidedBy[a]
      BY <2>1, <2>2 DEF ApprovalTypeOK
  <2>6. /\ link[m].uses = 1
        /\ \A q \in Requests : Holds(q, m) => q = p
        /\ \A a \in ApprovalIds : decidedBy[a] # m
      BY <2>1, <2>3 DEF Spent
  <2> HIDE DEF m, c
  <2>7. ASSUME NEW l \in Links PROVE Spent!(l)'
    <3>1. CASE l = m
        BY <3>1, <2>1, <2>2, <2>4, <2>5, <2>6
    <3>2. CASE l # m
        BY <3>2, <2>1, <2>2, <2>4, <2>5 DEF Spent
    <3> QED BY <3>1, <3>2
  <2> QED BY <2>7 DEF Spent
<1> QED BY <1>1, <1>2, <1>3, Spending

LEMMA SpentInit == Init => Spent
<1> SUFFICES ASSUME Init, NEW l \in Links PROVE Spent!(l)
    BY DEF Spent
<1>1. link[l].uses = 0 /\ \A p \in Requests : ~Holds(p, l)
    BY DEF Init, LinkInit, Holds, Holding
<1>2. \A a \in ApprovalIds : decidedBy[a] # l
    BY ApprovalAssumption DEF Init, ApprovalAssumption
<1> QED BY <1>1, <1>2

LEMMA SpentHolds == Spec => []Spent
BY SpentInit, SpentStep, TypesHold, PTL DEF Spec

\* secureLinks.ts:95-109: however many requests validated a token at once, the
\* UPDATE that looks again gives out no more uses than the link has.
THEOREM WithinCapHolds == Spec => []WithinCap
<1>1. Spent => WithinCap
    BY ApprovalAssumption DEF Spent, WithinCap, ApprovalAssumption
<1> QED BY <1>1, SpentHolds, PTL

\* approvals.ts:225-226, consume first: a single-use link never decides two
\* approvals, though a new request may slip in a second one under the same offer.
THEOREM OneDecisionPerLinkHolds == Spec => []OneDecisionPerLink
<1>1. ApprovalTypeOK /\ Spent => OneDecisionPerLink
    BY DEF Spent, OneDecisionPerLink, ApprovalTypeOK
<1> QED BY <1>1, SpentHolds, TypesHold, PTL

-----------------------------------------------------------------------------
(* The evidence of a sign-off *)

\* p has decided a and has not told yet.
Owes(p, a) == pc[p] = "decided" /\ req[p].approval = a

Owed ==
    \A a \in ApprovalIds :
        /\ \A d \in Decisions :
              /\ log[a][d] <= IF approval[a].status = d THEN 1 ELSE 0
              /\ ~died /\ approval[a].status = d =>
                    log[a][d] = 1 \/ \E p \in Requests : Owes(p, a)
        /\ \A p \in Requests : Owes(p, a) =>
              /\ approval[a].status = req[p].decision
              /\ log[a][req[p].decision] = 0
              /\ \A q \in Requests : Owes(q, a) => q = p

\* No decision is made or told; a request that forgets one has died.
Mute == /\ \A a \in ApprovalIds, d \in Decisions :
              log'[a][d] = log[a][d] /\ (approval'[a].status = d <=> approval[a].status = d)
        /\ died => died'
        /\ \A p \in Requests, a \in ApprovalIds :
              /\ Owes(p, a)' => Owes(p, a) /\ req'[p].decision = req[p].decision
              /\ Owes(p, a) => Owes(p, a)' \/ died'

LEMMA Told ==
    ASSUME ApprovalTypeOK, Filled, [Next]_vars
    PROVE  \/ Mute
           \/ \E p \in Owners : Claim(p)
           \/ \E p \in Owners : RecordDecision(p)
<1> USE DEF Mute, Owes
<1>1. CASE UNCHANGED vars
    BY <1>1 DEF vars
<1>2. ASSUME NEW o \in Offers, Supersede(o) PROVE Mute
    BY <1>2 DEF Supersede, history
<1>3. ASSUME NEW l \in Links, LinkEnds(l) PROVE Mute
    BY <1>3 DEF LinkEnds, history
<1>4. ASSUME NEW p \in Requests, Fail(p) PROVE Mute
    BY <1>4 DEF Fail, Leave, Goto, ApprovalTypeOK
<1>5. ASSUME NEW p \in Askers, AskStep(p) PROVE Mute
  <2> p \in Requests
      BY DEF Requests
  <2>1. ASSUME NEW o \in Offers, Ask(p, o) PROVE Mute
      BY <2>1 DEF Ask, Goto, ApprovalTypeOK
  <2>2. CASE Close(p)
    <3>1. \A a \in ApprovalIds, d \in Decisions : approval'[a].status = d <=> approval[a].status = d
        BY <2>2 DEF Close, ToClose, OpenOf, IsOpen, Decisions, ApprovalTypeOK
    <3> QED BY <2>2, <3>1 DEF Close, Goto, history, ApprovalTypeOK
  <2>3. CASE RevokeOld(p)
      BY <2>3 DEF RevokeOld, Goto, history, ApprovalTypeOK
  <2>4. CASE CreateApproval(p)
    <3>1. PICK b \in ApprovalIds :
             /\ approval[b].status = "absent"
             /\ Goto(p, "create", "mint")
             /\ approval' = [approval EXCEPT ![b] = [status |-> "open", rank |-> Created + 1]]
             /\ req' = [req EXCEPT ![p].approval = b]
             /\ UNCHANGED <<log, history>>
        BY <2>4 DEF CreateApproval
    <3>2. \A a \in ApprovalIds, d \in Decisions : approval'[a].status = d <=> approval[a].status = d
        BY <3>1 DEF Decisions, ApprovalTypeOK
    <3>3. \A q \in Requests \ {p} : req'[q] = req[q]
        BY <3>1, Naming
    <3> QED BY <3>1, <3>2, <3>3 DEF Goto, history, ApprovalTypeOK
  <2>5. CASE MintLink(p)
      BY <2>5 DEF MintLink, Goto, history, ApprovalTypeOK
  <2>6. CASE RecordAsked(p)
    <3>1. req[p].approval \in ApprovalIds
        BY <2>6 DEF RecordAsked, Leave, Goto, Filled
    <3>2. \A a \in ApprovalIds, d \in Decisions : log'[a][d] = log[a][d]
        BY <2>6, <3>1 DEF RecordAsked, Note, Decisions, Kinds, ApprovalTypeOK
    <3> QED BY <2>6, <3>2 DEF RecordAsked, Leave, Goto, history, ApprovalTypeOK
  <2> QED BY <1>5, <2>1, <2>2, <2>3, <2>4, <2>5, <2>6 DEF AskStep
<1>6. ASSUME NEW p \in Owners, DecideStep(p), ~Claim(p), ~RecordDecision(p) PROVE Mute
  <2> p \in Requests
      BY DEF Requests
  <2>1. ASSUME NEW l \in Links, NEW d \in Decisions, Present(p, l, d) PROVE Mute
      BY <2>1 DEF Present, Goto, history, ApprovalTypeOK
  <2>2. CASE TakeUse(p)
      BY <2>2 DEF TakeUse, Goto, history, ApprovalTypeOK
  <2>3. CASE NoUse(p) \/ FindNone(p) \/ ClaimLost(p)
    <3>1. /\ pc[p] # "decided"
          /\ pc' = [pc EXCEPT ![p] = "idle"] /\ req' = [req EXCEPT ![p] = NoRequest]
          /\ UNCHANGED <<approval, log, history>>
        BY <2>3 DEF NoUse, FindNone, ClaimLost, Leave, Goto
    <3> QED BY <3>1 DEF history, ApprovalTypeOK
  <2>4. CASE Find(p)
    <3>1. PICK b \in OpenOf(req[p].offer) :
             /\ Goto(p, "find", "claim")
             /\ req' = [req EXCEPT ![p].approval = b]
             /\ UNCHANGED <<approval, log, history>>
        BY <2>4 DEF Find
    <3>2. b \in ApprovalIds
        BY DEF OpenOf
    <3>3. \A q \in Requests \ {p} : req'[q] = req[q]
        BY <3>1, <3>2, Naming
    <3> QED BY <3>1, <3>3 DEF Goto, history, ApprovalTypeOK
  <2> QED BY <1>6, <2>1, <2>2, <2>3, <2>4 DEF DecideStep
<1> QED BY <1>1, <1>2, <1>3, <1>4, <1>5, <1>6 DEF Next

LEMMA OwedStep == ApprovalTypeOK /\ Filled /\ Owed /\ [Next]_vars => Owed'
<1> SUFFICES ASSUME ApprovalTypeOK, Filled, Owed, [Next]_vars, NEW a \in ApprovalIds
             PROVE  Owed!(a)'
    BY DEF Owed
<1>0. \A d \in Decisions : d \in Kinds /\ log[a][d] \in Nat
    BY DEF ApprovalTypeOK, Kinds
<1>1. CASE Mute
  <2>1. ASSUME NEW d \in Decisions PROVE Owed!(a)!1!(d)'
      BY <1>0, <1>1, <2>1 DEF Mute, Owed
  <2>2. ASSUME NEW p \in Requests, Owes(p, a)' PROVE Owed!(a)!2!(p)!2'
    <3>1. Owes(p, a) /\ req'[p].decision = req[p].decision
        BY <1>1, <2>2 DEF Mute
    <3>2. req[p].decision \in Decisions
        BY <3>1 DEF Owes, Filled, Deciding
    <3> QED BY <1>1, <3>1, <3>2 DEF Mute, Owed
  <2> QED BY <2>1, <2>2 DEF Owed
<1>2. ASSUME NEW p \in Owners, Claim(p) PROVE Owed!(a)'
  <2> DEFINE c == req[p].approval
             d == req[p].decision
  <2>1. p \in Requests /\ c \in ApprovalIds /\ d \in Decisions
      BY <1>2 DEF Claim, Goto, Filled, Requests, Deciding
  <2>2. approval[c].status = "open"
      BY <1>2 DEF Claim, Claimable, IsOpen
  <2>3. log' = log /\ req' = req /\ died' = died
      BY <1>2 DEF Claim
  <2>4. /\ \A b \in ApprovalIds \ {c} : approval'[b] = approval[b]
        /\ approval'[c].status = d
      BY <1>2, <2>1, Restating DEF Claim, Statuses
  <2>5. \A q \in Requests, b \in ApprovalIds : Owes(q, b)' <=> Owes(q, b) \/ (q = p /\ b = c)
      BY <1>2, <2>1 DEF Claim, Goto, Owes, ApprovalTypeOK
  <2>6. \A e \in Decisions : e # "open"
      BY DEF Decisions
  <2>7. /\ \A e \in Decisions : log[c][e] = 0
        /\ \A q \in Requests : ~Owes(q, c)
    <3>1. ASSUME NEW e \in Decisions PROVE log[c][e] = 0
      <4>1. approval[c].status # e
          BY <2>2, <2>6
      <4>2. log[c][e] <= 0
          BY <2>1, <4>1 DEF Owed
      <4>3. log[c][e] \in Nat
          BY <2>1 DEF ApprovalTypeOK, Kinds
      <4> QED BY <4>2, <4>3
    <3>2. ASSUME NEW q \in Requests, Owes(q, c) PROVE FALSE
      <4>1. req[q].decision \in Decisions /\ approval[c].status = req[q].decision
          BY <2>1, <3>2 DEF Owed, Owes, Filled, Deciding
      <4> QED BY <2>2, <2>6, <4>1
    <3> QED BY <3>1, <3>2
  <2> HIDE DEF c, d
  <2>8. CASE a = c
    <3>1. ASSUME NEW e \in Decisions PROVE Owed!(a)!1!(e)'
        BY <2>1, <2>3, <2>4, <2>5, <2>7, <2>8 DEF Owed
    <3>2. ASSUME NEW q \in Requests, Owes(q, a)' PROVE Owed!(a)!2!(q)!2'
      <4>1. q = p
          BY <2>1, <2>5, <2>7, <2>8, <3>2
      <4>2. req'[p].decision = d
          BY <2>3 DEF d
      <4> QED BY <2>1, <2>3, <2>4, <2>5, <2>7, <2>8, <4>1, <4>2
    <3> QED BY <3>1, <3>2 DEF Owed
  <2>9. CASE a # c
    <3>1. \A q \in Requests : Owes(q, a)' <=> Owes(q, a)
        BY <2>5, <2>9
    <3> QED BY <2>3, <2>4, <2>9, <3>1 DEF Owed
  <2> QED BY <2>8, <2>9
<1>3. ASSUME NEW p \in Owners, RecordDecision(p) PROVE Owed!(a)'
  <2> DEFINE c == req[p].approval
             d == req[p].decision
  <2>1. /\ p \in Requests /\ c \in ApprovalIds /\ d \in Decisions
        /\ Owes(p, c)
      BY <1>3 DEF RecordDecision, Leave, Goto, Filled, Requests, Deciding, Owes
  <2>2. log' = [log EXCEPT ![c][d] = @ + 1] /\ approval' = approval /\ died' = died
      BY <1>3 DEF RecordDecision, Note, history
  <2>3. \A q \in Requests, b \in ApprovalIds :
            /\ Owes(q, b)' <=> Owes(q, b) /\ q # p
            /\ q # p => req'[q] = req[q]
      BY <1>3, <2>1 DEF RecordDecision, Leave, Goto, Owes, ApprovalTypeOK
  <2>4. /\ approval[c].status = d /\ log[c][d] = 0
        /\ \A q \in Requests : Owes(q, c) => q = p
      BY <2>1 DEF Owed
  <2>5. /\ log'[c][d] = 1
        /\ \A e \in Decisions : e # d => log'[c][e] = log[c][e]
        /\ \A b \in ApprovalIds \ {c} : log'[b] = log[b]
      BY <2>1, <2>2, <2>4 DEF ApprovalTypeOK, Kinds
  <2> HIDE DEF c, d
  <2>6. CASE a = c
    <3>1. ASSUME NEW e \in Decisions PROVE Owed!(a)!1!(e)'
      <4>1. CASE e = d
          BY <2>2, <2>4, <2>5, <2>6, <4>1
      <4>2. CASE e # d
          BY <1>0, <2>2, <2>4, <2>5, <2>6, <4>2 DEF Owed
      <4> QED BY <4>1, <4>2
    <3>2. \A q \in Requests : ~Owes(q, a)'
        BY <2>3, <2>4, <2>6
    <3> QED BY <3>1, <3>2 DEF Owed
  <2>7. CASE a # c
    <3>1. \A q \in Requests : Owes(q, a) => q # p
        BY <2>1, <2>7 DEF Owes
    <3>2. \A q \in Requests : Owes(q, a)' <=> Owes(q, a)
        BY <2>3, <3>1
    <3>3. \A q \in Requests : Owes(q, a) => req'[q] = req[q]
        BY <2>3, <3>1
    <3> QED BY <2>2, <2>5, <2>7, <3>2, <3>3 DEF Owed
  <2> QED BY <2>6, <2>7
<1> QED BY <1>1, <1>2, <1>3, Told

LEMMA OwedInit == Init => Owed
BY DEF Init, Owed, Owes, Decisions, Kinds

LEMMA OwedHolds == Spec => []Owed
BY OwedInit, OwedStep, TypesHold, PTL DEF Spec

\* approvals.ts:255-279: the timeline carries the decision that stands, once, and
\* carries it whenever no owner is at work and none has died.
THEOREM SignOffToldHolds == Spec => []SignOffTold
<1>1. Owed => SignOffTold
  <2>1. AtRest => ~died /\ \A p \in Requests, a \in ApprovalIds : ~Owes(p, a)
      BY DEF AtRest, Owes
  <2> QED BY <2>1 DEF Owed, SignOffTold
<1> QED BY <1>1, OwedHolds, PTL

-----------------------------------------------------------------------------
(* One pending approval *)

\* A manager who is alone with an offer has closed its pending approvals before
\* creating another one.
Cleared ==
    ~overlapped =>
        /\ \A p, q \in Askers : req[p].offer = req[q].offer /\ req[p].offer # None => p = q
        /\ \A p \in Askers : pc[p] \in {"revoke", "create"} => OpenOf(req[p].offer) = {}
        /\ OnePending

\* No approval is opened, and no manager starts or closes.
Still == /\ overlapped' = overlapped
         /\ \A a \in ApprovalIds : IsOpen(a)' => IsOpen(a)
         /\ \A p \in Askers : req'[p].offer \in {req[p].offer, None}
         /\ \A p \in Askers : pc'[p] \in {"revoke", "create"} =>
                 pc[p] \in {"revoke", "create"} /\ req'[p].offer = req[p].offer

LEMMA Stilling ==
    ASSUME ApprovalTypeOK, Filled, [Next]_vars
    PROVE  \/ Still
           \/ \E p \in Askers : \E o \in Offers : Ask(p, o)
           \/ \E p \in Askers : Close(p)
           \/ \E p \in Askers : CreateApproval(p)
<1> USE DEF Still, IsOpen
<1>1. CASE UNCHANGED vars
    BY <1>1 DEF vars
<1>2. ASSUME NEW o \in Offers, Supersede(o) PROVE Still
    BY <1>2 DEF Supersede, history
<1>3. ASSUME NEW l \in Links, LinkEnds(l) PROVE Still
    BY <1>3 DEF LinkEnds, history
<1>4. Askers \subseteq Requests /\ NoRequest.offer = None
    BY DEF Requests, NoRequest
<1>5. ASSUME NEW p \in Requests, Fail(p) PROVE Still
    BY <1>4, <1>5 DEF Fail, Leave, Goto, ApprovalTypeOK
<1>6. ASSUME NEW p \in Askers, AskStep(p), \A o \in Offers : ~Ask(p, o),
             ~Close(p), ~CreateApproval(p)
      PROVE  Still
  <2>1. CASE RevokeOld(p)
      BY <2>1, <1>4 DEF RevokeOld, Goto, history, ApprovalTypeOK
  <2>2. CASE MintLink(p)
      BY <2>2, <1>4 DEF MintLink, Goto, history, ApprovalTypeOK
  <2>3. CASE RecordAsked(p)
      BY <2>3, <1>4 DEF RecordAsked, Leave, Goto, history, ApprovalTypeOK
  <2> QED BY <1>6, <2>1, <2>2, <2>3 DEF AskStep
<1>7. ASSUME NEW p \in Owners, DecideStep(p) PROVE Still
  <2>1. p \in Requests /\ p \notin Askers
      BY ApprovalAssumption DEF Requests, ApprovalAssumption
  <2>2. \A a \in ApprovalIds : IsOpen(a)' => IsOpen(a)
    <3>1. ASSUME Claim(p) PROVE \A a \in ApprovalIds : IsOpen(a)' => IsOpen(a)
      <4>1. req[p].approval \in ApprovalIds /\ req[p].decision \in Statuses
          BY <3>1, <2>1 DEF Claim, Goto, Filled, Deciding, Statuses
      <4>2. req[p].decision # "open"
          BY <3>1, <2>1 DEF Claim, Goto, Filled, Deciding, Decisions
      <4> QED BY <3>1, <4>1, <4>2, Restating DEF Claim
    <3>2. ASSUME ~Claim(p) PROVE approval' = approval
        BY <1>7, <3>2 DEF DecideStep, Present, TakeUse, NoUse, Find, FindNone, ClaimLost, RecordDecision
    <3> QED BY <3>1, <3>2
  <2>3. overlapped' = overlapped
      BY <1>7 DEF DecideStep, Present, TakeUse, NoUse, Find, FindNone, Claim, ClaimLost,
                  RecordDecision, history
  <2>4. \A q \in Requests \ {p} : pc'[q] = pc[q] /\ req'[q] = req[q]
    <3>1. ASSUME NEW l \in Links, NEW d \in Decisions, Present(p, l, d)
          PROVE  \A q \in Requests \ {p} : pc'[q] = pc[q] /\ req'[q] = req[q]
        BY <3>1, <2>1 DEF Present, Goto, ApprovalTypeOK
    <3>2. CASE TakeUse(p) \/ Claim(p)
        BY <3>2, <2>1 DEF TakeUse, Claim, Goto, ApprovalTypeOK
    <3>3. CASE NoUse(p) \/ FindNone(p) \/ ClaimLost(p) \/ RecordDecision(p)
      <4>1. \E from \in Steps : Leave(p, from)
          BY <3>3 DEF NoUse, FindNone, ClaimLost, RecordDecision, Steps
      <4> QED BY <4>1 DEF Leave, Goto, ApprovalTypeOK
    <3>4. CASE Find(p)
        BY <3>4, <2>1 DEF Find, Goto, ApprovalTypeOK
    <3> QED BY <1>7, <3>1, <3>2, <3>3, <3>4 DEF DecideStep
  <2> QED BY <1>4, <2>1, <2>2, <2>3, <2>4
<1> QED BY <1>1, <1>2, <1>3, <1>5, <1>6, <1>7 DEF Next

LEMMA ClearedStep == ApprovalTypeOK /\ Filled /\ Cleared /\ [Next]_vars => Cleared'
<1> SUFFICES ASSUME ApprovalTypeOK, Filled, Cleared, [Next]_vars, ~overlapped' PROVE Cleared'
    BY DEF Cleared
<1>1. Askers \subseteq Requests
    BY DEF Requests
<1>2. CASE Still
  <2>1. \A o : OpenOf(o)' \subseteq OpenOf(o)
      BY <1>2 DEF Still, OpenOf
  <2> QED BY <1>2, <2>1 DEF Still, Cleared, OnePending
<1>3. ASSUME NEW p \in Askers, NEW o \in Offers, Ask(p, o) PROVE Cleared'
  <2>1. ~overlapped /\ \A q \in Askers : req[q].offer # o
      BY <1>3 DEF Ask
  <2>2. /\ pc[p] = "idle" /\ pc'[p] = "close" /\ req'[p].offer = o
        /\ \A q \in Askers \ {p} : pc'[q] = pc[q] /\ req'[q] = req[q]
      BY <1>1, <1>3 DEF Ask, Goto, ApprovalTypeOK, NoRequest
  <2>3. approval' = approval
      BY <1>3 DEF Ask
  <2> QED BY <2>1, <2>2, <2>3 DEF Cleared, OnePending, OpenOf, IsOpen
<1>4. ASSUME NEW p \in Askers, Close(p) PROVE Cleared'
  <2>1. /\ ~overlapped /\ req' = req
        /\ \A q \in Askers \ {p} : pc'[q] = pc[q]
      BY <1>1, <1>4 DEF Close, Goto, history, ApprovalTypeOK
  <2>2. \A a \in ApprovalIds : IsOpen(a)' <=> IsOpen(a) /\ OfferOf[a] # req[p].offer
      BY <1>4 DEF Close, ToClose, OpenOf, IsOpen, ApprovalTypeOK
  <2>3. OpenOf(req[p].offer)' = {}
      BY <2>1, <2>2 DEF OpenOf
  <2>4. \A o : OpenOf(o)' \subseteq OpenOf(o)
      BY <2>2 DEF OpenOf
  <2> QED BY <2>1, <2>2, <2>3, <2>4 DEF Cleared, OnePending
<1>5. ASSUME NEW p \in Askers, CreateApproval(p) PROVE Cleared'
  <2>1. PICK b \in ApprovalIds :
           /\ approval[b].status = "absent" /\ OfferOf[b] = req[p].offer
           /\ Goto(p, "create", "mint")
           /\ approval' = [approval EXCEPT ![b] = [status |-> "open", rank |-> Created + 1]]
           /\ req' = [req EXCEPT ![p].approval = b]
           /\ UNCHANGED history
      BY <1>5 DEF CreateApproval
  <2>2. ~overlapped
      BY <2>1 DEF history
  <2>3. \A q \in Askers : req'[q].offer = req[q].offer
      BY <1>1, <2>1, Naming
  <2>4. /\ pc[p] = "create" /\ pc'[p] = "mint"
        /\ \A q \in Askers \ {p} : pc'[q] = pc[q]
      BY <1>1, <2>1 DEF Goto, ApprovalTypeOK
  <2>5. OpenOf(OfferOf[b]) = {}
      BY <2>1, <2>2, <2>4 DEF Cleared
  <2>6. \A a \in ApprovalIds : IsOpen(a)' <=> IsOpen(a) \/ a = b
      BY <2>1 DEF IsOpen, ApprovalTypeOK
  <2>7. OnePending'
      BY <2>2, <2>5, <2>6 DEF Cleared, OnePending, OpenOf
  <2>8. req[p].offer # None
      BY <1>1, <2>4 DEF Filled
  <2>9. ASSUME NEW q \in Askers, pc'[q] \in {"revoke", "create"} PROVE OpenOf(req[q].offer)' = {}
    <3>1. q # p /\ pc[q] \in {"revoke", "create"}
        BY <2>4, <2>9
    <3>2. req[q].offer # OfferOf[b]
        BY <2>1, <2>2, <2>8, <3>1 DEF Cleared
    <3>3. OpenOf(req[q].offer) = {}
        BY <2>2, <3>1 DEF Cleared
    <3> QED BY <2>3, <2>6, <3>2, <3>3 DEF OpenOf
  <2> QED BY <2>2, <2>3, <2>7, <2>9 DEF Cleared
<1> QED BY <1>2, <1>3, <1>4, <1>5, Stilling

LEMMA ClearedInit == Init => Cleared
<1> SUFFICES ASSUME Init PROVE Cleared
    OBVIOUS
<1>1. \A p \in Askers : req[p].offer = None /\ pc[p] = "idle"
    BY DEF Init, Requests, NoRequest
<1>2. \A a \in ApprovalIds : ~IsOpen(a)
    BY DEF Init, IsOpen
<1> QED BY <1>1, <1>2 DEF Cleared, OnePending

\* approvals.ts:95-125: closing before creating leaves an offer with one pending
\* approval, as long as nobody else asks about the offer meanwhile.
THEOREM OnePendingHolds == Spec => []OnePending
<1>1. Cleared => OnePending
    BY DEF Cleared, OnePending
<1>2. Spec => []Cleared
    BY ClearedInit, ClearedStep, TypesHold, PTL DEF Spec
<1> QED BY <1>1, <1>2, PTL
=============================================================================
