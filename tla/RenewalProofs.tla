--------------------------- MODULE RenewalProofs ---------------------------
(***************************************************************************)
(* Proofs about Renewals and Guidance, for every number of tenancies,      *)
(* cases, offers, notices and concurrent requests.                         *)
(***************************************************************************)
EXTENDS Guidance, TLAPS

\* What a request carries along fits the statement it is about to make.
ShapeAt(p) ==
    /\ pc[p] = "idle" => req[p].op = "none"
    /\ pc[p] = "create" => req[p].op = "open" /\ req[p].tenancy \in Tenancies
    /\ pc[p] \in {"version", "insert", "point"} =>
            req[p].op \in {"propose", "counter"} /\ req[p].case \in Cases
    /\ pc[p] = "insert" => req[p].version # 0
    /\ pc[p] = "point" => req[p].item \in Offers
    /\ req[p].op = "propose" => req[p].tenancy \in Tenancies /\ req[p].target \in TenancyStatus
    /\ pc[p] \in {"moveRead", "moveWrite"} =>
            /\ req[p].op \in {"propose", "accept", "serve", "status"}
            /\ req[p].tenancy \in Tenancies /\ req[p].target \in TenancyStatus
    /\ pc[p] = "mint" => req[p].op = "mint" /\ req[p].case \in Cases
    /\ pc[p] = "approve" => req[p].op = "approve" /\ req[p].item \in Notices
    /\ pc[p] = "serve" => /\ req[p].op \in {"serve", "pending"}
                          /\ req[p].item \in Notices /\ req[p].case \in Cases
                          /\ req[p].tenancy \in Tenancies
    /\ pc[p] = "record" => req[p].op \in {"open", "accept", "mint", "serve"}
    /\ pc[p] = "record" /\ req[p].op = "open" => req[p].item \in Cases
    /\ req[p].op = "accept" =>
            req[p].item \in Offers /\ pc[p] \in {"moveRead", "moveWrite", "record"}
    /\ req[p].op = "mint" => req[p].item \in Cases /\ req[p].case = req[p].item
    /\ req[p].op = "serve" => req[p].item \in Notices

Shape == \A p \in Requests : ShapeAt(p)

LEMMA KindsDomain == DOMAIN Kinds = {"open", "accept", "mint", "serve"}
<1> QED
    BY DEF Kinds

LEMMA NoRequestIsRequest == NoRequest \in Request
<1> QED
    BY DEF NoRequest, Request, Ops

-----------------------------------------------------------------------------
(* Types *)

Well == RenewalTypeOK /\ Shape

\* A step of one request leaves the others alone: only its own shape is to check.
LEMMA Moves ==
    ASSUME Well, NEW p \in Requests, NEW to \in Steps, NEW r \in Request,
           pc' = [pc EXCEPT ![p] = to], req' = [req EXCEPT ![p] = r], ShapeAt(p)'
    PROVE  pc' \in [Requests -> Steps] /\ req' \in [Requests -> Request] /\ Shape'
<1>1. pc' \in [Requests -> Steps] /\ req' \in [Requests -> Request]
    BY DEF Well, RenewalTypeOK
<1>2. \A q \in Requests : q # p => pc'[q] = pc[q] /\ req'[q] = req[q]
    BY DEF Well, RenewalTypeOK
<1>3. ASSUME NEW q \in Requests PROVE ShapeAt(q)'
    <2>1. CASE q = p
        BY <2>1
    <2>2. CASE q # p
        BY <1>2, <2>2 DEF ShapeAt, Well, Shape
    <2>3. QED
        BY <2>1, <2>2
<1>4. QED
    BY <1>1, <1>3 DEF Shape

\* A request that ends.
LEMMA Ends ==
    ASSUME Well, NEW p \in Requests, End(p)
    PROVE  pc' \in [Requests -> Steps] /\ req' \in [Requests -> Request] /\ Shape'
<1>1. pc' = [pc EXCEPT ![p] = "idle"] /\ req' = [req EXCEPT ![p] = NoRequest]
    BY DEF End
<1>2. pc'[p] = "idle" /\ req'[p].op = "none"
    BY <1>1 DEF Well, RenewalTypeOK, NoRequest
<1>3. ShapeAt(p)'
    BY <1>2 DEF ShapeAt
<1>4. "idle" \in Steps
    BY DEF Steps
<1>5. QED
    BY <1>1, <1>3, <1>4, NoRequestIsRequest, Moves

\* A request that goes on with what it has.
LEMMA GoesOn ==
    ASSUME Well, NEW p \in Requests, NEW from, NEW to \in Steps, Goto(p, from, to), UNCHANGED req,
           ShapeAt(p)'
    PROVE  pc' \in [Requests -> Steps] /\ req' \in [Requests -> Request] /\ Shape'
<1>1. pc' = [pc EXCEPT ![p] = to] /\ req' = [req EXCEPT ![p] = req[p]] /\ req[p] \in Request
    BY DEF Goto, Well, RenewalTypeOK
<1>2. QED
    BY <1>1, Moves

\* A request that has done its writes.
LEMMA Dones ==
    ASSUME Well, NEW p \in Requests, NEW from \in {"moveRead", "moveWrite"}, Done(p, from)
    PROVE  pc' \in [Requests -> Steps] /\ req' \in [Requests -> Request] /\ Shape'
<1>1. CASE req[p].op \in DOMAIN Kinds
    <2>1. pc[p] = from /\ pc' = [pc EXCEPT ![p] = "record"] /\ UNCHANGED req
        BY <1>1 DEF Done, Goto
    <2>2. pc'[p] = "record" /\ req'[p] = req[p]
        BY <2>1 DEF Well, RenewalTypeOK
    <2>3. ShapeAt(p)'
        BY <1>1, <2>1, <2>2, KindsDomain DEF ShapeAt, Well, Shape
    <2>4. "record" \in Steps /\ Goto(p, from, "record")
        BY <2>1 DEF Steps, Goto
    <2>5. QED
        BY <2>1, <2>3, <2>4, GoesOn
<1>2. CASE req[p].op \notin DOMAIN Kinds
    BY <1>2, Ends DEF Done, Leave
<1>3. QED
    BY <1>1, <1>2

\* A request that begins.
LEMMA Starts ==
    ASSUME Well, NEW p \in Requests, NEW op \in Ops, NEW k \in Cases,
           NEW item \in Cases \cup Offers \cup Notices \cup {None},
           NEW target \in TenancyStatus \cup {"none"}, NEW to \in Steps,
           Start(p, op, k, item, target, to)
    PROVE  /\ ShapeAt(p)' => pc' \in [Requests -> Steps] /\ req' \in [Requests -> Request] /\ Shape'
           /\ pc'[p] = to
           /\ req'[p].op = op /\ req'[p].case = k /\ req'[p].item = item
           /\ req'[p].target = target /\ req'[p].tenancy \in Tenancies
<1> DEFINE r == [op |-> op, tenancy |-> TenancyOf[k], case |-> k, item |-> item,
                 version |-> 0, target |-> target]
<1>1. TenancyOf[k] \in Tenancies
    BY RenewalAssumption
<1>2. r \in Request
    BY <1>1 DEF Request
<1>3. pc' = [pc EXCEPT ![p] = to] /\ req' = [req EXCEPT ![p] = r]
    BY DEF Start
<1>4. pc'[p] = to /\ req'[p] = r
    BY <1>3 DEF Well, RenewalTypeOK
<1> HIDE DEF r
<1>5. ShapeAt(p)' => pc' \in [Requests -> Steps] /\ req' \in [Requests -> Request] /\ Shape'
    BY <1>2, <1>3, Moves
<1>6. QED
    BY <1>1, <1>4, <1>5 DEF r

\* What a step leaves of the requests.
Requested == pc' \in [Requests -> Steps] /\ req' \in [Requests -> Request] /\ Shape'

LEMMA Arriving ==
    ASSUME Well, NEW p \in Requests, Arrive(p)
    PROVE  Requested
<1> USE DEF Requested
<1>1. ASSUME NEW t \in Tenancies, OpenRead(p, t) PROVE Requested
    <2> DEFINE r == [NoRequest EXCEPT !.op = "open", !.tenancy = t]
    <2>1. r \in Request /\ r.op = "open" /\ r.tenancy = t
        BY DEF NoRequest, Request, Ops, Kinds
    <2>2. pc' = [pc EXCEPT ![p] = "create"] /\ req' = [req EXCEPT ![p] = r]
        BY <1>1 DEF OpenRead
    <2> HIDE DEF r
    <2>3. pc'[p] = "create" /\ req'[p] = r
        BY <2>2 DEF Well, RenewalTypeOK
    <2>4. ShapeAt(p)' /\ "create" \in Steps
        BY <2>1, <2>3 DEF ShapeAt, Steps
    <2>5. QED
        BY <2>1, <2>2, <2>4, Moves
<1>2. ASSUME NEW t \in Tenancies, NEW s \in StaffTargets, SetStatus(p, t, s) PROVE Requested
    <2> DEFINE r == [NoRequest EXCEPT !.op = "status", !.tenancy = t, !.target = s]
    <2>1. r \in Request /\ r.op = "status" /\ r.tenancy = t /\ r.target = s /\ s \in TenancyStatus
        BY RenewalAssumption DEF NoRequest, Request, Ops
    <2>2. pc' = [pc EXCEPT ![p] = "moveRead"] /\ req' = [req EXCEPT ![p] = r]
        BY <1>2 DEF SetStatus
    <2> HIDE DEF r
    <2>3. pc'[p] = "moveRead" /\ req'[p] = r
        BY <2>2 DEF Well, RenewalTypeOK
    <2>4. ShapeAt(p)' /\ "moveRead" \in Steps
        BY <2>1, <2>3 DEF ShapeAt, Steps
    <2>5. QED
        BY <2>1, <2>2, <2>4, Moves
<1>3. ASSUME NEW k \in Cases, MintRead(p, k) PROVE Requested
    <2>1. Start(p, "mint", k, k, "none", "mint") /\ "mint" \in Ops /\ "mint" \in Steps
        BY <1>3, KindsDomain DEF MintRead, Ops, Steps
    <2>2. ShapeAt(p)'
        BY <2>1, Starts DEF ShapeAt
    <2>3. QED
        BY <2>1, <2>2, Starts
<1>4. ASSUME NEW k \in Cases, NEW op \in {"propose", "counter"}, Propose(p, k, op) PROVE Requested
    <2> DEFINE target == IF op = "propose" THEN "NEGOTIATING" ELSE "none"
    <2>1. /\ Start(p, op, k, None, target, "version") /\ op \in Ops /\ "version" \in Steps
          /\ target \in TenancyStatus \cup {"none"}
          /\ op = "propose" => target \in TenancyStatus
        BY <1>4 DEF Propose, Ops, Steps, TenancyStatus
    <2> HIDE DEF target
    <2>2. ShapeAt(p)'
        BY <2>1, Starts DEF ShapeAt
    <2>3. QED
        BY <2>1, <2>2, Starts
<1>5. ASSUME NEW o \in Offers, Accept(p, o) PROVE Requested
    <2>1. /\ CaseOf[o] \in Cases /\ Start(p, "accept", CaseOf[o], o, "RENEWED", "moveRead")
          /\ "accept" \in Ops /\ "moveRead" \in Steps /\ "RENEWED" \in TenancyStatus
        BY <1>5, KindsDomain, RenewalAssumption DEF Accept, Ops, Steps, TenancyStatus
    <2>2. ShapeAt(p)'
        BY <2>1, Starts DEF ShapeAt
    <2>3. QED
        BY <2>1, <2>2, Starts
<1>6. ASSUME NEW n \in Notices, ApproveRead(p, n) PROVE Requested
    <2>1. /\ CaseOfNotice[n] \in Cases /\ Start(p, "approve", CaseOfNotice[n], n, "none", "approve")
          /\ "approve" \in Ops /\ "approve" \in Steps /\ "none" \in TenancyStatus \cup {"none"}
        BY <1>6, RenewalAssumption DEF ApproveRead, Ops, Steps
    <2>2. /\ pc'[p] = "approve" /\ req'[p].op = "approve" /\ req'[p].item = n
          /\ req'[p].case \in Cases /\ req'[p].tenancy \in Tenancies
        <3>1. TenancyOf[CaseOfNotice[n]] \in Tenancies
            BY <2>1, RenewalAssumption
        <3>2. pc'[p] = "approve"
            BY <2>1 DEF Start, Well, RenewalTypeOK
        <3>3. req'[p] = [op |-> "approve", tenancy |-> TenancyOf[CaseOfNotice[n]],
                         case |-> CaseOfNotice[n], item |-> n, version |-> 0, target |-> "none"]
            BY <2>1 DEF Start, Well, RenewalTypeOK
        <3>4. QED
            BY <2>1, <3>1, <3>2, <3>3
    <2>3. ShapeAt(p)'
        BY <2>2 DEF ShapeAt
    <2>4. QED
        BY <2>1, <2>3, Starts
<1>7. ASSUME NEW n \in Notices, ServeRead(p, n) PROVE Requested
    <2>1. PICK target \in {"NOTICE_SERVED", "none"} :
            Start(p, "serve", CaseOfNotice[n], n, target, "serve")
        BY <1>7 DEF ServeRead
    <2>2. /\ CaseOfNotice[n] \in Cases /\ "serve" \in Ops /\ "serve" \in Steps
          /\ target \in TenancyStatus \cup {"none"}
        BY KindsDomain, RenewalAssumption DEF Ops, Steps, TenancyStatus
    <2>3. ShapeAt(p)'
        BY <2>1, <2>2, Starts DEF ShapeAt
    <2>4. QED
        BY <2>1, <2>2, <2>3, Starts
<1>8. ASSUME NEW n \in Notices, PendingRead(p, n) PROVE Requested
    <2>1. /\ CaseOfNotice[n] \in Cases /\ Start(p, "pending", CaseOfNotice[n], n, "none", "serve")
          /\ "pending" \in Ops /\ "serve" \in Steps
          /\ n \in Cases \cup Offers \cup Notices \cup {None}
          /\ "none" \in TenancyStatus \cup {"none"}
        BY <1>8, RenewalAssumption DEF PendingRead, Ops, Steps
    <2>2. /\ pc'[p] = "serve" /\ req'[p].op = "pending" /\ req'[p].item = n
          /\ req'[p].case \in Cases /\ req'[p].tenancy \in Tenancies
        BY <2>1, Starts
    <2>3. ShapeAt(p)'
        BY <2>2 DEF ShapeAt
    <2>4. QED
        BY <2>1, <2>3, Starts
<1>9. QED
    BY <1>1, <1>2, <1>3, <1>4, <1>5, <1>6, <1>7, <1>8 DEF Arrive

LEMMA Continuing ==
    ASSUME Well, NEW p \in Requests, Continue(p)
    PROVE  Requested
<1> USE DEF Requested
<1>1. CASE OpenCreate(p)
    <2>1. PICK k \in Cases : /\ Goto(p, "create", "record")
                             /\ req' = [req EXCEPT ![p].case = k, ![p].item = k]
        BY <1>1 DEF OpenCreate
    <2> DEFINE r == [req[p] EXCEPT !.case = k, !.item = k]
    <2>2. r \in Request /\ r.op = req[p].op /\ r.item = k
        BY DEF Well, RenewalTypeOK, Request
    <2>3. /\ pc[p] = "create" /\ req[p].op = "open"
          /\ pc' = [pc EXCEPT ![p] = "record"] /\ req' = [req EXCEPT ![p] = r]
        BY <2>1 DEF Goto, Well, RenewalTypeOK, Shape, ShapeAt
    <2> HIDE DEF r
    <2>4. pc'[p] = "record" /\ req'[p] = r
        BY <2>3 DEF Well, RenewalTypeOK
    <2>5. ShapeAt(p)' /\ "record" \in Steps
        BY <2>2, <2>3, <2>4 DEF ShapeAt, Steps
    <2>6. QED
        BY <2>2, <2>3, <2>5, Moves
<1>2. CASE ReadVersion(p)
    <2>1. PICK last \in {0} \cup {offer[o].version : o \in Offers} :
            /\ Goto(p, "version", "insert")
            /\ req' = [req EXCEPT ![p].version = last + 1]
        BY <1>2 DEF ReadVersion, NextVersion
    <2>2. last \in Nat
        BY DEF Well, RenewalTypeOK, Offer
    <2> DEFINE r == [req[p] EXCEPT !.version = last + 1]
    <2>3. /\ r \in Request /\ r.op = req[p].op /\ r.version # 0 /\ r.case = req[p].case
          /\ r.tenancy = req[p].tenancy /\ r.target = req[p].target
        BY <2>2 DEF Well, RenewalTypeOK, Request
    <2>4. /\ pc[p] = "version"
          /\ pc' = [pc EXCEPT ![p] = "insert"] /\ req' = [req EXCEPT ![p] = r]
        BY <2>1 DEF Goto, Well, RenewalTypeOK
    <2>5. /\ req[p].op \in {"propose", "counter"} /\ req[p].case \in Cases
          /\ req[p].op = "propose" => req[p].tenancy \in Tenancies /\ req[p].target \in TenancyStatus
        BY <2>4 DEF Well, Shape, ShapeAt
    <2> HIDE DEF r
    <2>6. pc'[p] = "insert" /\ req'[p] = r
        BY <2>4 DEF Well, RenewalTypeOK
    <2>7. ShapeAt(p)' /\ "insert" \in Steps
        BY <2>3, <2>5, <2>6 DEF ShapeAt, Steps
    <2>8. QED
        BY <2>3, <2>4, <2>7, Moves
<1>3. CASE InsertOffer(p)
    <2>1. PICK o \in Offers : Goto(p, "insert", "point") /\ req' = [req EXCEPT ![p].item = o]
        BY <1>3 DEF InsertOffer
    <2> DEFINE r == [req[p] EXCEPT !.item = o]
    <2>2. /\ r \in Request /\ r.op = req[p].op /\ r.item = o /\ r.case = req[p].case
          /\ r.tenancy = req[p].tenancy /\ r.target = req[p].target
        BY DEF Well, RenewalTypeOK, Request
    <2>3. /\ pc[p] = "insert"
          /\ pc' = [pc EXCEPT ![p] = "point"] /\ req' = [req EXCEPT ![p] = r]
        BY <2>1 DEF Goto, Well, RenewalTypeOK
    <2>4. /\ req[p].op \in {"propose", "counter"} /\ req[p].case \in Cases
          /\ req[p].op = "propose" => req[p].tenancy \in Tenancies /\ req[p].target \in TenancyStatus
        BY <2>3 DEF Well, Shape, ShapeAt
    <2> HIDE DEF r
    <2>5. pc'[p] = "point" /\ req'[p] = r
        BY <2>3 DEF Well, RenewalTypeOK
    <2>6. ShapeAt(p)' /\ "point" \in Steps
        BY <2>2, <2>4, <2>5 DEF ShapeAt, Steps
    <2>7. QED
        BY <2>2, <2>3, <2>6, Moves
<1>4. CASE PointCase(p)
    <2>1. CASE req[p].op = "propose" /\ Goto(p, "point", "moveRead") /\ UNCHANGED req
        <3>1. pc[p] = "point" /\ pc'[p] = "moveRead" /\ req'[p] = req[p] /\ "moveRead" \in Steps
            BY <2>1 DEF Goto, Well, RenewalTypeOK, Steps
        <3>2. ShapeAt(p)'
            BY <2>1, <3>1 DEF ShapeAt, Well, Shape
        <3>3. QED
            BY <2>1, <3>1, <3>2, GoesOn
    <2>2. CASE Leave(p, "point")
        BY <2>2, Ends DEF Leave
    <2>3. QED
        BY <1>4, <2>1, <2>2 DEF PointCase
<1>5. CASE MoveRead(p)
    <2>1. CASE Goto(p, "moveRead", "moveWrite") /\ UNCHANGED req
        <3>1. pc[p] = "moveRead" /\ pc'[p] = "moveWrite" /\ req'[p] = req[p]
              /\ "moveWrite" \in Steps
            BY <2>1 DEF Goto, Well, RenewalTypeOK, Steps
        <3>2. ShapeAt(p)'
            BY <3>1 DEF ShapeAt, Well, Shape
        <3>3. QED
            BY <2>1, <3>1, <3>2, GoesOn
    <2>2. CASE Done(p, "moveRead")
        BY <2>2, Dones
    <2>3. CASE Leave(p, "moveRead")
        BY <2>3, Ends DEF Leave
    <2>4. QED
        BY <1>5, <2>1, <2>2, <2>3 DEF MoveRead
<1>6. CASE MoveWrite(p)
    BY <1>6, Dones DEF MoveWrite
<1>7. CASE Mint(p)
    <2>1. Goto(p, "mint", "record") /\ UNCHANGED req /\ "record" \in Steps
        BY <1>7 DEF Mint, Steps
    <2>2. pc[p] = "mint" /\ pc'[p] = "record" /\ req'[p] = req[p]
        BY <2>1 DEF Goto, Well, RenewalTypeOK
    <2>3. ShapeAt(p)'
        BY <2>2 DEF ShapeAt, Well, Shape
    <2>4. QED
        BY <2>1, <2>3, GoesOn
<1>8. CASE ServeWrite(p)
    <2>1. PICK to \in {"record", "moveRead"} :
            /\ Goto(p, "serve", to) /\ UNCHANGED req /\ req[p].op = "serve"
            /\ to = "moveRead" => req[p].target # "none"
        BY <1>8 DEF ServeWrite
    <2>2. /\ pc[p] = "serve" /\ pc'[p] = to /\ req'[p] = req[p] /\ to \in Steps
          /\ to = "moveRead" => req[p].target \in TenancyStatus
        BY <2>1 DEF Goto, Well, RenewalTypeOK, Steps, Request
    <2>3. ShapeAt(p)'
        BY <2>1, <2>2 DEF ShapeAt, Well, Shape
    <2>4. QED
        BY <2>1, <2>2, <2>3, GoesOn
<1>9. CASE End(p)
    BY <1>9, Ends
<1>10. QED
    BY <1>1, <1>2, <1>3, <1>4, <1>5, <1>6, <1>7, <1>8, <1>9
       DEF Continue, OpenLost, VersionTaken, PointRefused, MintRefused, ApproveWrite,
           PendingWrite, ServeRefused, Record, Leave

-----------------------------------------------------------------------------
(* The tables *)

OffersTyped == /\ offer \in [Offers -> Offer]
               /\ \A o \in Offers : offer[o].status = "absent" <=> offer[o].version = 0

Tables ==
    /\ case \in [Cases -> Case]
    /\ OffersTyped
    /\ notice \in [Notices -> NoticeStatus]
    /\ tenancy \in [Tenancies -> TenancyStatus]
    /\ successor \in [Tenancies -> Cases \cup {None}]
    /\ log \in [Events -> Nat]

LEMMA WellIs == Well <=> /\ Tables /\ pc \in [Requests -> Steps] /\ req \in [Requests -> Request]
                         /\ died \in BOOLEAN /\ Shape
<1> QED
    BY DEF Well, RenewalTypeOK, Tables, OffersTyped

LEMMA CaseFields ==
    ASSUME Well, NEW k \in Cases
    PROVE  /\ case[k] \in Case
           /\ \A s \in CaseStatus : [case[k] EXCEPT !.status = s] \in Case
           /\ \A s \in CaseStatus : \A o \in Offers : 
                /\ [case[k] EXCEPT !.status = s, !.current = o] \in Case
                /\ [case[k] EXCEPT !.status = s, !.decided = o, !.current = o] \in Case
           /\ \A s \in CaseStatus : [case[k] EXCEPT !.status = s, !.minted = TRUE] \in Case
<1> QED
    BY DEF Well, RenewalTypeOK, Case

\* Superseding the open offers of a case touches nothing but their status.
LEMMA SupersededTyped ==
    ASSUME OffersTyped, NEW k, NEW except
    PROVE  /\ Superseded(k, except) \in [Offers -> Offer]
           /\ \A o \in Offers :
                LET s == Superseded(k, except)[o] IN
                /\ s.version = offer[o].version
                /\ \/ s.status = offer[o].status
                   \/ /\ offer[o].status = "OPEN" /\ s.status = "SUPERSEDED"
                      /\ CaseOf[o] = k
                /\ o = except => s = offer[o]
<1> DEFINE gone(o) == [offer[o] EXCEPT !.status = "SUPERSEDED"]
           hit(o) == CaseOf[o] = k /\ IsOpen(o) /\ o # except
<1>1. \A o \in Offers : /\ gone(o) \in Offer /\ offer[o] \in Offer
                        /\ gone(o).version = offer[o].version /\ gone(o).status = "SUPERSEDED"
    BY DEF OffersTyped, Offer, OfferStatus
<1>2. \A o \in Offers : hit(o) => CaseOf[o] = k /\ offer[o].status = "OPEN" /\ o # except
    BY DEF IsOpen
<1>3. Superseded(k, except) = [o \in Offers |-> IF hit(o) THEN gone(o) ELSE offer[o]]
    BY DEF Superseded
<1> HIDE DEF gone, hit
<1>4. \A o \in Offers :
        \/ hit(o) /\ Superseded(k, except)[o] = gone(o)
        \/ ~hit(o) /\ Superseded(k, except)[o] = offer[o]
    BY <1>3
<1>5. Superseded(k, except) \in [Offers -> Offer]
    BY <1>1, <1>3
<1> DEFINE new == Superseded(k, except)
<1> HIDE DEF new
<1>6. ASSUME NEW o \in Offers
      PROVE  /\ new[o].version = offer[o].version
             /\ \/ new[o].status = offer[o].status
                \/ /\ offer[o].status = "OPEN" /\ new[o].status = "SUPERSEDED" /\ CaseOf[o] = k
             /\ o = except => new[o] = offer[o]
    BY <1>1, <1>2, <1>4 DEF new
<1>7. QED
    BY <1>5, <1>6 DEF new

LEMMA ArrivingTyped ==
    ASSUME Well, NEW p \in Requests, Arrive(p)
    PROVE  Tables'
<1> USE WellIs
<1>1. ASSUME NEW k \in Cases, NEW op \in {"propose", "counter"}, Propose(p, k, op) PROVE Tables'
    <2>1. offer' = Superseded(k, None) /\ UNCHANGED <<case, notice, tenancy, successor, log>>
        BY <1>1 DEF Propose
    <2>2. OffersTyped'
        BY <2>1, SupersededTyped DEF OffersTyped, Tables
    <2>3. QED
        BY <2>1, <2>2 DEF Tables
<1>2. ASSUME NEW o \in Offers, Accept(p, o) PROVE Tables'
    <2> DEFINE k == CaseOf[o]
               s == Superseded(k, o)
    <2>1. /\ offer' = [s EXCEPT ![o].status = "ACCEPTED"]
          /\ case' = [case EXCEPT ![k].status = "AGREED", ![k].decided = o, ![k].current = o]
          /\ offer[o].status = "OPEN"
          /\ UNCHANGED <<notice, tenancy, successor, log>>
        BY <1>2 DEF Accept, CanAccept, IsOpen
    <2>2. s \in [Offers -> Offer] /\ \A q \in Offers : s[q].version = offer[q].version
            /\ (s[q].status = "absent" <=> offer[q].status = "absent")
        BY SupersededTyped DEF Tables
    <2> HIDE DEF s
    <2>3. OffersTyped'
        BY <2>1, <2>2 DEF OffersTyped, Tables, Offer, OfferStatus
    <2>4. k \in Cases /\ "AGREED" \in CaseStatus
        BY RenewalAssumption DEF CaseStatus
    <2> HIDE DEF k
    <2>5. case' = [case EXCEPT ![k] = [case[k] EXCEPT !.status = "AGREED", !.decided = o,
                                                      !.current = o]]
        BY <2>1, <2>4 DEF Tables, Case
    <2>6. case' \in [Cases -> Case]
        BY <2>4, <2>5, CaseFields DEF Tables
    <2>7. QED
        BY <2>1, <2>3, <2>6 DEF Tables
<1>3. CASE UNCHANGED <<case, offer, notice, tenancy, successor, log>>
    BY <1>3 DEF Tables, OffersTyped
<1>4. QED
    BY <1>1, <1>2, <1>3 DEF Arrive, OpenRead, SetStatus, MintRead, ApproveRead, ServeRead, PendingRead

LEMMA ContinuingTyped ==
    ASSUME Well, NEW p \in Requests, Continue(p)
    PROVE  Tables'
<1> USE WellIs
<1>1. CASE OpenCreate(p)
    <2>1. PICK k \in Cases : case' = [case EXCEPT ![k].status = "ASSESSING"]
        BY <1>1 DEF OpenCreate
    <2>2. case' \in [Cases -> Case]
        BY <2>1, CaseFields DEF Tables, CaseStatus
    <2>3. QED
        BY <1>1, <2>2 DEF OpenCreate, Tables, OffersTyped
<1>2. CASE InsertOffer(p)
    <2>1. PICK o \in Offers :
            offer' = [offer EXCEPT ![o] = [status |-> "OPEN", version |-> req[p].version]]
        BY <1>2 DEF InsertOffer
    <2>2. req[p].version \in Nat /\ req[p].version # 0
        BY <1>2 DEF InsertOffer, Goto, Shape, ShapeAt, Request
    <2>3. OffersTyped'
        BY <2>1, <2>2 DEF OffersTyped, Tables, Offer, OfferStatus
    <2>4. QED
        BY <1>2, <2>3 DEF InsertOffer, Tables
<1>3. CASE PointCase(p)
    <2> DEFINE k == req[p].case
               o == req[p].item
    <2>1. pc[p] = "point" /\ case' = [case EXCEPT ![k].status = "NEGOTIATING", ![k].current = o]
        BY <1>3 DEF PointCase, Goto, Leave
    <2>2. k \in Cases /\ o \in Offers /\ "NEGOTIATING" \in CaseStatus
        BY <2>1 DEF Shape, ShapeAt, CaseStatus
    <2> HIDE DEF k, o
    <2>3. case' = [case EXCEPT ![k] = [case[k] EXCEPT !.status = "NEGOTIATING", !.current = o]]
        BY <2>1, <2>2 DEF Tables, Case
    <2>4. case' \in [Cases -> Case]
        BY <2>2, <2>3, CaseFields DEF Tables
    <2>5. QED
        BY <1>3, <2>4 DEF PointCase, Tables, OffersTyped
<1>4. CASE MoveWrite(p)
    <2>1. pc[p] = "moveWrite" /\ tenancy' = [tenancy EXCEPT ![req[p].tenancy] = req[p].target]
        BY <1>4 DEF MoveWrite, Done, Goto, Leave
    <2>2. tenancy' \in [Tenancies -> TenancyStatus]
        BY <2>1 DEF Tables, Shape, ShapeAt
    <2>3. QED
        BY <1>4, <2>2 DEF MoveWrite, Tables, OffersTyped
<1>5. CASE Mint(p)
    <2> DEFINE k == req[p].case
    <2>1. /\ pc[p] = "mint"
          /\ case' = [case EXCEPT ![k].status = "RENEWED", ![k].minted = TRUE]
          /\ successor' = [successor EXCEPT ![TenancyOf[k]] = k]
          /\ tenancy' = [tenancy EXCEPT ![TenancyOf[k]] = "RENEWED"]
        BY <1>5 DEF Mint, Goto
    <2>2. /\ k \in Cases /\ TenancyOf[k] \in Tenancies
          /\ "RENEWED" \in CaseStatus /\ "RENEWED" \in TenancyStatus
        BY <2>1, RenewalAssumption DEF Shape, ShapeAt, CaseStatus, TenancyStatus
    <2> HIDE DEF k
    <2>3. case' = [case EXCEPT ![k] = [case[k] EXCEPT !.status = "RENEWED", !.minted = TRUE]]
        BY <2>1, <2>2 DEF Tables, Case
    <2>4. case' \in [Cases -> Case]
        BY <2>2, <2>3, CaseFields DEF Tables
    <2>5. successor' \in [Tenancies -> Cases \cup {None}] /\ tenancy' \in [Tenancies -> TenancyStatus]
        BY <2>1, <2>2 DEF Tables
    <2>6. QED
        BY <1>5, <2>4, <2>5 DEF Mint, Tables, OffersTyped
<1>6. CASE ApproveWrite(p) \/ PendingWrite(p)
    <2>1. PICK s \in {"APPROVED", "PENDING_EVIDENCE"} :
            notice' = [notice EXCEPT ![req[p].item] = s]
        BY <1>6 DEF ApproveWrite, PendingWrite
    <2>2. notice' \in [Notices -> NoticeStatus]
        BY <2>1 DEF Tables, NoticeStatus
    <2>3. QED
        BY <1>6, <2>2 DEF ApproveWrite, PendingWrite, Tables, OffersTyped
<1>7. CASE ServeWrite(p)
    <2> DEFINE k == req[p].case
    <2>1. /\ pc[p] = "serve" /\ case' = [case EXCEPT ![k].status = "NOTICE_SERVED"]
          /\ notice' = [notice EXCEPT ![req[p].item] = "SERVED"]
        BY <1>7 DEF ServeWrite, Goto
    <2>2. k \in Cases /\ "NOTICE_SERVED" \in CaseStatus
        BY <2>1 DEF Shape, ShapeAt, CaseStatus
    <2> HIDE DEF k
    <2>3. case' \in [Cases -> Case] /\ notice' \in [Notices -> NoticeStatus]
        BY <2>1, <2>2, CaseFields DEF Tables, NoticeStatus
    <2>4. QED
        BY <1>7, <2>3 DEF ServeWrite, Tables, OffersTyped
<1>8. CASE Record(p)
    <2>1. log' = [log EXCEPT ![<<Kinds[req[p].op], req[p].item>>] = @ + 1]
        BY <1>8 DEF Record
    <2> DEFINE e == <<Kinds[req[p].op], req[p].item>>
    <2> HIDE DEF e
    <2>a. log' = [log EXCEPT ![e] = log[e] + 1] /\ log \in [Events -> Nat]
        BY <2>1 DEF Tables, e
    <2>2. log' \in [Events -> Nat]
        <3>1. CASE e \in Events
            BY <2>a, <3>1
        <3>2. CASE e \notin Events
            BY <2>a, <3>2
        <3>3. QED
            BY <3>1, <3>2
    <2>3. QED
        BY <1>8, <2>2 DEF Record, Tables, OffersTyped
<1>9. CASE UNCHANGED <<case, offer, notice, tenancy, successor, log>>
    BY <1>9 DEF Tables, OffersTyped
<1>10. QED
    BY <1>1, <1>2, <1>3, <1>4, <1>5, <1>6, <1>7, <1>8, <1>9
       DEF Continue, OpenLost, ReadVersion, VersionTaken, PointRefused, MoveRead, MintRefused, ServeRefused

LEMMA WellStep ==
    ASSUME Well, [Next]_vars
    PROVE  Well'
<1>1. ASSUME NEW n \in Notices, PrepareNotice(n), UNCHANGED died PROVE Well'
    <2>1. notice' \in [Notices -> NoticeStatus]
        BY <1>1, WellIs DEF PrepareNotice, Tables, NoticeStatus
    <2>2. QED
        BY <1>1, <2>1 DEF PrepareNotice, Well, RenewalTypeOK, Shape, ShapeAt
<1>2. ASSUME NEW t \in Tenancies, Archive(t), UNCHANGED died PROVE Well'
    <2>1. tenancy' \in [Tenancies -> TenancyStatus]
        BY <1>2, WellIs DEF Archive, Tables, TenancyStatus
    <2>2. QED
        BY <1>2, <2>1 DEF Archive, Well, RenewalTypeOK, Shape, ShapeAt
<1>3. ASSUME NEW p \in Requests, Arrive(p) \/ Continue(p), UNCHANGED died PROVE Well'
    <2>1. Tables' /\ Requested
        BY <1>3, Arriving, Continuing, ArrivingTyped, ContinuingTyped
    <2>2. QED
        BY <1>3, <2>1 DEF Requested, Tables, OffersTyped, Well, RenewalTypeOK
<1>4. ASSUME NEW p \in Requests, Fail(p) PROVE Well'
    <2>1. Requested /\ died' \in BOOLEAN
        BY <1>4, Ends DEF Fail, Requested
    <2>2. QED
        BY <1>4, <2>1 DEF Fail, Requested, Well, RenewalTypeOK
<1>5. CASE UNCHANGED vars
    BY <1>5 DEF vars, Well, RenewalTypeOK, Shape, ShapeAt
<1>6. QED
    BY <1>1, <1>2, <1>3, <1>4, <1>5 DEF Next, AtOnce

LEMMA WellInit == Init => Well
<1> SUFFICES ASSUME Init PROVE Well
    OBVIOUS
<1>1. Tables
    BY RenewalAssumption DEF Init, Tables, OffersTyped, Case, CaseStatus, Offer, OfferStatus, NoticeStatus
<1>2. \A p \in Requests : pc[p] = "idle" /\ req[p].op = "none"
    BY DEF Init, NoRequest
<1>3. Shape
    BY <1>2 DEF Shape, ShapeAt
<1>4. pc \in [Requests -> Steps] /\ req \in [Requests -> Request] /\ died \in BOOLEAN
    BY NoRequestIsRequest DEF Init, Steps
<1>5. QED
    BY <1>1, <1>3, <1>4, WellIs

\* Every variable keeps its type; an offer has a version exactly when it exists,
\* and every request carries what its next statement needs.
THEOREM RenewalTypeCorrect == Spec => []RenewalTypeOK
<1>1. Well => RenewalTypeOK
    BY DEF Well
<1>2. QED
    BY <1>1, WellInit, WellStep, PTL DEF Spec

-----------------------------------------------------------------------------
(* Decisions *)

\* The three facts about a case that decisions are made of.
Same(k) == /\ case'[k].decided = case[k].decided
           /\ case'[k].minted = case[k].minted
           /\ case'[k].status = case[k].status
              \/ case'[k].status \in {"ASSESSING", "NEGOTIATING", "NOTICE_SERVED"}

Accepted(o) == offer[o].status = "ACCEPTED"

\* A step that decides nothing.
Indecisive == /\ \A k \in Cases : Same(k)
              /\ \A o \in Offers : Accepted(o)' <=> Accepted(o)
              /\ UNCHANGED successor

\* What an acceptance does.
Accepts(o) == /\ \A q \in Offers : CaseOf[q] = CaseOf[o] => ~Accepted(q)
              /\ \A q \in Offers : Accepted(q)' <=> (Accepted(q) \/ q = o)
              /\ \A k \in Cases \ {CaseOf[o]} : Same(k)
              /\ case'[CaseOf[o]].decided = o
              /\ case'[CaseOf[o]].minted = case[CaseOf[o]].minted
              /\ UNCHANGED successor

\* What a mint does.
Mints(k) == /\ case[k].status = "AGREED" /\ ~case[k].minted /\ successor[TenancyOf[k]] = None
            /\ successor' = [successor EXCEPT ![TenancyOf[k]] = k]
            /\ \A j \in Cases \ {k} : Same(j)
            /\ case'[k].decided = case[k].decided /\ case'[k].minted
            /\ \A o \in Offers : Accepted(o)' <=> Accepted(o)

LEMMA AcceptAccepts ==
    ASSUME Well, NEW p \in Requests, NEW o \in Offers, Accept(p, o)
    PROVE  Accepts(o)
<1> DEFINE k == CaseOf[o]
           s == Superseded(k, o)
<1>1. /\ offer' = [s EXCEPT ![o].status = "ACCEPTED"]
      /\ case' = [case EXCEPT ![k].status = "AGREED", ![k].decided = o, ![k].current = o]
      /\ \A q \in Offers : CaseOf[q] = k => ~Accepted(q)
      /\ UNCHANGED successor
    BY DEF Accept, CanAccept, OneAccepted, Accepted
<1>2. /\ s \in [Offers -> Offer]
      /\ \A q \in Offers : s[q].status = "ACCEPTED" <=> Accepted(q)
    BY SupersededTyped, WellIs DEF Tables, Accepted
<1>3. k \in Cases
    BY RenewalAssumption
<1> HIDE DEF s, k
<1>4. \A q \in Offers : Accepted(q)' <=> (Accepted(q) \/ q = o)
    BY <1>1, <1>2 DEF Accepted, Offer
<1>5. \A j \in Cases \ {k} : Same(j)
    BY <1>1, <1>3, WellIs DEF Same, Tables
<1>6. case'[k].decided = o /\ case'[k].minted = case[k].minted
    BY <1>1, <1>3, WellIs DEF Tables, Case
<1>7. QED
    BY <1>1, <1>4, <1>5, <1>6 DEF Accepts, k

LEMMA MintMints ==
    ASSUME Well, NEW p \in Requests, Mint(p)
    PROVE  pc[p] = "mint" /\ req[p].case \in Cases /\ Mints(req[p].case)
<1> DEFINE k == req[p].case
<1>1. /\ pc[p] = "mint"
      /\ case[k].status = "AGREED" /\ ~case[k].minted /\ successor[TenancyOf[k]] = None
      /\ successor' = [successor EXCEPT ![TenancyOf[k]] = k]
      /\ case' = [case EXCEPT ![k].status = "RENEWED", ![k].minted = TRUE]
      /\ UNCHANGED offer
    BY DEF Mint, Goto, StillAgreed
<1>2. k \in Cases
    BY <1>1 DEF Well, Shape, ShapeAt
<1> HIDE DEF k
<1>3. \A j \in Cases \ {k} : Same(j)
    BY <1>1, <1>2, WellIs DEF Same, Tables
<1>4. case'[k].decided = case[k].decided /\ case'[k].minted
    BY <1>1, <1>2, WellIs DEF Tables, Case
<1>5. QED
    BY <1>1, <1>2, <1>3, <1>4 DEF Mints, Accepted, k

\* Every other step of a request is indecisive.
LEMMA RestIndecisive ==
    ASSUME Well, NEW p \in Requests, Arrive(p) \/ Continue(p)
    PROVE  Indecisive \/ Mint(p) \/ \E o \in Offers : Accept(p, o)
<1> USE WellIs
<1>1. ASSUME NEW k \in Cases, NEW op \in {"propose", "counter"}, Propose(p, k, op) PROVE Indecisive
    <2>1. offer' = Superseded(k, None) /\ UNCHANGED <<case, successor>>
        BY <1>1 DEF Propose
    <2>2. \A o \in Offers : Accepted(o)' <=> Accepted(o)
        BY <2>1, SupersededTyped DEF Accepted, Tables
    <2>3. QED
        BY <2>1, <2>2 DEF Indecisive, Same
<1>2. CASE InsertOffer(p)
    <2>1. PICK o \in Offers :
            /\ offer[o].status = "absent"
            /\ offer' = [offer EXCEPT ![o] = [status |-> "OPEN", version |-> req[p].version]]
        BY <1>2 DEF InsertOffer
    <2>2. \A q \in Offers : Accepted(q)' <=> Accepted(q)
        BY <2>1 DEF Accepted, Tables, OffersTyped
    <2>3. QED
        BY <1>2, <2>2 DEF InsertOffer, Indecisive, Same
<1>3. ASSUME NEW k \in Cases, NEW o, NEW s \in {"ASSESSING", "NEGOTIATING", "NOTICE_SERVED"},
             case' = [case EXCEPT ![k].status = s, ![k].current = o]
             \/ case' = [case EXCEPT ![k].status = s],
             UNCHANGED <<offer, successor>>
      PROVE  Indecisive
    <2>1. ASSUME NEW j \in Cases PROVE Same(j)
        <3>1. CASE j = k
            BY <1>3, <3>1 DEF Same, Tables, Case
        <3>2. CASE j # k
            BY <1>3, <3>2 DEF Same, Tables
        <3>3. QED
            BY <3>1, <3>2
    <2>2. QED
        BY <1>3, <2>1 DEF Indecisive, Accepted
<1>4. CASE OpenCreate(p)
    BY <1>3, <1>4 DEF OpenCreate
<1>5. CASE PointCase(p)
    <2>1. pc[p] = "point" /\ req[p].case \in Cases
        BY <1>5 DEF PointCase, Goto, Leave, Shape, ShapeAt
    <2>2. QED
        BY <1>3, <1>5, <2>1 DEF PointCase
<1>6. CASE ServeWrite(p)
    <2>1. pc[p] = "serve" /\ req[p].case \in Cases
        BY <1>6 DEF ServeWrite, Goto, Shape, ShapeAt
    <2>2. QED
        BY <1>3, <1>6, <2>1 DEF ServeWrite
<1>7. CASE UNCHANGED <<case, offer, successor>>
    BY <1>7 DEF Indecisive, Same, Accepted
<1>8. CASE Arrive(p)
    BY <1>1, <1>7, <1>8
       DEF Arrive, OpenRead, SetStatus, MintRead, ApproveRead, ServeRead, PendingRead
<1>9. CASE Continue(p)
    BY <1>2, <1>4, <1>5, <1>6, <1>7, <1>9
       DEF Continue, OpenLost, ReadVersion, VersionTaken, PointRefused, MoveRead, MoveWrite,
           MintRefused, ApproveWrite, PendingWrite, ServeRefused, Record
<1>10. QED
    BY <1>8, <1>9

LEMMA DecisionKinds ==
    ASSUME Well, [Next]_vars
    PROVE  Indecisive \/ (\E o \in Offers : Accepts(o)) \/ (\E k \in Cases : Mints(k))
<1>1. CASE UNCHANGED <<case, offer, successor>>
    BY <1>1 DEF Indecisive, Same, Accepted
<1>2. ASSUME NEW p \in Requests, Arrive(p) \/ Continue(p)
      PROVE  Indecisive \/ (\E o \in Offers : Accepts(o)) \/ (\E k \in Cases : Mints(k))
    BY <1>2, RestIndecisive, MintMints, AcceptAccepts
<1>3. QED
    BY <1>1, <1>2 DEF Next, AtOnce, PrepareNotice, Archive, Fail, vars

LEMMA DecisionStep ==
    ASSUME Well, DecisionStands, [Next]_vars
    PROVE  DecisionStands'
<1> USE RenewalAssumption
<1>1. CASE Indecisive
    BY <1>1 DEF Indecisive, Same, DecisionStands, Accepted
<1>2. ASSUME NEW o \in Offers, Accepts(o) PROVE DecisionStands'
    <2>1. ASSUME NEW k \in Cases, NEW q \in Offers
          PROVE  case'[k].decided = q <=> (CaseOf[q] = k /\ Accepted(q)')
        <3>1. CASE k = CaseOf[o]
            BY <1>2, <3>1 DEF Accepts
        <3>2. CASE k # CaseOf[o]
            BY <1>2, <3>2 DEF Accepts, Same, DecisionStands, Accepted
        <3>3. QED
            BY <3>1, <3>2
    <2>2. ASSUME NEW k \in Cases
          PROVE  case'[k].status \in {"AGREED", "RENEWED"} => case'[k].decided # None
        <3>1. CASE k = CaseOf[o]
            BY <1>2, <3>1 DEF Accepts
        <3>2. CASE k # CaseOf[o]
            BY <1>2, <3>2 DEF Accepts, Same, DecisionStands
        <3>3. QED
            BY <3>1, <3>2
    <2>3. ASSUME NEW k \in Cases PROVE case'[k].minted <=> successor'[TenancyOf[k]] = k
        <3>1. case'[k].minted = case[k].minted /\ UNCHANGED successor
            BY <1>2 DEF Accepts, Same
        <3>2. QED
            BY <3>1 DEF DecisionStands
    <2>4. QED
        BY <2>1, <2>2, <2>3 DEF DecisionStands, Accepted
<1>3. ASSUME NEW k \in Cases, Mints(k) PROVE DecisionStands'
    <2>1. ASSUME NEW j \in Cases
          PROVE  /\ case'[j].decided = case[j].decided
                 /\ case'[j].status \in {"AGREED", "RENEWED"} => case'[j].decided # None
        <3>1. CASE j = k
            BY <1>3, <3>1 DEF Mints, DecisionStands
        <3>2. CASE j # k
            BY <1>3, <3>2 DEF Mints, Same, DecisionStands
        <3>3. QED
            BY <3>1, <3>2
    <2>2. ASSUME NEW j \in Cases PROVE case'[j].minted <=> successor'[TenancyOf[j]] = j
        <3>1. /\ TenancyOf[j] \in Tenancies /\ TenancyOf[k] \in Tenancies
              /\ successor \in [Tenancies -> Cases \cup {None}] /\ None \notin Cases
            BY WellIs DEF Tables
        <3>2. /\ successor' = [successor EXCEPT ![TenancyOf[k]] = k]
              /\ successor[TenancyOf[k]] = None
            BY <1>3 DEF Mints
        <3>3. CASE j = k
            BY <1>3, <3>1, <3>2, <3>3 DEF Mints
        <3>4. CASE j # k
            <4>1. case'[j].minted = case[j].minted
                BY <1>3, <3>4 DEF Mints, Same
            <4>2. CASE TenancyOf[j] = TenancyOf[k]
                BY <3>1, <3>2, <3>4, <4>1, <4>2 DEF DecisionStands
            <4>3. CASE TenancyOf[j] # TenancyOf[k]
                BY <3>1, <3>2, <4>1, <4>3 DEF DecisionStands
            <4>4. QED
                BY <4>2, <4>3
        <3>5. QED
            BY <3>3, <3>4
    <2>3. QED
        BY <1>3, <2>1, <2>2 DEF DecisionStands, Mints, Accepted
<1>4. QED
    BY <1>1, <1>2, <1>3, DecisionKinds

\* What is decided on a case is exactly its accepted offer, a case is agreed or
\* renewed only with one, and minted exactly when it succeeded its tenancy: for
\* any number of cases, offers and requests that overlap or die.
THEOREM DecisionStandsHolds == Spec => []DecisionStands
<1>1. Init => DecisionStands
    BY RenewalAssumption DEF Init, DecisionStands
<1>2. QED
    BY <1>1, WellInit, WellStep, DecisionStep, PTL DEF Spec

-----------------------------------------------------------------------------
(* What there is: offers and notices belong to cases that were opened *)

Opened(k) == case[k].status # "absent"

Grounded ==
    /\ \A o \in Offers : offer[o].status # "absent" => Opened(CaseOf[o])
    /\ \A n \in Notices : notice[n] # "absent" => Opened(CaseOfNotice[n])
    /\ \A p \in Requests :
            /\ pc[p] \in {"version", "insert", "point", "serve"} => Opened(req[p].case)
            /\ pc[p] \in {"approve", "serve"} => notice[req[p].item] # "absent"

\* A step of one request leaves the others where they are.
LEMMA Alone ==
    ASSUME Well, NEW p \in Requests, Arrive(p) \/ Continue(p) \/ Fail(p),
           NEW q \in Requests, q # p
    PROVE  pc'[q] = pc[q] /\ req'[q] = req[q]
<1>1. CASE \E to, r : pc' = [pc EXCEPT ![p] = to] /\ req' = [req EXCEPT ![p] = r]
    BY <1>1 DEF Well, RenewalTypeOK
<1>2. CASE \E to : pc' = [pc EXCEPT ![p] = to] /\ req' = req
    BY <1>2 DEF Well, RenewalTypeOK
<1>3. CASE End(p)
    BY <1>1, <1>3 DEF End
<1>4. ASSUME NEW op, NEW k, NEW item, NEW target, NEW to, Start(p, op, k, item, target, to)
      PROVE  pc'[q] = pc[q] /\ req'[q] = req[q]
    BY <1>1, <1>4 DEF Start
<1>5. ASSUME NEW from, NEW to, Goto(p, from, to), UNCHANGED req
      PROVE  pc'[q] = pc[q] /\ req'[q] = req[q]
    BY <1>2, <1>5 DEF Goto
<1>6. ASSUME NEW from, Done(p, from) PROVE pc'[q] = pc[q] /\ req'[q] = req[q]
    BY <1>3, <1>5, <1>6 DEF Done, Leave
<1>7. CASE OpenCreate(p) \/ ReadVersion(p) \/ InsertOffer(p)
    <2>1. /\ \E from, to : Goto(p, from, to)
          /\ \/ \E k : req' = [req EXCEPT ![p].case = k, ![p].item = k]
             \/ \E v : req' = [req EXCEPT ![p].version = v]
             \/ \E o : req' = [req EXCEPT ![p].item = o]
        BY <1>7 DEF OpenCreate, ReadVersion, InsertOffer
    <2>2. QED
        BY <2>1 DEF Goto, Well, RenewalTypeOK
<1>8. CASE Arrive(p)
    BY <1>1, <1>4, <1>8
       DEF Arrive, OpenRead, SetStatus, MintRead, Propose, Accept, ApproveRead, ServeRead, PendingRead
<1>9. CASE Continue(p)
    BY <1>3, <1>5, <1>6, <1>7, <1>9
       DEF Continue, OpenLost, VersionTaken, PointCase, PointRefused, MoveRead, MoveWrite, Mint,
           MintRefused, ApproveWrite, PendingWrite, ServeWrite, ServeRefused, Record, Leave
<1>10. QED
    BY <1>3, <1>8, <1>9 DEF Fail

\* Only an opening makes a case, and nothing unmakes one.
LEMMA OnlyOpening ==
    ASSUME Well, Grounded, NEW p \in Requests, Arrive(p) \/ Continue(p), NEW k \in Cases
    PROVE  /\ Opened(k) => Opened(k)'
           /\ ~OpenCreate(p) => (Opened(k)' => Opened(k))
<1> USE WellIs
<1>1. ASSUME NEW j \in Cases, Opened(j),
             NEW s \in CaseStatus \ {"absent"},
             \/ case' = [case EXCEPT ![j].status = s]
             \/ \E o : case' = [case EXCEPT ![j].status = s, ![j].current = o]
             \/ \E o : case' = [case EXCEPT ![j].status = s, ![j].decided = o, ![j].current = o]
             \/ \E o : case' = [case EXCEPT ![j].status = s, ![j].minted = o]
      PROVE  Opened(k)' <=> Opened(k)
    <2>1. CASE k = j
        <3>1. case[j].status # "absent" /\ case[j] \in Case /\ DOMAIN case = Cases
            BY <1>1 DEF Opened, Tables
        <3>2. case'[j].status = s
            <4>1. CASE case' = [case EXCEPT ![j].status = s]
                BY <3>1, <4>1 DEF Case
            <4>2. CASE \E o : case' = [case EXCEPT ![j].status = s, ![j].current = o]
                BY <3>1, <4>2 DEF Case
            <4>3. CASE \E o : case' = [case EXCEPT ![j].status = s, ![j].decided = o, ![j].current = o]
                BY <3>1, <4>3 DEF Case
            <4>4. CASE \E o : case' = [case EXCEPT ![j].status = s, ![j].minted = o]
                BY <3>1, <4>4 DEF Case
            <4>5. QED
                BY <1>1, <4>1, <4>2, <4>3, <4>4
        <3>3. QED
            BY <2>1, <3>1, <3>2 DEF Opened
    <2>2. CASE k # j
        BY <1>1, <2>2 DEF Opened, Tables
    <2>3. QED
        BY <2>1, <2>2
<1>2. CASE UNCHANGED case
    BY <1>2 DEF Opened
<1>3. ASSUME NEW o \in Offers, Accept(p, o) PROVE Opened(k)' <=> Opened(k)
    <2>1. CaseOf[o] \in Cases /\ Opened(CaseOf[o]) /\ "AGREED" \in CaseStatus \ {"absent"}
        BY <1>3, RenewalAssumption DEF Accept, CanAccept, IsOpen, Grounded, CaseStatus
    <2>2. QED
        BY <1>1, <1>3, <2>1 DEF Accept
<1>4. CASE PointCase(p)
    <2>1. req[p].case \in Cases /\ Opened(req[p].case) /\ "NEGOTIATING" \in CaseStatus \ {"absent"}
        BY <1>4 DEF PointCase, Goto, Leave, Shape, ShapeAt, Grounded, CaseStatus
    <2>2. QED
        BY <1>1, <1>4, <2>1 DEF PointCase
<1>5. CASE ServeWrite(p)
    <2>1. req[p].case \in Cases /\ Opened(req[p].case) /\ "NOTICE_SERVED" \in CaseStatus \ {"absent"}
        BY <1>5 DEF ServeWrite, Goto, Shape, ShapeAt, Grounded, CaseStatus
    <2>2. QED
        BY <1>1, <1>5, <2>1 DEF ServeWrite
<1>6. CASE Mint(p)
    <2>1. req[p].case \in Cases /\ Opened(req[p].case) /\ "RENEWED" \in CaseStatus \ {"absent"}
        BY <1>6, MintMints DEF Mints, Opened, CaseStatus
    <2>2. QED
        BY <1>1, <1>6, <2>1 DEF Mint
<1>7. CASE OpenCreate(p)
    <2>1. PICK j \in Cases : case' = [case EXCEPT ![j].status = "ASSESSING"]
        BY <1>7 DEF OpenCreate
    <2>2. Opened(k) => Opened(k)'
        <3>1. CASE k = j
            BY <2>1, <3>1 DEF Opened, Tables, Case
        <3>2. CASE k # j
            BY <2>1, <3>2 DEF Opened, Tables
        <3>3. QED
            BY <3>1, <3>2
    <2>3. QED
        BY <1>7, <2>2
<1>8. CASE Arrive(p)
    BY <1>2, <1>3, <1>8
       DEF Arrive, OpenRead, SetStatus, MintRead, Propose, ApproveRead, ServeRead, PendingRead
<1>9. CASE Continue(p)
    BY <1>2, <1>4, <1>5, <1>6, <1>7, <1>9
       DEF Continue, OpenLost, ReadVersion, InsertOffer, VersionTaken, PointRefused, MoveRead,
           MoveWrite, MintRefused, ApproveWrite, PendingWrite, ServeRefused, Record
<1>10. QED
    BY <1>8, <1>9

LEMMA GroundedStep ==
    ASSUME Well, Grounded, [Next]_vars
    PROVE  Grounded'
<1> USE WellIs, RenewalAssumption
<1>1. ASSUME NEW n \in Notices, PrepareNotice(n) PROVE Grounded'
    <2>1. \A m \in Notices : notice'[m] # "absent" => notice[m] # "absent" \/ m = n
        BY <1>1 DEF PrepareNotice, Tables
    <2>2. QED
        BY <1>1, <2>1 DEF PrepareNotice, Grounded, Opened
<1>2. ASSUME NEW p \in Requests, Arrive(p) \/ Continue(p) PROVE Grounded'
    <2>1. \A k \in Cases : Opened(k) => Opened(k)'
        BY <1>2, OnlyOpening
    <2>2. ASSUME NEW o \in Offers, offer'[o].status # "absent" PROVE Opened(CaseOf[o])
        <3>1. CASE offer[o].status # "absent"
            BY <3>1 DEF Grounded
        <3>2. CASE offer[o].status = "absent"
            <4>1. ASSUME NEW k \in Cases, NEW op \in {"propose", "counter"}, Propose(p, k, op)
                  PROVE  FALSE
                BY <2>2, <3>2, <4>1, SupersededTyped DEF Propose, Tables
            <4>2. ASSUME NEW q \in Offers, Accept(p, q) PROVE FALSE
                <5> DEFINE s == Superseded(CaseOf[q], q)
                <5>1. /\ offer' = [s EXCEPT ![q].status = "ACCEPTED"] /\ offer[q].status = "OPEN"
                      /\ s \in [Offers -> Offer] /\ s[o].status = "absent"
                    BY <3>2, <4>2, SupersededTyped DEF Accept, CanAccept, IsOpen, Tables
                <5> HIDE DEF s
                <5>2. QED
                    BY <2>2, <3>2, <5>1
            <4>3. CASE InsertOffer(p)
                <5>1. PICK q \in Offers :
                        /\ pc[p] = "insert" /\ CaseOf[q] = req[p].case
                        /\ offer' = [offer EXCEPT ![q] = [status |-> "OPEN",
                                                          version |-> req[p].version]]
                    BY <4>3 DEF InsertOffer, Goto
                <5>2. o = q
                    BY <2>2, <3>2, <5>1 DEF Tables, OffersTyped
                <5>3. QED
                    BY <5>1, <5>2 DEF Grounded
            <4>4. CASE UNCHANGED offer
                BY <2>2, <3>2, <4>4
            <4>5. QED
                BY <1>2, <4>1, <4>2, <4>3, <4>4
                   DEF Arrive, OpenRead, SetStatus, MintRead, ApproveRead, ServeRead, PendingRead,
                       Continue, OpenCreate, OpenLost, ReadVersion, VersionTaken, PointCase,
                       PointRefused, MoveRead, MoveWrite, Mint, MintRefused, ApproveWrite,
                       PendingWrite, ServeWrite, ServeRefused, Record
        <3>3. QED
            BY <3>1, <3>2
    <2>3. ASSUME NEW n \in Notices, notice'[n] # "absent" PROVE Opened(CaseOfNotice[n])
        <3>1. CASE ApproveWrite(p) \/ PendingWrite(p) \/ ServeWrite(p)
            <4>1. /\ pc[p] \in {"approve", "serve"}
                  /\ \E s : notice' = [notice EXCEPT ![req[p].item] = s]
                BY <3>1 DEF ApproveWrite, PendingWrite, ServeWrite, Leave, Goto
            <4>2. notice[n] # "absent"
                BY <2>3, <4>1 DEF Grounded, Tables
            <4>3. QED
                BY <4>2 DEF Grounded
        <3>2. CASE UNCHANGED notice
            BY <2>3, <3>2 DEF Grounded
        <3>3. QED
            BY <1>2, <3>1, <3>2
               DEF Arrive, OpenRead, SetStatus, MintRead, Propose, Accept, ApproveRead, ServeRead,
                   PendingRead, Continue, OpenCreate, OpenLost, ReadVersion, InsertOffer,
                   VersionTaken, PointCase, PointRefused, MoveRead, MoveWrite, Mint, MintRefused,
                   ServeRefused, Record
    <2>4. \A m \in Notices : notice[m] # "absent" => notice'[m] # "absent"
        <3>1. CASE \E i : \E s \in {"APPROVED", "PENDING_EVIDENCE", "SERVED"} :
                    notice' = [notice EXCEPT ![i] = s]
            BY <3>1 DEF Tables
        <3>2. CASE UNCHANGED notice
            BY <3>2
        <3>3. QED
            BY <1>2, <3>1, <3>2
               DEF Arrive, OpenRead, SetStatus, MintRead, Propose, Accept, ApproveRead, ServeRead,
                   PendingRead, Continue, OpenCreate, OpenLost, ReadVersion, InsertOffer,
                   VersionTaken, PointCase, PointRefused, MoveRead, MoveWrite, Mint, MintRefused,
                   ApproveWrite, PendingWrite, ServeWrite, ServeRefused, Record
    <2> DEFINE Here(q) ==
            /\ pc[q] \in {"version", "insert", "point", "serve"} => Opened(req[q].case)
            /\ pc[q] \in {"approve", "serve"} => notice[req[q].item] # "absent"
    <2>5. ASSUME NEW q \in Requests, q # p PROVE Here(q)'
        <3>1. pc'[q] = pc[q] /\ req'[q] = req[q] /\ Here(q) /\ ShapeAt(q)
            BY <1>2, <2>5, Alone DEF Grounded, Shape
        <3>2. QED
            BY <2>1, <2>4, <3>1 DEF ShapeAt
    <2>6. Here(p)'
        <3>1. CASE pc'[p] \notin {"version", "insert", "point", "serve", "approve"}
            BY <3>1
        <3>2. ASSUME NEW op \in Ops, NEW k \in Cases, NEW n \in Notices,
                     NEW target \in TenancyStatus \cup {"none"}, NEW to \in {"approve", "serve"},
                     Start(p, op, k, n, target, to), notice[n] # "absent", Opened(k)
              PROVE  Here(p)'
            <4>1. to \in Steps /\ n \in Cases \cup Offers \cup Notices \cup {None}
                BY DEF Steps
            <4>2. pc'[p] = to /\ req'[p].case = k /\ req'[p].item = n
                BY <3>2, <4>1, Starts
            <4>3. QED
                BY <2>1, <2>4, <3>2, <4>2
        <3>3. ASSUME NEW n \in Notices, ApproveRead(p, n) \/ ServeRead(p, n) \/ PendingRead(p, n)
              PROVE  Here(p)'
            <4>1. /\ notice[n] # "absent" /\ CaseOfNotice[n] \in Cases
                  /\ \E op \in {"approve", "serve", "pending"}, target \in {"none", "NOTICE_SERVED"},
                        to \in {"approve", "serve"} : Start(p, op, CaseOfNotice[n], n, target, to)
                BY <3>3 DEF ApproveRead, ServeRead, Servable, PendingRead
            <4>2. {"approve", "serve", "pending"} \subseteq Ops
                  /\ {"none", "NOTICE_SERVED"} \subseteq TenancyStatus \cup {"none"}
                BY KindsDomain DEF Ops, TenancyStatus
            <4>3. QED
                BY <3>2, <4>1, <4>2 DEF Grounded
        <3>4. ASSUME NEW k \in Cases, NEW op \in {"propose", "counter"}, Propose(p, k, op)
              PROVE  Here(p)'
            <4>1. /\ Opened(k)
                  /\ \E target : Start(p, op, k, None, target, "version")
                BY <3>4 DEF Propose, Opened
            <4>2. pc'[p] = "version" /\ req'[p].case = k
                BY <4>1 DEF Start, Tables
            <4>3. QED
                BY <2>1, <4>1, <4>2
        <3>5. CASE ReadVersion(p) \/ InsertOffer(p)
            <4>1. /\ pc[p] \in {"version", "insert"} /\ pc'[p] \in {"insert", "point"}
                  /\ req'[p].case = req[p].case
                BY <3>5 DEF ReadVersion, InsertOffer, Goto, Tables, Request
            <4>2. Opened(req[p].case) /\ req[p].case \in Cases
                BY <4>1 DEF Grounded, Shape, ShapeAt
            <4>3. QED
                BY <2>1, <4>1, <4>2
        <3>6. CASE End(p)
            BY <3>1, <3>6 DEF End
        <3>7. ASSUME NEW from, NEW to \in {"record", "moveRead", "moveWrite"}, Goto(p, from, to)
              PROVE  Here(p)'
            BY <3>1, <3>7 DEF Goto
        <3>8. CASE Arrive(p)
            <4>1. ASSUME pc' = [pc EXCEPT ![p] = "create"] \/ pc' = [pc EXCEPT ![p] = "moveRead"]
                         \/ pc' = [pc EXCEPT ![p] = "mint"]
                  PROVE  Here(p)'
                BY <3>1, <4>1
            <4>2. QED
                BY <3>3, <3>4, <3>8, <4>1 DEF Arrive, OpenRead, SetStatus, MintRead, Accept, Start
        <3>9. CASE Continue(p)
            BY <3>5, <3>6, <3>7, <3>9
               DEF Continue, OpenCreate, OpenLost, VersionTaken, PointCase, PointRefused, MoveRead,
                   MoveWrite, Mint, MintRefused, ApproveWrite, PendingWrite, ServeWrite, ServeRefused,
                   Record, Leave, Done
        <3>10. QED
            BY <1>2, <3>8, <3>9
    <2>7. \A q \in Requests : Here(q)'
        BY <2>5, <2>6
    <2>8. QED
        <3>1. \A o \in Offers : CaseOf[o] \in Cases
            OBVIOUS
        <3>2. \A n \in Notices : CaseOfNotice[n] \in Cases
            OBVIOUS
        <3>3. QED
            BY <2>1, <2>2, <2>3, <2>7, <3>1, <3>2 DEF Grounded
<1>3. ASSUME NEW p \in Requests, Fail(p) PROVE Grounded'
    <2>1. \A q \in Requests : q # p => pc'[q] = pc[q] /\ req'[q] = req[q]
        BY <1>3, Alone
    <2>2. pc'[p] = "idle"
        BY <1>3 DEF Fail, End
    <2>3. QED
        BY <1>3, <2>1, <2>2 DEF Fail, Grounded, Opened
<1>4. CASE UNCHANGED <<case, offer, notice, pc, req>>
    BY <1>4 DEF Grounded, Opened
<1>5. QED
    BY <1>1, <1>2, <1>3, <1>4 DEF Next, AtOnce, Archive, vars

-----------------------------------------------------------------------------
(* The timeline *)

ToldOps == {"open", "accept", "mint"}
Item(op) == IF op = "accept" THEN Offers ELSE Cases

\* How often the timeline has the event of an operation on x, whether it
\* happened, and whether a request is still to record it.
Row(op, x) == log[<<Kinds[op], x>>]
Did(op, x) == \/ op = "open" /\ Opened(x)
              \/ op = "accept" /\ Accepted(x)
              \/ op = "mint" /\ case[x].minted
Owes(p, op, x) == req[p].op = op /\ req[p].item = x /\ (op = "accept" \/ pc[p] = "record")

\* What a step of p does to one event: nothing, make it happen, or record it.
Quiet(p, op, x) == /\ Did(op, x)' <=> Did(op, x)
                   /\ Row(op, x)' = Row(op, x)
                   /\ Owes(p, op, x)' <=> Owes(p, op, x)
Begun(p, op, x) == ~Did(op, x) /\ Did(op, x)' /\ Row(op, x)' = Row(op, x) /\ Owes(p, op, x)'
Noted(p, op, x) == /\ Did(op, x)' <=> Did(op, x)
                   /\ Owes(p, op, x) /\ ~Owes(p, op, x)'
                   /\ Row(op, x)' = Row(op, x) + 1

LEMMA RowsApart ==
    ASSUME NEW a \in DOMAIN Kinds, NEW b \in DOMAIN Kinds, NEW x, NEW y
    PROVE  <<Kinds[a], x>> = <<Kinds[b], y>> <=> (a = b /\ x = y)
<1>1. Kinds[a] = Kinds[b] => a = b
    BY DEF Kinds
<1>2. QED
    BY <1>1

LEMMA RowsAreEvents ==
    ASSUME NEW op \in ToldOps, NEW x \in Item(op)
    PROVE  <<Kinds[op], x>> \in Events /\ <<Kinds[op], x>> \in Told
<1>1. CASE op = "open"
    BY <1>1 DEF Item, Events, Told, Kinds
<1>2. CASE op = "mint"
    BY <1>2 DEF Item, Events, Told, Kinds
<1>3. CASE op = "accept"
    BY <1>3 DEF Item, Events, Told, Kinds
<1>4. QED
    BY <1>1, <1>2, <1>3 DEF ToldOps

LEMMA RecordNotes ==
    ASSUME Well, NEW p \in Requests, Record(p), NEW op \in ToldOps, NEW x \in Item(op)
    PROVE  Quiet(p, op, x) \/ Noted(p, op, x)
<1> DEFINE e == <<Kinds[op], x>>
           f == <<Kinds[req[p].op], req[p].item>>
<1>1. /\ pc[p] = "record" /\ log' = [log EXCEPT ![f] = @ + 1]
      /\ UNCHANGED <<case, offer>> /\ End(p)
    BY DEF Record
<1>2. req[p].op \in DOMAIN Kinds /\ op \in DOMAIN Kinds
    BY <1>1, KindsDomain DEF Well, Shape, ShapeAt, ToldOps
<1>3. e = f <=> Owes(p, op, x)
    BY <1>1, <1>2, RowsApart DEF Owes
<1>4. e \in Events /\ log \in [Events -> Nat]
    BY RowsAreEvents, WellIs DEF Tables
<1>5. ~Owes(p, op, x)'
    <2>1. req'[p].op = "none"
        BY <1>1, WellIs DEF End, NoRequest, Tables
    <2>2. QED
        BY <2>1 DEF Owes, ToldOps
<1>6. Did(op, x)' <=> Did(op, x)
    BY <1>1 DEF Did, Opened, Accepted
<1> HIDE DEF e, f
<1>7. log'[e] = IF e = f THEN log[e] + 1 ELSE log[e]
    BY <1>1, <1>4
<1>8. Row(op, x)' = log'[e] /\ Row(op, x) = log[e]
    BY DEF Row, e
<1>9. CASE Owes(p, op, x)
    BY <1>3, <1>5, <1>6, <1>7, <1>8, <1>9 DEF Noted
<1>10. CASE ~Owes(p, op, x)
    BY <1>3, <1>5, <1>6, <1>7, <1>8, <1>10 DEF Quiet
<1>11. QED
    BY <1>9, <1>10

\* Nothing but Accept, Mint, OpenCreate and Record changes what p owes.
LEMMA OwesStays ==
    ASSUME Well, NEW p \in Requests, Arrive(p) \/ Continue(p), NEW op \in ToldOps, NEW x \in Item(op),
           ~\E o \in Offers : Accept(p, o), ~Mint(p), ~OpenCreate(p), ~Record(p)
    PROVE  Owes(p, op, x)' <=> Owes(p, op, x)
<1> USE WellIs
<1>1. ShapeAt(p)
    BY DEF Shape
<1>2. ASSUME pc[p] # "record", req[p].op # "accept", pc'[p] # "record", req'[p].op # "accept"
      PROVE  Owes(p, op, x)' <=> Owes(p, op, x)
    BY <1>2 DEF Owes
<1>3. ASSUME req[p].op \notin ToldOps, req'[p].op \notin ToldOps
      PROVE  Owes(p, op, x)' <=> Owes(p, op, x)
    BY <1>3 DEF Owes
<1>4. "none" \notin ToldOps /\ (End(p) => req'[p].op = "none")
    BY DEF ToldOps, End, NoRequest, Tables
<1>5. ASSUME NEW from \in {"create", "insert", "point", "mint", "approve", "serve"}, Leave(p, from)
      PROVE  Owes(p, op, x)' <=> Owes(p, op, x)
    BY <1>1, <1>2, <1>4, <1>5 DEF Leave, ShapeAt, End
<1>6. ASSUME NEW from \in {"moveRead", "moveWrite"}, Done(p, from)
      PROVE  Owes(p, op, x)' <=> Owes(p, op, x)
    <2>1. pc[p] = from /\ req[p].op \in {"propose", "accept", "serve", "status"}
        BY <1>1, <1>6 DEF Done, Goto, Leave, ShapeAt
    <2>2. CASE req[p].op = "accept"
        <3>1. req' = req
            BY <1>6, <2>2, KindsDomain DEF Done
        <3>2. QED
            BY <2>2, <3>1 DEF Owes
    <2>3. CASE req[p].op # "accept"
        <3>1. req' = req \/ req'[p].op = "none"
            BY <1>4, <1>6 DEF Done, Leave
        <3>2. QED
            BY <1>3, <2>1, <2>3, <3>1 DEF ToldOps
    <2>4. QED
        BY <2>2, <2>3
<1>7. CASE Arrive(p)
    <2>1. pc[p] = "idle" /\ req[p].op = "none"
        BY <1>1, <1>7 DEF Arrive, OpenRead, SetStatus, MintRead, Propose, Accept, ApproveRead,
                          ServeRead, PendingRead, Start, ShapeAt
    <2>2. ASSUME NEW o, NEW k, NEW item, NEW target, NEW to, Start(p, o, k, item, target, to),
                 o # "accept", to # "record"
          PROVE  pc'[p] # "record" /\ req'[p].op # "accept"
        BY <2>2 DEF Start, Tables
    <2>3. ASSUME NEW t, OpenRead(p, t) \/ (\E s \in StaffTargets : SetStatus(p, t, s))
          PROVE  pc'[p] # "record" /\ req'[p].op # "accept"
        BY <2>3 DEF OpenRead, SetStatus, NoRequest, Tables
    <2>4. pc'[p] # "record" /\ req'[p].op # "accept"
        <3>1. CASE \E t \in Tenancies :
                    OpenRead(p, t) \/ (\E s \in StaffTargets : SetStatus(p, t, s))
            BY <2>3, <3>1
        <3>2. ASSUME NEW k \in Cases, MintRead(p, k) \/ (\E o \in {"propose", "counter"} : Propose(p, k, o))
              PROVE  pc'[p] # "record" /\ req'[p].op # "accept"
            BY <2>2, <3>2 DEF MintRead, Propose
        <3>3. ASSUME NEW n \in Notices, ApproveRead(p, n) \/ ServeRead(p, n) \/ PendingRead(p, n)
              PROVE  pc'[p] # "record" /\ req'[p].op # "accept"
            BY <2>2, <3>3 DEF ApproveRead, ServeRead, PendingRead
        <3>4. QED
            BY <1>7, <3>1, <3>2, <3>3 DEF Arrive
    <2>5. QED
        BY <1>2, <2>1, <2>4
<1>8. CASE ReadVersion(p) \/ InsertOffer(p)
    <2>1. /\ pc[p] \in {"version", "insert"} /\ req'[p].op = req[p].op
        BY <1>8 DEF ReadVersion, InsertOffer, Goto, Tables, Request
    <2>2. QED
        BY <1>1, <1>3, <2>1 DEF ShapeAt, ToldOps
<1>9. CASE PointCase(p)
    <2>1. \/ req[p].op = "propose" /\ req' = req
          \/ Leave(p, "point")
        BY <1>9 DEF PointCase
    <2>2. QED
        BY <1>3, <1>5, <2>1 DEF ToldOps
<1>10. CASE MoveRead(p)
    <2>1. CASE Goto(p, "moveRead", "moveWrite") /\ UNCHANGED req
        <3>1. pc[p] = "moveRead" /\ pc'[p] = "moveWrite"
            BY <2>1 DEF Goto, Tables
        <3>2. QED
            BY <2>1, <3>1 DEF Owes
    <2>2. CASE Leave(p, "moveRead") /\ req[p].op \notin BestEffort
        <3>1. pc[p] = "moveRead" /\ pc'[p] = "idle" /\ req[p].op # "accept" /\ req'[p].op = "none"
            BY <1>4, <2>2 DEF Leave, End, BestEffort, Tables
        <3>2. QED
            BY <1>2, <3>1
    <2>3. QED
        BY <1>6, <1>10, <2>1, <2>2 DEF MoveRead
<1>11. CASE ServeWrite(p)
    BY <1>3, <1>11 DEF ServeWrite, ToldOps
<1>12. CASE Continue(p)
    BY <1>5, <1>6, <1>8, <1>9, <1>10, <1>11, <1>12
       DEF Continue, OpenLost, VersionTaken, PointRefused, MoveWrite, MintRefused, ApproveWrite,
           PendingWrite, ServeRefused
<1>13. QED
    BY <1>7, <1>12

\* The steps of a request, seen from one event.
LEMMA EventKinds ==
    ASSUME Well, Grounded, NEW p \in Requests, Arrive(p) \/ Continue(p),
           NEW op \in ToldOps, NEW x \in Item(op)
    PROVE  Quiet(p, op, x) \/ Begun(p, op, x) \/ Noted(p, op, x)
<1> USE WellIs
<1>1. op = "accept" => x \in Offers
    BY DEF Item
<1>2. op \in {"open", "mint"} => x \in Cases
    BY DEF Item
<1>3. CASE Record(p)
    BY <1>3, RecordNotes
<1>4. ASSUME NEW o \in Offers, Accept(p, o)
      PROVE  Quiet(p, op, x) \/ Begun(p, op, x)
    <2>1. Accepts(o) /\ UNCHANGED log /\ ~OpenCreate(p)
        BY <1>4, AcceptAccepts DEF Accept, Start, OpenCreate, Goto
    <2>2. pc[p] = "idle" /\ req[p].op = "none" /\ pc'[p] = "moveRead"
            /\ req'[p].op = "accept" /\ req'[p].item = o
        BY <1>4 DEF Accept, Start, Tables, Shape, ShapeAt
    <2>3. \A k \in Cases : case'[k].minted = case[k].minted
        BY <2>1 DEF Accepts, Same
    <2>4. \A k \in Cases : Opened(k)' <=> Opened(k)
        BY <2>1, OnlyOpening
    <2>5. CASE op = "accept" /\ x = o
        <3>1. ~Accepted(o) /\ Accepted(o)'
            BY <2>1 DEF Accepts
        <3>2. QED
            BY <2>1, <2>2, <2>5, <3>1 DEF Begun, Did, Row, Owes
    <2>6. CASE ~(op = "accept" /\ x = o)
        <3>1. Did(op, x)' <=> Did(op, x)
            BY <1>1, <1>2, <2>1, <2>3, <2>4, <2>6 DEF Did, Accepts, ToldOps
        <3>2. ~Owes(p, op, x) /\ ~Owes(p, op, x)'
            BY <2>2, <2>6 DEF Owes, ToldOps
        <3>3. QED
            BY <2>1, <3>1, <3>2 DEF Quiet, Row
    <2>7. QED
        BY <2>5, <2>6
<1>5. CASE Mint(p)
    <2> DEFINE k == req[p].case
    <2>1. pc[p] = "mint" /\ k \in Cases /\ Mints(k) /\ UNCHANGED log /\ ~OpenCreate(p)
        BY <1>5, MintMints DEF Mint, OpenCreate, Goto
    <2>2. req[p].op = "mint" /\ req[p].item = k /\ pc'[p] = "record" /\ req'[p] = req[p]
        BY <1>5, <2>1 DEF Mint, Goto, Tables, Shape, ShapeAt
    <2> HIDE DEF k
    <2>3. \A j \in Cases : Opened(j)' <=> Opened(j)
        BY <2>1, OnlyOpening
    <2>4. CASE op = "mint" /\ x = k
        BY <2>1, <2>2, <2>4 DEF Mints, Begun, Did, Row, Owes
    <2>5. CASE ~(op = "mint" /\ x = k)
        <3>1. \A j \in Cases : j # k => case'[j].minted = case[j].minted
            BY <2>1 DEF Mints, Same
        <3>2. Did(op, x)' <=> Did(op, x)
            BY <1>1, <1>2, <2>1, <2>3, <2>5, <3>1 DEF Did, Mints, ToldOps
        <3>3. ~Owes(p, op, x) /\ ~Owes(p, op, x)'
            BY <2>1, <2>2, <2>5 DEF Owes, ToldOps
        <3>4. QED
            BY <2>1, <3>2, <3>3 DEF Quiet, Row
    <2>6. QED
        BY <2>4, <2>5
<1>6. CASE OpenCreate(p)
    <2>1. PICK k \in Cases : /\ case[k].status = "absent"
                             /\ Goto(p, "create", "record")
                             /\ case' = [case EXCEPT ![k].status = "ASSESSING"]
                             /\ req' = [req EXCEPT ![p].case = k, ![p].item = k]
                             /\ UNCHANGED <<offer, log>>
        BY <1>6 DEF OpenCreate
    <2>2. pc[p] = "create" /\ req[p].op = "open" /\ pc'[p] = "record"
        BY <2>1 DEF Goto, Tables, Shape, ShapeAt
    <2>3. req'[p].op = "open" /\ req'[p].item = k
        BY <2>1, <2>2 DEF Tables, Request
    <2>4. \A j \in Cases : /\ Opened(j)' <=> (Opened(j) \/ j = k)
                           /\ case'[j].minted = case[j].minted
        BY <2>1 DEF Opened, Tables, Case
    <2>5. CASE op = "open" /\ x = k
        BY <2>1, <2>2, <2>3, <2>4, <2>5 DEF Begun, Did, Row, Owes, Opened
    <2>6. CASE ~(op = "open" /\ x = k)
        <3>1. Did(op, x)' <=> Did(op, x)
            BY <1>1, <1>2, <2>1, <2>4, <2>6 DEF Did, Accepted, ToldOps
        <3>2. ~Owes(p, op, x) /\ ~Owes(p, op, x)'
            BY <2>2, <2>3, <2>6 DEF Owes, ToldOps
        <3>3. QED
            BY <2>1, <3>1, <3>2 DEF Quiet, Row
    <2>7. QED
        BY <2>5, <2>6
<1>7. CASE ~(\E o \in Offers : Accept(p, o)) /\ ~Mint(p) /\ ~OpenCreate(p) /\ ~Record(p)
    <2>1. Owes(p, op, x)' <=> Owes(p, op, x)
        BY <1>7, OwesStays
    <2>2. Indecisive
        BY <1>7, RestIndecisive
    <2>3. \A k \in Cases : Opened(k)' <=> Opened(k)
        BY <1>7, OnlyOpening
    <2>4. Did(op, x)' <=> Did(op, x)
        BY <1>1, <1>2, <2>2, <2>3 DEF Did, Indecisive, Same, ToldOps
    <2>5. UNCHANGED log
        BY <1>7 DEF Arrive, OpenRead, SetStatus, MintRead, Propose, ApproveRead, ServeRead,
                    PendingRead, Continue, OpenLost, ReadVersion, InsertOffer, VersionTaken,
                    PointCase, PointRefused, MoveRead, MoveWrite, MintRefused, ApproveWrite,
                    PendingWrite, ServeWrite, ServeRefused
    <2>6. QED
        BY <2>1, <2>4, <2>5 DEF Quiet, Row
<1>8. QED
    BY <1>3, <1>4, <1>5, <1>6, <1>7

\* An event is recorded at most once, only after it happened, and while a request
\* still owes its record there is none and nobody else owes it; unless a request
\* died, an event that happened is recorded or owed.
LedgerAt(op, x) ==
    /\ Row(op, x) \in {0, 1}
    /\ Row(op, x) = 1 => Did(op, x)
    /\ \A p \in Requests : Owes(p, op, x) => Did(op, x) /\ Row(op, x) = 0
    /\ \A p, q \in Requests : Owes(p, op, x) /\ Owes(q, op, x) => p = q
    /\ ~died /\ Did(op, x) => Row(op, x) = 1 \/ \E p \in Requests : Owes(p, op, x)

Ledger == \A op \in ToldOps : \A x \in Item(op) : LedgerAt(op, x)

LEMMA LedgerMoves ==
    ASSUME Well, NEW p \in Requests, Arrive(p) \/ Continue(p), UNCHANGED died,
           NEW op \in ToldOps, NEW x \in Item(op), LedgerAt(op, x),
           Quiet(p, op, x) \/ Begun(p, op, x) \/ Noted(p, op, x)
    PROVE  LedgerAt(op, x)'
<1>1. \A q \in Requests \ {p} : Owes(q, op, x)' <=> Owes(q, op, x)
    BY Alone DEF Owes
<1> DEFINE row == Row(op, x)
           did == Did(op, x)
           owes(q) == Owes(q, op, x)
<1>2. /\ row \in {0, 1}
      /\ row = 1 => did
      /\ \A q \in Requests : owes(q) => did /\ row = 0
      /\ \A q, r \in Requests : owes(q) /\ owes(r) => q = r
      /\ ~died /\ did => row = 1 \/ \E q \in Requests : owes(q)
    BY DEF LedgerAt
<1>3. CASE Quiet(p, op, x)
    <2>1. row' = row /\ (did' <=> did) /\ \A q \in Requests : owes(q)' <=> owes(q)
        BY <1>1, <1>3 DEF Quiet
    <2> HIDE DEF row, did, owes
    <2>2. /\ row' \in {0, 1}
          /\ row' = 1 => did'
          /\ \A q \in Requests : owes(q)' => did' /\ row' = 0
          /\ \A q, r \in Requests : owes(q)' /\ owes(r)' => q = r
          /\ ~died' /\ did' => row' = 1 \/ \E q \in Requests : owes(q)'
        BY <1>2, <2>1
    <2>3. QED
        BY <2>2 DEF LedgerAt, row, did, owes
<1>4. CASE Begun(p, op, x)
    <2>1. row' = row /\ ~did /\ did' /\ owes(p)' /\ \A q \in Requests \ {p} : owes(q)' <=> owes(q)
        BY <1>1, <1>4 DEF Begun
    <2> HIDE DEF row, did, owes
    <2>2. /\ row' \in {0, 1}
          /\ row' = 1 => did'
          /\ \A q \in Requests : owes(q)' => did' /\ row' = 0
          /\ \A q, r \in Requests : owes(q)' /\ owes(r)' => q = r
          /\ ~died' /\ did' => row' = 1 \/ \E q \in Requests : owes(q)'
        BY <1>2, <2>1
    <2>3. QED
        BY <2>2 DEF LedgerAt, row, did, owes
<1>5. CASE Noted(p, op, x)
    <2>1. row' = row + 1 /\ (did' <=> did) /\ owes(p) /\ ~owes(p)'
            /\ \A q \in Requests \ {p} : owes(q)' <=> owes(q)
        BY <1>1, <1>5 DEF Noted
    <2> HIDE DEF row, did, owes
    <2>2. /\ row' \in {0, 1}
          /\ row' = 1 => did'
          /\ \A q \in Requests : owes(q)' => did' /\ row' = 0
          /\ \A q, r \in Requests : owes(q)' /\ owes(r)' => q = r
          /\ ~died' /\ did' => row' = 1 \/ \E q \in Requests : owes(q)'
        BY <1>2, <2>1
    <2>3. QED
        BY <2>2 DEF LedgerAt, row, did, owes
<1>6. QED
    BY <1>3, <1>4, <1>5

LEMMA LedgerStep ==
    ASSUME Well, Grounded, Ledger, [Next]_vars
    PROVE  Ledger'
<1> SUFFICES ASSUME NEW op \in ToldOps, NEW x \in Item(op) PROVE LedgerAt(op, x)'
    BY DEF Ledger, Item
<1>1. LedgerAt(op, x)
    BY DEF Ledger
<1>2. ASSUME NEW p \in Requests, Arrive(p) \/ Continue(p), UNCHANGED died PROVE LedgerAt(op, x)'
    BY <1>1, <1>2, EventKinds, LedgerMoves
<1>3. ASSUME NEW p \in Requests, Fail(p) PROVE LedgerAt(op, x)'
    <2>1. UNCHANGED <<case, offer, log>> /\ died'
        BY <1>3 DEF Fail
    <2>2. \A q \in Requests : Owes(q, op, x)' => Owes(q, op, x)
        <3>1. req'[p].op = "none"
            BY <1>3, WellIs DEF Fail, End, NoRequest
        <3>2. ~Owes(p, op, x)'
            BY <3>1 DEF Owes, ToldOps
        <3>3. QED
            BY <1>3, <3>2, Alone DEF Owes
    <2>3. Row(op, x)' = Row(op, x) /\ (Did(op, x)' <=> Did(op, x))
        BY <2>1 DEF Row, Did, Opened, Accepted
    <2>4. QED
        BY <1>1, <2>1, <2>2, <2>3 DEF LedgerAt
<1>4. CASE UNCHANGED <<case, offer, log, pc, req, died>>
    BY <1>1, <1>4 DEF LedgerAt, Row, Did, Owes, Opened, Accepted
<1>5. QED
    BY <1>2, <1>3, <1>4 DEF Next, AtOnce, PrepareNotice, Archive, vars

LEMMA LedgerInit == Init => Grounded /\ Ledger
<1> SUFFICES ASSUME Init PROVE Grounded /\ Ledger
    OBVIOUS
<1>1. \A p \in Requests : pc[p] = "idle" /\ req[p].op = "none"
    BY DEF Init, NoRequest
<1>2. Grounded
    BY <1>1 DEF Init, Grounded
<1>3. ASSUME NEW op \in ToldOps, NEW x \in Item(op) PROVE LedgerAt(op, x)
    <2>1. Row(op, x) = 0
        BY RowsAreEvents DEF Init, Row
    <2>2. ~Did(op, x)
        BY DEF Init, Did, Opened, Accepted, Item
    <2>3. \A p \in Requests : ~Owes(p, op, x)
        BY <1>1 DEF Owes, ToldOps
    <2>4. QED
        BY <2>1, <2>2, <2>3 DEF LedgerAt
<1>4. QED
    BY <1>2, <1>3 DEF Ledger

\* The events the timeline tells, by operation and item.
LEMMA EventsAreRows ==
    ASSUME NEW e \in Told
    PROVE  \E op \in ToldOps : \E x \in Item(op) : e = <<Kinds[op], x>> /\ (Happened(e) <=> Did(op, x))
<1>1. CASE e \in {Kinds.open, Kinds.mint} \X Cases
    BY <1>1 DEF Kinds, ToldOps, Item, Happened, Did, Opened
<1>2. CASE e \in {Kinds.accept} \X Offers
    BY <1>2 DEF Kinds, ToldOps, Item, Happened, Did, Accepted
<1>3. e \notin {Kinds.serve} \X Notices
    BY DEF Told, Kinds
<1>4. QED
    BY <1>1, <1>2, <1>3 DEF Told, Events

LEMMA LedgerTells ==
    ASSUME Well, Ledger
    PROVE  TimelineTrue /\ TimelineComplete
<1>1. ASSUME NEW e \in Told
      PROVE  /\ log[e] <= IF Happened(e) THEN 1 ELSE 0
             /\ (~died /\ \A p \in Requests : pc[p] = "idle") => (Happened(e) => log[e] = 1)
    <2>a. PICK op \in ToldOps :
            \E x \in Item(op) : e = <<Kinds[op], x>> /\ (Happened(e) <=> Did(op, x))
        BY EventsAreRows
    <2>1. PICK x \in Item(op) : e = <<Kinds[op], x>> /\ (Happened(e) <=> Did(op, x))
        BY <2>a
    <2>2. LedgerAt(op, x) /\ Row(op, x) = log[e]
        BY <2>1 DEF Ledger, Row
    <2>3. ASSUME NEW p \in Requests, pc[p] = "idle" PROVE ~Owes(p, op, x)
        <3>1. req[p].op = "none"
            BY <2>3 DEF Well, Shape, ShapeAt
        <3>2. QED
            BY <3>1 DEF Owes, ToldOps
    <2>4. QED
        BY <2>1, <2>2, <2>3 DEF LedgerAt
<1>2. QED
    BY <1>1 DEF TimelineTrue, TimelineComplete

\* The timeline never tells an opening, an acceptance or a mint twice, and never
\* one that did not happen, whichever requests overlap or die.
THEOREM TimelineTrueHolds == Spec => []TimelineTrue
<1>1. Well /\ Ledger => TimelineTrue
    BY LedgerTells
<1>2. QED
    BY <1>1, WellInit, WellStep, LedgerInit, GroundedStep, LedgerStep, PTL DEF Spec

\* When no request is under way and none has died, the timeline tells every
\* opening, acceptance and mint: no race loses the evidence of a decision.
THEOREM TimelineCompleteHolds == Spec => []TimelineComplete
<1>1. Well /\ Ledger => TimelineComplete
    BY LedgerTells
<1>2. QED
    BY <1>1, WellInit, WellStep, LedgerInit, GroundedStep, LedgerStep, PTL DEF Spec

\* The timeline tells what happened to a case, truly and in full.
THEOREM TimelineToldHolds == Spec => []TimelineTold
<1>1. TimelineTrue /\ TimelineComplete => TimelineTold
    BY DEF TimelineTold
<1>2. QED
    BY <1>1, TimelineTrueHolds, TimelineCompleteHolds, PTL

-----------------------------------------------------------------------------
(* The loop implements the agreement *)

LEMMA ToldOfIs ==
    \A x : x \in toldOf <=> \/ x \in Offers /\ Row("accept", x) > 0
                            \/ x \in Cases /\ Row("mint", x) > 0
<1> QED
    BY DEF toldOf, Row, Kinds

LEMMA LogKept ==
    ASSUME NEW p \in Requests, Arrive(p) \/ Continue(p), ~Record(p)
    PROVE  UNCHANGED toldOf
<1>1. UNCHANGED log
    BY DEF Arrive, OpenRead, SetStatus, MintRead, Propose, Accept, ApproveRead, ServeRead,
           PendingRead, Continue, OpenCreate, OpenLost, ReadVersion, InsertOffer, VersionTaken,
           PointCase, PointRefused, MoveRead, MoveWrite, Mint, MintRefused, ApproveWrite,
           PendingWrite, ServeWrite, ServeRefused
<1>2. QED
    BY <1>1 DEF toldOf

LEMMA Deciding ==
    ASSUME Well, DecisionStands, NEW o \in Offers, Accepts(o), UNCHANGED toldOf
    PROVE  Promise!Next
<1> DEFINE k == CaseOf[o]
<1>1. k \in Cases /\ case[k].decided \in Offers \cup {None}
    BY RenewalAssumption, WellIs DEF Tables, Case
<1>2. case[k].decided = None
    BY <1>1 DEF Accepts, DecisionStands, Accepted
<1>3. /\ case'[k].decided = o /\ \A j \in Cases \ {k} : case'[j].decided = case[j].decided
      /\ UNCHANGED successor
    BY DEF Accepts, Same
<1> HIDE DEF k
<1>4. decisions' = [decisions EXCEPT ![k] = o] /\ decisions[k] = None
    BY <1>1, <1>2, <1>3 DEF decisions
<1>5. Promise!Decide(k, o)
    BY <1>3, <1>4 DEF Promise!Decide, k
<1>6. QED
    BY <1>1, <1>5 DEF Promise!Next

LEMMA Succeeding ==
    ASSUME Well, DecisionStands, NEW k \in Cases, Mints(k), UNCHANGED toldOf
    PROVE  Promise!Next
<1>1. case[k].decided # None
    BY DEF Mints, DecisionStands
<1>2. \A j \in Cases : case'[j].decided = case[j].decided
    BY DEF Mints, Same
<1>3. UNCHANGED decisions /\ decisions[k] # None
    BY <1>1, <1>2 DEF decisions
<1>4. Promise!Succeed(k)
    BY <1>3 DEF Promise!Succeed, Mints
<1>5. QED
    BY <1>4 DEF Promise!Next

LEMMA Telling ==
    ASSUME Well, DecisionStands, Ledger, NEW p \in Requests, Record(p)
    PROVE  Promise!Next \/ UNCHANGED <<decisions, successor, toldOf>>
<1> DEFINE x == req[p].item
           op == req[p].op
<1>1. UNCHANGED <<decisions, successor>> /\ pc[p] = "record"
    BY DEF Record, decisions
<1>2. \A b \in ToldOps : \A y \in Item(b) :
        \/ Row(b, y)' = Row(b, y) /\ ~(b = op /\ y = x)
        \/ Row(b, y)' = Row(b, y) + 1 /\ b = op /\ y = x
    <2> SUFFICES ASSUME NEW b \in ToldOps, NEW y \in Item(b)
                 PROVE  \/ Row(b, y)' = Row(b, y) /\ ~(b = op /\ y = x)
                        \/ Row(b, y)' = Row(b, y) + 1 /\ b = op /\ y = x
        OBVIOUS
    <2>1. ~Owes(p, b, y)'
        <3>1. req'[p].op = "none"
            BY WellIs DEF Record, End, NoRequest
        <3>2. QED
            BY <3>1 DEF Owes, ToldOps
    <2>2. QED
        BY <1>1, <2>1, RecordNotes DEF Quiet, Noted, Owes
<1>3. \A b \in ToldOps : \A y \in Item(b) : Row(b, y) \in {0, 1}
    BY DEF Ledger, LedgerAt
<1>4. CASE op \in {"accept", "mint"}
    <2>1. x \in Item(op) /\ op \in ToldOps
        BY <1>1, <1>4 DEF Well, Shape, ShapeAt, Item, ToldOps
    <2>2. Owes(p, op, x)
        BY <1>1 DEF Owes
    <2>3. Row(op, x) = 0 /\ Did(op, x)
        BY <2>1, <2>2 DEF Ledger, LedgerAt
    <2>4. \/ op = "accept" /\ x \in Offers /\ decisions[CaseOf[x]] = x
          \/ op = "mint" /\ x \in Cases /\ successor[TenancyOf[x]] = x
        BY <1>4, <2>1, <2>3, RenewalAssumption
           DEF Did, Accepted, DecisionStands, decisions, Item
    <2>5. Offers \cap Cases = {} /\ {"accept", "mint"} \subseteq ToldOps
            /\ Item("accept") = Offers /\ Item("mint") = Cases
        BY RenewalAssumption DEF ToldOps, Item
    <2> HIDE DEF x, op
    <2>6. x \notin toldOf
        BY <2>3, <2>4, <2>5, ToldOfIs
    <2>7. \A y : y \in toldOf' <=> (y \in toldOf \/ y = x)
        <3>1. \A y : y \in toldOf' <=> \/ y \in Offers /\ Row("accept", y)' > 0
                                       \/ y \in Cases /\ Row("mint", y)' > 0
            BY DEF toldOf, Row, Kinds
        <3>2. ASSUME NEW b \in {"accept", "mint"}, NEW y \in Item(b)
              PROVE  Row(b, y)' > 0 <=> (Row(b, y) > 0 \/ (y = x /\ op = b))
            <4>1. b \in ToldOps
                BY DEF ToldOps
            <4>2. \/ Row(b, y)' = Row(b, y) /\ ~(b = op /\ y = x)
                  \/ Row(b, y)' = Row(b, y) + 1 /\ b = op /\ y = x
                BY <1>2, <4>1
            <4>3. Row(b, y) \in {0, 1}
                BY <1>3, <4>1
            <4>4. QED
                BY <4>2, <4>3
        <3>3. /\ \A y \in Offers : Row("accept", y)' > 0 <=>
                    (Row("accept", y) > 0 \/ (y = x /\ op = "accept"))
              /\ \A y \in Cases : Row("mint", y)' > 0 <=>
                    (Row("mint", y) > 0 \/ (y = x /\ op = "mint"))
            BY <2>5, <3>2
        <3>4. QED
            BY <2>4, <3>1, <3>3, ToldOfIs
    <2>8. toldOf' = toldOf \cup {x}
        BY <2>7
    <2>9. Promise!Tell(x)
        BY <1>1, <2>4, <2>6, <2>8 DEF Promise!Tell
    <2>10. QED
        BY <2>4, <2>9 DEF Promise!Next
<1>5. CASE op \notin {"accept", "mint"}
    <2>1. \A b \in {"accept", "mint"} : \A y \in Item(b) : Row(b, y)' = Row(b, y)
        BY <1>2, <1>5 DEF ToldOps
    <2>2. \A y : y \in toldOf' <=> y \in toldOf
        BY <2>1 DEF toldOf, Row, Kinds, Item
    <2>3. QED
        BY <1>1, <2>2
<1>6. QED
    BY <1>4, <1>5

LEMMA StepKeepsPromise ==
    ASSUME Well, DecisionStands, Ledger, [Next]_vars
    PROVE  [Promise!Next]_<<decisions, successor, toldOf>>
<1> DEFINE Same3 == UNCHANGED <<decisions, successor, toldOf>>
<1>1. ASSUME NEW p \in Requests, Arrive(p) \/ Continue(p)
      PROVE  Promise!Next \/ Same3
    <2>1. CASE Record(p)
        BY <2>1, Telling
    <2>2. ASSUME NEW o \in Offers, Accept(p, o) PROVE Promise!Next
        <3>1. ~Record(p)
            BY <2>2 DEF Accept, Start, Record
        <3>2. QED
            BY <1>1, <2>2, <3>1, LogKept, AcceptAccepts, Deciding
    <2>3. CASE Mint(p)
        <3>1. ~Record(p)
            BY <2>3 DEF Mint, Goto, Record
        <3>2. QED
            BY <1>1, <2>3, <3>1, LogKept, MintMints, Succeeding
    <2>4. CASE Indecisive /\ ~Record(p)
        <3>1. UNCHANGED decisions
            BY <2>4 DEF Indecisive, Same, decisions
        <3>2. QED
            BY <1>1, <2>4, <3>1, LogKept DEF Indecisive
    <2>5. QED
        BY <1>1, <2>1, <2>2, <2>3, <2>4, RestIndecisive
<1>2. CASE UNCHANGED <<case, successor, log>>
    BY <1>2 DEF decisions, toldOf
<1>3. QED
    BY <1>1, <1>2 DEF Next, AtOnce, PrepareNotice, Archive, Fail, vars

\* The renewal loop implements the agreement: one decision per case, one
\* successor per tenancy and only after a decision, each told once and only when
\* true, with any number of requests that overlap, race and die.
THEOREM AgreementImplemented == Spec => ImplementsAgreement
<1>1. Init => Promise!Init
    <2>1. Init => decisions = [k \in Cases |-> None]
        BY DEF Init, decisions
    <2>2. Init => toldOf = {}
        <3> SUFFICES ASSUME Init, NEW x PROVE x \notin toldOf
            OBVIOUS
        <3>1. \A op \in {"accept", "mint"} : \A y \in Item(op) : Row(op, y) = 0
            BY RowsAreEvents DEF Init, Row, ToldOps
        <3>2. QED
            BY <3>1, ToldOfIs DEF Item
    <2>3. QED
        BY <2>1, <2>2 DEF Init, Promise!Init
<1>2. Init => DecisionStands
    BY RenewalAssumption DEF Init, DecisionStands
<1>3. QED
    BY <1>1, <1>2, WellInit, WellStep, LedgerInit, GroundedStep, LedgerStep, DecisionStep,
       StepKeepsPromise, PTL DEF Spec, ImplementsAgreement, Promise!Spec

-----------------------------------------------------------------------------
(* Notices *)

Approved(n) == notice[n] \notin {"absent", "GENERATED"}

\* A request that serves a notice, or records that it will be, found it approved.
Ready == \A p \in Requests : pc[p] = "serve" =>
            req[p].case = CaseOfNotice[req[p].item] /\ Approved(req[p].item)

\* The one notice a step changes, and how.
NoticeMove(n, s) ==
    /\ n \in Notices /\ notice' = [notice EXCEPT ![n] = s]
    /\ \/ s = "GENERATED" /\ notice[n] = "absent"
       \/ s = "APPROVED"
       \/ s \in {"PENDING_EVIDENCE", "SERVED"} /\ Approved(n)

LEMMA NoticeSteps ==
    ASSUME Well, Ready, [Next]_vars
    PROVE  UNCHANGED notice \/ \E n, s : NoticeMove(n, s)
<1>1. ASSUME NEW n \in Notices, PrepareNotice(n) PROVE NoticeMove(n, "GENERATED")
    BY <1>1 DEF PrepareNotice, NoticeMove
<1>2. ASSUME NEW p \in Requests, ApproveWrite(p) PROVE NoticeMove(req[p].item, "APPROVED")
    BY <1>2 DEF ApproveWrite, Leave, NoticeMove, Well, Shape, ShapeAt
<1>3. ASSUME NEW p \in Requests, PendingWrite(p) PROVE NoticeMove(req[p].item, "PENDING_EVIDENCE")
    BY <1>3 DEF PendingWrite, Leave, NoticeMove, Well, Shape, ShapeAt, Ready
<1>4. ASSUME NEW p \in Requests, ServeWrite(p) PROVE NoticeMove(req[p].item, "SERVED")
    BY <1>4 DEF ServeWrite, Goto, NoticeMove, Well, Shape, ShapeAt, Ready
<1>5. ASSUME NEW p \in Requests, Arrive(p) PROVE UNCHANGED notice
    BY <1>5 DEF Arrive, OpenRead, SetStatus, MintRead, Propose, Accept, ApproveRead, ServeRead,
                PendingRead
<1>6. ASSUME NEW p \in Requests, Continue(p)
      PROVE  UNCHANGED notice \/ ApproveWrite(p) \/ PendingWrite(p) \/ ServeWrite(p)
    BY <1>6 DEF Continue, OpenCreate, OpenLost, ReadVersion, InsertOffer, VersionTaken, PointCase,
                PointRefused, MoveRead, MoveWrite, Mint, MintRefused, ServeRefused, Record
<1>7. CASE UNCHANGED notice
    BY <1>7
<1>8. QED
    BY <1>1, <1>2, <1>3, <1>4, <1>5, <1>6, <1>7 DEF Next, AtOnce, Archive, Fail, vars

LEMMA ReadyStep ==
    ASSUME Well, Ready, [Next]_vars
    PROVE  Ready'
<1> USE WellIs
<1>1. \A n \in Notices : Approved(n) => Approved(n)'
    BY NoticeSteps DEF NoticeMove, Approved, Tables
<1>2. ASSUME NEW p \in Requests, pc'[p] = "serve"
      PROVE  /\ req'[p].item \in Notices /\ req'[p].case = CaseOfNotice[req'[p].item]
             /\ Approved(req'[p].item)
    <2>1. CASE pc[p] = "serve" /\ req'[p] = req[p]
        BY <2>1 DEF Ready, Shape, ShapeAt
    <2>2. ASSUME NEW q \in Requests, q # p, Arrive(q) \/ Continue(q) \/ Fail(q)
          PROVE  pc[p] = "serve" /\ req'[p] = req[p]
        BY <1>2, <2>2, Alone
    <2>3. ASSUME NEW n \in Notices, ServeRead(p, n) \/ PendingRead(p, n)
          PROVE  /\ req'[p].item \in Notices /\ req'[p].case = CaseOfNotice[req'[p].item]
                 /\ Approved(req'[p].item)
        <3>1. /\ Approved(n)
              /\ \E op, target : Start(p, op, CaseOfNotice[n], n, target, "serve")
            BY <2>3 DEF ServeRead, PendingRead, Servable, Approved
        <3>2. req'[p].item = n /\ req'[p].case = CaseOfNotice[n]
            BY <3>1 DEF Start, Tables
        <3>3. QED
            BY <3>1, <3>2
    <2>4. ASSUME NEW from, NEW to, Goto(p, from, to), to # "serve" PROVE FALSE
        BY <1>2, <2>4 DEF Goto, Tables
    <2>5. ASSUME End(p) PROVE FALSE
        BY <1>2, <2>5 DEF End, Tables
    <2>6. ASSUME Continue(p) PROVE FALSE
        BY <2>4, <2>5, <2>6
           DEF Continue, OpenCreate, OpenLost, ReadVersion, InsertOffer, VersionTaken, PointCase,
               PointRefused, MoveRead, MoveWrite, Mint, MintRefused, ApproveWrite, PendingWrite,
               ServeWrite, ServeRefused, Record, Leave, Done
    <2>7. ASSUME NEW op, NEW k, NEW item, NEW target, NEW to, Start(p, op, k, item, target, to),
                 to # "serve"
          PROVE  FALSE
        BY <1>2, <2>7 DEF Start, Tables
    <2>8. ASSUME NEW t, NEW s, OpenRead(p, t) \/ SetStatus(p, t, s) PROVE FALSE
        BY <1>2, <2>8 DEF OpenRead, SetStatus, Tables
    <2>9. ASSUME Arrive(p) PROVE \E n \in Notices : ServeRead(p, n) \/ PendingRead(p, n)
        BY <2>7, <2>8, <2>9 DEF Arrive, MintRead, Propose, Accept, ApproveRead
    <2>10. CASE UNCHANGED <<pc, req>>
        BY <1>2, <2>1, <2>10
    <2>11. QED
        BY <2>1, <2>2, <2>3, <2>5, <2>6, <2>9, <2>10
           DEF Next, AtOnce, PrepareNotice, Archive, Fail, vars
<1>3. QED
    BY <1>1, <1>2 DEF Ready

\* Service is never asserted out of nothing: a drafted notice leaves GENERATED by
\* approval alone, and a case comes to NOTICE_SERVED only in the step that serves
\* one of its approved notices.
THEOREM ServiceApprovedHolds == Spec => ServiceApproved
<1>1. Init => Ready
    BY DEF Init, Ready
<1>2. ASSUME Well, Ready, [Next]_vars PROVE LeavesByApproval /\ ServesApproved
    <2>1. ASSUME NEW n \in Notices, notice[n] = "GENERATED"
          PROVE  notice'[n] \in {"GENERATED", "APPROVED"}
        BY <1>2, <2>1, NoticeSteps, WellIs DEF NoticeMove, Approved, Tables
    <2>2. ASSUME NEW k \in Cases, case'[k].status = "NOTICE_SERVED",
                 case[k].status # "NOTICE_SERVED"
          PROVE  \E n \in Notices : /\ CaseOfNotice[n] = k
                                    /\ notice[n] \notin {"absent", "GENERATED"}
                                    /\ notice'[n] = "SERVED"
        <3>1. ASSUME NEW p \in Requests, ServeWrite(p)
              PROVE  /\ k = req[p].case /\ req[p].item \in Notices
                     /\ CaseOfNotice[req[p].item] = req[p].case
                     /\ Approved(req[p].item) /\ notice'[req[p].item] = "SERVED"
            <4>1. /\ pc[p] = "serve" /\ case' = [case EXCEPT ![req[p].case].status = "NOTICE_SERVED"]
                  /\ notice' = [notice EXCEPT ![req[p].item] = "SERVED"]
                BY <3>1 DEF ServeWrite, Goto
            <4>2. req[p].item \in Notices /\ CaseOfNotice[req[p].item] = req[p].case
                    /\ Approved(req[p].item)
                BY <1>2, <4>1 DEF Well, Shape, ShapeAt, Ready
            <4>3. k = req[p].case
                BY <1>2, <2>2, <4>1, WellIs DEF Tables
            <4>4. QED
                BY <1>2, <4>1, <4>2, <4>3, WellIs DEF Tables
        <3>2. ASSUME NEW j, NEW o, NEW s, s # "NOTICE_SERVED",
                     \/ case' = [case EXCEPT ![j].status = s]
                     \/ case' = [case EXCEPT ![j].status = s, ![j].current = o]
                     \/ case' = [case EXCEPT ![j].status = s, ![j].decided = o, ![j].current = o]
                     \/ case' = [case EXCEPT ![j].status = s, ![j].minted = o]
              PROVE  FALSE
            <4>1. case \in [Cases -> Case] /\ k \in Cases
                BY <1>2, WellIs DEF Tables
            <4>2. CASE j = k
                BY <2>2, <3>2, <4>1, <4>2 DEF Case
            <4>3. CASE j # k
                BY <2>2, <3>2, <4>1, <4>3
            <4>4. QED
                BY <4>2, <4>3
        <3>3. ~UNCHANGED case
            BY <2>2
        <3>4. ASSUME NEW p \in Requests, Arrive(p) PROVE FALSE
            <4>1. ASSUME NEW o \in Offers, Accept(p, o) PROVE FALSE
                BY <3>2, <4>1 DEF Accept
            <4>2. QED
                BY <3>3, <3>4, <4>1
                   DEF Arrive, OpenRead, SetStatus, MintRead, Propose, ApproveRead, ServeRead,
                       PendingRead
        <3>5. ASSUME NEW p \in Requests, Continue(p) PROVE ServeWrite(p)
            <4>1. ~OpenCreate(p)
                <5>1. ASSUME NEW j \in Cases, case' = [case EXCEPT ![j].status = "ASSESSING"]
                      PROVE  FALSE
                    BY <3>2, <5>1
                <5>2. QED
                    BY <5>1 DEF OpenCreate
            <4>2. ~PointCase(p)
                <5>1. ASSUME NEW j, NEW o,
                             case' = [case EXCEPT ![j].status = "NEGOTIATING", ![j].current = o]
                      PROVE  FALSE
                    BY <3>2, <5>1
                <5>2. QED
                    BY <5>1 DEF PointCase
            <4>3. ~Mint(p)
                <5>1. ASSUME NEW j,
                             case' = [case EXCEPT ![j].status = "RENEWED", ![j].minted = TRUE]
                      PROVE  FALSE
                    BY <3>2, <5>1
                <5>2. QED
                    BY <5>1 DEF Mint
            <4>4. QED
                BY <3>3, <3>5, <4>1, <4>2, <4>3
                   DEF Continue, OpenLost, ReadVersion, InsertOffer, VersionTaken, PointRefused,
                       MoveRead, MoveWrite, MintRefused, ApproveWrite, PendingWrite, ServeRefused,
                       Record
        <3>6. \E p \in Requests : ServeWrite(p)
            BY <1>2, <3>3, <3>4, <3>5 DEF Next, AtOnce, PrepareNotice, Archive, Fail, vars
        <3>7. QED
            BY <3>1, <3>6 DEF Approved
    <2>3. QED
        BY <2>1, <2>2 DEF LeavesByApproval, ServesApproved
<1>3. QED
    BY <1>1, <1>2, WellInit, WellStep, ReadyStep, PTL DEF Spec, ServiceApproved

-----------------------------------------------------------------------------
(* Guidance: the case created last is the case written last *)

LEMMA GuidedIsNext ==
    ASSUME GuidedNext
    PROVE  [Next]_vars
<1>1. ASSUME NEW p \in Requests, Opens(p) \/ Inserts(p) \/ Rewrites(p) \/ Decides(p) \/ Goes(p)
      PROVE  Arrive(p) \/ Continue(p)
    BY <1>1 DEF Opens, Inserts, Rewrites, Decides, Goes, Arrive, Continue
<1>2. QED
    BY <1>1 DEF GuidedNext, Draws, Next, AtOnce

\* Of a tenancy's cases all but the newest have been renewed, and then the newest
\* is live: nothing that writes a case can reach the others.
Picked ==
    /\ newest \in [Tenancies -> Cases \cup {None}] /\ touched = newest
    /\ \A t \in Tenancies : newest[t] # None => TenancyOf[newest[t]] = t
    /\ \A k \in Cases :
        /\ Opened(k) => newest[TenancyOf[k]] # None
        /\ Opened(k) /\ k # newest[TenancyOf[k]] =>
                case[k].status = "RENEWED" /\ Live(newest[TenancyOf[k]])
        /\ case[k].status = "RENEWED" => case[k].minted

\* A case is written: its index has no room for another that is live.
LEMMA WriteKeepsPicked ==
    ASSUME Picked, NEW k \in Cases, Opened(k), ActiveUnique(k),
           \A j \in Cases \ {k} : case'[j] = case[j],
           Live(k)', newest' = newest, touched' = [touched EXCEPT ![TenancyOf[k]] = k]
    PROVE  Picked'
<1>1. TenancyOf[k] \in Tenancies /\ newest[TenancyOf[k]] \in Cases
    BY RenewalAssumption DEF Picked
<1>2. newest[TenancyOf[k]] = k
    <2>1. CASE newest[TenancyOf[k]] # k
        BY <1>1, <2>1 DEF Picked, ActiveUnique
    <2>2. QED
        BY <2>1
<1>3. touched' = touched
    BY <1>1, <1>2 DEF Picked
<1>4. ASSUME NEW j \in Cases
      PROVE  /\ Opened(j)' => newest[TenancyOf[j]] # None
             /\ Opened(j)' /\ j # newest[TenancyOf[j]] =>
                    case'[j].status = "RENEWED" /\ Live(newest[TenancyOf[j]])'
             /\ case'[j].status = "RENEWED" => case'[j].minted
    <2>1. CASE j = k
        BY <1>1, <1>2, <2>1 DEF Live, TerminalStatus, Picked, Opened
    <2>2. CASE j # k
        <3>1. case'[j] = case[j] /\ (Opened(j)' <=> Opened(j))
            BY <2>2 DEF Opened
        <3>2. PICK n : n = newest[TenancyOf[j]]
            OBVIOUS
        <3>3. Opened(j) => n # None /\ n \in Cases
            BY <3>2, RenewalAssumption DEF Picked
        <3>4. Opened(j) /\ j # n => case[j].status = "RENEWED" /\ Live(n)
            BY <3>2 DEF Picked
        <3>5. n \in Cases /\ Live(n) => Live(n)'
            BY DEF Live
        <3>6. newest'[TenancyOf[j]] = n
            BY <3>2
        <3>7. QED
            BY <3>1, <3>2, <3>3, <3>4, <3>5 DEF Picked
    <2>3. QED
        BY <2>1, <2>2
<1>5. QED
    BY <1>1, <1>3, <1>4 DEF Picked, Opened

\* The case of a tenancy is minted: it was the newest, and no older one was renewed.
LEMMA MintKeepsPicked ==
    ASSUME Well, DecisionStands, Picked, NEW k \in Cases,
           case[k].status = "AGREED", successor[TenancyOf[k]] = None,
           case' = [case EXCEPT ![k].status = "RENEWED", ![k].minted = TRUE],
           newest' = newest, touched' = [touched EXCEPT ![TenancyOf[k]] = k]
    PROVE  Picked'
<1>1. TenancyOf[k] \in Tenancies /\ newest[TenancyOf[k]] = k
    BY RenewalAssumption DEF Picked, Opened
<1>2. touched' = touched
    BY <1>1 DEF Picked
<1>3. case'[k].status = "RENEWED" /\ case'[k].minted /\ \A j \in Cases \ {k} : case'[j] = case[j]
    BY WellIs DEF Tables, Case
<1>4. ASSUME NEW j \in Cases, j # k, TenancyOf[j] = TenancyOf[k] PROVE ~Opened(j)
    <2>1. SUFFICES ASSUME Opened(j) PROVE FALSE
        OBVIOUS
    <2>2. case[j].minted
        BY <1>1, <1>4, <2>1 DEF Picked
    <2>3. successor[TenancyOf[j]] = j /\ j # None
        BY <2>2, RenewalAssumption DEF DecisionStands
    <2>4. QED
        BY <1>4, <2>3
<1>5. ASSUME NEW j \in Cases
      PROVE  /\ Opened(j)' => newest[TenancyOf[j]] # None
             /\ Opened(j)' /\ j # newest[TenancyOf[j]] =>
                    case'[j].status = "RENEWED" /\ Live(newest[TenancyOf[j]])'
             /\ case'[j].status = "RENEWED" => case'[j].minted
    <2>1. CASE j = k
        BY <1>1, <1>3, <2>1, RenewalAssumption
    <2>2. CASE j # k /\ TenancyOf[j] = TenancyOf[k]
        BY <1>3, <1>4, <2>2 DEF Opened
    <2>3. CASE TenancyOf[j] # TenancyOf[k]
        <3>1. case'[j] = case[j] /\ (Opened(j)' <=> Opened(j))
            BY <1>3, <2>3 DEF Opened
        <3>2. PICK n : n = newest[TenancyOf[j]]
            OBVIOUS
        <3>3. Opened(j) => n # None /\ n \in Cases /\ n # k
            BY <2>3, <3>2, RenewalAssumption DEF Picked
        <3>4. Opened(j) /\ j # n => case[j].status = "RENEWED" /\ Live(n)
            BY <3>2 DEF Picked
        <3>5. n \in Cases \ {k} /\ Live(n) => Live(n)'
            BY <1>3 DEF Live
        <3>6. newest'[TenancyOf[j]] = n
            BY <3>2
        <3>7. QED
            BY <3>1, <3>2, <3>3, <3>4, <3>5 DEF Picked
    <2>4. QED
        BY <2>1, <2>2, <2>3
<1>6. QED
    BY <1>1, <1>2, <1>5 DEF Picked, Opened

\* A case is opened: those before it have all been renewed.
LEMMA OpeningKeepsPicked ==
    ASSUME Well, Picked, NEW k \in Cases, ~Opened(k), ActiveUnique(k),
           case' = [case EXCEPT ![k].status = "ASSESSING"],
           newest' = [newest EXCEPT ![TenancyOf[k]] = k],
           touched' = [touched EXCEPT ![TenancyOf[k]] = k]
    PROVE  Picked'
<1>1. TenancyOf[k] \in Tenancies /\ k # None
    BY RenewalAssumption
<1>2. case'[k].status = "ASSESSING" /\ \A j \in Cases \ {k} : case'[j] = case[j]
    BY WellIs DEF Tables, Case
<1>3. /\ newest' \in [Tenancies -> Cases \cup {None}] /\ touched' = newest'
      /\ newest'[TenancyOf[k]] = k
      /\ \A t \in Tenancies \ {TenancyOf[k]} : newest'[t] = newest[t]
    BY <1>1 DEF Picked
<1>4. ASSUME NEW j \in Cases
      PROVE  /\ Opened(j)' => newest'[TenancyOf[j]] # None
             /\ Opened(j)' /\ j # newest'[TenancyOf[j]] =>
                    case'[j].status = "RENEWED" /\ Live(newest[TenancyOf[j]])'
             /\ case'[j].status = "RENEWED" => case'[j].minted
    <2>0. TenancyOf[j] \in Tenancies
        BY RenewalAssumption
    <2>1. CASE j = k
        BY <1>1, <1>2, <1>3, <2>1
    <2>2. CASE j # k /\ TenancyOf[j] = TenancyOf[k]
        <3>1. case'[j] = case[j] /\ (Opened(j)' <=> Opened(j)) /\ ~Live(j)
            BY <1>2, <2>2 DEF Opened, ActiveUnique
        <3>2. newest'[TenancyOf[j]] = k /\ Live(k)'
            BY <1>2, <1>3, <2>2 DEF Live, TerminalStatus
        <3>3. Opened(j) => case[j].status = "RENEWED"
            <4>1. case[j].status \in CaseStatus
                BY WellIs DEF Tables, Case
            <4>2. QED
                BY <3>1, <4>1 DEF Opened, Live, TerminalStatus, CaseStatus
        <3>4. QED
            BY <1>1, <3>1, <3>2, <3>3 DEF Picked
    <2>3. CASE TenancyOf[j] # TenancyOf[k]
        <3>1. case'[j] = case[j] /\ (Opened(j)' <=> Opened(j))
            BY <1>2, <2>3 DEF Opened
        <3>2. PICK n : n = newest[TenancyOf[j]]
            OBVIOUS
        <3>3. newest'[TenancyOf[j]] = n
            BY <1>3, <2>0, <2>3, <3>2
        <3>4. Opened(j) => n # None /\ n \in Cases /\ n # k
            BY <2>0, <2>3, <3>2, RenewalAssumption DEF Picked
        <3>5. Opened(j) /\ j # n => case[j].status = "RENEWED" /\ Live(n)
            BY <3>2 DEF Picked
        <3>6. n \in Cases \ {k} /\ Live(n) => Live(n)'
            BY <1>2 DEF Live
        <3>7. QED
            BY <3>1, <3>2, <3>3, <3>4, <3>5, <3>6 DEF Picked
    <2>4. QED
        BY <2>1, <2>2, <2>3
<1>5. \A t \in Tenancies : newest'[t] # None => TenancyOf[newest'[t]] = t
    BY <1>3 DEF Picked
<1>6. QED
    BY <1>3, <1>4, <1>5 DEF Picked, Opened

\* Every other step leaves the cases and what is known of them alone.
LEMMA StillPicked ==
    ASSUME Picked, UNCHANGED <<case, newest, touched>>
    PROVE  Picked'
<1> QED
    BY DEF Picked, Opened, Live

\* The steps that decide nothing and open nothing.
LEMMA GuidedKinds ==
    ASSUME [GuidedNext]_<<vars, guideVars>>
    PROVE  \/ \E p \in Requests : Opens(p) \/ Rewrites(p) \/ Decides(p)
           \/ UNCHANGED <<case, successor, newest, touched, strayed>>
<1> DEFINE Leaves == UNCHANGED <<case, successor, newest, touched, strayed>>
<1>1. ASSUME NEW p \in Requests, Inserts(p) \/ (Fail(p) /\ UNCHANGED guideVars) PROVE Leaves
    BY <1>1 DEF Inserts, InsertOffer, Fail, guideVars
<1>2. ASSUME NEW p \in Requests, Goes(p) PROVE Leaves
    <2>1. UNCHANGED <<newest, touched, strayed>>
        BY <1>2 DEF Goes, guideVars
    <2>2. UNCHANGED <<case, successor>>
        <3>1. ASSUME NEW t \in Tenancies, OpenRead(p, t) PROVE UNCHANGED <<case, successor>>
            BY <3>1 DEF OpenRead
        <3>2. ASSUME NEW t \in Tenancies, NEW s \in StaffTargets, SetStatus(p, t, s)
              PROVE  UNCHANGED <<case, successor>>
            BY <3>2 DEF SetStatus
        <3>3. ASSUME NEW k \in Cases, MintRead(p, k) \/ \E op \in {"propose", "counter"} : Propose(p, k, op)
              PROVE  UNCHANGED <<case, successor>>
            BY <3>3 DEF MintRead, Propose
        <3>4. ASSUME NEW n \in Notices, ApproveRead(p, n) \/ ServeRead(p, n) \/ PendingRead(p, n)
              PROVE  UNCHANGED <<case, successor>>
            BY <3>4 DEF ApproveRead, ServeRead, PendingRead
        <3>5. CASE OpenLost(p) \/ ReadVersion(p) \/ VersionTaken(p) \/ PointRefused(p) \/ MoveRead(p)
            BY <3>5 DEF OpenLost, ReadVersion, VersionTaken, PointRefused, MoveRead
        <3>6. CASE MoveWrite(p) \/ MintRefused(p) \/ ApproveWrite(p) \/ PendingWrite(p)
                      \/ ServeRefused(p) \/ Record(p)
            BY <3>6 DEF MoveWrite, MintRefused, ApproveWrite, PendingWrite, ServeRefused, Record
        <3>7. QED
            BY <1>2, <3>1, <3>2, <3>3, <3>4, <3>5, <3>6 DEF Goes
    <2>3. QED
        BY <2>1, <2>2
<1>3. CASE (\E n \in Notices : Draws(n)) \/ ((\E t \in Tenancies : Archive(t)) /\ UNCHANGED guideVars)
           \/ (Beside /\ UNCHANGED vars) \/ UNCHANGED <<vars, guideVars>>
    BY <1>3 DEF Draws, PrepareNotice, Archive, Beside, SendOffer, CaptureIndex, CaptureBenchmark,
                MoveGate, vars, guideVars
<1>4. QED
    BY <1>1, <1>2, <1>3 DEF GuidedNext

LEMMA PickedStep ==
    ASSUME Well, DecisionStands, Grounded, Picked, [GuidedNext]_<<vars, guideVars>>
    PROVE  Picked'
<1> USE RenewalAssumption
<1>1. ASSUME NEW p \in Requests, Opens(p) PROVE Picked'
    <2>1. PICK k \in Cases :
            /\ case[k].status = "absent" /\ ActiveUnique(k)
            /\ case' = [case EXCEPT ![k].status = "ASSESSING"]
            /\ req' = [req EXCEPT ![p].case = k, ![p].item = k]
        BY <1>1 DEF Opens, OpenCreate
    <2>2. req'[p].case = k
        BY <2>1 DEF Well, RenewalTypeOK, Request
    <2>3. /\ newest' = [newest EXCEPT ![TenancyOf[k]] = k]
          /\ touched' = [touched EXCEPT ![TenancyOf[k]] = k]
        BY <1>1, <2>2 DEF Opens, Touch
    <2>4. QED
        BY <2>1, <2>3, OpeningKeepsPicked DEF Opened
<1>2. ASSUME NEW p \in Requests, Rewrites(p) PROVE Picked'
    <2>0. PICK k : k = req[p].case
        OBVIOUS
    <2>1. /\ pc[p] \in {"point", "serve"} /\ ActiveUnique(k) /\ newest' = newest
          /\ touched' = [touched EXCEPT ![TenancyOf[k]] = k]
          /\ \/ case' = [case EXCEPT ![k].status = "NEGOTIATING", ![k].current = req[p].item]
             \/ case' = [case EXCEPT ![k].status = "NOTICE_SERVED"]
        BY <1>2, <2>0 DEF Rewrites, PointCase, ServeWrite, Touch, Goto, Leave
    <2>2. k \in Cases /\ Opened(k)
        BY <2>0, <2>1 DEF Well, Shape, ShapeAt, Grounded
    <2>3. case[k] \in Case /\ DOMAIN case = Cases
        BY <2>2, WellIs DEF Tables
    <2>4. case'[k].status \in {"NEGOTIATING", "NOTICE_SERVED"} /\ \A j \in Cases \ {k} : case'[j] = case[j]
        BY <2>1, <2>2, <2>3 DEF Case
    <2>5. Live(k)'
        BY <2>4 DEF Live, TerminalStatus
    <2>6. QED
        BY <2>1, <2>2, <2>4, <2>5, WriteKeepsPicked
<1>3. ASSUME NEW p \in Requests, NEW o \in Offers, Accept(p, o), Touch(CaseOf[o]), newest' = newest
      PROVE  Picked'
    <2>0. PICK k : k = CaseOf[o]
        OBVIOUS
    <2>1. /\ ActiveUnique(k) /\ touched' = [touched EXCEPT ![TenancyOf[k]] = k]
          /\ case' = [case EXCEPT ![k].status = "AGREED", ![k].decided = o, ![k].current = o]
        BY <1>3, <2>0 DEF Accept, Touch
    <2>2. k \in Cases /\ Opened(k)
        BY <1>3, <2>0 DEF Accept, CanAccept, IsOpen, Grounded
    <2>3. case[k] \in Case /\ DOMAIN case = Cases
        BY <2>2, WellIs DEF Tables
    <2>4. case'[k].status = "AGREED" /\ \A j \in Cases \ {k} : case'[j] = case[j]
        BY <2>1, <2>2, <2>3 DEF Case
    <2>5. Live(k)'
        BY <2>4 DEF Live, TerminalStatus
    <2>6. QED
        BY <1>3, <2>1, <2>2, <2>4, <2>5, WriteKeepsPicked
<1>4. ASSUME NEW p \in Requests, Mint(p), Touch(req[p].case), newest' = newest PROVE Picked'
    <2>1. PICK k : k = req[p].case
        OBVIOUS
    <2>2. /\ case[k].status = "AGREED" /\ successor[TenancyOf[k]] = None
          /\ case' = [case EXCEPT ![k].status = "RENEWED", ![k].minted = TRUE]
          /\ touched' = [touched EXCEPT ![TenancyOf[k]] = k]
        BY <1>4, <2>1 DEF Mint, StillAgreed, Touch
    <2>3. k \in Cases
        BY <1>4, <2>1, MintMints
    <2>4. QED
        BY <1>4, <2>2, <2>3, MintKeepsPicked
<1>5. CASE UNCHANGED <<case, newest, touched>>
    BY <1>5, StillPicked
<1>7. ASSUME NEW p \in Requests, Decides(p) PROVE Picked'
    BY <1>3, <1>4, <1>7 DEF Decides
<1>8. QED
    BY <1>1, <1>2, <1>5, <1>7, GuidedKinds

\* The desk is told the same next step of a tenancy by its page and by its row of
\* the pipeline, though they pick their case by different dates: for any number
\* of tenancies, cases, offers, notices and concurrent requests.
THEOREM ViewsAgreeHolds == GuidedSpec => []ViewsAgree
<1> DEFINE I == Well /\ DecisionStands /\ Grounded /\ Picked
<1>1. GuidedInit => I
    <2>1. GuidedInit => Picked
        BY RenewalAssumption DEF GuidedInit, GuideInit, Init, Picked, Opened
    <2>2. Init => DecisionStands
        BY RenewalAssumption DEF Init, DecisionStands
    <2>3. QED
        BY <2>1, <2>2, WellInit, LedgerInit DEF GuidedInit
<1>2. I /\ [GuidedNext]_<<vars, guideVars>> => I'
    <2>1. [GuidedNext]_<<vars, guideVars>> => [Next]_vars
        BY GuidedIsNext
    <2>2. QED
        BY <2>1, WellStep, DecisionStep, GroundedStep, PickedStep
<1>3. I => ViewsAgree
    <2>1. \A t \in Tenancies : RowIndex(t) = resolveEffectiveIndex(t)
        BY DEF RowIndex, resolveEffectiveIndex
    <2>2. QED
        BY <2>1 DEF Picked, ViewsAgree, Listed, listRenewalPipeline, nextAction, getRenewalRisk
<1> HIDE DEF I
<1>4. QED
    BY <1>1, <1>2, <1>3, PTL DEF GuidedSpec

-----------------------------------------------------------------------------
(* Guidance: the latest offer of a case *)

\* A request that is about to put a later version on the case.
Ahead(p, k, v) ==
    /\ req[p].case = k
    /\ pc[p] = "version" \/ (pc[p] = "insert" /\ req[p].version > v)

Top(k, o) == o \in OffersOf(k) /\ \A q \in OffersOf(k) : offer[q].version <= offer[o].version

\* The latest offer is open, unless one was accepted or a request has superseded
\* it and is on its way to put another above it.
HeadedBy(k, o) ==
    Top(k, o) /\ (IsOpen(o) \/ ~OneAccepted(k) \/ \E p \in Requests : Ahead(p, k, offer[o].version))
Headed == \A k \in Cases : OffersOf(k) # {} => \E o \in Offers : HeadedBy(k, o)

OneVersion ==
    \A o, q \in Offers :
        (CaseOf[o] = CaseOf[q] /\ offer[o].status # "absent" /\ offer[q].status # "absent"
            /\ offer[o].version = offer[q].version) => o = q

Heads == (~died => Headed) /\ OneVersion

\* A step that leaves the offers alone, of a request that is not about to insert.
LEMMA OffersAlone ==
    ASSUME Well, Heads, UNCHANGED offer, died => died',
           \A k \in Cases, o \in Offers : Top(k, o) =>
                \A p \in Requests : Ahead(p, k, offer[o].version) =>
                    \E q \in Requests : Ahead(q, k, offer[o].version)'
    PROVE  Heads'
<1>1. \A k \in Cases : OffersOf(k)' = OffersOf(k) /\ (OneAccepted(k)' <=> OneAccepted(k))
    BY DEF OffersOf, OneAccepted
<1>2. ASSUME NEW k \in Cases, NEW o \in Offers, HeadedBy(k, o) PROVE HeadedBy(k, o)'
    BY <1>1, <1>2 DEF HeadedBy, Top, IsOpen
<1>3. QED
    BY <1>1, <1>2 DEF Heads, Headed, OneVersion

\* The other requests stay ahead.
LEMMA OthersAhead ==
    ASSUME Well, NEW p \in Requests, Arrive(p) \/ Continue(p), NEW q \in Requests, q # p,
           NEW k, NEW v, Ahead(q, k, v)
    PROVE  Ahead(q, k, v)'
<1>1. pc'[q] = pc[q] /\ req'[q] = req[q]
    BY Alone
<1>2. QED
    BY <1>1 DEF Ahead

\* A statement that was not about to insert.
LEMMA RestHeads ==
    ASSUME Well, Heads, NEW p \in Requests, Arrive(p) \/ Continue(p), UNCHANGED <<offer, died>>,
           pc[p] \notin {"version", "insert"}
    PROVE  Heads'
<1>1. ASSUME NEW k, NEW v, NEW q \in Requests, Ahead(q, k, v)
      PROVE  Ahead(q, k, v)'
    <2>1. q # p
        BY <1>1 DEF Ahead
    <2>2. QED
        BY <1>1, <2>1, OthersAhead
<1>2. QED
    BY <1>1, OffersAlone

\* A counter or a proposal supersedes what is open and is on its way.
LEMMA ProposeHeads ==
    ASSUME Well, Heads, NEW p \in Requests, NEW k \in Cases, NEW op \in {"propose", "counter"},
           Propose(p, k, op), UNCHANGED died
    PROVE  Heads'
<1>1. /\ offer' = Superseded(k, None) /\ pc' = [pc EXCEPT ![p] = "version"] /\ pc[p] = "idle"
      /\ \E r : req' = [req EXCEPT ![p] = r] /\ r.case = k
    <2> DEFINE target == IF op = "propose" THEN "NEGOTIATING" ELSE "none"
               r == [op |-> op, tenancy |-> TenancyOf[k], case |-> k, item |-> None,
                     version |-> 0, target |-> target]
    <2>1. /\ offer' = Superseded(k, None) /\ pc' = [pc EXCEPT ![p] = "version"] /\ pc[p] = "idle"
          /\ req' = [req EXCEPT ![p] = r] /\ r.case = k
        BY DEF Propose, Start
    <2> HIDE DEF r
    <2>2. QED
        BY <2>1
<1>2. pc'[p] = "version" /\ req'[p].case = k
    BY <1>1 DEF Well, RenewalTypeOK
<1>3. \A o \in Offers :
        /\ offer'[o].version = offer[o].version
        /\ (offer'[o].status = "absent" <=> offer[o].status = "absent")
        /\ CaseOf[o] # k => offer'[o].status = offer[o].status
        /\ (offer'[o].status = "ACCEPTED" <=> offer[o].status = "ACCEPTED")
    BY <1>1, SupersededTyped DEF Well, RenewalTypeOK, OffersTyped
<1>4. \A j \in Cases : OffersOf(j)' = OffersOf(j) /\ (OneAccepted(j)' <=> OneAccepted(j))
    BY <1>3 DEF OffersOf, OneAccepted
<1>5. \A j \in Cases, o \in Offers : Top(j, o) => Top(j, o)'
    BY <1>3, <1>4 DEF Top, OffersOf
<1>6. ASSUME NEW j \in Cases, NEW o \in Offers, HeadedBy(j, o) PROVE HeadedBy(j, o)'
    <2>1. CASE j = k
        <3>1. Ahead(p, j, offer[o].version)'
            BY <1>2, <2>1 DEF Ahead
        <3>2. QED
            BY <1>5, <1>6, <3>1 DEF HeadedBy
    <2>2. CASE j # k
        <3>1. IsOpen(o) => IsOpen(o)'
            BY <1>3, <1>6, <2>2 DEF HeadedBy, Top, OffersOf, IsOpen
        <3>2. ASSUME NEW q \in Requests, Ahead(q, j, offer[o].version) PROVE Ahead(q, j, offer[o].version)'
            <4>1. q # p
                BY <1>1, <3>2 DEF Ahead
            <4>2. PICK v : v = offer[o].version
                OBVIOUS
            <4>3. Arrive(p) /\ Ahead(q, j, v)
                BY <3>2, <4>2 DEF Arrive
            <4>4. Ahead(q, j, v)'
                BY <4>1, <4>3, OthersAhead
            <4>5. offer'[o].version = v
                BY <1>3, <4>2
            <4>6. QED
                BY <4>4, <4>5 DEF Ahead
        <3>3. QED
            BY <1>4, <1>5, <1>6, <3>1, <3>2 DEF HeadedBy
    <2>3. QED
        BY <2>1, <2>2
<1>7. OneVersion'
    BY <1>3 DEF Heads, OneVersion
<1>8. QED
    BY <1>4, <1>6, <1>7 DEF Heads, Headed

\* A version is read: it is above all there are.
LEMMA ReadHeads ==
    ASSUME Well, Heads, NEW p \in Requests, ReadVersion(p), UNCHANGED died
    PROVE  Heads'
<1>1. PICK last \in {0} \cup {offer[o].version : o \in Offers} :
        /\ pc[p] = "version" /\ pc' = [pc EXCEPT ![p] = "insert"] /\ UNCHANGED offer
        /\ \A o \in Offers : CaseOf[o] = req[p].case => offer[o].version <= last
        /\ req' = [req EXCEPT ![p].version = last + 1]
    BY DEF ReadVersion, Goto, NextVersion
<1>2. last \in Nat /\ \A o \in Offers : offer[o].version \in Nat
    BY DEF Well, RenewalTypeOK, Offer
<1>3. pc'[p] = "insert" /\ req'[p].version = last + 1 /\ req'[p].case = req[p].case
    BY <1>1 DEF Well, RenewalTypeOK, Request
<1>4. ASSUME NEW k \in Cases, NEW o \in Offers, Top(k, o), NEW q \in Requests, Ahead(q, k, offer[o].version)
      PROVE  Ahead(q, k, offer[o].version)'
    <2>0. PICK v : v = offer[o].version
        OBVIOUS
    <2>1. CASE q = p
        <3>1. req[p].case = k /\ CaseOf[o] = k
            BY <1>4, <2>1 DEF Ahead, Top, OffersOf
        <3>2. v <= last
            BY <1>1, <2>0, <3>1
        <3>3. last + 1 > v /\ v \in Nat
            BY <1>2, <2>0, <3>2
        <3>4. offer'[o].version = v
            BY <1>1, <2>0
        <3>5. QED
            BY <1>3, <2>1, <3>1, <3>3, <3>4 DEF Ahead
    <2>2. CASE q # p
        <3>1. Ahead(q, k, v)'
            BY <1>4, <2>0, <2>2, OthersAhead DEF Continue
        <3>2. QED
            BY <1>1, <2>0, <3>1 DEF Ahead
    <2>3. QED
        BY <2>1, <2>2
<1>5. QED
    BY <1>1, <1>4, OffersAlone

\* An offer is inserted: it is open, and on top unless a later one is there.
LEMMA InsertHeads ==
    ASSUME Well, Heads, NEW p \in Requests, InsertOffer(p), UNCHANGED died
    PROVE  Heads'
<1>0. PICK k, v : k = req[p].case /\ v = req[p].version
    OBVIOUS
<1>1. PICK o \in Offers :
        /\ pc[p] = "insert" /\ VersionFree(k, v)
        /\ offer[o].status = "absent" /\ CaseOf[o] = k
        /\ offer' = [offer EXCEPT ![o] = [status |-> "OPEN", version |-> v]]
    BY <1>0 DEF InsertOffer, Goto
<1>2. v \in Nat /\ \A q \in Offers : offer[q].version \in Nat
    BY <1>0 DEF Well, RenewalTypeOK, Offer, Request
<1>3. /\ offer'[o].status = "OPEN" /\ offer'[o].version = v
      /\ \A q \in Offers \ {o} : offer'[q] = offer[q]
    BY <1>1 DEF Well, RenewalTypeOK
<1>4. \A j \in Cases : OffersOf(j)' = OffersOf(j) \cup (IF j = k THEN {o} ELSE {})
    BY <1>1, <1>3 DEF OffersOf
<1>5. \A j \in Cases : OneAccepted(j)' <=> OneAccepted(j)
    BY <1>1, <1>3 DEF OneAccepted
<1>6. \A q \in OffersOf(k) : offer[q].version # v
    BY <1>1 DEF VersionFree, OffersOf
<1>7. OneVersion'
    BY <1>1, <1>3, <1>6 DEF Heads, OneVersion, OffersOf
<1>8. ASSUME NEW j \in Cases, NEW q \in Offers, HeadedBy(j, q), ~(j = k /\ offer[q].version < v)
      PROVE  HeadedBy(j, q)'
    <2>1. q \in OffersOf(j) /\ q # o /\ q \in OffersOf(j)' /\ offer'[q] = offer[q]
        BY <1>1, <1>3, <1>4, <1>8 DEF HeadedBy, Top, OffersOf
    <2>2. Top(j, q)'
        <3>1. ASSUME NEW x \in OffersOf(j)' PROVE offer'[x].version <= offer[q].version
            <4>1. CASE x = o /\ j = k
                BY <1>2, <1>3, <1>8, <4>1
            <4>2. CASE ~(x = o /\ j = k)
                <5>1. x \in OffersOf(j)
                    BY <1>4, <3>1, <4>2
                <5>2. x # o
                    BY <1>1, <5>1 DEF OffersOf
                <5>3. QED
                    BY <1>3, <1>8, <5>1, <5>2 DEF HeadedBy, Top, OffersOf
            <4>3. QED
                BY <4>1, <4>2
        <3>2. QED
            BY <2>1, <3>1 DEF Top
    <2>3. ASSUME NEW r \in Requests, Ahead(r, j, offer[q].version) PROVE Ahead(r, j, offer[q].version)'
        <3>1. PICK w : w = offer[q].version /\ w \in Nat
            BY <1>2
        <3>2. r # p
            BY <1>0, <1>1, <1>2, <1>8, <2>3, <3>1 DEF Ahead
        <3>3. Ahead(r, j, w)'
            BY <2>3, <3>1, <3>2, OthersAhead DEF Continue
        <3>4. offer'[q].version = w
            BY <2>1, <3>1
        <3>5. QED
            BY <3>3, <3>4 DEF Ahead
    <2>4. QED
        BY <1>5, <1>8, <2>1, <2>2, <2>3 DEF HeadedBy, IsOpen
<1>9. ASSUME NEW j \in Cases, ~died, OffersOf(j)' # {} PROVE \E q \in Offers : HeadedBy(j, q)'
    <2>1. CASE OffersOf(j) = {}
        <3>1. j = k /\ OffersOf(k)' = {o}
            BY <1>4, <1>9, <2>1
        <3>2. HeadedBy(j, o)'
            BY <1>2, <1>3, <3>1 DEF HeadedBy, Top, IsOpen
        <3>3. QED
            BY <3>2
    <2>2. CASE OffersOf(j) # {}
        <3>1. PICK q \in Offers : HeadedBy(j, q)
            BY <1>9, <2>2 DEF Heads, Headed
        <3>2. CASE j = k /\ offer[q].version < v
            <4>1. \A x \in OffersOf(k) : offer[x].version <= offer[q].version
                BY <3>1, <3>2 DEF HeadedBy, Top
            <4>2. \A x \in OffersOf(k) : offer[x].version <= v
                BY <1>2, <3>2, <4>1 DEF OffersOf
            <4>3. \A x \in OffersOf(k)' : offer'[x].version <= v
                BY <1>1, <1>2, <1>3, <1>4, <3>2, <4>2 DEF OffersOf
            <4>4. o \in OffersOf(k)'
                BY <1>4, <3>2
            <4>5. HeadedBy(k, o)'
                BY <1>3, <4>3, <4>4 DEF HeadedBy, Top, IsOpen
            <4>6. QED
                BY <3>2, <4>5
        <3>3. QED
            BY <1>8, <3>1, <3>2
    <2>3. QED
        BY <2>1, <2>2
<1>10. QED
    BY <1>7, <1>9 DEF Heads, Headed

\* The version was taken: whoever took it has put a later offer on top.
LEMMA TakenHeads ==
    ASSUME Well, Heads, NEW p \in Requests, VersionTaken(p), UNCHANGED died
    PROVE  Heads'
<1>1. pc[p] = "insert" /\ UNCHANGED offer
    BY DEF VersionTaken, Leave
<1>2. \A o \in Offers : offer[o].version \in Nat
    BY DEF Well, RenewalTypeOK, Offer
<1>3. ASSUME NEW k \in Cases, NEW o \in Offers, Top(k, o), NEW q \in Requests, Ahead(q, k, offer[o].version)
      PROVE  Ahead(q, k, offer[o].version)'
    <2>0. PICK v : v = offer[o].version /\ v \in Nat
        BY <1>2
    <2>1. q # p
        <3>1. SUFFICES ASSUME q = p PROVE FALSE
            OBVIOUS
        <3>2. req[p].case = k /\ req[p].version > v
            BY <1>1, <1>3, <2>0, <3>1 DEF Ahead
        <3>3. PICK x \in OffersOf(k) : offer[x].version = req[p].version
            BY <3>2 DEF VersionTaken, VersionFree, OffersOf
        <3>4. offer[x].version <= v /\ offer[x].version \in Nat
            BY <1>2, <1>3, <2>0, <3>3 DEF Top, OffersOf
        <3>5. QED
            BY <2>0, <3>2, <3>3, <3>4
    <2>2. Ahead(q, k, v)'
        BY <1>3, <2>0, <2>1, OthersAhead DEF Continue
    <2>3. QED
        BY <1>1, <2>0, <2>2 DEF Ahead
<1>4. QED
    BY <1>1, <1>3, OffersAlone

\* An offer is accepted: then its case needs no open one.
LEMMA AcceptHeads ==
    ASSUME Well, Heads, NEW p \in Requests, NEW a \in Offers, Accept(p, a), UNCHANGED died
    PROVE  Heads'
<1>0. PICK k : k = CaseOf[a] /\ k \in Cases
    BY RenewalAssumption
<1>1. /\ offer' = [Superseded(k, a) EXCEPT ![a].status = "ACCEPTED"]
      /\ pc[p] = "idle" /\ IsOpen(a)
    BY <1>0 DEF Accept, Start, CanAccept
<1> DEFINE s == Superseded(k, a)
<1>2. /\ s \in [Offers -> Offer]
      /\ \A o \in Offers :
            /\ s[o].version = offer[o].version
            /\ (s[o].status = "absent" <=> offer[o].status = "absent")
            /\ CaseOf[o] # k => s[o].status = offer[o].status
            /\ (s[o].status = "ACCEPTED" <=> offer[o].status = "ACCEPTED")
    BY SupersededTyped DEF Well, RenewalTypeOK, OffersTyped
<1>3. offer' = [s EXCEPT ![a].status = "ACCEPTED"]
    BY <1>1
<1> HIDE DEF s
<1>4. /\ offer'[a].status = "ACCEPTED" /\ offer'[a].version = s[a].version
      /\ \A o \in Offers \ {a} : offer'[o] = s[o]
    BY <1>2, <1>3 DEF Offer
<1>5. \A o \in Offers :
        /\ offer'[o].version = offer[o].version
        /\ (offer'[o].status = "absent" <=> offer[o].status = "absent")
        /\ CaseOf[o] # k => offer'[o].status = offer[o].status
    BY <1>0, <1>1, <1>2, <1>4 DEF IsOpen
<1>6. ~OneAccepted(k)'
    BY <1>0, <1>4 DEF OneAccepted
<1>7. \A j \in Cases : OffersOf(j)' = OffersOf(j) /\ (j # k => (OneAccepted(j)' <=> OneAccepted(j)))
    BY <1>5 DEF OffersOf, OneAccepted
<1>8. \A j \in Cases, o \in Offers : Top(j, o) => Top(j, o)'
    BY <1>5, <1>7 DEF Top, OffersOf
<1>9. ASSUME NEW j \in Cases, NEW o \in Offers, HeadedBy(j, o) PROVE HeadedBy(j, o)'
    <2>1. CASE j = k
        BY <1>6, <1>8, <1>9, <2>1 DEF HeadedBy
    <2>2. CASE j # k
        <3>1. IsOpen(o) => IsOpen(o)'
            BY <1>5, <1>9, <2>2 DEF HeadedBy, Top, OffersOf, IsOpen
        <3>2. ASSUME NEW q \in Requests, Ahead(q, j, offer[o].version) PROVE Ahead(q, j, offer[o].version)'
            <4>1. q # p
                BY <1>1, <3>2 DEF Ahead
            <4>2. PICK v : v = offer[o].version
                OBVIOUS
            <4>3. Arrive(p) /\ Ahead(q, j, v)
                BY <3>2, <4>2 DEF Arrive
            <4>4. Ahead(q, j, v)'
                BY <4>1, <4>3, OthersAhead
            <4>5. offer'[o].version = v
                BY <1>5, <4>2
            <4>6. QED
                BY <4>4, <4>5 DEF Ahead
        <3>3. QED
            BY <1>7, <1>8, <1>9, <2>2, <3>1, <3>2 DEF HeadedBy
    <2>3. QED
        BY <2>1, <2>2
<1>10. OneVersion'
    BY <1>5 DEF Heads, OneVersion
<1>11. QED
    BY <1>7, <1>9, <1>10 DEF Heads, Headed

LEMMA HeadsStep ==
    ASSUME Well, Heads, [Next]_vars
    PROVE  Heads'
<1>1. ASSUME NEW p \in Requests, Arrive(p), UNCHANGED died PROVE Heads'
    <2>1. ASSUME NEW t \in Tenancies, OpenRead(p, t) \/ \E s \in StaffTargets : SetStatus(p, t, s) PROVE Heads'
        <3>1. pc[p] = "idle" /\ UNCHANGED offer
            <4>1. CASE OpenRead(p, t)
                BY <4>1 DEF OpenRead
            <4>2. ASSUME NEW s \in StaffTargets, SetStatus(p, t, s) PROVE pc[p] = "idle" /\ UNCHANGED offer
                BY <4>2 DEF SetStatus
            <4>3. QED
                BY <2>1, <4>1, <4>2
        <3>2. QED
            BY <1>1, <3>1, RestHeads
    <2>2. ASSUME NEW k \in Cases, MintRead(p, k) PROVE Heads'
        BY <1>1, <2>2, RestHeads DEF MintRead, Start
    <2>3. ASSUME NEW k \in Cases, NEW op \in {"propose", "counter"}, Propose(p, k, op) PROVE Heads'
        BY <1>1, <2>3, ProposeHeads
    <2>4. ASSUME NEW o \in Offers, Accept(p, o) PROVE Heads'
        BY <1>1, <2>4, AcceptHeads
    <2>5. ASSUME NEW n \in Notices, ApproveRead(p, n) \/ ServeRead(p, n) \/ PendingRead(p, n) PROVE Heads'
        <3>1. pc[p] = "idle" /\ UNCHANGED offer
            BY <2>5 DEF ApproveRead, ServeRead, PendingRead, Start
        <3>2. QED
            BY <1>1, <3>1, RestHeads
    <2>6. QED
        BY <1>1, <2>1, <2>2, <2>3, <2>4, <2>5 DEF Arrive
<1>2. ASSUME NEW p \in Requests, Continue(p), UNCHANGED died PROVE Heads'
    <2>1. CASE ReadVersion(p)
        BY <1>2, <2>1, ReadHeads
    <2>2. CASE InsertOffer(p)
        BY <1>2, <2>2, InsertHeads
    <2>3. CASE VersionTaken(p)
        BY <1>2, <2>3, TakenHeads
    <2>4. CASE OpenCreate(p) \/ OpenLost(p) \/ PointCase(p) \/ PointRefused(p) \/ MoveRead(p) \/ MoveWrite(p)
        <3>1. pc[p] \notin {"version", "insert"} /\ UNCHANGED offer
            BY <2>4 DEF OpenCreate, OpenLost, PointCase, PointRefused, MoveRead, MoveWrite, Goto, Leave, Done
        <3>2. QED
            BY <1>2, <3>1, RestHeads
    <2>5. CASE Mint(p) \/ MintRefused(p) \/ ApproveWrite(p) \/ PendingWrite(p) \/ ServeWrite(p)
               \/ ServeRefused(p) \/ Record(p)
        <3>1. pc[p] \notin {"version", "insert"} /\ UNCHANGED offer
            BY <2>5 DEF Mint, MintRefused, ApproveWrite, PendingWrite, ServeWrite, ServeRefused, Record,
                        Goto, Leave
        <3>2. QED
            BY <1>2, <3>1, RestHeads
    <2>6. QED
        BY <1>2, <2>1, <2>2, <2>3, <2>4, <2>5 DEF Continue
<1>3. ASSUME NEW p \in Requests, Fail(p) PROVE Heads'
    BY <1>3 DEF Fail, Heads, OneVersion
<1>4. CASE (AtOnce /\ UNCHANGED died) \/ UNCHANGED vars
    <2>1. UNCHANGED <<offer, pc, req, died>>
        BY <1>4 DEF AtOnce, PrepareNotice, Archive, vars
    <2>2. QED
        BY <2>1, OffersAlone DEF Ahead
<1>5. QED
    BY <1>1, <1>2, <1>3, <1>4 DEF Next

-----------------------------------------------------------------------------
(* Guidance: on the path *)

\* Off the path the two halves come apart: a case opened for a tenancy that has its
\* successor, and a case with a decision that is negotiated or served again.
OnPath ==
    \A t \in Tenancies \ strayed :
        /\ successor[t] # None => newest[t] = successor[t]
        /\ \A k \in Cases : TenancyOf[k] = t /\ case[k].decided # None => case[k].status \in {"AGREED", "RENEWED"}

Facts ==
    /\ party \in [Offers -> {"LANDLORD", "TENANT"}] /\ figure \in [Tenancies -> Figures]
    /\ drawn \in [Cases -> Notices \cup {None}]
    /\ \A k \in Cases : drawn[k] # None => CaseOfNotice[drawn[k]] = k /\ notice[drawn[k]] # "absent"

LEMMA FactsStep ==
    ASSUME Well, Ready, Facts, [GuidedNext]_<<vars, guideVars>>
    PROVE  Facts'
<1> USE RenewalAssumption
<1>1. \A n \in Notices : notice[n] # "absent" => notice'[n] # "absent"
    <2>1. [Next]_vars
        BY GuidedIsNext
    <2>2. QED
        BY <2>1, NoticeSteps, WellIs DEF NoticeMove, Tables
<1>2. CASE UNCHANGED <<party, figure, drawn>>
    BY <1>1, <1>2 DEF Facts
<1>3. ASSUME NEW n \in Notices, Draws(n) PROVE Facts'
    <2>1. /\ drawn' = [drawn EXCEPT ![CaseOfNotice[n]] = n] /\ UNCHANGED <<party, figure>>
          /\ notice' = [notice EXCEPT ![n] = "GENERATED"]
        BY <1>3 DEF Draws, PrepareNotice
    <2>2. CaseOfNotice[n] \in Cases /\ notice'[n] # "absent"
        BY <2>1, WellIs DEF Tables
    <2>3. drawn' \in [Cases -> Notices \cup {None}]
        BY <2>1, <2>2 DEF Facts
    <2>4. ASSUME NEW k \in Cases, drawn'[k] # None
          PROVE  CaseOfNotice[drawn'[k]] = k /\ notice'[drawn'[k]] # "absent"
        <3>1. CASE k = CaseOfNotice[n]
            BY <2>1, <2>2, <3>1 DEF Facts
        <3>2. CASE k # CaseOfNotice[n]
            <4>1. drawn'[k] = drawn[k]
                BY <2>1, <3>2 DEF Facts
            <4>2. QED
                BY <1>1, <2>4, <4>1 DEF Facts
        <3>3. QED
            BY <3>1, <3>2
    <2>5. QED
        BY <2>1, <2>3, <2>4 DEF Facts
<1>4. ASSUME NEW p \in Requests, Inserts(p) PROVE Facts'
    <2>1. /\ UNCHANGED <<figure, drawn, notice>>
          /\ \E o, side : side \in {"LANDLORD", "TENANT"} /\ party' = [party EXCEPT ![o] = side]
        BY <1>4 DEF Inserts, InsertOffer
    <2>2. QED
        BY <2>1 DEF Facts
<1>5. ASSUME NEW t \in Tenancies, NEW f \in Figures, CaptureIndex(t, f), UNCHANGED vars PROVE Facts'
    BY <1>1, <1>5 DEF CaptureIndex, Facts, vars
<1>6. ASSUME NEW p \in Requests, Opens(p) \/ Rewrites(p) \/ Decides(p) \/ Goes(p) PROVE UNCHANGED <<party, figure, drawn>>
    BY <1>6 DEF Opens, Rewrites, Decides, Goes, guideVars
<1>7. CASE Beside /\ UNCHANGED vars
    BY <1>2, <1>5, <1>7 DEF Beside, SendOffer, CaptureBenchmark, MoveGate
<1>8. CASE UNCHANGED guideVars
    BY <1>2, <1>8 DEF guideVars
<1>9. QED
    BY <1>2, <1>3, <1>4, <1>6, <1>7, <1>8 DEF GuidedNext, guideVars

LEMMA OnPathStep ==
    ASSUME Well, DecisionStands, Grounded, Picked, OnPath, [GuidedNext]_<<vars, guideVars>>
    PROVE  OnPath'
<1> USE RenewalAssumption
<1>1. ASSUME NEW p \in Requests, Opens(p) PROVE OnPath'
    <2>1. PICK k \in Cases :
            /\ case[k].status = "absent"
            /\ case' = [case EXCEPT ![k].status = "ASSESSING"]
            /\ req' = [req EXCEPT ![p].case = k, ![p].item = k]
            /\ UNCHANGED successor
        BY <1>1 DEF Opens, OpenCreate
    <2>2. req'[p].case = k
        BY <2>1 DEF Well, RenewalTypeOK, Request
    <2>3. /\ newest' = [newest EXCEPT ![TenancyOf[k]] = k] /\ strayed \subseteq strayed'
          /\ successor[TenancyOf[k]] # None => TenancyOf[k] \in strayed'
        BY <1>1, <2>2 DEF Opens, Strays
    <2>4. case'[k].decided = case[k].decided /\ \A j \in Cases \ {k} : case'[j] = case[j]
        BY <2>1, WellIs DEF Tables, Case
    <2>5. case[k].decided = None
        <3>1. case[k].decided \in Offers \cup {None}
            BY WellIs DEF Tables, Case
        <3>2. QED
            BY <2>1, <3>1 DEF DecisionStands, Grounded, Opened
    <2>6. \A t \in Tenancies \ {TenancyOf[k]} : newest'[t] = newest[t]
        BY <2>3 DEF Picked
    <2>7. QED
        BY <2>1, <2>3, <2>4, <2>5, <2>6 DEF OnPath
<1>2. ASSUME NEW p \in Requests, Rewrites(p) PROVE OnPath'
    <2>0. PICK k : k = req[p].case
        OBVIOUS
    <2>1. /\ pc[p] \in {"point", "serve"} /\ UNCHANGED <<newest, successor>>
          /\ strayed \subseteq strayed'
          /\ case[k].decided # None => TenancyOf[k] \in strayed'
          /\ \/ case' = [case EXCEPT ![k].status = "NEGOTIATING", ![k].current = req[p].item]
             \/ case' = [case EXCEPT ![k].status = "NOTICE_SERVED"]
        BY <1>2, <2>0 DEF Rewrites, PointCase, ServeWrite, Strays, Goto, Leave
    <2>2. k \in Cases
        BY <2>0, <2>1 DEF Well, Shape, ShapeAt
    <2>3. case[k] \in Case /\ DOMAIN case = Cases
        BY <2>2, WellIs DEF Tables
    <2>4. case'[k].decided = case[k].decided /\ \A j \in Cases \ {k} : case'[j] = case[j]
        BY <2>1, <2>2, <2>3 DEF Case
    <2>5. ASSUME NEW t \in Tenancies, t \notin strayed', NEW j \in Cases, TenancyOf[j] = t, case'[j].decided # None
          PROVE  case'[j].status \in {"AGREED", "RENEWED"}
        <3>1. j # k
            BY <2>1, <2>4, <2>5
        <3>2. case'[j] = case[j] /\ t \notin strayed
            BY <2>1, <2>4, <2>5, <3>1
        <3>3. QED
            BY <2>5, <3>2 DEF OnPath
    <2>6. QED
        BY <2>1, <2>5 DEF OnPath
<1>3. ASSUME NEW p \in Requests, NEW o \in Offers, Accept(p, o), UNCHANGED <<newest, strayed>> PROVE OnPath'
    <2>0. PICK k \in Cases : k = CaseOf[o]
        OBVIOUS
    <2>1. /\ case' = [case EXCEPT ![k].status = "AGREED", ![k].decided = o, ![k].current = o]
          /\ UNCHANGED successor
        BY <1>3, <2>0 DEF Accept
    <2>2. case'[k].status = "AGREED" /\ \A j \in Cases \ {k} : case'[j] = case[j]
        BY <2>1, WellIs DEF Tables, Case
    <2>3. ASSUME NEW t \in Tenancies, t \notin strayed, NEW j \in Cases, TenancyOf[j] = t, case'[j].decided # None
          PROVE  case'[j].status \in {"AGREED", "RENEWED"}
        <3>1. CASE j = k
            BY <2>2, <3>1
        <3>2. CASE j # k
            BY <2>2, <2>3, <3>2 DEF OnPath
        <3>3. QED
            BY <3>1, <3>2
    <2>4. QED
        BY <1>3, <2>1, <2>3 DEF OnPath
<1>4. ASSUME NEW p \in Requests, Mint(p), UNCHANGED <<newest, strayed>> PROVE OnPath'
    <2>1. PICK k : k = req[p].case
        OBVIOUS
    <2>2. /\ case[k].status = "AGREED"
          /\ case' = [case EXCEPT ![k].status = "RENEWED", ![k].minted = TRUE]
          /\ successor' = [successor EXCEPT ![TenancyOf[k]] = k]
        BY <1>4, <2>1 DEF Mint, StillAgreed
    <2>3. k \in Cases
        BY <1>4, <2>1, MintMints
    <2>4. newest[TenancyOf[k]] = k /\ TenancyOf[k] \in Tenancies
        BY <2>2, <2>3 DEF Picked, Opened
    <2>5. case'[k].status = "RENEWED" /\ \A j \in Cases \ {k} : case'[j] = case[j]
        BY <2>2, <2>3, WellIs DEF Tables, Case
    <2>6. \A t \in Tenancies : successor'[t] = IF t = TenancyOf[k] THEN k ELSE successor[t]
        BY <2>2, WellIs DEF Tables
    <2>7. QED
        BY <1>4, <2>3, <2>4, <2>5, <2>6 DEF OnPath
<1>5. ASSUME NEW p \in Requests, Decides(p) PROVE OnPath'
    BY <1>3, <1>4, <1>5 DEF Decides
<1>6. CASE UNCHANGED <<case, successor, newest, strayed>>
    BY <1>6 DEF OnPath
<1>7. QED
    BY <1>1, <1>2, <1>5, <1>6, GuidedKinds

-----------------------------------------------------------------------------
(* Guidance: the rules *)

Rule(i, n) == Rules(i)[n][1]
First(i, n) == Rule(i, n) /\ \A m \in 1..(n - 1) : ~Rule(i, m)

LEMMA RulesAre ==
    ASSUME NEW i
    PROVE  /\ DOMAIN Rules(i) = 1..13
           /\ Rule(i, 1) = (i.renewed \/ i.case = "RENEWED") /\ Rules(i)[1][2] = "REVIEW_COMPLETED_CASE"
           /\ Rule(i, 2) = (i.notice = "PENDING_EVIDENCE") /\ Rules(i)[2][2] = "ADD_SERVICE_EVIDENCE"
           /\ Rule(i, 3) = (i.gatePassed /\ i.notice # "SERVED") /\ Rules(i)[3][2] = "REVIEW_CASE"
           /\ Rule(i, 4) = (i.index = "none") /\ Rules(i)[4][2] = "CAPTURE_INDEX"
           /\ Rule(i, 5) = (i.index = "provisional") /\ Rules(i)[5][2] = "VERIFY_INDEX_SOURCE"
           /\ Rule(i, 6) = (i.case = "absent") /\ Rules(i)[6][2] = "OPEN_CASE"
           /\ Rule(i, 7) = (i.notice \in {"absent", "GENERATED", "APPROVED"}) /\ Rules(i)[7][2] = "SERVE_NOTICE"
           /\ Rule(i, 8) = (i.accepted \/ i.case = "AGREED") /\ Rules(i)[8][2] = "COMPLETE_RENEWAL"
           /\ Rule(i, 9) = (i.offer = "absent") /\ Rules(i)[9][2] = "PREPARE_TERMS"
           /\ Rule(i, 10) = (i.party = "TENANT" /\ i.offer = "OPEN") /\ Rules(i)[10][2] = "REVIEW_COUNTER"
           /\ Rule(i, 11) = (i.party = "LANDLORD" /\ i.offer = "OPEN" /\ ~i.sent) /\ Rules(i)[11][2] = "SEND_OFFER"
           /\ Rule(i, 12) = (i.party = "LANDLORD" /\ i.offer = "OPEN") /\ Rules(i)[12][2] = "AWAIT_TENANT"
           /\ Rule(i, 13) = (TRUE) /\ Rules(i)[13][2] = "REVIEW_CASE"
<1> QED
    BY DEF Rules, Rule

\* The action of each rule.
LEMMA CodesAre ==
    ASSUME NEW i, NEW n \in 1..13
    PROVE  /\ n = 1 => Rules(i)[n][2] = "REVIEW_COMPLETED_CASE"
           /\ n = 2 => Rules(i)[n][2] = "ADD_SERVICE_EVIDENCE"
           /\ n = 3 => Rules(i)[n][2] = "REVIEW_CASE"
           /\ n = 4 => Rules(i)[n][2] = "CAPTURE_INDEX"
           /\ n = 5 => Rules(i)[n][2] = "VERIFY_INDEX_SOURCE"
           /\ n = 6 => Rules(i)[n][2] = "OPEN_CASE"
           /\ n = 7 => Rules(i)[n][2] = "SERVE_NOTICE"
           /\ n = 8 => Rules(i)[n][2] = "COMPLETE_RENEWAL"
           /\ n = 9 => Rules(i)[n][2] = "PREPARE_TERMS"
           /\ n = 10 => Rules(i)[n][2] = "REVIEW_COUNTER"
           /\ n = 11 => Rules(i)[n][2] = "SEND_OFFER"
           /\ n = 12 => Rules(i)[n][2] = "AWAIT_TENANT"
           /\ n = 13 => Rules(i)[n][2] = "REVIEW_CASE"
<1>1. n = 1 => Rules(i)[n][2] = "REVIEW_COMPLETED_CASE"
    BY RulesAre
<1>2. n = 2 => Rules(i)[n][2] = "ADD_SERVICE_EVIDENCE"
    BY RulesAre
<1>3. n = 3 => Rules(i)[n][2] = "REVIEW_CASE"
    BY RulesAre
<1>4. n = 4 => Rules(i)[n][2] = "CAPTURE_INDEX"
    BY RulesAre
<1>5. n = 5 => Rules(i)[n][2] = "VERIFY_INDEX_SOURCE"
    BY RulesAre
<1>6. n = 6 => Rules(i)[n][2] = "OPEN_CASE"
    BY RulesAre
<1>7. n = 7 => Rules(i)[n][2] = "SERVE_NOTICE"
    BY RulesAre
<1>8. n = 8 => Rules(i)[n][2] = "COMPLETE_RENEWAL"
    BY RulesAre
<1>9. n = 9 => Rules(i)[n][2] = "PREPARE_TERMS"
    BY RulesAre
<1>10. n = 10 => Rules(i)[n][2] = "REVIEW_COUNTER"
    BY RulesAre
<1>11. n = 11 => Rules(i)[n][2] = "SEND_OFFER"
    BY RulesAre
<1>12. n = 12 => Rules(i)[n][2] = "AWAIT_TENANT"
    BY RulesAre
<1>13. n = 13 => Rules(i)[n][2] = "REVIEW_CASE"
    BY RulesAre
<1> QED
    BY <1>1, <1>2, <1>3, <1>4, <1>5, <1>6, <1>7, <1>8, <1>9, <1>10, <1>11, <1>12, <1>13

LEMMA RulesHold ==
    ASSUME NEW i
    PROVE  /\ (Rule(i, 1) <=> (i.renewed \/ i.case = "RENEWED"))
           /\ (Rule(i, 2) <=> (i.notice = "PENDING_EVIDENCE"))
           /\ (Rule(i, 3) <=> (i.gatePassed /\ i.notice # "SERVED"))
           /\ (Rule(i, 4) <=> (i.index = "none"))
           /\ (Rule(i, 5) <=> (i.index = "provisional"))
           /\ (Rule(i, 6) <=> (i.case = "absent"))
           /\ (Rule(i, 7) <=> (i.notice \in {"absent", "GENERATED", "APPROVED"}))
           /\ (Rule(i, 8) <=> (i.accepted \/ i.case = "AGREED"))
           /\ (Rule(i, 9) <=> (i.offer = "absent"))
           /\ (Rule(i, 10) <=> (i.party = "TENANT" /\ i.offer = "OPEN"))
           /\ (Rule(i, 11) <=> (i.party = "LANDLORD" /\ i.offer = "OPEN" /\ ~i.sent))
           /\ (Rule(i, 12) <=> (i.party = "LANDLORD" /\ i.offer = "OPEN"))
<1> USE RulesAre
<1>1. Rule(i, 1) <=> (i.renewed \/ i.case = "RENEWED")
    OBVIOUS
<1>2. Rule(i, 2) <=> (i.notice = "PENDING_EVIDENCE")
    OBVIOUS
<1>3. Rule(i, 3) <=> (i.gatePassed /\ i.notice # "SERVED")
    OBVIOUS
<1>4. Rule(i, 4) <=> (i.index = "none")
    OBVIOUS
<1>5. Rule(i, 5) <=> (i.index = "provisional")
    OBVIOUS
<1>6. Rule(i, 6) <=> (i.case = "absent")
    OBVIOUS
<1>7. Rule(i, 7) <=> (i.notice \in {"absent", "GENERATED", "APPROVED"})
    OBVIOUS
<1>8. Rule(i, 8) <=> (i.accepted \/ i.case = "AGREED")
    OBVIOUS
<1>9. Rule(i, 9) <=> (i.offer = "absent")
    OBVIOUS
<1>10. Rule(i, 10) <=> (i.party = "TENANT" /\ i.offer = "OPEN")
    OBVIOUS
<1>11. Rule(i, 11) <=> (i.party = "LANDLORD" /\ i.offer = "OPEN" /\ ~i.sent)
    OBVIOUS
<1>12. Rule(i, 12) <=> (i.party = "LANDLORD" /\ i.offer = "OPEN")
    OBVIOUS
<1> QED
    BY <1>1, <1>2, <1>3, <1>4, <1>5, <1>6, <1>7, <1>8, <1>9, <1>10, <1>11, <1>12

\* The first rule that holds gives the action.
LEMMA FirstGives ==
    ASSUME NEW i, NEW n \in 1..13, First(i, n)
    PROVE  deriveRenewalNextAction(i) = Rules(i)[n][2]
<1> DEFINE first == CHOOSE x \in DOMAIN Rules(i) : First(i, x)
<1>1. first \in 1..13 /\ First(i, first)
    BY RulesAre
<1> HIDE DEF first
<1>2. first = n
    <2>1. \A x \in 1..13 : x < n \/ x = n \/ n < x
        OBVIOUS
    <2>2. first < n => first \in 1..(n - 1)
        BY <1>1
    <2>3. n < first => n \in 1..(first - 1)
        BY <1>1
    <2>4. QED
        BY <1>1, <2>1, <2>2, <2>3 DEF First
<1>3. deriveRenewalNextAction(i) = Rules(i)[first][2]
    BY DEF deriveRenewalNextAction, First, Rule, first
<1>4. QED
    BY <1>2, <1>3

Sifted(i, n) == (\E m \in 1..n : First(i, m)) \/ \A m \in 1..n : ~Rule(i, m)

LEMMA Sifts ==
    ASSUME NEW i, NEW n \in 0..12, Sifted(i, n)
    PROVE  Sifted(i, n + 1)
<1>1. 1..(n + 1) = 1..n \cup {n + 1} /\ (n + 1) - 1 = n /\ n + 1 \in 1..13
    OBVIOUS
<1>2. QED
    BY <1>1 DEF Sifted, First

\* Some rule is the first.
LEMMA SomeRule ==
    ASSUME NEW i
    PROVE  \E n \in 1..13 : First(i, n)
<1>1. Sifted(i, 0)
    BY DEF Sifted
<1>2. Sifted(i, 1) /\ Sifted(i, 2) /\ Sifted(i, 3) /\ Sifted(i, 4)
    BY <1>1, 0 + 1 = 1, 1 + 1 = 2, 2 + 1 = 3, 3 + 1 = 4, Sifts
<1>3. Sifted(i, 5) /\ Sifted(i, 6) /\ Sifted(i, 7) /\ Sifted(i, 8)
    BY <1>2, 4 + 1 = 5, 5 + 1 = 6, 6 + 1 = 7, 7 + 1 = 8, Sifts
<1>4. Sifted(i, 9) /\ Sifted(i, 10) /\ Sifted(i, 11) /\ Sifted(i, 12) /\ Sifted(i, 13)
    BY <1>3, 8 + 1 = 9, 9 + 1 = 10, 10 + 1 = 11, 11 + 1 = 12, 12 + 1 = 13, Sifts
<1>5. Rule(i, 13)
    BY RulesAre
<1>6. QED
    BY <1>4, <1>5 DEF Sifted

\* What holds where the n-th rule is the first.
LEMMA Ladder ==
    ASSUME NEW i, NEW n \in 1..13, First(i, n)
    PROVE  /\ (n > 1 => ~(i.renewed \/ i.case = "RENEWED")) /\ (n = 1 => (i.renewed \/ i.case = "RENEWED"))
           /\ (n > 2 => ~(i.notice = "PENDING_EVIDENCE")) /\ (n = 2 => (i.notice = "PENDING_EVIDENCE"))
           /\ (n > 3 => ~(i.gatePassed /\ i.notice # "SERVED")) /\ (n = 3 => (i.gatePassed /\ i.notice # "SERVED"))
           /\ (n > 4 => ~(i.index = "none")) /\ (n = 4 => (i.index = "none"))
           /\ (n > 5 => ~(i.index = "provisional")) /\ (n = 5 => (i.index = "provisional"))
           /\ (n > 6 => ~(i.case = "absent")) /\ (n = 6 => (i.case = "absent"))
           /\ (n > 7 => ~(i.notice \in {"absent", "GENERATED", "APPROVED"})) /\ (n = 7 => (i.notice \in {"absent", "GENERATED", "APPROVED"}))
           /\ (n > 8 => ~(i.accepted \/ i.case = "AGREED")) /\ (n = 8 => (i.accepted \/ i.case = "AGREED"))
           /\ (n > 9 => ~(i.offer = "absent")) /\ (n = 9 => (i.offer = "absent"))
           /\ (n > 10 => ~(i.party = "TENANT" /\ i.offer = "OPEN")) /\ (n = 10 => (i.party = "TENANT" /\ i.offer = "OPEN"))
           /\ (n > 11 => ~(i.party = "LANDLORD" /\ i.offer = "OPEN" /\ ~i.sent)) /\ (n = 11 => (i.party = "LANDLORD" /\ i.offer = "OPEN" /\ ~i.sent))
           /\ (n > 12 => ~(i.party = "LANDLORD" /\ i.offer = "OPEN")) /\ (n = 12 => (i.party = "LANDLORD" /\ i.offer = "OPEN"))
<1>1. \A m \in 1..12 : n > m => ~Rule(i, m)
    BY DEF First
<1>2. \A m \in 1..12 : n = m => Rule(i, m)
    BY DEF First
<1>3. QED
    BY <1>1, <1>2, RulesHold

-----------------------------------------------------------------------------
(* Guidance: forms and tasks *)

LEMMA WorksIs ==
    ASSUME NEW x
    PROVE  /\ Works(<<"open", x>>) <=> \A k \in Cases : TenancyOf[k] = x => ~Live(k)
           /\ Works(<<"serve", x>>) <=> ActiveUnique(x)
           /\ Works(<<"propose", x>>) <=> ActiveUnique(x)
           /\ Works(<<"confirm", x>>) <=> notice[x] = "PENDING_EVIDENCE" /\ ActiveUnique(CaseOfNotice[x])
           /\ Works(<<"accept", x>>) <=> CanAccept(x) /\ ActiveUnique(CaseOf[x])
           /\ Works(<<"mint", x>>) <=> StillAgreed(x) /\ successor[TenancyOf[x]] = None
           /\ Works(<<"capture", x>>) /\ Works(<<"send", x>>)
<1> QED
    BY DEF Works

LEMMA TasksAre ==
    /\ DOMAIN Tasks = 1..8
    /\ Tasks[1] = "ASSESS_SOURCE" /\ Tasks[2] = "OPEN_CASE" /\ Tasks[3] = "SERVE_NOTICE"
    /\ Tasks[4] = "PROVE_SERVICE" /\ Tasks[5] = "PROPOSE_TERMS" /\ Tasks[6] = "SEND_TERMS"
    /\ Tasks[7] = "RECORD_RESPONSE" /\ Tasks[8] = "COMPLETE_RENEWAL"
<1> QED
    BY DEF Tasks

LEMMA BeforeIs ==
    ASSUME NEW n \in 1..8
    PROVE  Before(Tasks[n]) = {Tasks[m] : m \in 1..(n - 1)}
<1> DEFINE x == CHOOSE m \in DOMAIN Tasks : Tasks[m] = Tasks[n]
<1>1. x \in 1..8 /\ Tasks[x] = Tasks[n]
    BY TasksAre
<1> HIDE DEF x
<1>2. x = n
    BY <1>1, TasksAre
<1>3. QED
    BY <1>2 DEF Before, x

LEMMA CompletedIs ==
    ASSUME NEW t
    PROVE  LET i == getRenewalRisk(t)
               offers == IF newest[t] = None THEN {} ELSE OffersOf(newest[t])
               response == \E o \in offers : party[o] = "TENANT" \/ offer[o].status = "ACCEPTED" IN
           /\ i.index = "official" => "ASSESS_SOURCE" \in Completed(t)
           /\ i.case # "absent" => "OPEN_CASE" \in Completed(t)
           /\ i.notice = "SERVED" => "SERVE_NOTICE" \in Completed(t) /\ "PROVE_SERVICE" \in Completed(t)
           /\ response \/ (\E o \in offers : party[o] = "LANDLORD") => "PROPOSE_TERMS" \in Completed(t)
           /\ response \/ offers \cap sent # {} => "SEND_TERMS" \in Completed(t)
           /\ response => "RECORD_RESPONSE" \in Completed(t)
<1> QED
    BY DEF Completed
-----------------------------------------------------------------------------
(* Guidance: the page leads on *)

\* At rest the latest offer is open or the case has an accepted one.
LEMMA LatestIs ==
    ASSUME Well, Heads, ~died, \A p \in Requests : pc[p] = "idle", NEW k \in Cases, OffersOf(k) # {}
    PROVE  LatestOffer(k) \in OffersOf(k) /\ (IsOpen(LatestOffer(k)) \/ ~OneAccepted(k))
<1>1. PICK o \in Offers : Top(k, o) /\ (IsOpen(o) \/ ~OneAccepted(k))
    BY DEF Heads, Headed, HeadedBy, Ahead
<1> DEFINE x == LatestOffer(k)
<1>2. x \in OffersOf(k) /\ \A q \in OffersOf(k) : offer[q].version <= offer[x].version
    BY <1>1 DEF LatestOffer, Top
<1> HIDE DEF x
<1>3. o \in OffersOf(k) /\ offer[x].version <= offer[o].version /\ offer[o].version <= offer[x].version
    BY <1>1, <1>2 DEF Top
<1>4. offer[x].version \in Nat /\ offer[o].version \in Nat
    BY <1>2, <1>3 DEF OffersOf, Well, RenewalTypeOK, Offer
<1>5. offer[x].version = offer[o].version
    BY <1>3, <1>4
<1>6. x = o
    BY <1>2, <1>3, <1>5 DEF Heads, OneVersion, OffersOf
<1>7. QED
    BY <1>1, <1>2, <1>6 DEF x

\* Nothing stands in the way of the newest case.
LEMMA NewestUnique ==
    ASSUME Well, Picked, NEW t \in Tenancies
    PROVE  /\ newest[t] # None => newest[t] \in Cases /\ TenancyOf[newest[t]] = t /\ ActiveUnique(newest[t])
           /\ \A k \in Cases : TenancyOf[k] = t /\ Live(k) => k = newest[t]
<1>1. newest[t] # None => newest[t] \in Cases /\ TenancyOf[newest[t]] = t
    BY DEF Picked
<1>2. ASSUME NEW k \in Cases, TenancyOf[k] = t, Live(k) PROVE k = newest[t]
    BY <1>2 DEF Picked, Live, Opened, TerminalStatus
<1>3. QED
    BY <1>1, <1>2 DEF ActiveUnique

\* What the page asserts of a tenancy.
Leads(t) ==
    /\ \A form \in actionView(t) : Works(form)
    /\ actionView(t) = {} => nextAction(t) \in {"AWAIT_TENANT", "REVIEW_CASE", "REVIEW_COMPLETED_CASE"}
    /\ nextAction(t) = "AWAIT_TENANT" => Works(<<"accept", LatestOffer(newest[t])>>)
    /\ nextAction(t) = "REVIEW_CASE" => t \in passed /\ getRenewalRisk(t).notice # "SERVED"
    /\ nextAction(t) \in DOMAIN ACTION_TASK => Before(ACTION_TASK[nextAction(t)]) \subseteq Completed(t)

LEMMA ActionTasks ==
    /\ DOMAIN ACTION_TASK = {"PREPARE_TERMS", "SEND_OFFER", "AWAIT_TENANT", "REVIEW_COUNTER", "COMPLETE_RENEWAL"}
    /\ Before(ACTION_TASK["PREPARE_TERMS"]) = {Tasks[m] : m \in 1..4}
    /\ Before(ACTION_TASK["SEND_OFFER"]) = {Tasks[m] : m \in 1..5}
    /\ Before(ACTION_TASK["AWAIT_TENANT"]) = {Tasks[m] : m \in 1..6}
    /\ Before(ACTION_TASK["REVIEW_COUNTER"]) = {Tasks[m] : m \in 1..6}
    /\ Before(ACTION_TASK["COMPLETE_RENEWAL"]) = {Tasks[m] : m \in 1..7}
<1>1. /\ DOMAIN ACTION_TASK = {"PREPARE_TERMS", "SEND_OFFER", "AWAIT_TENANT", "REVIEW_COUNTER", "COMPLETE_RENEWAL"}
      /\ ACTION_TASK["PREPARE_TERMS"] = Tasks[5] /\ ACTION_TASK["SEND_OFFER"] = Tasks[6]
      /\ ACTION_TASK["AWAIT_TENANT"] = Tasks[7] /\ ACTION_TASK["REVIEW_COUNTER"] = Tasks[7]
      /\ ACTION_TASK["COMPLETE_RENEWAL"] = Tasks[8]
    BY TasksAre DEF ACTION_TASK
<1>2. 5 - 1 = 4 /\ 6 - 1 = 5 /\ 7 - 1 = 6 /\ 8 - 1 = 7
    OBVIOUS
<1>3. \A n \in 1..8 : Before(Tasks[n]) = {Tasks[m] : m \in 1..(n - 1)}
    BY BeforeIs
<1>4. /\ Before(Tasks[5]) = {Tasks[m] : m \in 1..4} /\ Before(Tasks[6]) = {Tasks[m] : m \in 1..5}
      /\ Before(Tasks[7]) = {Tasks[m] : m \in 1..6} /\ Before(Tasks[8]) = {Tasks[m] : m \in 1..7}
    <2>1. Before(Tasks[5]) = {Tasks[m] : m \in 1..(5 - 1)}
        BY <1>3
    <2>2. Before(Tasks[6]) = {Tasks[m] : m \in 1..(6 - 1)}
        BY <1>3
    <2>3. Before(Tasks[7]) = {Tasks[m] : m \in 1..(7 - 1)}
        BY <1>3
    <2>4. Before(Tasks[8]) = {Tasks[m] : m \in 1..(8 - 1)}
        BY <1>3
    <2>5. QED
        BY <1>2, <2>1, <2>2, <2>3, <2>4
<1>5. QED
    BY <1>1, <1>4

\* The forms under each action.
LEMMA ViewsAre ==
    ASSUME NEW t, NEW k, k = newest[t], NEW c, c = nextAction(t)
    PROVE  /\ c \in {"REVIEW_COMPLETED_CASE", "REVIEW_CASE"} => actionView(t) = {}
           /\ c \in {"CAPTURE_INDEX", "VERIFY_INDEX_SOURCE"} => actionView(t) = {<<"capture", t>>}
           /\ c = "OPEN_CASE" => actionView(t) = {<<"open", t>>}
           /\ c \in {"SERVE_NOTICE", "ADD_SERVICE_EVIDENCE"} /\ k # None => actionView(t) = NoticeServiceCard(k)
           /\ k # None =>
                /\ c = "PREPARE_TERMS"  => actionView(t) = {<<"propose", k>>}
                /\ c = "REVIEW_COUNTER" => actionView(t) = {<<"propose", k>>, <<"accept", LatestOffer(k)>>}
                /\ c = "SEND_OFFER"     => actionView(t) = {<<"send", LatestOffer(k)>>}
                /\ c = "AWAIT_TENANT"   => actionView(t) = {}
                /\ c = "COMPLETE_RENEWAL" /\ (\E o \in OffersOf(k) : offer[o].status = "ACCEPTED") =>
                        actionView(t) = {<<"mint", k>>}
<1>1. c \notin TERMS_ACTIONS /\ c # "REVIEW_COMPLETED_CASE" => actionView(t) = ActiveTask(t)
    BY DEF actionView
<1>2. c \in TERMS_ACTIONS => actionView(t) = TermsView(t)
    BY DEF actionView, TERMS_ACTIONS
<1>3. c = "REVIEW_COMPLETED_CASE" => actionView(t) = {}
    BY DEF actionView, TERMS_ACTIONS
<1>4. /\ c \in {"CAPTURE_INDEX", "VERIFY_INDEX_SOURCE"} => ActiveTask(t) = {<<"capture", t>>}
      /\ c = "OPEN_CASE" => ActiveTask(t) = {<<"open", t>>}
      /\ c \in {"SERVE_NOTICE", "ADD_SERVICE_EVIDENCE"} /\ k # None => ActiveTask(t) = NoticeServiceCard(k)
      /\ c = "REVIEW_CASE" => ActiveTask(t) = {}
    BY DEF ActiveTask
<1>5. k # None =>
        /\ c = "PREPARE_TERMS"  => TermsView(t) = {<<"propose", k>>}
        /\ c = "REVIEW_COUNTER" => TermsView(t) = {<<"propose", k>>, <<"accept", LatestOffer(k)>>}
        /\ c = "SEND_OFFER"     => TermsView(t) = {<<"send", LatestOffer(k)>>}
        /\ c = "AWAIT_TENANT"   => TermsView(t) = {}
        /\ c = "COMPLETE_RENEWAL" /\ (\E o \in OffersOf(k) : offer[o].status = "ACCEPTED") =>
                TermsView(t) = {<<"mint", k>>}
    BY DEF TermsView
<1>6. QED
    BY <1>1, <1>2, <1>3, <1>4, <1>5 DEF TERMS_ACTIONS

\* The tasks before the one at hand, by how far the ladder went.
LEMMA TasksDone ==
    ASSUME NEW t, NEW m \in 4..7, "ASSESS_SOURCE" \in Completed(t), "OPEN_CASE" \in Completed(t),
           "SERVE_NOTICE" \in Completed(t), "PROVE_SERVICE" \in Completed(t),
           m > 4 => "PROPOSE_TERMS" \in Completed(t), m > 5 => "SEND_TERMS" \in Completed(t),
           m > 6 => "RECORD_RESPONSE" \in Completed(t)
    PROVE  {Tasks[x] : x \in 1..m} \subseteq Completed(t)
<1>1. SUFFICES ASSUME NEW x \in 1..m PROVE Tasks[x] \in Completed(t)
    OBVIOUS
<1>2. x \in {1, 2, 3, 4, 5, 6, 7} /\ (x = 5 => m > 4) /\ (x = 6 => m > 5) /\ (x = 7 => m > 6)
    OBVIOUS
<1>3. QED
    BY <1>2, TasksAre

LEMMA LeadsOn ==
    ASSUME Well, DecisionStands, Picked, Heads, OnPath, Facts, ~died, \A p \in Requests : pc[p] = "idle",
           NEW t \in Tenancies, t \notin strayed
    PROVE  Leads(t)
<1> DEFINE i == getRenewalRisk(t)
<1>1. PICK n \in 1..13 : First(i, n)
    BY SomeRule
<1>2. nextAction(t) = Rules(i)[n][2]
    BY <1>1, FirstGives DEF nextAction
<1>3. PICK k : k = newest[t]
    OBVIOUS
<1>4. /\ i.case = IF k = None THEN "absent" ELSE case[k].status
      /\ i.notice = IF k = None \/ drawn[k] = None THEN "absent" ELSE notice[drawn[k]]
      /\ k # None /\ OffersOf(k) # {} =>
            /\ i.offer = offer[LatestOffer(k)].status /\ i.party = party[LatestOffer(k)]
            /\ i.sent <=> LatestOffer(k) \in sent
      /\ ~(k # None /\ OffersOf(k) # {}) => i.offer = "absent"
      /\ i.accepted <=> k # None /\ \E o \in OffersOf(k) : offer[o].status = "ACCEPTED"
      /\ i.renewed <=> k # None /\ case[k].minted
      /\ i.gatePassed <=> t \in passed
    BY <1>3 DEF getRenewalRisk, About
<1>5. i.index \in {"none", "provisional", "official"}
    BY DEF getRenewalRisk, About, resolveEffectiveIndex, Facts, Figures
<1> HIDE DEF i
<1>6. k # None => k \in Cases /\ TenancyOf[k] = t /\ ActiveUnique(k)
    BY <1>3, NewestUnique
<1>7. k # None => case[k] \in Case
    BY <1>6, WellIs DEF Tables
<1>8. i.notice \in NoticeStatus
    BY <1>4, <1>6, WellIs DEF Facts, Tables, NoticeStatus
<1>9. k # None /\ OffersOf(k) # {} =>
        /\ LatestOffer(k) \in Offers /\ CaseOf[LatestOffer(k)] = k /\ LatestOffer(k) \in OffersOf(k)
        /\ IsOpen(LatestOffer(k)) \/ ~OneAccepted(k)
        /\ party[LatestOffer(k)] \in {"LANDLORD", "TENANT"}
    BY <1>6, LatestIs DEF OffersOf, Facts
<1>10. k # None => (~OneAccepted(k) <=> \E o \in OffersOf(k) : offer[o].status = "ACCEPTED")
    BY DEF OneAccepted, OffersOf
<1>11. n > 2 /\ n > 7 => i.notice = "SERVED"
    BY <1>1, <1>8, Ladder DEF NoticeStatus
<1>12. n > 5 => i.index = "official"
    BY <1>1, <1>5, Ladder
<1>13. n > 6 => i.case # "absent" /\ k # None
    BY <1>1, <1>4, Ladder
<1> DEFINE c == nextAction(t)
<1>14. /\ n = 1 => c = "REVIEW_COMPLETED_CASE"
       /\ n = 2 => c = "ADD_SERVICE_EVIDENCE"
       /\ n = 3 => c = "REVIEW_CASE"
       /\ n = 4 => c = "CAPTURE_INDEX"
       /\ n = 5 => c = "VERIFY_INDEX_SOURCE"
       /\ n = 6 => c = "OPEN_CASE"
       /\ n = 7 => c = "SERVE_NOTICE"
       /\ n = 8 => c = "COMPLETE_RENEWAL"
       /\ n = 9 => c = "PREPARE_TERMS"
       /\ n = 10 => c = "REVIEW_COUNTER"
       /\ n = 11 => c = "SEND_OFFER"
       /\ n = 12 => c = "AWAIT_TENANT"
       /\ n = 13 => c = "REVIEW_CASE"
    BY <1>2, CodesAre
<1>15. n > 7 /\ OffersOf(k) # {} /\ ~i.accepted => IsOpen(LatestOffer(k)) /\ i.offer = "OPEN" /\ OneAccepted(k)
    BY <1>4, <1>9, <1>10, <1>13 DEF IsOpen
<1>16. n # 13
    <2>1. SUFFICES ASSUME n = 13 PROVE FALSE
        OBVIOUS
    <2>2. ~i.accepted /\ i.offer # "absent" /\ ~(i.party = "TENANT" /\ i.offer = "OPEN")
          /\ ~(i.party = "LANDLORD" /\ i.offer = "OPEN")
        BY <1>1, <2>1, Ladder
    <2>3. OffersOf(k) # {} /\ k # None
        BY <1>4, <2>2
    <2>4. QED
        BY <1>4, <1>9, <1>15, <2>1, <2>2, <2>3
<1>17. /\ n > 5 => "ASSESS_SOURCE" \in Completed(t)
       /\ n > 6 => "OPEN_CASE" \in Completed(t)
       /\ n > 7 => "SERVE_NOTICE" \in Completed(t) /\ "PROVE_SERVICE" \in Completed(t)
    BY <1>11, <1>12, <1>13, CompletedIs DEF i
<1>18. k # None =>
        /\ (\E o \in OffersOf(k) : party[o] = "TENANT" \/ offer[o].status = "ACCEPTED") =>
              "PROPOSE_TERMS" \in Completed(t) /\ "SEND_TERMS" \in Completed(t) /\ "RECORD_RESPONSE" \in Completed(t)
        /\ (\E o \in OffersOf(k) : party[o] = "LANDLORD") => "PROPOSE_TERMS" \in Completed(t)
        /\ (\E o \in OffersOf(k) : o \in sent) => "SEND_TERMS" \in Completed(t)
    BY <1>3, CompletedIs
<1> HIDE DEF c
<1>19. c \notin DOMAIN ACTION_TASK => (nextAction(t) \in DOMAIN ACTION_TASK => Before(ACTION_TASK[nextAction(t)]) \subseteq Completed(t))
    BY DEF c
<1>20. ASSUME NEW form, Works(form), actionView(t) = {form}, c # "REVIEW_CASE", c # "AWAIT_TENANT",
              c \in DOMAIN ACTION_TASK => Before(ACTION_TASK[c]) \subseteq Completed(t)
       PROVE  Leads(t)
    BY <1>20 DEF Leads, c
<1>21. CASE n = 1
    BY <1>3, <1>14, <1>21, ActionTasks, ViewsAre DEF Leads, c
<1>22. CASE n = 2
    <2>1. i.notice = "PENDING_EVIDENCE" /\ c = "ADD_SERVICE_EVIDENCE"
        BY <1>1, <1>14, <1>22, Ladder
    <2>2. k # None /\ drawn[k] # None /\ notice[drawn[k]] = "PENDING_EVIDENCE"
        BY <1>4, <2>1
    <2>3. actionView(t) = {<<"confirm", drawn[k]>>}
        BY <1>3, <2>1, <2>2, ViewsAre DEF NoticeServiceCard, c
    <2>4. CaseOfNotice[drawn[k]] = k
        BY <1>6, <2>2 DEF Facts
    <2>5. Works(<<"confirm", drawn[k]>>)
        BY <1>6, <2>2, <2>4, WorksIs
    <2>6. QED
        BY <1>20, <2>1, <2>3, <2>5, ActionTasks
<1>23. CASE n = 3
    <2>1. t \in passed /\ i.notice # "SERVED" /\ c = "REVIEW_CASE"
        BY <1>1, <1>4, <1>14, <1>23, Ladder
    <2>2. actionView(t) = {}
        BY <1>3, <2>1, ViewsAre DEF c
    <2>3. QED
        BY <2>1, <2>2, ActionTasks DEF Leads, c, i
<1>24. CASE n \in {4, 5}
    <2>1. c \in {"CAPTURE_INDEX", "VERIFY_INDEX_SOURCE"}
        BY <1>14, <1>24
    <2>2. actionView(t) = {<<"capture", t>>}
        BY <1>3, <2>1, ViewsAre DEF c
    <2>3. QED
        BY <1>20, <2>1, <2>2, ActionTasks, WorksIs
<1>25. CASE n = 6
    <2>1. i.case = "absent" /\ c = "OPEN_CASE"
        BY <1>1, <1>14, <1>25, Ladder
    <2>2. k # None => ~Live(k)
        BY <1>4, <2>1 DEF Live
    <2>3. \A j \in Cases : TenancyOf[j] = t => ~Live(j)
        BY <1>3, <2>2, NewestUnique, RenewalAssumption
    <2>4. actionView(t) = {<<"open", t>>}
        BY <1>3, <2>1, ViewsAre DEF c
    <2>5. QED
        BY <1>20, <2>1, <2>3, <2>4, ActionTasks, WorksIs
<1>26. CASE n = 7
    <2>1. i.notice \in {"absent", "GENERATED", "APPROVED"} /\ c = "SERVE_NOTICE" /\ k # None
        BY <1>1, <1>13, <1>14, <1>26, Ladder
    <2>2. drawn[k] # None => notice[drawn[k]] \in {"absent", "GENERATED", "APPROVED"}
        BY <1>4, <2>1
    <2>3. actionView(t) = {<<"serve", k>>}
        BY <1>3, <2>1, <2>2, ViewsAre DEF NoticeServiceCard, c
    <2>4. QED
        BY <1>6, <1>20, <2>1, <2>3, ActionTasks, WorksIs
<1>27. CASE n = 8
    <2>1. (i.accepted \/ i.case = "AGREED") /\ ~(i.renewed \/ i.case = "RENEWED") /\ c = "COMPLETE_RENEWAL" /\ k # None
        BY <1>1, <1>13, <1>14, <1>27, Ladder
    <2>2. k \in Cases /\ TenancyOf[k] = t
        BY <1>6, <2>1
    <2>3. case[k].status # "RENEWED" /\ ~case[k].minted
        BY <1>4, <2>1
    <2>4. case[k].decided # None
        <3>1. CASE i.accepted
            <4>1. PICK o \in Offers : CaseOf[o] = k /\ offer[o].status = "ACCEPTED"
                BY <1>4, <3>1 DEF OffersOf
            <4>2. QED
                BY <2>2, <4>1, RenewalAssumption DEF DecisionStands
        <3>2. CASE i.case = "AGREED"
            BY <1>4, <2>1, <2>2, <3>2 DEF DecisionStands
        <3>3. QED
            BY <2>1, <3>1, <3>2
    <2>5. case[k].status = "AGREED" /\ (successor[t] # None => newest[t] = successor[t])
        BY <2>2, <2>3, <2>4 DEF OnPath
    <2>6. successor[t] = None
        BY <1>3, <2>2, <2>3, <2>5 DEF DecisionStands
    <2>7. Works(<<"mint", k>>)
        BY <2>2, <2>3, <2>5, <2>6, WorksIs DEF StillAgreed
    <2>8. PICK o \in OffersOf(k) : offer[o].status = "ACCEPTED"
        <3>1. case[k].decided \in Offers
            BY <1>7, <2>1, <2>4 DEF Case
        <3>2. CaseOf[case[k].decided] = k /\ offer[case[k].decided].status = "ACCEPTED"
            BY <2>2, <3>1 DEF DecisionStands
        <3>3. QED
            BY <3>1, <3>2 DEF OffersOf
    <2>9. actionView(t) = {<<"mint", k>>}
        BY <1>3, <2>1, <2>8, ViewsAre DEF c
    <2>10. "PROPOSE_TERMS" \in Completed(t) /\ "SEND_TERMS" \in Completed(t) /\ "RECORD_RESPONSE" \in Completed(t)
        BY <1>18, <2>1, <2>8
    <2>11. {Tasks[x] : x \in 1..7} \subseteq Completed(t)
        BY <1>17, <1>27, <2>10, TasksDone
    <2>12. QED
        BY <1>20, <2>1, <2>7, <2>9, <2>11, ActionTasks
<1>28. CASE n = 9
    <2>1. c = "PREPARE_TERMS" /\ k # None
        BY <1>13, <1>14, <1>28
    <2>2. actionView(t) = {<<"propose", k>>}
        BY <1>3, <2>1, ViewsAre DEF c
    <2>3. {Tasks[x] : x \in 1..4} \subseteq Completed(t)
        BY <1>17, <1>28, TasksDone
    <2>4. QED
        BY <1>6, <1>20, <2>1, <2>2, <2>3, ActionTasks, WorksIs
<1>29. ASSUME n > 9 PROVE /\ k # None /\ LatestOffer(k) \in OffersOf(k) /\ Works(<<"accept", LatestOffer(k)>>)
                          /\ i.party = party[LatestOffer(k)] /\ (i.sent <=> LatestOffer(k) \in sent)
    <2>1. ~i.accepted /\ i.offer # "absent" /\ k # None
        BY <1>1, <1>13, <1>29, Ladder
    <2>2. OffersOf(k) # {}
        BY <1>4, <2>1
    <2>3. CanAccept(LatestOffer(k)) /\ ActiveUnique(CaseOf[LatestOffer(k)])
        BY <1>6, <1>9, <1>15, <1>29, <2>1, <2>2 DEF CanAccept
    <2>4. QED
        BY <1>4, <1>9, <2>1, <2>2, <2>3, WorksIs
<1>30. CASE n = 10
    <2>1. c = "REVIEW_COUNTER" /\ i.party = "TENANT"
        BY <1>1, <1>14, <1>30, Ladder
    <2>2. actionView(t) = {<<"propose", k>>, <<"accept", LatestOffer(k)>>}
        BY <1>3, <1>29, <1>30, <2>1, ViewsAre DEF c
    <2>3. "PROPOSE_TERMS" \in Completed(t) /\ "SEND_TERMS" \in Completed(t)
        BY <1>18, <1>29, <1>30, <2>1
    <2>4. {Tasks[x] : x \in 1..6} \subseteq Completed(t)
        BY <1>17, <1>30, <2>3, TasksDone
    <2>5. Works(<<"propose", k>>)
        <3>1. ActiveUnique(k)
            BY <1>6, <1>13, <1>30
        <3>2. QED
            BY <3>1, WorksIs
    <2>6. Works(<<"accept", LatestOffer(k)>>)
        BY <1>29, <1>30
    <2>7. QED
        BY <2>1, <2>2, <2>4, <2>5, <2>6, ActionTasks DEF Leads, c
<1>31. CASE n = 11
    <2>1. c = "SEND_OFFER" /\ i.party = "LANDLORD"
        BY <1>1, <1>14, <1>31, Ladder
    <2>2. actionView(t) = {<<"send", LatestOffer(k)>>}
        BY <1>3, <1>29, <1>31, <2>1, ViewsAre DEF c
    <2>3. "PROPOSE_TERMS" \in Completed(t)
        BY <1>18, <1>29, <1>31, <2>1
    <2>4. {Tasks[x] : x \in 1..5} \subseteq Completed(t)
        BY <1>17, <1>31, <2>3, TasksDone
    <2>5. QED
        BY <1>20, <2>1, <2>2, <2>4, ActionTasks, WorksIs
<1>32. CASE n = 12
    <2>1. c = "AWAIT_TENANT" /\ i.party = "LANDLORD" /\ i.sent
        BY <1>1, <1>14, <1>32, Ladder
    <2>2. actionView(t) = {}
        BY <1>3, <1>29, <1>32, <2>1, ViewsAre DEF c
    <2>3. "PROPOSE_TERMS" \in Completed(t) /\ "SEND_TERMS" \in Completed(t)
        BY <1>18, <1>29, <1>32, <2>1
    <2>4. {Tasks[x] : x \in 1..6} \subseteq Completed(t)
        BY <1>17, <1>32, <2>3, TasksDone
    <2>5. QED
        BY <1>3, <1>29, <1>32, <2>1, <2>2, <2>4, ActionTasks DEF Leads, c
<1>33. QED
    BY <1>16, <1>21, <1>22, <1>23, <1>24, <1>25, <1>26, <1>27, <1>28, <1>30, <1>31, <1>32

\* With nothing under way and nothing dead, the page of a tenancy that came off the
\* path by no stale request leads on: each of its forms is one the service takes,
\* there is a form wherever its current task is not one of waiting or reviewing, and
\* the tasks before that one are done: for any number of tenancies, cases, offers,
\* notices and concurrent requests.
THEOREM PageLeadsOnHolds == GuidedSpec => []PageLeadsOn
<1> DEFINE I == Well /\ DecisionStands /\ Grounded /\ Ready /\ Picked /\ Heads /\ OnPath /\ Facts
<1>1. GuidedInit => I
    <2>1. GuidedInit => Picked /\ OnPath
        BY RenewalAssumption DEF GuidedInit, GuideInit, Init, Picked, Opened, OnPath
    <2>2. GuidedInit => Facts
        BY RenewalAssumption DEF GuidedInit, GuideInit, Facts
    <2>3. Init => DecisionStands /\ Ready
        BY RenewalAssumption DEF Init, DecisionStands, Ready
    <2>4. Init => Heads
        BY DEF Init, Heads, Headed, OneVersion, OffersOf
    <2>5. QED
        BY <2>1, <2>2, <2>3, <2>4, WellInit, LedgerInit DEF GuidedInit
<1>2. I /\ [GuidedNext]_<<vars, guideVars>> => I'
    <2>1. [GuidedNext]_<<vars, guideVars>> => [Next]_vars
        BY GuidedIsNext
    <2>2. QED
        BY <2>1, WellStep, DecisionStep, GroundedStep, ReadyStep, PickedStep, HeadsStep, OnPathStep, FactsStep
<1>3. I => PageLeadsOn
    <2>1. SUFFICES ASSUME I, ~died, \A p \in Requests : pc[p] = "idle", NEW t \in Tenancies \ strayed PROVE Leads(t)
        BY DEF PageLeadsOn, Leads
    <2>2. QED
        BY <2>1, LeadsOn
<1> HIDE DEF I
<1>4. QED
    BY <1>1, <1>2, <1>3, PTL DEF GuidedSpec

=============================================================================
