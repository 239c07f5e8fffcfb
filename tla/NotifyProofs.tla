--------------------------- MODULE NotifyProofs ---------------------------
(***************************************************************************)
(* Proofs about Outbox and about Notify on top of it, for every set of     *)
(* rows, messages, callbacks and workers, every batch size, every number   *)
(* of attempts and of crashes.                                             *)
(***************************************************************************)
EXTENDS Notify, TLAPS

-----------------------------------------------------------------------------
(* Types *)

\* Every step keeps the table, the workers' snapshots and their positions well
\* formed, and a row has a lease exactly while it is processing.
LEMMA TypeStep == TypeOK /\ [Next]_outboxVars => TypeOK'
<1> SUFFICES ASSUME TypeOK, [Next]_outboxVars PROVE TypeOK'
    OBVIOUS
<1> USE DEF TypeOK, Row, Statuses, Busy
<1>1. CASE UNCHANGED outboxVars
    BY <1>1 DEF outboxVars
<1>2. ASSUME NEW r \in Rows, NEW b \in BOOLEAN, Enqueue(r, b) PROVE TypeOK'
    BY <1>2 DEF Enqueue
<1>3. ASSUME NEW r \in Rows, BackoffEnds(r) PROVE TypeOK'
    <2> DEFINE d == [row[r] EXCEPT !.due = TRUE]
    <2>1. d \in Row /\ d.status = row[r].status /\ d.lease = row[r].lease
        OBVIOUS
    <2>2. row' = [row EXCEPT ![r] = d] /\ UNCHANGED <<pc, todo, cur, crashes>>
        BY <1>3 DEF BackoffEnds
    <2> HIDE DEF d
    <2>3. QED
        BY <2>1, <2>2
<1>4. ASSUME NEW r \in Rows, LeaseEnds(r) PROVE TypeOK'
    BY <1>4 DEF LeaseEnds
<1>5. ASSUME NEW w \in Workers, Release(w) PROVE TypeOK'
    BY <1>5 DEF Release, Releasable
<1>6. ASSUME NEW w \in Workers, Claim(w) PROVE TypeOK'
    <2>1. PICK S \in SUBSET {r \in Rows : Claimable(r)} :
            /\ row' = [r \in Rows |-> IF r \in S
                                      THEN [row[r] EXCEPT !.status = "processing", !.lease = "live"]
                                      ELSE row[r]]
            /\ todo' = [todo EXCEPT ![w] = {EntryOf(r) : r \in S}]
        BY <1>6 DEF Claim
    <2>2. {EntryOf(r) : r \in S} \subseteq Entry
        BY DEF EntryOf, Entry
    <2>3. todo' \in [Workers -> SUBSET Entry]
        BY <2>1, <2>2
    <2>4. pc[w] = "claim" /\ pc' = [pc EXCEPT ![w] = "loop"] /\ UNCHANGED <<cur, crashes>>
        BY <1>6 DEF Claim
    <2>5. /\ row' \in [Rows -> Row]
          /\ \A r \in Rows : row'[r].status = "processing" <=> row'[r].lease # "none"
        <3> DEFINE taken(r) == [row[r] EXCEPT !.status = "processing", !.lease = "live"]
        <3>1. \A r \in Rows : /\ taken(r) \in Row
                             /\ taken(r).status = "processing" /\ taken(r).lease = "live"
            OBVIOUS
        <3>2. row' = [r \in Rows |-> IF r \in S THEN taken(r) ELSE row[r]]
            BY <2>1
        <3> HIDE DEF taken
        <3>3. QED
            BY <3>1, <3>2
    <2>6. \A v \in Workers : pc'[v] \in Busy => cur'[v] \in Entry
        BY <2>4
    <2>7. \A v \in Workers : pc'[v] \in {"idle", "claim"} => todo'[v] = {}
        BY <2>1, <2>4
    <2>8. QED
        BY <2>3, <2>4, <2>5, <2>6, <2>7
<1>7. ASSUME NEW w \in Workers, ClaimNothing(w) PROVE TypeOK'
    BY <1>7 DEF ClaimNothing
<1>8. ASSUME NEW w \in Workers, Begin(w) PROVE TypeOK'
    BY <1>8 DEF Begin
<1>9. ASSUME NEW w \in Workers, Finish(w) PROVE TypeOK'
    BY <1>9 DEF Finish
<1>10. ASSUME NEW w \in Workers, HandlerReturns(w) \/ HandlerThrows(w) \/ AckThrows(w)
       PROVE TypeOK'
    BY <1>10 DEF HandlerReturns, HandlerThrows, AckThrows
<1>11. ASSUME NEW w \in Workers, Ack(w) PROVE TypeOK'
    <2> DEFINE e == cur[w]
               d == [row[e.id] EXCEPT !.status = "dispatched",
                                      !.attempts = @ + 1,
                                      !.lease = "none",
                                      !.body = ScrubTerminalPayload(e)]
    <2>1. e \in Entry /\ e.id \in Rows /\ e.attempts \in Nat
        BY <1>11 DEF Ack, Entry
    <2>2. d \in Row /\ d.status # "processing" /\ d.lease = "none"
        <3>1. row[e.id] \in Row /\ row[e.id].attempts + 1 \in Nat /\ ScrubTerminalPayload(e) \in BOOLEAN
            BY <2>1 DEF ScrubTerminalPayload
        <3>2. QED
            BY <3>1
    <2>3. row' = [row EXCEPT ![e.id] = d]
        BY <1>11, <2>1 DEF Ack
    <2>4. pc' = [pc EXCEPT ![w] = "loop"] /\ UNCHANGED <<todo, cur, crashes>>
        BY <1>11 DEF Ack
    <2> HIDE DEF d, e
    <2>5. QED
        BY <2>1, <2>2, <2>3, <2>4
<1>12. ASSUME NEW w \in Workers, Nack(w) PROVE TypeOK'
    <2> DEFINE e == cur[w]
               d == [row[e.id] EXCEPT !.status = IF OutOfAttempts(e) THEN "failed" ELSE "pending",
                                      !.attempts = e.attempts + 1,
                                      !.due = FALSE,
                                      !.lease = LeaseCleared(e),
                                      !.body = IF OutOfAttempts(e) THEN ScrubTerminalPayload(e) ELSE @]
    <2>1. e \in Entry /\ e.id \in Rows /\ e.attempts \in Nat
        BY <1>12 DEF Nack, Entry
    <2>2. d \in Row /\ d.status # "processing" /\ d.lease = "none"
        <3>1. row[e.id] \in Row /\ row[e.id].body \in BOOLEAN /\ ScrubTerminalPayload(e) \in BOOLEAN
            BY <2>1 DEF ScrubTerminalPayload
        <3>2. LeaseCleared(e) = "none" /\ e.attempts + 1 \in Nat
            BY <2>1 DEF LeaseCleared
        <3>3. CASE OutOfAttempts(e)
            BY <3>1, <3>2, <3>3
        <3>4. CASE ~OutOfAttempts(e)
            BY <3>1, <3>2, <3>4
        <3>5. QED
            BY <3>3, <3>4
    <2>3. row' = [row EXCEPT ![e.id] = d]
        BY <1>12, <2>1 DEF Nack
    <2>4. pc' = [pc EXCEPT ![w] = "loop"] /\ UNCHANGED <<todo, cur, crashes>>
        BY <1>12 DEF Nack
    <2> HIDE DEF d, e
    <2>5. QED
        BY <2>1, <2>2, <2>3, <2>4
<1>13. ASSUME NEW w \in Workers, Crash(w) PROVE TypeOK'
    BY <1>13, OutboxAssumption DEF Crash
<1>14. QED
    BY <1>1, <1>2, <1>3, <1>4, <1>5, <1>6, <1>7, <1>8, <1>9, <1>10, <1>11, <1>12, <1>13
       DEF Next, Tick, Dispatch

\* The outbox starts and stays well typed.
THEOREM TypeCorrect == Spec => []TypeOK
<1>1. Init => TypeOK
    BY OutboxAssumption DEF Init, TypeOK, Row, Statuses, Busy
<1>2. QED
    BY <1>1, TypeStep, PTL DEF Spec

-----------------------------------------------------------------------------
(* The budget of attempts *)

\* AttemptBudget alone is not inductive: the entry a worker is processing, which
\* it may write back at any later time, must have attempts left as well.
Budget ==
    /\ AttemptBudget
    /\ \A w \in Workers : pc[w] \in Busy => cur[w].attempts < MaxAttempts

LEMMA BudgetStep == TypeOK /\ Budget /\ [Next]_outboxVars => Budget'
<1> SUFFICES ASSUME TypeOK, Budget, [Next]_outboxVars PROVE Budget'
    OBVIOUS
<1> USE DEF TypeOK, Budget, AttemptBudget, Row, Statuses, Busy
<1>0. MaxAttempts \in Nat \ {0}
    BY OutboxAssumption
<1>1. CASE UNCHANGED outboxVars
    BY <1>1 DEF outboxVars
<1>2. ASSUME NEW r \in Rows, NEW b \in BOOLEAN, Enqueue(r, b) PROVE Budget'
    BY <1>0, <1>2 DEF Enqueue
<1>3. ASSUME NEW r \in Rows, BackoffEnds(r) \/ LeaseEnds(r) PROVE Budget'
    BY <1>3 DEF BackoffEnds, LeaseEnds
<1>5. ASSUME NEW w \in Workers, Release(w) PROVE Budget'
    BY <1>5 DEF Release, Releasable
<1>6. ASSUME NEW w \in Workers, Claim(w) PROVE Budget'
    <2>1. PICK S \in SUBSET {r \in Rows : Claimable(r)} :
            /\ row' = [r \in Rows |-> IF r \in S
                                      THEN [row[r] EXCEPT !.status = "processing", !.lease = "live"]
                                      ELSE row[r]]
            /\ todo' = [todo EXCEPT ![w] = {EntryOf(r) : r \in S}]
        BY <1>6 DEF Claim
    <2>2. pc[w] = "claim" /\ pc' = [pc EXCEPT ![w] = "loop"] /\ UNCHANGED <<cur, crashes>>
        BY <1>6 DEF Claim
    <2>3. \A r \in Rows : row'[r].attempts = row[r].attempts
                          /\ (row'[r].status = row[r].status \/ row[r].status = "pending")
        BY <2>1 DEF Claimable
    <2>4. \A e \in {EntryOf(r) : r \in S} : e.attempts < MaxAttempts
        <3>1. \A r \in S : r \in Rows /\ row[r].status = "pending"
            BY DEF Claimable
        <3>2. \A r \in S : EntryOf(r).attempts < MaxAttempts
            BY <3>1 DEF EntryOf
        <3> HIDE DEF EntryOf
        <3>3. QED
            BY <3>2
    <2>5. \A r \in Rows : row'[r].status \in {"pending", "processing"} => row'[r].attempts < MaxAttempts
        BY <2>3
    <2>6. \A v \in Workers : \A e \in todo'[v] : e.attempts < MaxAttempts
        BY <2>1, <2>4
    <2>7. QED
        BY <2>2, <2>5, <2>6
<1>7. ASSUME NEW w \in Workers, ClaimNothing(w) PROVE Budget'
    BY <1>7 DEF ClaimNothing
<1>8. ASSUME NEW w \in Workers, Begin(w) PROVE Budget'
    BY <1>8 DEF Begin
<1>9. ASSUME NEW w \in Workers, Finish(w) PROVE Budget'
    BY <1>9 DEF Finish
<1>10. ASSUME NEW w \in Workers, HandlerReturns(w) \/ HandlerThrows(w) \/ AckThrows(w)
       PROVE Budget'
    BY <1>10 DEF HandlerReturns, HandlerThrows, AckThrows
<1>11. ASSUME NEW w \in Workers, Ack(w) PROVE Budget'
    BY <1>11 DEF Ack, Entry
<1>12. ASSUME NEW w \in Workers, Nack(w) PROVE Budget'
    <2>1. cur[w] \in Entry /\ cur[w].attempts \in Nat
        BY <1>12 DEF Nack, Entry
    <2>2. QED
        BY <1>0, <1>12, <2>1 DEF Nack, OutOfAttempts, Entry
<1>13. ASSUME NEW w \in Workers, Crash(w) PROVE Budget'
    BY <1>13 DEF Crash
<1>14. QED
    BY <1>1, <1>2, <1>3, <1>5, <1>6, <1>7, <1>8, <1>9, <1>10, <1>11, <1>12, <1>13
       DEF Next, Tick, Dispatch

\* No claim is made past MAX_ATTEMPTS, whatever stale writes do to the count.
THEOREM BudgetHolds == Spec => []AttemptBudget
<1>1. Init => Budget
    BY OutboxAssumption DEF Init, Budget, AttemptBudget, Busy
<1>2. Budget => AttemptBudget
    BY DEF Budget
<1>3. QED
    BY <1>1, <1>2, BudgetStep, TypeCorrect, PTL DEF Spec

-----------------------------------------------------------------------------
(* The secret body *)

\* A dispatched or failed row keeps no secret: both terminal writes scrub, and
\* no other write sets a body again.
THEOREM NoSecretHolds == Spec => []NoSecretAtRest
<1> USE DEF NoSecretAtRest, Terminal
<1>1. Init => NoSecretAtRest
    BY DEF Init
<1>2. TypeOK /\ NoSecretAtRest /\ [Next]_outboxVars => NoSecretAtRest'
    <2> SUFFICES ASSUME TypeOK, NoSecretAtRest, [Next]_outboxVars PROVE NoSecretAtRest'
        OBVIOUS
    <2> USE DEF TypeOK, Row, Statuses, Busy
    <2>1. CASE UNCHANGED row
        BY <2>1
    <2>2. ASSUME NEW r \in Rows, NEW b \in BOOLEAN, Enqueue(r, b) PROVE NoSecretAtRest'
        BY <2>2 DEF Enqueue
    <2>3. ASSUME NEW r \in Rows, Tick(r) PROVE NoSecretAtRest'
        BY <2>3 DEF Tick, BackoffEnds, LeaseEnds
    <2>4. ASSUME NEW w \in Workers, Release(w) PROVE NoSecretAtRest'
        BY <2>4 DEF Release, Releasable
    <2>5. ASSUME NEW w \in Workers, Claim(w) PROVE NoSecretAtRest'
        <3> DEFINE taken(r) == [row[r] EXCEPT !.status = "processing", !.lease = "live"]
        <3>1. \A r \in Rows : taken(r).status = "processing"
            OBVIOUS
        <3> HIDE DEF taken
        <3>2. PICK S \in SUBSET {r \in Rows : Claimable(r)} :
                row' = [r \in Rows |-> IF r \in S THEN taken(r) ELSE row[r]]
            BY <2>5 DEF Claim, taken
        <3>3. QED
            BY <3>1, <3>2
    <2>6. ASSUME NEW w \in Workers, Ack(w) PROVE NoSecretAtRest'
        BY <2>6 DEF Ack, ScrubTerminalPayload, Entry
    <2>7. ASSUME NEW w \in Workers, Nack(w) PROVE NoSecretAtRest'
        BY <2>7 DEF Nack, ScrubTerminalPayload, Entry
    <2>8. QED
        BY <2>1, <2>2, <2>3, <2>4, <2>5, <2>6, <2>7
           DEF Next, Dispatch, ClaimNothing, Begin, Finish, HandlerReturns, HandlerThrows,
               AckThrows, Crash, outboxVars
<1>3. QED
    BY <1>1, <1>2, TypeCorrect, PTL DEF Spec

\* A late write from a stale snapshot neither buys a row a further try nor
\* leaves a secret in a finished row (outbox/index.ts:43-62, 110-148).
THEOREM LateWritesHarmlessHolds == Spec => []LateWritesHarmless
  BY BudgetHolds, NoSecretHolds, PTL DEF LateWritesHarmless

-----------------------------------------------------------------------------
(* Exclusive work, when no batch outlives its lease *)

\* The entries a call has claimed and not finished with.
Claimed(w) == todo[w] \cup (IF pc[w] \in Busy THEN {cur[w]} ELSE {})

\* Exclusive is not inductive: what protects a row is its live lease, and what
\* makes the unguarded completion writes safe is that the snapshot is current.
Owned ==
    /\ \A w \in Workers : \A e \in Claimed(w) :
            row[e.id].lease = "live" /\ row[e.id].attempts = e.attempts
    /\ \A v, w \in Workers : \A e \in Claimed(v), f \in Claimed(w) :
            e.id = f.id => v = w /\ e = f
    /\ \A w \in Workers : pc[w] \in Busy => cur[w] \notin todo[w]
    /\ \A r \in Rows : row[r].status = "absent" => row[r].attempts = 0

LEMMA ClaimedIsEntries == TypeOK => \A w \in Workers : Claimed(w) \subseteq Entry
<1> QED
    BY DEF TypeOK, Claimed

LEMMA HeldIsClaimed ==
    TypeOK => \A w \in Workers : HeldBy(w) = {e.id : e \in Claimed(w)}
<1> QED
    BY DEF TypeOK, HeldBy, Claimed

\* A step that changes no claim, and no lease or count of a claimed row, keeps Owned.
LEMMA SameClaims ==
    ASSUME TypeOK, Owned,
           \A w \in Workers : Claimed(w)' \subseteq Claimed(w),
           \A w \in Workers : \A e \in Claimed(w)' :
                row'[e.id].lease = row[e.id].lease /\ row'[e.id].attempts = row[e.id].attempts,
           \A w \in Workers : pc'[w] \in Busy => cur'[w] \notin todo'[w],
           \A r \in Rows : row'[r].status = "absent" => row'[r].attempts = 0
    PROVE  Owned'
<1>1. \A w \in Workers : \A e \in Claimed(w)' :
            row'[e.id].lease = "live" /\ row'[e.id].attempts = e.attempts
    BY DEF Owned
<1>2. \A v, w \in Workers : \A e \in Claimed(v)', f \in Claimed(w)' :
            e.id = f.id => v = w /\ e = f
    BY DEF Owned
<1>3. QED
    BY <1>1, <1>2 DEF Owned

LEMMA OwnedStep ==
    ASSUME ~Overrun, TypeOK, TypeOK', Owned, [Next]_outboxVars PROVE Owned'
<1> USE DEF TypeOK, Row, Statuses
<1>a. \A w \in Workers : \A e \in Claimed(w) : e \in Entry /\ e.id \in Rows
    BY ClaimedIsEntries DEF Entry
<1>b. \A w \in Workers : \A e \in Claimed(w) : row[e.id].status = "processing"
    BY <1>a DEF Owned
<1>0. \A w \in Workers : pc[w] \in Busy => cur[w] \notin todo[w]
    BY DEF Owned
<1>z. \A r \in Rows : row[r].status = "absent" => row[r].attempts = 0
    BY DEF Owned
<1>1. CASE UNCHANGED outboxVars
    <2>1. \A w \in Workers : Claimed(w)' = Claimed(w)
        BY <1>1 DEF outboxVars, Claimed
    <2>2. QED
        BY <1>0, <1>1, <1>z, <2>1, SameClaims DEF outboxVars
<1>2. ASSUME NEW r \in Rows, NEW b \in BOOLEAN, Enqueue(r, b) PROVE Owned'
    <2>1. \A w \in Workers : Claimed(w)' = Claimed(w)
        BY <1>2 DEF Enqueue, Claimed
    <2>2. \A w \in Workers : \A e \in Claimed(w) : e.id # r
        BY <1>2, <1>b DEF Enqueue
    <2>3. QED
        BY <1>0, <1>2, <1>a, <1>z, <2>1, <2>2, SameClaims DEF Enqueue
<1>3. ASSUME NEW r \in Rows, Tick(r) PROVE Owned'
    <2>1. \A w \in Workers : Claimed(w)' = Claimed(w)
        BY <1>3 DEF Tick, BackoffEnds, LeaseEnds, Claimed
    <2>2. CASE BackoffEnds(r)
        BY <1>0, <1>a, <1>z, <2>1, <2>2, SameClaims DEF BackoffEnds
    <2>3. CASE LeaseEnds(r)
        <3>1. \A w \in Workers : \A e \in Claimed(w) : e.id # r
            BY <2>3, HeldIsClaimed DEF LeaseEnds, Held
        <3>2. QED
            BY <1>0, <1>a, <1>z, <2>1, <2>3, <3>1, SameClaims DEF LeaseEnds
    <2>4. QED
        BY <1>3, <2>2, <2>3 DEF Tick
<1>4. ASSUME NEW w \in Workers, Release(w) PROVE Owned'
    <2>a. UNCHANGED <<todo, cur>>
        BY <1>4 DEF Release
    <2>b. \A v \in Workers : pc'[v] \in Busy <=> pc[v] \in Busy
        <3>1. pc[w] = "idle" /\ pc' = [pc EXCEPT ![w] = "claim"]
            BY <1>4 DEF Release
        <3>2. \A v \in Workers : v # w => pc'[v] = pc[v]
            BY <3>1
        <3>3. pc'[w] = "claim"
            BY <3>1
        <3>4. QED
            BY <3>1, <3>2, <3>3 DEF Busy
    <2>1. \A v \in Workers : Claimed(v)' = Claimed(v)
        BY <2>a, <2>b DEF Claimed
    <2>2. \A r \in Rows : /\ row'[r].attempts = row[r].attempts
                          /\ row'[r].status = "absent" => row[r].status = "absent"
                          /\ row[r].lease = "live" => row'[r].lease = "live"
        <3> DEFINE freed(r) == [row[r] EXCEPT !.status = "pending", !.lease = "none"]
        <3>1. \A r \in Rows : freed(r).attempts = row[r].attempts /\ freed(r).status = "pending"
            OBVIOUS
        <3>2. row' = [r \in Rows |-> IF Releasable(r) THEN freed(r) ELSE row[r]]
            BY <1>4 DEF Release
        <3> HIDE DEF freed
        <3>3. \A r \in Rows : Releasable(r) => row[r].lease = "expired"
            BY DEF Releasable
        <3>4. QED
            BY <3>1, <3>2, <3>3
    <2>3. \A v \in Workers : pc'[v] \in Busy => cur'[v] \notin todo'[v]
        BY <1>0, <2>a, <2>b
    <2>4. \A v \in Workers : \A e \in Claimed(v) : row[e.id].lease = "live"
        BY DEF Owned
    <2>5. QED
        BY <1>a, <1>z, <2>1, <2>2, <2>3, <2>4, SameClaims
<1>5. ASSUME NEW w \in Workers, Claim(w) PROVE Owned'
    <2> DEFINE taken(r) == [row[r] EXCEPT !.status = "processing", !.lease = "live"]
    <2>1. PICK S \in SUBSET {r \in Rows : Claimable(r)} :
            /\ row' = [r \in Rows |-> IF r \in S THEN taken(r) ELSE row[r]]
            /\ todo' = [todo EXCEPT ![w] = {EntryOf(r) : r \in S}]
        BY <1>5 DEF Claim
    <2>0. pc[w] = "claim" /\ pc' = [pc EXCEPT ![w] = "loop"] /\ UNCHANGED cur
        BY <1>5 DEF Claim
    <2>2. \A r \in Rows : taken(r).lease = "live" /\ taken(r).attempts = row[r].attempts
                          /\ taken(r).status = "processing"
        OBVIOUS
    <2>3. \A r \in S : r \in Rows /\ row[r].status = "pending"
        BY DEF Claimable
    <2> HIDE DEF taken
    <2>4. \A r \in Rows : EntryOf(r).id = r /\ EntryOf(r).attempts = row[r].attempts
        BY DEF EntryOf
    <2>5. Claimed(w) = {} /\ Claimed(w)' = {EntryOf(r) : r \in S}
        BY <2>0, <2>1 DEF Claimed, Busy
    <2>6. \A v \in Workers : v # w => Claimed(v)' = Claimed(v)
        BY <2>0, <2>1 DEF Claimed
    <2> HIDE DEF EntryOf
    <2>7. \A v \in Workers : \A e \in Claimed(v) : e.id \notin S
        BY <1>b, <2>3
    <2>8. \A v \in Workers : \A e \in Claimed(v)' :
            row'[e.id].lease = "live" /\ row'[e.id].attempts = e.attempts
        <3>1. \A r \in S : row'[r].lease = "live" /\ row'[r].attempts = row[r].attempts
            BY <2>1, <2>2, <2>3
        <3>2. \A e \in Claimed(w)' : row'[e.id].lease = "live" /\ row'[e.id].attempts = e.attempts
            BY <2>3, <2>4, <2>5, <3>1
        <3>3. \A v \in Workers : \A e \in Claimed(v) : row'[e.id] = row[e.id]
            BY <1>a, <2>1, <2>7
        <3>4. \A v \in Workers : \A e \in Claimed(v) :
                row[e.id].lease = "live" /\ row[e.id].attempts = e.attempts
            BY DEF Owned
        <3>5. QED
            BY <2>6, <3>2, <3>3, <3>4
    <2>9. \A u, v \in Workers : \A e \in Claimed(u)', f \in Claimed(v)' :
            e.id = f.id => u = v /\ e = f
        <3>1. \A e \in Claimed(w)' : e.id \in S /\ e = EntryOf(e.id)
            BY <2>3, <2>4, <2>5
        <3>2. \A u, v \in Workers : \A e \in Claimed(u), f \in Claimed(v) :
                e.id = f.id => u = v /\ e = f
            BY DEF Owned
        <3>3. QED
            BY <2>6, <2>7, <3>1, <3>2
    <2>10. \A v \in Workers : pc'[v] \in Busy => cur'[v] \notin todo'[v]
        BY <1>0, <2>0, <2>1 DEF Busy
    <2>11. \A r \in Rows : row'[r].status = "absent" => row'[r].attempts = 0
        BY <1>z, <2>1, <2>2
    <2>12. QED
        BY <2>8, <2>9, <2>10, <2>11 DEF Owned
<1>6. ASSUME NEW w \in Workers, ClaimNothing(w) \/ Finish(w) \/ Crash(w) PROVE Owned'
    <2>1. \A v \in Workers : Claimed(v)' \subseteq Claimed(v)
        BY <1>6 DEF ClaimNothing, Finish, Crash, Claimed, Busy
    <2>2. \A v \in Workers : pc'[v] \in Busy => cur'[v] \notin todo'[v]
        BY <1>0, <1>6 DEF ClaimNothing, Finish, Crash, Busy
    <2>3. UNCHANGED row
        BY <1>6 DEF ClaimNothing, Finish, Crash
    <2>4. QED
        BY <1>z, <2>1, <2>2, <2>3, SameClaims
<1>7. ASSUME NEW w \in Workers, Begin(w) PROVE Owned'
    <2>1. PICK e \in todo[w] : /\ cur' = [cur EXCEPT ![w] = e]
                               /\ todo' = [todo EXCEPT ![w] = @ \ {e}]
        BY <1>7 DEF Begin
    <2>2. \A v \in Workers : Claimed(v)' \subseteq Claimed(v)
        BY <1>7, <2>1 DEF Begin, Claimed, Busy
    <2>3. \A v \in Workers : pc'[v] \in Busy => cur'[v] \notin todo'[v]
        BY <1>0, <1>7, <2>1 DEF Begin, Busy
    <2>4. QED
        BY <1>7, <1>z, <2>2, <2>3, SameClaims DEF Begin
<1>8. ASSUME NEW w \in Workers, HandlerReturns(w) \/ HandlerThrows(w) \/ AckThrows(w)
      PROVE Owned'
    <2>1. \A v \in Workers : Claimed(v)' = Claimed(v)
        BY <1>8 DEF HandlerReturns, HandlerThrows, AckThrows, Claimed, Busy
    <2>2. \A v \in Workers : pc'[v] \in Busy => cur'[v] \notin todo'[v]
        BY <1>0, <1>8 DEF HandlerReturns, HandlerThrows, AckThrows, Busy
    <2>3. UNCHANGED row
        BY <1>8 DEF HandlerReturns, HandlerThrows, AckThrows
    <2>4. QED
        BY <1>z, <2>1, <2>2, <2>3, SameClaims
<1>9. ASSUME NEW w \in Workers, Ack(w) \/ Nack(w) PROVE Owned'
    <2>1. cur[w] \in Claimed(w)
        BY <1>9 DEF Ack, Nack, Claimed, Busy
    <2>2. \A v \in Workers : Claimed(v)' \subseteq Claimed(v)
        BY <1>9 DEF Ack, Nack, Claimed, Busy
    <2>3. cur[w] \notin Claimed(w)'
        BY <1>0, <1>9 DEF Ack, Nack, Claimed, Busy
    <2>4. \A v \in Workers : \A e \in Claimed(v)' : e.id # cur[w].id
        BY <2>1, <2>2, <2>3 DEF Owned
    <2>5. \A r \in Rows : r # cur[w].id => row'[r] = row[r]
        BY <1>9 DEF Ack, Nack
    <2>6. row'[cur[w].id].status # "absent"
        BY <1>9, <1>a, <2>1 DEF Ack, Nack
    <2>7. \A v \in Workers : pc'[v] \in Busy => cur'[v] \notin todo'[v]
        BY <1>0, <1>9 DEF Ack, Nack, Busy
    <2>8. \A r \in Rows : row'[r].status = "absent" => row'[r].attempts = 0
        BY <1>z, <2>5, <2>6
    <2>9. \A v \in Workers : \A e \in Claimed(v)' : row'[e.id] = row[e.id]
        BY <1>a, <2>2, <2>4, <2>5
    <2>10. QED
        BY <2>2, <2>7, <2>8, <2>9, SameClaims
<1>10. QED
    BY <1>1, <1>2, <1>3, <1>4, <1>5, <1>6, <1>7, <1>8, <1>9 DEF Next, Dispatch

LEMMA OwnedHolds == ASSUME ~Overrun PROVE Spec => []Owned
<1>1. Init => Owned
    BY DEF Init, Owned, Claimed, Busy
<1>2. TypeOK /\ TypeOK' /\ Owned /\ [Next]_outboxVars => Owned'
    BY OwnedStep
<1>3. QED
    BY <1>1, <1>2, TypeCorrect, PTL DEF Spec

\* Two calls never work on the same row, provided no batch outlives its lease:
\* the comment of index.ts with the condition it needs.
THEOREM ExclusiveHolds == ASSUME ~Overrun PROVE Spec => []Exclusive
<1>1. TypeOK /\ Owned => Exclusive
    BY HeldIsClaimed DEF Owned, Exclusive
<1>2. QED
    BY <1>1, OwnedHolds, TypeCorrect, PTL

-----------------------------------------------------------------------------
(* The outbox implements the queue *)

\* A step that changes only row r changes only job r.
LEMMA OneJob ==
    ASSUME row \in [Rows -> Row], row' \in [Rows -> Row], NEW r \in Rows,
           \A q \in Rows : q # r => row'[q] = row[q]
    PROVE  queueJob' = [queueJob EXCEPT ![r] =
                            [state |-> QueueState[row'[r].status], tries |-> row'[r].attempts]]
<1> QED
    BY DEF queueJob

\* A step that moves a set of rows from one status to another, and changes no
\* count, moves the same set of jobs.
LEMMA ManyJobs ==
    ASSUME row \in [Rows -> Row], row' \in [Rows -> Row], NEW S \in SUBSET Rows,
           NEW from \in Statuses, NEW to \in Statuses,
           \A r \in S : row[r].status = from /\ row'[r].status = to,
           \A r \in Rows \ S : row'[r].status = row[r].status,
           \A r \in Rows : row'[r].attempts = row[r].attempts
    PROVE  Queue!MoveAll(S, QueueState[from], QueueState[to])
<1>1. \A r \in S : queueJob[r].state = QueueState[from]
    BY DEF queueJob
<1>2. \A r \in Rows : queueJob'[r] = IF r \in S
                                     THEN [queueJob[r] EXCEPT !.state = QueueState[to]]
                                     ELSE queueJob[r]
    BY DEF queueJob
<1>3. queueJob' = [r \in Rows |-> IF r \in S
                                  THEN [queueJob[r] EXCEPT !.state = QueueState[to]]
                                  ELSE queueJob[r]]
    BY <1>2 DEF queueJob
<1>4. QED
    BY <1>1, <1>3 DEF Queue!MoveAll

\* What the invariants say of the row whose completion is written.
LEMMA Completing ==
    ASSUME TypeOK, Owned, NEW w \in Workers, pc[w] \in Busy
    PROVE  /\ cur[w].id \in Rows /\ cur[w].attempts \in Nat
           /\ row[cur[w].id].status = "processing"
           /\ row[cur[w].id].attempts = cur[w].attempts
<1>1. cur[w] \in Entry /\ cur[w] \in Claimed(w)
    BY DEF TypeOK, Claimed
<1>2. cur[w].id \in Rows /\ cur[w].attempts \in Nat
    BY <1>1 DEF Entry
<1>3. QED
    BY <1>1, <1>2 DEF Owned, TypeOK

LEMMA StepImplements ==
    ASSUME TypeOK, TypeOK', Owned, [Next]_outboxVars
    PROVE  [Queue!Next]_queueJob
<1>a. row \in [Rows -> Row] /\ row' \in [Rows -> Row]
    BY DEF TypeOK
<1>b. Statuses = {"absent", "pending", "processing", "dispatched", "failed"}
    BY DEF Statuses
<1>1. CASE UNCHANGED row
    BY <1>1 DEF queueJob
<1>2. ASSUME NEW r \in Rows, NEW b \in BOOLEAN, Enqueue(r, b) PROVE Queue!Next
    <2>1. /\ row[r].status = "absent" /\ row'[r].status = "pending" /\ row'[r].attempts = 0
          /\ \A q \in Rows : q # r => row'[q] = row[q]
        BY <1>2, <1>a DEF Enqueue
    <2>2. row[r].attempts = 0
        BY <2>1 DEF Owned
    <2>3. Queue!MoveAll({r}, QueueState["absent"], QueueState["pending"])
        BY <1>a, <1>b, <2>1, <2>2, ManyJobs
    <2>4. QED
        BY <2>3 DEF Queue!Next, Queue!Submit, QueueState
<1>3. ASSUME NEW r \in Rows, Tick(r) PROVE UNCHANGED queueJob
    BY <1>3, <1>a DEF Tick, BackoffEnds, LeaseEnds, Row, queueJob
<1>4. ASSUME NEW w \in Workers, Release(w) PROVE Queue!Next
    <2> DEFINE freed(r) == [row[r] EXCEPT !.status = "pending", !.lease = "none"]
               S == {r \in Rows : Releasable(r)}
    <2>1. \A r \in Rows : freed(r).attempts = row[r].attempts /\ freed(r).status = "pending"
        BY <1>a DEF Row
    <2>2. row' = [r \in Rows |-> IF Releasable(r) THEN freed(r) ELSE row[r]]
        BY <1>4 DEF Release
    <2> HIDE DEF freed
    <2>3. /\ \A r \in S : row[r].status = "processing" /\ row'[r].status = "pending"
          /\ \A r \in Rows \ S : row'[r].status = row[r].status
          /\ \A r \in Rows : row'[r].attempts = row[r].attempts
        BY <2>1, <2>2 DEF Releasable
    <2>4. S \in SUBSET Rows
        OBVIOUS
    <2> HIDE DEF S
    <2>5. Queue!MoveAll(S, QueueState["processing"], QueueState["pending"])
        BY <1>a, <1>b, <2>3, <2>4, ManyJobs
    <2>6. QED
        BY <2>4, <2>5 DEF Queue!Next, Queue!Reclaim, QueueState
<1>5. ASSUME NEW w \in Workers, Claim(w) PROVE Queue!Next
    <2> DEFINE taken(r) == [row[r] EXCEPT !.status = "processing", !.lease = "live"]
    <2>1. \A r \in Rows : taken(r).attempts = row[r].attempts /\ taken(r).status = "processing"
        BY <1>a DEF Row
    <2>2. PICK S \in SUBSET {r \in Rows : Claimable(r)} :
                row' = [r \in Rows |-> IF r \in S THEN taken(r) ELSE row[r]]
        BY <1>5 DEF Claim
    <2> HIDE DEF taken
    <2>3. /\ \A r \in S : row[r].status = "pending" /\ row'[r].status = "processing"
          /\ \A r \in Rows \ S : row'[r].status = row[r].status
          /\ \A r \in Rows : row'[r].attempts = row[r].attempts
        BY <2>1, <2>2 DEF Claimable
    <2>4. S \in SUBSET Rows
        BY <2>2
    <2>5. Queue!MoveAll(S, QueueState["pending"], QueueState["processing"])
        BY <1>a, <1>b, <2>3, <2>4, ManyJobs
    <2>6. QED
        BY <2>4, <2>5 DEF Queue!Next, Queue!Take, QueueState
<1>6. ASSUME NEW w \in Workers, Ack(w) PROVE Queue!Next
    <2>1. pc[w] \in Busy
        BY <1>6 DEF Ack, Busy
    <2>2. PICK r \in Rows : r = cur[w].id /\ row[r].status = "processing"
        BY <2>1, Completing
    <2>3. /\ row'[r].status = "dispatched" /\ row'[r].attempts = row[r].attempts + 1
          /\ \A q \in Rows : q # r => row'[q] = row[q]
        BY <1>6, <1>a, <2>2 DEF Ack, Row
    <2>4. queueJob[r].state = "running" /\ queueJob[r].tries = row[r].attempts
        BY <2>2 DEF queueJob, QueueState
    <2>5. queueJob' = [queueJob EXCEPT ![r] = [state |-> "done", tries |-> queueJob[r].tries + 1]]
        BY <1>a, <2>3, <2>4, OneJob DEF QueueState
    <2>6. QED
        BY <2>4, <2>5 DEF Queue!Next, Queue!Complete, Queue!EndRun
<1>7. ASSUME NEW w \in Workers, Nack(w) PROVE Queue!Next
    <2>1. pc[w] \in Busy
        BY <1>7 DEF Nack, Busy
    <2>2. PICK r \in Rows : /\ r = cur[w].id /\ row[r].status = "processing"
                            /\ row[r].attempts = cur[w].attempts /\ row[r].attempts \in Nat
        BY <2>1, Completing
    <2>3. /\ row'[r].status = IF row[r].attempts + 1 >= MaxAttempts THEN "failed" ELSE "pending"
          /\ row'[r].attempts = row[r].attempts + 1
          /\ \A q \in Rows : q # r => row'[q] = row[q]
        BY <1>7, <1>a, <2>2 DEF Nack, OutOfAttempts, Row
    <2>4. queueJob[r].state = "running" /\ queueJob[r].tries = row[r].attempts
        BY <2>2 DEF queueJob, QueueState
    <2>5. queueJob' = [queueJob EXCEPT ![r] = [state |-> QueueState[row'[r].status],
                                               tries |-> queueJob[r].tries + 1]]
        BY <1>a, <2>3, <2>4, OneJob
    <2>6. CASE row[r].attempts + 1 >= MaxAttempts
        <3>1. QueueState[row'[r].status] = "dead"
            BY <2>3, <2>6 DEF QueueState
        <3>2. Queue!EndRun(r, "dead")
            BY <2>4, <2>5, <3>1 DEF Queue!EndRun
        <3>3. QED
            BY <2>4, <2>6, <3>2 DEF Queue!Next, Queue!Bury
    <2>7. CASE ~(row[r].attempts + 1 >= MaxAttempts)
        <3>1. QueueState[row'[r].status] = "waiting"
            BY <2>3, <2>7 DEF QueueState
        <3>2. Queue!EndRun(r, "waiting")
            BY <2>4, <2>5, <3>1 DEF Queue!EndRun
        <3>3. queueJob[r].tries + 1 < MaxAttempts
            BY <2>2, <2>4, <2>7, OutboxAssumption
        <3>4. QED
            BY <3>2, <3>3 DEF Queue!Next, Queue!Retry
    <2>8. QED
        BY <2>6, <2>7
<1>8. QED
    BY <1>1, <1>2, <1>3, <1>4, <1>5, <1>6, <1>7
       DEF Next, Dispatch, ClaimNothing, Begin, Finish, HandlerReturns, HandlerThrows,
           AckThrows, Crash, outboxVars

\* With that condition the rows behave as a queue with a fixed budget of tries
\* that runs every job by one runner at a time and never reopens a finished one.
THEOREM QueueImplemented == ASSUME ~Overrun PROVE Spec => ImplementsQueue
<1>1. Init => Queue!Init
    BY DEF Init, Queue!Init, queueJob, QueueState
<1>2. TypeOK /\ TypeOK' /\ Owned /\ [Next]_outboxVars => [Queue!Next]_queueJob
    BY StepImplements
<1>3. QED
    BY <1>1, <1>2, OwnedHolds, TypeCorrect, PTL DEF Spec, ImplementsQueue, Queue!Spec

-----------------------------------------------------------------------------
(* Notify: where its handlers are *)

Waiting == {"absent", "QUEUED"}
AboutMessage == {"send", "record", "reject", "deadletter"}

\* Where a handler is says what it is working on.
Located ==
    \A w \in Workers :
        /\ phase[w] # "enter" => pc[w] = "handle"
        /\ phase[w] \in AboutMessage => cur[w].id \in Messages
        /\ phase[w] = "apply" => cur[w].id \in DOMAIN Callbacks /\ target[w] \notin Waiting

-----------------------------------------------------------------------------
(* Notify is an outbox *)

\* The steps of the outbox that create no row.
Quiet ==
    \/ \E r \in Rows : Tick(r)
    \/ \E w \in Workers :
        \/ Release(w) \/ Dispatch(w) \/ HandlerReturns(w) \/ HandlerThrows(w) \/ Crash(w)

\* What a step of the messages is to the outbox.
LEMMA StepKinds ==
    [NotifyNext]_vars => \/ UNCHANGED outboxVars
                         \/ Quiet
                         \/ \E m \in Messages : EnqueueSend(m)
                         \/ \E c \in DOMAIN Callbacks : EnqueueCallback(c)
<1> DEFINE Kind == \/ UNCHANGED outboxVars
                   \/ Quiet
                   \/ \E m \in Messages : EnqueueSend(m)
                   \/ \E c \in DOMAIN Callbacks : EnqueueCallback(c)
<1> SUFFICES ASSUME [NotifyNext]_vars PROVE Kind
    OBVIOUS
<1>1. CASE UNCHANGED vars
    BY <1>1 DEF vars
<1>2. ASSUME NEW m \in Messages, CreateMessage(m) \/ EnqueueSend(m) PROVE Kind
    BY <1>2 DEF CreateMessage
<1>3. ASSUME NEW r \in Rows, Time(r) PROVE Kind
    BY <1>3 DEF Time, Quiet
<1>4. ASSUME NEW w \in Workers, Poll(w) \/ Die(w) \/ Dispatch(w) PROVE Kind
    BY <1>4 DEF Poll, Die, Quiet
<1>5. ASSUME NEW w \in Workers, Returns(w) \/ Throws(w) \/ Reject(w) PROVE Kind
    BY <1>5 DEF Returns, Throws, Reject, Quiet
<1>6. ASSUME NEW w \in Workers,
             \/ ReadMessage(w) \/ DeadLetter(w) \/ Send(w) \/ Record(w) \/ RecordThrows(w)
             \/ ReadCallback(w) \/ ApplyCallback(w)
      PROVE UNCHANGED outboxVars
    BY <1>6 DEF ReadMessage, DeadLetter, Send, Record, RecordThrows, ReadCallback,
                ApplyCallback, Step, outboxVars
<1>7. QED
    BY <1>1, <1>2, <1>3, <1>4, <1>5, <1>6 DEF NotifyNext, Proceed, Handle

\* A step of the messages is a step of the outbox or leaves it alone.
LEMMA NotifyStepIsOutboxStep == [NotifyNext]_vars => [Next]_outboxVars
<1> SUFFICES ASSUME [NotifyNext]_vars PROVE [Next]_outboxVars
    OBVIOUS
<1> USE NotifyAssumption
<1>1. ASSUME NEW m \in Messages, EnqueueSend(m) PROVE Next
    <2>1. (m \in Sensitive) \in BOOLEAN
        OBVIOUS
    <2>2. Enqueue(m, m \in Sensitive)
        BY <1>1 DEF EnqueueSend
    <2>3. \E b \in BOOLEAN : Enqueue(m, b)
        BY <2>1, <2>2, Zenon
    <2>4. QED
        BY <2>3 DEF Next
<1>2. ASSUME NEW c \in DOMAIN Callbacks, EnqueueCallback(c) PROVE Next
    BY <1>2 DEF EnqueueCallback, Next
<1>3. Quiet => Next
    BY DEF Quiet, Next
<1>4. QED
    BY <1>1, <1>2, <1>3, StepKinds

\* What is proved of the outbox holds of the messages built on it.
LEMMA NotifyIsOutbox == NotifySpec => Spec
<1>1. NotifyInit => Init
    BY DEF NotifyInit
<1>2. QED
    BY <1>1, NotifyStepIsOutboxStep, PTL DEF NotifySpec, Spec

-----------------------------------------------------------------------------
(* The invariants of the messages *)

\* A row, or a call that works on one, is about a message that was created.
Created ==
    /\ \A m \in Messages : row[m].status # "absent" => message[m] # "absent"
    /\ \A w \in Workers : \A e \in Claimed(w) : e.id \in Messages => message[e.id] # "absent"

\* DispatchedMeansHandled, from the moment the handler has decided to return.
Handled ==
    /\ DispatchedMeansHandled
    /\ \A w \in Workers : (pc[w] = "ack" \/ phase[w] = "leave") /\ cur[w].id \in Messages
                            => message[cur[w].id] \notin Waiting

\* SentMeansAccepted, from the moment the provider has answered.
Honest ==
    /\ SentMeansAccepted
    /\ ref \subseteq accepted
    /\ \A w \in Workers :
        /\ phase[w] = "record" => cur[w].id \in accepted
        /\ phase[w] = "apply" => Callbacks[cur[w].id].msg \in accepted

\* The provider is about to be called only for a message that still waits, and
\* no callback can find a message that waits.
Fresh ==
    /\ \A m \in ref : message[m] \notin Waiting
    /\ \A w \in Workers :
        /\ phase[w] = "send" => message[cur[w].id] = "QUEUED"
        /\ phase[w] = "apply" => Callbacks[cur[w].id].msg \in ref

\* Types and places are kept by every step.
LEMMA PlacesStep ==
    ASSUME NotifyTypeOK, Located, [NotifyNext]_vars PROVE NotifyTypeOK' /\ Located'
<1> USE NotifyAssumption
<1>0. TypeOK'
    BY NotifyStepIsOutboxStep, TypeStep DEF NotifyTypeOK
<1>a. \A e \in Events : StatusOf[e] \in MessageStatus /\ StatusOf[e] \notin Waiting
    BY DEF Events, StatusOf, MessageStatus, Waiting
<1> DEFINE Kept == NotifyTypeOK' /\ Located'
<1> USE DEF NotifyTypeOK, Located, Phases, AboutMessage
<1>1. CASE UNCHANGED vars
    BY <1>0, <1>1 DEF vars, outboxVars, notifyVars
<1>2. ASSUME NEW m \in Messages, CreateMessage(m) PROVE Kept
    BY <1>0, <1>2 DEF CreateMessage, SetMessage, MessageStatus, outboxVars
<1>3. ASSUME UNCHANGED notifyVars, UNCHANGED pc, UNCHANGED cur PROVE Kept
    BY <1>0, <1>3 DEF notifyVars
<1>4. ASSUME NEW w \in Workers, UNCHANGED notifyVars, pc[w] # "handle",
             \A v \in Workers : v # w => pc'[v] = pc[v] /\ cur'[v] = cur[v]
      PROVE  Kept
    BY <1>0, <1>4 DEF notifyVars
<1>5. ASSUME NEW w \in Workers, Dispatch(w) \/ Release(w)
      PROVE  pc[w] # "handle" /\ \A v \in Workers : v # w => pc'[v] = pc[v] /\ cur'[v] = cur[v]
    BY <1>5, <1>0 DEF TypeOK, Dispatch, Release, Claim, ClaimNothing, Begin, Finish, Ack, AckThrows, Nack
<1>6. ASSUME NEW w \in Workers, ReadMessage(w) PROVE Kept
    BY <1>0, <1>6 DEF ReadMessage, Step
<1>7. ASSUME NEW w \in Workers, ReadCallback(w) PROVE Kept
    <2>1. Callbacks[cur[w].id].event \in Events
        BY <1>7 DEF ReadCallback
    <2>2. QED
        BY <1>0, <1>7, <1>a, <2>1 DEF ReadCallback, Step
<1>8. ASSUME NEW w \in Workers, DeadLetter(w) \/ Record(w) PROVE Kept
    BY <1>0, <1>8 DEF DeadLetter, Record, Step, SetMessage, MessageStatus
<1>9. ASSUME NEW w \in Workers, Send(w) \/ RecordThrows(w) PROVE Kept
    BY <1>0, <1>9 DEF Send, RecordThrows, Step
<1>10. ASSUME NEW w \in Workers, ApplyCallback(w) PROVE Kept
    BY <1>0, <1>10 DEF ApplyCallback, Step, SetMessage, MessageStatus
<1>11. ASSUME NEW w \in Workers, Returns(w) \/ Throws(w) \/ Reject(w) PROVE Kept
    BY <1>0, <1>11 DEF Returns, Throws, Reject, HandlerReturns, HandlerThrows, SetMessage,
                       MessageStatus, TypeOK
<1>12. ASSUME NEW w \in Workers, Die(w) PROVE Kept
    BY <1>0, <1>12 DEF Die, Crash, MessageStatus, TypeOK
<1>13. ASSUME NEW m \in Messages, EnqueueSend(m) PROVE Kept
    BY <1>3, <1>13 DEF EnqueueSend, Enqueue
<1>14. ASSUME NEW c \in DOMAIN Callbacks, EnqueueCallback(c) PROVE Kept
    BY <1>3, <1>14 DEF EnqueueCallback, Enqueue
<1>15. ASSUME NEW r \in Rows, Time(r) PROVE Kept
    BY <1>3, <1>15 DEF Time, Tick, BackoffEnds, LeaseEnds
<1>16. ASSUME NEW w \in Workers, Poll(w) \/ (Dispatch(w) /\ UNCHANGED notifyVars) PROVE Kept
    BY <1>4, <1>5, <1>16 DEF Poll
<1>17. QED
    BY <1>1, <1>2, <1>6, <1>7, <1>8, <1>9, <1>10, <1>11, <1>12, <1>13, <1>14, <1>15, <1>16
       DEF NotifyNext, Proceed, Handle

LEMMA PlacesHold == NotifySpec => [](NotifyTypeOK /\ Located)
<1>1. NotifyInit => NotifyTypeOK /\ Located
    <2>1. Init => TypeOK
        BY OutboxAssumption DEF Init, TypeOK, Row, Statuses, Busy
    <2>2. QED
        BY <2>1 DEF NotifyInit, NotifyTypeOK, Located, Phases, MessageStatus, AboutMessage
<1>2. NotifyTypeOK /\ Located /\ [NotifyNext]_vars => (NotifyTypeOK /\ Located)'
    BY PlacesStep
<1>3. QED
    BY <1>1, <1>2, PTL DEF NotifySpec

\* The tables and the workers' places stay well formed.
THEOREM NotifyTypeCorrect == NotifySpec => []NotifyTypeOK
<1> QED
    BY PlacesHold, PTL

\* What a step that creates no row does to the statuses.
LEMMA RowMoves ==
    ASSUME TypeOK, Quiet
    PROVE  \A r \in Rows :
            /\ row'[r].status # "absent" =>
                    row[r].status # "absent" \/ \E w \in Workers : pc[w] \in Busy /\ cur[w].id = r
            /\ row'[r].status = "dispatched" =>
                    row[r].status = "dispatched" \/ \E w \in Workers : pc[w] = "ack" /\ cur[w].id = r
<1> DEFINE Moves(r) ==
            /\ row'[r].status # "absent" =>
                    row[r].status # "absent" \/ \E w \in Workers : pc[w] \in Busy /\ cur[w].id = r
            /\ row'[r].status = "dispatched" =>
                    row[r].status = "dispatched" \/ \E w \in Workers : pc[w] = "ack" /\ cur[w].id = r
<1> SUFFICES ASSUME NEW r \in Rows PROVE Moves(r)
    OBVIOUS
<1> USE DEF TypeOK, Row, Statuses
<1>1. CASE UNCHANGED row
    BY <1>1
<1>2. ASSUME NEW q \in Rows, Tick(q) PROVE Moves(r)
    BY <1>2 DEF Tick, BackoffEnds, LeaseEnds
<1>3. ASSUME NEW w \in Workers, Release(w) PROVE Moves(r)
    BY <1>3 DEF Release, Releasable
<1>4. ASSUME NEW w \in Workers, Claim(w) PROVE Moves(r)
    <2> DEFINE taken(q) == [row[q] EXCEPT !.status = "processing", !.lease = "live"]
    <2>1. taken(r).status = "processing"
        OBVIOUS
    <2> HIDE DEF taken
    <2>2. PICK S \in SUBSET {q \in Rows : Claimable(q)} :
                row' = [q \in Rows |-> IF q \in S THEN taken(q) ELSE row[q]]
        BY <1>4 DEF Claim, taken
    <2>3. r \in S => row[r].status = "pending"
        BY DEF Claimable
    <2>4. QED
        BY <2>1, <2>2, <2>3
<1>5. ASSUME NEW w \in Workers, Ack(w) \/ Nack(w) PROVE Moves(r)
    <2>1. CASE r # cur[w].id
        BY <1>5, <2>1 DEF Ack, Nack
    <2>2. CASE r = cur[w].id /\ Ack(w)
        BY <2>2 DEF Ack, Busy
    <2>3. CASE r = cur[w].id /\ Nack(w)
        BY <2>3 DEF Nack, Busy
    <2>4. QED
        BY <1>5, <2>1, <2>2, <2>3
<1>6. QED
    BY <1>1, <1>2, <1>3, <1>4, <1>5
       DEF Quiet, Dispatch, ClaimNothing, Begin, Finish, HandlerReturns, HandlerThrows,
           AckThrows, Crash

\* A call gets a new claim only on a row that waits to be claimed.
LEMMA ClaimMoves ==
    ASSUME TypeOK, [Next]_outboxVars
    PROVE  \A w \in Workers : \A e \in Claimed(w)' :
                e \in Claimed(w) \/ (e.id \in Rows /\ row[e.id].status = "pending")
<1> DEFINE Moves(w) == \A e \in Claimed(w)' :
                e \in Claimed(w) \/ (e.id \in Rows /\ row[e.id].status = "pending")
<1> SUFFICES ASSUME NEW v \in Workers PROVE Moves(v)
    OBVIOUS
<1> USE DEF TypeOK, Busy, Claimed
<1>1. CASE UNCHANGED <<pc, todo, cur>>
    BY <1>1
<1>2. ASSUME NEW w \in Workers, Release(w) PROVE Moves(v)
    BY <1>2 DEF Release
<1>3. ASSUME NEW w \in Workers, Claim(w) PROVE Moves(v)
    <2>1. PICK S \in SUBSET {r \in Rows : Claimable(r)} :
                todo' = [todo EXCEPT ![w] = {EntryOf(r) : r \in S}]
        BY <1>3 DEF Claim
    <2>2. pc[w] = "claim" /\ pc' = [pc EXCEPT ![w] = "loop"] /\ UNCHANGED cur
        BY <1>3 DEF Claim
    <2>3. \A r \in S : EntryOf(r).id = r /\ r \in Rows /\ row[r].status = "pending"
        BY DEF Claimable, EntryOf
    <2> HIDE DEF EntryOf
    <2>4. \A e \in todo'[v] : e \in todo[v] \/ (e.id \in Rows /\ row[e.id].status = "pending")
        BY <2>1, <2>3
    <2>5. pc'[v] \in Busy => pc[v] \in Busy /\ cur'[v] = cur[v]
        BY <2>2
    <2>6. QED
        BY <2>4, <2>5
<1>4. ASSUME NEW w \in Workers, Begin(w) PROVE Moves(v)
    <2>1. PICK e \in todo[w] : /\ cur' = [cur EXCEPT ![w] = e]
                               /\ todo' = [todo EXCEPT ![w] = @ \ {e}]
        BY <1>4 DEF Begin
    <2>2. pc[w] = "loop" /\ pc' = [pc EXCEPT ![w] = "handle"]
        BY <1>4 DEF Begin
    <2>3. QED
        BY <2>1, <2>2
<1>5. ASSUME NEW w \in Workers, ClaimNothing(w) \/ Finish(w) \/ Crash(w) PROVE Moves(v)
    BY <1>5 DEF ClaimNothing, Finish, Crash
<1>6. ASSUME NEW w \in Workers,
             HandlerReturns(w) \/ HandlerThrows(w) \/ AckThrows(w) \/ Ack(w) \/ Nack(w)
      PROVE Moves(v)
    BY <1>6 DEF HandlerReturns, HandlerThrows, AckThrows, Ack, Nack
<1>7. QED
    BY <1>1, <1>2, <1>3, <1>4, <1>5, <1>6
       DEF Next, Dispatch, Tick, BackoffEnds, LeaseEnds, Enqueue, outboxVars

\* A message never goes back to waiting.
LEMMA MessageMoves ==
    ASSUME NotifyTypeOK, Located, [NotifyNext]_vars
    PROVE  \A m \in Messages :
            /\ message[m] # "absent" => message'[m] # "absent"
            /\ message[m] \notin Waiting => message'[m] \notin Waiting
<1> USE DEF Waiting, SetMessage
<1>1. CASE UNCHANGED message
    BY <1>1
<1>2. ASSUME NEW m \in Messages, CreateMessage(m) PROVE \A n \in Messages :
            /\ message[n] # "absent" => message'[n] # "absent"
            /\ message[n] \notin Waiting => message'[n] \notin Waiting
    BY <1>2 DEF CreateMessage, NotifyTypeOK
<1>3. ASSUME NEW w \in Workers, DeadLetter(w) \/ Record(w) \/ Reject(w) \/ ApplyCallback(w)
      PROVE \A n \in Messages : message'[n] = message[n] \/ message'[n] \notin Waiting
    BY <1>3 DEF DeadLetter, Record, Reject, ApplyCallback, Step, NotifyTypeOK, Located
<1>4. QED
    BY <1>1, <1>2, <1>3
       DEF NotifyNext, Proceed, Handle, EnqueueSend, EnqueueCallback, Time, Poll, Die, ReadMessage,
           Send, RecordThrows, ReadCallback, Returns, Throws, vars, notifyVars

LEMMA CreatedStep ==
    ASSUME NotifyTypeOK, Located, Created, [NotifyNext]_vars PROVE Created'
<1> USE NotifyAssumption
<1>1. \A m \in Messages : message[m] # "absent" => message'[m] # "absent"
    BY MessageMoves
<1>2. TypeOK
    BY DEF NotifyTypeOK
<1>3. ASSUME NEW m \in Messages, row'[m].status # "absent" PROVE message'[m] # "absent"
    <2>1. CASE UNCHANGED outboxVars
        BY <1>1, <1>3, <2>1 DEF outboxVars, Created
    <2>2. CASE Quiet
        <3>1. \/ row[m].status # "absent"
              \/ \E w \in Workers : pc[w] \in Busy /\ cur[w].id = m
            BY <1>2, <1>3, <2>2, RowMoves
        <3>2. \A w \in Workers : pc[w] \in Busy => cur[w] \in Claimed(w)
            BY DEF Claimed
        <3>3. QED
            BY <1>1, <3>1, <3>2 DEF Created
    <2>3. ASSUME NEW k \in Messages, EnqueueSend(k) PROVE message'[m] # "absent"
        BY <1>1, <1>2, <1>3, <2>3 DEF EnqueueSend, Enqueue, Created, TypeOK, notifyVars
    <2>4. ASSUME NEW c \in DOMAIN Callbacks, EnqueueCallback(c) PROVE message'[m] # "absent"
        BY <1>1, <1>2, <1>3, <2>4 DEF EnqueueCallback, Enqueue, Created, TypeOK
    <2>5. QED
        BY <2>1, <2>2, <2>3, <2>4, StepKinds
<1>4. \A w \in Workers : \A e \in Claimed(w)' : e.id \in Messages => message'[e.id] # "absent"
    <2>1. \A w \in Workers : \A e \in Claimed(w)' :
            e \in Claimed(w) \/ (e.id \in Rows /\ row[e.id].status = "pending")
        BY <1>2, ClaimMoves, NotifyStepIsOutboxStep
    <2>2. QED
        BY <1>1, <2>1 DEF Created
<1>5. QED
    BY <1>3, <1>4 DEF Created

\* A handler is about to return because it was, or because it has just seen to that.
LEMMA LeaveMoves ==
    ASSUME NotifyTypeOK, Located, [NotifyNext]_vars, NEW w \in Workers,
           pc'[w] = "ack" \/ phase'[w] = "leave"
    PROVE  \/ (pc[w] = "ack" \/ phase[w] = "leave") /\ cur'[w] = cur[w]
           \/ /\ cur'[w] = cur[w]
              /\ ReadMessage(w) \/ DeadLetter(w) \/ Record(w) \/ ReadCallback(w) \/ ApplyCallback(w)
<1> DEFINE Was == (pc[w] = "ack" \/ phase[w] = "leave") /\ cur'[w] = cur[w]
           Goal == \/ Was
                   \/ /\ cur'[w] = cur[w]
                      /\ \/ ReadMessage(w) \/ DeadLetter(w) \/ Record(w)
                         \/ ReadCallback(w) \/ ApplyCallback(w)
<1> SUFFICES Goal
    OBVIOUS
<1> USE DEF NotifyTypeOK, TypeOK, Phases
<1>1. CASE UNCHANGED <<pc, cur, phase>>
    BY <1>1
<1>2. ASSUME NEW v \in Workers, Poll(v) \/ (Dispatch(v) /\ UNCHANGED notifyVars) PROVE Goal
    <2>1. phase'[w] = phase[w]
        BY <1>2 DEF Poll, notifyVars
    <2>2. CASE v = w
        <3>1. pc'[w] # "ack" /\ phase[w] # "leave"
            BY <1>2, <2>2 DEF Poll, Release, Dispatch, Claim, ClaimNothing, Begin, Finish, Ack,
                              AckThrows, Nack, Located
        <3>2. QED
            BY <2>1, <3>1
    <2>3. CASE v # w
        <3>1. pc'[w] = pc[w] /\ cur'[w] = cur[w]
            BY <1>2, <2>3 DEF Poll, Release, Dispatch, Claim, ClaimNothing, Begin, Finish, Ack,
                              AckThrows, Nack
        <3>2. QED
            BY <2>1, <3>1
    <2>4. QED
        BY <2>2, <2>3
<1>3. ASSUME NEW v \in Workers,
             ReadMessage(v) \/ DeadLetter(v) \/ Record(v) \/ ReadCallback(v) \/ ApplyCallback(v)
      PROVE Goal
    BY <1>3 DEF ReadMessage, DeadLetter, Record, ReadCallback, ApplyCallback, Step
<1>4. ASSUME NEW v \in Workers, Send(v) \/ RecordThrows(v) PROVE Goal
    BY <1>4 DEF Send, RecordThrows, Step
<1>5. ASSUME NEW v \in Workers, Returns(v) \/ Throws(v) \/ Reject(v) \/ Die(v) PROVE Goal
    BY <1>5 DEF Returns, Throws, Reject, Die, HandlerReturns, HandlerThrows, Crash
<1>6. QED
    BY <1>1, <1>2, <1>3, <1>4, <1>5
       DEF NotifyNext, Proceed, Handle, CreateMessage, EnqueueSend, EnqueueCallback, Enqueue,
           Time, Tick, BackoffEnds, LeaseEnds, vars, outboxVars, notifyVars

LEMMA HandledStep ==
    ASSUME NotifyTypeOK, Located, Created, Handled, [NotifyNext]_vars PROVE Handled'
<1> USE NotifyAssumption
<1>1. \A m \in Messages : message[m] \notin Waiting => message'[m] \notin Waiting
    BY MessageMoves
<1>2. TypeOK
    BY DEF NotifyTypeOK
<1>3. ASSUME NEW m \in Messages, row'[m].status = "dispatched" PROVE message'[m] \notin Waiting
    <2>1. CASE UNCHANGED outboxVars
        BY <1>1, <1>3, <2>1 DEF outboxVars, Handled, DispatchedMeansHandled, Waiting
    <2>2. CASE Quiet
        <3>1. row[m].status = "dispatched" \/ \E w \in Workers : pc[w] = "ack" /\ cur[w].id = m
            BY <1>2, <1>3, <2>2, RowMoves
        <3>2. QED
            BY <1>1, <3>1 DEF Handled, DispatchedMeansHandled, Waiting
    <2>3. ASSUME NEW k \in Messages, EnqueueSend(k) PROVE message'[m] \notin Waiting
        BY <1>1, <1>2, <1>3, <2>3
           DEF EnqueueSend, Enqueue, TypeOK, Handled, DispatchedMeansHandled, Waiting
    <2>4. ASSUME NEW c \in DOMAIN Callbacks, EnqueueCallback(c) PROVE message'[m] \notin Waiting
        BY <1>1, <1>2, <1>3, <2>4
           DEF EnqueueCallback, Enqueue, TypeOK, Handled, DispatchedMeansHandled, Waiting
    <2>5. QED
        BY <2>1, <2>2, <2>3, <2>4, StepKinds
<1>4. ASSUME NEW w \in Workers, pc'[w] = "ack" \/ phase'[w] = "leave", cur'[w].id \in Messages
      PROVE  message'[cur'[w].id] \notin Waiting
    <2>1. CASE (pc[w] = "ack" \/ phase[w] = "leave") /\ cur'[w] = cur[w]
        BY <1>1, <1>4, <2>1 DEF Handled
    <2>2. CASE ReadMessage(w) /\ cur'[w] = cur[w]
        <3>1. cur[w] \in Claimed(w)
            BY <2>2 DEF ReadMessage, Claimed, Busy
        <3>2. message[cur[w].id] # "absent"
            BY <1>4, <2>2, <3>1 DEF Created
        <3>3. phase'[w] = "leave" => message[cur[w].id] # "QUEUED"
            BY <2>2 DEF ReadMessage, Step, IsQueued, NotifyTypeOK
        <3>4. phase'[w] = "leave"
            BY <1>4, <2>2 DEF ReadMessage, Step
        <3>5. QED
            BY <1>1, <1>4, <2>2, <3>2, <3>3, <3>4 DEF Waiting
    <2>3. CASE (DeadLetter(w) \/ Record(w)) /\ cur'[w] = cur[w]
        BY <1>4, <2>3 DEF DeadLetter, Record, SetMessage, NotifyTypeOK, Waiting
    <2>4. CASE (ReadCallback(w) \/ ApplyCallback(w)) /\ cur'[w] = cur[w]
        BY <1>4, <2>4 DEF ReadCallback, ApplyCallback, Step, Located
    <2>5. QED
        BY <1>4, <2>1, <2>2, <2>3, <2>4, LeaveMoves
<1>5. QED
    BY <1>3, <1>4 DEF Handled, DispatchedMeansHandled, Waiting

\* However handlers, crashes and late writes interleave, and however long a batch
\* takes, no send is written off as dispatched while its message still waits.
THEOREM DispatchedMeansHandledHolds == NotifySpec => []DispatchedMeansHandled
<1>1. NotifyInit => Created /\ Handled
    <2> SUFFICES ASSUME NotifyInit PROVE Created /\ Handled
        OBVIOUS
    <2>1. /\ \A m \in Messages : row[m].status = "absent"
          /\ \A w \in Workers : pc[w] = "idle" /\ phase[w] = "enter" /\ Claimed(w) = {}
        BY NotifyAssumption DEF NotifyInit, Init, Claimed, Busy
    <2>2. QED
        BY <2>1 DEF Created, Handled, DispatchedMeansHandled
<1>2. NotifyTypeOK /\ Located /\ Created /\ Handled /\ [NotifyNext]_vars => Created' /\ Handled'
    BY CreatedStep, HandledStep
<1>3. Handled => DispatchedMeansHandled
    BY DEF Handled
<1>4. QED
    BY <1>1, <1>2, <1>3, PlacesHold, PTL DEF NotifySpec

-----------------------------------------------------------------------------
(* What the log claims *)

LEMMA HonestStep ==
    ASSUME NotifyTypeOK, Located, Honest, [NotifyNext]_vars PROVE Honest'
<1> USE NotifyAssumption DEF NotifyTypeOK, Located, Honest, SentMeansAccepted
<1>1. CASE UNCHANGED <<notifyVars, cur>>
    BY <1>1 DEF notifyVars
<1>2. ASSUME NEW m \in Messages, CreateMessage(m) PROVE Honest'
    BY <1>2 DEF CreateMessage, SetMessage, outboxVars
<1>3. ASSUME NEW w \in Workers, UNCHANGED notifyVars, Dispatch(w) \/ Release(w) PROVE Honest'
    <2>1. phase[w] = "enter" /\ \A v \in Workers : v # w => cur'[v] = cur[v]
        BY <1>3 DEF Dispatch, Release, Claim, ClaimNothing, Begin, Finish, Ack, AckThrows, Nack, TypeOK
    <2>2. UNCHANGED <<message, ref, accepted, phase, target>>
        BY <1>3 DEF notifyVars
    <2>3. QED
        BY <2>1, <2>2
<1>4. ASSUME NEW w \in Workers, ReadMessage(w) \/ RecordThrows(w) PROVE Honest'
    BY <1>4 DEF ReadMessage, RecordThrows, Step
<1>5. ASSUME NEW w \in Workers, DeadLetter(w) PROVE Honest'
    BY <1>5 DEF DeadLetter, Step, SetMessage
<1>6. ASSUME NEW w \in Workers, Send(w) PROVE Honest'
    BY <1>6 DEF Send, Step
<1>7. ASSUME NEW w \in Workers, Record(w) PROVE Honest'
    BY <1>7 DEF Record, Step, SetMessage
<1>8. ASSUME NEW w \in Workers, ReadCallback(w) PROVE Honest'
    <2>1. \A v \in Workers : v # w => phase'[v] = phase[v]
        BY <1>8 DEF ReadCallback, Step
    <2>2. phase'[w] = "apply" => Callbacks[cur[w].id].msg \in accepted
        BY <1>8 DEF ReadCallback, Step
    <2>3. phase'[w] # "record"
        BY <1>8 DEF ReadCallback, Step
    <2>4. UNCHANGED <<message, ref, accepted, cur>>
        BY <1>8 DEF ReadCallback, Step
    <2>5. QED
        BY <2>1, <2>2, <2>3, <2>4
<1>9. ASSUME NEW w \in Workers, ApplyCallback(w) PROVE Honest'
    BY <1>9 DEF ApplyCallback, Step, SetMessage
<1>10. ASSUME NEW w \in Workers, Returns(w) \/ Throws(w) PROVE Honest'
    BY <1>10 DEF Returns, Throws, HandlerReturns, HandlerThrows
<1>11. ASSUME NEW w \in Workers, Reject(w) PROVE Honest'
    BY <1>11 DEF Reject, HandlerThrows, SetMessage
<1>12. ASSUME NEW w \in Workers, Die(w) PROVE Honest'
    BY <1>12 DEF Die, Crash, TypeOK
<1>13. QED
    BY <1>1, <1>2, <1>3, <1>4, <1>5, <1>6, <1>7, <1>8, <1>9, <1>10, <1>11, <1>12
       DEF NotifyNext, Proceed, Handle, EnqueueSend, EnqueueCallback, Enqueue, Poll,
           Time, Tick, BackoffEnds, LeaseEnds, vars, outboxVars

\* The delivery log never claims a message left that no provider accepted.
THEOREM SentMeansAcceptedHolds == NotifySpec => []SentMeansAccepted
<1>1. NotifyInit => Honest
    BY DEF NotifyInit, Honest, SentMeansAccepted
<1>2. NotifyTypeOK /\ Located /\ Honest /\ [NotifyNext]_vars => Honest'
    BY HonestStep
<1>3. Honest => SentMeansAccepted
    BY DEF Honest
<1>4. QED
    BY <1>1, <1>2, <1>3, PlacesHold, PTL DEF NotifySpec

-----------------------------------------------------------------------------
(* No second send *)

\* Only the call that works on a message changes it while it waits: nobody else
\* holds it, and a callback finds only what was recorded.
LEMMA FreshStep ==
    ASSUME NotifyTypeOK, Located, Owned, Fresh, [NotifyNext]_vars PROVE Fresh'
<1> USE NotifyAssumption DEF NotifyTypeOK, Located, Fresh
<1>a. \A m \in ref : m \in Messages /\ message'[m] \notin Waiting
    BY MessageMoves
<1>b. \A v, w \in Workers : pc[v] = "handle" /\ pc[w] = "handle" /\ v # w => cur[v].id # cur[w].id
    <2>1. \A w \in Workers : pc[w] = "handle" => cur[w] \in Claimed(w)
        BY DEF Claimed, Busy
    <2>2. QED
        BY <2>1 DEF Owned
<1>1. CASE UNCHANGED <<notifyVars, cur>>
    BY <1>1 DEF notifyVars
<1>2. ASSUME NEW m \in Messages, CreateMessage(m) PROVE Fresh'
    BY <1>2, <1>a DEF CreateMessage, SetMessage, outboxVars, AboutMessage
<1>3. ASSUME NEW w \in Workers, UNCHANGED notifyVars, Dispatch(w) \/ Release(w) PROVE Fresh'
    <2>1. phase[w] = "enter" /\ \A v \in Workers : v # w => cur'[v] = cur[v]
        BY <1>3 DEF Dispatch, Release, Claim, ClaimNothing, Begin, Finish, Ack, AckThrows, Nack, TypeOK
    <2>2. UNCHANGED <<message, ref, accepted, phase, target>>
        BY <1>3 DEF notifyVars
    <2>3. QED
        BY <2>1, <2>2
<1>4. ASSUME NEW w \in Workers, ReadMessage(w) PROVE Fresh'
    <2>1. \A v \in Workers : v # w => phase'[v] = phase[v]
        BY <1>4 DEF ReadMessage, Step
    <2>2. phase'[w] = "send" => message[cur[w].id] = "QUEUED"
        BY <1>4 DEF ReadMessage, Step, IsQueued
    <2>3. phase'[w] # "apply" /\ UNCHANGED <<message, ref, cur>>
        BY <1>4 DEF ReadMessage, Step
    <2>4. QED
        BY <2>1, <2>2, <2>3
<1>5. ASSUME NEW w \in Workers, RecordThrows(w) \/ Send(w) PROVE Fresh'
    BY <1>5 DEF RecordThrows, Send, Step
<1>6. ASSUME NEW w \in Workers, DeadLetter(w) \/ Record(w) PROVE Fresh'
    <2>1. pc[w] = "handle" /\ UNCHANGED cur /\ phase'[w] = "leave"
          /\ \A v \in Workers : v # w => phase'[v] = phase[v]
        BY <1>6 DEF DeadLetter, Record, Step
    <2>2. \A m \in Messages : m # cur[w].id => message'[m] = message[m]
        BY <1>6 DEF DeadLetter, Record, SetMessage
    <2>3. \A v \in Workers : phase'[v] = "send" => message'[cur'[v].id] = "QUEUED"
        BY <1>b, <2>1, <2>2 DEF AboutMessage
    <2>4. ref \subseteq ref' /\ \A m \in ref' : message'[m] \notin Waiting
        BY <1>6, <1>a DEF DeadLetter, Record, Step, SetMessage, Waiting, AboutMessage
    <2>5. QED
        BY <2>1, <2>3, <2>4
<1>7. ASSUME NEW w \in Workers, ReadCallback(w) PROVE Fresh'
    <2>1. \A v \in Workers : v # w => phase'[v] = phase[v]
        BY <1>7 DEF ReadCallback, Step
    <2>2. phase'[w] = "apply" => Callbacks[cur[w].id].msg \in ref
        BY <1>7 DEF ReadCallback, Step
    <2>3. phase'[w] # "send" /\ UNCHANGED <<message, ref, cur>>
        BY <1>7 DEF ReadCallback, Step
    <2>4. QED
        BY <2>1, <2>2, <2>3
<1>8. ASSUME NEW w \in Workers, ApplyCallback(w) PROVE Fresh'
    <2>1. Callbacks[cur[w].id].msg \in ref
        BY <1>8 DEF ApplyCallback, Step
    <2>2. \A m \in Messages : message[m] = "QUEUED" => message'[m] = "QUEUED"
        BY <1>8, <2>1 DEF ApplyCallback, SetMessage, Waiting
    <2>3. /\ UNCHANGED <<ref, cur>> /\ phase'[w] = "leave"
          /\ \A v \in Workers : v # w => phase'[v] = phase[v]
        BY <1>8 DEF ApplyCallback, Step
    <2>4. QED
        BY <1>a, <2>2, <2>3 DEF AboutMessage
<1>9. ASSUME NEW w \in Workers, Returns(w) \/ Throws(w) PROVE Fresh'
    BY <1>9 DEF Returns, Throws, HandlerReturns, HandlerThrows
<1>10. ASSUME NEW w \in Workers, Reject(w) PROVE Fresh'
    <2>1. pc[w] = "handle" /\ UNCHANGED <<cur, ref>> /\ phase'[w] = "enter"
          /\ \A v \in Workers : v # w => phase'[v] = phase[v]
        BY <1>10 DEF Reject, HandlerThrows
    <2>2. \A m \in Messages : m # cur[w].id => message'[m] = message[m]
        BY <1>10 DEF Reject, SetMessage
    <2>3. \A v \in Workers : phase'[v] = "send" => message'[cur'[v].id] = "QUEUED"
        BY <1>b, <2>1, <2>2 DEF AboutMessage
    <2>4. QED
        BY <1>a, <2>1, <2>3
<1>11. ASSUME NEW w \in Workers, Die(w) PROVE Fresh'
    BY <1>11 DEF Die, Crash, TypeOK
<1>12. QED
    BY <1>1, <1>2, <1>3, <1>4, <1>5, <1>6, <1>7, <1>8, <1>9, <1>10, <1>11
       DEF NotifyNext, Proceed, Handle, EnqueueSend, EnqueueCallback, Enqueue, Poll,
           Time, Tick, BackoffEnds, LeaseEnds, vars, outboxVars

\* When no batch outlives its lease, the provider is called for a message only
\* while it is QUEUED: a retry never repeats a send that was recorded.
THEOREM SendOnlyQueuedHolds == ASSUME ~Overrun PROVE NotifySpec => SendOnlyQueued
<1>1. NotifyInit => Fresh
    BY DEF NotifyInit, Fresh
<1>2. NotifyTypeOK /\ Located /\ Owned /\ Fresh /\ [NotifyNext]_vars => Fresh'
    BY FreshStep
<1>3. Fresh /\ [NotifyNext]_vars =>
        [\A w \in Workers : Send(w) => message[cur[w].id] = "QUEUED"]_vars
    BY DEF Fresh, Send, Step
<1>4. QED
    BY <1>1, <1>2, <1>3, PlacesHold, OwnedHolds, NotifyIsOutbox, PTL DEF NotifySpec, SendOnlyQueued

=============================================================================
