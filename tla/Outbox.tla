------------------------------ MODULE Outbox ------------------------------
(***************************************************************************)
(* The transactional outbox of src/server/outbox/index.ts: rows of the     *)
(* Outbox table, and any number of concurrent dispatchPending calls (the   *)
(* resident worker, the cron route, the inline flush of a request) that    *)
(* claim and process them.                                                 *)
(*                                                                         *)
(* Each SQL statement or transaction is one step.  A worker keeps the      *)
(* snapshot of the row it read when it claimed it, and every later write   *)
(* uses that snapshot and is guarded by the row id alone, as in the code.  *)
(* Time is two facts per row: whether availableAt has come (due) and       *)
(* whether lockedUntil has passed (lease).  What a handler does is left    *)
(* open here: it returns or throws.  Notify refines it.                    *)
(***************************************************************************)
EXTENDS Naturals, FiniteSets

CONSTANTS
    Rows,         \* ids an Outbox row may get
    Workers,      \* dispatchPending calls that may run at the same time
    Runner,       \* the worker that polls for ever (runner.ts main, or the cron)
    None,         \* no entry
    MaxAttempts,  \* MAX_ATTEMPTS
    BatchSize,    \* the batchSize argument
    MaxCrashes,   \* bound: how many dispatchPending calls die midway
    Overrun       \* whether a batch may still be in progress when its lease ends

ASSUME OutboxAssumption ==
    /\ MaxAttempts \in Nat \ {0}
    /\ BatchSize \in Nat \ {0}
    /\ MaxCrashes \in Nat
    /\ Overrun \in BOOLEAN
    /\ Runner \in Workers
    /\ None \notin [id : Rows, attempts : Nat, body : BOOLEAN]

VARIABLES
    row,      \* the Outbox table: status, attempts, due, lease, body
    pc,       \* where each dispatchPending call is
    todo,     \* entries a call has claimed and not begun
    cur,      \* the entry a call is processing
    crashes   \* calls that died midway so far

outboxVars == <<row, pc, todo, cur, crashes>>

Statuses == {"absent", "pending", "processing", "dispatched", "failed"}
Terminal == {"dispatched", "failed"}
Row == [status : Statuses, attempts : Nat, due : BOOLEAN,
        lease : {"none", "live", "expired"}, body : BOOLEAN]

\* OutboxEntry: what the claim transaction returns of a row.
Entry == [id : Rows, attempts : Nat, body : BOOLEAN]
EntryOf(r) == [id |-> r, attempts |-> row[r].attempts, body |-> row[r].body]

Busy == {"handle", "ack", "nack"}

\* The rows a call has claimed and not finished with.
HeldBy(w) == {e.id : e \in todo[w]} \cup (IF pc[w] \in Busy THEN {cur[w].id} ELSE {})
Held(r) == \E w \in Workers : r \in HeldBy(w)

TypeOK ==
    /\ row \in [Rows -> Row]
    /\ \A r \in Rows : row[r].status = "processing" <=> row[r].lease # "none"
    /\ pc \in [Workers -> {"idle", "claim", "loop"} \cup Busy]
    /\ todo \in [Workers -> SUBSET Entry]
    /\ cur \in [Workers -> Entry \cup {None}]
    /\ \A w \in Workers : pc[w] \in Busy => cur[w] \in Entry
    /\ \A w \in Workers : pc[w] \in {"idle", "claim"} => todo[w] = {}
    /\ crashes \in 0..MaxCrashes

Init ==
    /\ row = [r \in Rows |-> [status |-> "absent", attempts |-> 0, due |-> FALSE,
                              lease |-> "none", body |-> FALSE]]
    /\ pc = [w \in Workers |-> "idle"]
    /\ todo = [w \in Workers |-> {}]
    /\ cur = [w \in Workers |-> None]
    /\ crashes = 0

-----------------------------------------------------------------------------
(* The caller *)

\* enqueue: one row per idempotency key; a second create with the key throws.
\* body says whether the payload carries a secret.
Enqueue(r, body) ==
    /\ row[r].status = "absent"
    /\ row' = [row EXCEPT ![r] = [status |-> "pending", attempts |-> 0, due |-> TRUE,
                                  lease |-> "none", body |-> body]]
    /\ UNCHANGED <<pc, todo, cur, crashes>>

-----------------------------------------------------------------------------
(* Time *)

\* availableAt is read of pending rows alone.
BackoffEnds(r) ==
    /\ row[r].status = "pending"
    /\ ~row[r].due
    /\ row' = [row EXCEPT ![r].due = TRUE]
    /\ UNCHANGED <<pc, todo, cur, crashes>>

LeaseEnds(r) ==
    /\ row[r].lease = "live"
    /\ Overrun \/ ~Held(r)
    /\ row' = [row EXCEPT ![r].lease = "expired"]
    /\ UNCHANGED <<pc, todo, cur, crashes>>

-----------------------------------------------------------------------------
(* One dispatchPending call *)

\* Slips a maintainer could make in the two WHERE clauses of steps 1 and 2.
ReleaseHeldToo(r) == row[r].status = "processing"
ReleaseNothing(r) == FALSE
ClaimTaken(r) == row[r].status \in {"pending", "processing"} /\ row[r].due

Releasable(r) == row[r].status = "processing" /\ row[r].lease = "expired"
Claimable(r) == row[r].status = "pending" /\ row[r].due

\* 1. Recover crashed leases.
Release(w) ==
    /\ pc[w] = "idle"
    /\ row' = [r \in Rows |-> IF Releasable(r)
                              THEN [row[r] EXCEPT !.status = "pending", !.lease = "none"]
                              ELSE row[r]]
    /\ pc' = [pc EXCEPT ![w] = "claim"]
    /\ UNCHANGED <<todo, cur, crashes>>

\* 2. Atomic claim.  A row another transaction has locked is skipped, so the
\* set may be any of the due rows up to the batch size.
Claim(w) ==
    /\ pc[w] = "claim"
    /\ \E S \in SUBSET {r \in Rows : Claimable(r)} :
        /\ S # {} /\ Cardinality(S) <= BatchSize
        /\ row' = [r \in Rows |-> IF r \in S
                                  THEN [row[r] EXCEPT !.status = "processing", !.lease = "live"]
                                  ELSE row[r]]
        /\ todo' = [todo EXCEPT ![w] = {EntryOf(r) : r \in S}]
    /\ pc' = [pc EXCEPT ![w] = "loop"]
    /\ UNCHANGED <<cur, crashes>>

ClaimNothing(w) ==
    /\ pc[w] = "claim"
    /\ \A r \in Rows : ~Claimable(r)
    /\ pc' = [pc EXCEPT ![w] = "idle"]
    /\ UNCHANGED <<row, todo, cur, crashes>>

\* 3. The loop over the claimed entries.
Begin(w) ==
    /\ pc[w] = "loop"
    /\ \E e \in todo[w] :
        /\ cur' = [cur EXCEPT ![w] = e]
        /\ todo' = [todo EXCEPT ![w] = @ \ {e}]
    /\ pc' = [pc EXCEPT ![w] = "handle"]
    /\ UNCHANGED <<row, crashes>>

Finish(w) ==
    /\ pc[w] = "loop"
    /\ todo[w] = {}
    /\ pc' = [pc EXCEPT ![w] = "idle"]
    /\ cur' = [cur EXCEPT ![w] = None]
    /\ UNCHANGED <<row, todo, crashes>>

\* The handler returns, or it throws (as a topic without a handler does).
HandlerReturns(w) ==
    /\ pc[w] = "handle"
    /\ pc' = [pc EXCEPT ![w] = "ack"]
    /\ UNCHANGED <<row, todo, cur, crashes>>

HandlerThrows(w) ==
    /\ pc[w] = "handle"
    /\ pc' = [pc EXCEPT ![w] = "nack"]
    /\ UNCHANGED <<row, todo, cur, crashes>>

\* scrubTerminalPayload, and the slip of an attempt too many.
ScrubTerminalPayload(e) == FALSE
OneTryMore(e) == e.attempts >= MaxAttempts
OutOfAttempts(e) == e.attempts + 1 >= MaxAttempts

\* The write after the handler returned.
Ack(w) ==
    /\ pc[w] = "ack"
    /\ row' = [row EXCEPT ![cur[w].id].status = "dispatched",
                          ![cur[w].id].attempts = @ + 1,
                          ![cur[w].id].lease = "none",
                          ![cur[w].id].body = ScrubTerminalPayload(cur[w])]
    /\ pc' = [pc EXCEPT ![w] = "loop"]
    /\ UNCHANGED <<todo, cur, crashes>>

\* That write throws: it is inside the try, so the entry goes the way of a failure.
AckThrows(w) ==
    /\ pc[w] = "ack"
    /\ pc' = [pc EXCEPT ![w] = "nack"]
    /\ UNCHANGED <<row, todo, cur, crashes>>

\* lockedUntil after a failed attempt, and the slip of leaving it.
LeaseKept(e) == row[e.id].lease
LeaseCleared(e) == "none"

\* The catch block.
Nack(w) ==
    /\ pc[w] = "nack"
    /\ LET e == cur[w]
       IN row' = [row EXCEPT
            ![e.id].status = IF OutOfAttempts(e) THEN "failed" ELSE "pending",
            ![e.id].attempts = e.attempts + 1,
            ![e.id].due = FALSE,
            ![e.id].lease = LeaseCleared(e),
            ![e.id].body = IF OutOfAttempts(e) THEN ScrubTerminalPayload(e) ELSE @]
    /\ pc' = [pc EXCEPT ![w] = "loop"]
    /\ UNCHANGED <<todo, cur, crashes>>

\* The process dies or a statement outside the try throws: the rest of the
\* batch is abandoned, its rows stay processing until their lease ends.
Crash(w) ==
    /\ crashes < MaxCrashes
    /\ pc[w] # "idle"
    /\ crashes' = crashes + 1
    /\ pc' = [pc EXCEPT ![w] = "idle"]
    /\ todo' = [todo EXCEPT ![w] = {}]
    /\ cur' = [cur EXCEPT ![w] = None]
    /\ UNCHANGED row

-----------------------------------------------------------------------------
\* What a call that has started does next, except inside the handler.
Dispatch(w) == \/ Claim(w) \/ ClaimNothing(w) \/ Begin(w) \/ Finish(w)
               \/ Ack(w) \/ AckThrows(w) \/ Nack(w)

Tick(r) == BackoffEnds(r) \/ LeaseEnds(r)

Next ==
    \/ \E r \in Rows : Tick(r) \/ \E b \in BOOLEAN : Enqueue(r, b)
    \/ \E w \in Workers :
        \/ Release(w) \/ Dispatch(w) \/ HandlerReturns(w) \/ HandlerThrows(w) \/ Crash(w)

Spec == Init /\ [][Next]_outboxVars

-----------------------------------------------------------------------------
(* Properties *)

\* A row that is or will be claimed has tries left: whatever late writes of
\* stale snapshots do to the attempts column, no claim is made past MAX_ATTEMPTS.
AttemptBudget ==
    /\ \A r \in Rows : row[r].status \in {"pending", "processing"} => row[r].attempts < MaxAttempts
    /\ \A w \in Workers : \A e \in todo[w] : e.attempts < MaxAttempts

\* The secret body of a password reset or a link never stays in a row that is
\* dispatched or failed, whichever worker wrote the row last.
NoSecretAtRest == \A r \in Rows : row[r].status \in Terminal => ~row[r].body

\* A call that overran its lease writes from a snapshot other calls have gone
\* past; such a write neither buys a row a further try nor leaves a body behind
\* (outbox/index.ts:43-62, 110-148).
LateWritesHarmless == AttemptBudget /\ NoSecretAtRest

\* Two calls never work on the same row ("workers never overlap").
Exclusive == \A v, w \in Workers : v # w => HeldBy(v) \cap HeldBy(w) = {}

\* The rows, their leases and the workers' snapshots behave as the queue the
\* callers were promised.
QueueState == [absent |-> "absent", pending |-> "waiting", processing |-> "running",
               dispatched |-> "done", failed |-> "dead"]

queueJob == [r \in Rows |-> [state |-> QueueState[row[r].status], tries |-> row[r].attempts]]

Queue == INSTANCE JobQueue WITH Jobs <- Rows, Budget <- MaxAttempts, job <- queueJob

ImplementsQueue == Queue!Spec

=============================================================================
