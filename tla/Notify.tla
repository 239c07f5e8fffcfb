------------------------------ MODULE Notify ------------------------------
(***************************************************************************)
(* Outbound messages (src/server/notify/index.ts) and WhatsApp delivery    *)
(* callbacks (whatsappEvents.ts) on top of the outbox.  An Outbox row is   *)
(* either the send of one message (topic notification.send, keyed by the   *)
(* message id) or one callback of the provider (topic whatsapp.status).    *)
(* The handler steps of Outbox are refined into what deliverNotification   *)
(* and applyWhatsappEvents do between two awaits.                          *)
(***************************************************************************)
EXTENDS Outbox

CONSTANTS
    Messages,    \* NotificationMessage ids; also the rows that send them
    Sensitive,   \* messages whose template is sensitive (isSensitiveTemplate)
    Addressed,   \* messages whose recipient is sure to resolve to an address
    Callbacks    \* rows of topic whatsapp.status -> [msg, event]

Events == {"sent", "delivered", "read", "failed"}

ASSUME NotifyAssumption ==
    /\ Sensitive \subseteq Messages
    /\ Addressed \subseteq Messages
    /\ DOMAIN Callbacks \cap Messages = {}
    /\ Rows = Messages \cup DOMAIN Callbacks
    /\ \A c \in DOMAIN Callbacks : Callbacks[c] \in [msg : Messages, event : Events]

VARIABLES
    message,    \* NotificationMessage.status
    ref,        \* messages with a stored providerRef
    accepted,   \* external: messages a provider has accepted
    phase,      \* inside a handler: the await it is at
    target      \* the status a callback handler is about to write

notifyVars == <<message, ref, accepted, phase, target>>
vars == <<outboxVars, notifyVars>>

MessageStatus == {"absent", "QUEUED", "SENT", "DELIVERED", "READ", "FAILED"}
Phases == {"enter", "send", "record", "reject", "deadletter", "apply", "leave"}

NotifyTypeOK ==
    /\ TypeOK
    /\ message \in [Messages -> MessageStatus]
    /\ ref \subseteq Messages
    /\ accepted \subseteq Messages
    /\ phase \in [Workers -> Phases]
    /\ target \in [Workers -> MessageStatus]

NotifyInit ==
    /\ Init
    /\ message = [m \in Messages |-> "absent"]
    /\ ref = {}
    /\ accepted = {}
    /\ phase = [w \in Workers |-> "enter"]
    /\ target = [w \in Workers |-> "absent"]

SetMessage(m, status) == message' = [message EXCEPT ![m] = status]

-----------------------------------------------------------------------------
(* notify: create the message, then enqueue its send; no transaction spans both *)

CreateMessage(m) ==
    /\ message[m] = "absent"
    /\ SetMessage(m, "QUEUED")
    /\ UNCHANGED <<outboxVars, ref, accepted, phase, target>>

EnqueueSend(m) ==
    /\ message[m] = "QUEUED"
    /\ Enqueue(m, m \in Sensitive)
    /\ UNCHANGED notifyVars

\* The webhook route stores a callback; the provider makes one only for a
\* message it accepted.
EnqueueCallback(c) ==
    /\ Callbacks[c].msg \in accepted
    /\ Enqueue(c, FALSE)
    /\ UNCHANGED notifyVars

-----------------------------------------------------------------------------
(* Handlers: the phases of one handler call *)

\* The handler goes from one await to the next.
Step(w, from, to) ==
    /\ pc[w] = "handle"
    /\ phase[w] = from
    /\ phase' = [phase EXCEPT ![w] = to]
    /\ UNCHANGED <<row, pc, todo, cur, crashes>>

\* The handler's last await resolves: dispatchPending goes on to write the row.
Returns(w) ==
    /\ phase[w] = "leave"
    /\ HandlerReturns(w)
    /\ phase' = [phase EXCEPT ![w] = "enter"]
    /\ UNCHANGED <<message, ref, accepted, target>>

\* Any database read of a handler may throw, before anything is sent.
Throws(w) ==
    /\ phase[w] \in {"enter", "send", "deadletter", "apply"}
    /\ HandlerThrows(w)
    /\ phase' = [phase EXCEPT ![w] = "enter"]
    /\ target' = [target EXCEPT ![w] = "absent"]
    /\ UNCHANGED <<message, ref, accepted>>

-----------------------------------------------------------------------------
(* deliverNotification *)

IsQueued(m) == message[m] = "QUEUED"
HasBody(e) == e.id \in Sensitive => e.body

\* The reads that decide what to do: the status guard, the sensitive body, and
\* an address, which may be missing.
ReadMessage(w) ==
    /\ pc[w] = "handle" /\ cur[w].id \in Messages
    /\ LET m == cur[w].id IN
        \/ /\ ~IsQueued(m)
           /\ Step(w, "enter", "leave")
        \/ /\ IsQueued(m) /\ ~HasBody(cur[w])
           /\ Step(w, "enter", "deadletter")
        \/ /\ IsQueued(m) /\ HasBody(cur[w])
           /\ \/ Step(w, "enter", "send")
              \/ m \notin Addressed /\ Step(w, "enter", "deadletter")
    /\ UNCHANGED <<message, ref, accepted, target>>

\* A slip: returning from the dead-letter branch without its write.
DropSilently(w) ==
    /\ Step(w, "deadletter", "leave")
    /\ UNCHANGED <<message, ref, accepted, target>>

\* No body or no address: the message is FAILED and the handler returns.
DeadLetter(w) ==
    /\ Step(w, "deadletter", "leave")
    /\ SetMessage(cur[w].id, "FAILED")
    /\ UNCHANGED <<ref, accepted, target>>

\* A slip: an answer of the provider that is not ok taken for acceptance.
SendUnchecked(w) ==
    /\ Step(w, "send", "record")
    /\ accepted' \in {accepted, accepted \cup {cur[w].id}}
    /\ UNCHANGED <<message, ref, target>>

\* adapter.send: the provider accepts, accepts and the answer is lost, or refuses.
Send(w) ==
    /\ \/ /\ Step(w, "send", "record")
          /\ accepted' = accepted \cup {cur[w].id}
       \/ /\ Step(w, "send", "reject")
          /\ accepted' \in {accepted, accepted \cup {cur[w].id}}
    /\ UNCHANGED <<message, ref, target>>

Record(w) ==
    /\ Step(w, "record", "leave")
    /\ SetMessage(cur[w].id, "SENT")
    /\ ref' = ref \cup {cur[w].id}
    /\ UNCHANGED <<accepted, target>>

\* The SENT update throws inside the try, so the catch marks the message FAILED.
RecordThrows(w) ==
    /\ Step(w, "record", "reject")
    /\ UNCHANGED <<message, ref, accepted, target>>

\* The catch: FAILED, then rethrow.  The write itself may throw instead.
Reject(w) ==
    /\ phase[w] = "reject"
    /\ HandlerThrows(w)
    /\ phase' = [phase EXCEPT ![w] = "enter"]
    /\ \/ SetMessage(cur[w].id, "FAILED")
       \/ UNCHANGED message
    /\ UNCHANGED <<ref, accepted, target>>

-----------------------------------------------------------------------------
(* applyWhatsappEvents, for a callback that carries one status *)

Rank == [s \in {"QUEUED", "SENT", "DELIVERED", "READ"} |->
            CASE s = "QUEUED" -> 0 [] s = "SENT" -> 1 [] s = "DELIVERED" -> 2 [] s = "READ" -> 3]

StatusOf == [e \in Events |-> CASE e = "sent" -> "SENT" [] e = "delivered" -> "DELIVERED"
                                [] e = "read" -> "READ" [] e = "failed" -> "FAILED"]

\* nextStatus is not null.
Advances(status, event) ==
    IF event = "failed"
    THEN status \in {"QUEUED", "SENT"}
    ELSE status \in DOMAIN Rank /\ Rank[StatusOf[event]] > Rank[status]

\* findFirst by providerRef, then nextStatus of the status read.
ReadCallback(w) ==
    /\ pc[w] = "handle" /\ cur[w].id \in DOMAIN Callbacks
    /\ LET c == Callbacks[cur[w].id] IN
        IF c.msg \in ref /\ Advances(message[c.msg], c.event)
        THEN /\ Step(w, "enter", "apply")
             /\ target' = [target EXCEPT ![w] = StatusOf[c.event]]
        ELSE Step(w, "enter", "leave") /\ UNCHANGED target
    /\ UNCHANGED <<message, ref, accepted>>

ApplyCallback(w) ==
    /\ Step(w, "apply", "leave")
    /\ SetMessage(Callbacks[cur[w].id].msg, target[w])
    /\ target' = [target EXCEPT ![w] = "absent"]
    /\ UNCHANGED <<ref, accepted>>

-----------------------------------------------------------------------------
Handle(w) == \/ ReadMessage(w) \/ DeadLetter(w) \/ Send(w) \/ Record(w) \/ RecordThrows(w)
             \/ Reject(w) \/ ReadCallback(w) \/ ApplyCallback(w) \/ Returns(w) \/ Throws(w)

\* A call that dies inside a handler loses its place in it.
Die(w) ==
    /\ Crash(w)
    /\ phase' = [phase EXCEPT ![w] = "enter"]
    /\ target' = [target EXCEPT ![w] = "absent"]
    /\ UNCHANGED <<message, ref, accepted>>

Poll(w) == Release(w) /\ UNCHANGED notifyVars
Proceed(w) == (Dispatch(w) /\ UNCHANGED notifyVars) \/ Handle(w)
Time(r) == Tick(r) /\ UNCHANGED notifyVars

NotifyNext ==
    \/ \E m \in Messages : CreateMessage(m) \/ EnqueueSend(m)
    \/ \E c \in DOMAIN Callbacks : EnqueueCallback(c)
    \/ \E r \in Rows : Time(r)
    \/ \E w \in Workers : Poll(w) \/ Proceed(w) \/ Die(w)

NotifySpec == NotifyInit /\ [][NotifyNext]_vars

\* Time passes; a call that has started runs on unless it dies; the runner
\* polls for ever.  No other call is promised to start.
Fairness ==
    /\ \A r \in Rows : WF_vars(Time(r))
    /\ \A w \in Workers : WF_vars(Proceed(w))
    /\ WF_vars(Poll(Runner))

FairSpec == NotifySpec /\ Fairness

-----------------------------------------------------------------------------
(* Properties *)

\* No send is written off as dispatched while its message still waits: the
\* handler returns only after the message has left QUEUED, for good.
DispatchedMeansHandled ==
    \A m \in Messages : row[m].status = "dispatched" => message[m] \notin {"absent", "QUEUED"}

\* The log never claims a message left that no provider accepted, across
\* retries, crashes between the send and its record, and late callbacks.
SentMeansAccepted ==
    \A m \in Messages : message[m] \in {"SENT", "DELIVERED", "READ"} => m \in accepted

\* A retry never sends again what an earlier attempt recorded: the provider is
\* called for a message only while it is QUEUED.
SendOnlyQueued ==
    [][\A w \in Workers : Send(w) => message[cur[w].id] = "QUEUED"]_vars

\* Every enqueued row comes to rest dispatched or failed and stays there, in
\* spite of crashes, backoff, expiring leases and late writes of stale snapshots.
Settles == \A r \in Rows : row[r].status = "pending" ~> [](row[r].status \in Terminal)

=============================================================================
