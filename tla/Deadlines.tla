----------------------------- MODULE Deadlines -----------------------------
(***************************************************************************)
(* Deadline rows derived from tenancies.  Every write of a tenancy, of its *)
(* payment schedule or of its archive mark is followed, in the same        *)
(* request and outside any transaction, by a regeneration that looks each  *)
(* derived deadline up, updates or creates it, and cancels those of cheques *)
(* that went away.  Each statement of it is a step; a request may die      *)
(* between two.                                                            *)
(***************************************************************************)
EXTENDS Integers, Sequences, SequencesExt, FiniteSets

CONSTANTS
    Leases,      \* tenancies
    Ends,        \* end dates a tenancy may be given
    Periods,     \* notice periods a tenancy may be given
    Items,       \* payment items
    LeaseOf,     \* the tenancy of an item
    DueOf,       \* the due date of an item
    SeqNo,       \* the place of an item in its schedule
    Writers,     \* requests that write tenancies and deadlines
    ManualKinds, \* kinds of the entries made by hand
    MaxRows,     \* how many deadline rows there may be
    MaxEntries,  \* how many of them may be made by hand
    None

ASSUME DeadlinesAssumption ==
    /\ Ends \subseteq Int /\ Periods \subseteq Nat \ {0}
    /\ LeaseOf \in [Items -> Leases] /\ DueOf \in [Items -> Int] /\ SeqNo \in [Items -> Nat]
    /\ IsFiniteSet(Items) /\ None \notin Leases \cup Items \cup Nat
    /\ MaxRows \in Nat /\ MaxEntries \in Nat

VARIABLES
    lease,      \* the tenancies: dates, cached notice gate, archive mark
    item,       \* status of each payment item
    deadline,   \* the deadline rows, in the order of their creation
    step,       \* where each request is
    edit,       \* what each request has read
    raced       \* tenancies whose regenerations overlapped, or one of which died

deadlineVars == <<lease, item, deadline, step, edit, raced>>

Row == [of : Leases \cup {None}, kind : STRING, item : Items \cup {None}, due : Int,
        status : {"OPEN", "DONE", "CANCELLED"}, manual : BOOLEAN]

Unread == [lease |-> None, todo |-> <<>>, found |-> None, live |-> {}, end |-> None, gate |-> None]

DeadlinesInit ==
    /\ lease = [t \in Leases |-> [there |-> FALSE, end |-> None, period |-> None,
                                  gate |-> None, archived |-> FALSE]]
    /\ item = [i \in Items |-> "absent"]
    /\ deadline = <<>>
    /\ step = [p \in Writers |-> "idle"]
    /\ edit = [p \in Writers |-> Unread]
    /\ raced = {}

-----------------------------------------------------------------------------
(* calculators/dates: days are numbered, dates have no time of day *)

NoticeGate(end, period) == end - period
ContractExpiry(end) == end
RenewalDate(end) == end + 1
ChequeDue(due) == due

\* The deadlines a tenancy calls for, in the order they are upserted.
Term(end, period) ==
    << [kind |-> "NOTICE_GATE", item |-> None, due |-> NoticeGate(end, period)],
       [kind |-> "CONTRACT_EXPIRY", item |-> None, due |-> ContractExpiry(end)],
       [kind |-> "RENEWAL_DATE", item |-> None, due |-> RenewalDate(end)] >>

Cheques(live) ==
    SetToSeq({[kind |-> "CHEQUE_DUE", item |-> i, due |-> ChequeDue(DueOf[i])] : i \in live})

\* The payment items of a tenancy that are not cancelled.
ActiveItems(t) == {i \in Items : LeaseOf[i] = t /\ item[i] \in {"SCHEDULED", "RECEIVED"}}

-----------------------------------------------------------------------------
(* Requests that end in a regeneration *)

To(p, from, to) == step[p] = from /\ step' = [step EXCEPT ![p] = to]

Begin(p, t) ==
    /\ To(p, "idle", "regenerate")
    /\ edit' = [edit EXCEPT ![p] = [Unread EXCEPT !.lease = t]]
    /\ raced' = IF \E q \in Writers \ {p} : step[q] # "idle" /\ edit[q].lease = t
                THEN raced \cup {t} ELSE raced
    /\ UNCHANGED deadline

CreateTenancy(p, t) ==
    /\ ~lease[t].there
    /\ \E end \in Ends, period \in Periods :
            lease' = [lease EXCEPT ![t].there = TRUE, ![t].end = end, ![t].period = period]
    /\ Begin(p, t)
    /\ UNCHANGED item

UpdateTenancy(p, t) ==
    /\ lease[t].there
    /\ \E end \in Ends, period \in Periods :
            lease' = [lease EXCEPT ![t].end = end, ![t].period = period]
    /\ Begin(p, t)
    /\ UNCHANGED item

ArchiveTenancy(p, t) ==
    /\ lease[t].there
    /\ lease' = [lease EXCEPT ![t].archived = TRUE]
    /\ Begin(p, t)
    /\ UNCHANGED item

\* In one transaction, the items still SCHEDULED go and new ones come, but none
\* in a place that an item which moved on still holds.
SetPaymentSchedule(p, t) ==
    /\ lease[t].there
    /\ LET kept == {i \in Items : LeaseOf[i] = t /\ item[i] \in {"RECEIVED", "CANCELLED"}}
           fresh == {i \in Items : /\ LeaseOf[i] = t /\ item[i] = "absent"
                                   /\ \A j \in kept : SeqNo[j] # SeqNo[i]}
       IN  \E new \in SUBSET fresh :
            /\ \A i, j \in new : i # j => SeqNo[i] # SeqNo[j]
            /\ item' = [i \in Items |-> IF i \in new THEN "SCHEDULED"
                                        ELSE IF LeaseOf[i] = t /\ item[i] = "SCHEDULED" THEN "deleted"
                                        ELSE item[i]]
    /\ Begin(p, t)
    /\ UNCHANGED lease

\* transitionPayment: the deadlines are not regenerated.
TransitionPayment(i) ==
    /\ item[i] = "SCHEDULED"
    /\ \E s \in {"RECEIVED", "CANCELLED"} : item' = [item EXCEPT ![i] = s]
    /\ UNCHANGED <<lease, deadline, step, edit, raced>>

-----------------------------------------------------------------------------
(* regenerateDeadlinesForTenancy *)

\* Slip: regenerate for an archived tenancy too.
NeverArchived(t) == FALSE

IsArchived(t) == lease[t].archived

\* The tenancy and its items are read once.
Regenerate(p) ==
    LET t == edit[p].lease
        live == ActiveItems(t)
    IN  /\ To(p, "regenerate", "find")
        /\ ~IsArchived(t)
        /\ edit' = [edit EXCEPT
                ![p].todo = Term(lease[t].end, lease[t].period) \o Cheques(live),
                ![p].live = live,
                ![p].gate = NoticeGate(lease[t].end, lease[t].period)]
        /\ UNCHANGED <<lease, item, deadline, raced>>

\* One statement cancels all that is open for an archived tenancy.
CancelAll(p) ==
    LET t == edit[p].lease
    IN  /\ To(p, "regenerate", "idle")
        /\ IsArchived(t)
        /\ deadline' = [n \in DOMAIN deadline |->
                IF deadline[n].of = t /\ deadline[n].status = "OPEN"
                THEN [deadline[n] EXCEPT !.status = "CANCELLED"] ELSE deadline[n]]
        /\ edit' = [edit EXCEPT ![p] = Unread]
        /\ UNCHANGED <<lease, item, raced>>

\* The open row of a kind, and of an item where there is one.
Same(n, t, d) ==
    /\ deadline[n].of = t /\ deadline[n].kind = d.kind /\ deadline[n].status = "OPEN"
    /\ d.item # None => deadline[n].item = d.item

FindExisting(p) ==
    LET d == Head(edit[p].todo)
        open == {n \in DOMAIN deadline : Same(n, edit[p].lease, d)}
    IN  /\ To(p, "find", "upsert")
        /\ edit[p].todo # <<>>
        /\ \E n \in (IF open = {} THEN {None} ELSE open) :
                edit' = [edit EXCEPT ![p].found = n]
        /\ UNCHANGED <<lease, item, deadline, raced>>

\* The row found is written by id, whatever became of it meanwhile.
UpsertDeadline(p) ==
    LET d == Head(edit[p].todo)
        n == edit[p].found
    IN  /\ To(p, "upsert", IF d.kind = "RENEWAL_DATE" THEN "cache" ELSE "find")
        /\ IF n = None
           THEN /\ Len(deadline) < MaxRows
                /\ deadline' = Append(deadline, [of |-> edit[p].lease, kind |-> d.kind,
                        item |-> d.item, due |-> d.due, status |-> "OPEN", manual |-> FALSE])
           ELSE deadline' = [deadline EXCEPT ![n].due = d.due]
        /\ edit' = [edit EXCEPT ![p].todo = Tail(@), ![p].found = None]
        /\ UNCHANGED <<lease, item, raced>>

\* noticeGateAt is cached on the tenancy after the three dates of the term.
CacheGate(p) ==
    /\ To(p, "cache", "find")
    /\ lease' = [lease EXCEPT ![edit[p].lease].gate = edit[p].gate]
    /\ UNCHANGED <<item, deadline, edit, raced>>

\* The open cheque deadlines whose item is not among those read at the start.
Vanished(t, live) ==
    {n \in DOMAIN deadline : /\ deadline[n].of = t /\ deadline[n].kind = "CHEQUE_DUE"
                             /\ deadline[n].status = "OPEN"
                             /\ deadline[n].item # None /\ deadline[n].item \notin live}

ReadVanished(p) ==
    /\ To(p, "find", "cancel")
    /\ edit[p].todo = <<>>
    /\ edit' = [edit EXCEPT ![p].todo = SetToSeq(Vanished(edit[p].lease, edit[p].live))]
    /\ UNCHANGED <<lease, item, deadline, raced>>

CancelVanished(p) ==
    /\ step[p] = "cancel" /\ edit[p].todo # <<>>
    /\ deadline' = [deadline EXCEPT ![Head(edit[p].todo)].status = "CANCELLED"]
    /\ edit' = [edit EXCEPT ![p].todo = Tail(@)]
    /\ UNCHANGED <<lease, item, step, raced>>

Regenerated(p) ==
    /\ To(p, "cancel", "idle")
    /\ edit[p].todo = <<>>
    /\ edit' = [edit EXCEPT ![p] = Unread]
    /\ UNCHANGED <<lease, item, deadline, raced>>

DieEditing(p) ==
    /\ step[p] # "idle" /\ edit[p].lease \notin raced
    /\ step' = [step EXCEPT ![p] = "idle"]
    /\ edit' = [edit EXCEPT ![p] = Unread]
    /\ raced' = IF edit[p].lease = None THEN raced ELSE raced \cup {edit[p].lease}
    /\ UNCHANGED <<lease, item, deadline>>

-----------------------------------------------------------------------------
(* Calendar entries made by hand *)

\* The calendar form names a kind and no tenancy.
CreateManualDeadline(kind, due) ==
    /\ Len(deadline) < MaxRows
    /\ Cardinality({n \in DOMAIN deadline : deadline[n].manual}) < MaxEntries
    /\ deadline' = Append(deadline, [of |-> None, kind |-> kind, item |-> None, due |-> due,
                                     status |-> "OPEN", manual |-> TRUE])
    /\ UNCHANGED <<lease, item, step, edit, raced>>

IsManualDeadline(n) == deadline[n].manual

\* setDeadlineStatus reads the entry, then writes it by id.
ReadEntry(p, n) ==
    /\ To(p, "idle", "settle")
    /\ IsManualDeadline(n) /\ deadline[n].status = "OPEN"
    /\ edit' = [edit EXCEPT ![p].found = n]
    /\ UNCHANGED <<lease, item, deadline, raced>>

SetDeadlineStatus(p) ==
    /\ To(p, "settle", "idle")
    /\ \E s \in {"DONE", "CANCELLED"} : deadline' = [deadline EXCEPT ![edit[p].found].status = s]
    /\ edit' = [edit EXCEPT ![p] = Unread]
    /\ UNCHANGED <<lease, item, raced>>

-----------------------------------------------------------------------------

WriteLease(p, t) ==
    \/ CreateTenancy(p, t) \/ UpdateTenancy(p, t) \/ ArchiveTenancy(p, t)
    \/ SetPaymentSchedule(p, t)

Rewrite(p) ==
    \/ Regenerate(p) \/ CancelAll(p) \/ FindExisting(p) \/ UpsertDeadline(p) \/ CacheGate(p)
    \/ ReadVanished(p) \/ CancelVanished(p) \/ Regenerated(p) \/ DieEditing(p)
    \/ SetDeadlineStatus(p)

DeadlinesNext ==
    \/ \E p \in Writers :
        \/ \E t \in Leases : WriteLease(p, t)
        \/ \E n \in DOMAIN deadline : ReadEntry(p, n)
        \/ Rewrite(p)
    \/ \E i \in Items : TransitionPayment(i)
    \/ \E kind \in ManualKinds, end \in Ends : CreateManualDeadline(kind, end)

DeadlinesSpec == DeadlinesInit /\ [][DeadlinesNext]_deadlineVars

-----------------------------------------------------------------------------
(* Properties *)

DeadlinesTypeOK ==
    /\ lease \in [Leases -> [there : BOOLEAN, end : Ends \cup {None}, period : Periods \cup {None},
                             gate : Int \cup {None}, archived : BOOLEAN]]
    /\ item \in [Items -> {"absent", "SCHEDULED", "deleted", "RECEIVED", "CANCELLED"}]
    /\ deadline \in Seq(Row)
    /\ raced \subseteq Leases

Open(t) == {n \in DOMAIN deadline : deadline[n].of = t /\ deadline[n].status = "OPEN"}
At(t) == {p \in Writers : step[p] # "idle" /\ edit[p].lease = t}

\* "Never a duplicate open deadline": a tenancy has one open deadline of a kind
\* and, for cheques, of an item, unless two regenerations of it overlapped.
OneOpenEach ==
    \A t \in Leases \ raced : \A m, n \in Open(t) :
        m # n => <<deadline[m].kind, deadline[m].item>> # <<deadline[n].kind, deadline[n].item>>

\* A tenancy never has a deadline open twice, and once no request is at work on it, what is open for it is what its dates
\* and its payment items call for, nothing if it is archived, and the cached
\* notice gate is the day of its notice deadline.  Only a cheque cancelled since
\* may still have its deadline, for a transition does not regenerate.
DeadlinesFollow ==
  /\ OneOpenEach
  /\ \A t \in Leases \ raced : lease[t].there /\ At(t) = {} =>
        LET open == {[kind |-> deadline[n].kind, item |-> deadline[n].item, due |-> deadline[n].due]
                     : n \in Open(t)}
            wanted == IF lease[t].archived THEN {}
                      ELSE ToSet(Term(lease[t].end, lease[t].period) \o Cheques(ActiveItems(t)))
            stale == {d \in open : d.item # None /\ item[d.item] = "CANCELLED"}
        IN  /\ open \ stale = wanted
            /\ lease[t].archived => stale = {}
            /\ \A d \in wanted : d.kind = "NOTICE_GATE" => lease[t].gate = d.due
=============================================================================
