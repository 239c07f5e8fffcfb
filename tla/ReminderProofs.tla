--------------------------- MODULE ReminderProofs ---------------------------
(***************************************************************************)
(* Proofs about Deadlines, for any number of tenancies, payment items and  *)
(* requests, and about Feed and Reminders, for any users and processes.    *)
(***************************************************************************)
EXTENDS Reminders, FiniteSetTheorems, FunctionTheorems, SequenceTheorems, TLAPS

(***************************************************************************)
(* What every deadline row and every request has in hand.                  *)
(***************************************************************************)
TermKinds == {"NOTICE_GATE", "CONTRACT_EXPIRY", "RENEWAL_DATE"}
Alive == {"SCHEDULED", "RECEIVED"}
ItemStatus == {"absent", "SCHEDULED", "deleted", "RECEIVED", "CANCELLED"}
Listing == {"find", "upsert", "cache"}
Working == {"regenerate", "cancel"} \cup Listing
LeaseFields == {"there", "end", "period", "gate", "archived"}
EditFields == {"lease", "todo", "found", "live", "end", "gate"}
RowFields == {"of", "kind", "item", "due", "status", "manual"}

\* What a regeneration may call for.
Derived == [kind : TermKinds \cup {"CHEQUE_DUE"}, item : Items \cup {None}, due : Int]
Entries == [of : Leases \cup {None}, kind : TermKinds \cup {"CHEQUE_DUE"} \cup ManualKinds,
            item : Items \cup {None}, due : Int, status : {"OPEN", "DONE", "CANCELLED"},
            manual : BOOLEAN]

Tables ==
    /\ DOMAIN lease = Leases
    /\ \A t \in Leases : /\ DOMAIN lease[t] = LeaseFields
                         /\ lease[t].there \in BOOLEAN /\ lease[t].archived \in BOOLEAN
                         /\ lease[t].there => lease[t].end \in Ends /\ lease[t].period \in Periods
    /\ item \in [Items -> ItemStatus]
    /\ deadline \in Seq(Entries)
    /\ step \in [Writers -> {"idle", "settle"} \cup Working]
    /\ DOMAIN edit = Writers /\ \A p \in Writers : DOMAIN edit[p] = EditFields
    /\ raced \subseteq Leases

\* A row is of a tenancy that is there, or made by hand.
RowsSound ==
    \A n \in DOMAIN deadline :
        LET d == deadline[n]
        IN  /\ d.manual <=> d.of = None
            /\ d.of # None =>
                /\ lease[d.of].there
                /\ d.kind \in TermKinds \cup {"CHEQUE_DUE"}
                /\ d.kind = "CHEQUE_DUE" <=> d.item # None
                /\ d.item # None => /\ LeaseOf[d.item] = d.of /\ d.due = DueOf[d.item]
                                    /\ item[d.item] # "absent"

Cheque(i) == [kind |-> "CHEQUE_DUE", item |-> i, due |-> DueOf[i]]

HasInHand(p) ==
    LET w == edit[p]
    IN  /\ step[p] \in {"idle", "settle"} => w.lease = None
        /\ step[p] = "settle" => /\ w.found \in DOMAIN deadline /\ deadline[w.found].of = None
        /\ step[p] \in Working => w.lease \in Leases /\ lease[w.lease].there
        /\ step[p] \in Listing =>
            /\ w.live \subseteq Items /\ w.todo \in Seq(Derived)
            /\ \A i \in w.live : LeaseOf[i] = w.lease /\ item[i] # "absent"
            /\ \A d \in ToSet(w.todo) :
                    IF d.kind = "CHEQUE_DUE" THEN \E i \in w.live : d = Cheque(i) ELSE d.item = None
        /\ step[p] = "upsert" =>
            /\ w.todo # <<>>
            /\ w.found # None => /\ w.found \in DOMAIN deadline
                                 /\ deadline[w.found].of = w.lease
                                 /\ deadline[w.found].kind = Head(w.todo).kind
                                 /\ deadline[w.found].item = Head(w.todo).item
        /\ step[p] = "cancel" =>
            /\ w.live \subseteq Items /\ w.todo \in Seq(DOMAIN deadline)
            /\ \A i \in w.live : LeaseOf[i] = w.lease
            /\ \A n \in ToSet(w.todo) : /\ deadline[n].of = w.lease /\ deadline[n].item # None
                                        /\ deadline[n].item \notin w.live

(***************************************************************************)
(* A tenancy whose regenerations never met: one request at most is at it;  *)
(* a key never has two rows, open or not; what a regeneration has gone     *)
(* through is there, and so is all of it when it is over.                  *)
(***************************************************************************)
Calls(t, live) == ToSet(Term(lease[t].end, lease[t].period)) \cup {Cheque(i) : i \in live}
IsOpen(n, t) == n \in DOMAIN deadline /\ deadline[n].of = t /\ deadline[n].status = "OPEN"
Answers(n, d) == deadline[n].kind = d.kind /\ deadline[n].item = d.item /\ deadline[n].due = d.due
Filled(t, d) == \E n \in DOMAIN deadline : IsOpen(n, t) /\ Answers(n, d)
GateKept(t) == lease[t].gate = NoticeGate(lease[t].end, lease[t].period)

Under(p, t) ==
    LET w == edit[p]
    IN  /\ ~lease[t].archived /\ w.gate = NoticeGate(lease[t].end, lease[t].period)
        /\ ActiveItems(t) \subseteq w.live
        /\ \A i \in w.live : item[i] \in Alive \cup {"CANCELLED"}
        /\ \A n \in DOMAIN deadline : deadline[n].of = t /\ deadline[n].status # "OPEN" =>
                deadline[n].item # None /\ deadline[n].item \notin w.live
        /\ step[p] # "cancel" => ToSet(w.todo) \subseteq Calls(t, w.live)
        /\ \A d \in Calls(t, w.live) : Filled(t, d) \/ (step[p] # "cancel" /\ d \in ToSet(w.todo))
        /\ step[p] \in {"find", "upsert"} =>
                GateKept(t) \/ \E d \in ToSet(w.todo) : d.kind = "RENEWAL_DATE"
        /\ step[p] = "upsert" /\ w.found = None =>
                \A n \in DOMAIN deadline : deadline[n].of = t =>
                    deadline[n].kind # Head(w.todo).kind \/ deadline[n].item # Head(w.todo).item
        /\ step[p] = "cancel" =>
                /\ GateKept(t)
                /\ \A n \in DOMAIN deadline : IsOpen(n, t) =>
                        deadline[n].item \in w.live \cup {None} \/ n \in ToSet(w.todo)

Follows(t) ==
    /\ lease[t].archived => \A n \in DOMAIN deadline : ~IsOpen(n, t)
    /\ ~lease[t].archived =>
        /\ GateKept(t)
        /\ \A d \in Calls(t, ActiveItems(t)) : Filled(t, d)
        /\ \A n \in DOMAIN deadline : IsOpen(n, t) /\ deadline[n].item # None =>
                item[deadline[n].item] \in Alive \cup {"CANCELLED"}

OneRowEach(t) ==
    \A m, n \in DOMAIN deadline :
        /\ deadline[m].of = t /\ deadline[n].of = t
        /\ deadline[m].kind = deadline[n].kind /\ deadline[m].item = deadline[n].item
        => m = n

Orderly(t) ==
    /\ \A p, q \in At(t) : p = q
    /\ OneRowEach(t)
    /\ \A n \in DOMAIN deadline : deadline[n].of = t /\ deadline[n].status # "OPEN" =>
            lease[t].archived \/ (deadline[n].item # None /\ item[deadline[n].item] \notin Alive)
    /\ \A p \in At(t) : step[p] \notin {"regenerate"} => Under(p, t)
    /\ At(t) = {} /\ lease[t].there => Follows(t)

DeadlineInv ==
    /\ Tables /\ RowsSound
    /\ \A p \in Writers : HasInHand(p)
    /\ \A t \in Leases \ raced : Orderly(t)

(***************************************************************************)
(* The feed, and what each process that writes it has in hand.             *)
(***************************************************************************)
Spreading == {"tell", "email", "link"}
WorkFields == {"users", "prefs", "user", "about", "category", "urgent", "item", "chosen", "todo",
               "next", "ladders", "today"}
Rungs == (DOMAIN deadline) \X Int
Sorts == Categories \cup {"DEADLINES"}
Notes == [user : Users, about : {<<>>} \cup (Nat \X Int), category : Sorts, urgent : BOOLEAN,
          asked : BOOLEAN, email : {"none", "QUEUED", "SENT", "FAILED"}, linked : BOOLEAN,
          read : BOOLEAN, mailed : 0 .. 2, digested : BOOLEAN]

Boards ==
    /\ feed \in Seq(Notes)
    /\ at \in [Jobs -> {"idle"} \cup DailyJob \cup Spreading]
    /\ work = [p \in Jobs |-> work[p]] /\ \A p \in Jobs : DOMAIN work[p] = WorkFields
    /\ today \in Int /\ sent \subseteq Rungs
    /\ beside \in BOOLEAN /\ died \in BOOLEAN

\* The process tells of a rung of the ladders.
OnRung(p) == at[p] = "evidence" \/ (at[p] \in Spreading /\ work[p].next = "evidence")

\* User u has it in the feed, linked to its e-mail where it is urgent, or soon.
Has(u, x, urgent) ==
    \E n \in DOMAIN feed : /\ feed[n].user = u /\ feed[n].about = x
                           /\ urgent => feed[n].linked /\ feed[n].email # "none"
Getting(p, u) ==
    LET w == work[p]
    IN  at[p] \in {"email", "link"} /\ feed[w.item].user = u /\ feed[w.item].about = w.about

HasWork(p) ==
    LET w == work[p]
    IN  /\ at[p] = "rung" \/ OnRung(p) => w.todo \subseteq Rungs /\ w.today \in Int
        /\ at[p] \in Spreading =>
            /\ w.next \in {"idle", "evidence"} /\ w.category \in Sorts /\ w.urgent \in BOOLEAN
            /\ w.next = "idle" => w.about = <<>>
        /\ OnRung(p) =>
            /\ w.about \in Rungs /\ (w.urgent <=> Urgent(w.about))
            /\ \A u \in Overseers : u \in w.users \/ Has(u, w.about, w.urgent) \/ Getting(p, u)
        /\ at[p] = "evidence" => w.users = {} /\ w.next = "evidence"
        /\ at[p] \in {"email", "link"} => w.item \in DOMAIN feed
        /\ at[p] = "link" => feed[w.item].email # "none"
        /\ at[p] \in {"send", "mark"} =>
            w.next \in {"flushDaily", "flushWeekly"} /\ w.chosen \subseteq DOMAIN feed

Reached == \A x \in sent : \A u \in Overseers : Has(u, x, Urgent(x))

\* One job at a time mails an item once and tells a user once of a rung.
Sole == \A p, q \in Jobs : AtWork(p) /\ AtWork(q) => p = q

MailedOnce ==
    /\ \A n \in DOMAIN feed :
            feed[n].mailed = 0 \/ (feed[n].mailed = 1 /\ (feed[n].digested
                \/ \E p \in Jobs : at[p] = "mark" /\ n \in work[p].chosen))
    /\ \A p \in Jobs : at[p] = "send" => \A n \in work[p].chosen : feed[n].mailed = 0

ToldFirst ==
    /\ \A p \in Jobs : OnRung(p) => work[p].about \notin sent
    /\ \A n \in DOMAIN feed : feed[n].about = <<>> \/ feed[n].about \in sent
            \/ \E p \in Jobs : OnRung(p) /\ work[p].about = feed[n].about /\ feed[n].user \notin work[p].users
    /\ \A m, n \in DOMAIN feed :
            feed[m].user = feed[n].user /\ feed[m].about = feed[n].about /\ feed[m].about # <<>> => m = n

AboutRows == \A n \in DOMAIN feed : feed[n].about \in {<<>>} \cup Rungs

FeedInv ==
    /\ Boards /\ AboutRows /\ Reached
    /\ \A p \in Jobs : HasWork(p)
    /\ ~beside => Sole
    /\ ~beside /\ ~died => MailedOnce /\ ToldFirst

-----------------------------------------------------------------------------
(* Sequences as sets *)

LEMMA Taken ==
    ASSUME NEW S, NEW s \in Seq(S), s # <<>>
    PROVE  /\ Head(s) \in S /\ Tail(s) \in Seq(S)
           /\ Head(s) \in ToSet(s) /\ ToSet(Tail(s)) \subseteq ToSet(s)
           /\ \A x \in ToSet(s) : x = Head(s) \/ x \in ToSet(Tail(s))
<1>1. Head(s) = s[1] /\ Len(s) \in Nat \ {0} /\ DOMAIN s = 1 .. Len(s)
    OBVIOUS
<1>2. /\ Head(s) \in S /\ Tail(s) \in Seq(S) /\ Len(Tail(s)) = Len(s) - 1
      /\ \A i \in 1 .. Len(Tail(s)) : Tail(s)[i] = s[i + 1]
    BY HeadTailProperties
<1>3. DOMAIN Tail(s) = 1 .. Len(s) - 1
    BY <1>2
<1>4. 1 \in DOMAIN s /\ \A i \in DOMAIN Tail(s) : i + 1 \in DOMAIN s /\ Tail(s)[i] = s[i + 1]
    BY <1>1, <1>2, <1>3
<1>5. \A i \in DOMAIN s : i = 1 \/ (i - 1 \in DOMAIN Tail(s) /\ s[i] = Tail(s)[i - 1])
    BY <1>1, <1>2, <1>3
<1> QED BY <1>1, <1>2, <1>4, <1>5 DEF ToSet

LEMMA Joined ==
    ASSUME NEW S, NEW s \in Seq(S), NEW u \in Seq(S)
    PROVE  s \o u \in Seq(S) /\ ToSet(s \o u) = ToSet(s) \cup ToSet(u)
<1>1. /\ s \o u \in Seq(S) /\ Len(s \o u) = Len(s) + Len(u)
      /\ \A i \in 1 .. Len(s) + Len(u) : (s \o u)[i] = IF i <= Len(s) THEN s[i] ELSE u[i - Len(s)]
    BY ConcatProperties
<1>2. /\ Len(s) \in Nat /\ Len(u) \in Nat /\ DOMAIN s = 1 .. Len(s) /\ DOMAIN u = 1 .. Len(u)
      /\ DOMAIN (s \o u) = 1 .. Len(s) + Len(u)
    BY <1>1
<1>3. \A i \in DOMAIN s : i \in DOMAIN (s \o u) /\ (s \o u)[i] = s[i]
    BY <1>1, <1>2
<1>4. \A i \in DOMAIN u : i + Len(s) \in DOMAIN (s \o u) /\ (s \o u)[i + Len(s)] = u[i]
    BY <1>1, <1>2
<1>5. \A i \in DOMAIN (s \o u) : (i \in DOMAIN s /\ (s \o u)[i] = s[i])
                                 \/ (i - Len(s) \in DOMAIN u /\ (s \o u)[i] = u[i - Len(s)])
    BY <1>1, <1>2
<1>6. ToSet(s) \subseteq ToSet(s \o u) /\ ToSet(u) \subseteq ToSet(s \o u)
    BY <1>3, <1>4 DEF ToSet
<1>7. ToSet(s \o u) \subseteq ToSet(s) \cup ToSet(u)
    BY <1>5 DEF ToSet
<1> QED BY <1>1, <1>6, <1>7

\* A finite set as a sequence.
LEMMA Listed ==
    ASSUME NEW S, IsFiniteSet(S)
    PROVE  SetToSeq(S) \in Seq(S) /\ ToSet(SetToSeq(S)) = S
<1> DEFINE n == Cardinality(S)
<1>1. n \in Nat /\ ExistsBijection(1 .. n, S)  BY FS_CardinalityType
<1>2. PICK f \in Bijection(1 .. n, S) : TRUE  BY <1>1 DEF ExistsBijection
<1>3. f \in [1 .. n -> S] /\ IsInjective(f)  BY <1>2 DEF Bijection, Injection
<1>4. SetToSeq(S) \in [1 .. n -> S] /\ IsInjective(SetToSeq(S))
    BY <1>3 DEF SetToSeq
<1>5. SetToSeq(S) \in Injection(1 .. n, S)  BY <1>4 DEF Injection
<1>6. IsFiniteSet(1 .. n) /\ Cardinality(1 .. n) = n  BY <1>1, FS_Interval
<1>7. SetToSeq(S) \in Surjection(1 .. n, S)  BY <1>5, <1>6, FS_Injection
<1>8. \A x \in S : \E i \in 1 .. n : SetToSeq(S)[i] = x  BY <1>7 DEF Surjection
<1>9. SetToSeq(S) \in Seq(S)  BY <1>1, <1>4
<1> QED BY <1>4, <1>8, <1>9 DEF ToSet

\* A row is added, or a field of one is written, and the rest is as it was.
LEMMA Added ==
    ASSUME deadline \in Seq(Entries), NEW e \in Entries, deadline' = Append(deadline, e)
    PROVE  /\ deadline' \in Seq(Entries)
           /\ \E n \in Nat : /\ n \notin DOMAIN deadline /\ DOMAIN deadline' = DOMAIN deadline \cup {n}
                             /\ deadline'[n] = e
           /\ \A m \in DOMAIN deadline : m \in DOMAIN deadline' /\ deadline'[m] = deadline[m]
<1>1. /\ deadline' \in Seq(Entries) /\ Len(deadline') = Len(deadline) + 1
      /\ \A i \in 1 .. Len(deadline) : deadline'[i] = deadline[i]
      /\ deadline'[Len(deadline) + 1] = e
    BY AppendProperties
<1>2. Len(deadline) \in Nat /\ DOMAIN deadline = 1 .. Len(deadline)
      /\ DOMAIN deadline' = 1 .. Len(deadline) + 1
    BY <1>1
<1>3. DOMAIN deadline' = DOMAIN deadline \cup {Len(deadline) + 1} /\ Len(deadline) + 1 \notin DOMAIN deadline
    BY <1>2
<1> QED BY <1>1, <1>2, <1>3

LEMMA Written ==
    ASSUME deadline \in Seq(Entries), NEW n \in DOMAIN deadline, NEW e \in Entries,
           deadline' = [deadline EXCEPT ![n] = e]
    PROVE  /\ deadline' \in Seq(Entries) /\ DOMAIN deadline' = DOMAIN deadline
           /\ deadline'[n] = e /\ \A m \in DOMAIN deadline \ {n} : deadline'[m] = deadline[m]
<1>1. DOMAIN deadline = 1 .. Len(deadline)  OBVIOUS
<1>2. deadline' \in Seq(Entries)  BY <1>1, ExceptSeq
<1> QED BY <1>2

-----------------------------------------------------------------------------
(* What a step leaves as it was *)

RowsKeep ==
    \A n \in DOMAIN deadline :
        /\ n \in DOMAIN deadline'
        /\ deadline'[n].of = deadline[n].of /\ deadline'[n].kind = deadline[n].kind
        /\ deadline'[n].item = deadline[n].item
TablesKeep ==
    /\ RowsKeep /\ raced \subseteq raced'
    /\ \A t \in Leases : lease[t].there => lease'[t].there
    /\ \A i \in Items : item[i] # "absent" => item'[i] # "absent"
SameRows(t) == \A n \in DOMAIN deadline' : deadline'[n].of = t =>
                    n \in DOMAIN deadline /\ deadline'[n] = deadline[n]
Calm(t) == \A i \in Items : LeaseOf[i] = t =>
                item'[i] = item[i] \/ (item[i] = "SCHEDULED" /\ item'[i] \in {"RECEIVED", "CANCELLED"})
Elsewhere(p) == \A q \in Writers \ {p} : step'[q] = step[q] /\ edit'[q] = edit[q]

LEMMA HandKept ==
    ASSUME TablesKeep, NEW q \in Writers, HasInHand(q), step'[q] = step[q], edit'[q] = edit[q]
    PROVE  HasInHand(q)'
<1> DEFINE w == edit[q]
<1>1. DOMAIN deadline \subseteq DOMAIN deadline'
    BY DEF TablesKeep, RowsKeep
<1>2. \A s : s \in Seq(DOMAIN deadline) => s \in Seq(DOMAIN deadline')
    BY <1>1, SeqMonotonic
<1>3. /\ step[q] \in {"idle", "settle"} => w.lease = None
      /\ step[q] = "settle" => /\ w.found \in DOMAIN deadline' /\ deadline'[w.found].of = None
    BY DEF HasInHand, TablesKeep, RowsKeep
<1>4. step[q] \in Working => w.lease \in Leases /\ lease'[w.lease].there
    BY DEF HasInHand, TablesKeep
<1>5. step[q] \in Listing =>
            /\ w.live \subseteq Items /\ w.todo \in Seq(Derived)
            /\ \A i \in w.live : LeaseOf[i] = w.lease /\ item'[i] # "absent"
            /\ \A d \in ToSet(w.todo) :
                    IF d.kind = "CHEQUE_DUE" THEN \E i \in w.live : d = Cheque(i) ELSE d.item = None
    BY DEF HasInHand, TablesKeep
<1>6. step[q] = "upsert" =>
            /\ w.todo # <<>>
            /\ w.found # None => /\ w.found \in DOMAIN deadline'
                                 /\ deadline'[w.found].of = w.lease
                                 /\ deadline'[w.found].kind = Head(w.todo).kind
                                 /\ deadline'[w.found].item = Head(w.todo).item
    BY DEF HasInHand, TablesKeep, RowsKeep
<1>7. step[q] = "cancel" =>
            /\ w.live \subseteq Items /\ w.todo \in Seq(DOMAIN deadline')
            /\ \A i \in w.live : LeaseOf[i] = w.lease
            /\ \A n \in ToSet(w.todo) : /\ deadline'[n].of = w.lease /\ deadline'[n].item # None
                                        /\ deadline'[n].item \notin w.live
  <2> SUFFICES ASSUME step[q] = "cancel"
               PROVE  /\ w.live \subseteq Items /\ w.todo \in Seq(DOMAIN deadline')
                      /\ \A i \in w.live : LeaseOf[i] = w.lease
                      /\ \A n \in ToSet(w.todo) : /\ deadline'[n].of = w.lease /\ deadline'[n].item # None
                                        /\ deadline'[n].item \notin w.live
      OBVIOUS
  <2>1. /\ w.live \subseteq Items /\ w.todo \in Seq(DOMAIN deadline)
        /\ \A i \in w.live : LeaseOf[i] = w.lease
        /\ \A n \in ToSet(w.todo) : /\ deadline[n].of = w.lease /\ deadline[n].item # None
                                    /\ deadline[n].item \notin w.live
      BY DEF HasInHand
  <2>2. ToSet(w.todo) \subseteq DOMAIN deadline
      BY <2>1 DEF ToSet
  <2> QED BY <1>2, <2>1, <2>2 DEF TablesKeep, RowsKeep
<1> QED BY <1>3, <1>4, <1>5, <1>6, <1>7 DEF HasInHand

\* What a step does to other tenancies leaves them orderly.
LEMMA OrderlyKept ==
    ASSUME DeadlinesAssumption, Tables, RowsSound, TablesKeep, NEW t \in Leases, Orderly(t),
           \A q \in Writers : HasInHand(q),
           lease'[t] = lease[t], Calm(t), SameRows(t),
           \A q \in Writers : (q \in At(t)' <=> q \in At(t))
                              /\ (q \in At(t) => step'[q] = step[q] /\ edit'[q] = edit[q])
    PROVE  Orderly(t)'
<1>1. At(t)' = At(t)
    BY DEF At
<1>2. \A n : n \in DOMAIN deadline' /\ deadline'[n].of = t <=> n \in DOMAIN deadline /\ deadline[n].of = t
    BY DEF SameRows, TablesKeep, RowsKeep
<1>3. \A n \in DOMAIN deadline : deadline[n].of = t => n \in DOMAIN deadline' /\ deadline'[n] = deadline[n]
    BY DEF SameRows, TablesKeep, RowsKeep
<1>4. \A n : IsOpen(n, t)' <=> IsOpen(n, t)
    BY <1>2, <1>3 DEF IsOpen
<1>5. \A d : Filled(t, d)' <=> Filled(t, d)
    BY <1>2, <1>3 DEF IsOpen, Filled, Answers
<1>6. \A live : Calls(t, live)' = Calls(t, live)
    BY DEF Calls
<1>7. ActiveItems(t)' \subseteq ActiveItems(t)
    BY DEF ActiveItems, Calm
<1>8. GateKept(t)' <=> GateKept(t)
    BY DEF GateKept
<1>9. \A i \in Items : LeaseOf[i] = t =>
        /\ item[i] \notin Alive => item'[i] \notin Alive
        /\ item[i] \in Alive \cup {"CANCELLED"} => item'[i] \in Alive \cup {"CANCELLED"}
    BY DEF Calm, Alive
<1>10. \A n \in DOMAIN deadline : deadline[n].of = t /\ deadline[n].item # None =>
            deadline[n].item \in Items /\ LeaseOf[deadline[n].item] = t
  <2>1. \A n \in DOMAIN deadline : deadline[n] \in Entries  BY DEF Tables
  <2> QED BY <2>1 DEF RowsSound, DeadlinesAssumption, Entries
<1>11. (\A p, q \in At(t) : p = q)' /\ OneRowEach(t)'
    BY <1>1, <1>2, <1>3 DEF Orderly, OneRowEach
<1>12. \A n \in DOMAIN deadline' : deadline'[n].of = t /\ deadline'[n].status # "OPEN" =>
            lease'[t].archived \/ (deadline'[n].item # None /\ item'[deadline'[n].item] \notin Alive)
    BY <1>2, <1>3, <1>9, <1>10 DEF Orderly
<1>13. ASSUME NEW p \in At(t), step[p] # "regenerate"
       PROVE  Under(p, t)'
  <2>1. Under(p, t) /\ step'[p] = step[p] /\ edit'[p] = edit[p] /\ p \in Writers
      BY <1>13 DEF Orderly, At
  <2>2. PICK w : w = edit[p]  OBVIOUS
  <2>3. step[p] \in Listing \cup {"cancel"} /\ w.lease = t
      BY <1>13, <2>1, <2>2, DeadlinesAssumption DEF At, Tables, Working, HasInHand, DeadlinesAssumption
  <2>4. ~lease'[t].archived /\ w.gate = NoticeGate(lease'[t].end, lease'[t].period)
      BY <2>1, <2>2 DEF Under
  <2>5. ActiveItems(t)' \subseteq w.live  BY <1>7, <2>1, <2>2 DEF Under
  <2>6. \A i \in w.live : item'[i] \in Alive \cup {"CANCELLED"}
    <3>1. w.live \subseteq Items  BY <2>1, <2>2, <2>3 DEF HasInHand
    <3>2. \A i \in w.live : item[i] \in Alive \cup {"CANCELLED"}  BY <2>1, <2>2 DEF Under
    <3>3. \A i \in Items : item[i] \in Alive \cup {"CANCELLED"} =>
             item'[i] \in Alive \cup {"CANCELLED"} \/ LeaseOf[i] # t
        BY <1>9
    <3>4. \A i \in w.live : LeaseOf[i] = t
        BY <2>1, <2>2, <2>3 DEF HasInHand
    <3> QED BY <3>1, <3>2, <3>3, <3>4
  <2>7. \A n \in DOMAIN deadline' : deadline'[n].of = t /\ deadline'[n].status # "OPEN" =>
                deadline'[n].item # None /\ deadline'[n].item \notin w.live
      BY <1>2, <1>3, <2>1, <2>2 DEF Under
  <2>8. step[p] # "cancel" => ToSet(w.todo) \subseteq Calls(t, w.live)'
      BY <1>6, <2>1, <2>2 DEF Under
  <2>9. \A d \in Calls(t, w.live)' : Filled(t, d)' \/ (step[p] # "cancel" /\ d \in ToSet(w.todo))
      BY <1>5, <1>6, <2>1, <2>2 DEF Under
  <2>10. step[p] \in {"find", "upsert"} =>
                GateKept(t)' \/ \E d \in ToSet(w.todo) : d.kind = "RENEWAL_DATE"
      BY <1>8, <2>1, <2>2 DEF Under
  <2>11. step[p] = "upsert" /\ w.found = None =>
                \A n \in DOMAIN deadline' : deadline'[n].of = t =>
                    deadline'[n].kind # Head(w.todo).kind \/ deadline'[n].item # Head(w.todo).item
      BY <1>2, <1>3, <2>1, <2>2 DEF Under
  <2>12. step[p] = "cancel" =>
                /\ GateKept(t)'
                /\ \A n \in DOMAIN deadline' : IsOpen(n, t)' =>
                        deadline'[n].item \in w.live \cup {None} \/ n \in ToSet(w.todo)
      BY <1>2, <1>3, <1>4, <1>8, <2>1, <2>2 DEF Under, IsOpen
  <2> QED BY <2>1, <2>2, <2>4, <2>5, <2>6, <2>7, <2>8, <2>9, <2>10, <2>11, <2>12 DEF Under
<1>14. ASSUME At(t) = {}, lease[t].there PROVE Follows(t)'
  <2>1. Follows(t)  BY <1>14 DEF Orderly
  <2>2. Calls(t, ActiveItems(t))' \subseteq Calls(t, ActiveItems(t))
      BY <1>7 DEF Calls
  <2>3. \A n \in DOMAIN deadline' : IsOpen(n, t)' /\ deadline'[n].item # None =>
                item'[deadline'[n].item] \in Alive \cup {"CANCELLED"} \/ lease[t].archived
    <3> SUFFICES ASSUME NEW n \in DOMAIN deadline', IsOpen(n, t)', deadline'[n].item # None,
                        ~lease[t].archived
                 PROVE  item'[deadline'[n].item] \in Alive \cup {"CANCELLED"}
        OBVIOUS
    <3>1. n \in DOMAIN deadline /\ deadline[n].of = t /\ deadline'[n] = deadline[n] /\ IsOpen(n, t)
        BY <1>2, <1>3, <1>4 DEF IsOpen
    <3> QED BY <1>9, <1>10, <2>1, <3>1 DEF Follows
  <2>4. lease'[t].archived => \A n \in DOMAIN deadline' : ~IsOpen(n, t)'
      BY <1>4, <2>1 DEF Follows, IsOpen
  <2>5. ~lease'[t].archived => GateKept(t)' /\ \A d \in Calls(t, ActiveItems(t))' : Filled(t, d)'
      BY <1>5, <1>8, <2>1, <2>2 DEF Follows
  <2> QED BY <2>3, <2>4, <2>5 DEF Follows
<1> QED BY <1>1, <1>11, <1>12, <1>13, <1>14 DEF Orderly, At

\* A step of the requests ps that is about the tenancy s alone.
LEMMA StepOf ==
    ASSUME DeadlinesAssumption, DeadlineInv, NEW ps \in SUBSET Writers, NEW s,
           Tables', RowsSound', TablesKeep,
           \A q \in Writers \ ps : step'[q] = step[q] /\ edit'[q] = edit[q],
           \A p \in ps : HasInHand(p)',
           \A t \in Leases \ {s} : /\ lease'[t] = lease[t] /\ Calm(t) /\ SameRows(t)
                                   /\ \A p \in ps : p \notin At(t) /\ p \notin At(t)',
           s \in Leases \ raced' => Orderly(s)'
    PROVE  DeadlineInv' /\ RowsKeep
<1>0. Tables /\ RowsSound /\ (\A q \in Writers : HasInHand(q)) /\ \A t \in Leases \ raced : Orderly(t)
    BY DEF DeadlineInv
<1>1. \A q \in Writers : HasInHand(q)'
    BY <1>0, HandKept
<1>2. ASSUME NEW t \in Leases \ raced', t # s PROVE Orderly(t)'
  <2>1. Orderly(t)  BY <1>0 DEF TablesKeep
  <2>2. \A q \in Writers : (q \in At(t)' <=> q \in At(t))
                           /\ (q \in At(t) => step'[q] = step[q] /\ edit'[q] = edit[q])
    <3> SUFFICES ASSUME NEW q \in Writers
                 PROVE  (q \in At(t)' <=> q \in At(t))
                        /\ (q \in At(t) => step'[q] = step[q] /\ edit'[q] = edit[q])
        OBVIOUS
    <3>1. CASE q \in ps  BY <1>2, <3>1
    <3>2. CASE q \notin ps  BY <3>2 DEF At
    <3> QED BY <3>1, <3>2
  <2>3. lease'[t] = lease[t] /\ Calm(t) /\ SameRows(t)  BY <1>2
  <2> QED BY <1>0, <2>1, <2>2, <2>3, OrderlyKept
<1>3. \A t \in Leases \ raced' : Orderly(t)'
    BY <1>2
<1> QED BY <1>1, <1>3 DEF DeadlineInv, TablesKeep

\* A step of one request, about one tenancy or none.
LEMMA StepOfOne ==
    ASSUME DeadlinesAssumption, DeadlineInv, NEW p \in Writers, NEW s,
           Tables', RowsSound', TablesKeep, Elsewhere(p), HasInHand(p)',
           \A t \in Leases \ {s} : /\ lease'[t] = lease[t] /\ Calm(t) /\ SameRows(t)
                                   /\ p \notin At(t) /\ p \notin At(t)',
           s \in Leases \ raced' => Orderly(s)'
    PROVE  DeadlineInv' /\ RowsKeep
<1> DEFINE ps == {p}
<1>1. ps \in SUBSET Writers /\ (\A q \in Writers \ ps : step'[q] = step[q] /\ edit'[q] = edit[q])
    BY DEF Elsewhere
<1>2. \A q \in ps : HasInHand(q)'
  <2>1. \A q \in ps : q = p  OBVIOUS
  <2> QED BY <2>1
<1>3. \A t \in Leases \ {s} : /\ lease'[t] = lease[t] /\ Calm(t) /\ SameRows(t)
                              /\ \A q \in ps : q \notin At(t) /\ q \notin At(t)'
    OBVIOUS
<1> HIDE DEF ps
<1> QED BY <1>1, <1>2, <1>3, StepOf

\* What a step that keeps the rows, the tenancies or the items leaves of them.
LEMMA Unmoved ==
    /\ UNCHANGED deadline => RowsKeep /\ \A t : SameRows(t)
    /\ UNCHANGED item => \A t : Calm(t)
    /\ UNCHANGED <<lease, item, deadline, raced>> => TablesKeep
    /\ UNCHANGED <<lease, item, deadline, raced>> /\ RowsSound => RowsSound'
BY DEF RowsKeep, SameRows, Calm, TablesKeep, RowsSound

LEMMA Edited ==
    ASSUME Tables, NEW p \in Writers, NEW w, DOMAIN w = EditFields, edit' = [edit EXCEPT ![p] = w],
           NEW to \in {"idle", "settle"} \cup Working, step' = [step EXCEPT ![p] = to]
    PROVE  /\ edit'[p] = w /\ step'[p] = to /\ Elsewhere(p)
           /\ step' \in [Writers -> {"idle", "settle"} \cup Working]
           /\ DOMAIN edit' = Writers /\ \A q \in Writers : DOMAIN edit'[q] = EditFields
BY DEF Tables, Elsewhere

-----------------------------------------------------------------------------
(* Each step *)

\* A write of a tenancy or of its schedule.
BeginMove(p, t) ==
    /\ Begin(p, t)
    /\ \A u \in Leases \ {t} : lease'[u] = lease[u]
    /\ lease'[t].there /\ (lease[t].archived => lease'[t].archived)
    /\ \A i \in Items : /\ LeaseOf[i] # t => item'[i] = item[i]
                        /\ item[i] # "absent" => item'[i] # "absent" /\ (item'[i] \in Alive => item[i] \in Alive)

LEMMA LeaseWrites ==
    ASSUME DeadlinesAssumption, DeadlineInv, NEW p \in Writers, NEW t \in Leases, WriteLease(p, t)
    PROVE  BeginMove(p, t) /\ Tables'
<1>1. Tables  BY DEF DeadlineInv
<1>2. PICK w : w = [Unread EXCEPT !.lease = t]  OBVIOUS
<1>3. DOMAIN w = EditFields  BY <1>2 DEF Unread, EditFields
<1>4. Begin(p, t)
    BY Zenon DEF WriteLease, CreateTenancy, UpdateTenancy, ArchiveTenancy, SetPaymentSchedule
<1>5. /\ edit' = [edit EXCEPT ![p] = w] /\ step' = [step EXCEPT ![p] = "regenerate"]
      /\ deadline' = deadline /\ (raced' = raced \/ raced' = raced \cup {t})
    BY <1>2, <1>4 DEF Begin, To
<1>6. /\ step' \in [Writers -> {"idle", "settle"} \cup Working] /\ DOMAIN edit' = Writers
      /\ \A q \in Writers : DOMAIN edit'[q] = EditFields
    BY <1>1, <1>3, <1>5, Edited DEF Working
<1>7. deadline' \in Seq(Entries) /\ raced' \subseteq Leases
    BY <1>1, <1>5 DEF Tables
<1> DEFINE Leased == /\ DOMAIN lease' = Leases
                     /\ \A u \in Leases \ {t} : lease'[u] = lease[u]
                     /\ DOMAIN lease'[t] = LeaseFields
                     /\ lease'[t].there = TRUE /\ lease'[t].archived \in BOOLEAN
                     /\ lease'[t].end \in Ends /\ lease'[t].period \in Periods
                     /\ lease[t].archived => lease'[t].archived
           Itemed == /\ item' \in [Items -> ItemStatus]
                     /\ \A i \in Items : /\ LeaseOf[i] # t => item'[i] = item[i]
                                         /\ item[i] # "absent" => /\ item'[i] # "absent"
                                                                  /\ item'[i] \in Alive => item[i] \in Alive
<1>8. DOMAIN lease = Leases /\ DOMAIN lease[t] = LeaseFields /\ lease[t].archived \in BOOLEAN
      /\ lease[t].there \in BOOLEAN /\ (lease[t].there => lease[t].end \in Ends /\ lease[t].period \in Periods)
    BY <1>1 DEF Tables
<1>9. item' = item => Itemed
    BY <1>1 DEF Tables
<1>10. CASE CreateTenancy(p, t)
  <2>1. PICK end \in Ends, period \in Periods :
            lease' = [lease EXCEPT ![t].there = TRUE, ![t].end = end, ![t].period = period]
      BY <1>10, Zenon DEF CreateTenancy
  <2>2. Leased  BY <1>8, <2>1 DEF LeaseFields
  <2>3. Itemed  BY <1>9, <1>10 DEF CreateTenancy
  <2> QED BY <1>1, <1>4, <1>6, <1>7, <2>2, <2>3 DEF Tables, BeginMove
<1>11. CASE UpdateTenancy(p, t)
  <2>1. PICK end \in Ends, period \in Periods :
            lease' = [lease EXCEPT ![t].end = end, ![t].period = period]
      BY <1>11 DEF UpdateTenancy
  <2>2. Leased  BY <1>8, <1>11, <2>1 DEF LeaseFields, UpdateTenancy
  <2>3. Itemed  BY <1>9, <1>11 DEF UpdateTenancy
  <2> QED BY <1>1, <1>4, <1>6, <1>7, <2>2, <2>3 DEF Tables, BeginMove
<1>12. CASE ArchiveTenancy(p, t)
  <2>2. Leased  BY <1>8, <1>12 DEF LeaseFields, ArchiveTenancy
  <2>3. Itemed  BY <1>9, <1>12 DEF ArchiveTenancy
  <2> QED BY <1>1, <1>4, <1>6, <1>7, <2>2, <2>3 DEF Tables, BeginMove
<1>13. CASE SetPaymentSchedule(p, t)
  <2>1. lease' = lease /\ lease[t].there  BY <1>13 DEF SetPaymentSchedule
  <2>2. Leased  BY <1>8, <2>1
  <2>3. PICK new \in SUBSET {i \in Items : LeaseOf[i] = t /\ item[i] = "absent"} :
            item' = [i \in Items |-> IF i \in new THEN "SCHEDULED"
                                     ELSE IF LeaseOf[i] = t /\ item[i] = "SCHEDULED" THEN "deleted"
                                     ELSE item[i]]
    <3> DEFINE kept == {i \in Items : LeaseOf[i] = t /\ item[i] \in {"RECEIVED", "CANCELLED"}}
               fresh == {i \in Items : /\ LeaseOf[i] = t /\ item[i] = "absent"
                                       /\ \A j \in kept : SeqNo[j] # SeqNo[i]}
    <3>1. \E new \in SUBSET fresh :
            item' = [i \in Items |-> IF i \in new THEN "SCHEDULED"
                                     ELSE IF LeaseOf[i] = t /\ item[i] = "SCHEDULED" THEN "deleted"
                                     ELSE item[i]]
        BY <1>13, Zenon DEF SetPaymentSchedule
    <3>2. fresh \subseteq {i \in Items : LeaseOf[i] = t /\ item[i] = "absent"}
        OBVIOUS
    <3> HIDE DEF fresh
    <3> QED BY <3>1, <3>2
  <2>4. \A i \in new : i \in Items /\ LeaseOf[i] = t /\ item[i] = "absent"
      BY <2>3
  <2>5. \A i \in Items : item'[i] = IF i \in new THEN "SCHEDULED"
                                    ELSE IF LeaseOf[i] = t /\ item[i] = "SCHEDULED" THEN "deleted"
                                    ELSE item[i]
      BY <2>3
  <2>6. Itemed
    <3>1. item \in [Items -> ItemStatus]  BY <1>1 DEF Tables
    <3>2. \A i \in Items : item'[i] \in ItemStatus  BY <2>5, <3>1 DEF ItemStatus
    <3>3. item' \in [Items -> ItemStatus]  BY <2>3, <3>2
    <3>4. \A i \in Items : /\ LeaseOf[i] # t => item'[i] = item[i]
                           /\ item[i] # "absent" => /\ item'[i] # "absent"
                                                    /\ item'[i] \in Alive => item[i] \in Alive
        BY <2>4, <2>5 DEF Alive
    <3> QED BY <3>3, <3>4
  <2> QED BY <1>1, <1>4, <1>6, <1>7, <2>2, <2>6 DEF Tables, BeginMove
<1> QED BY <1>10, <1>11, <1>12, <1>13 DEF WriteLease

LEMMA LeaseWritten ==
    ASSUME DeadlinesAssumption, DeadlineInv, NEW p \in Writers, NEW t \in Leases, WriteLease(p, t)
    PROVE  DeadlineInv' /\ RowsKeep
<1>0. Tables /\ RowsSound /\ (\A q \in Writers : HasInHand(q)) /\ \A u \in Leases \ raced : Orderly(u)
    BY DEF DeadlineInv
<1>1. BeginMove(p, t) /\ Tables'  BY LeaseWrites
<1>2. /\ edit'[p].lease = t /\ step[p] = "idle" /\ step'[p] = "regenerate"
      /\ \A q \in Writers \ {p} : step'[q] = step[q] /\ edit'[q] = edit[q]
      /\ UNCHANGED deadline /\ raced \subseteq raced'
      /\ t \notin raced' => \A q \in Writers \ {p} : q \notin At(t)
    BY <1>0, <1>1 DEF BeginMove, Begin, To, At, Unread, Tables
<1>3. /\ \A u \in Leases \ {t} : lease'[u] = lease[u]
      /\ lease'[t].there /\ (lease[t].archived => lease'[t].archived)
      /\ \A i \in Items : /\ LeaseOf[i] # t => item'[i] = item[i]
                          /\ item[i] # "absent" => /\ item'[i] # "absent"
                                                   /\ item'[i] \in Alive => item[i] \in Alive
    BY <1>1 DEF BeginMove
<1>4. \A n \in DOMAIN deadline : deadline[n].of \in Leases \cup {None} /\ deadline[n].item \in Items \cup {None}
  <2>1. \A n \in DOMAIN deadline : deadline[n] \in Entries  BY <1>0 DEF Tables
  <2> QED BY <2>1 DEF Entries
<1>5. RowsSound'  BY <1>0, <1>2, <1>3, <1>4 DEF RowsSound
<1>6. TablesKeep  BY <1>2, <1>3, Unmoved DEF TablesKeep
<1>7. HasInHand(p)'  BY <1>2, <1>3 DEF HasInHand, Working, Listing
<1>8. \A u \in Leases \ {t} : /\ lease'[u] = lease[u] /\ Calm(u) /\ SameRows(u)
                              /\ p \notin At(u) /\ p \notin At(u)'
    BY <1>2, <1>3, Unmoved DEF Calm, At
<1>9. ASSUME t \notin raced' PROVE Orderly(t)'
  <2>1. Orderly(t)  BY <1>0, <1>2, <1>9
  <2>2. At(t)' = {p}  BY <1>2, <1>9 DEF At
  <2>3. OneRowEach(t)'  BY <1>2, <2>1 DEF Orderly, OneRowEach
  <2>4. \A n \in DOMAIN deadline' : deadline'[n].of = t /\ deadline'[n].status # "OPEN" =>
            lease'[t].archived \/ (deadline'[n].item # None /\ item'[deadline'[n].item] \notin Alive)
      BY <1>0, <1>2, <1>3, <1>4, <2>1 DEF Orderly, RowsSound
  <2> QED BY <1>2, <2>2, <2>3, <2>4 DEF Orderly
<1> QED BY <1>0, <1>1, <1>2, <1>5, <1>6, <1>7, <1>8, <1>9, StepOfOne DEF Elsewhere

LEMMA PaymentMoved ==
    ASSUME DeadlinesAssumption, DeadlineInv, NEW i \in Items, TransitionPayment(i)
    PROVE  DeadlineInv' /\ RowsKeep
<1>0. Tables /\ RowsSound  BY DEF DeadlineInv
<1>1. /\ item[i] = "SCHEDULED" /\ UNCHANGED <<lease, deadline, step, edit, raced>>
      /\ item' \in [Items -> ItemStatus]
      /\ \A j \in Items : item'[j] = item[j]
                          \/ (item[j] = "SCHEDULED" /\ item'[j] \in {"RECEIVED", "CANCELLED"})
    BY <1>0 DEF TransitionPayment, Tables, ItemStatus
<1>2. Tables'  BY <1>0, <1>1 DEF Tables
<1>3. \A n \in DOMAIN deadline : deadline[n].item \in Items \cup {None}
  <2>1. \A n \in DOMAIN deadline : deadline[n] \in Entries  BY <1>0 DEF Tables
  <2> QED BY <2>1 DEF Entries
<1>4. RowsSound'
  <2>1. \A j \in Items : item[j] # "absent" => item'[j] # "absent"  BY <1>1
  <2> QED BY <1>0, <1>1, <1>3, <2>1 DEF RowsSound
<1>5. TablesKeep  BY <1>1, Unmoved DEF TablesKeep
<1>6. \A u \in Leases \ {None} : lease'[u] = lease[u] /\ Calm(u) /\ SameRows(u)
    BY <1>1, Unmoved DEF Calm
<1>7. None \notin Leases  BY DEF DeadlinesAssumption
<1> DEFINE ps == {}
<1>8. ps \in SUBSET Writers /\ (\A q \in Writers \ ps : step'[q] = step[q] /\ edit'[q] = edit[q])
    BY <1>1
<1>9. \A p \in ps : FALSE  OBVIOUS
<1> HIDE DEF ps
<1> QED BY <1>2, <1>4, <1>5, <1>6, <1>7, <1>8, <1>9, StepOf

\* The calendar.
LEMMA EntryMade ==
    ASSUME DeadlinesAssumption, DeadlineInv, NEW kind \in ManualKinds, NEW due \in Ends,
           CreateManualDeadline(kind, due)
    PROVE  DeadlineInv' /\ RowsKeep
<1>0. Tables /\ RowsSound  BY DEF DeadlineInv
<1>1. PICK e : e = [of |-> None, kind |-> kind, item |-> None, due |-> due,
                    status |-> "OPEN", manual |-> TRUE]
    OBVIOUS
<1>2. e \in Entries /\ e.of = None /\ e.manual
    BY <1>1 DEF Entries, DeadlinesAssumption
<1>3. deadline' = Append(deadline, e) /\ UNCHANGED <<lease, item, step, edit, raced>>
    BY <1>1 DEF CreateManualDeadline
<1>4. deadline \in Seq(Entries)  BY <1>0 DEF Tables
<1>5. deadline' \in Seq(Entries)  BY <1>2, <1>3, <1>4, Added
<1>6. PICK n \in Nat : /\ n \notin DOMAIN deadline /\ DOMAIN deadline' = DOMAIN deadline \cup {n}
                       /\ deadline'[n] = e
    BY <1>2, <1>3, <1>4, Added
<1>7. \A m \in DOMAIN deadline : m \in DOMAIN deadline' /\ deadline'[m] = deadline[m]
    BY <1>2, <1>3, <1>4, Added
<1>8. Tables'  BY <1>0, <1>3, <1>5 DEF Tables
<1>9. RowsSound'
  <2>1. \A m \in DOMAIN deadline' : m = n \/ (m \in DOMAIN deadline /\ deadline'[m] = deadline[m])
      BY <1>6, <1>7
  <2> QED BY <1>0, <1>2, <1>3, <1>6, <2>1 DEF RowsSound
<1>10. TablesKeep  BY <1>3, <1>7 DEF TablesKeep, RowsKeep
<1>11. None \notin Leases  BY DEF DeadlinesAssumption
<1>12. \A u \in Leases \ {None} : lease'[u] = lease[u] /\ Calm(u) /\ SameRows(u)
    BY <1>2, <1>3, <1>6, <1>7, <1>11 DEF Calm, SameRows
<1> DEFINE ps == {}
<1>13. ps \in SUBSET Writers /\ (\A q \in Writers \ ps : step'[q] = step[q] /\ edit'[q] = edit[q])
    BY <1>3
<1>14. \A p \in ps : FALSE  OBVIOUS
<1> HIDE DEF ps
<1> QED BY <1>8, <1>9, <1>10, <1>11, <1>12, <1>13, <1>14, StepOf

LEMMA EntryRead ==
    ASSUME DeadlinesAssumption, DeadlineInv, NEW p \in Writers, NEW n \in DOMAIN deadline, ReadEntry(p, n)
    PROVE  DeadlineInv' /\ RowsKeep
<1>0. Tables /\ RowsSound /\ HasInHand(p)  BY DEF DeadlineInv
<1>1. PICK w : w = [edit[p] EXCEPT !.found = n]  OBVIOUS
<1>2. DOMAIN edit[p] = EditFields /\ edit[p].lease = None
    BY <1>0 DEF Tables, HasInHand, ReadEntry, To
<1>3. DOMAIN w = EditFields /\ w.found = n /\ w.lease = None  BY <1>1, <1>2 DEF EditFields
<1>4. edit' = [edit EXCEPT ![p] = w] /\ step' = [step EXCEPT ![p] = "settle"] /\ step[p] = "idle"
      /\ UNCHANGED <<lease, item, deadline, raced>> /\ deadline[n].manual
    BY <1>1 DEF ReadEntry, To, IsManualDeadline
<1>5. /\ edit'[p] = w /\ step'[p] = "settle" /\ Elsewhere(p)
      /\ step' \in [Writers -> {"idle", "settle"} \cup Working]
      /\ DOMAIN edit' = Writers /\ \A q \in Writers : DOMAIN edit'[q] = EditFields
    BY <1>0, <1>3, <1>4, Edited
<1>6. Tables'  BY <1>0, <1>4, <1>5 DEF Tables
<1>7. RowsSound' /\ TablesKeep /\ \A u : SameRows(u) /\ Calm(u)  BY <1>0, <1>4, Unmoved
<1>8. deadline[n].of = None  BY <1>0, <1>4 DEF RowsSound
<1>9. HasInHand(p)'
  <2>1. "settle" \notin Working  BY DEF Working, Listing
  <2> QED BY <1>3, <1>4, <1>5, <1>8, <2>1 DEF HasInHand, Working, Listing
<1>10. None \notin Leases  BY DEF DeadlinesAssumption
<1>11. \A u \in Leases \ {None} : /\ lease'[u] = lease[u] /\ Calm(u) /\ SameRows(u)
                                  /\ p \notin At(u) /\ p \notin At(u)'
    BY <1>2, <1>3, <1>4, <1>5, <1>7, <1>10 DEF At
<1> QED BY <1>5, <1>6, <1>7, <1>9, <1>10, <1>11, StepOfOne

-----------------------------------------------------------------------------
(* A regeneration *)

LEMMA Called ==
    ASSUME DeadlinesAssumption, NEW t \in Leases, lease[t].end \in Ends, lease[t].period \in Periods,
           NEW live \in SUBSET Items
    PROVE  LET todo == Term(lease[t].end, lease[t].period) \o Cheques(live)
           IN  todo \in Seq(Derived) /\ ToSet(todo) = Calls(t, live)
<1> DEFINE term == Term(lease[t].end, lease[t].period)
           cheques == {Cheque(i) : i \in live}
<1>1. lease[t].end \in Int /\ lease[t].period \in Nat  BY DEF DeadlinesAssumption
<1>2. term \in Seq(Derived)
    BY <1>1 DEF Term, NoticeGate, ContractExpiry, RenewalDate, Derived, TermKinds
<1>3. IsFiniteSet(cheques)
  <2>1. IsFiniteSet(live)  BY FS_Subset DEF DeadlinesAssumption
  <2> DEFINE f == [i \in live |-> Cheque(i)]
  <2>2. f \in Surjection(live, cheques)  BY Fun_IsSurj
  <2> QED BY <2>1, <2>2, FS_Surjection
<1>4. Cheques(live) = SetToSeq(cheques)  BY DEF Cheques, Cheque, ChequeDue
<1>5. Cheques(live) \in Seq(cheques) /\ ToSet(Cheques(live)) = cheques  BY <1>3, <1>4, Listed
<1>6. cheques \subseteq Derived  BY DEF Cheque, Derived, DeadlinesAssumption
<1>7. Cheques(live) \in Seq(Derived)  BY <1>5, <1>6, SeqMonotonic
<1> QED BY <1>2, <1>5, <1>7, Joined DEF Calls

LEMMA CallsKeyed ==
    ASSUME DeadlinesAssumption, NEW t, NEW live \in SUBSET Items
    PROVE  /\ \A d \in Calls(t, live) : IF d.kind = "CHEQUE_DUE" THEN \E i \in live : d = Cheque(i)
                                        ELSE d.item = None
           /\ \A d \in Calls(t, live) : d.item = None \/ d.item \in live
           /\ \A d, e \in Calls(t, live) : d.kind = e.kind /\ d.item = e.item => d = e
           /\ \E d \in Calls(t, live) : d.kind = "RENEWAL_DATE"
           /\ \E d \in Calls(t, live) : d.kind = "NOTICE_GATE"
                                        /\ d.due = NoticeGate(lease[t].end, lease[t].period)
           /\ \A d \in Calls(t, live) : d.kind = "NOTICE_GATE" =>
                                        d.due = NoticeGate(lease[t].end, lease[t].period)
<1> DEFINE gate == [kind |-> "NOTICE_GATE", item |-> None, due |-> NoticeGate(lease[t].end, lease[t].period)]
           over == [kind |-> "CONTRACT_EXPIRY", item |-> None, due |-> ContractExpiry(lease[t].end)]
           next == [kind |-> "RENEWAL_DATE", item |-> None, due |-> RenewalDate(lease[t].end)]
           term == <<gate, over, next>>
<1>1. Term(lease[t].end, lease[t].period) = term  BY DEF Term
<1>2. /\ gate.kind = "NOTICE_GATE" /\ over.kind = "CONTRACT_EXPIRY" /\ next.kind = "RENEWAL_DATE"
      /\ gate.item = None /\ over.item = None /\ next.item = None
      /\ gate.due = NoticeGate(lease[t].end, lease[t].period)
    OBVIOUS
<1> HIDE DEF gate, over, next
<1>3. ToSet(term) = {gate, over, next}
  <2>1. DOMAIN term = {1, 2, 3}  OBVIOUS
  <2> QED BY <2>1 DEF ToSet
<1>4. Calls(t, live) = {gate, over, next} \cup {Cheque(i) : i \in live}  BY <1>1, <1>3 DEF Calls
<1>5. \A i \in live : Cheque(i).kind = "CHEQUE_DUE" /\ Cheque(i).item = i  BY DEF Cheque
<1>6. \A d \in Calls(t, live) : d = gate \/ d = over \/ d = next \/ \E i \in live : d = Cheque(i)
    BY <1>4
<1>7. None \notin live  BY DEF DeadlinesAssumption
<1> HIDE DEF term
<1>8. \A d \in Calls(t, live) : d.kind = "CHEQUE_DUE" \/ d.item = None  BY <1>2, <1>5, <1>6
<1>9. \A d \in Calls(t, live) : d.kind = "CHEQUE_DUE" => \E i \in live : d = Cheque(i)
    BY <1>2, <1>6
<1>10. \A d, e \in Calls(t, live) : d.kind = e.kind /\ d.item = e.item => d = e
    BY <1>2, <1>5, <1>6
<1>11. gate \in Calls(t, live) /\ next \in Calls(t, live)  BY <1>4
<1>12. \A d \in Calls(t, live) : d.kind = "NOTICE_GATE" => d = gate  BY <1>2, <1>5, <1>6
<1>13. \A d \in Calls(t, live) : d.item = None \/ d.item \in live  BY <1>5, <1>8, <1>9
<1>14. \A d \in Calls(t, live) : IF d.kind = "CHEQUE_DUE" THEN \E i \in live : d = Cheque(i)
                                 ELSE d.item = None
    BY <1>8, <1>9
<1> QED BY <1>2, <1>10, <1>11, <1>12, <1>13, <1>14

Closed(t) ==
    \A n \in DOMAIN deadline : deadline[n].of = t /\ deadline[n].status # "OPEN" =>
        lease[t].archived \/ (deadline[n].item # None /\ item[deadline[n].item] \notin Alive)

\* What a step of a regeneration finds.
LEMMA Found ==
    ASSUME DeadlinesAssumption, DeadlineInv, NEW p \in Writers, step[p] \in Working, NEW t, t = edit[p].lease
    PROVE  /\ Tables /\ RowsSound /\ HasInHand(p)
           /\ t \in Leases /\ lease[t].there /\ lease[t].end \in Ends /\ lease[t].period \in Periods
           /\ DOMAIN edit[p] = EditFields /\ DOMAIN lease[t] = LeaseFields
           /\ \A n \in DOMAIN deadline : deadline[n] \in Entries
           /\ t \notin raced =>
                /\ At(t) = {p} /\ OneRowEach(t) /\ Closed(t)
                /\ step[p] # "regenerate" => Under(p, t)
<1>1. Tables /\ RowsSound /\ HasInHand(p)  BY DEF DeadlineInv
<1>2. t \in Leases /\ lease[t].there  BY <1>1 DEF HasInHand
<1>3. /\ lease[t].end \in Ends /\ lease[t].period \in Periods
      /\ DOMAIN edit[p] = EditFields /\ DOMAIN lease[t] = LeaseFields
    BY <1>1, <1>2 DEF Tables
<1>4. \A n \in DOMAIN deadline : deadline[n] \in Entries  BY <1>1 DEF Tables
<1>5. ASSUME t \notin raced
      PROVE  /\ At(t) = {p} /\ OneRowEach(t) /\ Closed(t)
             /\ step[p] # "regenerate" => Under(p, t)
  <2>1. Orderly(t)  BY <1>2, <1>5 DEF DeadlineInv
  <2>2. p \in At(t)  BY DEF At, Working, Listing
  <2>3. \A q \in At(t) : q = p  BY <2>1, <2>2 DEF Orderly
  <2> QED BY <2>1, <2>2, <2>3 DEF Orderly, Closed
<1> QED BY <1>1, <1>2, <1>3, <1>4, <1>5

\* What such a step has to leave.
LEMMA Regenerating ==
    ASSUME DeadlinesAssumption, DeadlineInv, NEW p \in Writers, step[p] \in Working, NEW t, t = edit[p].lease,
           UNCHANGED <<item, raced>>, Elsewhere(p), Tables', RowsSound', RowsKeep, HasInHand(p)',
           \A u \in Leases \ {t} : lease'[u] = lease[u] /\ SameRows(u),
           lease'[t].there,
           step'[p] \in {"idle", "cancel"} \cup Listing, step'[p] # "idle" => edit'[p].lease = t,
           t \notin raced => /\ OneRowEach(t)' /\ Closed(t)'
                             /\ IF step'[p] = "idle" THEN Follows(t)' ELSE Under(p, t)'
    PROVE  DeadlineInv' /\ RowsKeep
<1>1. /\ t \in Leases /\ t \notin raced => At(t) = {p}  BY Found
<1>2. TablesKeep  BY DEF TablesKeep
<1>3. None \notin Leases  BY DEF DeadlinesAssumption
<1>4. \A u \in Leases \ {t} : /\ lease'[u] = lease[u] /\ Calm(u) /\ SameRows(u)
                              /\ p \notin At(u) /\ p \notin At(u)'
    BY DEF Calm, At
<1>5. ASSUME t \in Leases \ raced' PROVE Orderly(t)'
  <2>1. t \notin raced /\ At(t) = {p}  BY <1>1, <1>5
  <2>2. \A q \in Writers \ {p} : q \notin At(t)'  BY <2>1 DEF At, Elsewhere
  <2>3. OneRowEach(t)' /\ Closed(t)'  BY <2>1
  <2>4. CASE step'[p] = "idle"
    <3>1. At(t)' = {}  BY <2>2, <2>4 DEF At
    <3> QED BY <2>1, <2>3, <2>4, <3>1 DEF Orderly, Closed
  <2>5. CASE step'[p] # "idle"
    <3>1. At(t)' = {p}  BY <2>2, <2>5 DEF At
    <3> QED BY <2>1, <2>3, <2>5, <3>1 DEF Orderly, Closed
  <2> QED BY <2>4, <2>5
<1> QED BY <1>2, <1>4, <1>5, StepOfOne

LEMMA RegenerateKeeps ==
    ASSUME DeadlinesAssumption, DeadlineInv, NEW p \in Writers, Regenerate(p)
    PROVE  DeadlineInv' /\ RowsKeep
<1>1. PICK t : t = edit[p].lease  OBVIOUS
<1>2. PICK live : live = ActiveItems(t)  OBVIOUS
<1>3. PICK todo : todo = Term(lease[t].end, lease[t].period) \o Cheques(live)  OBVIOUS
<1>4. PICK w : w = [edit[p] EXCEPT !.todo = todo, !.live = live,
                                   !.gate = NoticeGate(lease[t].end, lease[t].period)]
    OBVIOUS
<1>5. /\ step[p] = "regenerate" /\ step' = [step EXCEPT ![p] = "find"] /\ ~lease[t].archived
      /\ UNCHANGED <<lease, item, deadline, raced>>
    BY <1>1, Zenon DEF Regenerate, To, IsArchived
<1>6. edit' = [edit EXCEPT ![p].todo = todo, ![p].live = live,
                           ![p].gate = NoticeGate(lease[t].end, lease[t].period)]
    BY <1>1, <1>2, <1>3, Zenon DEF Regenerate
<1>7. edit' = [edit EXCEPT ![p] = w]  BY <1>4, <1>6
<1>8. step[p] \in Working  BY <1>5 DEF Working
<1>9. /\ Tables /\ RowsSound
      /\ t \in Leases /\ lease[t].there /\ lease[t].end \in Ends /\ lease[t].period \in Periods
      /\ DOMAIN edit[p] = EditFields /\ (t \notin raced => At(t) = {p} /\ OneRowEach(t) /\ Closed(t))
    BY <1>1, <1>8, Found
<1>10. DOMAIN w = EditFields /\ w.todo = todo /\ w.live = live /\ w.lease = t
       /\ w.gate = NoticeGate(lease[t].end, lease[t].period)
    BY <1>1, <1>4, <1>9 DEF EditFields
<1>11. /\ edit'[p] = w /\ step'[p] = "find" /\ Elsewhere(p)
       /\ step' \in [Writers -> {"idle", "settle"} \cup Working]
       /\ DOMAIN edit' = Writers /\ \A q \in Writers : DOMAIN edit'[q] = EditFields
    BY <1>5, <1>7, <1>9, <1>10, Edited DEF Working, Listing
<1>12. Tables' /\ RowsSound' /\ RowsKeep /\ \A u : SameRows(u)
    BY <1>5, <1>9, <1>11, Unmoved DEF Tables
<1>13. live \in SUBSET Items /\ \A i \in live : LeaseOf[i] = t /\ item[i] \in Alive
    BY <1>2 DEF ActiveItems, Alive
<1>14. todo \in Seq(Derived) /\ ToSet(todo) = Calls(t, live)
    BY <1>3, <1>9, <1>13, Called
<1>15. HasInHand(p)'
  <2>1. \A d \in ToSet(todo) : IF d.kind = "CHEQUE_DUE" THEN \E i \in live : d = Cheque(i)
                               ELSE d.item = None
      BY <1>13, <1>14, CallsKeyed
  <2>2. \A i \in live : LeaseOf[i] = t /\ item[i] # "absent"  BY <1>13 DEF Alive
  <2> QED BY <1>5, <1>9, <1>10, <1>11, <1>13, <1>14, <2>1, <2>2 DEF HasInHand, Listing
<1>16. ASSUME t \notin raced PROVE OneRowEach(t)' /\ Closed(t)' /\ Under(p, t)'
  <2>1. OneRowEach(t)' /\ Closed(t)'  BY <1>5, <1>9, <1>16 DEF OneRowEach, Closed
  <2>2. \A n \in DOMAIN deadline : deadline[n].of = t /\ deadline[n].status # "OPEN" =>
            deadline[n].item # None /\ deadline[n].item \notin live
      BY <1>5, <1>9, <1>13, <1>16 DEF Closed
  <2>3. \E d \in ToSet(todo) : d.kind = "RENEWAL_DATE"  BY <1>13, <1>14, CallsKeyed
  <2>4. Calls(t, live)' = Calls(t, live) /\ ActiveItems(t)' = live
      BY <1>2, <1>5 DEF Calls, ActiveItems
  <2>5. \A i \in live : item'[i] \in Alive  BY <1>5, <1>13
  <2> QED BY <1>5, <1>10, <1>11, <1>14, <2>1, <2>2, <2>3, <2>4, <2>5 DEF Under
<1>17. /\ \A u \in Leases \ {t} : lease'[u] = lease[u] /\ SameRows(u)
       /\ lease'[t].there
       /\ step'[p] \in {"idle", "cancel"} \cup Listing /\ (step'[p] # "idle" => edit'[p].lease = t)
    BY <1>5, <1>9, <1>10, <1>11, <1>12 DEF Listing
<1>18. UNCHANGED <<item, raced>>  BY <1>5
<1>19. t \notin raced => /\ OneRowEach(t)' /\ Closed(t)'
                         /\ IF step'[p] = "idle" THEN Follows(t)' ELSE Under(p, t)'
    BY <1>11, <1>16
<1> QED BY <1>1, <1>8, <1>11, <1>12, <1>15, <1>17, <1>18, <1>19, Regenerating

LEMMA CancelAllKeeps ==
    ASSUME DeadlinesAssumption, DeadlineInv, NEW p \in Writers, CancelAll(p)
    PROVE  DeadlineInv' /\ RowsKeep
<1>1. PICK t : t = edit[p].lease  OBVIOUS
<1>2. /\ step[p] = "regenerate" /\ step' = [step EXCEPT ![p] = "idle"] /\ lease[t].archived
      /\ edit' = [edit EXCEPT ![p] = Unread] /\ UNCHANGED <<lease, item, raced>>
      /\ deadline' = [n \in DOMAIN deadline |->
                IF deadline[n].of = t /\ deadline[n].status = "OPEN"
                THEN [deadline[n] EXCEPT !.status = "CANCELLED"] ELSE deadline[n]]
    BY <1>1, Zenon DEF CancelAll, To, IsArchived
<1>3. step[p] \in Working  BY <1>2 DEF Working
<1>4. /\ Tables /\ RowsSound /\ t \in Leases /\ lease[t].there
      /\ \A n \in DOMAIN deadline : deadline[n] \in Entries
      /\ t \notin raced => OneRowEach(t) /\ Closed(t)
    BY <1>1, <1>3, Found
<1>5. DOMAIN Unread = EditFields /\ Unread.lease = None  BY DEF Unread, EditFields
<1>6. /\ edit'[p] = Unread /\ step'[p] = "idle" /\ Elsewhere(p)
      /\ step' \in [Writers -> {"idle", "settle"} \cup Working]
      /\ DOMAIN edit' = Writers /\ \A q \in Writers : DOMAIN edit'[q] = EditFields
    BY <1>2, <1>4, <1>5, Edited
<1>7. DOMAIN deadline' = DOMAIN deadline /\ deadline \in Seq(Entries)
    BY <1>2, <1>4 DEF Tables
<1>8. \A n \in DOMAIN deadline :
        /\ deadline'[n] \in Entries
        /\ deadline'[n].of = deadline[n].of /\ deadline'[n].kind = deadline[n].kind
        /\ deadline'[n].item = deadline[n].item /\ deadline'[n].due = deadline[n].due
        /\ deadline'[n].manual = deadline[n].manual
        /\ deadline'[n].status = IF deadline[n].of = t /\ deadline[n].status = "OPEN" THEN "CANCELLED"
                                 ELSE deadline[n].status
        /\ deadline[n].of # t => deadline'[n] = deadline[n]
  <2> TAKE n \in DOMAIN deadline
  <2>1. deadline[n] \in Entries  BY <1>4
  <2>2. deadline'[n] = IF deadline[n].of = t /\ deadline[n].status = "OPEN"
                THEN [deadline[n] EXCEPT !.status = "CANCELLED"] ELSE deadline[n]
      BY <1>2
  <2> QED BY <2>1, <2>2 DEF Entries
<1>9. deadline' \in Seq(Entries)
  <2>1. DOMAIN deadline = 1 .. Len(deadline) /\ Len(deadline) \in Nat  BY <1>7
  <2>2. deadline' \in [1 .. Len(deadline) -> Entries]  BY <1>2, <1>8, <2>1
  <2> QED BY <2>1, <2>2
<1>10. Tables'  BY <1>2, <1>4, <1>6, <1>9 DEF Tables
<1>11. RowsSound'  BY <1>2, <1>4, <1>7, <1>8 DEF RowsSound
<1>12. RowsKeep /\ \A u \in Leases \ {t} : SameRows(u)
    BY <1>7, <1>8 DEF RowsKeep, SameRows
<1>13. HasInHand(p)'
  <2>1. "idle" \notin Working /\ "idle" \notin Listing  BY DEF Working, Listing
  <2> QED BY <1>5, <1>6, <2>1 DEF HasInHand
<1>14. ASSUME t \notin raced PROVE OneRowEach(t)' /\ Closed(t)' /\ Follows(t)'
    BY <1>2, <1>4, <1>7, <1>8, <1>14 DEF OneRowEach, Closed, Follows, IsOpen
<1>15. UNCHANGED <<item, raced>> /\ lease'[t].there /\ \A u \in Leases \ {t} : lease'[u] = lease[u]
    BY <1>2, <1>4
<1> QED BY <1>1, <1>3, <1>6, <1>10, <1>11, <1>12, <1>13, <1>14, <1>15, Regenerating

LEMMA RegeneratedKeeps ==
    ASSUME DeadlinesAssumption, DeadlineInv, NEW p \in Writers, Regenerated(p)
    PROVE  DeadlineInv' /\ RowsKeep
<1>1. PICK t : t = edit[p].lease  OBVIOUS
<1>2. /\ step[p] = "cancel" /\ step' = [step EXCEPT ![p] = "idle"] /\ edit[p].todo = <<>>
      /\ edit' = [edit EXCEPT ![p] = Unread] /\ UNCHANGED <<lease, item, deadline, raced>>
    BY DEF Regenerated, To
<1>3. step[p] \in Working  BY <1>2 DEF Working
<1>4. /\ Tables /\ RowsSound /\ HasInHand(p) /\ t \in Leases /\ lease[t].there
      /\ \A n \in DOMAIN deadline : deadline[n] \in Entries
      /\ t \notin raced => OneRowEach(t) /\ Closed(t) /\ Under(p, t)
    BY <1>1, <1>2, <1>3, Found
<1>5. DOMAIN Unread = EditFields /\ Unread.lease = None  BY DEF Unread, EditFields
<1>6. /\ edit'[p] = Unread /\ step'[p] = "idle" /\ Elsewhere(p)
      /\ step' \in [Writers -> {"idle", "settle"} \cup Working]
      /\ DOMAIN edit' = Writers /\ \A q \in Writers : DOMAIN edit'[q] = EditFields
    BY <1>2, <1>4, <1>5, Edited
<1>7. Tables' /\ RowsSound' /\ RowsKeep /\ \A u : SameRows(u)
    BY <1>2, <1>4, <1>6, Unmoved DEF Tables
<1>8. HasInHand(p)'
  <2>1. "idle" \notin Working /\ "idle" \notin Listing  BY DEF Working, Listing
  <2> QED BY <1>5, <1>6, <2>1 DEF HasInHand
<1>9. ASSUME t \notin raced PROVE OneRowEach(t)' /\ Closed(t)' /\ Follows(t)'
  <2>1. OneRowEach(t)' /\ Closed(t)'  BY <1>2, <1>4, <1>9 DEF OneRowEach, Closed
  <2>2. PICK live : live = edit[p].live  OBVIOUS
  <2>3. /\ ~lease[t].archived /\ ActiveItems(t) \subseteq live /\ GateKept(t)
        /\ \A i \in live : item[i] \in Alive \cup {"CANCELLED"}
        /\ \A d \in Calls(t, live) : Filled(t, d)
      BY <1>2, <1>4, <1>9, <2>2 DEF Under
  <2>4. \A n \in DOMAIN deadline : IsOpen(n, t) => deadline[n].item \in live \cup {None}
    <3>1. ToSet(edit[p].todo) = {}  BY <1>2 DEF ToSet
    <3> QED BY <1>2, <1>4, <1>9, <2>2, <3>1 DEF Under
  <2>5. \A d \in Calls(t, ActiveItems(t)) : d \in Calls(t, live)  BY <2>3 DEF Calls
  <2>6. Follows(t)  BY <2>3, <2>4, <2>5 DEF Follows
  <2>7. Calls(t, ActiveItems(t))' = Calls(t, ActiveItems(t)) /\ (GateKept(t)' <=> GateKept(t))
      BY <1>2 DEF Calls, ActiveItems, GateKept
  <2>8. (\A d : Filled(t, d)' <=> Filled(t, d)) /\ \A n : IsOpen(n, t)' <=> IsOpen(n, t)
      BY <1>2 DEF Filled, IsOpen, Answers
  <2>9. Follows(t)'  BY <1>2, <2>6, <2>7, <2>8 DEF Follows
  <2> QED BY <2>1, <2>9
<1>10. UNCHANGED <<item, raced>> /\ lease'[t].there /\ \A u \in Leases \ {t} : lease'[u] = lease[u]
    BY <1>2, <1>4
<1> QED BY <1>1, <1>3, <1>6, <1>7, <1>8, <1>9, <1>10, Regenerating

LEMMA FindKeeps ==
    ASSUME DeadlinesAssumption, DeadlineInv, NEW p \in Writers, FindExisting(p)
    PROVE  DeadlineInv' /\ RowsKeep
<1>1. PICK t : t = edit[p].lease  OBVIOUS
<1>2. PICK d : d = Head(edit[p].todo)  OBVIOUS
<1>3. PICK open : open = {n \in DOMAIN deadline : Same(n, t, d)}  OBVIOUS
<1>4. /\ step[p] = "find" /\ step' = [step EXCEPT ![p] = "upsert"] /\ edit[p].todo # <<>>
      /\ UNCHANGED <<lease, item, deadline, raced>>
    BY Zenon DEF FindExisting, To
<1>5. PICK found \in (IF open = {} THEN {None} ELSE open) : edit' = [edit EXCEPT ![p].found = found]
    BY <1>1, <1>2, <1>3, Zenon DEF FindExisting
<1>6. PICK w : w = [edit[p] EXCEPT !.found = found]  OBVIOUS
<1>7. edit' = [edit EXCEPT ![p] = w]  BY <1>5, <1>6
<1>8. step[p] \in Working /\ step[p] \in Listing  BY <1>4 DEF Working, Listing
<1>9. /\ Tables /\ RowsSound /\ HasInHand(p) /\ t \in Leases /\ lease[t].there
      /\ DOMAIN edit[p] = EditFields
      /\ \A n \in DOMAIN deadline : deadline[n] \in Entries
      /\ t \notin raced => OneRowEach(t) /\ Closed(t) /\ Under(p, t)
    BY <1>1, <1>4, <1>8, Found
<1>10. /\ DOMAIN w = EditFields /\ w.todo = edit[p].todo /\ w.live = edit[p].live /\ w.lease = t
       /\ w.gate = edit[p].gate /\ w.found = found
    BY <1>1, <1>6, <1>9 DEF EditFields
<1>11. /\ edit'[p] = w /\ step'[p] = "upsert" /\ Elsewhere(p)
       /\ step' \in [Writers -> {"idle", "settle"} \cup Working]
       /\ DOMAIN edit' = Writers /\ \A q \in Writers : DOMAIN edit'[q] = EditFields
    BY <1>4, <1>7, <1>9, <1>10, Edited DEF Working, Listing
<1>12. Tables' /\ RowsSound' /\ RowsKeep /\ \A u : SameRows(u)
    BY <1>4, <1>9, <1>11, Unmoved DEF Tables
<1>13. /\ w.live \subseteq Items /\ w.todo \in Seq(Derived)
       /\ \A i \in w.live : LeaseOf[i] = t /\ item[i] # "absent"
       /\ \A e \in ToSet(w.todo) :
                IF e.kind = "CHEQUE_DUE" THEN \E i \in w.live : e = Cheque(i) ELSE e.item = None
    BY <1>1, <1>8, <1>9, <1>10 DEF HasInHand
<1>14. d \in Derived /\ d \in ToSet(w.todo)  BY <1>2, <1>4, <1>10, <1>13, Taken
<1>15. d.kind = "CHEQUE_DUE" => d.item # None
    BY <1>13, <1>14 DEF Cheque, DeadlinesAssumption
<1>16. found # None => /\ found \in DOMAIN deadline /\ deadline[found].of = t
                       /\ deadline[found].kind = d.kind /\ deadline[found].item = d.item
  <2> SUFFICES ASSUME found # None
               PROVE  /\ found \in DOMAIN deadline /\ deadline[found].of = t
                      /\ deadline[found].kind = d.kind /\ deadline[found].item = d.item
      OBVIOUS
  <2>1. found \in open  BY <1>5
  <2>2. /\ found \in DOMAIN deadline /\ deadline[found].of = t /\ deadline[found].kind = d.kind
        /\ d.item # None => deadline[found].item = d.item
      BY <1>3, <2>1 DEF Same
  <2>3. CASE d.item # None  BY <2>2, <2>3
  <2>4. CASE d.item = None
    <3>1. t # None  BY <1>9 DEF DeadlinesAssumption
    <3>2. deadline[found].kind # "CHEQUE_DUE"  BY <1>15, <2>2, <2>4
    <3>3. deadline[found].item = None  BY <1>9, <2>2, <3>1, <3>2 DEF RowsSound
    <3> QED BY <2>2, <2>4, <3>3
  <2> QED BY <2>3, <2>4
<1>17. HasInHand(p)'
    BY <1>2, <1>4, <1>9, <1>10, <1>11, <1>13, <1>16 DEF HasInHand, Listing
<1>18. ASSUME t \notin raced PROVE OneRowEach(t)' /\ Closed(t)' /\ Under(p, t)'
  <2>1. OneRowEach(t)' /\ Closed(t)'  BY <1>4, <1>9, <1>18 DEF OneRowEach, Closed
  <2>2. Under(p, t)  BY <1>9, <1>18
  <2>3. Calls(t, w.live)' = Calls(t, w.live) /\ ActiveItems(t)' = ActiveItems(t)
        /\ (GateKept(t)' <=> GateKept(t))
      BY <1>4, <1>11 DEF Calls, ActiveItems, GateKept
  <2>4. \A e : Filled(t, e)' <=> Filled(t, e)
      BY <1>4 DEF Filled, IsOpen, Answers
  <2>5. d \in Calls(t, w.live)  BY <1>4, <1>10, <1>14, <2>2 DEF Under
  <2>6. d.item = None \/ d.item \in w.live  BY <1>13, <2>5, CallsKeyed
  <2>7. ASSUME found = None, NEW n \in DOMAIN deadline, deadline[n].of = t
        PROVE  deadline[n].kind # d.kind \/ deadline[n].item # d.item
    <3>0. n # None
      <4>1. n \in Nat  BY <1>9 DEF Tables
      <4> QED BY <4>1 DEF DeadlinesAssumption
    <3>1. open = {}
      <4>1. \A m \in open : m # None
        <5>1. \A m \in DOMAIN deadline : m \in Nat  BY <1>9 DEF Tables
        <5> QED BY <1>3, <5>1 DEF DeadlinesAssumption
      <4> QED BY <1>5, <2>7, <4>1
    <3>2. ~Same(n, t, d)  BY <1>3, <3>1
    <3>3. deadline[n].status # "OPEN" => deadline[n].item # None /\ deadline[n].item \notin w.live
        BY <1>10, <2>2, <2>7 DEF Under
    <3> QED BY <2>6, <2>7, <3>2, <3>3 DEF Same
  <2>8. /\ ~lease[t].archived /\ w.gate = NoticeGate(lease[t].end, lease[t].period)
        /\ ActiveItems(t) \subseteq w.live
        /\ \A i \in w.live : item[i] \in Alive \cup {"CANCELLED"}
        /\ \A n \in DOMAIN deadline : deadline[n].of = t /\ deadline[n].status # "OPEN" =>
                deadline[n].item # None /\ deadline[n].item \notin w.live
        /\ ToSet(w.todo) \subseteq Calls(t, w.live)
        /\ \A e \in Calls(t, w.live) : Filled(t, e) \/ e \in ToSet(w.todo)
        /\ GateKept(t) \/ \E e \in ToSet(w.todo) : e.kind = "RENEWAL_DATE"
      BY <1>4, <1>10, <2>2 DEF Under
  <2>9. w.found = None => \A n \in DOMAIN deadline' : deadline'[n].of = t =>
                    deadline'[n].kind # Head(w.todo).kind \/ deadline'[n].item # Head(w.todo).item
      BY <1>2, <1>4, <1>10, <2>7
  <2> QED BY <1>4, <1>11, <2>1, <2>3, <2>4, <2>8, <2>9 DEF Under
<1>19. /\ \A u \in Leases \ {t} : lease'[u] = lease[u] /\ SameRows(u)
       /\ lease'[t].there
       /\ step'[p] \in {"idle", "cancel"} \cup Listing /\ (step'[p] # "idle" => edit'[p].lease = t)
       /\ UNCHANGED <<item, raced>>
    BY <1>4, <1>9, <1>10, <1>11, <1>12 DEF Listing
<1>20. t \notin raced => /\ OneRowEach(t)' /\ Closed(t)'
                         /\ IF step'[p] = "idle" THEN Follows(t)' ELSE Under(p, t)'
    BY <1>11, <1>18
<1> QED BY <1>1, <1>8, <1>11, <1>12, <1>17, <1>19, <1>20, Regenerating

LEMMA CacheKeeps ==
    ASSUME DeadlinesAssumption, DeadlineInv, NEW p \in Writers, CacheGate(p)
    PROVE  DeadlineInv' /\ RowsKeep
<1>1. PICK t : t = edit[p].lease  OBVIOUS
<1>2. PICK w : w = edit[p]  OBVIOUS
<1>3. /\ step[p] = "cache" /\ step' = [step EXCEPT ![p] = "find"]
      /\ lease' = [lease EXCEPT ![t].gate = w.gate] /\ UNCHANGED <<item, deadline, edit, raced>>
    BY <1>1, <1>2 DEF CacheGate, To
<1>4. step[p] \in Working /\ step[p] \in Listing  BY <1>3 DEF Working, Listing
<1>5. /\ Tables /\ RowsSound /\ HasInHand(p) /\ t \in Leases /\ lease[t].there
      /\ DOMAIN lease[t] = LeaseFields
      /\ t \notin raced => OneRowEach(t) /\ Closed(t) /\ Under(p, t)
    BY <1>1, <1>3, <1>4, Found
<1>6. /\ DOMAIN lease' = Leases /\ DOMAIN lease'[t] = LeaseFields /\ lease'[t].gate = w.gate
      /\ lease'[t].there = lease[t].there /\ lease'[t].archived = lease[t].archived
      /\ lease'[t].end = lease[t].end /\ lease'[t].period = lease[t].period
      /\ \A u \in Leases \ {t} : lease'[u] = lease[u]
    BY <1>3, <1>5 DEF Tables, LeaseFields
<1>7. step'[p] = "find" /\ Elsewhere(p) /\ step' \in [Writers -> {"idle", "settle"} \cup Working]
    BY <1>3, <1>5 DEF Tables, Elsewhere, Working, Listing
<1>8. \A u \in Leases : /\ DOMAIN lease'[u] = LeaseFields
                        /\ lease'[u].there \in BOOLEAN /\ lease'[u].archived \in BOOLEAN
                        /\ lease'[u].there = lease[u].there
                        /\ lease'[u].there => lease'[u].end \in Ends /\ lease'[u].period \in Periods
    BY <1>5, <1>6 DEF Tables
<1>9. Tables'  BY <1>3, <1>5, <1>6, <1>7, <1>8 DEF Tables
<1>10. RowsSound'
  <2>1. \A n \in DOMAIN deadline : deadline[n].of \in Leases \cup {None}
    <3>1. \A n \in DOMAIN deadline : deadline[n] \in Entries  BY <1>5 DEF Tables
    <3> QED BY <3>1 DEF Entries
  <2> QED BY <1>3, <1>5, <1>8, <2>1 DEF RowsSound
<1>11. RowsKeep /\ \A u : SameRows(u)  BY <1>3, Unmoved
<1>12. HasInHand(p)'
    BY <1>1, <1>3, <1>4, <1>5, <1>6, <1>7 DEF HasInHand, Listing
<1>13. ASSUME t \notin raced PROVE OneRowEach(t)' /\ Closed(t)' /\ Under(p, t)'
  <2>1. OneRowEach(t)' /\ Closed(t)'  BY <1>3, <1>5, <1>6, <1>13 DEF OneRowEach, Closed
  <2>2. Under(p, t)  BY <1>3, <1>5, <1>13
  <2>3. Calls(t, w.live)' = Calls(t, w.live) /\ ActiveItems(t)' = ActiveItems(t)
      BY <1>3, <1>6 DEF Calls, ActiveItems
  <2>4. \A e : Filled(t, e)' <=> Filled(t, e)
      BY <1>3 DEF Filled, IsOpen, Answers
  <2>5. /\ ~lease[t].archived /\ w.gate = NoticeGate(lease[t].end, lease[t].period)
        /\ ActiveItems(t) \subseteq w.live
        /\ \A i \in w.live : item[i] \in Alive \cup {"CANCELLED"}
        /\ \A n \in DOMAIN deadline : deadline[n].of = t /\ deadline[n].status # "OPEN" =>
                deadline[n].item # None /\ deadline[n].item \notin w.live
        /\ ToSet(w.todo) \subseteq Calls(t, w.live)
        /\ \A e \in Calls(t, w.live) : Filled(t, e) \/ e \in ToSet(w.todo)
      BY <1>2, <1>3, <2>2 DEF Under
  <2>6. GateKept(t)'  BY <1>6, <2>5 DEF GateKept
  <2> QED BY <1>2, <1>3, <1>6, <1>7, <2>1, <2>3, <2>4, <2>5, <2>6 DEF Under
<1>14. /\ \A u \in Leases \ {t} : lease'[u] = lease[u] /\ SameRows(u)
       /\ lease'[t].there
       /\ step'[p] \in {"idle", "cancel"} \cup Listing /\ (step'[p] # "idle" => edit'[p].lease = t)
       /\ UNCHANGED <<item, raced>>
    BY <1>1, <1>3, <1>5, <1>6, <1>7, <1>11 DEF Listing
<1>15. t \notin raced => /\ OneRowEach(t)' /\ Closed(t)'
                         /\ IF step'[p] = "idle" THEN Follows(t)' ELSE Under(p, t)'
    BY <1>7, <1>13
<1> QED BY <1>1, <1>4, <1>7, <1>9, <1>10, <1>11, <1>12, <1>14, <1>15, Regenerating

LEMMA ReadVanishedKeeps ==
    ASSUME DeadlinesAssumption, DeadlineInv, NEW p \in Writers, ReadVanished(p)
    PROVE  DeadlineInv' /\ RowsKeep
<1>1. PICK t : t = edit[p].lease  OBVIOUS
<1>2. PICK live : live = edit[p].live  OBVIOUS
<1>3. PICK gone : gone = Vanished(t, live)  OBVIOUS
<1>4. PICK w : w = [edit[p] EXCEPT !.todo = SetToSeq(gone)]  OBVIOUS
<1>5. /\ step[p] = "find" /\ step' = [step EXCEPT ![p] = "cancel"] /\ edit[p].todo = <<>>
      /\ UNCHANGED <<lease, item, deadline, raced>>
    BY Zenon DEF ReadVanished, To
<1>6. edit' = [edit EXCEPT ![p].todo = SetToSeq(gone)]
    BY <1>1, <1>2, <1>3, Zenon DEF ReadVanished
<1>7. edit' = [edit EXCEPT ![p] = w]  BY <1>4, <1>6
<1>8. step[p] \in Working /\ step[p] \in Listing  BY <1>5 DEF Working, Listing
<1>9. /\ Tables /\ RowsSound /\ HasInHand(p) /\ t \in Leases /\ lease[t].there
      /\ DOMAIN edit[p] = EditFields
      /\ \A n \in DOMAIN deadline : deadline[n] \in Entries
      /\ t \notin raced => OneRowEach(t) /\ Closed(t) /\ Under(p, t)
    BY <1>1, <1>5, <1>8, Found
<1>10. /\ DOMAIN w = EditFields /\ w.todo = SetToSeq(gone) /\ w.live = live /\ w.lease = t
       /\ w.gate = edit[p].gate
    BY <1>1, <1>2, <1>4, <1>9 DEF EditFields
<1>11. /\ edit'[p] = w /\ step'[p] = "cancel" /\ Elsewhere(p)
       /\ step' \in [Writers -> {"idle", "settle"} \cup Working]
       /\ DOMAIN edit' = Writers /\ \A q \in Writers : DOMAIN edit'[q] = EditFields
    BY <1>5, <1>7, <1>9, <1>10, Edited DEF Working, Listing
<1>12. Tables' /\ RowsSound' /\ RowsKeep /\ \A u : SameRows(u)
    BY <1>5, <1>9, <1>11, Unmoved DEF Tables
<1>13. live \subseteq Items /\ \A i \in live : LeaseOf[i] = t
    BY <1>1, <1>2, <1>8, <1>9 DEF HasInHand
<1>14. /\ gone \subseteq DOMAIN deadline
       /\ \A n \in gone : /\ deadline[n].of = t /\ deadline[n].item # None /\ deadline[n].item \notin live
    BY <1>3 DEF Vanished
<1>15. IsFiniteSet(gone)
  <2>1. DOMAIN deadline = 1 .. Len(deadline) /\ Len(deadline) \in Nat  BY <1>9 DEF Tables
  <2>2. IsFiniteSet(DOMAIN deadline)  BY <2>1, FS_Interval
  <2> QED BY <1>14, <2>2, FS_Subset
<1>16. w.todo \in Seq(gone) /\ ToSet(w.todo) = gone  BY <1>10, <1>15, Listed
<1>17. w.todo \in Seq(DOMAIN deadline)  BY <1>14, <1>16, SeqMonotonic
<1>18. HasInHand(p)'
  <2>1. "cancel" \notin Listing  BY DEF Listing
  <2> QED BY <1>5, <1>9, <1>10, <1>11, <1>13, <1>14, <1>16, <1>17, <2>1 DEF HasInHand
<1>19. ASSUME t \notin raced PROVE OneRowEach(t)' /\ Closed(t)' /\ Under(p, t)'
  <2>1. OneRowEach(t)' /\ Closed(t)'  BY <1>5, <1>9, <1>19 DEF OneRowEach, Closed
  <2>2. Under(p, t)  BY <1>9, <1>19
  <2>3. Calls(t, live)' = Calls(t, live) /\ ActiveItems(t)' = ActiveItems(t)
        /\ (GateKept(t)' <=> GateKept(t))
      BY <1>5 DEF Calls, ActiveItems, GateKept
  <2>4. (\A e : Filled(t, e)' <=> Filled(t, e)) /\ \A n : IsOpen(n, t)' <=> IsOpen(n, t)
      BY <1>5 DEF Filled, IsOpen, Answers
  <2>5. ToSet(edit[p].todo) = {}  BY <1>5 DEF ToSet
  <2>6. /\ ~lease[t].archived /\ w.gate = NoticeGate(lease[t].end, lease[t].period)
        /\ ActiveItems(t) \subseteq live
        /\ \A i \in live : item[i] \in Alive \cup {"CANCELLED"}
        /\ \A n \in DOMAIN deadline : deadline[n].of = t /\ deadline[n].status # "OPEN" =>
                deadline[n].item # None /\ deadline[n].item \notin live
        /\ \A e \in Calls(t, live) : Filled(t, e)
        /\ GateKept(t)
      BY <1>2, <1>5, <1>10, <2>2, <2>5 DEF Under
  <2>7. ASSUME NEW n \in DOMAIN deadline, IsOpen(n, t), deadline[n].item \notin live \cup {None}
        PROVE  n \in gone
    <3>1. deadline[n].of = t /\ deadline[n].status = "OPEN" /\ t # None
        BY <1>9, <2>7 DEF IsOpen, DeadlinesAssumption
    <3>2. deadline[n].kind = "CHEQUE_DUE"  BY <1>9, <2>7, <3>1 DEF RowsSound
    <3> QED BY <1>3, <2>7, <3>1, <3>2 DEF Vanished
  <2> QED BY <1>5, <1>10, <1>11, <1>16, <2>1, <2>3, <2>4, <2>6, <2>7 DEF Under
<1>20. /\ \A u \in Leases \ {t} : lease'[u] = lease[u] /\ SameRows(u)
       /\ lease'[t].there
       /\ step'[p] \in {"idle", "cancel"} \cup Listing /\ (step'[p] # "idle" => edit'[p].lease = t)
       /\ UNCHANGED <<item, raced>>
    BY <1>5, <1>9, <1>10, <1>11, <1>12
<1>21. t \notin raced => /\ OneRowEach(t)' /\ Closed(t)'
                         /\ IF step'[p] = "idle" THEN Follows(t)' ELSE Under(p, t)'
    BY <1>11, <1>19
<1> QED BY <1>1, <1>8, <1>11, <1>12, <1>18, <1>20, <1>21, Regenerating

\* A row of a tenancy is rewritten, not its key.
LEMMA Rewritten ==
    ASSUME Tables, RowsSound, NEW n \in DOMAIN deadline, NEW e \in Entries,
           deadline' = [deadline EXCEPT ![n] = e], UNCHANGED <<lease, item>>,
           e.of = deadline[n].of, e.kind = deadline[n].kind, e.item = deadline[n].item,
           e.manual = deadline[n].manual,
           e.due = deadline[n].due \/ (e.item # None => e.due = DueOf[e.item])
    PROVE  /\ deadline' \in Seq(Entries) /\ DOMAIN deadline' = DOMAIN deadline
           /\ deadline'[n] = e /\ \A m \in DOMAIN deadline \ {n} : deadline'[m] = deadline[m]
           /\ RowsSound' /\ RowsKeep /\ \A u : u # e.of => SameRows(u)
           /\ \A u : OneRowEach(u) => OneRowEach(u)'
<1>1. deadline \in Seq(Entries)  BY DEF Tables
<1>2. /\ deadline' \in Seq(Entries) /\ DOMAIN deadline' = DOMAIN deadline
      /\ deadline'[n] = e /\ \A m \in DOMAIN deadline \ {n} : deadline'[m] = deadline[m]
    BY <1>1, Written
<1>3. \A m \in DOMAIN deadline :
        /\ deadline'[m].of = deadline[m].of /\ deadline'[m].kind = deadline[m].kind
        /\ deadline'[m].item = deadline[m].item /\ deadline'[m].manual = deadline[m].manual
        /\ deadline'[m].due = deadline[m].due
             \/ (deadline'[m].item # None => deadline'[m].due = DueOf[deadline'[m].item])
    BY <1>2
<1>4. RowsSound'  BY <1>2, <1>3 DEF RowsSound
<1>5. RowsKeep /\ (\A u : u # e.of => SameRows(u)) /\ \A u : OneRowEach(u) => OneRowEach(u)'
    BY <1>2, <1>3 DEF RowsKeep, SameRows, OneRowEach
<1> QED BY <1>2, <1>4, <1>5

LEMMA CancelVanishedKeeps ==
    ASSUME DeadlinesAssumption, DeadlineInv, NEW p \in Writers, CancelVanished(p)
    PROVE  DeadlineInv' /\ RowsKeep
<1>1. PICK t : t = edit[p].lease  OBVIOUS
<1>2. PICK n : n = Head(edit[p].todo)  OBVIOUS
<1>3. PICK w : w = [edit[p] EXCEPT !.todo = Tail(@)]  OBVIOUS
<1>4. PICK e : e = [deadline[n] EXCEPT !.status = "CANCELLED"]  OBVIOUS
<1>5. /\ step[p] = "cancel" /\ edit[p].todo # <<>> /\ UNCHANGED <<lease, item, step, raced>>
      /\ deadline' = [deadline EXCEPT ![n] = e] /\ edit' = [edit EXCEPT ![p] = w]
    BY <1>2, <1>3, <1>4 DEF CancelVanished
<1>6. step[p] \in Working  BY <1>5 DEF Working
<1>7. /\ Tables /\ RowsSound /\ HasInHand(p) /\ t \in Leases /\ lease[t].there
      /\ DOMAIN edit[p] = EditFields
      /\ \A m \in DOMAIN deadline : deadline[m] \in Entries
      /\ t \notin raced => OneRowEach(t) /\ Closed(t) /\ Under(p, t)
    BY <1>1, <1>5, <1>6, Found
<1>8. /\ DOMAIN w = EditFields /\ w.todo = Tail(edit[p].todo) /\ w.live = edit[p].live /\ w.lease = t
      /\ w.gate = edit[p].gate
    BY <1>1, <1>3, <1>7 DEF EditFields
<1>9. /\ edit[p].live \subseteq Items /\ edit[p].todo \in Seq(DOMAIN deadline)
      /\ \A i \in edit[p].live : LeaseOf[i] = t
      /\ \A m \in ToSet(edit[p].todo) : /\ deadline[m].of = t /\ deadline[m].item # None
                                        /\ deadline[m].item \notin edit[p].live
    BY <1>1, <1>5, <1>7 DEF HasInHand
<1>10. /\ n \in DOMAIN deadline /\ n \in ToSet(edit[p].todo) /\ w.todo \in Seq(DOMAIN deadline)
       /\ ToSet(w.todo) \subseteq ToSet(edit[p].todo)
       /\ \A m \in ToSet(edit[p].todo) : m = n \/ m \in ToSet(w.todo)
  <2>1. PICK rows, todo : rows = DOMAIN deadline /\ todo = edit[p].todo  OBVIOUS
  <2>2. todo \in Seq(rows) /\ todo # <<>>  BY <1>5, <1>9, <2>1
  <2>3. /\ Head(todo) \in rows /\ Tail(todo) \in Seq(rows)
        /\ Head(todo) \in ToSet(todo) /\ ToSet(Tail(todo)) \subseteq ToSet(todo)
        /\ \A x \in ToSet(todo) : x = Head(todo) \/ x \in ToSet(Tail(todo))
      BY <2>2, Taken
  <2> QED BY <1>2, <1>8, <2>1, <2>3
<1>11. deadline[n] \in Entries /\ deadline[n].of = t /\ deadline[n].item \in Items \ w.live
  <2>1. deadline[n] \in Entries  BY <1>7, <1>10
  <2>2. deadline[n].item \in Items \cup {None}  BY <2>1 DEF Entries
  <2> QED BY <1>8, <1>9, <1>10, <2>1, <2>2
<1>12. /\ e \in Entries /\ e.of = t /\ e.kind = deadline[n].kind /\ e.item = deadline[n].item
       /\ e.due = deadline[n].due /\ e.manual = deadline[n].manual /\ e.status = "CANCELLED"
    BY <1>4, <1>11 DEF Entries
<1>13. /\ deadline' \in Seq(Entries) /\ DOMAIN deadline' = DOMAIN deadline
       /\ deadline'[n] = e /\ \A m \in DOMAIN deadline \ {n} : deadline'[m] = deadline[m]
       /\ RowsSound' /\ RowsKeep /\ (\A u : u # t => SameRows(u))
       /\ \A u : OneRowEach(u) => OneRowEach(u)'
    BY <1>5, <1>7, <1>10, <1>11, <1>12, Rewritten
<1>14. /\ edit'[p] = w /\ step'[p] = "cancel" /\ Elsewhere(p)
       /\ DOMAIN edit' = Writers /\ \A q \in Writers : DOMAIN edit'[q] = EditFields
    BY <1>5, <1>7, <1>8 DEF Tables, Elsewhere
<1>15. Tables'  BY <1>5, <1>7, <1>13, <1>14 DEF Tables
<1>16. HasInHand(p)'
  <2>1. "cancel" \notin Listing  BY DEF Listing
  <2>2. \A m \in ToSet(w.todo) : /\ deadline'[m].of = t /\ deadline'[m].item # None
                                 /\ deadline'[m].item \notin w.live
    <3>1. ToSet(w.todo) \subseteq DOMAIN deadline  BY <1>10 DEF ToSet
    <3> QED BY <1>8, <1>9, <1>10, <1>13, <3>1 DEF RowsKeep
  <2> QED BY <1>5, <1>7, <1>8, <1>9, <1>10, <1>13, <1>14, <2>1, <2>2 DEF HasInHand
<1>17. ASSUME t \notin raced PROVE OneRowEach(t)' /\ Closed(t)' /\ Under(p, t)'
  <2>1. Under(p, t) /\ Closed(t)  BY <1>5, <1>7, <1>17
  <2>2. Calls(t, w.live)' = Calls(t, w.live) /\ ActiveItems(t)' = ActiveItems(t)
        /\ (GateKept(t)' <=> GateKept(t))
      BY <1>5 DEF Calls, ActiveItems, GateKept
  <2>3. /\ ~lease[t].archived /\ w.gate = NoticeGate(lease[t].end, lease[t].period)
        /\ ActiveItems(t) \subseteq w.live
        /\ \A i \in w.live : item[i] \in Alive \cup {"CANCELLED"}
        /\ \A m \in DOMAIN deadline : deadline[m].of = t /\ deadline[m].status # "OPEN" =>
                deadline[m].item # None /\ deadline[m].item \notin w.live
        /\ \A d \in Calls(t, w.live) : Filled(t, d)
        /\ GateKept(t)
        /\ \A m \in DOMAIN deadline : IsOpen(m, t) =>
                deadline[m].item \in w.live \cup {None} \/ m \in ToSet(edit[p].todo)
      BY <1>5, <1>8, <2>1 DEF Under
  <2>4. item[deadline[n].item] \notin Alive
    <3>1. LeaseOf[deadline[n].item] = t
        BY <1>7, <1>9, <1>10, <1>11 DEF RowsSound, DeadlinesAssumption
    <3> QED BY <1>11, <2>3, <3>1 DEF ActiveItems, Alive
  <2>5. OneRowEach(t)'  BY <1>7, <1>13, <1>17
  <2>6. Closed(t)'
    <3>1. ASSUME NEW m \in DOMAIN deadline', deadline'[m].of = t, deadline'[m].status # "OPEN"
          PROVE  deadline'[m].item # None /\ item'[deadline'[m].item] \notin Alive
      <4>0. m \in DOMAIN deadline  BY <1>13
      <4>1. CASE m = n
        <5>1. deadline'[m].item = deadline[n].item /\ deadline[n].item # None
            BY <1>9, <1>10, <1>12, <1>13, <4>1
        <5> QED BY <1>5, <2>4, <5>1
      <4>2. CASE m # n
        <5>1. deadline'[m] = deadline[m]  BY <1>13, <4>0, <4>2
        <5> QED BY <1>5, <2>1, <2>3, <3>1, <4>0, <5>1 DEF Closed
      <4> QED BY <4>1, <4>2
    <3> QED BY <3>1 DEF Closed
  <2>7. \A d \in Calls(t, w.live) : Filled(t, d)'
    <3> TAKE d \in Calls(t, w.live)
    <3>1. PICK m \in DOMAIN deadline : IsOpen(m, t) /\ Answers(m, d)  BY <2>3 DEF Filled
    <3>2. d.item = None \/ d.item \in w.live  BY <1>8, <1>9, CallsKeyed
    <3>3. m # n  BY <1>9, <1>10, <1>11, <3>1, <3>2 DEF Answers
    <3>4. deadline'[m] = deadline[m] /\ m \in DOMAIN deadline'  BY <1>13, <3>1, <3>3
    <3> QED BY <3>1, <3>4 DEF Filled, IsOpen, Answers
  <2>8. \A m \in DOMAIN deadline' : deadline'[m].of = t /\ deadline'[m].status # "OPEN" =>
                deadline'[m].item # None /\ deadline'[m].item \notin w.live
    <3> TAKE m \in DOMAIN deadline'
    <3>1. CASE m = n
      <4>1. deadline'[m].item = deadline[n].item /\ deadline[n].item # None
          BY <1>9, <1>10, <1>12, <1>13, <3>1
      <4> QED BY <1>11, <4>1
    <3>2. CASE m # n
      <4>1. m \in DOMAIN deadline /\ deadline'[m] = deadline[m]  BY <1>13, <3>2
      <4> QED BY <2>3, <4>1
    <3> QED BY <3>1, <3>2
  <2>9. \A m \in DOMAIN deadline' : IsOpen(m, t)' =>
                deadline'[m].item \in w.live \cup {None} \/ m \in ToSet(w.todo)
      BY <1>10, <1>12, <1>13, <2>3 DEF IsOpen
  <2>10. \A i \in w.live : item'[i] \in Alive \cup {"CANCELLED"}  BY <1>5, <2>3
  <2>11. GateKept(t)'  BY <2>2, <2>3
  <2>12. Under(p, t)'  BY <1>5, <1>14, <2>2, <2>3, <2>7, <2>8, <2>9, <2>10, <2>11 DEF Under
  <2> QED BY <2>5, <2>6, <2>12
<1>18. /\ \A u \in Leases \ {t} : lease'[u] = lease[u] /\ SameRows(u)
       /\ lease'[t].there
       /\ step'[p] \in {"idle", "cancel"} \cup Listing /\ (step'[p] # "idle" => edit'[p].lease = t)
       /\ UNCHANGED <<item, raced>>
    BY <1>5, <1>7, <1>8, <1>13, <1>14
<1>19. t \notin raced => /\ OneRowEach(t)' /\ Closed(t)'
                         /\ IF step'[p] = "idle" THEN Follows(t)' ELSE Under(p, t)'
    BY <1>14, <1>17
<1> QED BY <1>1, <1>6, <1>13, <1>14, <1>15, <1>16, <1>18, <1>19, Regenerating

LEMMA DeathKeeps ==
    ASSUME DeadlinesAssumption, DeadlineInv, NEW p \in Writers, DieEditing(p)
    PROVE  DeadlineInv' /\ RowsKeep
<1>1. PICK t : t = edit[p].lease  OBVIOUS
<1>2. /\ step[p] # "idle" /\ step' = [step EXCEPT ![p] = "idle"]
      /\ edit' = [edit EXCEPT ![p] = Unread] /\ UNCHANGED <<lease, item, deadline>>
      /\ raced' = IF t = None THEN raced ELSE raced \cup {t}
    BY <1>1 DEF DieEditing
<1>3. Tables /\ RowsSound /\ HasInHand(p)  BY DEF DeadlineInv
<1>4. None \notin Leases  BY DEF DeadlinesAssumption
<1>5. t \in Leases \cup {None}
  <2>1. step[p] \in {"settle"} \cup Working  BY <1>2, <1>3 DEF Tables
  <2> QED BY <1>1, <1>3, <2>1 DEF HasInHand
<1>6. DOMAIN Unread = EditFields /\ Unread.lease = None  BY DEF Unread, EditFields
<1>7. /\ edit'[p] = Unread /\ step'[p] = "idle" /\ Elsewhere(p)
      /\ step' \in [Writers -> {"idle", "settle"} \cup Working]
      /\ DOMAIN edit' = Writers /\ \A q \in Writers : DOMAIN edit'[q] = EditFields
    BY <1>2, <1>3, <1>6, Edited
<1>8. raced \subseteq raced' /\ raced' \subseteq Leases /\ (t \in Leases => t \in raced')
    BY <1>2, <1>3, <1>4, <1>5 DEF Tables
<1>9. Tables'  BY <1>2, <1>3, <1>7, <1>8 DEF Tables
<1>10. RowsKeep /\ \A u : SameRows(u) /\ Calm(u)  BY <1>2, Unmoved
<1>11. RowsSound' /\ TablesKeep  BY <1>2, <1>3, <1>8, <1>10 DEF RowsSound, TablesKeep
<1>12. HasInHand(p)'
  <2>1. "idle" \notin Working /\ "idle" \notin Listing  BY DEF Working, Listing
  <2> QED BY <1>6, <1>7, <2>1 DEF HasInHand
<1>13. \A u \in Leases \ {t} : /\ lease'[u] = lease[u] /\ Calm(u) /\ SameRows(u)
                               /\ p \notin At(u) /\ p \notin At(u)'
    BY <1>1, <1>2, <1>7, <1>10 DEF At
<1> QED BY <1>7, <1>8, <1>9, <1>11, <1>12, <1>13, StepOfOne

LEMMA SettleKeeps ==
    ASSUME DeadlinesAssumption, DeadlineInv, NEW p \in Writers, SetDeadlineStatus(p)
    PROVE  DeadlineInv' /\ RowsKeep
<1>1. PICK n : n = edit[p].found  OBVIOUS
<1>2. PICK s \in {"DONE", "CANCELLED"} : deadline' = [deadline EXCEPT ![n].status = s]
    BY <1>1 DEF SetDeadlineStatus
<1>3. PICK e : e = [deadline[n] EXCEPT !.status = s]  OBVIOUS
<1>4. /\ step[p] = "settle" /\ step' = [step EXCEPT ![p] = "idle"]
      /\ edit' = [edit EXCEPT ![p] = Unread] /\ UNCHANGED <<lease, item, raced>>
      /\ deadline' = [deadline EXCEPT ![n] = e]
    BY <1>2, <1>3 DEF SetDeadlineStatus, To
<1>5. Tables /\ RowsSound /\ HasInHand(p)  BY DEF DeadlineInv
<1>6. n \in DOMAIN deadline /\ deadline[n].of = None /\ edit[p].lease = None
    BY <1>1, <1>4, <1>5 DEF HasInHand
<1>7. deadline[n] \in Entries  BY <1>5, <1>6 DEF Tables
<1>8. /\ e \in Entries /\ e.of = None /\ e.kind = deadline[n].kind /\ e.item = deadline[n].item
      /\ e.due = deadline[n].due /\ e.manual = deadline[n].manual
    BY <1>3, <1>6, <1>7 DEF Entries
<1>9. /\ deadline' \in Seq(Entries) /\ RowsSound' /\ RowsKeep /\ (\A u : u # None => SameRows(u))
    BY <1>4, <1>5, <1>6, <1>7, <1>8, Rewritten
<1>10. DOMAIN Unread = EditFields /\ Unread.lease = None  BY DEF Unread, EditFields
<1>11. /\ edit'[p] = Unread /\ step'[p] = "idle" /\ Elsewhere(p)
       /\ step' \in [Writers -> {"idle", "settle"} \cup Working]
       /\ DOMAIN edit' = Writers /\ \A q \in Writers : DOMAIN edit'[q] = EditFields
    BY <1>4, <1>5, <1>10, Edited
<1>12. Tables'  BY <1>4, <1>5, <1>9, <1>11 DEF Tables
<1>13. TablesKeep  BY <1>4, <1>9 DEF TablesKeep
<1>14. HasInHand(p)'
  <2>1. "idle" \notin Working /\ "idle" \notin Listing  BY DEF Working, Listing
  <2> QED BY <1>10, <1>11, <2>1 DEF HasInHand
<1>15. None \notin Leases  BY DEF DeadlinesAssumption
<1>16. \A u \in Leases \ {None} : /\ lease'[u] = lease[u] /\ Calm(u) /\ SameRows(u)
                                  /\ p \notin At(u) /\ p \notin At(u)'
    BY <1>4, <1>6, <1>9, <1>11, <1>15, Unmoved DEF At
<1> QED BY <1>9, <1>11, <1>12, <1>13, <1>14, <1>15, <1>16, StepOfOne

\* The row that an upsert leaves: the one found, or a new one.
Upserted(t, d, n, k) ==
    /\ deadline' \in Seq(Entries) /\ RowsSound' /\ RowsKeep
    /\ DOMAIN deadline' = DOMAIN deadline \cup {k}
    /\ \A m \in DOMAIN deadline \ {k} : deadline'[m] = deadline[m]
    /\ deadline'[k].of = t /\ deadline'[k].kind = d.kind /\ deadline'[k].item = d.item
    /\ deadline'[k].due = d.due
    /\ IF n = None THEN k \notin DOMAIN deadline /\ deadline'[k].status = "OPEN"
       ELSE k = n /\ k \in DOMAIN deadline /\ deadline'[k].status = deadline[k].status

LEMMA UpsertLeaves ==
    ASSUME DeadlinesAssumption, DeadlineInv, NEW p \in Writers, UpsertDeadline(p),
           NEW t, t = edit[p].lease, NEW d, d = Head(edit[p].todo)
    PROVE  \E k : Upserted(t, d, edit[p].found, k)
<1>1. PICK n : n = edit[p].found  OBVIOUS
<1>2. step[p] = "upsert" /\ UNCHANGED <<lease, item, raced>>  BY DEF UpsertDeadline, To
<1>3. step[p] \in Working /\ step[p] \in Listing  BY <1>2 DEF Working, Listing
<1>4. /\ Tables /\ RowsSound /\ HasInHand(p) /\ t \in Leases /\ lease[t].there
      /\ \A m \in DOMAIN deadline : deadline[m] \in Entries
    BY <1>3, Found
<1>5. /\ edit[p].todo \in Seq(Derived) /\ edit[p].todo # <<>>
      /\ edit[p].live \subseteq Items
      /\ \A i \in edit[p].live : LeaseOf[i] = t /\ item[i] # "absent"
      /\ \A e \in ToSet(edit[p].todo) :
                IF e.kind = "CHEQUE_DUE" THEN \E i \in edit[p].live : e = Cheque(i) ELSE e.item = None
    BY <1>2, <1>3, <1>4 DEF HasInHand
<1>6. d \in Derived /\ d \in ToSet(edit[p].todo)  BY <1>5, Taken
<1>7. t # None /\ deadline \in Seq(Entries)  BY <1>4 DEF DeadlinesAssumption, Tables
<1>8. d.item # None => /\ d.kind = "CHEQUE_DUE" /\ d.due = DueOf[d.item]
                       /\ LeaseOf[d.item] = t /\ item[d.item] # "absent"
    BY <1>5, <1>6 DEF Cheque
<1>9. d.kind = "CHEQUE_DUE" => d.item # None
    BY <1>5, <1>6 DEF Cheque, DeadlinesAssumption
<1>10. CASE n = None
  <2>1. PICK e : e = [of |-> t, kind |-> d.kind, item |-> d.item, due |-> d.due,
                      status |-> "OPEN", manual |-> FALSE]
      OBVIOUS
  <2>2. e \in Entries  BY <1>4, <1>6, <2>1 DEF Entries, Derived
  <2>3. /\ e.of = t /\ e.kind = d.kind /\ e.item = d.item /\ e.due = d.due /\ e.status = "OPEN"
        /\ e.manual = FALSE
      BY <2>1
  <2>4. deadline' = Append(deadline, e)  BY <1>1, <1>10, <2>1 DEF UpsertDeadline
  <2>5. PICK k \in Nat : /\ k \notin DOMAIN deadline /\ DOMAIN deadline' = DOMAIN deadline \cup {k}
                         /\ deadline'[k] = e
      BY <1>7, <2>2, <2>4, Added
  <2>6. /\ deadline' \in Seq(Entries)
        /\ \A m \in DOMAIN deadline : m \in DOMAIN deadline' /\ deadline'[m] = deadline[m]
      BY <1>7, <2>2, <2>4, Added
  <2>7. d.kind \in TermKinds \cup {"CHEQUE_DUE"}  BY <1>6 DEF Derived
  <2>8. RowsSound'
    <3>1. \A m \in DOMAIN deadline' : m = k \/ (m \in DOMAIN deadline /\ deadline'[m] = deadline[m])
        BY <2>5, <2>6
    <3> QED BY <1>2, <1>4, <1>7, <1>8, <1>9, <2>3, <2>5, <2>7, <3>1 DEF RowsSound
  <2>9. RowsKeep  BY <2>6 DEF RowsKeep
  <2> QED BY <1>1, <1>10, <2>3, <2>5, <2>6, <2>8, <2>9 DEF Upserted
<1>11. CASE n # None
  <2>1. n \in DOMAIN deadline /\ deadline[n].of = t /\ deadline[n].kind = d.kind /\ deadline[n].item = d.item
      BY <1>1, <1>2, <1>4, <1>11 DEF HasInHand
  <2>2. PICK e : e = [deadline[n] EXCEPT !.due = d.due]  OBVIOUS
  <2>3. deadline' = [deadline EXCEPT ![n] = e]  BY <1>1, <1>11, <2>2 DEF UpsertDeadline
  <2>4. deadline[n] \in Entries /\ d.due \in Int  BY <1>4, <1>6, <2>1 DEF Derived
  <2>5. /\ e \in Entries /\ e.of = t /\ e.kind = d.kind /\ e.item = d.item /\ e.due = d.due
        /\ e.manual = deadline[n].manual /\ e.status = deadline[n].status
      BY <2>1, <2>2, <2>4 DEF Entries
  <2>6. e.item # None => e.due = DueOf[e.item]  BY <1>8, <2>5
  <2>7. /\ deadline' \in Seq(Entries) /\ DOMAIN deadline' = DOMAIN deadline
        /\ deadline'[n] = e /\ \A m \in DOMAIN deadline \ {n} : deadline'[m] = deadline[m]
        /\ RowsSound' /\ RowsKeep
      BY <1>2, <1>4, <2>1, <2>3, <2>5, <2>6, Rewritten
  <2> QED BY <1>1, <1>11, <2>1, <2>5, <2>7 DEF Upserted
<1> QED BY <1>10, <1>11

LEMMA UpsertKeeps ==
    ASSUME DeadlinesAssumption, DeadlineInv, NEW p \in Writers, UpsertDeadline(p)
    PROVE  DeadlineInv' /\ RowsKeep
<1>1. PICK t : t = edit[p].lease  OBVIOUS
<1>2. PICK d : d = Head(edit[p].todo)  OBVIOUS
<1>3. PICK n : n = edit[p].found  OBVIOUS
<1>4. PICK w : w = [edit[p] EXCEPT !.todo = Tail(@), !.found = None]  OBVIOUS
<1>5. PICK to : to = IF d.kind = "RENEWAL_DATE" THEN "cache" ELSE "find"  OBVIOUS
<1>6. /\ step[p] = "upsert" /\ step' = [step EXCEPT ![p] = to]
      /\ edit' = [edit EXCEPT ![p] = w] /\ UNCHANGED <<lease, item, raced>>
    BY <1>2, <1>4, <1>5 DEF UpsertDeadline, To
<1>7. step[p] \in Working /\ step[p] \in Listing /\ to \in {"cache", "find"}
    BY <1>5, <1>6 DEF Working, Listing
<1>8. /\ Tables /\ RowsSound /\ HasInHand(p) /\ t \in Leases /\ lease[t].there
      /\ DOMAIN edit[p] = EditFields
      /\ \A m \in DOMAIN deadline : deadline[m] \in Entries
      /\ t \notin raced => OneRowEach(t) /\ Closed(t) /\ Under(p, t)
    BY <1>1, <1>6, <1>7, Found
<1>9. PICK k : Upserted(t, d, n, k)  BY <1>1, <1>2, <1>3, UpsertLeaves
<1>10. /\ DOMAIN w = EditFields /\ w.todo = Tail(edit[p].todo) /\ w.live = edit[p].live /\ w.lease = t
       /\ w.gate = edit[p].gate
    BY <1>1, <1>4, <1>8 DEF EditFields
<1>11. /\ edit'[p] = w /\ step'[p] = to /\ Elsewhere(p)
       /\ step' \in [Writers -> {"idle", "settle"} \cup Working]
       /\ DOMAIN edit' = Writers /\ \A q \in Writers : DOMAIN edit'[q] = EditFields
    BY <1>6, <1>7, <1>8, <1>10, Edited DEF Working, Listing
<1>12. deadline' \in Seq(Entries) /\ RowsSound' /\ RowsKeep /\ \A u \in Leases \ {t} : SameRows(u)
    BY <1>9 DEF Upserted, SameRows
<1>13. Tables'  BY <1>6, <1>8, <1>11, <1>12 DEF Tables
<1>14. /\ edit[p].todo \in Seq(Derived) /\ edit[p].todo # <<>>
       /\ edit[p].live \subseteq Items
       /\ \A i \in edit[p].live : LeaseOf[i] = t /\ item[i] # "absent"
       /\ \A e \in ToSet(edit[p].todo) :
                IF e.kind = "CHEQUE_DUE" THEN \E i \in edit[p].live : e = Cheque(i) ELSE e.item = None
    BY <1>1, <1>6, <1>7, <1>8 DEF HasInHand
<1>15. /\ d \in ToSet(edit[p].todo) /\ w.todo \in Seq(Derived)
       /\ ToSet(w.todo) \subseteq ToSet(edit[p].todo)
       /\ \A e \in ToSet(edit[p].todo) : e = d \/ e \in ToSet(w.todo)
    BY <1>2, <1>10, <1>14, Taken
<1>16. HasInHand(p)'
  <2>1. \A e \in ToSet(w.todo) :
                IF e.kind = "CHEQUE_DUE" THEN \E i \in w.live : e = Cheque(i) ELSE e.item = None
      BY <1>10, <1>14, <1>15
  <2>2. to \in Listing /\ to # "upsert" /\ to # "cancel" /\ to # "idle" /\ to # "settle"
      BY <1>7 DEF Listing
  <2> QED BY <1>6, <1>8, <1>10, <1>11, <1>14, <1>15, <2>1, <2>2 DEF HasInHand
<1>17. ASSUME t \notin raced PROVE OneRowEach(t)' /\ Closed(t)' /\ Under(p, t)'
  <2>1. Under(p, t) /\ Closed(t) /\ OneRowEach(t)  BY <1>6, <1>8, <1>17
  <2>2. Calls(t, w.live)' = Calls(t, w.live) /\ ActiveItems(t)' = ActiveItems(t)
        /\ (GateKept(t)' <=> GateKept(t))
      BY <1>6 DEF Calls, ActiveItems, GateKept
  <2>3. /\ ~lease[t].archived /\ w.gate = NoticeGate(lease[t].end, lease[t].period)
        /\ ActiveItems(t) \subseteq w.live
        /\ \A i \in w.live : item[i] \in Alive \cup {"CANCELLED"}
        /\ \A m \in DOMAIN deadline : deadline[m].of = t /\ deadline[m].status # "OPEN" =>
                deadline[m].item # None /\ deadline[m].item \notin w.live
        /\ ToSet(edit[p].todo) \subseteq Calls(t, w.live)
        /\ \A e \in Calls(t, w.live) : Filled(t, e) \/ e \in ToSet(edit[p].todo)
        /\ GateKept(t) \/ \E e \in ToSet(edit[p].todo) : e.kind = "RENEWAL_DATE"
        /\ n = None => \A m \in DOMAIN deadline : deadline[m].of = t =>
                          deadline[m].kind # d.kind \/ deadline[m].item # d.item
      BY <1>2, <1>3, <1>6, <1>10, <2>1 DEF Under
  <2>4. d \in Calls(t, w.live) /\ (d.item = None \/ d.item \in w.live)
      BY <1>10, <1>14, <1>15, <2>3, CallsKeyed
  <2>5. /\ DOMAIN deadline' = DOMAIN deadline \cup {k}
        /\ \A m \in DOMAIN deadline \ {k} : deadline'[m] = deadline[m]
        /\ deadline'[k].of = t /\ deadline'[k].kind = d.kind /\ deadline'[k].item = d.item
        /\ deadline'[k].due = d.due
        /\ k \notin DOMAIN deadline => n = None /\ deadline'[k].status = "OPEN"
        /\ k \in DOMAIN deadline =>
            /\ deadline'[k].status = deadline[k].status
            /\ deadline[k].of = t /\ deadline[k].kind = d.kind /\ deadline[k].item = d.item
      BY <1>9 DEF Upserted, RowsKeep
  <2>6. deadline'[k].status = "OPEN"
      BY <2>3, <2>4, <2>5
  <2>7. OneRowEach(t)'
    <3> SUFFICES ASSUME NEW i \in DOMAIN deadline', NEW j \in DOMAIN deadline',
                        deadline'[i].of = t, deadline'[j].of = t,
                        deadline'[i].kind = deadline'[j].kind, deadline'[i].item = deadline'[j].item
                 PROVE  i = j
        BY DEF OneRowEach
    <3>1. CASE k \in DOMAIN deadline
      <4>1. \A m \in DOMAIN deadline' : m \in DOMAIN deadline /\ deadline'[m].of = deadline[m].of
                /\ deadline'[m].kind = deadline[m].kind /\ deadline'[m].item = deadline[m].item
          BY <2>5, <3>1
      <4> QED BY <2>1, <4>1 DEF OneRowEach
    <3>2. CASE k \notin DOMAIN deadline
      <4>1. \A m \in DOMAIN deadline' \ {k} : /\ m \in DOMAIN deadline /\ deadline'[m] = deadline[m]
                                              /\ deadline[m].of = t => \/ deadline[m].kind # d.kind
                                                                       \/ deadline[m].item # d.item
          BY <2>3, <2>5, <3>2
      <4> QED BY <2>1, <2>5, <4>1 DEF OneRowEach
    <3> QED BY <3>1, <3>2
  <2>8. \A m \in DOMAIN deadline' : deadline'[m].of = t /\ deadline'[m].status # "OPEN" =>
                m \in DOMAIN deadline /\ deadline'[m] = deadline[m]
      BY <2>5, <2>6
  <2>9. Closed(t)'  BY <1>6, <2>1, <2>8 DEF Closed
  <2>10. \A m \in DOMAIN deadline' : deadline'[m].of = t /\ deadline'[m].status # "OPEN" =>
                deadline'[m].item # None /\ deadline'[m].item \notin w.live
      BY <2>3, <2>8
  <2>11. Filled(t, d)'  BY <2>5, <2>6 DEF Filled, IsOpen, Answers
  <2>12. \A e \in Calls(t, w.live) : Filled(t, e) => Filled(t, e)'
    <3> TAKE e \in Calls(t, w.live)
    <3> HAVE Filled(t, e)
    <3>1. PICK m \in DOMAIN deadline : IsOpen(m, t) /\ Answers(m, e)  BY DEF Filled
    <3>2. CASE m = k
      <4>1. e.kind = d.kind /\ e.item = d.item  BY <2>5, <3>1, <3>2 DEF Answers
      <4>2. w.live \in SUBSET Items  BY <1>10, <1>14
      <4>3. \A x, y \in Calls(t, w.live) : x.kind = y.kind /\ x.item = y.item => x = y
          BY <4>2, CallsKeyed
      <4>4. e = d  BY <2>4, <4>1, <4>3
      <4> QED BY <2>11, <4>4
    <3>3. CASE m # k
      <4>1. m \in DOMAIN deadline' /\ deadline'[m] = deadline[m]  BY <2>5, <3>1, <3>3
      <4> QED BY <3>1, <4>1 DEF Filled, IsOpen, Answers
    <3> QED BY <3>2, <3>3
  <2>13. \A e \in Calls(t, w.live) : Filled(t, e)' \/ e \in ToSet(w.todo)
      BY <1>15, <2>3, <2>11, <2>12
  <2>14. ToSet(w.todo) \subseteq Calls(t, w.live)  BY <1>15, <2>3
  <2>15. to = "find" => GateKept(t) \/ \E e \in ToSet(w.todo) : e.kind = "RENEWAL_DATE"
      BY <1>5, <1>15, <2>3
  <2>16. /\ ~lease'[t].archived /\ w.gate = NoticeGate(lease'[t].end, lease'[t].period)
         /\ \A i \in w.live : item'[i] \in Alive \cup {"CANCELLED"}
      BY <1>6, <2>3
  <2>17. to # "cancel" /\ to # "upsert"  BY <1>7
  <2>18. Under(p, t)'
      BY <1>7, <1>11, <2>2, <2>3, <2>10, <2>13, <2>14, <2>15, <2>16, <2>17 DEF Under
  <2> QED BY <2>7, <2>9, <2>18
<1>18. /\ \A u \in Leases \ {t} : lease'[u] = lease[u] /\ SameRows(u)
       /\ lease'[t].there
       /\ step'[p] \in {"idle", "cancel"} \cup Listing /\ (step'[p] # "idle" => edit'[p].lease = t)
       /\ UNCHANGED <<item, raced>>
    BY <1>6, <1>7, <1>8, <1>10, <1>11, <1>12 DEF Listing
<1>19. t \notin raced => /\ OneRowEach(t)' /\ Closed(t)'
                         /\ IF step'[p] = "idle" THEN Follows(t)' ELSE Under(p, t)'
  <2>1. to # "idle"  BY <1>7
  <2> QED BY <1>11, <1>17, <2>1
<1> QED BY <1>1, <1>7, <1>11, <1>12, <1>13, <1>16, <1>18, <1>19, Regenerating

-----------------------------------------------------------------------------
(* The invariant and what it gives *)

LEMMA DeadlinesStart == DeadlinesAssumption /\ DeadlinesInit => DeadlineInv
<1> SUFFICES ASSUME DeadlinesAssumption, DeadlinesInit PROVE DeadlineInv
    OBVIOUS
<1>1. /\ \A p \in Writers : step[p] = "idle" /\ edit[p] = Unread
      /\ \A t \in Leases : lease[t] = [there |-> FALSE, end |-> None, period |-> None,
                                       gate |-> None, archived |-> FALSE]
      /\ deadline = <<>> /\ raced = {} /\ DOMAIN deadline = {}
    BY DEF DeadlinesInit
<1>2. DOMAIN Unread = EditFields /\ Unread.lease = None  BY DEF Unread, EditFields
<1>3. \A t \in Leases : /\ DOMAIN lease[t] = LeaseFields /\ lease[t].there = FALSE
                        /\ lease[t].archived = FALSE
    BY <1>1 DEF LeaseFields
<1>4. item \in [Items -> ItemStatus] /\ step \in [Writers -> {"idle", "settle"} \cup Working]
    BY DEF DeadlinesInit, ItemStatus
<1>5. DOMAIN lease = Leases /\ DOMAIN edit = Writers /\ deadline \in Seq(Entries)
    BY <1>1 DEF DeadlinesInit
<1>6. Tables  BY <1>1, <1>2, <1>3, <1>4, <1>5 DEF Tables
<1>7. RowsSound  BY <1>1 DEF RowsSound
<1>8. "idle" \notin Working /\ "idle" \notin Listing  BY DEF Working, Listing
<1>9. \A p \in Writers : HasInHand(p)  BY <1>1, <1>2, <1>8 DEF HasInHand
<1>10. \A t \in Leases : At(t) = {}  BY <1>1 DEF At
<1>11. \A t \in Leases \ raced : Orderly(t)
    BY <1>1, <1>3, <1>10 DEF Orderly, OneRowEach
<1> QED BY <1>6, <1>7, <1>9, <1>11 DEF DeadlineInv

LEMMA DeadlinesStep ==
    ASSUME DeadlinesAssumption, DeadlineInv, [DeadlinesNext]_deadlineVars
    PROVE  DeadlineInv' /\ RowsKeep
<1>1. CASE UNCHANGED deadlineVars
  <2>1. UNCHANGED <<lease, item, deadline, step, edit, raced>>  BY <1>1 DEF deadlineVars
  <2>2. Tables /\ RowsSound /\ (\A q \in Writers : HasInHand(q)) /\ \A t \in Leases \ raced : Orderly(t)
      BY DEF DeadlineInv
  <2>3. Tables' /\ RowsSound' /\ TablesKeep /\ \A t : SameRows(t) /\ Calm(t)
      BY <2>1, <2>2, Unmoved DEF Tables
  <2>4. \A q \in Writers : HasInHand(q)'  BY <2>1, <2>2, <2>3, HandKept
  <2>5. \A t \in Leases : At(t)' = At(t)  BY <2>1 DEF At
  <2>6. \A t \in Leases \ raced' : Orderly(t)'
      BY <2>1, <2>2, <2>3, <2>5, OrderlyKept
  <2> QED BY <2>3, <2>4, <2>6 DEF DeadlineInv, TablesKeep
<1>2. CASE \E p \in Writers, t \in Leases : WriteLease(p, t)  BY <1>2, LeaseWritten
<1>3. CASE \E p \in Writers : \E n \in DOMAIN deadline : ReadEntry(p, n)  BY <1>3, EntryRead
<1>4. CASE \E p \in Writers : Rewrite(p)
  <2>1. PICK p \in Writers : Rewrite(p)  BY <1>4
  <2>2. \/ Regenerate(p) \/ CancelAll(p) \/ FindExisting(p) \/ UpsertDeadline(p) \/ CacheGate(p)
        \/ ReadVanished(p) \/ CancelVanished(p) \/ Regenerated(p) \/ DieEditing(p)
        \/ SetDeadlineStatus(p)
      BY <2>1, Zenon DEF Rewrite
  <2> QED BY <2>2, RegenerateKeeps, CancelAllKeeps, FindKeeps, UpsertKeeps, CacheKeeps,
             ReadVanishedKeeps, CancelVanishedKeeps, RegeneratedKeeps, DeathKeeps, SettleKeeps
<1>5. CASE \E i \in Items : TransitionPayment(i)  BY <1>5, PaymentMoved
<1>6. CASE \E kind \in ManualKinds, end \in Ends : CreateManualDeadline(kind, end)
    BY <1>6, EntryMade
<1>7. DeadlinesNext => \/ \E p \in Writers, t \in Leases : WriteLease(p, t)
                       \/ \E p \in Writers : \E n \in DOMAIN deadline : ReadEntry(p, n)
                       \/ \E p \in Writers : Rewrite(p)
                       \/ \E i \in Items : TransitionPayment(i)
                       \/ \E kind \in ManualKinds, end \in Ends : CreateManualDeadline(kind, end)
    BY Zenon DEF DeadlinesNext
<1> QED BY <1>1, <1>2, <1>3, <1>4, <1>5, <1>6, <1>7

Opened(t) == {[kind |-> deadline[n].kind, item |-> deadline[n].item, due |-> deadline[n].due] : n \in Open(t)}
Wanted(t) == IF lease[t].archived THEN {}
             ELSE ToSet(Term(lease[t].end, lease[t].period) \o Cheques(ActiveItems(t)))

LEMMA InvFollows == DeadlinesAssumption /\ DeadlineInv => DeadlinesFollow
<1> SUFFICES ASSUME DeadlinesAssumption, DeadlineInv PROVE DeadlinesFollow
    OBVIOUS
<1>0. Tables /\ RowsSound /\ \A t \in Leases \ raced : Orderly(t)  BY DEF DeadlineInv
<1>1. OneOpenEach
  <2>1. \A t \in Leases \ raced : OneRowEach(t)  BY <1>0 DEF Orderly
  <2>2. \A t \in Leases \ raced : \A m, n \in Open(t) : m # n =>
            deadline[m].kind # deadline[n].kind \/ deadline[m].item # deadline[n].item
      BY <2>1 DEF Open, OneRowEach
  <2> QED BY <2>2 DEF OneOpenEach
<1>2. ASSUME NEW t \in Leases \ raced, lease[t].there, At(t) = {},
             NEW open, open = Opened(t), NEW wanted, wanted = Wanted(t),
             NEW stale, stale = {d \in open : d.item # None /\ item[d.item] = "CANCELLED"}
      PROVE  /\ open \ stale = wanted
             /\ lease[t].archived => stale = {}
             /\ \A d \in wanted : d.kind = "NOTICE_GATE" => lease[t].gate = d.due
  <2>0. /\ open = {[kind |-> deadline[n].kind, item |-> deadline[n].item, due |-> deadline[n].due]
                   : n \in Open(t)}
        /\ wanted = IF lease[t].archived THEN {}
                    ELSE ToSet(Term(lease[t].end, lease[t].period) \o Cheques(ActiveItems(t)))
      BY <1>2 DEF Opened, Wanted
  <2>1. Orderly(t) /\ Follows(t) /\ OneRowEach(t)  BY <1>0, <1>2 DEF Orderly
  <2>2. \A n : IsOpen(n, t) <=> n \in Open(t)  BY DEF IsOpen, Open
  <2>3. CASE lease[t].archived
    <3>1. Open(t) = {}  BY <2>1, <2>2, <2>3 DEF Follows, Open
    <3>2. open = {}  BY <1>2, <2>0, <3>1
    <3> QED BY <1>2, <2>0, <2>3, <3>2
  <2>4. CASE ~lease[t].archived
    <3>1. PICK live : live = ActiveItems(t)  OBVIOUS
    <3>2. live \in SUBSET Items /\ \A i \in live : LeaseOf[i] = t /\ item[i] \in Alive
        BY <3>1 DEF ActiveItems, Alive
    <3>3. lease[t].end \in Ends /\ lease[t].period \in Periods  BY <1>0, <1>2 DEF Tables
    <3>4. wanted = Calls(t, live)  BY <1>2, <2>0, <2>4, <3>1, <3>2, <3>3, Called
    <3>5. /\ GateKept(t) /\ \A d \in Calls(t, live) : Filled(t, d)
          /\ \A n \in DOMAIN deadline : IsOpen(n, t) /\ deadline[n].item # None =>
                item[deadline[n].item] \in Alive \cup {"CANCELLED"}
        BY <2>1, <2>4, <3>1 DEF Follows
    <3>6. ASSUME NEW d \in wanted PROVE d \in open \ stale
      <4>1. PICK n \in DOMAIN deadline : IsOpen(n, t) /\ Answers(n, d)  BY <3>4, <3>5, <3>6 DEF Filled
      <4>2. PICK e : e = [kind |-> deadline[n].kind, item |-> deadline[n].item, due |-> deadline[n].due]
          OBVIOUS
      <4>3. e \in open  BY <1>2, <2>0, <2>2, <4>1, <4>2
      <4>4. d = e
        <5>1. d \in Derived
          <6>1. Term(lease[t].end, lease[t].period) \o Cheques(live) \in Seq(Derived)
              BY <3>2, <3>3, Called
          <6>2. wanted = ToSet(Term(lease[t].end, lease[t].period) \o Cheques(live))
              BY <1>2, <2>0, <2>4, <3>1
          <6> QED BY <3>6, <6>1, <6>2 DEF ToSet
        <5> QED BY <4>1, <4>2, <5>1 DEF Answers, Derived
      <4>5. d.item = None \/ d.item \in live  BY <3>2, <3>4, <3>6, CallsKeyed
      <4>6. d.item # None => item[d.item] # "CANCELLED"  BY <3>2, <4>5 DEF Alive
      <4> QED BY <1>2, <2>0, <4>3, <4>4, <4>6
    <3>7. ASSUME NEW e \in open \ stale PROVE e \in wanted
      <4>1. PICK n \in Open(t) :
                e = [kind |-> deadline[n].kind, item |-> deadline[n].item, due |-> deadline[n].due]
          BY <1>2, <2>0, <3>7
      <4>2. /\ n \in DOMAIN deadline /\ IsOpen(n, t) /\ deadline[n].of = t
            /\ t # None /\ deadline[n] \in Entries
          BY <1>0, <2>2, <4>1 DEF Open, Tables, DeadlinesAssumption
      <4>3. /\ deadline[n].kind \in TermKinds \cup {"CHEQUE_DUE"}
            /\ deadline[n].kind = "CHEQUE_DUE" <=> deadline[n].item # None
            /\ deadline[n].item # None => LeaseOf[deadline[n].item] = t
                                          /\ deadline[n].due = DueOf[deadline[n].item]
          BY <1>0, <4>2 DEF RowsSound
      <4>4. CASE deadline[n].item # None
        <5>1. PICK i : i = deadline[n].item  OBVIOUS
        <5>2. i \in Items  BY <4>2, <4>4, <5>1 DEF Entries
        <5>3. item[i] # "CANCELLED"  BY <1>2, <2>0, <3>7, <4>1, <4>4, <5>1
        <5>4. i \in live
            BY <3>1, <3>5, <4>2, <4>3, <4>4, <5>1, <5>2, <5>3 DEF ActiveItems, Alive
        <5>5. e = Cheque(i)  BY <4>1, <4>3, <4>4, <5>1 DEF Cheque
        <5> QED BY <3>4, <5>4, <5>5 DEF Calls
      <4>5. CASE deadline[n].item = None
        <5>1. PICK d \in Calls(t, live) : d.kind = deadline[n].kind /\ d.item = None
          <6>1. deadline[n].kind \in TermKinds  BY <4>3, <4>5
          <6>2. PICK term : term = Term(lease[t].end, lease[t].period)  OBVIOUS
          <6>3. /\ DOMAIN term = {1, 2, 3}
                /\ term[1].kind = "NOTICE_GATE" /\ term[2].kind = "CONTRACT_EXPIRY"
                /\ term[3].kind = "RENEWAL_DATE"
                /\ \A i \in {1, 2, 3} : term[i].item = None
              BY <6>2 DEF Term
          <6>4. \A i \in {1, 2, 3} : term[i] \in Calls(t, live)
              BY <6>2, <6>3 DEF Calls, ToSet
          <6> QED BY <6>1, <6>3, <6>4 DEF TermKinds
        <5>2. d \in open  BY <3>4, <3>6, <5>1
        <5>3. PICK m \in Open(t) :
                d = [kind |-> deadline[m].kind, item |-> deadline[m].item, due |-> deadline[m].due]
            BY <1>2, <2>0, <5>2
        <5>4. m = n  BY <2>1, <4>1, <4>5, <5>1, <5>3 DEF OneRowEach, Open
        <5> QED BY <3>4, <4>1, <5>1, <5>3, <5>4
      <4> QED BY <4>4, <4>5
    <3>8. open \ stale = wanted  BY <3>6, <3>7
    <3>9. \A d \in wanted : d.kind = "NOTICE_GATE" => lease[t].gate = d.due
        BY <3>2, <3>4, <3>5, CallsKeyed DEF GateKept
    <3> QED BY <2>4, <3>8, <3>9
  <2> QED BY <2>3, <2>4
<1>3. ASSUME NEW t \in Leases \ raced, lease[t].there, At(t) = {}
      PROVE  LET open == {[kind |-> deadline[n].kind, item |-> deadline[n].item, due |-> deadline[n].due]
                          : n \in Open(t)}
                 wanted == IF lease[t].archived THEN {}
                           ELSE ToSet(Term(lease[t].end, lease[t].period) \o Cheques(ActiveItems(t)))
                 stale == {d \in open : d.item # None /\ item[d.item] = "CANCELLED"}
             IN  /\ open \ stale = wanted
                 /\ lease[t].archived => stale = {}
                 /\ \A d \in wanted : d.kind = "NOTICE_GATE" => lease[t].gate = d.due
  <2>1. PICK open, wanted : open = Opened(t) /\ wanted = Wanted(t)  OBVIOUS
  <2>2. PICK stale : stale = {d \in open : d.item # None /\ item[d.item] = "CANCELLED"}  OBVIOUS
  <2>3. /\ open \ stale = wanted
        /\ lease[t].archived => stale = {}
        /\ \A d \in wanted : d.kind = "NOTICE_GATE" => lease[t].gate = d.due
      BY <1>2, <1>3, <2>1, <2>2
  <2> QED BY <2>1, <2>2, <2>3, Zenon DEF Opened, Wanted
<1> QED BY <1>1, <1>3, Zenon DEF DeadlinesFollow

\* What is open for a tenancy follows its dates and its payment items, once each, as soon as
\* nobody is at work on it, whatever was written meanwhile and however many requests there are.
THEOREM DeadlinesFollowHolds == DeadlinesAssumption /\ DeadlinesSpec => []DeadlinesFollow
<1>1. DeadlinesAssumption /\ DeadlinesInit => DeadlineInv  BY DeadlinesStart
<1>2. DeadlinesAssumption /\ DeadlineInv /\ [DeadlinesNext]_deadlineVars => DeadlineInv'
    BY DeadlinesStep
<1>3. DeadlinesAssumption /\ DeadlineInv => DeadlinesFollow  BY InvFollows
<1> QED BY <1>1, <1>2, <1>3, DeadlinesAssumption, PTL DEF DeadlinesSpec

-----------------------------------------------------------------------------
(* What a step leaves of the feed *)

NotesKeep ==
    \A n \in DOMAIN feed :
        /\ n \in DOMAIN feed' /\ feed'[n].user = feed[n].user /\ feed'[n].about = feed[n].about
        /\ feed[n].linked => feed'[n].linked
        /\ feed[n].email # "none" => feed'[n].email # "none"
JobKeeps(q) == at'[q] = at[q] /\ work'[q] = work[q]

LEMMA HasKept == NotesKeep => \A u, x, urgent : Has(u, x, urgent) => Has(u, x, urgent)'
BY DEF NotesKeep, Has

LEMMA RungsKept ==
    RowsKeep => \A x \in Rungs : x \in Rungs' /\ (Urgent(x)' <=> Urgent(x))
BY DEF RowsKeep, Rungs, Urgent

LEMMA WorkKept ==
    ASSUME NotesKeep, RowsKeep, NEW q \in Jobs, HasWork(q), JobKeeps(q)
    PROVE  HasWork(q)'
<1>1. PICK w : w = work[q]  OBVIOUS
<1>2. at'[q] = at[q] /\ work'[q] = w /\ (OnRung(q)' <=> OnRung(q))  BY <1>1 DEF JobKeeps, OnRung
<1>3. at[q] = "rung" \/ OnRung(q) => w.todo \subseteq Rungs' /\ w.today \in Int
    BY <1>1, RungsKept DEF HasWork
<1>4. at[q] \in Spreading =>
            /\ w.next \in {"idle", "evidence"} /\ w.category \in Sorts /\ w.urgent \in BOOLEAN
            /\ w.next = "idle" => w.about = <<>>
    BY <1>1 DEF HasWork
<1>5. OnRung(q) => w.about \in Rungs' /\ (w.urgent <=> Urgent(w.about)')
    BY <1>1, RungsKept DEF HasWork
<1>6. at[q] \in {"email", "link"} => w.item \in DOMAIN feed /\ w.item \in DOMAIN feed'
    BY <1>1 DEF HasWork, NotesKeep
<1>7. at[q] = "link" => feed'[w.item].email # "none"
    BY <1>1, <1>6 DEF HasWork, NotesKeep
<1>8. \A u : Getting(q, u) => Getting(q, u)'
    BY <1>1, <1>2, <1>6 DEF Getting, NotesKeep
<1>9. OnRung(q) => \A u \in Overseers : u \in w.users \/ Has(u, w.about, w.urgent)' \/ Getting(q, u)'
    BY <1>1, <1>8, HasKept DEF HasWork
<1>10. at[q] = "evidence" => w.users = {} /\ w.next = "evidence"
    BY <1>1 DEF HasWork
<1>11. at[q] \in {"send", "mark"} =>
            w.next \in {"flushDaily", "flushWeekly"} /\ w.chosen \subseteq DOMAIN feed'
    BY <1>1 DEF HasWork, NotesKeep
<1>12. (Overseers = Overseers') /\ (Sorts' = Sorts)  BY DEF Overseers, Sorts
<1> QED BY <1>2, <1>3, <1>4, <1>5, <1>6, <1>9, <1>10, <1>11, <1>12, <1>7 DEF HasWork

LEMMA ReachedKept ==
    ASSUME NotesKeep, RowsKeep, Reached, sent \subseteq Rungs, sent' = sent
    PROVE  Reached'
<1>1. \A x \in sent : (Urgent(x)' <=> Urgent(x))  BY RungsKept
<1>2. \A x \in sent : \A u \in Overseers : Has(u, x, Urgent(x))  BY DEF Reached
<1>3. \A x \in sent : \A u \in Overseers : \E n \in DOMAIN feed' :
        /\ feed'[n].user = u /\ feed'[n].about = x
        /\ Urgent(x) => feed'[n].linked /\ feed'[n].email # "none"
    BY <1>2 DEF Has, NotesKeep
<1>4. \A x \in sent : \A u \in Overseers : \E n \in DOMAIN feed' :
        /\ feed'[n].user = u /\ feed'[n].about = x
        /\ Urgent(x)' => feed'[n].linked /\ feed'[n].email # "none"
    BY <1>1, <1>3
<1> QED BY <1>4 DEF Reached, Has

\* A process takes up no daily job, and the others go on.
LEMMA SoleKept ==
    ASSUME Sole, \A q \in Jobs : AtWork(q)' => AtWork(q)
    PROVE  Sole'
BY DEF Sole

\* The mails of old items are as they were, and new items have none.
MailsKeep ==
    /\ \A n \in DOMAIN feed' : feed'[n].mailed = 0 \/
            (n \in DOMAIN feed /\ feed'[n].mailed = feed[n].mailed /\ feed'[n].digested = feed[n].digested)
    /\ \A n \in DOMAIN feed : feed'[n].mailed = feed[n].mailed

LEMMA MailedKept ==
    ASSUME MailedOnce, MailsKeep,
           \A q \in Jobs : at[q] = "mark" => at'[q] = "mark" /\ work'[q].chosen = work[q].chosen,
           \A q \in Jobs : at'[q] = "send" => \/ at[q] = "send" /\ work'[q].chosen = work[q].chosen
                                                 /\ work[q].chosen \subseteq DOMAIN feed
                                              \/ \A n \in work'[q].chosen : feed'[n].mailed = 0
    PROVE  MailedOnce'
<1>1. \A n \in DOMAIN feed' :
            feed'[n].mailed = 0 \/ (feed'[n].mailed = 1 /\ (feed'[n].digested
                \/ \E q \in Jobs : at'[q] = "mark" /\ n \in work'[q].chosen))
  <2> TAKE n \in DOMAIN feed'
  <2>1. CASE feed'[n].mailed = 0  BY <2>1
  <2>2. CASE feed'[n].mailed # 0
    <3>1. n \in DOMAIN feed /\ feed'[n].mailed = feed[n].mailed /\ feed'[n].digested = feed[n].digested
        BY <2>2 DEF MailsKeep
    <3> QED BY <2>2, <3>1 DEF MailedOnce
  <2> QED BY <2>1, <2>2
<1>2. \A q \in Jobs : at'[q] = "send" => \A n \in work'[q].chosen : feed'[n].mailed = 0
    BY DEF MailedOnce, MailsKeep
<1> QED BY <1>1, <1>2 DEF MailedOnce

\* No item is added, and nobody starts or ends telling.
LEMMA ToldKept ==
    ASSUME ToldFirst, NotesKeep, DOMAIN feed' = DOMAIN feed, sent' = sent,
           \A q \in Jobs : /\ OnRung(q)' <=> OnRung(q)
                           /\ OnRung(q) => work'[q].about = work[q].about /\ work'[q].users = work[q].users
    PROVE  ToldFirst'
<1>1. \A n \in DOMAIN feed : feed'[n].user = feed[n].user /\ feed'[n].about = feed[n].about
    BY DEF NotesKeep
<1>2. \A q \in Jobs : OnRung(q)' => work'[q].about \notin sent'  BY DEF ToldFirst
<1>3. \A n \in DOMAIN feed' : feed'[n].about = <<>> \/ feed'[n].about \in sent'
            \/ \E q \in Jobs : OnRung(q)' /\ work'[q].about = feed'[n].about /\ feed'[n].user \notin work'[q].users
    BY <1>1 DEF ToldFirst
<1>4. \A m, n \in DOMAIN feed' :
            feed'[m].user = feed'[n].user /\ feed'[m].about = feed'[n].about /\ feed'[m].about # <<>> => m = n
    BY <1>1 DEF ToldFirst
<1> QED BY <1>2, <1>3, <1>4 DEF ToldFirst

\* A step that is of one process, or of none.
LEMMA FeedStepOf ==
    ASSUME FeedInv, RowsKeep, NotesKeep, Boards', AboutRows', Reached', NEW ps \in SUBSET Jobs,
           \A q \in Jobs \ ps : JobKeeps(q), \A q \in ps : HasWork(q)',
           beside => beside', died => died',
           ~beside' => Sole', ~beside' /\ ~died' => MailedOnce' /\ ToldFirst'
    PROVE  FeedInv'
<1>1. \A q \in Jobs : HasWork(q)'
    BY WorkKept DEF FeedInv
<1> QED BY <1>1 DEF FeedInv

LEMMA FeedStepOfOne ==
    ASSUME FeedInv, RowsKeep, NotesKeep, Boards', AboutRows', Reached', NEW p \in Jobs,
           \A q \in Jobs \ {p} : JobKeeps(q), HasWork(p)',
           beside => beside', died => died',
           ~beside' => Sole', ~beside' /\ ~died' => MailedOnce' /\ ToldFirst'
    PROVE  FeedInv'
<1>1. \A q \in Jobs : HasWork(q)'
    BY WorkKept DEF FeedInv
<1> QED BY <1>1 DEF FeedInv

-----------------------------------------------------------------------------
(* Each step of the jobs *)

Steady(p) ==
    /\ AtWork(p)' => AtWork(p)
    /\ OnRung(p)' <=> OnRung(p)
    /\ OnRung(p) => work'[p].about = work[p].about /\ work'[p].users = work[p].users

LEMMA Placed ==
    ASSUME Boards, NEW p \in Jobs, NEW w, DOMAIN w = WorkFields, work' = [work EXCEPT ![p] = w],
           NEW to \in {"idle"} \cup DailyJob \cup Spreading, at' = [at EXCEPT ![p] = to]
    PROVE  /\ work'[p] = w /\ at'[p] = to /\ \A q \in Jobs \ {p} : JobKeeps(q)
           /\ at' \in [Jobs -> {"idle"} \cup DailyJob \cup Spreading]
           /\ work' = [q \in Jobs |-> work'[q]] /\ \A q \in Jobs : DOMAIN work'[q] = WorkFields
BY DEF Boards, JobKeeps

LEMMA Unwritten ==
    /\ UNCHANGED feed /\ Boards => NotesKeep /\ MailsKeep
    /\ UNCHANGED deadline => RowsKeep
BY DEF NotesKeep, MailsKeep, RowsKeep

\* A step of one job that writes neither the feed nor the evidence.
LEMMA Moved ==
    ASSUME FeedInv, NEW p \in Jobs, NEW w, DOMAIN w = WorkFields, work' = [work EXCEPT ![p] = w],
           NEW to \in {"idle"} \cup DailyJob \cup Spreading, at' = [at EXCEPT ![p] = to],
           UNCHANGED <<feed, deadline, sent, today, beside, died>>, HasWork(p)', Steady(p),
           at[p] # "mark", to = "send" /\ ~beside /\ ~died => \A n \in w.chosen : feed[n].mailed = 0
    PROVE  FeedInv'
<1>1. Boards /\ AboutRows /\ Reached  BY DEF FeedInv
<1>2. /\ work'[p] = w /\ at'[p] = to /\ \A q \in Jobs \ {p} : JobKeeps(q)
      /\ at' \in [Jobs -> {"idle"} \cup DailyJob \cup Spreading]
      /\ work' = [q \in Jobs |-> work'[q]] /\ \A q \in Jobs : DOMAIN work'[q] = WorkFields
    BY <1>1, Placed
<1>3. NotesKeep /\ MailsKeep /\ RowsKeep  BY <1>1, Unwritten
<1>4. Rungs' = Rungs  BY DEF Rungs
<1>5. Boards' /\ AboutRows'  BY <1>1, <1>2, <1>4 DEF Boards, AboutRows
<1>6. Reached'  BY <1>1, <1>3, ReachedKept DEF Boards
<1>7. \A q \in Jobs : (AtWork(q)' => AtWork(q))
                      /\ (OnRung(q)' <=> OnRung(q))
                      /\ (OnRung(q) => work'[q].about = work[q].about /\ work'[q].users = work[q].users)
    BY <1>2 DEF JobKeeps, AtWork, OnRung, Steady
<1>8. ~beside' => Sole'  BY <1>7, SoleKept DEF FeedInv
<1>9. ~beside' /\ ~died' => MailedOnce' /\ ToldFirst'
  <2> SUFFICES ASSUME ~beside, ~died PROVE MailedOnce' /\ ToldFirst'
      OBVIOUS
  <2>1. MailedOnce /\ ToldFirst /\ \A q \in Jobs : HasWork(q)  BY DEF FeedInv
  <2>2. \A q \in Jobs : at[q] = "mark" => at'[q] = "mark" /\ work'[q].chosen = work[q].chosen
      BY <1>2 DEF JobKeeps
  <2>3. \A q \in Jobs : at'[q] = "send" => \/ at[q] = "send" /\ work'[q].chosen = work[q].chosen
                                                 /\ work[q].chosen \subseteq DOMAIN feed
                                           \/ \A n \in work'[q].chosen : feed'[n].mailed = 0
    <3> TAKE q \in Jobs
    <3>1. CASE q = p  BY <1>2, <3>1
    <3>2. CASE q # p  BY <1>2, <2>1, <3>2 DEF JobKeeps, HasWork
    <3> QED BY <3>1, <3>2
  <2>4. MailedOnce'  BY <1>3, <2>1, <2>2, <2>3, MailedKept
  <2>5. ToldFirst'  BY <1>3, <1>7, <2>1, ToldKept
  <2> QED BY <2>4, <2>5
<1> QED BY <1>2, <1>3, <1>5, <1>6, <1>8, <1>9, FeedStepOfOne

LEMMA LadderRead ==
    ASSUME FeedInv, DeadlineInv, NEW p \in Jobs, ReadLadder(p)
    PROVE  FeedInv'
<1>1. PICK todo : todo = {<<n, deadline[n].due - work[p].today>> :
                      n \in {n \in DOMAIN deadline :
                             /\ deadline[n].status = "OPEN"
                             /\ deadline[n].kind = Head(work[p].ladders)
                             /\ deadline[n].due - work[p].today \in LADDERS[deadline[n].kind]}}
    OBVIOUS
<1>2. PICK w : w = [work[p] EXCEPT !.ladders = Tail(@), !.todo = todo]  OBVIOUS
<1>3. /\ at[p] = "rung" /\ work' = [work EXCEPT ![p] = w]
      /\ UNCHANGED <<feed, deadline, sent, today, beside, died, at>>
    BY <1>1, <1>2 DEF ReadLadder, Keep, deadlineVars
<1>4. Boards /\ HasWork(p) /\ \A n \in DOMAIN deadline : deadline[n] \in Entries
    BY DEF FeedInv, DeadlineInv, Tables
<1>5. /\ DOMAIN w = WorkFields /\ w.todo = todo /\ w.today = work[p].today
    BY <1>2, <1>4 DEF Boards, WorkFields
<1>6. at' = [at EXCEPT ![p] = "rung"] /\ "rung" \in DailyJob  BY <1>3, <1>4 DEF Boards, DailyJob
<1>7. work'[p] = w /\ at'[p] = "rung"  BY <1>3, <1>4, <1>5, <1>6, Placed
<1>8. ~OnRung(p) /\ ~OnRung(p)' /\ AtWork(p)  BY <1>3, <1>7 DEF OnRung, Spreading, AtWork, DailyJob
<1>9. w.today \in Int  BY <1>3, <1>4, <1>5 DEF HasWork
<1>10. \A n \in DOMAIN deadline : deadline[n].due - work[p].today \in Int
    BY <1>4, <1>5, <1>9 DEF Entries
<1>11. todo \subseteq Rungs'  BY <1>1, <1>3, <1>10 DEF Rungs
<1>12. HasWork(p)'  BY <1>5, <1>7, <1>8, <1>9, <1>11 DEF HasWork, Spreading
<1> QED BY <1>3, <1>5, <1>6, <1>8, <1>12, Moved DEF Steady

LEMMA LadderEnds ==
    ASSUME FeedInv, NEW p \in Jobs, LadderDone(p)
    PROVE  FeedInv'
<1>1. PICK w : w = work[p]  OBVIOUS
<1>2. /\ at[p] = "rung" /\ at' = [at EXCEPT ![p] = "daily"]
      /\ UNCHANGED <<feed, deadline, sent, today, beside, died>>
    BY DEF LadderDone, Go, deadlineVars
<1>3. Boards  BY DEF FeedInv
<1>4. work' = [work EXCEPT ![p] = w] /\ DOMAIN w = WorkFields
    BY <1>1, <1>3 DEF Boards, LadderDone
<1>5. "daily" \in DailyJob  BY DEF DailyJob
<1>6. at'[p] = "daily"  BY <1>2, <1>3, <1>4, <1>5, Placed
<1>7. ~OnRung(p) /\ ~OnRung(p)' /\ AtWork(p)  BY <1>2, <1>6 DEF OnRung, Spreading, AtWork, DailyJob
<1>8. HasWork(p)'  BY <1>6, <1>7 DEF HasWork, Spreading
<1>9. Steady(p)  BY <1>7 DEF Steady
<1>10. "daily" \in {"idle"} \cup DailyJob \cup Spreading /\ "daily" # "send" /\ at[p] # "mark"
    BY <1>2, <1>5
<1> QED BY <1>2, <1>4, <1>8, <1>9, <1>10, Moved

LEMMA RungSkipped ==
    ASSUME FeedInv, NEW p \in Jobs, NEW x, SkipRung(p, x)
    PROVE  FeedInv'
<1>1. PICK w : w = [work[p] EXCEPT !.todo = @ \ {x}]  OBVIOUS
<1>2. /\ at[p] = "rung" /\ work' = [work EXCEPT ![p] = w]
      /\ UNCHANGED <<feed, deadline, sent, today, beside, died, at>>
    BY <1>1 DEF SkipRung, Keep, deadlineVars
<1>3. Boards /\ HasWork(p)  BY DEF FeedInv
<1>4. DOMAIN w = WorkFields /\ w.todo = work[p].todo \ {x} /\ w.today = work[p].today
    BY <1>1, <1>3 DEF Boards, WorkFields
<1>5. at' = [at EXCEPT ![p] = "rung"] /\ "rung" \in DailyJob  BY <1>2, <1>3 DEF Boards, DailyJob
<1>6. work'[p] = w /\ at'[p] = "rung"  BY <1>2, <1>3, <1>4, <1>5, Placed
<1>7. ~OnRung(p) /\ ~OnRung(p)' /\ AtWork(p)  BY <1>2, <1>6 DEF OnRung, Spreading, AtWork, DailyJob
<1>8. w.todo \subseteq Rungs' /\ w.today \in Int  BY <1>2, <1>3, <1>4 DEF HasWork, Rungs
<1>9. HasWork(p)'  BY <1>6, <1>7, <1>8 DEF HasWork, Spreading
<1> QED BY <1>2, <1>4, <1>5, <1>7, <1>9, Moved DEF Steady

Rest == UNCHANGED <<deadlineVars, today, sent>>

LEMMA ToldEnds ==
    ASSUME FeedInv, NEW p \in Jobs, Told(p), Rest
    PROVE  FeedInv'
<1>1. PICK w : w = IF work[p].next = "idle" THEN Blank ELSE work[p]  OBVIOUS
<1>2. PICK to : to = work[p].next  OBVIOUS
<1>3. Boards /\ HasWork(p)  BY DEF FeedInv
<1>4. /\ at[p] = "tell" /\ at' = [at EXCEPT ![p] = to] /\ work[p].users = {}
      /\ UNCHANGED <<feed, deadline, sent, today, beside, died>>
    BY <1>2 DEF Told, Go, Rest, deadlineVars
<1>5. to \in {"idle", "evidence"} /\ to \in {"idle"} \cup DailyJob \cup Spreading
    BY <1>2, <1>3, <1>4 DEF HasWork, Spreading, DailyJob
<1>6. work' = [work EXCEPT ![p] = w]
  <2>1. CASE to = "idle"  BY <1>1, <1>2, <2>1 DEF Told, Keep
  <2>2. CASE to # "idle"
    <3>1. w = work[p] /\ work' = work  BY <1>1, <1>2, <2>2 DEF Told
    <3>2. work = [q \in Jobs |-> work[q]]  BY <1>3 DEF Boards
    <3> QED BY <3>1, <3>2
  <2> QED BY <2>1, <2>2
<1>7. DOMAIN w = WorkFields
  <2>1. DOMAIN Blank = WorkFields  BY DEF Blank, WorkFields
  <2> QED BY <1>1, <1>3, <2>1 DEF Boards
<1>8. work'[p] = w /\ at'[p] = to  BY <1>3, <1>4, <1>5, <1>6, <1>7, Placed
<1>9. to = "idle" => ~OnRung(p) /\ ~OnRung(p)' /\ ~AtWork(p)'
    BY <1>2, <1>4, <1>8 DEF OnRung, AtWork, Spreading, DailyJob
<1>10. to = "evidence" => OnRung(p) /\ OnRung(p)' /\ AtWork(p) /\ w = work[p] /\ w.next = "evidence"
    BY <1>1, <1>2, <1>4, <1>8 DEF OnRung, AtWork, Spreading, DailyJob
<1>11. Steady(p)  BY <1>5, <1>8, <1>9, <1>10 DEF Steady
<1>12. HasWork(p)'
  <2>1. CASE to = "idle"  BY <1>8, <1>9, <2>1 DEF HasWork, Spreading
  <2>2. CASE to = "evidence"
    <3>1. w.todo \subseteq Rungs' /\ w.today \in Int /\ w.about \in Rungs' /\ (w.urgent <=> Urgent(w.about)')
        BY <1>3, <1>4, <1>10, <2>2 DEF HasWork, Rungs, Urgent
    <3>2. \A u \in Overseers : Has(u, w.about, w.urgent)'
      <4>1. \A u \in Overseers : Has(u, w.about, w.urgent)
          BY <1>3, <1>4, <1>10, <2>2 DEF HasWork, Getting
      <4> QED BY <1>4, <4>1 DEF Has
    <3> QED BY <1>4, <1>8, <1>10, <2>2, <3>1, <3>2 DEF HasWork, Spreading
  <2> QED BY <1>5, <2>1, <2>2
<1>13. at[p] # "mark" /\ to # "send"  BY <1>4, <1>5
<1> QED BY <1>4, <1>5, <1>6, <1>7, <1>11, <1>12, <1>13, Moved

LEMMA EventTold ==
    ASSUME FeedInv, NEW p \in Jobs, NEW users \in SUBSET Users, NEW c \in Categories, NEW urgent \in BOOLEAN,
           Event(p, users, <<>>, c, urgent), Rest
    PROVE  FeedInv'
<1>1. PICK w : w = [Blank EXCEPT !.users = users, !.about = <<>>, !.category = c,
                                 !.urgent = urgent, !.prefs = cadence, !.next = "idle"]
    OBVIOUS
<1>2. /\ at[p] = "idle" /\ at' = [at EXCEPT ![p] = "tell"] /\ work' = [work EXCEPT ![p] = w]
      /\ UNCHANGED <<feed, deadline, sent, today, beside, died>>
    BY <1>1 DEF Event, Keep, Rest, deadlineVars
<1>3. Boards  BY DEF FeedInv
<1>4. DOMAIN w = WorkFields /\ w.next = "idle" /\ w.about = <<>> /\ w.category = c /\ w.urgent = urgent
    BY <1>1 DEF Blank, WorkFields
<1>5. "tell" \in {"idle"} \cup DailyJob \cup Spreading  BY DEF Spreading
<1>6. work'[p] = w /\ at'[p] = "tell"  BY <1>2, <1>3, <1>4, <1>5, Placed
<1>7. ~OnRung(p) /\ ~OnRung(p)' /\ ~AtWork(p)'  BY <1>2, <1>4, <1>6 DEF OnRung, Spreading, AtWork, DailyJob
<1>8. HasWork(p)'  BY <1>4, <1>6, <1>7 DEF HasWork, Spreading, Sorts
<1>9. Steady(p) /\ at[p] # "mark"  BY <1>2, <1>7 DEF Steady
<1> QED BY <1>2, <1>4, <1>5, <1>8, <1>9, Moved

LEMMA DigestsRun ==
    ASSUME FeedInv, NEW p \in Jobs, NEW run \in Runs, RunDigests(p, run), Rest
    PROVE  FeedInv'
<1>1. PICK users : users = {feed[n].user : n \in {n \in DOMAIN feed : ~feed[n].digested}}
                           \cup (IF run = "weekly" THEN Overseers ELSE {})
    OBVIOUS
<1>2. PICK w : w = [work[p] EXCEPT !.todo = users, !.prefs = cadence]  OBVIOUS
<1>3. PICK to : to = IF run = "daily" THEN "flushDaily" ELSE "flushWeekly"  OBVIOUS
<1>4. /\ at[p] = run /\ at' = [at EXCEPT ![p] = to] /\ work' = [work EXCEPT ![p] = w]
      /\ UNCHANGED <<feed, deadline, sent, today, beside, died>>
    BY <1>1, <1>2, <1>3 DEF RunDigests, Go, Keep, Rest, deadlineVars
<1>5. Boards  BY DEF FeedInv
<1>6. DOMAIN w = WorkFields  BY <1>2, <1>5 DEF Boards, WorkFields
<1>7. to \in {"flushDaily", "flushWeekly"} /\ to \in {"idle"} \cup DailyJob \cup Spreading
    BY <1>3 DEF DailyJob
<1>8. work'[p] = w /\ at'[p] = to  BY <1>4, <1>5, <1>6, <1>7, Placed
<1>9. ~OnRung(p) /\ ~OnRung(p)' /\ AtWork(p)
    BY <1>4, <1>7, <1>8 DEF OnRung, Spreading, AtWork, DailyJob, Runs
<1>10. HasWork(p)'  BY <1>7, <1>8, <1>9 DEF HasWork, Spreading
<1>11. Steady(p) /\ at[p] # "mark" /\ to # "send"  BY <1>4, <1>7, <1>9 DEF Steady, Runs
<1> QED BY <1>4, <1>6, <1>7, <1>10, <1>11, Moved

LEMMA DigestsEnd ==
    ASSUME FeedInv, NEW p \in Jobs, Flushed(p), Rest
    PROVE  FeedInv'
<1>1. PICK w : w = IF at[p] = "flushDaily" THEN [work[p] EXCEPT !.prefs = Nobody, !.next = Nobody] ELSE Blank
    OBVIOUS
<1>2. PICK to : to = IF at[p] = "flushDaily" THEN "weekly" ELSE "idle"  OBVIOUS
<1>3. /\ at[p] \in {"flushDaily", "flushWeekly"} /\ at' = [at EXCEPT ![p] = to]
      /\ work' = [work EXCEPT ![p] = w]
      /\ UNCHANGED <<feed, deadline, sent, today, beside, died>>
    BY <1>1, <1>2 DEF Flushed, Keep, Rest, deadlineVars
<1>4. Boards  BY DEF FeedInv
<1>5. DOMAIN w = WorkFields
  <2>1. DOMAIN Blank = WorkFields  BY DEF Blank, WorkFields
  <2> QED BY <1>1, <1>4, <2>1 DEF Boards, WorkFields
<1>6. to \in {"weekly", "idle"} /\ to \in {"idle"} \cup DailyJob \cup Spreading  BY <1>2 DEF DailyJob
<1>7. work'[p] = w /\ at'[p] = to  BY <1>3, <1>4, <1>5, <1>6, Placed
<1>8. ~OnRung(p) /\ ~OnRung(p)' /\ AtWork(p)
    BY <1>3, <1>6, <1>7 DEF OnRung, Spreading, AtWork, DailyJob
<1>9. HasWork(p)'  BY <1>6, <1>7, <1>8 DEF HasWork, Spreading
<1>10. Steady(p) /\ at[p] # "mark" /\ to # "send"  BY <1>3, <1>6, <1>8 DEF Steady
<1> QED BY <1>3, <1>5, <1>6, <1>9, <1>10, Moved

LEMMA DigestChosen ==
    ASSUME FeedInv, NEW p \in Jobs, NEW u \in Users, FlushDigest(p, u), Rest
    PROVE  FeedInv'
<1>1. PICK run : run = Flushing(p)  OBVIOUS
<1>2. PICK all : all = Selected(u, run, work[p].prefs)  OBVIOUS
<1>3. PICK send : send = (~Throttled(u, run) /\ (all # {} \/ Summary(u, run, work[p].prefs)))  OBVIOUS
<1>4. PICK chosen : chosen = IF send THEN all ELSE {}  OBVIOUS
<1>5. PICK w : w = [work[p] EXCEPT !.todo = @ \ {u}, !.next = at[p],
                                   !.user = IF send THEN u ELSE Nobody, !.chosen = chosen]
    OBVIOUS
<1>6. PICK to : to = IF send THEN "send" ELSE at[p]  OBVIOUS
<1>7. /\ at[p] \in {"flushDaily", "flushWeekly"} /\ UNCHANGED <<feed, deadline, sent, today, beside, died>>
    BY Zenon DEF FlushDigest, Rest, deadlineVars
<1>8. at' = [at EXCEPT ![p] = to] /\ work' = [work EXCEPT ![p] = w]
    BY <1>1, <1>2, <1>3, <1>4, <1>5, <1>6 DEF FlushDigest, Keep
<1>9. Boards  BY DEF FeedInv
<1>10. DOMAIN w = WorkFields /\ w.next = at[p] /\ w.chosen = chosen
    BY <1>5, <1>9 DEF Boards, WorkFields
<1>11. to \in {"send", "flushDaily", "flushWeekly"} /\ to \in {"idle"} \cup DailyJob \cup Spreading
    BY <1>6, <1>7 DEF DailyJob
<1>12. work'[p] = w /\ at'[p] = to  BY <1>8, <1>9, <1>10, <1>11, Placed
<1>13. ~OnRung(p) /\ ~OnRung(p)' /\ AtWork(p)
    BY <1>7, <1>11, <1>12 DEF OnRung, Spreading, AtWork, DailyJob
<1>14. \A n \in chosen : n \in DOMAIN feed /\ ~feed[n].digested  BY <1>2, <1>4 DEF Selected
<1>15. HasWork(p)'  BY <1>7, <1>10, <1>11, <1>12, <1>13, <1>14 DEF HasWork, Spreading
<1>16. ~beside /\ ~died => \A n \in chosen : feed[n].mailed = 0
  <2> SUFFICES ASSUME ~beside, ~died, NEW n \in chosen PROVE feed[n].mailed = 0
      OBVIOUS
  <2>1. Sole /\ MailedOnce  BY DEF FeedInv
  <2>2. \A q \in Jobs : at[q] # "mark"
      BY <1>7, <1>13, <2>1 DEF Sole, AtWork, DailyJob
  <2> QED BY <1>14, <2>1, <2>2 DEF MailedOnce
<1>17. Steady(p) /\ at[p] # "mark"  BY <1>7, <1>13 DEF Steady
<1> QED BY <1>7, <1>8, <1>10, <1>11, <1>15, <1>16, <1>17, Moved

LEMMA JobsRun ==
    ASSUME FeedInv, NEW p \in Jobs, RunDailyJobs(p)
    PROVE  FeedInv'
<1>1. PICK w : w = [Blank EXCEPT !.prefs = cadence, !.today = today,
                             !.ladders = <<"NOTICE_GATE", "CHEQUE_DUE", "PERMIT_EXPIRY">>]
    OBVIOUS
<1>2. PICK to : to = IF Overseers = {} THEN "daily" ELSE "rung"  OBVIOUS
<1>3. /\ at[p] = "idle" /\ at' = [at EXCEPT ![p] = to] /\ work' = [work EXCEPT ![p] = w]
      /\ beside' = (beside \/ \E q \in Jobs \ {p} : AtWork(q))
      /\ UNCHANGED <<feed, deadline, sent, today, died>>
    BY <1>1, <1>2 DEF RunDailyJobs, Go, Keep, deadlineVars
<1>4. Boards /\ AboutRows /\ Reached /\ \A q \in Jobs : HasWork(q)  BY DEF FeedInv
<1>5. DOMAIN w = WorkFields /\ w.todo = {} /\ w.today = today  BY <1>1 DEF Blank, WorkFields
<1>6. to \in {"daily", "rung"} /\ to \in {"idle"} \cup DailyJob \cup Spreading  BY <1>2 DEF DailyJob
<1>7. /\ work'[p] = w /\ at'[p] = to /\ \A q \in Jobs \ {p} : JobKeeps(q)
      /\ at' \in [Jobs -> {"idle"} \cup DailyJob \cup Spreading]
      /\ work' = [q \in Jobs |-> work'[q]] /\ \A q \in Jobs : DOMAIN work'[q] = WorkFields
    BY <1>3, <1>4, <1>5, <1>6, Placed
<1>8. ~OnRung(p) /\ ~OnRung(p)'  BY <1>3, <1>6, <1>7 DEF OnRung, Spreading
<1>9. HasWork(p)'  BY <1>3, <1>4, <1>5, <1>6, <1>7, <1>8 DEF HasWork, Spreading, Boards
<1>10. NotesKeep /\ MailsKeep /\ RowsKeep  BY <1>3, <1>4, Unwritten
<1>11. Boards' /\ AboutRows'  BY <1>3, <1>4, <1>7 DEF Boards, AboutRows, Rungs
<1>12. Reached'  BY <1>3, <1>4, <1>10, ReachedKept DEF Boards
<1>13. ~beside' => Sole'
  <2> SUFFICES ASSUME ~beside' PROVE Sole'
      OBVIOUS
  <2>1. \A q \in Jobs \ {p} : ~AtWork(q)  BY <1>3
  <2>2. \A q \in Jobs \ {p} : ~AtWork(q)'  BY <1>7, <2>1 DEF JobKeeps, AtWork
  <2> QED BY <2>2 DEF Sole
<1>14. ~beside' /\ ~died' => MailedOnce' /\ ToldFirst'
  <2> SUFFICES ASSUME ~beside, ~died PROVE MailedOnce' /\ ToldFirst'
      BY <1>3, <1>4 DEF Boards
  <2>1. MailedOnce /\ ToldFirst  BY DEF FeedInv
  <2>2. \A q \in Jobs : at[q] = "mark" => at'[q] = "mark" /\ work'[q].chosen = work[q].chosen
      BY <1>3, <1>7 DEF JobKeeps
  <2>3. \A q \in Jobs : at'[q] = "send" => at[q] = "send" /\ work'[q].chosen = work[q].chosen
                                                 /\ work[q].chosen \subseteq DOMAIN feed
      BY <1>4, <1>6, <1>7 DEF JobKeeps, HasWork
  <2>4. MailedOnce'  BY <1>10, <2>1, <2>2, <2>3, MailedKept
  <2>5. \A q \in Jobs : /\ OnRung(q)' <=> OnRung(q)
                        /\ OnRung(q) => work'[q].about = work[q].about /\ work'[q].users = work[q].users
      BY <1>7, <1>8 DEF JobKeeps, OnRung
  <2>6. ToldFirst'  BY <1>3, <1>10, <2>1, <2>5, ToldKept
  <2> QED BY <2>4, <2>6
<1> QED BY <1>3, <1>7, <1>9, <1>10, <1>11, <1>12, <1>13, <1>14, FeedStepOfOne

LEMMA RungTold ==
    ASSUME FeedInv, NEW p \in Jobs, NEW x \in work[p].todo, TellRung(p, x)
    PROVE  FeedInv'
<1>1. PICK w : w = [work[p] EXCEPT !.users = Overseers, !.about = x, !.category = "DEADLINES",
                               !.urgent = Urgent(x), !.next = "evidence"]
    OBVIOUS
<1>2. /\ at[p] = "rung" /\ at' = [at EXCEPT ![p] = "tell"] /\ work' = [work EXCEPT ![p] = w]
      /\ UNCHANGED <<feed, deadline, sent, today, beside, died>> /\ x \notin sent
    BY <1>1 DEF TellRung, Tell, Go, Keep, Already, deadlineVars
<1>3. Boards /\ AboutRows /\ Reached /\ \A q \in Jobs : HasWork(q)  BY DEF FeedInv
<1>4. DOMAIN w = WorkFields /\ w.users = Overseers /\ w.about = x /\ w.category = "DEADLINES"
      /\ w.urgent = Urgent(x) /\ w.next = "evidence" /\ w.todo = work[p].todo /\ w.today = work[p].today
    BY <1>1, <1>3 DEF Boards, WorkFields
<1>5. "tell" \in {"idle"} \cup DailyJob \cup Spreading  BY DEF Spreading
<1>6. /\ work'[p] = w /\ at'[p] = "tell" /\ \A q \in Jobs \ {p} : JobKeeps(q)
      /\ at' \in [Jobs -> {"idle"} \cup DailyJob \cup Spreading]
      /\ work' = [q \in Jobs |-> work'[q]] /\ \A q \in Jobs : DOMAIN work'[q] = WorkFields
    BY <1>2, <1>3, <1>4, <1>5, Placed
<1>7. ~OnRung(p) /\ OnRung(p)' /\ AtWork(p)  BY <1>2, <1>4, <1>6 DEF OnRung, Spreading, AtWork, DailyJob
<1>8. x \in Rungs /\ w.todo \subseteq Rungs /\ w.today \in Int  BY <1>2, <1>3, <1>4 DEF HasWork
<1>9. Rungs' = Rungs /\ (Urgent(x)' <=> Urgent(x)) /\ Urgent(x) \in BOOLEAN
    BY <1>2 DEF Rungs, Urgent
<1>10. HasWork(p)'
    BY <1>4, <1>6, <1>7, <1>8, <1>9 DEF HasWork, Spreading, Sorts, Overseers
<1>11. NotesKeep /\ MailsKeep /\ RowsKeep  BY <1>2, <1>3, Unwritten
<1>12. Boards' /\ AboutRows'  BY <1>2, <1>3, <1>6, <1>9 DEF Boards, AboutRows
<1>13. Reached'  BY <1>2, <1>3, <1>11, ReachedKept DEF Boards
<1>14. \A q \in Jobs : AtWork(q)' => AtWork(q)  BY <1>6, <1>7 DEF JobKeeps, AtWork
<1>15. ~beside' => Sole'  BY <1>2, <1>14, SoleKept DEF FeedInv
<1>16. ~beside' /\ ~died' => MailedOnce' /\ ToldFirst'
  <2> SUFFICES ASSUME ~beside, ~died PROVE MailedOnce' /\ ToldFirst'
      BY <1>2
  <2>1. MailedOnce /\ ToldFirst /\ Sole  BY DEF FeedInv
  <2>2. \A q \in Jobs : at[q] = "mark" => at'[q] = "mark" /\ work'[q].chosen = work[q].chosen
      BY <1>2, <1>6 DEF JobKeeps
  <2>3. \A q \in Jobs : at'[q] = "send" => at[q] = "send" /\ work'[q].chosen = work[q].chosen
                                                 /\ work[q].chosen \subseteq DOMAIN feed
      BY <1>3, <1>6 DEF JobKeeps, HasWork
  <2>4. MailedOnce'  BY <1>11, <2>1, <2>2, <2>3, MailedKept
  <2>5. \A q \in Jobs : OnRung(q) => AtWork(q)  BY DEF OnRung, AtWork, DailyJob, Spreading
  <2>6. \A q \in Jobs : ~OnRung(q)  BY <1>7, <2>1, <2>5 DEF Sole
  <2>7. \A q \in Jobs \ {p} : ~OnRung(q)'  BY <1>6, <2>6 DEF JobKeeps, OnRung
  <2>8. \A n \in DOMAIN feed : feed[n].about = <<>> \/ feed[n].about \in sent  BY <2>1, <2>6 DEF ToldFirst
  <2>9. \A q \in Jobs : OnRung(q)' => work'[q].about \notin sent'  BY <1>2, <1>4, <1>6, <2>7
  <2> QED BY <1>2, <2>1, <2>4, <2>8, <2>9 DEF ToldFirst
<1> QED BY <1>2, <1>6, <1>10, <1>11, <1>12, <1>13, <1>15, <1>16, FeedStepOfOne

LEMMA ReminderRecorded ==
    ASSUME FeedInv, NEW p \in Jobs, RecordReminder(p)
    PROVE  FeedInv'
<1>1. PICK x : x = work[p].about  OBVIOUS
<1>2. PICK w : w = [work[p] EXCEPT !.todo = @ \ {x}, !.next = Nobody]  OBVIOUS
<1>3. /\ at[p] = "evidence" /\ at' = [at EXCEPT ![p] = "rung"] /\ work' = [work EXCEPT ![p] = w]
      /\ UNCHANGED <<feed, deadline, today, beside, died>> /\ sent' = sent \cup {x}
    BY <1>1, <1>2 DEF RecordReminder, Go, Keep, deadlineVars
<1>4. Boards /\ AboutRows /\ Reached /\ \A q \in Jobs : HasWork(q)  BY DEF FeedInv
<1>5. DOMAIN w = WorkFields /\ w.todo = work[p].todo \ {x} /\ w.today = work[p].today
    BY <1>2, <1>4 DEF Boards, WorkFields
<1>6. "rung" \in {"idle"} \cup DailyJob \cup Spreading  BY DEF DailyJob
<1>7. /\ work'[p] = w /\ at'[p] = "rung" /\ \A q \in Jobs \ {p} : JobKeeps(q)
      /\ at' \in [Jobs -> {"idle"} \cup DailyJob \cup Spreading]
      /\ work' = [q \in Jobs |-> work'[q]] /\ \A q \in Jobs : DOMAIN work'[q] = WorkFields
    BY <1>3, <1>4, <1>5, <1>6, Placed
<1>8. OnRung(p) /\ ~OnRung(p)' /\ AtWork(p)  BY <1>3, <1>7 DEF OnRung, Spreading, AtWork, DailyJob
<1>9. /\ x \in Rungs /\ w.todo \subseteq Rungs /\ w.today \in Int /\ (work[p].urgent <=> Urgent(x))
      /\ \A u \in Overseers : Has(u, x, work[p].urgent)
    BY <1>1, <1>3, <1>4, <1>5, <1>8 DEF HasWork, Getting
<1>10. Rungs' = Rungs /\ \A y : (Urgent(y)' <=> Urgent(y)) BY <1>3 DEF Rungs, Urgent
<1>11. HasWork(p)'  BY <1>7, <1>8, <1>9, <1>10 DEF HasWork, Spreading
<1>12. NotesKeep /\ MailsKeep /\ RowsKeep  BY <1>3, <1>4, Unwritten
<1>13. Boards' /\ AboutRows'  BY <1>3, <1>4, <1>7, <1>9, <1>10 DEF Boards, AboutRows
<1>14. Reached'
  <2>1. \A u \in Overseers : Has(u, x, Urgent(x))  BY <1>9 DEF Has
  <2>2. \A y \in sent' : \A u \in Overseers : Has(u, y, Urgent(y))  BY <1>3, <1>4, <2>1 DEF Reached
  <2> QED BY <1>3, <1>10, <2>2 DEF Reached, Has
<1>15. \A q \in Jobs : AtWork(q)' => AtWork(q)  BY <1>7, <1>8 DEF JobKeeps, AtWork
<1>16. ~beside' => Sole'  BY <1>3, <1>15, SoleKept DEF FeedInv
<1>17. ~beside' /\ ~died' => MailedOnce' /\ ToldFirst'
  <2> SUFFICES ASSUME ~beside, ~died PROVE MailedOnce' /\ ToldFirst'
      BY <1>3
  <2>1. MailedOnce /\ ToldFirst /\ Sole  BY DEF FeedInv
  <2>2. \A q \in Jobs : at[q] = "mark" => at'[q] = "mark" /\ work'[q].chosen = work[q].chosen
      BY <1>3, <1>7 DEF JobKeeps
  <2>3. \A q \in Jobs : at'[q] = "send" => at[q] = "send" /\ work'[q].chosen = work[q].chosen
                                                 /\ work[q].chosen \subseteq DOMAIN feed
      BY <1>4, <1>7 DEF JobKeeps, HasWork
  <2>4. MailedOnce'  BY <1>12, <2>1, <2>2, <2>3, MailedKept
  <2>5. \A q \in Jobs : OnRung(q) => AtWork(q)  BY DEF OnRung, AtWork, DailyJob, Spreading
  <2>6. \A q \in Jobs \ {p} : ~OnRung(q)  BY <1>8, <2>1, <2>5 DEF Sole
  <2>7. \A q \in Jobs : ~OnRung(q)'  BY <1>7, <1>8, <2>6 DEF JobKeeps, OnRung
  <2>8. \A n \in DOMAIN feed : feed[n].about = <<>> \/ feed[n].about \in sent'
      BY <1>1, <1>3, <2>1, <2>6 DEF ToldFirst
  <2>9. \A m, n \in DOMAIN feed :
            feed[m].user = feed[n].user /\ feed[m].about = feed[n].about /\ feed[m].about # <<>> => m = n
      BY <2>1 DEF ToldFirst
  <2>10. ToldFirst'  BY <1>3, <2>7, <2>8, <2>9 DEF ToldFirst
  <2> QED BY <2>4, <2>10
<1> QED BY <1>3, <1>7, <1>11, <1>12, <1>13, <1>14, <1>16, <1>17, FeedStepOfOne

LEMMA JobDies ==
    ASSUME FeedInv, NEW p \in Jobs, DieTelling(p), Rest
    PROVE  FeedInv'
<1>1. /\ at' = [at EXCEPT ![p] = "idle"] /\ work' = [work EXCEPT ![p] = Blank] /\ died' = TRUE
      /\ UNCHANGED <<feed, deadline, sent, today, beside>>
    BY DEF DieTelling, Keep, Rest, deadlineVars
<1>2. Boards /\ AboutRows /\ Reached  BY DEF FeedInv
<1>3. DOMAIN Blank = WorkFields  BY DEF Blank, WorkFields
<1>4. /\ work'[p] = Blank /\ at'[p] = "idle" /\ \A q \in Jobs \ {p} : JobKeeps(q)
      /\ at' \in [Jobs -> {"idle"} \cup DailyJob \cup Spreading]
      /\ work' = [q \in Jobs |-> work'[q]] /\ \A q \in Jobs : DOMAIN work'[q] = WorkFields
    BY <1>1, <1>2, <1>3, Placed
<1>5. ~OnRung(p)' /\ ~AtWork(p)'  BY <1>4 DEF OnRung, Spreading, AtWork, DailyJob
<1>6. HasWork(p)'  BY <1>4, <1>5 DEF HasWork, Spreading
<1>7. NotesKeep /\ RowsKeep  BY <1>1, <1>2, Unwritten
<1>8. Boards' /\ AboutRows'  BY <1>1, <1>2, <1>4 DEF Boards, AboutRows, Rungs
<1>9. Reached'  BY <1>1, <1>2, <1>7, ReachedKept DEF Boards
<1>10. \A q \in Jobs : AtWork(q)' => AtWork(q)  BY <1>4, <1>5 DEF JobKeeps, AtWork
<1>11. ~beside' => Sole'  BY <1>1, <1>10, SoleKept DEF FeedInv
<1> QED BY <1>1, <1>4, <1>6, <1>7, <1>8, <1>9, <1>11, FeedStepOfOne

\* Items are rewritten, none is added.
LEMMA Noted ==
    ASSUME Boards, AboutRows, UNCHANGED deadline, DOMAIN feed' = DOMAIN feed,
           feed' = [n \in DOMAIN feed |-> feed'[n]],
           \A n \in DOMAIN feed :
                /\ feed'[n] \in Notes /\ feed'[n].user = feed[n].user /\ feed'[n].about = feed[n].about
                /\ feed[n].linked => feed'[n].linked
                /\ feed[n].email # "none" => feed'[n].email # "none"
    PROVE  feed' \in Seq(Notes) /\ NotesKeep /\ AboutRows'
<1>1. DOMAIN feed = 1 .. Len(feed) /\ Len(feed) \in Nat  BY DEF Boards
<1>2. feed' \in [1 .. Len(feed) -> Notes]  BY <1>1
<1>3. feed' \in Seq(Notes)  BY <1>1, <1>2
<1> QED BY <1>3 DEF NotesKeep, AboutRows, Rungs

\* What is not about mails and rungs.
LEMMA Penned ==
    ASSUME FeedInv, UNCHANGED <<deadline, sent, today, at, work, beside, died>>,
           feed' = [n \in DOMAIN feed |-> feed'[n]], DOMAIN feed' = DOMAIN feed,
           \A n \in DOMAIN feed :
                /\ feed'[n] \in Notes /\ feed'[n].user = feed[n].user /\ feed'[n].about = feed[n].about
                /\ feed[n].linked => feed'[n].linked
                /\ feed[n].email # "none" => feed'[n].email # "none"
                /\ feed'[n].mailed = feed[n].mailed /\ feed'[n].digested = feed[n].digested
    PROVE  FeedInv'
<1>1. Boards /\ AboutRows /\ Reached /\ \A q \in Jobs : HasWork(q)  BY DEF FeedInv
<1>2. feed' \in Seq(Notes) /\ NotesKeep /\ AboutRows'  BY <1>1, Noted
<1>3. RowsKeep  BY Unwritten
<1>4. Boards'  BY <1>1, <1>2 DEF Boards, Rungs
<1>5. Reached'  BY <1>1, <1>2, <1>3, ReachedKept DEF Boards
<1>6. MailsKeep  BY DEF MailsKeep
<1>7. \A q \in Jobs : JobKeeps(q) /\ (AtWork(q)' => AtWork(q)) /\ (OnRung(q)' <=> OnRung(q))
    BY DEF JobKeeps, AtWork, OnRung
<1>8. ~beside' => Sole'  BY <1>7, SoleKept DEF FeedInv
<1>9. ~beside' /\ ~died' => MailedOnce' /\ ToldFirst'
  <2> SUFFICES ASSUME ~beside, ~died PROVE MailedOnce' /\ ToldFirst'
      OBVIOUS
  <2>1. MailedOnce /\ ToldFirst  BY DEF FeedInv
  <2>2. \A q \in Jobs : at'[q] = "send" => work[q].chosen \subseteq DOMAIN feed  BY <1>1 DEF HasWork
  <2>3. MailedOnce'  BY <1>6, <2>1, <2>2, MailedKept
  <2>4. ToldFirst'  BY <1>2, <1>7, <2>1, ToldKept
  <2> QED BY <2>3, <2>4
<1> DEFINE ps == {}
<1>10. ps \in SUBSET Jobs /\ (\A q \in Jobs \ ps : JobKeeps(q)) /\ \A q \in ps : FALSE  BY <1>7
<1> HIDE DEF ps
<1> QED BY <1>2, <1>3, <1>4, <1>5, <1>8, <1>9, <1>10, FeedStepOf

LEMMA NoteWritten ==
    ASSUME Boards, NEW k \in DOMAIN feed, NEW e, e \in Notes, feed' = [feed EXCEPT ![k] = e]
    PROVE  /\ DOMAIN feed' = DOMAIN feed /\ feed' = [n \in DOMAIN feed |-> feed'[n]]
           /\ feed'[k] = e /\ \A n \in DOMAIN feed \ {k} : feed'[n] = feed[n]
           /\ \A n \in DOMAIN feed : feed[n] \in Notes
<1>1. feed \in [1 .. Len(feed) -> Notes] /\ DOMAIN feed = 1 .. Len(feed)  BY DEF Boards
<1>2. DOMAIN feed' = DOMAIN feed /\ feed' \in [1 .. Len(feed) -> Notes]  BY <1>1
<1>3. feed'[k] = e /\ \A n \in DOMAIN feed \ {k} : feed'[n] = feed[n]  BY <1>1
<1>4. feed' = [n \in DOMAIN feed |-> feed'[n]]  BY <1>1, <1>2
<1>5. \A n \in DOMAIN feed : feed[n] \in Notes  BY <1>1
<1> QED BY <1>2, <1>3, <1>4, <1>5

LEMMA WorldWrites ==
    ASSUME FeedInv, Rest, \/ \E n \in DOMAIN feed : EmailEnds(n) \/ MarkRead(n)
                          \/ \E u \in Users : MarkAllRead(u)
    PROVE  FeedInv'
<1>1. Boards  BY DEF FeedInv
<1>2. \A n \in DOMAIN feed : feed[n] \in Notes  BY <1>1 DEF Boards
<1>3. ASSUME NEW k \in DOMAIN feed, EmailEnds(k) PROVE FeedInv'
  <2>1. PICK s \in {"SENT", "FAILED"} : feed' = [feed EXCEPT ![k].email = s]
      BY <1>3 DEF EmailEnds
  <2>2. PICK e : e = [feed[k] EXCEPT !.email = s]  OBVIOUS
  <2>3. feed' = [feed EXCEPT ![k] = e] /\ UNCHANGED <<deadline, sent, today, at, work, beside, died>>
      BY <1>3, <2>1, <2>2 DEF EmailEnds, Rest, deadlineVars
  <2>4. /\ e \in Notes /\ e.user = feed[k].user /\ e.about = feed[k].about /\ e.linked = feed[k].linked
        /\ e.email # "none" /\ e.mailed = feed[k].mailed /\ e.digested = feed[k].digested
      BY <1>2, <2>2 DEF Notes
  <2>5. /\ DOMAIN feed' = DOMAIN feed /\ feed' = [n \in DOMAIN feed |-> feed'[n]]
        /\ feed'[k] = e /\ \A n \in DOMAIN feed \ {k} : feed'[n] = feed[n]
      BY <1>1, <2>3, <2>4, NoteWritten
  <2>6. \A n \in DOMAIN feed :
                /\ feed'[n] \in Notes /\ feed'[n].user = feed[n].user /\ feed'[n].about = feed[n].about
                /\ feed[n].linked => feed'[n].linked
                /\ feed[n].email # "none" => feed'[n].email # "none"
                /\ feed'[n].mailed = feed[n].mailed /\ feed'[n].digested = feed[n].digested
      BY <1>2, <2>4, <2>5
  <2> QED BY <2>3, <2>5, <2>6, Penned
<1>4. ASSUME NEW k \in DOMAIN feed, MarkRead(k) PROVE FeedInv'
  <2>1. PICK e : e = [feed[k] EXCEPT !.read = TRUE]  OBVIOUS
  <2>2. feed' = [feed EXCEPT ![k] = e] /\ UNCHANGED <<deadline, sent, today, at, work, beside, died>>
      BY <1>4, <2>1 DEF MarkRead, Rest, deadlineVars
  <2>3. /\ e \in Notes /\ e.user = feed[k].user /\ e.about = feed[k].about /\ e.linked = feed[k].linked
        /\ e.email = feed[k].email /\ e.mailed = feed[k].mailed /\ e.digested = feed[k].digested
      BY <1>2, <2>1 DEF Notes
  <2>4. /\ DOMAIN feed' = DOMAIN feed /\ feed' = [n \in DOMAIN feed |-> feed'[n]]
        /\ feed'[k] = e /\ \A n \in DOMAIN feed \ {k} : feed'[n] = feed[n]
      BY <1>1, <2>2, <2>3, NoteWritten
  <2>5. \A n \in DOMAIN feed :
                /\ feed'[n] \in Notes /\ feed'[n].user = feed[n].user /\ feed'[n].about = feed[n].about
                /\ feed[n].linked => feed'[n].linked
                /\ feed[n].email # "none" => feed'[n].email # "none"
                /\ feed'[n].mailed = feed[n].mailed /\ feed'[n].digested = feed[n].digested
      BY <1>2, <2>3, <2>4
  <2> QED BY <2>2, <2>4, <2>5, Penned
<1>5. ASSUME NEW u \in Users, MarkAllRead(u) PROVE FeedInv'
  <2>1. /\ feed' = [n \in DOMAIN feed |-> IF feed[n].user = u THEN [feed[n] EXCEPT !.read = TRUE]
                                          ELSE feed[n]]
        /\ UNCHANGED <<deadline, sent, today, at, work, beside, died>>
      BY <1>5 DEF MarkAllRead, Rest, deadlineVars
  <2>2. DOMAIN feed' = DOMAIN feed /\ feed' = [n \in DOMAIN feed |-> feed'[n]]
      BY <2>1
  <2>3. \A n \in DOMAIN feed :
                /\ feed'[n] \in Notes /\ feed'[n].user = feed[n].user /\ feed'[n].about = feed[n].about
                /\ feed[n].linked => feed'[n].linked
                /\ feed[n].email # "none" => feed'[n].email # "none"
                /\ feed'[n].mailed = feed[n].mailed /\ feed'[n].digested = feed[n].digested
    <3> TAKE n \in DOMAIN feed
    <3>1. feed[n] \in Notes /\ feed'[n] = IF feed[n].user = u THEN [feed[n] EXCEPT !.read = TRUE]
                                          ELSE feed[n]
        BY <1>2, <2>1
    <3> QED BY <3>1 DEF Notes
  <2> QED BY <2>1, <2>2, <2>3, Penned
<1> QED BY <1>3, <1>4, <1>5

\* A user is told: the job has one user less, and the e-mail to write if it cannot wait.
LEMMA FeedRecorded ==
    ASSUME FeedInv, DeadlineInv, NEW p \in Jobs, NEW u \in Users, RecordFeed(p, u), Rest
    PROVE  FeedInv'
<1>1. PICK v : v = work[p]  OBVIOUS
<1>2. PICK now : now = SendNow(u, v.category, v.urgent, v.prefs)  OBVIOUS
<1>3. PICK e : e = [user |-> u, about |-> v.about, category |-> v.category,
                    urgent |-> v.urgent, asked |-> now, email |-> "none", linked |-> FALSE,
                    read |-> FALSE, mailed |-> 0, digested |-> FALSE]
    OBVIOUS
<1>4. PICK w : w = [v EXCEPT !.users = @ \ {u}, !.item = IF now THEN Len(feed) + 1 ELSE 0]
    OBVIOUS
<1>5. PICK to : to = IF now THEN "email" ELSE "tell"  OBVIOUS
<1>6. /\ u \in v.users /\ at[p] = "tell" /\ at' = [at EXCEPT ![p] = to]
      /\ feed' = Append(feed, e) /\ work' = [work EXCEPT ![p] = w]
      /\ UNCHANGED <<deadline, sent, today, beside, died>>
    BY <1>1, <1>2, <1>3, <1>4, <1>5 DEF RecordFeed, Go, Keep, Rest, deadlineVars
<1>7. Boards /\ AboutRows /\ Reached /\ \A q \in Jobs : HasWork(q)  BY DEF FeedInv
<1>8. /\ v.next \in {"idle", "evidence"} /\ v.category \in Sorts /\ v.urgent \in BOOLEAN
      /\ v.next = "idle" => v.about = <<>>
      /\ OnRung(p) <=> v.next = "evidence"
    BY <1>1, <1>6, <1>7 DEF HasWork, OnRung, Spreading
<1>9. OnRung(p) => /\ v.about \in Rungs /\ v.todo \subseteq Rungs /\ v.today \in Int
                   /\ (v.urgent <=> Urgent(v.about))
                   /\ \A o \in Overseers : o \in v.users \/ Has(o, v.about, v.urgent)
    BY <1>1, <1>6, <1>7 DEF HasWork, Getting
<1>10. DOMAIN deadline \subseteq Nat  BY DEF DeadlineInv, Tables
<1>11. now \in BOOLEAN /\ (v.urgent => now)  BY <1>2, <1>8 DEF SendNow
<1>12. v.about \in {<<>>} \cup Rungs  BY <1>8, <1>9
<1>13. Rungs \subseteq Nat \X Int  BY <1>10 DEF Rungs
<1>14. e \in Notes  BY <1>3, <1>8, <1>11, <1>12, <1>13 DEF Notes
<1>15. /\ feed' \in Seq(Notes) /\ DOMAIN feed' = DOMAIN feed \cup {Len(feed) + 1}
       /\ Len(feed) + 1 \notin DOMAIN feed /\ feed'[Len(feed) + 1] = e
       /\ \A n \in DOMAIN feed : feed'[n] = feed[n]
    <2> DEFINE k == Len(feed)
    <2>1. feed \in Seq(Notes) /\ k \in Nat /\ DOMAIN feed = 1 .. k  BY <1>7 DEF Boards
    <2>2. /\ feed' \in Seq(Notes) /\ Len(feed') = k + 1 /\ feed'[k + 1] = e
          /\ \A n \in 1 .. k : feed'[n] = feed[n]
        BY <2>1, <1>6, <1>14
    <2>3. DOMAIN feed' = 1 .. (k + 1)  BY <2>2
    <2> QED BY <2>1, <2>2, <2>3
<1>16. PICK k : k = Len(feed) + 1  OBVIOUS
<1>17. DOMAIN w = WorkFields /\ w.users = v.users \ {u} /\ w.item = (IF now THEN k ELSE 0)
       /\ w.about = v.about /\ w.category = v.category /\ w.urgent = v.urgent /\ w.next = v.next
       /\ w.todo = v.todo /\ w.today = v.today
    BY <1>1, <1>4, <1>7, <1>16 DEF Boards, WorkFields
<1>18. to \in {"idle"} \cup DailyJob \cup Spreading  BY <1>5 DEF Spreading
<1>19. /\ work'[p] = w /\ at'[p] = to /\ \A q \in Jobs \ {p} : JobKeeps(q)
       /\ at' \in [Jobs -> {"idle"} \cup DailyJob \cup Spreading]
       /\ work' = [q \in Jobs |-> work'[q]] /\ \A q \in Jobs : DOMAIN work'[q] = WorkFields
    BY <1>6, <1>7, <1>17, <1>18, Placed
<1>20. NotesKeep /\ MailsKeep
    BY <1>3, <1>15 DEF NotesKeep, MailsKeep
<1>21. RowsKeep /\ Rungs' = Rungs  BY <1>6, Unwritten DEF Rungs
<1>22. feed'[k].user = u /\ feed'[k].about = v.about /\ k \in DOMAIN feed' /\ k \notin DOMAIN feed
    BY <1>3, <1>15, <1>16
<1>23. OnRung(p)' <=> OnRung(p)  BY <1>5, <1>6, <1>8, <1>17, <1>19 DEF OnRung, Spreading
<1>24. OnRung(p) => \A o \in Overseers : o \in w.users \/ Has(o, w.about, w.urgent)' \/ Getting(p, o)'
    <2> SUFFICES ASSUME OnRung(p), NEW o \in Overseers
                 PROVE  o \in w.users \/ Has(o, w.about, w.urgent)' \/ Getting(p, o)'
        OBVIOUS
    <2>1. CASE Has(o, v.about, v.urgent)
        <3>1. Has(o, v.about, v.urgent)'  BY <2>1, <1>20 DEF Has, NotesKeep
        <3> QED BY <3>1, <1>17 DEF Has
    <2>2. CASE o \in v.users /\ o # u  BY <2>2, <1>17
    <2>3. CASE o = u /\ now
        BY <2>3, <1>5, <1>17, <1>19, <1>22 DEF Getting
    <2>4. CASE o = u /\ ~now
        BY <2>4, <1>11, <1>17, <1>22 DEF Has
    <2> QED BY <1>9, <2>1, <2>2, <2>3, <2>4
<1>25. HasWork(p)'
    <2>1. \A x : (Urgent(x)' <=> Urgent(x))  BY <1>6 DEF Urgent
    <2>2. Overseers' = Overseers /\ Sorts' = Sorts  BY DEF Overseers, Sorts
    <2>3. to = "tell" \/ (to = "email" /\ w.item \in DOMAIN feed')  BY <1>5, <1>11, <1>17, <1>22
    <2> QED BY <1>8, <1>9, <1>17, <1>19, <1>21, <1>23, <1>24, <2>1, <2>2, <2>3 DEF HasWork, Spreading
<1>26. Boards'  BY <1>6, <1>7, <1>15, <1>19, <1>21 DEF Boards
<1>27. AboutRows'  BY <1>7, <1>12, <1>15, <1>16, <1>21, <1>22 DEF AboutRows
<1>28. Reached'  BY <1>6, <1>7, <1>20, <1>21, ReachedKept DEF Boards
<1>29. \A q \in Jobs : (AtWork(q)' => AtWork(q)) /\ (OnRung(q)' <=> OnRung(q))
                       /\ work'[q].about = work[q].about /\ work'[q].users \subseteq work[q].users
    <2> TAKE q \in Jobs
    <2>1. CASE q = p
        BY <2>1, <1>1, <1>5, <1>6, <1>17, <1>19, <1>23 DEF AtWork, DailyJob
    <2>2. CASE q # p
        BY <2>2, <1>19 DEF AtWork, OnRung, JobKeeps
    <2> QED BY <2>1, <2>2
<1>30. ~beside' => Sole'  BY <1>6, <1>29, SoleKept DEF FeedInv
<1>31. ~beside' /\ ~died' => MailedOnce' /\ ToldFirst'
  <2> SUFFICES ASSUME ~beside, ~died PROVE MailedOnce' /\ ToldFirst'
      BY <1>6
  <2>1. MailedOnce /\ ToldFirst /\ Sole  BY DEF FeedInv
  <2>2. \A q \in Jobs : at[q] = "mark" => at'[q] = "mark" /\ work'[q].chosen = work[q].chosen
      BY <1>6, <1>19 DEF JobKeeps
  <2>3. to # "send"  BY <1>5
  <2>4. \A q \in Jobs : at'[q] = "send" => at[q] = "send" /\ work'[q].chosen = work[q].chosen
                                                 /\ work[q].chosen \subseteq DOMAIN feed
      BY <1>7, <1>19, <2>3 DEF JobKeeps, HasWork
  <2>5. MailedOnce'  BY <1>20, <2>1, <2>2, <2>4, MailedKept
  <2>6. \A q \in Jobs : OnRung(q)' => work'[q].about \notin sent'
      BY <1>6, <1>29, <2>1 DEF ToldFirst
  <2>7. \A n \in DOMAIN feed' : feed'[n].about = <<>> \/ feed'[n].about \in sent'
            \/ \E q \in Jobs : OnRung(q)' /\ work'[q].about = feed'[n].about /\ feed'[n].user \notin work'[q].users
    <3> TAKE n \in DOMAIN feed'
    <3>1. CASE n \in DOMAIN feed
        <4>1. feed[n].about = <<>> \/ feed[n].about \in sent
                \/ \E q \in Jobs : OnRung(q) /\ work[q].about = feed[n].about /\ feed[n].user \notin work[q].users
            BY <3>1, <2>1 DEF ToldFirst
        <4> QED BY <4>1, <3>1, <1>6, <1>15, <1>29
    <3>2. CASE n = k /\ OnRung(p)  BY <3>2, <1>17, <1>19, <1>22, <1>23
    <3>3. CASE n = k /\ ~OnRung(p)  BY <3>3, <1>8, <1>22
    <3> QED BY <3>1, <3>2, <3>3, <1>15, <1>16
  <2>8. \A n \in DOMAIN feed : ~(feed[n].user = u /\ feed[n].about = v.about /\ v.about # <<>>)
    <3> SUFFICES ASSUME NEW n \in DOMAIN feed, feed[n].user = u, feed[n].about = v.about, v.about # <<>>
                 PROVE  FALSE
        OBVIOUS
    <3>1. OnRung(p) /\ v.about \notin sent  BY <1>1, <1>8, <2>1 DEF ToldFirst
    <3>2. PICK q \in Jobs : OnRung(q) /\ feed[n].user \notin work[q].users
        BY <3>1, <2>1 DEF ToldFirst
    <3>3. q = p
        <4>1. \A r \in Jobs : OnRung(r) => AtWork(r)  BY DEF OnRung, AtWork, DailyJob, Spreading
        <4> QED BY <4>1, <3>1, <3>2, <2>1 DEF Sole
    <3> QED BY <3>2, <3>3, <1>1, <1>6
  <2>9. \A m, n \in DOMAIN feed' :
            feed'[m].user = feed'[n].user /\ feed'[m].about = feed'[n].about /\ feed'[m].about # <<>> => m = n
    <3>1. \A m, n \in DOMAIN feed :
            feed'[m].user = feed'[n].user /\ feed'[m].about = feed'[n].about /\ feed'[m].about # <<>> => m = n
        BY <2>1, <1>15 DEF ToldFirst
    <3>2. \A n \in DOMAIN feed : ~(feed'[n].user = u /\ feed'[n].about = v.about /\ v.about # <<>>)
        BY <2>8, <1>15
    <3>3. DOMAIN feed' = DOMAIN feed \cup {k}  BY <1>15, <1>16
    <3> QED BY <3>1, <3>2, <3>3, <1>22
  <2> QED BY <2>5, <2>6, <2>7, <2>9 DEF ToldFirst
<1> QED BY <1>6, <1>19, <1>20, <1>21, <1>25, <1>26, <1>27, <1>28, <1>30, <1>31, FeedStepOfOne

\* The job writes to the item of the user it is telling, and goes on with that user or the next.
LEMMA Carried ==
    ASSUME FeedInv, NEW p \in Jobs, NEW w, NEW e, NEW to \in {"link", "tell"},
           at[p] \in {"email", "link"}, at' = [at EXCEPT ![p] = to], work' = [work EXCEPT ![p] = w],
           UNCHANGED <<deadline, sent, today, beside, died>>,
           w = work[p] \/ (to = "tell" /\ w = [work[p] EXCEPT !.item = 0]),
           NEW k, k = work[p].item, feed' = [feed EXCEPT ![k] = e], e \in Notes,
           e.user = feed[k].user, e.about = feed[k].about, e.email # "none",
           feed[k].linked => e.linked, to = "tell" => e.linked,
           e.mailed = feed[k].mailed, e.digested = feed[k].digested
    PROVE  FeedInv'
<1>1. PICK v : v = work[p]  OBVIOUS
<1>2. k = v.item  BY <1>1
<1>3. /\ feed' = [feed EXCEPT ![k] = e] /\ e \in Notes
      /\ e.user = feed[k].user /\ e.about = feed[k].about /\ e.email # "none"
      /\ feed[k].linked => e.linked
      /\ to = "tell" => e.linked
      /\ e.mailed = feed[k].mailed /\ e.digested = feed[k].digested
    BY <1>1, <1>2
<1>4. Boards /\ AboutRows /\ Reached /\ \A q \in Jobs : HasWork(q)  BY DEF FeedInv
<1>5. DOMAIN w = WorkFields /\ w.users = v.users
       /\ w.about = v.about /\ w.category = v.category /\ w.urgent = v.urgent /\ w.next = v.next
       /\ w.todo = v.todo /\ w.today = v.today /\ (to = "link" => w.item = k)
    BY <1>1, <1>2, <1>4 DEF Boards, WorkFields
<1>6. to \in {"idle"} \cup DailyJob \cup Spreading  BY DEF Spreading
<1>7. /\ work'[p] = w /\ at'[p] = to /\ \A q \in Jobs \ {p} : JobKeeps(q)
      /\ at' \in [Jobs -> {"idle"} \cup DailyJob \cup Spreading]
      /\ work' = [q \in Jobs |-> work'[q]] /\ \A q \in Jobs : DOMAIN work'[q] = WorkFields
    BY <1>4, <1>5, <1>6, Placed
<1>8. /\ k \in DOMAIN feed
      /\ v.next \in {"idle", "evidence"} /\ v.category \in Sorts /\ v.urgent \in BOOLEAN
      /\ v.next = "idle" => v.about = <<>>
      /\ OnRung(p) <=> v.next = "evidence"
    BY <1>1, <1>2, <1>4 DEF HasWork, OnRung, Spreading
<1>9. OnRung(p) => /\ v.about \in Rungs /\ v.todo \subseteq Rungs /\ v.today \in Int
                   /\ (v.urgent <=> Urgent(v.about))
                   /\ \A o \in Overseers : o \in v.users \/ Has(o, v.about, v.urgent) \/ Getting(p, o)
    BY <1>1, <1>4 DEF HasWork
<1>10. /\ DOMAIN feed' = DOMAIN feed /\ feed' = [n \in DOMAIN feed |-> feed'[n]]
       /\ feed'[k] = e /\ \A n \in DOMAIN feed \ {k} : feed'[n] = feed[n]
       /\ \A n \in DOMAIN feed : feed[n] \in Notes
    BY <1>3, <1>4, <1>8, NoteWritten
<1>11. \A n \in DOMAIN feed :
                /\ feed'[n] \in Notes /\ feed'[n].user = feed[n].user /\ feed'[n].about = feed[n].about
                /\ feed[n].linked => feed'[n].linked
                /\ feed[n].email # "none" => feed'[n].email # "none"
                /\ feed'[n].mailed = feed[n].mailed /\ feed'[n].digested = feed[n].digested
    BY <1>3, <1>10
<1>12. feed' \in Seq(Notes) /\ NotesKeep /\ AboutRows'  BY <1>4, <1>10, <1>11, Noted
<1>13. RowsKeep /\ Rungs' = Rungs /\ \A x : (Urgent(x)' <=> Urgent(x))
    BY Unwritten DEF Rungs, Urgent
<1>14. Boards'  BY <1>4, <1>7, <1>12, <1>13 DEF Boards
<1>15. OnRung(p)' <=> OnRung(p)  BY <1>5, <1>7, <1>8 DEF OnRung, Spreading
<1>16. OnRung(p) => \A o \in Overseers : o \in w.users \/ Has(o, w.about, w.urgent)' \/ Getting(p, o)'
    <2> SUFFICES ASSUME OnRung(p), NEW o \in Overseers
                 PROVE  o \in w.users \/ Has(o, w.about, w.urgent)' \/ Getting(p, o)'
        OBVIOUS
    <2>1. CASE o \in v.users  BY <2>1, <1>5
    <2>2. CASE Has(o, v.about, v.urgent)
        <3>1. Has(o, v.about, v.urgent)'  BY <2>2, <1>12 DEF Has, NotesKeep
        <3> QED BY <3>1, <1>5 DEF Has
    <2>3. CASE Getting(p, o)
        <3>1. feed'[k].user = o /\ feed'[k].about = v.about
            BY <2>3, <1>1, <1>2, <1>3, <1>10 DEF Getting
        <3>2. CASE to = "tell"
            <4>1. feed'[k].linked /\ feed'[k].email # "none"  BY <3>2, <1>3, <1>10
            <4> QED BY <3>1, <4>1, <1>5, <1>8, <1>10 DEF Has
        <3>3. CASE to = "link"
            <4>1. feed'[k].email # "none"  BY <1>3, <1>10
            <4> QED BY <3>1, <3>3, <4>1, <1>5, <1>7 DEF Getting
        <3> QED BY <3>2, <3>3
    <2> QED BY <1>9, <2>1, <2>2, <2>3
<1>17. HasWork(p)'
    <2>1. Overseers' = Overseers /\ Sorts' = Sorts  BY DEF Overseers, Sorts
    <2>2. to = "tell" \/ (to = "link" /\ w.item \in DOMAIN feed' /\ feed'[w.item].email # "none")
        BY <1>3, <1>5, <1>8, <1>10
    <2> QED BY <1>5, <1>7, <1>8, <1>9, <1>13, <1>15, <1>16, <2>1, <2>2 DEF HasWork, Spreading
<1>18. Reached'  BY <1>4, <1>12, <1>13, ReachedKept DEF Boards
<1>19. \A q \in Jobs : (AtWork(q)' => AtWork(q)) /\ (OnRung(q)' <=> OnRung(q))
                       /\ work'[q].about = work[q].about /\ work'[q].users = work[q].users
    <2> TAKE q \in Jobs
    <2>1. CASE q = p
        BY <2>1, <1>1, <1>5, <1>7, <1>15 DEF AtWork, DailyJob
    <2>2. CASE q # p
        BY <2>2, <1>7 DEF AtWork, OnRung, JobKeeps
    <2> QED BY <2>1, <2>2
<1>20. ~beside' => Sole'  BY <1>19, SoleKept DEF FeedInv
<1>21. ~beside' /\ ~died' => MailedOnce' /\ ToldFirst'
  <2> SUFFICES ASSUME ~beside, ~died PROVE MailedOnce' /\ ToldFirst'
      OBVIOUS
  <2>1. MailedOnce /\ ToldFirst  BY DEF FeedInv
  <2>2. \A q \in Jobs : at[q] = "mark" => at'[q] = "mark" /\ work'[q].chosen = work[q].chosen
      BY <1>7 DEF JobKeeps
  <2>3. \A q \in Jobs : at'[q] = "send" => at[q] = "send" /\ work'[q].chosen = work[q].chosen
                                                 /\ work[q].chosen \subseteq DOMAIN feed
      BY <1>4, <1>7 DEF JobKeeps, HasWork
  <2>4. MailsKeep  BY <1>10, <1>11 DEF MailsKeep
  <2>5. MailedOnce'  BY <2>1, <2>2, <2>3, <2>4, MailedKept
  <2>6. ToldFirst'  BY <1>10, <1>12, <1>19, <2>1, ToldKept
  <2> QED BY <2>5, <2>6
<1> QED BY <1>7, <1>12, <1>13, <1>14, <1>17, <1>18, <1>20, <1>21, FeedStepOfOne

LEMMA EmailRecorded ==
    ASSUME FeedInv, NEW p \in Jobs, RecordEmail(p), Rest
    PROVE  FeedInv'
<1>1. Boards /\ HasWork(p)  BY DEF FeedInv
<1>2. at[p] = "email" /\ at' = [at EXCEPT ![p] = "link"] /\ UNCHANGED <<work, deadline, sent, today, beside, died>>
    BY DEF RecordEmail, Go, Rest, deadlineVars
<1>3. PICK k : k = work[p].item  OBVIOUS
<1>4. PICK e : e = [feed[k] EXCEPT !.email = "QUEUED"]  OBVIOUS
<1>5. feed' = [feed EXCEPT ![k] = e]  BY <1>3, <1>4 DEF RecordEmail
<1>6. k \in DOMAIN feed  BY <1>1, <1>2, <1>3 DEF HasWork
<1>7. feed[k] \in Notes  BY <1>1, <1>6 DEF Boards
<1>8. /\ e \in Notes /\ e.user = feed[k].user /\ e.about = feed[k].about /\ e.email # "none"
      /\ e.linked = feed[k].linked /\ e.mailed = feed[k].mailed /\ e.digested = feed[k].digested
    BY <1>4, <1>7 DEF Notes
<1>9. PICK w : w = work[p]  OBVIOUS
<1>10. work' = [work EXCEPT ![p] = w]  BY <1>1, <1>2, <1>9 DEF Boards
<1>11. at[p] \in {"email", "link"} /\ at' = [at EXCEPT ![p] = "link"] /\ "link" \in {"link", "tell"}
       /\ "link" # "tell" /\ (feed[k].linked => e.linked)
    BY <1>2, <1>8
<1>12. UNCHANGED <<deadline, sent, today, beside, died>>  BY <1>2
<1> QED BY <1>3, <1>5, <1>8, <1>9, <1>10, <1>11, <1>12, Carried

LEMMA LinkRecorded ==
    ASSUME FeedInv, NEW p \in Jobs, RecordLink(p), Rest
    PROVE  FeedInv'
<1>1. Boards /\ HasWork(p)  BY DEF FeedInv
<1>2. at[p] = "link" /\ at' = [at EXCEPT ![p] = "tell"] /\ UNCHANGED <<deadline, sent, today, beside, died>>
    BY DEF RecordLink, Go, Rest, deadlineVars
<1>3. PICK w : w = [work[p] EXCEPT !.item = 0]  OBVIOUS
<1>4. PICK k : k = work[p].item  OBVIOUS
<1>5. PICK e : e = [feed[k] EXCEPT !.linked = TRUE]  OBVIOUS
<1>6. feed' = [feed EXCEPT ![k] = e] /\ work' = [work EXCEPT ![p] = w]
    BY <1>3, <1>4, <1>5 DEF RecordLink, Keep
<1>7. k \in DOMAIN feed  BY <1>1, <1>2, <1>4 DEF HasWork
<1>8. feed[k] \in Notes  BY <1>1, <1>7 DEF Boards
<1>9. feed[k].email # "none"  BY <1>1, <1>2, <1>4 DEF HasWork
<1>10. /\ e \in Notes /\ e.user = feed[k].user /\ e.about = feed[k].about /\ e.email # "none"
       /\ e.linked /\ e.mailed = feed[k].mailed /\ e.digested = feed[k].digested
    BY <1>5, <1>8, <1>9 DEF Notes
<1> QED BY <1>2, <1>3, <1>4, <1>6, <1>10, Carried

\* The digest exists, and is marked: nobody else is between the two.
LEMMA Digesting ==
    ASSUME FeedInv, NEW p \in Jobs, NEW w, NEW to \in {"mark", "flushDaily", "flushWeekly"},
           at[p] \in {"send", "mark"}, at' = [at EXCEPT ![p] = to],
           DOMAIN w = WorkFields, work' = [work EXCEPT ![p] = w],
           to = "mark" => w.next = work[p].next /\ w.chosen = work[p].chosen,
           UNCHANGED <<deadline, sent, today, beside, died>>,
           feed' = [n \in DOMAIN feed |-> feed'[n]], DOMAIN feed' = DOMAIN feed,
           \A n \in DOMAIN feed :
                /\ feed'[n] \in Notes /\ feed'[n].user = feed[n].user /\ feed'[n].about = feed[n].about
                /\ feed'[n].linked = feed[n].linked /\ feed'[n].email = feed[n].email,
           Sole' /\ MailedOnce => MailedOnce'
    PROVE  FeedInv'
<1>1. Boards /\ AboutRows /\ Reached /\ \A q \in Jobs : HasWork(q)  BY DEF FeedInv
<1>2. to \in {"idle"} \cup DailyJob \cup Spreading  BY DEF DailyJob
<1>3. /\ work'[p] = w /\ at'[p] = to /\ \A q \in Jobs \ {p} : JobKeeps(q)
      /\ at' \in [Jobs -> {"idle"} \cup DailyJob \cup Spreading]
      /\ work' = [q \in Jobs |-> work'[q]] /\ \A q \in Jobs : DOMAIN work'[q] = WorkFields
    BY <1>1, <1>2, Placed
<1>4. feed' \in Seq(Notes) /\ NotesKeep /\ AboutRows'
    <2>1. \A n \in DOMAIN feed :
                /\ feed'[n] \in Notes /\ feed'[n].user = feed[n].user /\ feed'[n].about = feed[n].about
                /\ feed[n].linked => feed'[n].linked
                /\ feed[n].email # "none" => feed'[n].email # "none"
        OBVIOUS
    <2> QED BY <1>1, <2>1, Noted
<1>5. RowsKeep /\ Rungs' = Rungs  BY Unwritten DEF Rungs
<1>6. Boards'  BY <1>1, <1>3, <1>4, <1>5 DEF Boards
<1>7. ~OnRung(p) /\ ~OnRung(p)' /\ AtWork(p)  BY <1>3 DEF OnRung, Spreading, AtWork, DailyJob
<1>8. HasWork(p)'
    <2>1. at'[p] = "mark" => w.next \in {"flushDaily", "flushWeekly"} /\ w.chosen \subseteq DOMAIN feed'
        BY <1>1, <1>3 DEF HasWork
    <2> QED BY <1>3, <1>7, <2>1 DEF HasWork, Spreading
<1>9. Reached'  BY <1>1, <1>4, <1>5, ReachedKept DEF Boards
<1>10. \A q \in Jobs : (AtWork(q)' => AtWork(q)) /\ (OnRung(q)' <=> OnRung(q))
    BY <1>3, <1>7 DEF JobKeeps, AtWork, OnRung
<1>11. \A q \in Jobs : OnRung(q) => work'[q].about = work[q].about /\ work'[q].users = work[q].users
    BY <1>3, <1>7 DEF JobKeeps
<1>12. ~beside' => Sole'  BY <1>10, SoleKept DEF FeedInv
<1>13. ~beside' /\ ~died' => MailedOnce' /\ ToldFirst'
  <2> SUFFICES ASSUME ~beside, ~died PROVE MailedOnce' /\ ToldFirst'
      OBVIOUS
  <2>1. MailedOnce /\ ToldFirst  BY DEF FeedInv
  <2>2. MailedOnce'  BY <1>12, <2>1
  <2>3. ToldFirst'  BY <1>4, <1>10, <1>11, <2>1, ToldKept
  <2> QED BY <2>2, <2>3
<1> QED BY <1>3, <1>4, <1>5, <1>6, <1>8, <1>9, <1>12, <1>13, FeedStepOfOne

LEMMA DigestSent ==
    ASSUME FeedInv, NEW p \in Jobs, SendDigest(p), Rest
    PROVE  FeedInv'
<1>1. Boards /\ \A q \in Jobs : HasWork(q)  BY DEF FeedInv
<1>2. PICK w : w = work[p]  OBVIOUS
<1>3. /\ at[p] = "send" /\ at' = [at EXCEPT ![p] = "mark"] /\ UNCHANGED <<work, deadline, sent, today, beside, died>>
      /\ feed' = [n \in DOMAIN feed |-> IF n \in w.chosen /\ feed[n].mailed < 2
                                      THEN [feed[n] EXCEPT !.mailed = @ + 1] ELSE feed[n]]
    BY <1>2 DEF SendDigest, Go, Rest, deadlineVars
<1>4. work' = [work EXCEPT ![p] = w] /\ DOMAIN w = WorkFields  BY <1>1, <1>2, <1>3 DEF Boards
<1>5. DOMAIN feed' = DOMAIN feed /\ feed' = [n \in DOMAIN feed |-> feed'[n]]  BY <1>3
<1>6. \A n \in DOMAIN feed :
        /\ feed'[n] \in Notes /\ feed'[n].user = feed[n].user /\ feed'[n].about = feed[n].about
        /\ feed'[n].linked = feed[n].linked /\ feed'[n].email = feed[n].email
        /\ feed'[n].digested = feed[n].digested
        /\ feed'[n].mailed = IF n \in w.chosen /\ feed[n].mailed < 2 THEN feed[n].mailed + 1 ELSE feed[n].mailed
    <2> TAKE n \in DOMAIN feed
    <2>1. feed[n] \in Notes /\ feed'[n] = IF n \in w.chosen /\ feed[n].mailed < 2
                                      THEN [feed[n] EXCEPT !.mailed = @ + 1] ELSE feed[n]
        BY <1>1, <1>3 DEF Boards
    <2>2. feed[n].mailed \in 0 .. 2  BY <2>1 DEF Notes
    <2>3. feed[n].mailed < 2 => feed[n].mailed + 1 \in 0 .. 2  BY <2>2
    <2> QED BY <2>1, <2>2, <2>3 DEF Notes
<1>7. at'[p] = "mark" /\ \A q \in Jobs \ {p} : at'[q] = at[q]  BY <1>1, <1>3 DEF Boards
<1>8. ASSUME Sole', MailedOnce PROVE MailedOnce'
    <2>1. \A n \in w.chosen : feed[n].mailed = 0  BY <1>2, <1>3, <1>8 DEF MailedOnce
    <2>2. \A n \in DOMAIN feed' :
            feed'[n].mailed = 0 \/ (feed'[n].mailed = 1 /\ (feed'[n].digested
                \/ \E q \in Jobs : at'[q] = "mark" /\ n \in work'[q].chosen))
        <3> TAKE n \in DOMAIN feed'
        <3>1. CASE n \in w.chosen
            <4>1. feed'[n].mailed = 1  BY <3>1, <2>1, <1>5, <1>6
            <4> QED BY <4>1, <3>1, <1>2, <1>3, <1>7
        <3>2. CASE n \notin w.chosen
            <4>1. feed'[n].mailed = feed[n].mailed /\ feed'[n].digested = feed[n].digested
                BY <3>2, <1>5, <1>6
            <4>2. feed[n].mailed = 0 \/ (feed[n].mailed = 1 /\ (feed[n].digested
                    \/ \E q \in Jobs : at[q] = "mark" /\ n \in work[q].chosen))
                BY <1>5, <1>8 DEF MailedOnce
            <4> QED BY <4>1, <4>2, <1>3, <1>7
        <3> QED BY <3>1, <3>2
    <2>3. \A q \in Jobs : AtWork(q)' => q = p
        BY <1>7, <1>8 DEF Sole, AtWork, DailyJob
    <2>4. \A q \in Jobs : at'[q] # "send"  BY <1>7, <2>3 DEF AtWork, DailyJob
    <2> QED BY <2>2, <2>4 DEF MailedOnce
<1>9. at[p] \in {"send", "mark"} /\ "mark" \in {"mark", "flushDaily", "flushWeekly"}
      /\ w.next = work[p].next /\ w.chosen = work[p].chosen
    BY <1>2, <1>3
<1>10. UNCHANGED <<deadline, sent, today, beside, died>>  BY <1>3
<1>11. at' = [at EXCEPT ![p] = "mark"]  BY <1>3
<1> QED BY <1>4, <1>5, <1>6, <1>8, <1>9, <1>10, <1>11, Digesting

LEMMA DigestMarked ==
    ASSUME FeedInv, NEW p \in Jobs, MarkDigested(p), Rest
    PROVE  FeedInv'
<1>1. Boards /\ \A q \in Jobs : HasWork(q)  BY DEF FeedInv
<1>2. PICK w : w = [work[p] EXCEPT !.user = Nobody, !.chosen = {}]  OBVIOUS
<1>3. PICK to : to = work[p].next  OBVIOUS
<1>4. PICK chosen : chosen = work[p].chosen  OBVIOUS
<1>5. /\ at[p] = "mark" /\ at' = [at EXCEPT ![p] = to] /\ UNCHANGED <<deadline, sent, today, beside, died>>
      /\ work' = [work EXCEPT ![p] = w]
      /\ feed' = [n \in DOMAIN feed |-> IF n \in chosen
                                      THEN [feed[n] EXCEPT !.digested = TRUE] ELSE feed[n]]
    BY <1>2, <1>3, <1>4 DEF MarkDigested, Digested, Go, Keep, Rest, deadlineVars
<1>6. DOMAIN w = WorkFields  BY <1>1, <1>2 DEF Boards
<1>7. to \in {"flushDaily", "flushWeekly"}  BY <1>1, <1>3, <1>5 DEF HasWork
<1>8. DOMAIN feed' = DOMAIN feed /\ feed' = [n \in DOMAIN feed |-> feed'[n]]  BY <1>5
<1>9. \A n \in DOMAIN feed :
        /\ feed'[n] \in Notes /\ feed'[n].user = feed[n].user /\ feed'[n].about = feed[n].about
        /\ feed'[n].linked = feed[n].linked /\ feed'[n].email = feed[n].email
        /\ feed'[n].mailed = feed[n].mailed
        /\ feed[n].digested \/ n \in chosen => feed'[n].digested
    <2> TAKE n \in DOMAIN feed
    <2>1. feed[n] \in Notes /\ feed'[n] = IF n \in chosen
                                      THEN [feed[n] EXCEPT !.digested = TRUE] ELSE feed[n]
        BY <1>1, <1>5 DEF Boards
    <2>2. CASE n \notin chosen  BY <2>1, <2>2 DEF Notes
    <2>3. CASE n \in chosen
        <3>1. PICK e : e = [feed[n] EXCEPT !.digested = TRUE]  OBVIOUS
        <3>2. feed'[n] = e  BY <2>1, <2>3, <3>1
        <3>3. /\ e \in Notes /\ e.user = feed[n].user /\ e.about = feed[n].about /\ e.linked = feed[n].linked
              /\ e.email = feed[n].email /\ e.mailed = feed[n].mailed /\ e.digested
            BY <2>1, <3>1 DEF Notes
        <3> QED BY <3>2, <3>3
    <2> QED BY <2>2, <2>3
<1>10. /\ work'[p] = w /\ at'[p] = to /\ \A q \in Jobs \ {p} : at'[q] = at[q] /\ work'[q] = work[q]
    BY <1>1, <1>5 DEF Boards
<1>11. ASSUME Sole', MailedOnce PROVE MailedOnce'
    <2>1. \A n \in DOMAIN feed' :
            feed'[n].mailed = 0 \/ (feed'[n].mailed = 1 /\ (feed'[n].digested
                \/ \E q \in Jobs : at'[q] = "mark" /\ n \in work'[q].chosen))
        <3> TAKE n \in DOMAIN feed'
        <3>1. feed'[n].mailed = feed[n].mailed /\ (feed[n].digested \/ n \in chosen => feed'[n].digested)
            BY <1>8, <1>9
        <3>2. feed[n].mailed = 0 \/ (feed[n].mailed = 1 /\ (feed[n].digested
                    \/ \E q \in Jobs : at[q] = "mark" /\ n \in work[q].chosen))
            BY <1>8, <1>11 DEF MailedOnce
        <3> QED BY <3>1, <3>2, <1>4, <1>10
    <2>2. \A q \in Jobs : at'[q] = "send" => \A n \in work'[q].chosen : n \in DOMAIN feed /\ feed[n].mailed = 0
        BY <1>1, <1>7, <1>10, <1>11 DEF MailedOnce, HasWork
    <2>3. \A q \in Jobs : at'[q] = "send" => \A n \in work'[q].chosen : feed'[n].mailed = 0
        BY <2>2, <1>9
    <2> QED BY <2>1, <2>3 DEF MailedOnce
<1>12. at[p] \in {"send", "mark"} /\ to \in {"mark", "flushDaily", "flushWeekly"} /\ to # "mark"
    BY <1>5, <1>7
<1>13. at' = [at EXCEPT ![p] = to] /\ UNCHANGED <<deadline, sent, today, beside, died>>
       /\ work' = [work EXCEPT ![p] = w]
    BY <1>5
<1> QED BY <1>6, <1>8, <1>9, <1>11, <1>12, <1>13, Digesting

\* The feed and the jobs are left alone, and rows are added or rewritten.
LEMMA Beside ==
    ASSUME FeedInv, RowsKeep, UNCHANGED <<feed, at, work, sent, beside, died>>, today' \in Int
    PROVE  FeedInv'
<1>1. Boards /\ AboutRows /\ Reached /\ \A q \in Jobs : HasWork(q)  BY DEF FeedInv
<1>2. NotesKeep /\ MailsKeep  BY <1>1, Unwritten
<1>3. Rungs \subseteq Rungs'  BY RungsKept
<1>4. Boards' /\ AboutRows'  BY <1>1, <1>3 DEF Boards, AboutRows
<1>5. Reached'  BY <1>1, <1>2, ReachedKept DEF Boards
<1>6. \A q \in Jobs : JobKeeps(q) /\ (AtWork(q)' => AtWork(q)) /\ (OnRung(q)' <=> OnRung(q))
    BY DEF JobKeeps, AtWork, OnRung
<1>7. ~beside' => Sole'  BY <1>6, SoleKept DEF FeedInv
<1>8. ~beside' /\ ~died' => MailedOnce' /\ ToldFirst'
  <2> SUFFICES ASSUME ~beside, ~died PROVE MailedOnce' /\ ToldFirst'
      OBVIOUS
  <2>1. MailedOnce /\ ToldFirst  BY DEF FeedInv
  <2>2. \A q \in Jobs : at'[q] = "send" => work[q].chosen \subseteq DOMAIN feed  BY <1>1 DEF HasWork
  <2>3. MailedOnce'  BY <1>2, <2>1, <2>2, MailedKept
  <2>4. ToldFirst'  BY <1>2, <1>6, <2>1, ToldKept
  <2> QED BY <2>3, <2>4
<1> DEFINE ps == {}
<1>9. ps \in SUBSET Jobs /\ (\A q \in Jobs \ ps : JobKeeps(q)) /\ \A q \in ps : FALSE  BY <1>6
<1> HIDE DEF ps
<1> QED BY <1>2, <1>4, <1>5, <1>7, <1>8, <1>9, FeedStepOf

LEMMA RemindersStart ==
    ASSUME DeadlinesAssumption, RemindersAssumption, RemindersInit
    PROVE  DeadlineInv /\ FeedInv
<1>1. DeadlineInv  BY DeadlinesStart DEF RemindersInit
<1>2. /\ feed = <<>> /\ at = [p \in Jobs |-> "idle"] /\ work = [p \in Jobs |-> Blank]
      /\ beside = FALSE /\ died = FALSE /\ today \in Int /\ sent = {}
    BY DEF RemindersInit, FeedInit, RemindersAssumption
<1>3. DOMAIN Blank = WorkFields  BY DEF Blank, WorkFields
<1>4. Boards
  <2>1. feed \in Seq(Notes)  BY <1>2
  <2>2. at \in [Jobs -> {"idle"} \cup DailyJob \cup Spreading]  BY <1>2
  <2>3. work = [p \in Jobs |-> work[p]] /\ \A p \in Jobs : DOMAIN work[p] = WorkFields  BY <1>2, <1>3
  <2> QED BY <1>2, <2>1, <2>2, <2>3 DEF Boards
<1>5. DOMAIN feed = {}  BY <1>2
<1>6. \A p \in Jobs : at[p] = "idle" /\ ~OnRung(p) /\ ~AtWork(p)
    BY <1>2 DEF OnRung, AtWork, Spreading, DailyJob
<1>7. AboutRows /\ Reached /\ (\A p \in Jobs : HasWork(p)) /\ Sole /\ MailedOnce /\ ToldFirst
    BY <1>2, <1>5, <1>6 DEF AboutRows, Reached, HasWork, Sole, MailedOnce, ToldFirst, Spreading
<1> QED BY <1>1, <1>4, <1>7 DEF FeedInv

LEMMA JobSteps ==
    ASSUME FeedInv, DeadlineInv, NEW p \in Jobs, Proceed(p)
    PROVE  FeedInv'
<1>1. ASSUME Climb(p) PROVE FeedInv'
  <2>1. CASE RunDailyJobs(p)  BY <2>1, JobsRun
  <2>2. CASE ReadLadder(p)  BY <2>2, LadderRead
  <2>3. CASE LadderDone(p)  BY <2>3, LadderEnds
  <2>4. CASE RecordReminder(p)  BY <2>4, ReminderRecorded
  <2>5. ASSUME NEW x \in work[p].todo, SkipRung(p, x) PROVE FeedInv'  BY <2>5, RungSkipped
  <2>6. ASSUME NEW x \in work[p].todo, TellRung(p, x) PROVE FeedInv'  BY <2>6, RungTold
  <2> QED BY <1>1, <2>1, <2>2, <2>3, <2>4, <2>5, <2>6 DEF Climb
<1>2. ASSUME Telling(p), Rest PROVE FeedInv'
  <2>1. ASSUME NEW u \in Users, RecordFeed(p, u) PROVE FeedInv'  BY <1>2, <2>1, FeedRecorded
  <2>2. ASSUME NEW u \in Users, FlushDigest(p, u) PROVE FeedInv'  BY <1>2, <2>2, DigestChosen
  <2>3. CASE RecordEmail(p)  BY <1>2, <2>3, EmailRecorded
  <2>4. CASE RecordLink(p)  BY <1>2, <2>4, LinkRecorded
  <2>5. CASE Told(p)  BY <1>2, <2>5, ToldEnds
  <2>6. ASSUME NEW run \in Runs, RunDigests(p, run) PROVE FeedInv'  BY <1>2, <2>6, DigestsRun
  <2>7. CASE SendDigest(p)  BY <1>2, <2>7, DigestSent
  <2>8. CASE MarkDigested(p)  BY <1>2, <2>8, DigestMarked
  <2>9. CASE Flushed(p)  BY <1>2, <2>9, DigestsEnd
  <2> QED BY <1>2, <2>1, <2>2, <2>3, <2>4, <2>5, <2>6, <2>7, <2>8, <2>9 DEF Telling
<1> QED BY <1>1, <1>2 DEF Proceed, Rest

LEMMA WorldSteps ==
    ASSUME FeedInv, World, Rest
    PROVE  FeedInv'
<1>1. RowsKeep /\ today' \in Int
  <2>1. UNCHANGED deadline /\ UNCHANGED today  BY DEF Rest, deadlineVars
  <2> QED BY <2>1, Unwritten DEF FeedInv, Boards
<1>2. CASE \E n \in DOMAIN feed : EmailEnds(n) \/ MarkRead(n)  BY <1>2, WorldWrites
<1>3. ASSUME NEW w \in recent, WindowEnds(w) PROVE FeedInv'
    BY <1>1, <1>3, Beside DEF WindowEnds, Rest
<1>4. ASSUME NEW u \in Users, Self(u) PROVE FeedInv'
  <2>1. CASE MarkAllRead(u)  BY <2>1, WorldWrites
  <2>2. ASSUME NEW c \in Categories, NEW k \in Cadences, SetNotificationPreference(u, c, k) PROVE FeedInv'
    <3>1. UNCHANGED <<feed, at, work, beside, died>>  BY <2>2 DEF SetNotificationPreference
    <3> QED BY <1>1, <3>1, Beside DEF Rest
  <2> QED BY <1>4, <2>1, <2>2 DEF Self
<1>5. ASSUME NEW p \in Jobs, DieTelling(p) PROVE FeedInv'  BY <1>5, JobDies
<1>6. ASSUME NEW p \in Jobs, NEW users \in SUBSET Users, NEW c \in Categories, NEW urgent \in BOOLEAN,
             Event(p, users, <<>>, c, urgent)
      PROVE  FeedInv'
    BY <1>6, EventTold
<1> QED BY <1>2, <1>3, <1>4, <1>5, <1>6 DEF World

LEMMA RemindersStep ==
    ASSUME DeadlinesAssumption, RemindersAssumption, DeadlineInv, FeedInv, [RemindersNext]_reminderVars
    PROVE  DeadlineInv' /\ FeedInv'
<1>1. ASSUME UNCHANGED deadlineVars PROVE DeadlineInv'
    BY <1>1, DeadlinesStep
<1>2. ASSUME NEW p \in Jobs, Proceed(p) PROVE DeadlineInv' /\ FeedInv'
  <2>1. UNCHANGED deadlineVars
      BY <1>2 DEF Proceed, Climb, RunDailyJobs, ReadLadder, LadderDone, RecordReminder, SkipRung, TellRung
  <2> QED BY <1>1, <1>2, <2>1, JobSteps
<1>3. CASE Tick
  <2>1. UNCHANGED deadlineVars /\ UNCHANGED <<feed, at, work, sent, beside, died>> /\ today' \in Int
      BY <1>3 DEF Tick, feedVars, RemindersAssumption
  <2>2. RowsKeep  BY <2>1, Unwritten DEF deadlineVars
  <2> QED BY <1>1, <2>1, <2>2, Beside
<1>4. CASE World /\ UNCHANGED <<deadlineVars, today, sent>>
    BY <1>1, <1>4, WorldSteps DEF Rest
<1>5. CASE DeadlinesNext /\ UNCHANGED <<feedVars, today, sent>>
  <2>1. DeadlineInv' /\ RowsKeep  BY <1>5, DeadlinesStep
  <2>2. UNCHANGED <<feed, at, work, sent, beside, died>> /\ today' \in Int
      BY <1>5 DEF feedVars, FeedInv, Boards
  <2> QED BY <2>1, <2>2, Beside
<1>6. CASE UNCHANGED reminderVars
  <2>1. UNCHANGED deadlineVars /\ UNCHANGED <<feed, at, work, sent, beside, died>> /\ today' \in Int
      BY <1>6 DEF reminderVars, feedVars, FeedInv, Boards
  <2>2. RowsKeep  BY <2>1, Unwritten DEF deadlineVars
  <2> QED BY <1>1, <2>1, <2>2, Beside
<1> QED BY <1>2, <1>3, <1>4, <1>5, <1>6 DEF RemindersNext

-----------------------------------------------------------------------------
(* What the invariant says of the properties *)

LEMMA InvReaches == FeedInv => ReminderReaches
<1> SUFFICES ASSUME FeedInv PROVE ReminderReaches  OBVIOUS
<1>1. Reached  BY DEF FeedInv
<1> QED BY <1>1 DEF Reached, Has, ReminderReaches

LEMMA InvToldOnce ==
    ASSUME DeadlinesAssumption, DeadlineInv, FeedInv
    PROVE  ToldOnce
<1>1. Tables /\ RowsSound /\ Boards /\ AboutRows  BY DEF DeadlineInv, FeedInv
<1>2. DigestedOnce
  <2>1. ~beside /\ ~died => MailedOnce  BY DEF FeedInv
  <2> QED BY <2>1 DEF DigestedOnce, MailedOnce
<1>3. ASSUME NEW i \in DOMAIN deadline, NEW j \in DOMAIN deadline, Subject(i) = Subject(j),
             deadline[i].of \notin raced
      PROVE  i = j
  <2>1. \A k \in DOMAIN deadline : deadline[k].of \in Leases \cup {None}
    <3>1. deadline \in Seq(Entries)  BY <1>1 DEF Tables
    <3>2. \A k \in DOMAIN deadline : deadline[k] \in Entries  BY <3>1
    <3> QED BY <3>2 DEF Entries
  <2>2. None \notin Leases  BY DEF DeadlinesAssumption
  <2>3. CASE deadline[i].of = None  BY <1>3, <2>1, <2>2, <2>3 DEF Subject
  <2>4. CASE deadline[i].of # None
    <3>1. /\ deadline[i].of = deadline[j].of /\ deadline[i].kind = deadline[j].kind
          /\ deadline[i].item = deadline[j].item
        BY <1>3, <2>1, <2>2, <2>4 DEF Subject
    <3>2. deadline[i].of \in Leases \ raced  BY <1>3, <2>1, <2>4
    <3>3. OneRowEach(deadline[i].of)  BY <3>2 DEF DeadlineInv, Orderly
    <3> QED BY <3>1, <3>3 DEF OneRowEach
  <2> QED BY <2>3, <2>4
<1>4. RungOnce
  <2> SUFFICES ASSUME ~beside, ~died, NEW m \in DOMAIN feed, NEW n \in DOMAIN feed, m # n,
                      feed[m].user = feed[n].user, feed[m].about # <<>>, feed[n].about # <<>>,
                      feed[m].about[2] = feed[n].about[2],
                      Subject(feed[m].about[1]) = Subject(feed[n].about[1]),
                      deadline[feed[m].about[1]].of \notin raced
               PROVE  FALSE
      BY DEF RungOnce
  <2>1. feed[m].about \in Rungs /\ feed[n].about \in Rungs  BY <1>1 DEF AboutRows
  <2>2. \A x \in Rungs : \E i \in DOMAIN deadline, a \in Int : x = <<i, a>>  BY DEF Rungs
  <2>3. PICK i \in DOMAIN deadline, a \in Int : feed[m].about = <<i, a>>  BY <2>1, <2>2
  <2>4. PICK j \in DOMAIN deadline, b \in Int : feed[n].about = <<j, b>>  BY <2>1, <2>2
  <2>5. a = b /\ Subject(i) = Subject(j) /\ deadline[i].of \notin raced  BY <2>3, <2>4
  <2>6. i = j  BY <1>3, <2>5
  <2>7. feed[m].about = feed[n].about  BY <2>3, <2>4, <2>5, <2>6
  <2>8. ToldFirst  BY DEF FeedInv
  <2> QED BY <2>7, <2>8 DEF ToldFirst
<1> QED BY <1>2, <1>4 DEF ToldOnce

-----------------------------------------------------------------------------
(* The daily jobs, whatever writes the tenancies and the preferences meanwhile *)

LEMMA RemindersInv ==
    DeadlinesAssumption /\ RemindersAssumption /\ RemindersSpec => [](DeadlineInv /\ FeedInv)
<1>1. DeadlinesAssumption /\ RemindersAssumption /\ RemindersInit => DeadlineInv /\ FeedInv
    BY RemindersStart
<1>2. DeadlinesAssumption /\ RemindersAssumption /\ (DeadlineInv /\ FeedInv) /\ [RemindersNext]_reminderVars
        => (DeadlineInv /\ FeedInv)'
    BY RemindersStep
<1> QED BY <1>1, <1>2, DeadlinesAssumption, RemindersAssumption, PTL DEF RemindersSpec

\* While no two daily jobs overlap and none dies, no user is mailed an item in two digests, nor
\* told twice of one rung of one deadline that no two regenerations wrote.
THEOREM ToldOnceHolds ==
    DeadlinesAssumption /\ RemindersAssumption /\ RemindersSpec => []ToldOnce
<1>1. DeadlinesAssumption /\ (DeadlineInv /\ FeedInv) => ToldOnce  BY InvToldOnce
<1> QED BY <1>1, RemindersInv, DeadlinesAssumption, PTL

\* A reminder on the evidence timeline was really given: every overseer has it in the feed, and an
\* urgent one was mailed and knows its e-mail, whoever died and however many jobs ran at once.
THEOREM ReminderReachesHolds ==
    DeadlinesAssumption /\ RemindersAssumption /\ RemindersSpec => []ReminderReaches
<1>1. (DeadlineInv /\ FeedInv) => ReminderReaches  BY InvReaches
<1> QED BY <1>1, RemindersInv, PTL

\* The daily jobs read the deadlines and never write them: what is open follows its tenancy.
THEOREM RemindersFollowHolds ==
    DeadlinesAssumption /\ RemindersAssumption /\ RemindersSpec => []DeadlinesFollow
<1>1. DeadlinesAssumption /\ (DeadlineInv /\ FeedInv) => DeadlinesFollow  BY InvFollows
<1> QED BY <1>1, RemindersInv, DeadlinesAssumption, PTL
=============================================================================
