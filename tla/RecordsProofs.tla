---------------------------- MODULE RecordsProofs ----------------------------
(***************************************************************************)
(* Proofs about Vault, for any number of documents and requests, about     *)
(* Handover, for any number of handovers on top of it, about Chronology,   *)
(* for any number of tenancies, records, events and readers, and about     *)
(* TenantLink, for every set of offers, links, tenants and staff.          *)
(***************************************************************************)
EXTENDS Handover, Chronology, TenantLink, FiniteSetTheorems, TLAPS

(***************************************************************************)
(* The vault.  A request that has a document in hand vouches for what its  *)
(* step has done so far (Vouches); what is still owed to the log and the   *)
(* timeline is in the hands of a request, or somebody died with it         *)
(* (Accounted); and whoever creates a row has those bytes alone (Alone).   *)
(***************************************************************************)
States == {"absent", "bytes", "kept", "archived"}
FilingStep == {"row", "uploaded", "tell"}
VaultSteps == FilingStep \cup AckSteps \cup
    {"idle", "page", "viewed", "fetch", "bytes", "enter", "send", "close", "closed"}
Hands == [doc : SUBSET Docs, todo : SUBSET Docs, done : SUBSET Docs, lost : BOOLEAN,
          late : BOOLEAN, entered : BOOLEAN, sound : BOOLEAN]

VaultTypes ==
    /\ doc \in [Docs -> States] /\ step \in [Clerks -> VaultSteps] /\ hand \in [Clerks -> Hands]

Logged(d, action) == <<d, action>> \in log

Vouches(p) ==
    /\ \A d, e \in hand[p].doc : d = e
    /\ \A d \in hand[p].doc :
        /\ step[p] = "row" => doc[d] = "bytes"
        /\ step[p] \in {"uploaded", "tell", "close"} => doc[d] \in {"kept", "archived"}
        /\ step[p] = "tell" => Logged(d, "UPLOADED")
        /\ step[p] = "fetch" /\ hand[p].late => doc[d] = "archived"
        /\ step[p] = "closed" => doc[d] = "archived"
    /\ step[p] \in {"bytes", "enter", "send"} => ~hand[p].late
    /\ step[p] \in {"enter", "send"} => hand[p].sound
    /\ step[p] = "send" => hand[p].entered
    /\ step[p] \in {"page", "viewed"} => \A d \in hand[p].done : Logged(d, "VIEWED")

Alone ==
    \A p, q \in Clerks : \A d \in Docs :
        step[p] = "row" /\ step[q] = "row" /\ InHand(p, d) /\ InHand(q, d) => p = q

Accounted(d) ==
    /\ doc[d] # "absent" =>
        \/ d \in cut \/ (d \in told /\ Logged(d, "UPLOADED"))
        \/ \E p \in Clerks : step[p] \in FilingStep /\ InHand(p, d)
    /\ doc[d] = "archived" =>
        \/ d \in cut \/ Logged(d, "DELETED")
        \/ \E p \in Clerks : step[p] = "closed" /\ InHand(p, d)

Answers ==
    /\ \A s \in served : ~s.late /\ s.sound /\ s.entered
    /\ \A d \in signed : Logged(d, "VIEWED")

VaultInv ==
    VaultTypes /\ (\A p \in Clerks : Vouches(p)) /\ Alone /\ (\A d \in Docs : Accounted(d)) /\ Answers

-----------------------------------------------------------------------------
(* One request moves *)

Shift(p, to, h) == step' = [step EXCEPT ![p] = to] /\ hand' = [hand EXCEPT ![p] = h]

\* What may become of a document while p makes a step.
Fate(p, d) ==
    \/ doc'[d] = doc[d]
    \/ doc[d] = "absent" /\ doc'[d] = "bytes"
    \/ doc[d] = "bytes" /\ doc'[d] = "kept" /\ step[p] = "row" /\ InHand(p, d)
    \/ doc[d] \in {"kept", "archived"} /\ doc'[d] = "archived"

Grown == log \subseteq log' /\ told \subseteq told' /\ cut \subseteq cut'

LEMMA Moving ==
    ASSUME VaultTypes, NEW p \in Clerks, NEW to \in VaultSteps, NEW h \in Hands, Shift(p, to, h)
    PROVE  /\ step' \in [Clerks -> VaultSteps] /\ hand' \in [Clerks -> Hands]
           /\ step'[p] = to /\ hand'[p] = h
           /\ \A q \in Clerks \ {p} : step'[q] = step[q] /\ hand'[q] = hand[q]
BY DEF VaultTypes, Shift

\* The others' hands stay good.
LEMMA Bystander ==
    ASSUME VaultInv, NEW p \in Clerks, NEW q \in Clerks \ {p}, Grown,
           step'[q] = step[q], hand'[q] = hand[q], \A d \in Docs : Fate(p, d)
    PROVE  Vouches(q)'
<1>1. hand[q].doc \subseteq Docs /\ hand[q].done \subseteq Docs
    BY DEF VaultInv, VaultTypes, Hands
<1>2. Vouches(q)
    BY DEF VaultInv
<1>3. ASSUME NEW d \in hand[q].doc
      PROVE  /\ step[q] = "row" => doc'[d] = "bytes"
             /\ step[q] \in {"uploaded", "tell", "close"} => doc'[d] \in {"kept", "archived"}
             /\ step[q] = "tell" => Logged(d, "UPLOADED")'
             /\ step[q] = "fetch" /\ hand[q].late => doc'[d] = "archived"
             /\ step[q] = "closed" => doc'[d] = "archived"
    <2>1. d \in Docs /\ Fate(p, d)
        BY <1>1, <1>3
    <2>2. step[q] = "row" => doc'[d] = "bytes"
        <3> SUFFICES ASSUME step[q] = "row" PROVE doc'[d] = "bytes"
            OBVIOUS
        <3>1. doc[d] = "bytes"
            BY <1>2, <1>3 DEF Vouches
        <3>2. ~(step[p] = "row" /\ InHand(p, d))
            BY <1>3, <2>1 DEF VaultInv, Alone, InHand
        <3> QED BY <2>1, <3>1, <3>2 DEF Fate
    <2>3. doc[d] \in {"kept", "archived"} => doc'[d] \in {"kept", "archived"}
        BY <2>1 DEF Fate
    <2>4. doc[d] = "archived" => doc'[d] = "archived"
        BY <2>1 DEF Fate
    <2> QED BY <1>2, <1>3, <2>2, <2>3, <2>4 DEF Vouches, Logged, Grown
<1> QED BY <1>2, <1>3 DEF Vouches, Logged, Grown

\* What a step of p must see to: its own hand, what it had to account for, and
\* what it makes somebody account for.
LEMMA Handing ==
    ASSUME VaultInv, NEW p \in Clerks, NEW to \in VaultSteps, NEW h \in Hands, Shift(p, to, h),
           doc' \in [Docs -> States], \A d \in Docs : Fate(p, d), Grown,
           Vouches(p)', Answers',
           to = "row" => \A d \in h.doc : doc[d] = "absent",
           \A d \in Docs : step[p] \in FilingStep /\ InHand(p, d) =>
                d \in cut' \/ (d \in told' /\ Logged(d, "UPLOADED")') \/ (to \in FilingStep /\ d \in h.doc),
           \A d \in Docs : doc[d] = "absent" /\ doc'[d] # "absent" => to \in FilingStep /\ d \in h.doc,
           \A d \in Docs : step[p] = "closed" /\ InHand(p, d) => d \in cut' \/ Logged(d, "DELETED")',
           \A d \in Docs : doc'[d] = "archived" /\ doc[d] # "archived" => to = "closed" /\ d \in h.doc
    PROVE  VaultInv'
<1>1. /\ step' \in [Clerks -> VaultSteps] /\ hand' \in [Clerks -> Hands]
      /\ step'[p] = to /\ hand'[p] = h
      /\ \A q \in Clerks \ {p} : step'[q] = step[q] /\ hand'[q] = hand[q]
    BY Moving DEF VaultInv
<1>2. VaultTypes'
    BY <1>1 DEF VaultTypes
<1>3. \A q \in Clerks : Vouches(q)'
    BY <1>1, Bystander
<1>4. Alone'
    <2> SUFFICES ASSUME NEW q \in Clerks, NEW k \in Clerks, NEW d \in Docs,
                        step'[q] = "row", step'[k] = "row", d \in hand'[q].doc, d \in hand'[k].doc, q # k
                 PROVE  FALSE
        BY DEF Alone, InHand
    <2>1. CASE q # p /\ k # p
        BY <1>1, <2>1 DEF VaultInv, Alone, InHand
    <2>2. ASSUME NEW a \in Clerks \ {p}, step'[a] = "row", d \in hand'[a].doc, to = "row", d \in h.doc
          PROVE  FALSE
        <3>1. step[a] = "row" /\ d \in hand[a].doc
            BY <1>1, <2>2
        <3>2. doc[d] = "bytes"
            BY <3>1 DEF VaultInv, Vouches
        <3> QED BY <2>2, <3>2
    <2> QED BY <1>1, <2>1, <2>2
<1>5. ASSUME NEW d \in Docs PROVE Accounted(d)'
    <2>1. Accounted(d) /\ Fate(p, d)
        BY DEF VaultInv
    <2>2. doc'[d] # "absent" =>
            \/ d \in cut' \/ (d \in told' /\ Logged(d, "UPLOADED")')
            \/ \E q \in Clerks : step'[q] \in FilingStep /\ d \in hand'[q].doc
        <3>1. CASE doc[d] = "absent"
            BY <1>1, <3>1
        <3>2. CASE d \in cut \/ (d \in told /\ Logged(d, "UPLOADED"))
            BY <3>2 DEF Grown, Logged
        <3>3. ASSUME NEW q \in Clerks, step[q] \in FilingStep, InHand(q, d)
              PROVE  \/ d \in cut' \/ (d \in told' /\ Logged(d, "UPLOADED")')
                     \/ \E k \in Clerks : step'[k] \in FilingStep /\ d \in hand'[k].doc
            BY <1>1, <3>3 DEF InHand
        <3> QED BY <2>1, <3>1, <3>2, <3>3 DEF Accounted
    <2>3. doc'[d] = "archived" =>
            \/ d \in cut' \/ Logged(d, "DELETED")'
            \/ \E q \in Clerks : step'[q] = "closed" /\ d \in hand'[q].doc
        <3>1. CASE doc[d] # "archived"
            BY <1>1, <3>1
        <3>2. CASE d \in cut \/ Logged(d, "DELETED")
            BY <3>2 DEF Grown, Logged
        <3>3. ASSUME NEW q \in Clerks, step[q] = "closed", InHand(q, d)
              PROVE  \/ d \in cut' \/ Logged(d, "DELETED")'
                     \/ \E k \in Clerks : step'[k] = "closed" /\ d \in hand'[k].doc
            BY <1>1, <3>3 DEF InHand
        <3> QED BY <2>1, <3>1, <3>2, <3>3 DEF Accounted
    <2> QED BY <2>2, <2>3 DEF Accounted, InHand
<1> QED BY <1>2, <1>3, <1>4, <1>5 DEF VaultInv

-----------------------------------------------------------------------------
(* The steps of a request *)

LEMMA HandsTyped ==
    ASSUME VaultInv, NEW p \in Clerks
    PROVE  /\ hand[p] \in Hands /\ hand[p].doc \subseteq Docs /\ step[p] \in VaultSteps /\ Vouches(p)
           /\ Empty \in Hands /\ \A d \in Docs : doc[d] \in States
           /\ \A d \in Docs : InHand(p, d) => hand[p].doc = {d}
BY DEF VaultInv, VaultTypes, Hands, Vouches, Empty, InHand

LEMMA HandEdits ==
    ASSUME NEW h \in Hands, NEW d \in Docs
    PROVE  LET a == [h EXCEPT !.todo = @ \ {d}, !.doc = {d}]
               b == [h EXCEPT !.todo = @ \ {d}, !.lost = TRUE]
               c == [h EXCEPT !.doc = {}, !.done = @ \cup {d}]
               e == [h EXCEPT !.sound = TRUE]
               f == [h EXCEPT !.entered = TRUE] IN
           /\ a \in Hands /\ a.doc = {d} /\ a.done = h.done
           /\ b \in Hands /\ b.doc = h.doc /\ b.done = h.done
           /\ c \in Hands /\ c.doc = {} /\ c.done = h.done \cup {d}
           /\ e \in Hands /\ e.doc = h.doc /\ e.done = h.done /\ e.late = h.late /\ e.sound
           /\ f \in Hands /\ f.doc = h.doc /\ f.done = h.done /\ f.late = h.late
           /\ f.sound = h.sound /\ f.entered
<1> DEFINE todo == h.todo \ {d}
           done == h.done \cup {d}
<1>1. todo \in SUBSET Docs /\ done \in SUBSET Docs
    BY DEF Hands
<1> HIDE DEF todo, done
<1>2. LET a == [h EXCEPT !.todo = todo, !.doc = {d}] IN a \in Hands /\ a.doc = {d} /\ a.done = h.done
    BY <1>1 DEF Hands
<1>3. LET b == [h EXCEPT !.todo = todo, !.lost = TRUE] IN b \in Hands /\ b.doc = h.doc /\ b.done = h.done
    BY <1>1 DEF Hands
<1>4. LET c == [h EXCEPT !.doc = {}, !.done = done] IN c \in Hands /\ c.doc = {} /\ c.done = done
    BY <1>1 DEF Hands
<1>5. LET e == [h EXCEPT !.sound = TRUE] IN
        e \in Hands /\ e.doc = h.doc /\ e.done = h.done /\ e.late = h.late /\ e.sound
    BY DEF Hands
<1>6. LET f == [h EXCEPT !.entered = TRUE] IN
        /\ f \in Hands /\ f.doc = h.doc /\ f.done = h.done /\ f.late = h.late
        /\ f.sound = h.sound /\ f.entered
    BY DEF Hands
<1> QED BY <1>2, <1>3, <1>4, <1>5, <1>6 DEF todo, done

LEMMA Begun ==
    ASSUME NEW d \in Docs, NEW S \in SUBSET Docs, NEW l \in BOOLEAN
    PROVE  LET a == [Empty EXCEPT !.doc = {d}]
               b == [Empty EXCEPT !.todo = S]
               c == [Empty EXCEPT !.doc = {d}, !.late = l] IN
           /\ {a, b, c} \subseteq Hands
           /\ a.doc = {d} /\ b.doc = {} /\ b.done = {} /\ c.doc = {d} /\ c.late = l
           /\ Empty.doc = {} /\ Empty.done = {}
BY DEF Hands, Empty

LEMMA UploadSafe ==
    ASSUME VaultInv, NEW p \in Clerks, NEW d \in Docs, Upload(p, d)
    PROVE  VaultInv'
<1> DEFINE h == [Empty EXCEPT !.doc = {d}]
<1>1. h \in Hands /\ h.doc = {d} /\ "row" \in VaultSteps
    BY Begun DEF VaultSteps, FilingStep
<1>2. step[p] = "idle" /\ Shift(p, "row", h) /\ doc[d] = "absent" /\ doc' = [doc EXCEPT ![d] = "bytes"]
      /\ UNCHANGED <<spoiled, log, told, signed, served, cut>>
    BY DEF Upload, Take, Shift
<1> HIDE DEF h
<1>3. doc' \in [Docs -> States] /\ (\A e \in Docs : Fate(p, e)) /\ doc'[d] = "bytes"
      /\ \A e \in Docs \ {d} : doc'[e] = doc[e]
    BY <1>2 DEF VaultInv, VaultTypes, States, Fate
<1>4. step'[p] = "row" /\ hand'[p] = h
    BY <1>1, <1>2, Moving DEF VaultInv
<1>5. Vouches(p)'
    BY <1>1, <1>3, <1>4 DEF Vouches
<1>6. Answers'
    BY <1>2 DEF VaultInv, Answers, Logged
<1>7. Grown
    BY <1>2 DEF Grown
<1> QED BY <1>1, <1>2, <1>3, <1>5, <1>6, <1>7, Handing DEF FilingStep

LEMMA CreateRowSafe ==
    ASSUME VaultInv, NEW p \in Clerks, NEW d \in Docs, CreateRow(p, d)
    PROVE  VaultInv'
<1>1. hand[p] \in Hands /\ "uploaded" \in VaultSteps /\ Vouches(p) /\ hand[p].doc = {d}
    BY HandsTyped DEF VaultSteps, FilingStep, CreateRow
<1>2. step[p] = "row" /\ InHand(p, d) /\ Shift(p, "uploaded", hand[p]) /\ doc' = [doc EXCEPT ![d] = "kept"]
      /\ UNCHANGED <<spoiled, log, told, signed, served, cut>>
    BY DEF CreateRow, Onward, Shift
<1>3. doc[d] = "bytes"
    BY <1>1, <1>2 DEF Vouches
<1>4. doc' \in [Docs -> States] /\ (\A e \in Docs : Fate(p, e)) /\ doc'[d] = "kept"
      /\ \A e \in Docs \ {d} : doc'[e] = doc[e]
    BY <1>2, <1>3 DEF VaultInv, VaultTypes, States, Fate
<1>5. step'[p] = "uploaded" /\ hand'[p] = hand[p]
    BY <1>1, <1>2, Moving DEF VaultInv
<1>6. Vouches(p)'
    BY <1>1, <1>4, <1>5 DEF Vouches
<1>7. Answers'
    BY <1>2 DEF VaultInv, Answers, Logged
<1>8. Grown
    BY <1>2 DEF Grown
<1> QED BY <1>1, <1>2, <1>3, <1>4, <1>6, <1>7, <1>8, Handing DEF FilingStep, InHand

\* VaultSteps that leave the documents' states alone.
LEMMA Calmly ==
    ASSUME VaultInv, NEW p \in Clerks, NEW to \in VaultSteps, NEW h \in Hands, Shift(p, to, h),
           doc' = doc, Grown, Answers', Vouches(p)', to # "row",
           \A d \in Docs : step[p] \in FilingStep /\ InHand(p, d) =>
                d \in cut' \/ (d \in told' /\ Logged(d, "UPLOADED")') \/ (to \in FilingStep /\ d \in h.doc),
           \A d \in Docs : step[p] = "closed" /\ InHand(p, d) => d \in cut' \/ Logged(d, "DELETED")'
    PROVE  VaultInv'
<1>1. doc' \in [Docs -> States] /\ \A d \in Docs : Fate(p, d)
    BY DEF VaultInv, VaultTypes, Fate
<1> QED BY <1>1, Handing

LEMMA LogUploadSafe ==
    ASSUME VaultInv, NEW p \in Clerks, NEW d \in Docs, LogUpload(p, d)
    PROVE  VaultInv'
<1>1. hand[p] \in Hands /\ "tell" \in VaultSteps /\ Vouches(p) /\ hand[p].doc = {d}
    BY HandsTyped DEF VaultSteps, FilingStep, LogUpload
<1>2. step[p] = "uploaded" /\ Shift(p, "tell", hand[p]) /\ doc' = doc /\ Logged(d, "UPLOADED")'
    BY DEF LogUpload, Onward, Shift, Logged
<1>3. step'[p] = "tell" /\ hand'[p] = hand[p]
    BY <1>1, <1>2, Moving DEF VaultInv
<1>4. Vouches(p)'
    BY <1>1, <1>2, <1>3 DEF Vouches
<1>5. Answers' /\ Grown
    BY DEF LogUpload, VaultInv, Answers, Logged, Grown
<1> QED BY <1>1, <1>2, <1>4, <1>5, Calmly DEF FilingStep, InHand

LEMMA TellUploadSafe ==
    ASSUME VaultInv, NEW p \in Clerks, NEW d \in Docs, TellUpload(p, d)
    PROVE  VaultInv'
<1>1. Empty \in Hands /\ "idle" \in VaultSteps /\ Vouches(p) /\ hand[p].doc = {d} /\ Empty.doc = {}
    BY HandsTyped DEF VaultSteps, TellUpload, Empty
<1>2. step[p] = "tell" /\ Shift(p, "idle", Empty) /\ doc' = doc /\ told' = told \cup {d}
      /\ UNCHANGED <<spoiled, log, signed, served, cut>>
    BY DEF TellUpload, Finish, Onward, Shift
<1>3. step'[p] = "idle" /\ hand'[p] = Empty
    BY <1>1, <1>2, Moving DEF VaultInv
<1>4. Vouches(p)'
    BY <1>1, <1>3 DEF Vouches
<1>5. Answers' /\ Grown
    BY <1>2 DEF VaultInv, Answers, Logged, Grown
<1>6. d \in told' /\ Logged(d, "UPLOADED")'
    BY <1>1, <1>2 DEF Vouches, Logged
<1> QED BY <1>1, <1>2, <1>4, <1>5, <1>6, Calmly DEF InHand

\* A request takes a page or a handover in hand: no document.
LEMMA Opening ==
    ASSUME VaultInv, NEW p \in Clerks, NEW to \in VaultSteps, NEW h \in Hands, h.doc = {}, h.done = {},
           to \in {"idle", "page"} \cup AckSteps, step[p] \notin FilingStep \cup {"closed"},
           Shift(p, to, h), UNCHANGED <<vaultRows, served, cut>>
    PROVE  VaultInv'
<1>1. step'[p] = to /\ hand'[p] = h
    BY Moving DEF VaultInv
<1>2. Vouches(p)'
    BY <1>1 DEF Vouches, AckSteps
<1>3. Answers' /\ Grown
    BY DEF VaultInv, Answers, Logged, Grown, vaultRows
<1> QED BY <1>2, <1>3, Calmly DEF vaultRows, AckSteps

LEMMA OpenPageSafe ==
    ASSUME VaultInv, NEW p \in Clerks, NEW S \in SUBSET Docs, OpenPage(p, S)
    PROVE  VaultInv'
<1> DEFINE h == [Empty EXCEPT !.todo = {d \in S : doc[d] = "kept"}]
<1>1. h \in Hands /\ h.doc = {} /\ h.done = {}
    BY DEF Hands, Empty
<1>2. step[p] = "idle" /\ Shift(p, "page", h) /\ UNCHANGED <<vaultRows, served, cut>>
    BY DEF OpenPage, Take, Shift
<1> HIDE DEF h
<1> QED BY <1>1, <1>2, Opening DEF VaultSteps, FilingStep

LEMMA GetForUrlSafe ==
    ASSUME VaultInv, NEW p \in Clerks, NEW d \in Docs, GetForUrl(p, d)
    PROVE  VaultInv'
<1> DEFINE a == [hand[p] EXCEPT !.todo = @ \ {d}, !.doc = {d}]
           b == [hand[p] EXCEPT !.todo = @ \ {d}, !.lost = TRUE]
<1>1. hand[p] \in Hands /\ Vouches(p) /\ {"page", "viewed"} \subseteq VaultSteps
    BY HandsTyped DEF VaultSteps
<1>2. /\ a \in Hands /\ a.doc = {d} /\ a.done = hand[p].done
      /\ b \in Hands /\ b.doc = hand[p].doc /\ b.done = hand[p].done
    BY <1>1, HandEdits
<1>3. /\ step[p] = "page" /\ UNCHANGED <<vaultRows, served, cut>>
      /\ Shift(p, "viewed", a) \/ Shift(p, "page", b)
    BY DEF GetForUrl, Onward, Shift
<1> HIDE DEF a, b
<1>4. Answers' /\ Grown /\ log' = log /\ doc' = doc
    BY <1>3 DEF VaultInv, Answers, Logged, Grown, vaultRows
<1>5. CASE Shift(p, "viewed", a)
    <2>1. step'[p] = "viewed" /\ hand'[p] = a
        BY <1>1, <1>2, <1>5, Moving DEF VaultInv
    <2>2. Vouches(p)'
        BY <1>1, <1>2, <1>3, <1>4, <2>1 DEF Vouches, Logged
    <2> QED BY <1>1, <1>2, <1>3, <1>4, <1>5, <2>2, Calmly DEF FilingStep
<1>6. CASE Shift(p, "page", b)
    <2>1. step'[p] = "page" /\ hand'[p] = b
        BY <1>1, <1>2, <1>6, Moving DEF VaultInv
    <2>2. Vouches(p)'
        BY <1>1, <1>2, <1>3, <1>4, <2>1 DEF Vouches, Logged
    <2> QED BY <1>1, <1>2, <1>3, <1>4, <1>6, <2>2, Calmly DEF FilingStep
<1> QED BY <1>3, <1>5, <1>6

LEMMA LogViewSafe ==
    ASSUME VaultInv, NEW p \in Clerks, NEW d \in Docs, LogView(p, d)
    PROVE  VaultInv'
<1> DEFINE h == [hand[p] EXCEPT !.doc = {}, !.done = @ \cup {d}]
<1>1. hand[p] \in Hands /\ Vouches(p) /\ "page" \in VaultSteps
    BY HandsTyped DEF VaultSteps
<1>2. h \in Hands /\ h.doc = {} /\ h.done = hand[p].done \cup {d}
    BY <1>1, HandEdits
<1>3. step[p] = "viewed" /\ Shift(p, "page", h) /\ log' = log \cup {<<d, "VIEWED">>}
      /\ UNCHANGED <<doc, spoiled, told, signed, served, cut>>
    BY DEF LogView, Onward, Shift
<1> HIDE DEF h
<1>4. Answers' /\ Grown
    BY <1>3 DEF VaultInv, Answers, Logged, Grown
<1>5. step'[p] = "page" /\ hand'[p] = h
    BY <1>1, <1>2, <1>3, Moving DEF VaultInv
<1>6. Vouches(p)'
    BY <1>1, <1>2, <1>3, <1>5 DEF Vouches, Logged
<1> QED BY <1>1, <1>2, <1>3, <1>4, <1>6, Calmly DEF FilingStep

LEMMA RenderSafe ==
    ASSUME VaultInv, NEW p \in Clerks, Render(p)
    PROVE  VaultInv'
<1>1. hand[p] \in Hands /\ Empty \in Hands /\ "idle" \in VaultSteps /\ Vouches(p)
      /\ Empty.doc = {} /\ Empty.done = {}
    BY HandsTyped DEF VaultSteps, Empty
<1>2. step[p] = "page" /\ Shift(p, "idle", Empty) /\ UNCHANGED <<doc, spoiled, log, told, served, cut>>
      /\ signed' \subseteq signed \cup hand[p].done
    BY DEF Render, Finish, Onward, Shift
<1>3. Answers' /\ Grown
    BY <1>1, <1>2 DEF VaultInv, Answers, Logged, Grown, Vouches
<1>4. step'[p] = "idle" /\ hand'[p] = Empty
    BY <1>1, <1>2, Moving DEF VaultInv
<1>5. Vouches(p)'
    BY <1>1, <1>4 DEF Vouches
<1> QED BY <1>1, <1>2, <1>3, <1>5, Calmly DEF FilingStep

LEMMA OpenUrlSafe ==
    ASSUME VaultInv, NEW p \in Clerks, NEW d \in Docs, OpenUrl(p, d)
    PROVE  VaultInv'
<1> DEFINE l == (doc[d] = "archived")
           h == [Empty EXCEPT !.doc = {d}, !.late = l]
<1>1. l \in BOOLEAN /\ "fetch" \in VaultSteps
    BY DEF VaultSteps
<1>2. h \in Hands /\ h.doc = {d} /\ h.late = l
    BY <1>1, Begun
<1>3. step[p] = "idle" /\ Shift(p, "fetch", h) /\ UNCHANGED <<vaultRows, served, cut>>
    BY DEF OpenUrl, Take, Shift
<1> HIDE DEF h
<1>4. Answers' /\ Grown /\ doc' = doc
    BY <1>3 DEF VaultInv, Answers, Logged, Grown, vaultRows
<1>5. step'[p] = "fetch" /\ hand'[p] = h
    BY <1>1, <1>2, <1>3, Moving DEF VaultInv
<1>6. Vouches(p)'
    BY <1>2, <1>4, <1>5 DEF Vouches
<1> QED BY <1>1, <1>2, <1>3, <1>4, <1>6, Calmly DEF FilingStep

\* A download gives up: nothing is left in hand.
LEMMA GivingUp ==
    ASSUME VaultInv, NEW p \in Clerks, step[p] \in {"fetch", "bytes", "send"}, Finish(p, step[p]),
           UNCHANGED <<vaultRows, cut>>,
           \A s \in served' \ served : ~s.late /\ s.sound /\ s.entered
    PROVE  VaultInv'
<1>1. Empty \in Hands /\ "idle" \in VaultSteps /\ Empty.doc = {} /\ Empty.done = {}
    BY HandsTyped DEF VaultSteps, Empty
<1>2. Shift(p, "idle", Empty)
    BY DEF Finish, Onward, Shift
<1>3. Answers' /\ Grown /\ doc' = doc
    BY DEF VaultInv, Answers, Logged, Grown, vaultRows
<1>4. step'[p] = "idle" /\ hand'[p] = Empty
    BY <1>1, <1>2, Moving DEF VaultInv
<1>5. Vouches(p)'
    BY <1>1, <1>4 DEF Vouches
<1> QED BY <1>1, <1>2, <1>3, <1>5, Calmly DEF FilingStep

LEMMA ReadRowSafe ==
    ASSUME VaultInv, NEW p \in Clerks, NEW d \in Docs, ReadRow(p, d)
    PROVE  VaultInv'
<1>1. hand[p] \in Hands /\ Vouches(p) /\ "bytes" \in VaultSteps /\ d \in hand[p].doc
    BY HandsTyped DEF VaultSteps, ReadRow, InHand
<1>2. UNCHANGED <<vaultRows, served, cut>> /\ step[p] = "fetch"
    BY DEF ReadRow, Onward, Finish
<1>3. CASE Readable(d)
    <2>1. Shift(p, "bytes", hand[p]) /\ ~hand[p].late
        BY <1>1, <1>2, <1>3 DEF ReadRow, Onward, Shift, Readable, Vouches
    <2>2. Answers' /\ Grown /\ doc' = doc /\ log' = log
        BY <1>2 DEF VaultInv, Answers, Logged, Grown, vaultRows
    <2>3. step'[p] = "bytes" /\ hand'[p] = hand[p]
        BY <1>1, <2>1, Moving DEF VaultInv
    <2>4. Vouches(p)'
        BY <1>1, <2>1, <2>2, <2>3 DEF Vouches
    <2> QED BY <1>1, <1>2, <2>1, <2>2, <2>4, Calmly DEF FilingStep
<1>4. CASE ~Readable(d)
    BY <1>2, <1>4, GivingUp DEF ReadRow
<1> QED BY <1>3, <1>4

LEMMA GetBytesSafe ==
    ASSUME VaultInv, NEW p \in Clerks, NEW d \in Docs, GetBytes(p, d)
    PROVE  VaultInv'
<1> DEFINE h == [hand[p] EXCEPT !.sound = TRUE]
<1>1. hand[p] \in Hands /\ Vouches(p) /\ "enter" \in VaultSteps
    BY HandsTyped DEF VaultSteps
<1>2. h \in Hands /\ h.doc = hand[p].doc /\ h.late = hand[p].late /\ h.sound
    BY <1>1, HandEdits
<1>3. UNCHANGED <<vaultRows, served, cut>> /\ step[p] = "bytes"
    BY DEF GetBytes, Onward, Finish
<1>4. CASE d \in spoiled
    BY <1>3, <1>4, GivingUp DEF GetBytes
<1>5. CASE d \notin spoiled
    <2>1. Shift(p, "enter", h)
        BY <1>5 DEF GetBytes, Onward, Shift
    <2> HIDE DEF h
    <2>2. Answers' /\ Grown /\ doc' = doc
        BY <1>3 DEF VaultInv, Answers, Logged, Grown, vaultRows
    <2>3. step'[p] = "enter" /\ hand'[p] = h
        BY <1>1, <1>2, <2>1, Moving DEF VaultInv
    <2>4. Vouches(p)'
        BY <1>1, <1>2, <1>3, <2>3 DEF Vouches
    <2> QED BY <1>1, <1>2, <1>3, <2>1, <2>2, <2>4, Calmly DEF FilingStep
<1> QED BY <1>4, <1>5

LEMMA LogDownloadSafe ==
    ASSUME VaultInv, NEW p \in Clerks, NEW d \in Docs, LogDownload(p, d)
    PROVE  VaultInv'
<1> DEFINE h == [hand[p] EXCEPT !.entered = TRUE]
<1>1. hand[p] \in Hands /\ Vouches(p) /\ "send" \in VaultSteps
    BY HandsTyped DEF VaultSteps
<1>2. h \in Hands /\ h.doc = hand[p].doc /\ h.late = hand[p].late /\ h.sound = hand[p].sound /\ h.entered
    BY <1>1, HandEdits
<1>3. step[p] = "enter" /\ Shift(p, "send", h) /\ log' = log \cup {<<d, "DOWNLOADED">>}
      /\ UNCHANGED <<doc, spoiled, told, signed, served, cut>>
    BY DEF LogDownload, Onward, Shift
<1> HIDE DEF h
<1>4. Answers' /\ Grown /\ doc' = doc
    BY <1>3 DEF VaultInv, Answers, Logged, Grown
<1>5. step'[p] = "send" /\ hand'[p] = h
    BY <1>1, <1>2, <1>3, Moving DEF VaultInv
<1>6. Vouches(p)'
    BY <1>1, <1>2, <1>3, <1>5 DEF Vouches
<1> QED BY <1>1, <1>2, <1>3, <1>4, <1>6, Calmly DEF FilingStep

LEMMA ServeSafe ==
    ASSUME VaultInv, NEW p \in Clerks, NEW d \in Docs, Serve(p, d)
    PROVE  VaultInv'
<1>1. step[p] = "send" /\ Vouches(p) /\ Finish(p, step[p]) /\ UNCHANGED <<vaultRows, cut>>
    BY HandsTyped DEF Serve, Finish, Onward
<1>2. \A s \in served' \ served : ~s.late /\ s.sound /\ s.entered
    BY <1>1 DEF Serve, Vouches
<1> QED BY <1>1, <1>2, GivingUp

LEMMA GetToArchiveSafe ==
    ASSUME VaultInv, NEW p \in Clerks, NEW d \in Docs, GetToArchive(p, d)
    PROVE  VaultInv'
<1> DEFINE h == [Empty EXCEPT !.doc = {d}]
<1>1. h \in Hands /\ h.doc = {d} /\ "close" \in VaultSteps
    BY Begun DEF VaultSteps
<1>2. step[p] = "idle" /\ Shift(p, "close", h) /\ UNCHANGED <<vaultRows, served, cut>> /\ doc[d] = "kept"
    BY DEF GetToArchive, Take, Shift, Readable
<1> HIDE DEF h
<1>3. Answers' /\ Grown /\ doc' = doc
    BY <1>2 DEF VaultInv, Answers, Logged, Grown, vaultRows
<1>4. step'[p] = "close" /\ hand'[p] = h
    BY <1>1, <1>2, Moving DEF VaultInv
<1>5. Vouches(p)'
    BY <1>1, <1>2, <1>3, <1>4 DEF Vouches
<1> QED BY <1>1, <1>2, <1>3, <1>5, Calmly DEF FilingStep

LEMMA WriteArchivedSafe ==
    ASSUME VaultInv, NEW p \in Clerks, NEW d \in Docs, WriteArchived(p, d)
    PROVE  VaultInv'
<1>1. hand[p] \in Hands /\ "closed" \in VaultSteps /\ Vouches(p) /\ hand[p].doc = {d}
    BY HandsTyped DEF VaultSteps, WriteArchived
<1>2. step[p] = "close" /\ Shift(p, "closed", hand[p]) /\ doc' = [doc EXCEPT ![d] = "archived"]
      /\ UNCHANGED <<spoiled, log, told, signed, served, cut>>
    BY DEF WriteArchived, Onward, Shift
<1>3. doc[d] \in {"kept", "archived"}
    BY <1>1, <1>2 DEF Vouches
<1>4. doc' \in [Docs -> States] /\ (\A e \in Docs : Fate(p, e)) /\ doc'[d] = "archived"
      /\ \A e \in Docs \ {d} : doc'[e] = doc[e]
    BY <1>2, <1>3 DEF VaultInv, VaultTypes, States, Fate
<1>5. step'[p] = "closed" /\ hand'[p] = hand[p]
    BY <1>1, <1>2, Moving DEF VaultInv
<1>6. Vouches(p)'
    BY <1>1, <1>4, <1>5 DEF Vouches
<1>7. Answers' /\ Grown
    BY <1>2 DEF VaultInv, Answers, Logged, Grown
<1> QED BY <1>1, <1>2, <1>3, <1>4, <1>6, <1>7, Handing DEF FilingStep

LEMMA LogArchivedSafe ==
    ASSUME VaultInv, NEW p \in Clerks, NEW d \in Docs, LogArchived(p, d)
    PROVE  VaultInv'
<1>1. Empty \in Hands /\ "idle" \in VaultSteps /\ Empty.doc = {} /\ hand[p].doc = {d}
    BY HandsTyped DEF VaultSteps, Empty, LogArchived
<1>2. step[p] = "closed" /\ Shift(p, "idle", Empty) /\ log' = log \cup {<<d, "DELETED">>}
      /\ UNCHANGED <<doc, spoiled, told, signed, served, cut>>
    BY DEF LogArchived, Finish, Onward, Shift
<1>3. Answers' /\ Grown /\ Logged(d, "DELETED")'
    BY <1>2 DEF VaultInv, Answers, Logged, Grown
<1>4. step'[p] = "idle" /\ hand'[p] = Empty
    BY <1>1, <1>2, Moving DEF VaultInv
<1>5. Vouches(p)'
    BY <1>1, <1>4 DEF Vouches
<1> QED BY <1>1, <1>2, <1>3, <1>5, Calmly DEF FilingStep, InHand

LEMMA DieFilingSafe ==
    ASSUME VaultInv, NEW p \in Clerks, DieFiling(p)
    PROVE  VaultInv'
<1>1. Empty \in Hands /\ "idle" \in VaultSteps /\ Empty.doc = {}
    BY HandsTyped DEF VaultSteps, Empty
<1>2. Shift(p, "idle", Empty) /\ cut' = cut \cup hand[p].doc /\ UNCHANGED <<vaultRows, served>>
    BY DEF DieFiling, Finish, Onward, Shift
<1>3. Answers' /\ Grown /\ doc' = doc
    BY <1>2 DEF VaultInv, Answers, Logged, Grown, vaultRows
<1>4. step'[p] = "idle" /\ hand'[p] = Empty
    BY <1>1, <1>2, Moving DEF VaultInv
<1>5. Vouches(p)'
    BY <1>1, <1>4 DEF Vouches
<1> QED BY <1>1, <1>2, <1>3, <1>5, Calmly DEF InHand

\* Nobody's step: a URL expires, bytes spoil, a handover's own tables change.
LEMMA Untouched ==
    ASSUME VaultInv, UNCHANGED <<doc, log, told, step, hand, served, cut>>, signed' \subseteq signed
    PROVE  VaultInv'
BY DEF VaultInv, VaultTypes, Vouches, Alone, Accounted, Answers, Logged, InHand

LEMMA FileStepSafe ==
    ASSUME VaultInv, NEW p \in Clerks, FileStep(p)
    PROVE  VaultInv'
BY CreateRowSafe, LogUploadSafe, TellUploadSafe, GetForUrlSafe, LogViewSafe, ReadRowSafe,
   GetBytesSafe, LogDownloadSafe, ServeSafe, WriteArchivedSafe, LogArchivedSafe, RenderSafe
   DEF FileStep

LEMMA VaultStep == VaultInv /\ [VaultNext]_vaultVars => VaultInv'
<1> SUFFICES ASSUME VaultInv, [VaultNext]_vaultVars PROVE VaultInv'
    OBVIOUS
<1>1. CASE UNCHANGED vaultVars
    BY <1>1, Untouched DEF vaultVars
<1>2. ASSUME NEW p \in Clerks, NEW d \in Docs, Upload(p, d) \/ OpenUrl(p, d) \/ GetToArchive(p, d)
      PROVE  VaultInv'
    BY <1>2, UploadSafe, OpenUrlSafe, GetToArchiveSafe
<1>3. ASSUME NEW p \in Clerks, OpenPage(p, Docs) \/ FileStep(p) \/ DieFiling(p)
      PROVE  VaultInv'
    BY <1>3, OpenPageSafe, FileStepSafe, DieFilingSafe
<1>4. ASSUME NEW d \in Docs, UrlExpires(d) \/ Spoil(d)
      PROVE  VaultInv'
    BY <1>4, Untouched DEF UrlExpires, Spoil
<1> QED BY <1>1, <1>2, <1>3, <1>4 DEF VaultNext

LEMMA VaultStarts == VaultInit => VaultInv
BY DEF VaultInit, VaultInv, VaultTypes, States, VaultSteps, Hands, Vouches, Alone, Accounted, Answers,
       Empty, InHand

LEMMA InvAccounts == VaultInv => VaultAccounts
BY DEF VaultInv, VaultTypes, States, Accounted, Answers, Logged, VaultAccounts, AtRest

\* Archive ends access, and every touch is in the log (documents.ts:48-63,
\* 180-193, files/[id]/route.ts:14-28), for any number of documents and requests
\* and wherever requests die: bytes go out only to requests made before the
\* archive, verified and already entered; whatever is at rest is accounted for.
THEOREM VaultAccountsHolds == VaultSpec => []VaultAccounts
<1>1. VaultSpec => []VaultInv
    BY VaultStarts, VaultStep, PTL DEF VaultSpec
<1> QED BY <1>1, InvAccounts, PTL

(***************************************************************************)
(* The handover.  An acknowledgement under way that nobody met knows how   *)
(* far the row and the timeline have come (Halfway); between two of them   *)
(* the row and the timeline agree (Settled).                               *)
(***************************************************************************)
Statuses == {"PENDING", "PARTIALLY_ACKNOWLEDGED", "COMPLETED"}
HandoverTypes ==
    /\ movein \in [Handovers -> [made : BOOLEAN, acks : SUBSET Sides, status : Statuses]]
    /\ ack \in [Clerks -> [of : SUBSET Handovers, side : SUBSET Sides, had : SUBSET Sides]]
    /\ completed \in [Handovers -> Nat]

\* What a request that acknowledges has in hand.
Claim(p) ==
    step[p] \in AckSteps =>
        /\ hand[p] = Empty
        /\ \E h \in Handovers, s \in Sides :
            ack[p].of = {h} /\ ack[p].side = {s} /\ s \notin ack[p].had

Told(h) == {s \in Sides : <<h, s>> \in acked}
Settled(h) ==
    /\ Told(h) = movein[h].acks
    /\ completed[h] = IF movein[h].acks = Sides THEN 1 ELSE 0
    /\ movein[h].status = "COMPLETED" <=> movein[h].acks = Sides

Halfway(h, p) ==
    /\ completed[h] = 0
    /\ Told(h) = IF step[p] = "complete" THEN Merged(p) ELSE ack[p].had
    /\ movein[h].acks = IF step[p] = "write" THEN ack[p].had ELSE Merged(p)
    /\ movein[h].status = "COMPLETED" <=> movein[h].acks = Sides
    /\ step[p] = "complete" => Done(p)

Followed(h) ==
    /\ \A p, q \in Reading(h) : p = q
    /\ Reading(h) = {} => Settled(h)
    /\ \A p \in Reading(h) : Halfway(h, p)

Spared == Handovers \ (met \cup broken)

HandoverInv ==
    /\ VaultInv /\ HandoverTypes
    /\ \A p \in Clerks : Claim(p)
    /\ \A h \in Spared : Followed(h)

-----------------------------------------------------------------------------
(* VaultSteps that acknowledge nothing *)

LEMMA FollowedStays ==
    ASSUME NEW h \in Handovers, Followed(h), Reading(h)' = Reading(h), movein'[h] = movein[h],
           completed'[h] = completed[h], Told(h)' = Told(h),
           \A q \in Reading(h) : ack'[q] = ack[q] /\ step'[q] = step[q]
    PROVE  Followed(h)'
<1>1. Settled(h) => Settled(h)'
    BY DEF Settled
<1>2. ASSUME NEW q \in Reading(h) PROVE Halfway(h, q)'
    <2>1. Halfway(h, q) /\ Merged(q)' = Merged(q) /\ ack'[q] = ack[q] /\ step'[q] = step[q]
        BY <1>2 DEF Followed, Merged
    <2> QED BY <2>1 DEF Halfway, Done
<1> QED BY <1>1, <1>2 DEF Followed

\* A request that is not acknowledging goes on with something else.
LEMMA Elsewhere ==
    ASSUME HandoverInv, VaultInv', NEW p \in Clerks, NEW to \in VaultSteps \ AckSteps, step[p] \notin AckSteps,
           NEW k, Shift(p, to, k),
           UNCHANGED <<movein, acked, completed, ack, met, broken>>
    PROVE  HandoverInv'
<1>1. step \in [Clerks -> VaultSteps] /\ hand \in [Clerks -> Hands]
    BY DEF HandoverInv, VaultInv, VaultTypes
<1>2. \A q \in Clerks : (step'[q] \in AckSteps) <=> (step[q] \in AckSteps)
    BY <1>1 DEF Shift
<1>3. \A q \in Clerks : step[q] \in AckSteps => step'[q] = step[q] /\ hand'[q] = hand[q]
    BY <1>1 DEF Shift
<1>4. HandoverTypes'
    BY DEF HandoverInv, HandoverTypes
<1>5. \A q \in Clerks : Claim(q)'
    BY <1>2, <1>3 DEF HandoverInv, Claim
<1>6. ASSUME NEW h \in Spared' PROVE Followed(h)'
    <2>1. h \in Handovers /\ Followed(h)
        BY <1>6 DEF HandoverInv, Spared
    <2>2. Reading(h)' = Reading(h) /\ \A q \in Reading(h) : step'[q] = step[q]
        BY <1>2, <1>3 DEF Reading
    <2> QED BY <2>1, <2>2, FollowedStays DEF Told
<1> QED BY <1>4, <1>5, <1>6 DEF HandoverInv

LEMMA FileStepShifts ==
    ASSUME NEW p \in Clerks, FileStep(p)
    PROVE  step[p] \notin AckSteps /\ \E to \in VaultSteps \ AckSteps : \E k : Shift(p, to, k)
<1>1. {"uploaded", "tell", "viewed", "page", "bytes", "enter", "send", "closed", "idle"} \subseteq VaultSteps \ AckSteps
    BY DEF VaultSteps, AckSteps, FilingStep
<1>2. ASSUME NEW d \in Docs, CreateRow(p, d) \/ LogUpload(p, d) \/ TellUpload(p, d) \/ Serve(p, d)
                \/ WriteArchived(p, d) \/ LogArchived(p, d) \/ LogDownload(p, d) \/ LogView(p, d)
      PROVE  step[p] \notin AckSteps /\ \E to \in VaultSteps \ AckSteps : \E k : Shift(p, to, k)
    BY <1>1, <1>2 DEF CreateRow, LogUpload, TellUpload, Serve, WriteArchived, LogArchived, LogDownload,
                      LogView, Onward, Finish, Shift, AckSteps
<1>3. ASSUME NEW d \in Docs, GetForUrl(p, d) \/ ReadRow(p, d) \/ GetBytes(p, d)
      PROVE  step[p] \notin AckSteps /\ \E to \in VaultSteps \ AckSteps : \E k : Shift(p, to, k)
    BY <1>1, <1>3 DEF GetForUrl, ReadRow, GetBytes, Onward, Finish, Shift, AckSteps
<1>4. ASSUME Render(p)
      PROVE  step[p] \notin AckSteps /\ \E to \in VaultSteps \ AckSteps : \E k : Shift(p, to, k)
    BY <1>1, <1>4 DEF Render, Onward, Finish, Shift, AckSteps
<1> QED BY <1>2, <1>3, <1>4 DEF FileStep

-----------------------------------------------------------------------------
(* VaultSteps of an acknowledgement: p moves on, about h *)

Moves(p, h, to, a) ==
    /\ Shift(p, to, Empty) /\ ack' = [ack EXCEPT ![p] = a]
    /\ step[p] \in AckSteps => h \in ack[p].of
    /\ to \in AckSteps => a.of = {h} /\ \E s \in Sides : a.side = {s} /\ s \notin a.had

LEMMA Moved ==
    ASSUME HandoverInv, NEW p \in Clerks, NEW h \in Handovers, NEW to \in VaultSteps,
           NEW a \in [of : SUBSET Handovers, side : SUBSET Sides, had : SUBSET Sides],
           Moves(p, h, to, a)
    PROVE  /\ step'[p] = to /\ hand'[p] = Empty /\ ack'[p] = a
           /\ \A q \in Clerks \ {p} : step'[q] = step[q] /\ hand'[q] = hand[q] /\ ack'[q] = ack[q]
           /\ ack' \in [Clerks -> [of : SUBSET Handovers, side : SUBSET Sides, had : SUBSET Sides]]
           /\ \A q \in Clerks : Claim(q)'
           /\ \A k \in Handovers \ {h} : Reading(k)' = Reading(k) /\ p \notin Reading(k)
           /\ Reading(h)' = (Reading(h) \ {p}) \cup (IF to \in AckSteps THEN {p} ELSE {})
<1>1. /\ step \in [Clerks -> VaultSteps] /\ hand \in [Clerks -> Hands]
      /\ ack \in [Clerks -> [of : SUBSET Handovers, side : SUBSET Sides, had : SUBSET Sides]]
    BY DEF HandoverInv, VaultInv, VaultTypes, HandoverTypes
<1>2. /\ step'[p] = to /\ hand'[p] = Empty /\ ack'[p] = a
      /\ \A q \in Clerks \ {p} : step'[q] = step[q] /\ hand'[q] = hand[q] /\ ack'[q] = ack[q]
    BY <1>1 DEF Moves, Shift
<1>3. ack' \in [Clerks -> [of : SUBSET Handovers, side : SUBSET Sides, had : SUBSET Sides]]
    BY <1>1 DEF Moves
<1>4. ASSUME NEW q \in Clerks PROVE Claim(q)'
    <2>1. Claim(q)
        BY DEF HandoverInv
    <2>2. CASE q = p
        BY <1>2, <2>2 DEF Claim, Moves
    <2>3. CASE q # p
        BY <1>2, <2>1, <2>3 DEF Claim
    <2> QED BY <2>2, <2>3
<1>5. ASSUME NEW k \in Handovers \ {h} PROVE Reading(k)' = Reading(k) /\ p \notin Reading(k)
    <2>1. step[p] \in AckSteps => k \notin ack[p].of
        BY DEF HandoverInv, Claim, Moves
    <2>2. step'[p] \in AckSteps => k \notin ack'[p].of
        BY <1>2 DEF Moves
    <2>3. \A q \in Clerks : (step'[q] \in AckSteps /\ k \in ack'[q].of) <=> (step[q] \in AckSteps /\ k \in ack[q].of)
        BY <1>2, <2>1, <2>2
    <2> QED BY <2>1, <2>3 DEF Reading
<1>6. Reading(h)' = (Reading(h) \ {p}) \cup (IF to \in AckSteps THEN {p} ELSE {})
    <2>1. to \in AckSteps => h \in a.of
        BY DEF Moves
    <2>2. \A q \in Clerks \ {p} : (step'[q] \in AckSteps /\ h \in ack'[q].of) <=> (step[q] \in AckSteps /\ h \in ack[q].of)
        BY <1>2
    <2> QED BY <1>2, <2>1, <2>2 DEF Reading
<1> QED BY <1>2, <1>3, <1>4, <1>5, <1>6

LEMMA Acknowledging ==
    ASSUME HandoverInv, VaultInv', NEW p \in Clerks, NEW h \in Handovers, NEW to \in VaultSteps,
           NEW a \in [of : SUBSET Handovers, side : SUBSET Sides, had : SUBSET Sides],
           Moves(p, h, to, a), met \subseteq met', broken \subseteq broken',
           movein' \in [Handovers -> [made : BOOLEAN, acks : SUBSET Sides, status : Statuses]],
           completed' \in [Handovers -> Nat],
           \A k \in Handovers \ {h} :
                movein'[k] = movein[k] /\ completed'[k] = completed[k] /\ Told(k)' = Told(k),
           h \in Spared' => Followed(h)'
    PROVE  HandoverInv'
<1>1. HandoverTypes' /\ \A q \in Clerks : Claim(q)'
    BY Moved DEF HandoverTypes
<1>2. ASSUME NEW k \in Spared', k # h PROVE Followed(k)'
    <2>1. k \in Handovers /\ Followed(k)
        BY <1>2 DEF HandoverInv, Spared
    <2>2. Reading(k)' = Reading(k) /\ p \notin Reading(k) /\ Reading(k) \subseteq Clerks
        BY <1>2, <2>1, Moved DEF Reading
    <2>3. \A q \in Reading(k) : ack'[q] = ack[q] /\ step'[q] = step[q]
        BY <2>2, Moved
    <2> QED BY <1>2, <2>1, <2>2, <2>3, FollowedStays
<1> QED BY <1>1, <1>2 DEF HandoverInv

\* What a step of the only request at h starts from.
LEMMA OnlyOne ==
    ASSUME HandoverInv, NEW p \in Clerks, NEW h \in Handovers, step[p] \in AckSteps, h \in ack[p].of
    PROVE  /\ hand[p] = Empty /\ ack[p].of = {h}
           /\ \E s \in Sides : ack[p].side = {s} /\ s \notin ack[p].had
           /\ ack[p] \in [of : SUBSET Handovers, side : SUBSET Sides, had : SUBSET Sides]
           /\ h \in Spared => Reading(h) = {p} /\ Halfway(h, p)
<1>1. p \in Reading(h)
    BY DEF Reading
<1>2. h \in Spared => Reading(h) = {p} /\ Halfway(h, p)
    BY <1>1 DEF HandoverInv, Followed
<1> QED BY <1>2 DEF HandoverInv, HandoverTypes, Claim

LEMMA NoAckTyped == NoAck \in [of : SUBSET Handovers, side : SUBSET Sides, had : SUBSET Sides]
BY DEF NoAck

\* The moves of an acknowledgement leave the vault as it was.
LEMMA VaultAside ==
    ASSUME HandoverInv, NEW p \in Clerks, NEW to \in AckSteps \cup {"idle"},
           step[p] \in AckSteps \cup {"idle"}, Shift(p, to, Empty), UNCHANGED <<vaultRows, served, cut>>
    PROVE  VaultInv' /\ to \in VaultSteps
<1>1. VaultInv /\ to \in VaultSteps /\ Empty \in Hands /\ Empty.doc = {} /\ Empty.done = {}
    BY DEF HandoverInv, VaultSteps, Empty, Hands
<1>2. step[p] \notin FilingStep \cup {"closed"}
    BY DEF FilingStep, AckSteps
<1> QED BY <1>1, <1>2, Opening

-----------------------------------------------------------------------------
LEMMA ReadMoveInSafe ==
    ASSUME HandoverInv, NEW p \in Clerks, NEW h \in Handovers, NEW s \in Sides, ReadMoveIn(p, h, s)
    PROVE  HandoverInv'
<1> DEFINE a == [of |-> {h}, side |-> {s}, had |-> movein[h].acks]
<1>1. /\ step[p] = "idle" /\ s \notin movein[h].acks /\ Shift(p, "write", Empty)
      /\ ack' = [ack EXCEPT ![p] = a]
      /\ UNCHANGED <<vaultRows, served, cut, movein, photos, acked, completed, broken>>
      /\ met' = IF Reading(h) = {} THEN met ELSE met \cup {h}
    BY DEF ReadMoveIn, Take, Shift
<1>2. /\ a \in [of : SUBSET Handovers, side : SUBSET Sides, had : SUBSET Sides]
      /\ a.of = {h} /\ a.side = {s} /\ a.had = movein[h].acks
    BY DEF HandoverInv, HandoverTypes
<1> HIDE DEF a
<1>3. VaultInv' /\ "write" \in VaultSteps
    BY <1>1, VaultAside DEF AckSteps
<1>4. Moves(p, h, "write", a)
    BY <1>1, <1>2 DEF Moves, AckSteps
<1>5. ASSUME h \in Spared' PROVE Followed(h)'
    <2>1. h \in Spared /\ Reading(h) = {}
        BY <1>1, <1>5 DEF Spared
    <2>2. Settled(h)
        BY <2>1 DEF HandoverInv, Followed
    <2>3. completed[h] = 0 /\ movein[h].acks # Sides
        BY <1>1, <2>2 DEF Settled
    <2>4. Reading(h)' = {p} /\ step'[p] = "write" /\ ack'[p] = a
        BY <1>2, <1>3, <1>4, <2>1, Moved DEF AckSteps
    <2>5. Halfway(h, p)'
        BY <1>1, <1>2, <2>2, <2>3, <2>4 DEF Halfway, Settled, Told
    <2> QED BY <2>4, <2>5 DEF Followed
<1>6. /\ movein' \in [Handovers -> [made : BOOLEAN, acks : SUBSET Sides, status : Statuses]]
      /\ completed' \in [Handovers -> Nat] /\ met \subseteq met' /\ broken \subseteq broken'
    BY <1>1 DEF HandoverInv, HandoverTypes
<1>7. \A k \in Handovers \ {h} :
        movein'[k] = movein[k] /\ completed'[k] = completed[k] /\ Told(k)' = Told(k)
    BY <1>1 DEF Told
<1> QED BY <1>2, <1>3, <1>4, <1>5, <1>6, <1>7, Acknowledging

LEMMA WriteAckSafe ==
    ASSUME HandoverInv, NEW p \in Clerks, NEW h \in Handovers, WriteAck(p, h)
    PROVE  HandoverInv'
<1> DEFINE a == ack[p]
           m == Merged(p)
<1>1. step[p] = "write" /\ h \in ack[p].of /\ UNCHANGED <<vaultRows, served, cut, photos, acked, completed, ack, met, broken>>
    BY DEF WriteAck, Onward
<1>2. /\ hand[p] = Empty /\ a.of = {h} /\ \E s \in Sides : a.side = {s} /\ s \notin a.had
      /\ a \in [of : SUBSET Handovers, side : SUBSET Sides, had : SUBSET Sides]
      /\ h \in Spared => Reading(h) = {p} /\ Halfway(h, p)
    BY <1>1, OnlyOne DEF AckSteps
<1>3. Shift(p, "ack", Empty) /\ movein' = [movein EXCEPT ![h].acks = m, ![h].status = StatusOf(m)]
    BY <1>2 DEF WriteAck, Onward, Shift
<1>4. VaultInv' /\ "ack" \in VaultSteps
    BY <1>1, <1>3, VaultAside DEF AckSteps
<1>5. ack' = [ack EXCEPT ![p] = a]
    BY <1>1 DEF HandoverInv, HandoverTypes
<1>6. Moves(p, h, "ack", a)
    BY <1>1, <1>2, <1>3, <1>5 DEF Moves, AckSteps
<1>7. m \in SUBSET Sides /\ StatusOf(m) \in Statuses /\ (StatusOf(m) = "COMPLETED" <=> m = Sides)
    BY <1>2 DEF Merged, StatusOf, Statuses
<1> HIDE DEF m
<1>8. /\ movein' \in [Handovers -> [made : BOOLEAN, acks : SUBSET Sides, status : Statuses]]
      /\ movein'[h].acks = m /\ movein'[h].status = StatusOf(m)
      /\ \A k \in Handovers \ {h} : movein'[k] = movein[k]
    BY <1>3, <1>7 DEF HandoverInv, HandoverTypes
<1>9. ASSUME h \in Spared' PROVE Followed(h)'
    <2>1. Reading(h) = {p} /\ Halfway(h, p)
        BY <1>1, <1>2, <1>9 DEF Spared
    <2>2. Reading(h)' = {p} /\ step'[p] = "ack" /\ ack'[p] = a
        BY <1>2, <1>4, <1>6, <2>1, Moved DEF AckSteps
    <2>3. Merged(p)' = m
        BY <2>2 DEF Merged, m
    <2>4. Halfway(h, p)'
        BY <1>1, <1>7, <1>8, <2>1, <2>2, <2>3 DEF Halfway, Told
    <2> QED BY <2>2, <2>4 DEF Followed
<1>10. completed' \in [Handovers -> Nat] /\ met \subseteq met' /\ broken \subseteq broken'
       /\ \A k \in Handovers \ {h} : completed'[k] = completed[k] /\ Told(k)' = Told(k)
    BY <1>1 DEF HandoverInv, HandoverTypes, Told
<1> HIDE DEF a
<1> QED BY <1>2, <1>4, <1>6, <1>8, <1>9, <1>10, Acknowledging

LEMMA TellAckSafe ==
    ASSUME HandoverInv, NEW p \in Clerks, NEW h \in Handovers, TellAck(p, h)
    PROVE  HandoverInv'
<1> DEFINE a == ack[p]
           told1 == {<<h, s>> : s \in ack[p].side}
<1>1. /\ step[p] = "ack" /\ h \in ack[p].of /\ acked' = acked \cup told1
      /\ UNCHANGED <<vaultRows, served, cut, movein, photos, completed, met, broken>>
    BY DEF TellAck, Onward, Finish
<1>2. /\ hand[p] = Empty /\ a.of = {h} /\ \E s \in Sides : a.side = {s} /\ s \notin a.had
      /\ a \in [of : SUBSET Handovers, side : SUBSET Sides, had : SUBSET Sides]
      /\ h \in Spared => Reading(h) = {p} /\ Halfway(h, p)
    BY <1>1, OnlyOne DEF AckSteps
<1>3. Told(h)' = Told(h) \cup a.side /\ \A k \in Handovers \ {h} : Told(k)' = Told(k)
    BY <1>1, <1>2 DEF Told
<1>4. /\ movein' \in [Handovers -> [made : BOOLEAN, acks : SUBSET Sides, status : Statuses]]
      /\ completed' \in [Handovers -> Nat] /\ met \subseteq met' /\ broken \subseteq broken'
      /\ \A k \in Handovers \ {h} : movein'[k] = movein[k] /\ completed'[k] = completed[k]
    BY <1>1 DEF HandoverInv, HandoverTypes
<1>5. h \in Spared' => Reading(h) = {p} /\ Halfway(h, p)
    BY <1>1, <1>2 DEF Spared
<1>6. CASE Done(p)
    <2>1. Shift(p, "complete", Empty) /\ ack' = ack
        BY <1>2, <1>6 DEF TellAck, Onward, Shift
    <2>2. VaultInv' /\ "complete" \in VaultSteps
        BY <1>1, <2>1, VaultAside DEF AckSteps
    <2>3. ack' = [ack EXCEPT ![p] = a]
        BY <2>1 DEF HandoverInv, HandoverTypes
    <2>4. Moves(p, h, "complete", a)
        BY <1>1, <1>2, <2>1, <2>3 DEF Moves, AckSteps
    <2>5. ASSUME h \in Spared' PROVE Followed(h)'
        <3>1. Reading(h) = {p} /\ Halfway(h, p)
            BY <1>5, <2>5
        <3>2. Reading(h)' = {p} /\ step'[p] = "complete" /\ ack'[p] = a
            BY <1>2, <2>2, <2>4, <3>1, Moved DEF AckSteps
        <3>3. Merged(p)' = Merged(p) /\ Done(p)' /\ Told(h)' = Merged(p)
            BY <1>1, <1>3, <1>6, <3>1, <3>2 DEF Merged, Done, Halfway
        <3>4. Halfway(h, p)'
            BY <1>1, <3>1, <3>2, <3>3 DEF Halfway
        <3> QED BY <3>2, <3>4 DEF Followed
    <2> HIDE DEF a
    <2> QED BY <1>2, <1>3, <1>4, <2>2, <2>4, <2>5, Acknowledging
<1>7. CASE ~Done(p)
    <2>1. Shift(p, "idle", Empty) /\ ack' = [ack EXCEPT ![p] = NoAck]
        BY <1>7 DEF TellAck, Finish, Onward, Shift
    <2>2. VaultInv' /\ "idle" \in VaultSteps
        BY <1>1, <2>1, VaultAside DEF AckSteps
    <2>3. Moves(p, h, "idle", NoAck)
        BY <1>1, <2>1 DEF Moves, AckSteps
    <2>4. ASSUME h \in Spared' PROVE Followed(h)'
        <3>1. Reading(h) = {p} /\ Halfway(h, p)
            BY <1>5, <2>4
        <3>2. Reading(h)' = {}
            BY <2>2, <2>3, <3>1, NoAckTyped, Moved DEF AckSteps
        <3>3. Told(h)' = Merged(p) /\ movein[h].acks = Merged(p) /\ Merged(p) # Sides
            BY <1>1, <1>3, <1>7, <3>1 DEF Merged, Done, Halfway
        <3>4. Settled(h)'
            BY <1>1, <3>1, <3>3 DEF Settled, Halfway
        <3> QED BY <3>2, <3>4 DEF Followed
    <2> QED BY <1>3, <1>4, <2>2, <2>3, <2>4, NoAckTyped, Acknowledging
<1> QED BY <1>6, <1>7

LEMMA TellCompleteSafe ==
    ASSUME HandoverInv, NEW p \in Clerks, NEW h \in Handovers, TellComplete(p, h)
    PROVE  HandoverInv'
<1>1. /\ step[p] = "complete" /\ h \in ack[p].of /\ Shift(p, "idle", Empty)
      /\ ack' = [ack EXCEPT ![p] = NoAck] /\ completed' = [completed EXCEPT ![h] = @ + 1]
      /\ UNCHANGED <<vaultRows, served, cut, movein, photos, acked, met, broken>>
    BY DEF TellComplete, Onward, Finish, Shift
<1>2. VaultInv' /\ "idle" \in VaultSteps
    BY <1>1, VaultAside DEF AckSteps
<1>3. Moves(p, h, "idle", NoAck)
    BY <1>1 DEF Moves, AckSteps
<1>4. /\ movein' \in [Handovers -> [made : BOOLEAN, acks : SUBSET Sides, status : Statuses]]
      /\ completed' \in [Handovers -> Nat] /\ met \subseteq met' /\ broken \subseteq broken'
      /\ completed'[h] = completed[h] + 1
      /\ \A k \in Handovers \ {h} :
            movein'[k] = movein[k] /\ completed'[k] = completed[k] /\ Told(k)' = Told(k)
    BY <1>1 DEF HandoverInv, HandoverTypes, Told
<1>5. ASSUME h \in Spared' PROVE Followed(h)'
    <2>1. Reading(h) = {p} /\ Halfway(h, p)
        BY <1>1, <1>5, OnlyOne DEF Spared, AckSteps
    <2>2. Reading(h)' = {}
        BY <1>2, <1>3, <2>1, NoAckTyped, Moved DEF AckSteps
    <2>3. Told(h) = Sides /\ movein[h].acks = Sides /\ movein[h].status = "COMPLETED" /\ completed[h] = 0
        BY <1>1, <2>1 DEF Halfway, Done
    <2>4. Told(h)' = Sides /\ movein'[h].acks = Sides /\ movein'[h].status = "COMPLETED" /\ completed'[h] = 1
        BY <1>1, <1>4, <2>3 DEF Told
    <2> QED BY <2>2, <2>4 DEF Followed, Settled
<1> QED BY <1>2, <1>3, <1>4, <1>5, NoAckTyped, Acknowledging

LEMMA DieAcknowledgingSafe ==
    ASSUME HandoverInv, NEW p \in Clerks, DieAcknowledging(p)
    PROVE  HandoverInv'
<1>1. PICK h \in Handovers : ack[p].of = {h}
    BY DEF HandoverInv, Claim, DieAcknowledging
<1>2. /\ step[p] \in AckSteps /\ Shift(p, "idle", Empty) /\ ack' = [ack EXCEPT ![p] = NoAck]
      /\ broken' = broken \cup {h} /\ h \notin Spared'
      /\ UNCHANGED <<vaultRows, served, cut, movein, photos, acked, completed, met>>
    BY <1>1 DEF DieAcknowledging, Onward, Finish, Shift, Spared
<1>3. VaultInv' /\ "idle" \in VaultSteps
    BY <1>2, VaultAside
<1>4. Moves(p, h, "idle", NoAck)
    BY <1>1, <1>2 DEF Moves, AckSteps
<1>5. /\ movein' \in [Handovers -> [made : BOOLEAN, acks : SUBSET Sides, status : Statuses]]
      /\ completed' \in [Handovers -> Nat] /\ met \subseteq met' /\ broken \subseteq broken'
      /\ \A k \in Handovers \ {h} :
            movein'[k] = movein[k] /\ completed'[k] = completed[k] /\ Told(k)' = Told(k)
    BY <1>2 DEF HandoverInv, HandoverTypes, Told
<1> QED BY <1>2, <1>3, <1>4, <1>5, NoAckTyped, Acknowledging

LEMMA HandoverStep == HandoverInv /\ [HandoverNext]_handoverVars => HandoverInv'
<1> SUFFICES ASSUME HandoverInv, [HandoverNext]_handoverVars PROVE HandoverInv'
    OBVIOUS
<1>1. ASSUME VaultInv', UNCHANGED <<step, hand, acked, completed, ack, met, broken>>,
             movein' \in [Handovers -> [made : BOOLEAN, acks : SUBSET Sides, status : Statuses]],
             \A h \in Handovers : movein'[h].acks = movein[h].acks /\ movein'[h].status = movein[h].status
      PROVE  HandoverInv'
    <2>1. HandoverTypes' /\ Spared' = Spared
        BY <1>1 DEF HandoverInv, HandoverTypes, Spared
    <2>2. UNCHANGED <<step, hand, acked, completed, ack>>
        BY <1>1
    <2>3. \A p \in Clerks : Claim(p)'
        BY <2>2 DEF HandoverInv, Claim
    <2>4. ASSUME NEW h \in Spared PROVE Followed(h)'
        <3>1. Followed(h) /\ h \in Handovers
            BY DEF HandoverInv, Spared
        <3>2. Reading(h)' = Reading(h) /\ Told(h)' = Told(h) /\ \A q \in Clerks : Merged(q)' = Merged(q)
            BY <2>2 DEF Reading, Told, Merged
        <3>3. Settled(h) => Settled(h)'
            BY <1>1, <2>2, <3>1, <3>2 DEF Settled
        <3>4. ASSUME NEW q \in Reading(h) PROVE Halfway(h, q)'
            <4>1. Halfway(h, q) /\ Merged(q)' = Merged(q)
                BY <3>1, <3>2, <3>4 DEF Followed, Reading
            <4> QED BY <1>1, <2>2, <3>1, <3>2, <4>1 DEF Halfway, Done
        <3> QED BY <3>1, <3>2, <3>3, <3>4 DEF Followed
    <2> QED BY <1>1, <2>1, <2>3, <2>4 DEF HandoverInv
<1>2. ASSUME NEW p \in Clerks, NEW h \in Handovers, NEW d \in Docs, AddMoveInPhoto(p, h, d)
      PROVE  HandoverInv'
    <2>1. Upload(p, d) /\ UNCHANGED <<movein, acked, completed, ack, met, broken>>
        BY <1>2 DEF AddMoveInPhoto
    <2>2. step[p] \notin AckSteps /\ "row" \in VaultSteps \ AckSteps /\ Shift(p, "row", [Empty EXCEPT !.doc = {d}])
        BY <2>1 DEF Upload, Take, Shift, VaultSteps, FilingStep, AckSteps
    <2> QED BY <2>1, <2>2, UploadSafe, Elsewhere DEF HandoverInv
<1>3. ASSUME NEW p \in Clerks, NEW h \in Handovers, MoveInPage(p, h)
      PROVE  HandoverInv'
    <2> DEFINE S == {d \in Docs : <<h, d>> \in photos}
    <2>1. OpenPage(p, S) /\ S \in SUBSET Docs /\ UNCHANGED <<movein, acked, completed, ack, met, broken>>
        BY <1>3 DEF MoveInPage, handoverRows
    <2> HIDE DEF S
    <2>2. /\ step[p] \notin AckSteps /\ "page" \in VaultSteps \ AckSteps
          /\ Shift(p, "page", [Empty EXCEPT !.todo = {d \in S : doc[d] = "kept"}])
        BY <2>1 DEF OpenPage, Take, Shift, VaultSteps, AckSteps
    <2> QED BY <2>1, <2>2, OpenPageSafe, Elsewhere DEF HandoverInv
<1>4. ASSUME NEW p \in Clerks, UNCHANGED <<handoverRows, ack>>, FileStep(p)
      PROVE  HandoverInv'
    <2>1. VaultInv' /\ UNCHANGED <<movein, acked, completed, ack, met, broken>>
        BY <1>4, FileStepSafe DEF HandoverInv, handoverRows
    <2> QED BY <1>4, <2>1, FileStepShifts, Elsewhere
<1>5. ASSUME NEW p \in Clerks, UNCHANGED <<handoverRows, ack>>, step[p] \notin AckSteps, DieFiling(p)
      PROVE  HandoverInv'
    <2>1. VaultInv' /\ UNCHANGED <<movein, acked, completed, ack, met, broken>>
        BY <1>5, DieFilingSafe DEF HandoverInv, handoverRows
    <2>2. Shift(p, "idle", Empty) /\ "idle" \in VaultSteps \ AckSteps
        BY <1>5 DEF DieFiling, Finish, Onward, Shift, VaultSteps, AckSteps
    <2> QED BY <1>5, <2>1, <2>2, Elsewhere
<1>6. ASSUME NEW p \in Clerks, NEW d \in Docs, UNCHANGED <<handoverRows, ack>>, GetToArchive(p, d)
      PROVE  HandoverInv'
    <2>1. VaultInv' /\ UNCHANGED <<movein, acked, completed, ack, met, broken>>
        BY <1>6, GetToArchiveSafe DEF HandoverInv, handoverRows
    <2>2. /\ step[p] \notin AckSteps /\ "close" \in VaultSteps \ AckSteps
          /\ Shift(p, "close", [Empty EXCEPT !.doc = {d}])
        BY <1>6 DEF GetToArchive, Take, Shift, VaultSteps, AckSteps
    <2> QED BY <2>1, <2>2, Elsewhere
<1>7. ASSUME NEW h \in Handovers, CreateMoveIn(h) PROVE HandoverInv'
    <2>1. VaultInv' /\ UNCHANGED <<step, hand, acked, completed, ack, met, broken>>
        BY <1>7, Untouched DEF CreateMoveIn, vaultVars, HandoverInv
    <2>2. /\ movein' \in [Handovers -> [made : BOOLEAN, acks : SUBSET Sides, status : Statuses]]
          /\ \A k \in Handovers : movein'[k].acks = movein[k].acks /\ movein'[k].status = movein[k].status
        BY <1>7 DEF CreateMoveIn, HandoverInv, HandoverTypes
    <2> QED BY <1>1, <2>1, <2>2
<1>8. CASE UNCHANGED handoverVars
    <2>1. VaultInv' /\ UNCHANGED <<step, hand, movein, acked, completed, ack, met, broken>>
        BY <1>8, Untouched DEF handoverVars, handoverRows, vaultVars, HandoverInv
    <2> QED BY <1>1, <2>1 DEF HandoverInv, HandoverTypes
<1>9. ASSUME HandoverNext PROVE HandoverInv'
    BY <1>2, <1>3, <1>4, <1>5, <1>6, <1>7, <1>9, ReadMoveInSafe, WriteAckSafe, TellAckSafe,
       TellCompleteSafe, DieAcknowledgingSafe DEF HandoverNext
<1> QED BY <1>8, <1>9

LEMMA HandoverStarts == HandoverInit => HandoverInv
<1> SUFFICES ASSUME HandoverInit PROVE HandoverInv
    OBVIOUS
<1>1. VaultInv /\ \A p \in Clerks : step[p] = "idle"
    BY VaultStarts DEF HandoverInit, VaultInit
<1>2. HandoverTypes
    BY NoAckTyped DEF HandoverInit, HandoverTypes, Statuses
<1>3. \A p \in Clerks : Claim(p)
    BY <1>1 DEF Claim, AckSteps
<1>4. ASSUME NEW h \in Handovers PROVE Followed(h)
    <2>1. Reading(h) = {} /\ Told(h) = {} /\ {} # Sides
        BY <1>1 DEF Reading, AckSteps, HandoverInit, Told, Sides
    <2> QED BY <2>1 DEF Followed, Settled, HandoverInit
<1> QED BY <1>1, <1>2, <1>3, <1>4 DEF HandoverInv, Spared

LEMMA HandoverAlways == HandoverSpec => []HandoverInv
BY HandoverStarts, HandoverStep, PTL DEF HandoverSpec

\* Between two acknowledgements the row and the timeline say the same, and the
\* handover is told complete once and when both sides are there (moveIn.ts:111-159),
\* for any number of handovers and requests, wherever no two acknowledgements
\* met and none was cut off.
THEOREM HandoverToldHolds == HandoverSpec => []HandoverTold
<1>1. HandoverInv => HandoverTold
    <2> SUFFICES ASSUME HandoverInv, NEW h \in Handovers \ (met \cup broken), Reading(h) = {}
                 PROVE  /\ \A s \in Sides : <<h, s>> \in acked <=> s \in movein[h].acks
                        /\ completed[h] = IF movein[h].acks = Sides THEN 1 ELSE 0
                        /\ movein[h].status = "COMPLETED" <=> movein[h].acks = Sides
        BY DEF HandoverTold
    <2>1. Settled(h)
        BY DEF HandoverInv, Spared, Followed
    <2> QED BY <2>1 DEF Settled, Told
<1> QED BY <1>1, HandoverAlways, PTL

\* The photos of a handover, uploaded and shown through its pages between the
\* acknowledgements, are accounted for like any document (moveIn.ts:64-108).
THEOREM PhotosAccountedFor == HandoverSpec => []VaultAccounts
<1>1. HandoverInv => VaultAccounts
    BY InvAccounts DEF HandoverInv
<1> QED BY <1>1, HandoverAlways, PTL

-----------------------------------------------------------------------------

(***************************************************************************)
(* Every event says what it is about as its scope does, and the records    *)
(* that its scope needs to be found again last (Sound); only the scopes of *)
(* payment items go, and those that moved stay (RecordsLast).              *)
(***************************************************************************)
Doings == {"away", "count", "rows", "read", "log"}
ReaderType ==
    [at : Doings, of : Tenancies \cup {None}, had : SUBSET Nat, seen : SUBSET Nat, page : Nat,
     pages : Nat, refs : SUBSET (Places \cup {"PROOF_REQUEST"} \X Proofs), found : SUBSET Nat,
     papers : SUBSET Papers, todo : SUBSET Papers, shifted : BOOLEAN]

RecordsLast ==
    /\ rows \subseteq RecordScopes /\ moved \subseteq DOMAIN ItemOf
    /\ \A i \in moved : Scope("PAYMENT_ITEM", i) \in rows
    /\ scopeOf \in [Proofs \cup Papers -> Places \cup {"PROOF_REQUEST"} \X Proofs \cup {None}]
    /\ \A x \in Proofs : LET s == scopeOf[x] IN
        s # None => s \in Places /\ (s[1] \in {"RENEWAL_CASE", "OFFER"} => s \in rows)

OnTenancy(e) ==
    \E t \in Tenancies : e.scope = Scope("TENANCY", t) /\ e.about = {t} /\ e.tenancy \in {None, t}
OnProperty(e) ==
    \E t \in Tenancies : e.scope = Scope("PROPERTY", PropertyOf[t]) /\ e.about = {} /\ e.tenancy = None
OnCase(e) ==
    \E k \in Cases : /\ e.scope = Scope("RENEWAL_CASE", k) /\ e.scope \in rows
                     /\ CaseOf[k] \in e.about /\ e.about \subseteq {CaseOf[k], e.tenancy}
                     /\ e.tenancy = None \/ e.tenancy \in e.about
OnOffer(e) ==
    \E o \in DOMAIN OfferOf : LET t == CaseOf[OfferOf[o]] IN
        /\ e.scope = Scope("OFFER", o) /\ e.scope \in rows
        /\ e.about = {t} /\ e.tenancy \in {None, t}
OnItem(e) ==
    \E i \in DOMAIN ItemOf : /\ e.scope = Scope("PAYMENT_ITEM", i) /\ e.about = {ItemOf[i]}
                             /\ \/ e.tenancy = None
                                \/ e.tenancy = ItemOf[i] /\ i \in moved
OnProof(e) ==
    \E x \in Proofs : /\ e.scope = Scope("PROOF_REQUEST", x) /\ scopeOf[x] # None
                      /\ e.about = About(e.scope) /\ e.tenancy = None
Sound(e) == OnTenancy(e) \/ OnProperty(e) \/ OnCase(e) \/ OnOffer(e) \/ OnItem(e) \/ OnProof(e)

ChronologyInv ==
    /\ RecordsLast
    /\ reader \in [Readers -> ReaderType]
    /\ \A r \in Readers : reader[r].at # "away" => reader[r].of \in Tenancies
    /\ events \in Seq([scope : Places \cup {"PROOF_REQUEST"} \X Proofs, tenancy : Tenancies \cup {None},
                       about : SUBSET Tenancies])
    /\ \A n \in DOMAIN events : Sound(events[n])

(***************************************************************************)
(* A reader that pages: what it has not seen of what was there at the      *)
(* start lies behind the pages it has had, and on its last page nothing    *)
(* lies beyond.                                                            *)
(***************************************************************************)
Rank(n, S) == Cardinality({m \in S : m >= n})
Behind(had, seen, page, S) == \A n \in had \ seen : n \in S /\ Rank(n, S) > page * PageSize
Now(r) == Timeline(reader[r].of, PageRefs(reader[r].of))
Then(r) == Timeline(reader[r].of, reader[r].refs)

Paging(r) ==
    LET o == reader[r] IN
    ~o.shifted =>
        /\ o.at \in {"count", "rows"} => o.page >= 1 /\ o.had \subseteq Now(r)
        /\ o.at = "count" => Behind(o.had, o.seen, o.page - 1, Now(r))
        /\ o.at = "rows" =>
            /\ o.refs \subseteq PageRefs(o.of) /\ o.had \subseteq Then(r)
            /\ Behind(o.had, o.seen, o.page - 1, Then(r)) /\ o.page <= o.pages
            /\ o.page = o.pages => Cardinality(Then(r)) <= o.pages * PageSize
        /\ o.at = "read" => o.had \subseteq o.seen

\* What an export has gathered is the tenancy's, and logged before it is told.
Exporting(r) ==
    LET o == reader[r] IN
    o.at = "log" => /\ o.papers \subseteq Made /\ o.todo \subseteq o.papers
                    /\ o.papers \ o.todo \subseteq exported
Belongs(d, t) ==
    LET s == scopeOf[d] IN
    \/ t \in About(s)
    \/ s[1] = "PROOF_REQUEST" /\ scopeOf[s[2]] = Scope("PROPERTY", PropertyOf[t])
FiledOnMade ==
    \A d \in Papers \cap Made :
        scopeOf[d] \in Places \/ \E x \in Proofs \cap Made : scopeOf[d] = Scope("PROOF_REQUEST", x)
Gathered ==
    /\ FiledOnMade
    /\ \A r \in Readers : reader[r].at = "log" => \A d \in reader[r].papers : Belongs(d, reader[r].of)
    /\ \A p \in packs : p.papers \subseteq Papers \cap exported \cap Made /\ \A d \in p.papers : Belongs(d, p.of)

ReadingInv == ChronologyInv /\ (\A r \in Readers : Paging(r) /\ Exporting(r)) /\ Gathered

-----------------------------------------------------------------------------
(* What scopes are about *)

LEMMA AboutPlain ==
    /\ \A t : About(Scope("TENANCY", t)) = {t} /\ About(Scope("PROPERTY", t)) = {}
    /\ \A k : About(Scope("RENEWAL_CASE", k)) = {CaseOf[k]}
    /\ \A o : About(Scope("OFFER", o)) = {CaseOf[OfferOf[o]]}
    /\ \A i : About(Scope("PAYMENT_ITEM", i)) = {ItemOf[i]}
BY DEF About, Scope

LEMMA PlaceKinds ==
    ASSUME NEW s \in Places
    PROVE  /\ s = <<s[1], s[2]>>
           /\ \/ s[1] = "TENANCY" /\ s[2] \in Tenancies
              \/ s[1] = "PROPERTY" /\ \E t \in Tenancies : s[2] = PropertyOf[t]
              \/ s \in RecordScopes /\ \/ s[1] = "RENEWAL_CASE" /\ s[2] \in Cases
                                       \/ s[1] = "OFFER" /\ s[2] \in DOMAIN OfferOf
                                       \/ s[1] = "PAYMENT_ITEM" /\ s[2] \in DOMAIN ItemOf
           /\ s \in RecordScopes => s[1] \in {"RENEWAL_CASE", "OFFER", "PAYMENT_ITEM"}
BY DEF Places, RecordScopes

LEMMA AboutPlaces == \A s \in Places : About(s) \subseteq Tenancies
<1> SUFFICES ASSUME NEW s \in Places PROVE About(s) \subseteq Tenancies
    OBVIOUS
<1>1. CASE s[1] = "TENANCY" \/ s[1] = "PROPERTY"
    BY <1>1, PlaceKinds, AboutPlain DEF Scope
<1>2. CASE s[1] = "RENEWAL_CASE"
    BY <1>2, PlaceKinds, AboutPlain, ChronologyAssumption DEF Scope
<1>3. CASE s[1] = "OFFER"
    BY <1>3, PlaceKinds, AboutPlain, ChronologyAssumption DEF Scope
<1>4. CASE s[1] = "PAYMENT_ITEM"
    BY <1>4, PlaceKinds, AboutPlain, ChronologyAssumption DEF Scope
<1> QED BY <1>1, <1>2, <1>3, <1>4, PlaceKinds

\* A proof request is about what it is on.
LEMMA AboutProof ==
    ASSUME NEW x, scopeOf[x] \in Places
    PROVE  About(Scope("PROOF_REQUEST", x)) = About(scopeOf[x])
<1>1. scopeOf[x][1] # "PROOF_REQUEST"
    BY PlaceKinds
<1> QED BY <1>1 DEF About, Scope

-----------------------------------------------------------------------------
(* What lasts *)

Grows ==
    /\ \A s \in rows : s[1] \in {"RENEWAL_CASE", "OFFER"} => s \in rows'
    /\ moved \subseteq moved'
    /\ \A x \in Made : scopeOf'[x] = scopeOf[x]

LEMMA SoundStays ==
    ASSUME RecordsLast, Grows, NEW e, Sound(e)
    PROVE  Sound(e)'
<1>1. CASE OnTenancy(e) \/ OnProperty(e)
    BY <1>1 DEF Sound, OnTenancy, OnProperty
<1>2. CASE OnCase(e)
    <2>1. \A k : Scope("RENEWAL_CASE", k) \in rows => Scope("RENEWAL_CASE", k) \in rows'
        BY DEF Grows, Scope
    <2> QED BY <1>2, <2>1 DEF Sound, OnCase
<1>3. CASE OnOffer(e)
    <2>1. \A o : Scope("OFFER", o) \in rows => Scope("OFFER", o) \in rows'
        BY DEF Grows, Scope
    <2> QED BY <1>3, <2>1 DEF Sound, OnOffer
<1>4. CASE OnItem(e)
    BY <1>4 DEF Sound, OnItem, Grows
<1>5. CASE OnProof(e)
    <2>1. PICK x \in Proofs : e.scope = Scope("PROOF_REQUEST", x) /\ scopeOf[x] # None
                              /\ e.about = About(e.scope) /\ e.tenancy = None
        BY <1>5 DEF OnProof
    <2>2. x \in Made /\ scopeOf[x] \in Places /\ scopeOf'[x] = scopeOf[x]
        BY <2>1 DEF RecordsLast, Grows, Made
    <2>3. scopeOf[x][1] # "PROOF_REQUEST"
        BY <2>2, PlaceKinds
    <2>4. About(Scope("PROOF_REQUEST", x))' = About(Scope("PROOF_REQUEST", x))
        BY <2>2, <2>3 DEF About, Scope
    <2> QED BY <2>1, <2>2, <2>4 DEF Sound, OnProof
<1> QED BY <1>1, <1>2, <1>3, <1>4, <1>5 DEF Sound

EventType == [scope : Places \cup {"PROOF_REQUEST"} \X Proofs, tenancy : Tenancies \cup {None},
              about : SUBSET Tenancies]

\* What a page's readers keep while others write.
SameReader(r) ==
    LET o == reader[r]  q == reader'[r] IN
    /\ q.at = o.at /\ q.of = o.of /\ q.had = o.had /\ q.seen = o.seen /\ q.page = o.page
    /\ q.pages = o.pages /\ q.refs = o.refs /\ q.found = o.found /\ q.papers = o.papers
    /\ q.todo = o.todo /\ (o.shifted => q.shifted)

\* What a step leaves to those who page.
Additive(r) ==
    /\ SameReader(r)
    /\ DOMAIN events \subseteq DOMAIN events' /\ \A n \in DOMAIN events : events'[n] = events[n]
    /\ reader[r].at \in {"count", "rows"} /\ ~reader'[r].shifted => rows \subseteq rows'
    /\ reader[r].at = "rows" /\ reader[r].page = reader[r].pages /\ ~reader'[r].shifted =>
            Timeline(reader[r].of, reader[r].refs)' \subseteq Then(r)

\* What a writer leaves alone.
Wrote == Grows /\ (\A r \in Readers : Additive(r)) /\ UNCHANGED <<exported, packs>>

LEMMA Shifting ==
    ASSUME reader \in [Readers -> ReaderType], NEW r \in Readers
    PROVE  LET o == reader[r]  q == [o EXCEPT !.shifted = TRUE] IN
           /\ q \in ReaderType
           /\ q.at = o.at /\ q.of = o.of /\ q.had = o.had /\ q.seen = o.seen /\ q.page = o.page
           /\ q.pages = o.pages /\ q.refs = o.refs /\ q.found = o.found /\ q.papers = o.papers
           /\ q.todo = o.todo /\ q.shifted
BY DEF ReaderType

LEMMA LaterSame ==
    ASSUME reader \in [Readers -> ReaderType], NEW e, NEW r \in Readers, reader'[r] = Later(e)[r]
    PROVE  reader'[r] \in ReaderType /\ SameReader(r)
<1> DEFINE q == [reader[r] EXCEPT !.shifted = TRUE]
<1>1. reader'[r] = reader[r] \/ reader'[r] = q
    BY DEF Later
<1>2. LET o == reader[r] IN
      /\ q \in ReaderType
      /\ q.at = o.at /\ q.of = o.of /\ q.had = o.had /\ q.seen = o.seen /\ q.page = o.page
      /\ q.pages = o.pages /\ q.refs = o.refs /\ q.found = o.found /\ q.papers = o.papers
      /\ q.todo = o.todo /\ q.shifted
    BY Shifting
<1> HIDE DEF q
<1>3. CASE reader'[r] = reader[r]
    BY <1>3 DEF SameReader
<1>4. CASE reader'[r] = q
    BY <1>2, <1>4 DEF SameReader
<1> QED BY <1>1, <1>3, <1>4

LEMMA Appending ==
    ASSUME ChronologyInv, NEW e \in EventType, events' = Append(events, e)
    PROVE  /\ events' \in Seq(EventType) /\ DOMAIN events = 1 .. Len(events)
           /\ Len(events) \in Nat /\ DOMAIN events' = 1 .. Len(events) + 1
           /\ \A n \in DOMAIN events : events'[n] = events[n]
           /\ events'[Len(events) + 1] = e
<1>1. events \in Seq(EventType)
    BY DEF ChronologyInv, EventType
<1> QED BY <1>1

\* One more event: what it leaves to a reader, and the ledger stays sound.
LEMMA LaterAdditive ==
    ASSUME ChronologyInv, NEW e \in EventType, events' = Append(events, e), rows \subseteq rows',
           NEW r \in Readers, reader'[r] = Later(e)[r]
    PROVE  Additive(r)
<1>1. SameReader(r) /\ DOMAIN events \subseteq DOMAIN events' /\ \A n \in DOMAIN events : events'[n] = events[n]
    BY LaterSame, Appending DEF ChronologyInv
<1>2. ASSUME reader[r].at = "rows", reader[r].page = reader[r].pages, ~reader'[r].shifted
      PROVE  Timeline(reader[r].of, reader[r].refs)' \subseteq Then(r)
    <2>1. PICK u, S : u = reader[r].of /\ S = reader[r].refs
        OBVIOUS
    <2>2. ~Matches(e, u, S)
        <3>1. Matches(e, u, S) => reader'[r] = [reader[r] EXCEPT !.shifted = TRUE]
            BY <1>2, <2>1 DEF Later
        <3> QED BY <1>2, <3>1, Shifting DEF ChronologyInv
    <2>3. \A n \in DOMAIN events' : n \notin DOMAIN events => events'[n] = e
        BY Appending
    <2>4. Timeline(u, S)' \subseteq Timeline(u, S)
        BY <1>1, <2>2, <2>3 DEF Timeline, Matches
    <2>5. reader'[r].of = u /\ reader'[r].refs = S
        BY <1>1, <2>1 DEF SameReader
    <2> QED BY <2>1, <2>4, <2>5 DEF Then
<1> QED BY <1>1, <1>2 DEF Additive

LEMMA AppendSound ==
    ASSUME ChronologyInv, Grows, NEW e \in EventType, Sound(e)', events' = Append(events, e)
    PROVE  events' \in Seq(EventType) /\ \A n \in DOMAIN events' : Sound(events[n])'
<1>1. ASSUME NEW n \in DOMAIN events' PROVE Sound(events[n])'
    <2>1. PICK f : f = events'[n]
        OBVIOUS
    <2>2. CASE n \in DOMAIN events
        <3>1. Sound(events[n]) /\ f = events[n]
            BY <2>1, <2>2, Appending DEF ChronologyInv
        <3>2. Sound(f)'
            BY <3>1, SoundStays DEF ChronologyInv
        <3> QED BY <2>1, <3>2
    <2>3. CASE n \notin DOMAIN events
        <3>1. n = Len(events) + 1
            BY <2>3, Appending
        <3> QED BY <2>1, <3>1, Appending
    <2> QED BY <2>2, <2>3
<1> QED BY <1>1, Appending

\* A writer's step keeps the invariant when its event is sound.
LEMMA TellSafe ==
    ASSUME ChronologyInv, RecordsLast', Grows, rows \subseteq rows', NEW s, NEW t, NEW A,
           [scope |-> s, tenancy |-> t, about |-> A] \in EventType,
           Sound([scope |-> s, tenancy |-> t, about |-> A])', Tell(s, t, A)
    PROVE  ChronologyInv' /\ Wrote
<1> DEFINE e == [scope |-> s, tenancy |-> t, about |-> A]
<1>1. events' = Append(events, e) /\ reader' = Later(e) /\ e \in EventType /\ Sound(e)'
      /\ UNCHANGED <<exported, packs>>
    BY DEF Tell
<1> HIDE DEF e
<1>2. \A r \in Readers : reader'[r] \in ReaderType /\ SameReader(r)
    BY <1>1, LaterSame DEF ChronologyInv
<1>3. reader' \in [Readers -> ReaderType]
    <2>1. DOMAIN reader' = Readers /\ reader' = [r \in Readers |-> reader'[r]]
        BY <1>1 DEF Later
    <2> QED BY <1>2, <2>1
<1>4. \A r \in Readers : reader'[r].at # "away" => reader'[r].of \in Tenancies
    BY <1>2 DEF ChronologyInv, SameReader
<1>5. events' \in Seq(EventType) /\ \A n \in DOMAIN events' : Sound(events[n])'
    BY <1>1, AppendSound
<1>6. \A r \in Readers : Additive(r)
    BY <1>1, LaterAdditive
<1> QED BY <1>1, <1>3, <1>4, <1>5, <1>6 DEF ChronologyInv, EventType, Wrote

LEMMA QuietSafe ==
    ASSUME ChronologyInv, RecordsLast', Grows, events' = events,
           reader' \in [Readers -> ReaderType], \A r \in Readers : SameReader(r)
    PROVE  ChronologyInv'
<1>1. \A r \in Readers : reader'[r].at # "away" => reader'[r].of \in Tenancies
    BY DEF ChronologyInv, SameReader
<1>2. ASSUME NEW n \in DOMAIN events' PROVE Sound(events[n])'
    <2>1. PICK f : f = events[n]
        OBVIOUS
    <2>2. Sound(f)'
        BY <1>2, <2>1, SoundStays DEF ChronologyInv
    <2> QED BY <2>1, <2>2
<1> QED BY <1>1, <1>2 DEF ChronologyInv

-----------------------------------------------------------------------------
(* The writers *)

LEMMA FilablePlaces ==
    ASSUME RecordsLast, NEW s \in Filable
    PROVE  /\ s \in Places /\ s # None /\ s[1] # "PROOF_REQUEST"
           /\ s[1] \in {"RENEWAL_CASE", "OFFER"} => s \in rows
<1>1. s \in Places /\ s # None
    BY ChronologyAssumption DEF RecordsLast, Filable, Places, Scope
<1>2. s[1] \in {"RENEWAL_CASE", "OFFER"} => s \in rows
    BY DEF Filable, Scope
<1> QED BY <1>1, <1>2, PlaceKinds

\* An event under the scope it is filed on.
LEMMA FiledSound ==
    ASSUME RecordsLast, NEW s \in Places, NEW t \in Tenancies \cup {None}, NEW A, A = About(s),
           s[1] \in {"RENEWAL_CASE", "OFFER"} => s \in rows,
           t = None \/ s = Scope("TENANCY", t), rows' = rows
    PROVE  /\ [scope |-> s, tenancy |-> t, about |-> A] \in EventType
           /\ Sound([scope |-> s, tenancy |-> t, about |-> A])'
<1> DEFINE e == [scope |-> s, tenancy |-> t, about |-> A]
<1>1. e.scope = s /\ e.tenancy = t /\ e.about = A /\ e \in EventType
    BY AboutPlaces DEF EventType
<1> HIDE DEF e
<1>2. CASE s[1] = "TENANCY"
    <2>1. s = Scope("TENANCY", s[2]) /\ s[2] \in Tenancies /\ A = {s[2]} /\ t \in {None, s[2]}
        BY <1>2, PlaceKinds, AboutPlain DEF Scope
    <2>2. OnTenancy(e)'
        BY <1>1, <2>1 DEF OnTenancy
    <2> QED BY <1>1, <2>2 DEF Sound, e
<1>3. ASSUME s[1] # "TENANCY" PROVE t = None
    BY <1>3 DEF Scope
<1>4. CASE s[1] = "PROPERTY"
    <2>1. s = Scope("PROPERTY", s[2]) /\ (\E u \in Tenancies : s[2] = PropertyOf[u]) /\ A = {} /\ t = None
        BY <1>3, <1>4, PlaceKinds, AboutPlain DEF Scope
    <2>2. OnProperty(e)'
        BY <1>1, <2>1 DEF OnProperty
    <2> QED BY <1>1, <2>2 DEF Sound, e
<1>5. CASE s[1] = "RENEWAL_CASE"
    <2>1. s = Scope("RENEWAL_CASE", s[2]) /\ s[2] \in Cases /\ A = {CaseOf[s[2]]} /\ t = None /\ s \in rows'
        BY <1>3, <1>5, PlaceKinds, AboutPlain DEF Scope
    <2>2. OnCase(e)'
        BY <1>1, <2>1 DEF OnCase
    <2> QED BY <1>1, <2>2 DEF Sound, e
<1>6. CASE s[1] = "OFFER"
    <2>1. s = Scope("OFFER", s[2]) /\ s[2] \in DOMAIN OfferOf /\ A = {CaseOf[OfferOf[s[2]]]}
          /\ t = None /\ s \in rows'
        BY <1>3, <1>6, PlaceKinds, AboutPlain DEF Scope
    <2>2. OnOffer(e)'
        BY <1>1, <2>1 DEF OnOffer
    <2> QED BY <1>1, <2>2 DEF Sound, e
<1>7. CASE s[1] = "PAYMENT_ITEM"
    <2>1. s = Scope("PAYMENT_ITEM", s[2]) /\ s[2] \in DOMAIN ItemOf /\ A = {ItemOf[s[2]]} /\ t = None
        BY <1>3, <1>7, PlaceKinds, AboutPlain DEF Scope
    <2>2. OnItem(e)'
        BY <1>1, <2>1 DEF OnItem
    <2> QED BY <1>1, <2>2 DEF Sound, e
<1> QED BY <1>1, <1>2, <1>4, <1>5, <1>6, <1>7, PlaceKinds DEF e

\* An event under a proof request.
LEMMA ProofSound ==
    ASSUME RecordsLast', NEW x \in Proofs, NEW A, scopeOf'[x] # None, A = About(scopeOf[x])',
           NEW s, s = Scope("PROOF_REQUEST", x)
    PROVE  /\ [scope |-> s, tenancy |-> None, about |-> A] \in EventType
           /\ Sound([scope |-> s, tenancy |-> None, about |-> A])'
<1> DEFINE e == [scope |-> s, tenancy |-> None, about |-> A]
<1>1. PICK q : q = scopeOf'[x]
    OBVIOUS
<1>2. q \in Places /\ q[1] # "PROOF_REQUEST"
    BY <1>1, PlaceKinds DEF RecordsLast
<1>3. A = About(q) /\ A = About(s)'
    BY <1>1, <1>2 DEF About, Scope
<1>4. e \in EventType /\ e.scope = s /\ e.tenancy = None /\ e.about = A
    BY <1>2, <1>3, AboutPlaces DEF EventType, Scope
<1> HIDE DEF e
<1>5. OnProof(e)'
    BY <1>3, <1>4 DEF OnProof
<1> QED BY <1>4, <1>5 DEF Sound, e

LEMMA OpenCaseSafe ==
    ASSUME ChronologyInv, NEW k \in Cases, OpenCase(k)
    PROVE  ChronologyInv' /\ Wrote
<1> DEFINE s == Scope("RENEWAL_CASE", k)
           t == CaseOf[k]
           e == [scope |-> s, tenancy |-> t, about |-> {t}]
<1>1. s \in RecordScopes /\ rows' = rows \cup {s} /\ t \in Tenancies /\ Tell(s, t, {t})
      /\ moved' = moved /\ scopeOf' = scopeOf
    BY ChronologyAssumption DEF OpenCase, RecordScopes, Scope
<1>2. RecordsLast' /\ Grows
    BY <1>1 DEF ChronologyInv, RecordsLast, Grows
<1>3. e \in EventType
    BY <1>1 DEF EventType, Places
<1>4. OnCase(e)'
    BY <1>1 DEF OnCase
<1> QED BY <1>1, <1>2, <1>3, <1>4, TellSafe DEF Sound

LEMMA CompleteRenewalSafe ==
    ASSUME ChronologyInv, NEW k \in Cases, NEW u \in Tenancies, CompleteRenewal(k, u)
    PROVE  ChronologyInv' /\ Wrote
<1> DEFINE s == Scope("RENEWAL_CASE", k)
           A == {u, CaseOf[k]}
           e == [scope |-> s, tenancy |-> u, about |-> A]
<1>1. s \in rows /\ s \in RecordScopes /\ CaseOf[k] \in Tenancies /\ Tell(s, u, A)
      /\ rows' = rows /\ moved' = moved /\ scopeOf' = scopeOf
    BY ChronologyAssumption DEF CompleteRenewal, RecordScopes, Scope, records
<1>2. RecordsLast' /\ Grows
    BY <1>1 DEF ChronologyInv, RecordsLast, Grows
<1>3. e \in EventType
    BY <1>1 DEF EventType, Places
<1>4. OnCase(e)'
    BY <1>1 DEF OnCase
<1> QED BY <1>1, <1>2, <1>3, <1>4, TellSafe DEF Sound

LEMMA ProposeOfferSafe ==
    ASSUME ChronologyInv, NEW o \in DOMAIN OfferOf, ProposeOffer(o)
    PROVE  ChronologyInv' /\ Wrote
<1> DEFINE s == Scope("OFFER", o)
           t == CaseOf[OfferOf[o]]
           e == [scope |-> s, tenancy |-> t, about |-> {t}]
<1>1. s \in RecordScopes /\ rows' = rows \cup {s} /\ t \in Tenancies /\ Tell(s, t, {t})
      /\ moved' = moved /\ scopeOf' = scopeOf
    BY ChronologyAssumption DEF ProposeOffer, RecordScopes, Scope
<1>2. RecordsLast' /\ Grows
    BY <1>1 DEF ChronologyInv, RecordsLast, Grows
<1>3. e \in EventType
    BY <1>1 DEF EventType, Places
<1>4. OnOffer(e)'
    BY <1>1 DEF OnOffer
<1> QED BY <1>1, <1>2, <1>3, <1>4, TellSafe DEF Sound

LEMMA SetPaymentScheduleSafe ==
    ASSUME ChronologyInv, NEW t \in Tenancies, NEW new \in SUBSET DOMAIN ItemOf, SetPaymentSchedule(t, new)
    PROVE  ChronologyInv' /\ Wrote
<1>1. PICK old : /\ old = {s \in rows : s[1] = "PAYMENT_ITEM" /\ ItemOf[s[2]] = t /\ s[2] \notin moved}
                 /\ rows' = (rows \ old) \cup {Scope("PAYMENT_ITEM", i) : i \in new}
                 /\ reader' = [r \in Readers |-> IF reader[r].at \in {"count", "rows"} /\ old # {}
                                        THEN [reader[r] EXCEPT !.shifted = TRUE] ELSE reader[r]]
                 /\ UNCHANGED <<moved, scopeOf, events, exported, packs>>
    BY DEF SetPaymentSchedule
<1>2. \A s \in old : s[1] = "PAYMENT_ITEM" /\ s[2] \notin moved
    BY <1>1
<1>3. \A i \in new : Scope("PAYMENT_ITEM", i) \in RecordScopes
    BY DEF RecordScopes, Scope
<1>4. Grows
    BY <1>1, <1>2 DEF Grows
<1>5. RecordsLast'
    <2>1. ASSUME NEW i \in moved PROVE Scope("PAYMENT_ITEM", i) \in rows'
        <3>1. Scope("PAYMENT_ITEM", i)[2] = i
            BY DEF Scope
        <3>2. Scope("PAYMENT_ITEM", i) \in rows /\ Scope("PAYMENT_ITEM", i) \notin old
            BY <1>2, <2>1, <3>1 DEF ChronologyInv, RecordsLast
        <3> QED BY <1>1, <3>2
    <2>2. rows' \subseteq RecordScopes
        BY <1>1, <1>3 DEF ChronologyInv, RecordsLast
    <2> QED BY <1>1, <1>4, <2>1, <2>2 DEF ChronologyInv, RecordsLast, Grows
<1>6. ASSUME NEW r \in Readers
      PROVE  reader'[r] \in ReaderType /\ SameReader(r) /\ Additive(r)
    <2> DEFINE q == [reader[r] EXCEPT !.shifted = TRUE]
    <2>1. reader'[r] = reader[r] \/ reader'[r] = q
        BY <1>1
    <2>2. LET o == reader[r] IN
          /\ o \in ReaderType /\ q \in ReaderType
          /\ q.at = o.at /\ q.of = o.of /\ q.had = o.had /\ q.seen = o.seen /\ q.page = o.page
          /\ q.pages = o.pages /\ q.refs = o.refs /\ q.found = o.found /\ q.papers = o.papers
          /\ q.todo = o.todo /\ q.shifted
        BY Shifting DEF ChronologyInv
    <2> HIDE DEF q
    <2>3. ASSUME reader'[r] = reader[r] PROVE reader'[r] \in ReaderType /\ SameReader(r)
        BY <2>2, <2>3 DEF SameReader
    <2>4. ASSUME reader'[r] = q PROVE reader'[r] \in ReaderType /\ SameReader(r)
        BY <2>2, <2>4 DEF SameReader
    <2>5. reader'[r] \in ReaderType /\ SameReader(r)
        BY <2>1, <2>3, <2>4
    <2>6. reader[r].at \in {"count", "rows"} /\ ~reader'[r].shifted => rows \subseteq rows'
        <3>1. reader[r].at \in {"count", "rows"} /\ old # {} => reader'[r] = q
            BY <1>1 DEF q
        <3> QED BY <1>1, <2>2, <3>1
    <2>7. PICK t0, S : t0 = reader[r].of /\ S = reader[r].refs
        OBVIOUS
    <2>8. Timeline(t0, S)' = Timeline(t0, S) /\ reader'[r].of = t0 /\ reader'[r].refs = S
        BY <1>1, <2>5, <2>7 DEF Timeline, Matches, SameReader
    <2>9. Timeline(reader[r].of, reader[r].refs)' \subseteq Then(r)
        BY <2>7, <2>8 DEF Then
    <2> QED BY <1>1, <2>5, <2>6, <2>9 DEF Additive
<1>7. reader' \in [Readers -> ReaderType]
    <2>1. DOMAIN reader' = Readers /\ reader' = [r \in Readers |-> reader'[r]]
        BY <1>1
    <2> QED BY <1>6, <2>1
<1> QED BY <1>1, <1>4, <1>5, <1>6, <1>7, QuietSafe DEF Wrote

LEMMA TransitionPaymentSafe ==
    ASSUME ChronologyInv, NEW i \in DOMAIN ItemOf, TransitionPayment(i)
    PROVE  ChronologyInv' /\ Wrote
<1> DEFINE s == Scope("PAYMENT_ITEM", i)
           t == ItemOf[i]
           e == [scope |-> s, tenancy |-> t, about |-> {t}]
<1>1. /\ s \in rows /\ s \in RecordScopes /\ t \in Tenancies /\ moved' = moved \cup {i}
      /\ rows' = rows /\ scopeOf' = scopeOf
      /\ Tell(s, t, {t}) \/ UNCHANGED <<events, reader, exported, packs>>
    BY ChronologyAssumption DEF TransitionPayment, RecordScopes, Scope
<1>2. RecordsLast' /\ Grows
    BY <1>1 DEF ChronologyInv, RecordsLast, Grows
<1>3. CASE Tell(s, t, {t})
    <2>1. e \in EventType
        BY <1>1 DEF EventType, Places
    <2>2. OnItem(e)'
        BY <1>1 DEF OnItem
    <2> QED BY <1>1, <1>2, <1>3, <2>1, <2>2, TellSafe DEF Sound
<1>4. CASE UNCHANGED <<events, reader, exported, packs>>
    <2>1. reader' \in [Readers -> ReaderType] /\ (\A r \in Readers : SameReader(r)) /\ events' = events
        BY <1>4 DEF ChronologyInv, SameReader
    <2>2. ASSUME NEW r \in Readers PROVE Additive(r)
        <3>1. Timeline(reader[r].of, reader[r].refs)' = Then(r)
            BY <1>4 DEF Timeline, Matches, Then
        <3> QED BY <1>1, <2>1, <3>1 DEF Additive
    <2> QED BY <1>2, <1>4, <2>1, <2>2, QuietSafe DEF Wrote
<1> QED BY <1>1, <1>3, <1>4

LEMMA CreateProofRequestSafe ==
    ASSUME ChronologyInv, NEW x \in Proofs, NEW s \in Filable, CreateProofRequest(x, s)
    PROVE  ChronologyInv' /\ Wrote
<1>1. /\ scopeOf[x] = None /\ scopeOf' = [scopeOf EXCEPT ![x] = s] /\ rows' = rows /\ moved' = moved
      /\ Tell(Scope("PROOF_REQUEST", x), None, About(s))
    BY DEF CreateProofRequest
<1>2. /\ s \in Places /\ s # None /\ s[1] # "PROOF_REQUEST"
      /\ s[1] \in {"RENEWAL_CASE", "OFFER"} => s \in rows
    BY FilablePlaces DEF ChronologyInv
<1>3. scopeOf'[x] = s /\ \A y \in (Proofs \cup Papers) \ {x} : scopeOf'[y] = scopeOf[y]
    BY <1>1 DEF ChronologyInv, RecordsLast
<1>4. RecordsLast' /\ Grows
    <2>1. scopeOf' \in [Proofs \cup Papers -> Places \cup {"PROOF_REQUEST"} \X Proofs \cup {None}]
        BY <1>1, <1>2 DEF ChronologyInv, RecordsLast
    <2>2. Grows
        BY <1>1, <1>3 DEF Grows, Made
    <2> QED BY <1>1, <1>2, <1>3, <2>1, <2>2 DEF ChronologyInv, RecordsLast
<1>5. PICK A : A = About(s)
    OBVIOUS
<1>6. A = About(scopeOf[x])'
    BY <1>2, <1>3, <1>5 DEF About
<1>7. PICK q : q = Scope("PROOF_REQUEST", x)
    OBVIOUS
<1>8. /\ [scope |-> q, tenancy |-> None, about |-> A] \in EventType
      /\ Sound([scope |-> q, tenancy |-> None, about |-> A])'
    BY <1>2, <1>3, <1>4, <1>6, <1>7, ProofSound
<1> QED BY <1>1, <1>4, <1>5, <1>7, <1>8, TellSafe

LEMMA ProofEventSafe ==
    ASSUME ChronologyInv, NEW x \in Proofs, ProofEvent(x)
    PROVE  ChronologyInv' /\ Wrote
<1>1. /\ scopeOf[x] # None /\ scopeOf' = scopeOf /\ rows' = rows /\ moved' = moved
      /\ Tell(Scope("PROOF_REQUEST", x), None, About(Scope("PROOF_REQUEST", x)))
    BY DEF ProofEvent, records
<1>2. RecordsLast' /\ Grows
    BY <1>1 DEF ChronologyInv, RecordsLast, Grows
<1>3. PICK A : A = About(Scope("PROOF_REQUEST", x))
    OBVIOUS
<1>4. A = About(scopeOf[x])'
    <2>1. scopeOf[x] \in Places
        BY <1>1 DEF ChronologyInv, RecordsLast
    <2>2. A = About(scopeOf[x]) /\ scopeOf[x][1] # "PROOF_REQUEST"
        BY <1>3, <2>1, AboutProof, PlaceKinds
    <2> QED BY <1>1, <2>2 DEF About
<1>5. PICK q : q = Scope("PROOF_REQUEST", x)
    OBVIOUS
<1>6. /\ [scope |-> q, tenancy |-> None, about |-> A] \in EventType
      /\ Sound([scope |-> q, tenancy |-> None, about |-> A])'
    BY <1>1, <1>2, <1>4, <1>5, ProofSound
<1> QED BY <1>1, <1>2, <1>3, <1>5, <1>6, TellSafe

LEMMA UploadPaperSafe ==
    ASSUME ChronologyInv, NEW d \in Papers, NEW s \in Filable, NEW t \in Tenancies \cup {None},
           UploadPaper(d, s, t)
    PROVE  ChronologyInv' /\ Wrote
<1>1. /\ scopeOf[d] = None /\ scopeOf' = [scopeOf EXCEPT ![d] = s] /\ rows' = rows /\ moved' = moved
      /\ t = None \/ s = Scope("TENANCY", t)
      /\ Tell(s, t, About(s))
    BY DEF UploadPaper
<1>2. /\ s \in Places /\ s # None
      /\ s[1] \in {"RENEWAL_CASE", "OFFER"} => s \in rows
    BY FilablePlaces DEF ChronologyInv
<1>3. scopeOf'[d] = s /\ \A y \in (Proofs \cup Papers) \ {d} : scopeOf'[y] = scopeOf[y]
    BY <1>1 DEF ChronologyInv, RecordsLast
<1>4. RecordsLast' /\ Grows
    <2>1. scopeOf' \in [Proofs \cup Papers -> Places \cup {"PROOF_REQUEST"} \X Proofs \cup {None}]
        BY <1>1, <1>2 DEF ChronologyInv, RecordsLast
    <2>2. Grows
        BY <1>1, <1>3 DEF Grows, Made
    <2>3. \A x \in Proofs : scopeOf'[x] = scopeOf[x]
        BY <1>3, ChronologyAssumption
    <2> QED BY <1>1, <2>1, <2>2, <2>3 DEF ChronologyInv, RecordsLast
<1>5. PICK A : A = About(s)
    OBVIOUS
<1>6. /\ [scope |-> s, tenancy |-> t, about |-> A] \in EventType
      /\ Sound([scope |-> s, tenancy |-> t, about |-> A])'
    BY <1>1, <1>2, <1>5, FiledSound DEF ChronologyInv
<1> QED BY <1>1, <1>4, <1>5, <1>6, TellSafe

LEMMA LinkPaperSafe ==
    ASSUME ChronologyInv, NEW d \in Papers, NEW x \in Proofs, LinkPaper(d, x)
    PROVE  ChronologyInv' /\ Wrote
<1>1. /\ scopeOf[d] = None /\ scopeOf[x] # None /\ rows' = rows /\ moved' = moved
      /\ scopeOf' = [scopeOf EXCEPT ![d] = Scope("PROOF_REQUEST", x)]
      /\ Tell(Scope("PROOF_REQUEST", x), None, About(Scope("PROOF_REQUEST", x)))
    BY DEF LinkPaper
<1>2. scopeOf'[x] = scopeOf[x] /\ \A y \in (Proofs \cup Papers) \ {d} : scopeOf'[y] = scopeOf[y]
    BY <1>1 DEF ChronologyInv, RecordsLast
<1>3. RecordsLast' /\ Grows
    <2>1. scopeOf' \in [Proofs \cup Papers -> Places \cup {"PROOF_REQUEST"} \X Proofs \cup {None}]
        BY <1>1 DEF ChronologyInv, RecordsLast, Scope
    <2>2. Grows
        BY <1>1, <1>2 DEF Grows, Made
    <2>3. \A y \in Proofs : scopeOf'[y] = scopeOf[y]
        BY <1>2, ChronologyAssumption
    <2> QED BY <1>1, <2>1, <2>2, <2>3 DEF ChronologyInv, RecordsLast
<1>4. PICK A : A = About(Scope("PROOF_REQUEST", x))
    OBVIOUS
<1>5. A = About(scopeOf[x])'
    <2>1. scopeOf[x] \in Places
        BY <1>1 DEF ChronologyInv, RecordsLast
    <2>2. A = About(scopeOf[x]) /\ scopeOf[x][1] # "PROOF_REQUEST"
        BY <1>4, <2>1, AboutProof, PlaceKinds
    <2> QED BY <1>2, <2>2 DEF About
<1>6. PICK q : q = Scope("PROOF_REQUEST", x)
    OBVIOUS
<1>7. /\ [scope |-> q, tenancy |-> None, about |-> A] \in EventType
      /\ Sound([scope |-> q, tenancy |-> None, about |-> A])'
    BY <1>1, <1>2, <1>3, <1>5, <1>6, ProofSound
<1> QED BY <1>1, <1>3, <1>4, <1>6, <1>7, TellSafe

LEMMA ViewPaymentReceiptSafe ==
    ASSUME ChronologyInv, NEW d \in Papers, ViewPaymentReceipt(d)
    PROVE  ChronologyInv' /\ Wrote
<1>1. PICK s : s = scopeOf[d]
    OBVIOUS
<1>2. /\ s # None /\ s[1] = "PAYMENT_ITEM" /\ rows' = rows /\ moved' = moved /\ scopeOf' = scopeOf
      /\ Tell(s, None, About(s))
    BY <1>1 DEF ViewPaymentReceipt, records
<1>3. s \in Places
    BY <1>1, <1>2 DEF ChronologyInv, RecordsLast
<1>4. PICK A : A = About(s)
    OBVIOUS
<1>5. RecordsLast' /\ Grows
    BY <1>2 DEF ChronologyInv, RecordsLast, Grows
<1>6. /\ [scope |-> s, tenancy |-> None, about |-> A] \in EventType
      /\ Sound([scope |-> s, tenancy |-> None, about |-> A])'
    BY <1>2, <1>3, <1>4, FiledSound DEF ChronologyInv
<1> QED BY <1>2, <1>4, <1>5, <1>6, TellSafe

LEMMA WritesSafe ==
    ASSUME ChronologyInv, Writes
    PROVE  ChronologyInv' /\ Wrote
<1>1. \A k \in Cases : OpenCase(k) \/ (\E u \in Tenancies : CompleteRenewal(k, u)) => ChronologyInv' /\ Wrote
    BY OpenCaseSafe, CompleteRenewalSafe
<1>2. \A t \in Tenancies : \A new \in SUBSET DOMAIN ItemOf : SetPaymentSchedule(t, new) => ChronologyInv' /\ Wrote
    BY SetPaymentScheduleSafe
<1>3. \A x \in Proofs : ProofEvent(x) \/ (\E s \in Filable : CreateProofRequest(x, s)) => ChronologyInv' /\ Wrote
    BY ProofEventSafe, CreateProofRequestSafe
<1>4. ASSUME NEW d \in Papers,
             \/ \E s \in Filable, t \in Tenancies \cup {None} : UploadPaper(d, s, t)
             \/ \E x \in Proofs : LinkPaper(d, x)
             \/ ViewPaymentReceipt(d)
      PROVE  ChronologyInv' /\ Wrote
    BY <1>4, UploadPaperSafe, LinkPaperSafe, ViewPaymentReceiptSafe
<1> QED BY <1>1, <1>2, <1>3, <1>4, ProposeOfferSafe, TransitionPaymentSafe DEF Writes

-----------------------------------------------------------------------------
(* The readers' steps *)

RefsIn(t) == PageRefs(t) \subseteq Places \cup {"PROOF_REQUEST"} \X Proofs

LEMMA RefsTyped == ASSUME RecordsLast, NEW t \in Tenancies PROVE RefsIn(t)
BY DEF RefsIn, PageRefs, RecordsLast, Places, Scope

LEMMA TimelineTyped ==
    ASSUME ChronologyInv, NEW t, NEW S
    PROVE  Timeline(t, S) \subseteq DOMAIN events /\ Timeline(t, S) \in SUBSET Nat
<1>1. events \in Seq(EventType)
    BY DEF ChronologyInv, EventType
<1> QED BY <1>1 DEF Timeline

\* A step of one reader that writes nothing.
LEMMA ReadsSafe ==
    ASSUME ChronologyInv, NEW r \in Readers, NEW to, reader' = [reader EXCEPT ![r] = to],
           to \in ReaderType, to.at # "away" => to.of \in Tenancies, UNCHANGED <<records, events>>
    PROVE  /\ ChronologyInv' /\ reader'[r] = to
           /\ \A q \in Readers \ {r} : reader'[q] = reader[q]
<1>1. /\ reader' \in [Readers -> ReaderType] /\ reader'[r] = to
      /\ \A q \in Readers \ {r} : reader'[q] = reader[q]
    BY DEF ChronologyInv
<1>2. \A q \in Readers : reader'[q].at # "away" => reader'[q].of \in Tenancies
    BY <1>1 DEF ChronologyInv
<1>3. RecordsLast' /\ Grows
    BY DEF ChronologyInv, RecordsLast, Grows, records
<1>4. ASSUME NEW n \in DOMAIN events' PROVE Sound(events[n])'
    <2>1. PICK f : f = events[n]
        OBVIOUS
    <2>2. Sound(f)'
        BY <1>3, <1>4, <2>1, SoundStays DEF ChronologyInv
    <2> QED BY <2>1, <2>2
<1> QED BY <1>1, <1>2, <1>3, <1>4 DEF ChronologyInv

\* What the edits of a reader's record are.
Opened(t, T) == [Away EXCEPT !.at = "count", !.of = t, !.had = T, !.page = 1]
Counted(o, S, n, m) == [o EXCEPT !.at = "rows", !.refs = S, !.pages = n, !.page = m]
PageTurned(o, T, w) == [o EXCEPT !.seen = @ \cup T, !.page = @ + 1, !.at = w]
Packed(t, T, D) == [Away EXCEPT !.at = "log", !.of = t, !.found = T, !.papers = D, !.todo = D]
TakenOff(o, d) == [o EXCEPT !.todo = @ \ {d}]

LEMMA OpenEdit ==
    ASSUME NEW t \in Tenancies, NEW T \in SUBSET Nat,
           NEW to, to = Opened(t, T)
    PROVE  /\ to \in ReaderType /\ to.at = "count" /\ to.of = t /\ to.had = T /\ to.seen = {}
           /\ to.page = 1 /\ ~to.shifted
BY DEF Opened, Away, ReaderType, Doings

LEMMA CountEdit ==
    ASSUME NEW o \in ReaderType, NEW S \in SUBSET (Places \cup {"PROOF_REQUEST"} \X Proofs),
           NEW n \in Nat, NEW m \in Nat,
           NEW to, to = Counted(o, S, n, m)
    PROVE  /\ to \in ReaderType /\ to.at = "rows" /\ to.of = o.of /\ to.had = o.had /\ to.seen = o.seen
           /\ to.page = m /\ to.pages = n /\ to.refs = S /\ to.shifted = o.shifted
BY DEF Counted, ReaderType, Doings

LEMMA TurnEdit ==
    ASSUME NEW o \in ReaderType, NEW T \in SUBSET Nat, NEW w \in {"count", "read"},
           NEW to, to = PageTurned(o, T, w)
    PROVE  /\ to \in ReaderType /\ to.at = w /\ to.of = o.of /\ to.had = o.had
           /\ to.seen = o.seen \cup T /\ to.page = o.page + 1 /\ to.refs = o.refs
           /\ to.shifted = o.shifted
<1>1. PICK U \in SUBSET Nat, n \in Nat : U = o.seen \cup T /\ n = o.page + 1
    <2>1. o.seen \in SUBSET Nat /\ o.page \in Nat
        BY DEF ReaderType
    <2>2. o.seen \cup T \in SUBSET Nat
        BY <2>1
    <2>3. o.page + 1 \in Nat
        BY <2>1
    <2> QED BY <2>2, <2>3
<1>2. to = [o EXCEPT !.seen = U, !.page = n, !.at = w]
    BY <1>1 DEF PageTurned
<1>3. /\ to \in ReaderType /\ to.at = w /\ to.of = o.of /\ to.had = o.had /\ to.seen = U
      /\ to.page = n /\ to.refs = o.refs /\ to.shifted = o.shifted
    BY <1>2 DEF ReaderType, Doings
<1> QED BY <1>1, <1>3

LEMMA PackEdit ==
    ASSUME NEW t \in Tenancies, NEW T \in SUBSET Nat, NEW D \in SUBSET Papers,
           NEW to, to = Packed(t, T, D)
    PROVE  to \in ReaderType /\ to.at = "log" /\ to.of = t /\ to.papers = D /\ to.todo = D
BY DEF Packed, Away, ReaderType, Doings

LEMMA LogEdit ==
    ASSUME NEW o \in ReaderType, NEW d,
           NEW to, to = TakenOff(o, d)
    PROVE  /\ to \in ReaderType /\ to.at = o.at /\ to.of = o.of /\ to.papers = o.papers
           /\ to.todo = o.todo \ {d}
<1>1. PICK D \in SUBSET Papers : D = o.todo \ {d}
    <2>1. o.todo \in SUBSET Papers
        BY DEF ReaderType
    <2> QED BY <2>1
<1>2. to = [o EXCEPT !.todo = D]
    BY <1>1 DEF TakenOff
<1>3. /\ to \in ReaderType /\ to.at = o.at /\ to.of = o.of /\ to.papers = o.papers /\ to.todo = D
    BY <1>2 DEF ReaderType
<1> QED BY <1>1, <1>3

LEMMA AwayEdit == Away \in ReaderType /\ Away.at = "away"
BY DEF Away, ReaderType, Doings

-----------------------------------------------------------------------------
(* Pages and ranks *)

LEMMA Product == ASSUME NEW a \in Nat, NEW b \in Nat, a <= b
                 PROVE  a * PageSize \in Nat /\ a * PageSize <= b * PageSize
<1>1. PageSize \in Nat
    BY PagingAssumption
<1>2. \A x, y \in Nat : x * y \in Nat
    OBVIOUS
<1>3. PICK d \in Nat : b = a + d
    <2>1. b - a \in Nat /\ b = a + (b - a)
        OBVIOUS
    <2> QED BY <2>1
<1>4. b * PageSize = a * PageSize + d * PageSize
    BY <1>1, <1>3
<1>5. a * PageSize \in Nat /\ d * PageSize \in Nat
    BY <1>1, <1>2
<1> QED BY <1>4, <1>5

LEMMA PagesCover ==
    ASSUME NEW n \in Nat
    PROVE  Pages(n) \in Nat /\ Pages(n) >= 1 /\ n <= Pages(n) * PageSize
<1>1. PageSize \in Nat \ {0}
    BY PagingAssumption
<1>2. CASE n = 0
    <2>1. Pages(n) = 1
        BY <1>2 DEF Pages
    <2> QED BY <1>1, <1>2, <2>1
<1>3. CASE n # 0
    <2> DEFINE k == n + PageSize - 1
               q == k \div PageSize
    <2>1. Pages(n) = q /\ k \in Nat /\ k >= PageSize
        BY <1>1, <1>3 DEF Pages
    <2> HIDE DEF k
    <2>2. q \in Nat /\ k = q * PageSize + (k % PageSize) /\ k % PageSize \in 0 .. PageSize - 1
        BY <1>1, <2>1
    <2> HIDE DEF q
    <2>3. q # 0
        BY <1>1, <2>1, <2>2
    <2>4. q * PageSize \in Nat
        BY <1>1, <2>2
    <2>5. n = k - PageSize + 1 /\ k \in Nat
        BY <1>1, <2>1 DEF k
    <2>6. n <= q * PageSize
        BY <1>1, <2>2, <2>4, <2>5
    <2> QED BY <2>1, <2>2, <2>3, <2>6
<1> QED BY <1>2, <1>3

LEMMA RankFacts ==
    ASSUME NEW S, IsFiniteSet(S), S \subseteq Nat, NEW n \in S
    PROVE  Rank(n, S) \in Nat /\ Rank(n, S) >= 1 /\ Rank(n, S) <= Cardinality(S)
<1> DEFINE A == {m \in S : m >= n}
<1>1. n \in A /\ A \subseteq S
    OBVIOUS
<1> HIDE DEF A
<1>2. IsFiniteSet(A) /\ Cardinality(A) <= Cardinality(S) /\ Cardinality(A) \in Nat /\ Cardinality(S) \in Nat
    BY <1>1, FS_Subset, FS_CardinalityType
<1>3. Cardinality(A) # 0
    BY <1>1, <1>2, FS_EmptySet
<1> QED BY <1>2, <1>3 DEF Rank, A

LEMMA RankGrows ==
    ASSUME NEW S, NEW T, IsFiniteSet(T), T \subseteq Nat, S \subseteq T, NEW n \in S
    PROVE  Rank(n, S) \in Nat /\ Rank(n, T) \in Nat /\ Rank(n, S) <= Rank(n, T)
<1> DEFINE A == {m \in S : m >= n}
           B == {m \in T : m >= n}
<1>1. A \subseteq B /\ B \subseteq T
    OBVIOUS
<1> HIDE DEF A, B
<1>2. IsFiniteSet(A) /\ IsFiniteSet(B) /\ Cardinality(A) <= Cardinality(B)
      /\ Cardinality(A) \in Nat /\ Cardinality(B) \in Nat
    BY <1>1, FS_Subset, FS_CardinalityType
<1> QED BY <1>2 DEF Rank, A, B

LEMMA BehindGrows ==
    ASSUME NEW S, NEW T, IsFiniteSet(T), T \subseteq Nat, S \subseteq T,
           NEW had, NEW seen, NEW a \in Nat, NEW b \in Nat, b <= a, Behind(had, seen, a, S)
    PROVE  Behind(had, seen, b, T)
<1> SUFFICES ASSUME NEW n \in had \ seen
             PROVE  n \in T /\ Rank(n, T) > b * PageSize
    BY DEF Behind
<1>1. n \in S /\ Rank(n, S) > a * PageSize
    BY DEF Behind
<1>2. Rank(n, S) \in Nat /\ Rank(n, T) \in Nat /\ Rank(n, S) <= Rank(n, T)
    BY <1>1, RankGrows
<1>3. b * PageSize \in Nat /\ a * PageSize \in Nat /\ b * PageSize <= a * PageSize
    BY Product
<1> QED BY <1>1, <1>2, <1>3

-----------------------------------------------------------------------------
(* Lists only grow while somebody pages, unless a schedule is replaced *)

LEMMA AboutRows ==
    ASSUME RecordsLast, NEW s \in Places
    PROVE  About(s)' = About(s)
<1>1. s[1] # "PROOF_REQUEST"
    BY PlaceKinds
<1> QED BY <1>1 DEF About

LEMMA RefsGrow ==
    ASSUME RecordsLast, Grows, rows \subseteq rows', NEW t \in Tenancies
    PROVE  PageRefs(t) \subseteq PageRefs(t)'
<1>1. \A s \in rows : About(s)' = About(s) /\ s \in rows'
    BY AboutRows DEF RecordsLast, Places
<1>2. \A y \in Proofs \cap Made : y \in Made' /\ scopeOf'[y] = scopeOf[y]
    BY DEF Grows, Made
<1> QED BY <1>1, <1>2 DEF PageRefs

LEMMA TimelineGrows ==
    ASSUME NEW t, NEW S, NEW T, S \subseteq T, DOMAIN events \subseteq DOMAIN events',
           \A n \in DOMAIN events : events'[n] = events[n]
    PROVE  Timeline(t, S) \subseteq Timeline(t, T)'
BY DEF Timeline, Matches

LEMMA TimelineFinite ==
    ASSUME ChronologyInv, NEW t, NEW S
    PROVE  IsFiniteSet(Timeline(t, S)) /\ Timeline(t, S) \subseteq Nat /\ Cardinality(Timeline(t, S)) \in Nat
<1>1. events \in Seq(EventType)
    BY DEF ChronologyInv, EventType
<1>2. Len(events) \in Nat /\ DOMAIN events = 1 .. Len(events)
    BY <1>1
<1>3. IsFiniteSet(1 .. Len(events))
    BY <1>2, FS_Interval
<1>4. Timeline(t, S) \subseteq 1 .. Len(events)
    BY <1>2 DEF Timeline
<1> QED BY <1>3, <1>4, FS_Subset, FS_CardinalityType

LEMMA TimelineFiniteNext ==
    ASSUME ChronologyInv', NEW t, NEW S
    PROVE  IsFiniteSet(Timeline(t, S)') /\ Timeline(t, S)' \subseteq Nat /\ Cardinality(Timeline(t, S)') \in Nat
<1>1. events' \in Seq(EventType)
    BY DEF ChronologyInv, EventType
<1>2. Len(events') \in Nat /\ DOMAIN events' = 1 .. Len(events')
    BY <1>1
<1>3. IsFiniteSet(1 .. Len(events'))
    BY <1>2, FS_Interval
<1>4. Timeline(t, S)' \subseteq 1 .. Len(events')
    BY <1>2 DEF Timeline
<1> QED BY <1>3, <1>4, FS_Subset, FS_CardinalityType

LEMMA StillBehind ==
    ASSUME NEW S, NEW T, IsFiniteSet(T), T \subseteq Nat, S \subseteq T,
           NEW had, NEW seen, NEW b \in Nat, Behind(had, seen, b, S)
    PROVE  Behind(had, seen, b, T)
<1>1. b <= b
    OBVIOUS
<1> QED BY <1>1, BehindGrows

LEMMA PagingStays ==
    ASSUME ChronologyInv, ChronologyInv', Grows, NEW r \in Readers, Additive(r), Paging(r)
    PROVE  Paging(r)'
<1> SUFFICES ASSUME ~reader'[r].shifted PROVE Paging(r)'
    BY DEF Paging
<1>1. PICK o, t, S : o = reader[r] /\ t = o.of /\ S = o.refs
    OBVIOUS
<1>2. /\ o \in ReaderType /\ reader'[r].at = o.at /\ reader'[r].of = t /\ reader'[r].had = o.had
      /\ reader'[r].seen = o.seen /\ reader'[r].page = o.page /\ reader'[r].pages = o.pages
      /\ reader'[r].refs = S /\ ~o.shifted
    BY <1>1 DEF Additive, SameReader, ChronologyInv
<1>3. CASE o.at = "count"
    <2>1. t \in Tenancies /\ PageRefs(t) \subseteq PageRefs(t)'
        BY <1>1, <1>2, <1>3, RefsGrow DEF Additive, ChronologyInv
    <2>2. PICK A, B : A = Now(r) /\ B = Now(r)'
        OBVIOUS
    <2>3. PICK P, Q : P = PageRefs(t) /\ Q = PageRefs(t)'
        OBVIOUS
    <2>4. A = Timeline(t, P) /\ B = Timeline(t, Q)'
        BY <1>1, <1>2, <2>2, <2>3 DEF Now
    <2>5. A \subseteq B
        BY <2>1, <2>3, <2>4, TimelineGrows DEF Additive
    <2>6. IsFiniteSet(B) /\ B \subseteq Nat
        BY <2>4, TimelineFiniteNext
    <2>7. PICK b \in Nat : b = o.page - 1
        BY <1>1, <1>2, <1>3 DEF Paging, ReaderType
    <2>8. o.page >= 1 /\ o.had \subseteq A /\ Behind(o.had, o.seen, b, A)
        BY <1>1, <1>2, <1>3, <2>2, <2>7 DEF Paging
    <2>9. Behind(o.had, o.seen, b, B)
        BY <2>5, <2>6, <2>7, <2>8, StillBehind
    <2> QED BY <1>2, <1>3, <2>2, <2>5, <2>7, <2>8, <2>9 DEF Paging
<1>4. CASE o.at = "rows"
    <2>1. t \in Tenancies /\ PageRefs(t) \subseteq PageRefs(t)'
        BY <1>1, <1>2, <1>4, RefsGrow DEF Additive, ChronologyInv
    <2>2. PICK A, B, C, D : A = Then(r) /\ B = Then(r)' /\ C = Now(r) /\ D = Now(r)'
        OBVIOUS
    <2>3. PICK P, Q : P = PageRefs(t) /\ Q = PageRefs(t)'
        OBVIOUS
    <2>4. A = Timeline(t, S) /\ B = Timeline(t, S)' /\ C = Timeline(t, P) /\ D = Timeline(t, Q)'
        BY <1>1, <1>2, <2>2, <2>3 DEF Now, Then
    <2>5. A \subseteq B /\ C \subseteq D
        BY <2>1, <2>3, <2>4, TimelineGrows DEF Additive
    <2>6. IsFiniteSet(B) /\ B \subseteq Nat
        BY <2>4, TimelineFiniteNext
    <2>7. PICK b \in Nat : b = o.page - 1
        BY <1>1, <1>2, <1>4 DEF Paging, ReaderType
    <2>8. /\ o.page >= 1 /\ o.had \subseteq A /\ o.had \subseteq C /\ Behind(o.had, o.seen, b, A)
          /\ S \subseteq P /\ o.page <= o.pages
          /\ o.page = o.pages => Cardinality(A) <= o.pages * PageSize
        BY <1>1, <1>2, <1>4, <2>2, <2>3, <2>7 DEF Paging
    <2>9. Behind(o.had, o.seen, b, B)
        BY <2>5, <2>6, <2>7, <2>8, StillBehind
    <2>10. o.page = o.pages => B = A
        BY <1>1, <1>2, <1>4, <2>2, <2>4, <2>5 DEF Additive
    <2>11. S \subseteq Q
        BY <2>1, <2>3, <2>8
    <2> QED BY <1>2, <1>4, <2>2, <2>3, <2>5, <2>7, <2>8, <2>9, <2>10, <2>11 DEF Paging
<1>5. CASE o.at \notin {"count", "rows"}
    BY <1>1, <1>2, <1>5 DEF Paging
<1> QED BY <1>3, <1>4, <1>5

-----------------------------------------------------------------------------
(* What has been filed *)

LEMMA FilingSafe ==
    ASSUME ChronologyInv, FiledOnMade, Writes
    PROVE  FiledOnMade'
<1> DEFINE On(d) == scopeOf[d] \in Places \/ \E x \in Proofs \cap Made : scopeOf[d] = Scope("PROOF_REQUEST", x)
<1>1. scopeOf \in [Proofs \cup Papers -> Places \cup {"PROOF_REQUEST"} \X Proofs \cup {None}]
    BY DEF ChronologyInv, RecordsLast
<1>2. Grows
    BY WritesSafe DEF Wrote
<1>3. Made \subseteq Made'
    BY <1>2 DEF Grows, Made
<1>4. CASE scopeOf' = scopeOf
    BY <1>3, <1>4 DEF FiledOnMade, Made
<1>5. ASSUME NEW x \in Proofs, NEW s \in Filable, CreateProofRequest(x, s)
      PROVE  FiledOnMade'
    <2>1. \A d \in Papers : scopeOf'[d] = scopeOf[d]
        BY <1>1, <1>5, ChronologyAssumption DEF CreateProofRequest
    <2> QED BY <1>3, <2>1 DEF FiledOnMade, Made
<1>6. ASSUME NEW d \in Papers, NEW s \in Filable, NEW t \in Tenancies \cup {None}, UploadPaper(d, s, t)
      PROVE  FiledOnMade'
    <2>1. s \in Places /\ scopeOf'[d] = s /\ \A y \in Papers \ {d} : scopeOf'[y] = scopeOf[y]
        BY <1>1, <1>6, FilablePlaces DEF UploadPaper, ChronologyInv
    <2> QED BY <1>3, <2>1 DEF FiledOnMade, Made
<1>7. ASSUME NEW d \in Papers, NEW x \in Proofs, LinkPaper(d, x)
      PROVE  FiledOnMade'
    <2>1. /\ scopeOf'[d] = Scope("PROOF_REQUEST", x) /\ x \in Made
          /\ \A y \in Papers \ {d} : scopeOf'[y] = scopeOf[y]
        BY <1>1, <1>7 DEF LinkPaper, Made
    <2> QED BY <1>3, <2>1 DEF FiledOnMade, Made
<1> QED
    <2>1. \/ scopeOf' = scopeOf
          \/ \E x \in Proofs, s \in Filable : CreateProofRequest(x, s)
          \/ \E d \in Papers, s \in Filable, t \in Tenancies \cup {None} : UploadPaper(d, s, t)
          \/ \E d \in Papers, x \in Proofs : LinkPaper(d, x)
        BY DEF Writes, OpenCase, CompleteRenewal, ProposeOffer, SetPaymentSchedule, TransitionPayment,
               ProofEvent, ViewPaymentReceipt, records
    <2> QED BY <1>4, <1>5, <1>6, <1>7, <2>1

\* A paper stays the tenancy's.
LEMMA BelongsStays ==
    ASSUME ChronologyInv, Grows, FiledOnMade, NEW d \in Papers \cap Made, NEW t, Belongs(d, t)
    PROVE  Belongs(d, t)'
<1>1. PICK s : s = scopeOf[d] /\ scopeOf'[d] = s
    BY DEF Grows
<1>2. CASE s \in Places
    <2>1. s[1] # "PROOF_REQUEST" /\ About(s)' = About(s)
        BY <1>2, PlaceKinds, AboutRows DEF ChronologyInv
    <2> QED BY <1>1, <2>1 DEF Belongs
<1>3. ASSUME NEW x \in Proofs \cap Made, s = Scope("PROOF_REQUEST", x)
      PROVE  Belongs(d, t)'
    <2>1. scopeOf'[x] = scopeOf[x] /\ scopeOf[x] \in Places
        BY <1>3 DEF Grows, ChronologyInv, RecordsLast, Made
    <2>2. About(s)' = About(s)
        <3>1. scopeOf[x][1] # "PROOF_REQUEST"
            BY <2>1, PlaceKinds
        <3> QED BY <1>3, <2>1, <3>1 DEF About, Scope
    <2>3. s[2] = x
        BY <1>3 DEF Scope
    <2> QED BY <1>1, <2>1, <2>2, <2>3 DEF Belongs
<1> QED BY <1>1, <1>2, <1>3 DEF FiledOnMade

\* What the manifest lists is the tenancy's.
LEMMA Manifested ==
    ASSUME ChronologyInv, NEW t \in Tenancies
    PROVE  /\ Manifest(t) \subseteq Papers \cap Made
           /\ \A d \in Manifest(t) : Belongs(d, t)
<1>1. Manifest(t) \subseteq Papers \cap Made
    BY DEF Manifest
<1>2. ASSUME NEW d \in Manifest(t) PROVE Belongs(d, t)
    <2>1. PICK s : s = scopeOf[d] /\ s \in PackRefs(t)
        BY DEF Manifest
    <2>2. ASSUME NEW x \in Proofs, s = Scope("PROOF_REQUEST", x), scopeOf[x] = Scope("PROPERTY", PropertyOf[t])
          PROVE  Belongs(d, t)
        BY <2>1, <2>2 DEF Belongs, Scope
    <2>3. CASE s = Scope("TENANCY", t)
        BY <2>1, <2>3, AboutPlain DEF Belongs
    <2>4. CASE t \in About(s)
        BY <2>1, <2>4 DEF Belongs
    <2>5. ASSUME NEW x \in Proofs \cap Made, s = Scope("PROOF_REQUEST", x),
                 scopeOf[x] = Scope("TENANCY", t) \/ t \in About(scopeOf[x])
          PROVE  Belongs(d, t)
        <3>1. scopeOf[x] \in Places
            BY DEF ChronologyInv, RecordsLast, Made
        <3>2. t \in About(scopeOf[x])
            BY <2>5, AboutPlain
        <3> QED BY <2>1, <2>5, <3>1, <3>2, AboutProof DEF Belongs
    <2> QED BY <2>1, <2>2, <2>3, <2>4, <2>5 DEF PackRefs, PageRefs
<1> QED BY <1>1, <1>2

-----------------------------------------------------------------------------
(* The readers *)

LEMMA SameLists ==
    ASSUME UNCHANGED <<records, events>>
    PROVE  /\ rows' = rows /\ scopeOf' = scopeOf /\ Made' = Made
           /\ \A t : PageRefs(t)' = PageRefs(t)
           /\ \A t, S : Timeline(t, S)' = Timeline(t, S)
           /\ \A d, t : Belongs(d, t)' = Belongs(d, t)
           /\ FiledOnMade' = FiledOnMade
<1>1. rows' = rows /\ scopeOf' = scopeOf /\ events' = events /\ Made' = Made /\ \A s : About(s)' = About(s)
    BY DEF records, Made, About
<1>2. \A t : PageRefs(t)' = PageRefs(t)
    BY <1>1 DEF PageRefs
<1>3. \A t, S : Timeline(t, S)' = Timeline(t, S)
    BY <1>1 DEF Timeline, Matches
<1>4. \A d, t : Belongs(d, t)' = Belongs(d, t)
    BY <1>1 DEF Belongs
<1>5. FiledOnMade' = FiledOnMade
    BY <1>1 DEF FiledOnMade
<1> QED BY <1>1, <1>2, <1>3, <1>4, <1>5

\* One reader moves and the others stand still.
LEMMA OneReads ==
    ASSUME ReadingInv, NEW r \in Readers, NEW to \in ReaderType,
           reader' = [reader EXCEPT ![r] = to], UNCHANGED <<records, events, packs>>,
           to.at # "away" => to.of \in Tenancies, exported \subseteq exported',
           reader'[r] = to => Paging(r)' /\ Exporting(r)',
           to.at = "log" => \A d \in to.papers : Belongs(d, to.of)
    PROVE  ReadingInv'
<1>1. ChronologyInv' /\ reader'[r] = to /\ \A q \in Readers \ {r} : reader'[q] = reader[q]
    BY ReadsSafe DEF ReadingInv
<1>2. ASSUME NEW q \in Readers \ {r} PROVE Paging(q)' /\ Exporting(q)'
    <2>1. reader'[q] = reader[q] /\ Paging(q) /\ Exporting(q)
        BY <1>1 DEF ReadingInv
    <2>2. PICK o : o = reader[q] /\ reader'[q] = o
        BY <2>1
    <2>3. Paging(q)'
        BY <2>1, <2>2, SameLists DEF Paging, Now, Then
    <2>4. Exporting(q)'
        BY <2>1, <2>2, SameLists DEF Exporting
    <2> QED BY <2>3, <2>4
<1>3. Gathered'
    <2>1. FiledOnMade'
        BY SameLists DEF ReadingInv, Gathered
    <2>2. ASSUME NEW q \in Readers, reader'[q].at = "log"
          PROVE  (\A d \in reader[q].papers : Belongs(d, reader[q].of))'
        <3>1. PICK o : o = reader'[q]
            OBVIOUS
        <3>2. \A d \in o.papers : Belongs(d, o.of)
            BY <1>1, <2>2, <3>1 DEF ReadingInv, Gathered
        <3>3. \A d \in o.papers : Belongs(d, o.of)'
            BY <3>2, SameLists
        <3> QED BY <3>1, <3>3
    <2>3. ASSUME NEW p \in packs'
          PROVE  p.papers \subseteq Papers \cap exported' \cap Made' /\ \A d \in p.papers : Belongs(d, p.of)'
        <3>1. p.papers \subseteq Papers \cap exported \cap Made /\ \A d \in p.papers : Belongs(d, p.of)
            BY <2>3 DEF ReadingInv, Gathered
        <3> QED BY <3>1, SameLists
    <2> QED BY <2>1, <2>2, <2>3 DEF Gathered
<1> QED BY <1>1, <1>2, <1>3 DEF ReadingInv

LEMMA OpenTimelineSafe ==
    ASSUME ReadingInv, NEW r \in Readers, NEW t \in Tenancies, OpenTimeline(r, t)
    PROVE  ReadingInv'
<1>1. PICK S, T : S = PageRefs(t) /\ T = Timeline(t, S)
    OBVIOUS
<1>2. T \in SUBSET Nat /\ T \subseteq Nat /\ IsFiniteSet(T)
    BY <1>1, TimelineFinite DEF ReadingInv
<1>3. PICK to : to = Opened(t, T)
    OBVIOUS
<1>4. /\ to \in ReaderType /\ to.at = "count" /\ to.of = t /\ to.had = T /\ to.seen = {}
      /\ to.page = 1 /\ ~to.shifted
    BY <1>2, <1>3, OpenEdit
<1>5. /\ reader' = [reader EXCEPT ![r] = to] /\ UNCHANGED <<records, events, packs>>
      /\ exported' = exported
    BY <1>1, <1>3 DEF OpenTimeline, Reads, Opened
<1>6. ASSUME reader'[r] = to PROVE Paging(r)' /\ Exporting(r)'
    <2>1. Now(r)' = T
        BY <1>1, <1>4, <1>5, <1>6, SameLists DEF Now
    <2>2. 1 - 1 = 0 /\ 0 * PageSize = 0
        BY PagingAssumption
    <2>3. ASSUME NEW n \in T PROVE Rank(n, T) > 0
        <3>1. Rank(n, T) \in Nat /\ Rank(n, T) >= 1
            BY <1>2, RankFacts
        <3> QED BY <3>1
    <2>4. Behind(T, {}, 1 - 1, T)
        BY <2>2, <2>3 DEF Behind
    <2>5. Paging(r)'
        BY <1>4, <1>6, <2>1, <2>4 DEF Paging
    <2>6. Exporting(r)'
        BY <1>4, <1>6 DEF Exporting
    <2> QED BY <2>5, <2>6
<1> QED BY <1>4, <1>5, <1>6, OneReads

LEMMA CountPagesSafe ==
    ASSUME ReadingInv, NEW r \in Readers, CountPages(r)
    PROVE  ReadingInv'
<1>1. PICK o, t : o = reader[r] /\ t = o.of
    OBVIOUS
<1>2. o \in ReaderType /\ o.at = "count" /\ t \in Tenancies
    BY <1>1 DEF CountPages, ReadingInv, ChronologyInv
<1>3. PICK S, T : S = PageRefs(t) /\ T = Timeline(t, S)
    OBVIOUS
<1>4. T \in SUBSET Nat /\ IsFiniteSet(T) /\ Cardinality(T) \in Nat
      /\ S \in SUBSET (Places \cup {"PROOF_REQUEST"} \X Proofs)
    BY <1>2, <1>3, TimelineFinite, RefsTyped DEF ReadingInv, ChronologyInv, RefsIn
<1>5. PICK n : n = Pages(Cardinality(T))
    OBVIOUS
<1>6. n \in Nat /\ n >= 1 /\ Cardinality(T) <= n * PageSize
    BY <1>4, <1>5, PagesCover
<1>7. PICK m : m = LeastOf(o.page, n)
    OBVIOUS
<1>8. o.page \in Nat /\ m \in Nat /\ m <= n /\ m <= o.page /\ (m = n \/ m = o.page)
    <2>1. o.page \in Nat
        BY <1>2 DEF ReaderType
    <2> QED BY <1>6, <1>7, <2>1 DEF LeastOf
<1>9. PICK to : to = Counted(o, S, n, m)
    OBVIOUS
<1>10. /\ to \in ReaderType /\ to.at = "rows" /\ to.of = t /\ to.had = o.had /\ to.seen = o.seen
       /\ to.page = m /\ to.pages = n /\ to.refs = S /\ to.shifted = o.shifted
    BY <1>1, <1>2, <1>4, <1>6, <1>8, <1>9, CountEdit
<1>11. /\ reader' = [reader EXCEPT ![r] = to] /\ UNCHANGED <<records, events, packs>>
       /\ exported' = exported
    BY <1>1, <1>3, <1>5, <1>7, <1>9 DEF CountPages, Reads, Counted
<1>12. ASSUME reader'[r] = to PROVE Paging(r)' /\ Exporting(r)'
    <2>1. PageRefs(t)' = S /\ Now(r)' = T /\ Then(r)' = T
        BY <1>3, <1>10, <1>11, <1>12, SameLists DEF Now, Then
    <2>2. ASSUME ~o.shifted
          PROVE  /\ m >= 1 /\ o.had \subseteq T
                 /\ Behind(o.had, o.seen, m - 1, T)
        <3>1. o.page >= 1 /\ o.had \subseteq T /\ Behind(o.had, o.seen, o.page - 1, T)
            BY <1>1, <1>2, <1>3, <2>2 DEF ReadingInv, Paging, Now
        <3>2. PICK a \in Nat, b \in Nat : a = o.page - 1 /\ b = m - 1 /\ b <= a
            <4>1. o.page - 1 \in Nat /\ m - 1 \in Nat /\ m - 1 <= o.page - 1
                BY <1>6, <1>8, <3>1
            <4> QED BY <4>1
        <3>3. Behind(o.had, o.seen, b, T)
            BY <1>4, <3>1, <3>2, BehindGrows
        <3> QED BY <1>6, <1>8, <3>1, <3>2, <3>3
    <2>3. Paging(r)'
        BY <1>6, <1>8, <1>10, <1>12, <2>1, <2>2 DEF Paging
    <2>4. Exporting(r)'
        BY <1>10, <1>12 DEF Exporting
    <2> QED BY <2>3, <2>4
<1> QED BY <1>2, <1>10, <1>11, <1>12, OneReads

\* The page turned: what it did not show lies behind it.
LEMMA Turned ==
    ASSUME NEW L, IsFiniteSet(L), L \subseteq Nat, NEW had, NEW seen, NEW page \in Nat, page >= 1,
           NEW shown, shown = {n \in L : Rank(n, L) >= FirstRow(page) /\ Rank(n, L) <= page * PageSize},
           Behind(had, seen, page - 1, L)
    PROVE  Behind(had, seen \cup shown, page, L)
<1> SUFFICES ASSUME NEW n \in had \ (seen \cup shown)
             PROVE  n \in L /\ Rank(n, L) > page * PageSize
    BY DEF Behind
<1>1. n \in L /\ Rank(n, L) > (page - 1) * PageSize
    BY DEF Behind
<1>2. PICK a \in Nat, b \in Nat, k \in Nat : a = (page - 1) * PageSize /\ b = page * PageSize /\ k = Rank(n, L)
    <2>1. page - 1 \in Nat /\ PageSize \in Nat
        BY PagingAssumption
    <2>2. (page - 1) * PageSize \in Nat /\ page * PageSize \in Nat
        <3>1. \A x, y \in Nat : x * y \in Nat
            OBVIOUS
        <3> QED BY <2>1, <3>1
    <2>3. Rank(n, L) \in Nat
        BY <1>1, RankFacts
    <2> QED BY <2>2, <2>3
<1>3. k > a
    BY <1>1, <1>2
<1>4. ~(k >= a + 1 /\ k <= b)
    BY <1>1, <1>2 DEF FirstRow
<1>5. k > b
    BY <1>2, <1>3, <1>4
<1> QED BY <1>1, <1>2, <1>5

LEMMA ReadRowsSafe ==
    ASSUME ReadingInv, NEW r \in Readers, ReadRows(r)
    PROVE  ReadingInv'
<1>1. PICK o, t : o = reader[r] /\ t = o.of
    OBVIOUS
<1>2. o \in ReaderType /\ o.at = "rows" /\ t \in Tenancies
    BY <1>1 DEF ReadRows, ReadingInv, ChronologyInv
<1>3. PICK L, S, N : L = Timeline(t, o.refs) /\ S = PageRefs(t) /\ N = Timeline(t, S)
    OBVIOUS
<1>4. /\ L \subseteq Nat /\ IsFiniteSet(L) /\ Cardinality(L) \in Nat
      /\ N \subseteq Nat /\ IsFiniteSet(N)
    BY <1>3, TimelineFinite DEF ReadingInv
<1>5. PICK shown : shown = {n \in L : Rank(n, L) >= FirstRow(o.page) /\ Rank(n, L) <= o.page * PageSize}
    OBVIOUS
<1>6. PICK w : w = IF o.page < o.pages THEN "count" ELSE "read"
    OBVIOUS
<1>7. PICK to : to = PageTurned(o, shown, w)
    OBVIOUS
<1>8. shown \in SUBSET Nat /\ w \in {"count", "read"}
    BY <1>4, <1>5, <1>6
<1>9. /\ to \in ReaderType /\ to.at = w /\ to.of = o.of /\ to.had = o.had
      /\ to.seen = o.seen \cup shown /\ to.page = o.page + 1 /\ to.refs = o.refs
      /\ to.shifted = o.shifted
    BY <1>2, <1>7, <1>8, TurnEdit
<1>10. reader' = [reader EXCEPT ![r] = [o EXCEPT !.seen = @ \cup shown, !.page = @ + 1, !.at = w]]
       /\ UNCHANGED <<records, events, packs>> /\ exported' = exported
    BY <1>1, <1>3, <1>5, <1>6 DEF ReadRows, Reads, Rank
<1>11. reader' = [reader EXCEPT ![r] = to]
    BY <1>7, <1>10 DEF PageTurned
<1>12. o.page \in Nat /\ o.pages \in Nat
    BY <1>2 DEF ReaderType
<1>13. ASSUME reader'[r] = to PROVE Paging(r)' /\ Exporting(r)'
    <2>1. Now(r)' = N
        BY <1>1, <1>3, <1>9, <1>10, <1>13, SameLists DEF Now
    <2>2. ASSUME ~o.shifted
          PROVE  /\ o.page >= 1 /\ o.had \subseteq N /\ L \subseteq N
                 /\ Behind(o.had, o.seen \cup shown, o.page, L) /\ o.page <= o.pages
                 /\ o.page = o.pages => o.had \subseteq L /\ Cardinality(L) <= o.pages * PageSize
        <3>1. /\ o.page >= 1 /\ o.had \subseteq N /\ o.refs \subseteq S /\ o.had \subseteq L
              /\ Behind(o.had, o.seen, o.page - 1, L) /\ o.page <= o.pages
              /\ o.page = o.pages => Cardinality(L) <= o.pages * PageSize
            BY <1>1, <1>2, <1>3, <2>2 DEF ReadingInv, Paging, Now, Then
        <3>2. L \subseteq N
            BY <1>3, <3>1 DEF Timeline, Matches
        <3>3. Behind(o.had, o.seen \cup shown, o.page, L)
            BY <1>4, <1>5, <1>12, <3>1, Turned
        <3> QED BY <3>1, <3>2, <3>3
    <2>3. ASSUME ~o.shifted, w = "count"
          PROVE  Paging(r)'
        <3>1. Behind(o.had, o.seen \cup shown, o.page, N)
            BY <1>4, <1>12, <2>2, <2>3, StillBehind
        <3>2. (o.page + 1) - 1 = o.page /\ o.page + 1 >= 1
            BY <1>12
        <3> QED BY <1>9, <1>13, <2>1, <2>2, <2>3, <3>1, <3>2 DEF Paging
    <2>4. ASSUME ~o.shifted, w = "read"
          PROVE  Paging(r)'
        <3>1. o.page = o.pages
            <4>1. ~(o.page < o.pages)
                BY <1>6, <2>4
            <4> QED BY <1>12, <2>2, <2>4, <4>1
        <3>2. ASSUME NEW n \in o.had \ (o.seen \cup shown) PROVE FALSE
            <4>1. n \in L /\ Rank(n, L) > o.page * PageSize
                BY <2>2, <2>4, <3>2 DEF Behind
            <4>2. Rank(n, L) \in Nat /\ Rank(n, L) <= Cardinality(L)
                BY <1>4, <4>1, RankFacts
            <4>3. Cardinality(L) <= o.page * PageSize
                BY <2>2, <2>4, <3>1
            <4>4. o.page * PageSize \in Nat
                <5>1. o.page <= o.page
                    BY <1>12
                <5> QED BY <1>12, <5>1, Product
            <4> QED BY <1>4, <4>1, <4>2, <4>3, <4>4
        <3>3. o.had \subseteq o.seen \cup shown
            BY <3>2
        <3> QED BY <1>9, <1>13, <2>4, <3>3 DEF Paging
    <2>5. ASSUME o.shifted PROVE Paging(r)'
        BY <1>9, <1>13, <2>5 DEF Paging
    <2>6. Exporting(r)'
        BY <1>8, <1>9, <1>13 DEF Exporting
    <2> QED BY <1>8, <2>3, <2>4, <2>5, <2>6
<1>14. to.at # "log"
    BY <1>8, <1>9
<1> QED BY <1>1, <1>2, <1>9, <1>10, <1>11, <1>13, <1>14, OneReads

LEMMA LeavingSafe ==
    ASSUME ReadingInv, NEW r \in Readers, CloseTimeline(r) \/ Leave(r)
    PROVE  ReadingInv'
<1>1. /\ reader' = [reader EXCEPT ![r] = Away] /\ UNCHANGED <<records, events, packs>>
      /\ exported' = exported
    BY DEF CloseTimeline, Leave, Reads
<1>2. PICK to : to = Away
    OBVIOUS
<1>3. to \in ReaderType /\ to.at = "away"
    BY <1>2, AwayEdit
<1>4. ASSUME reader'[r] = to PROVE Paging(r)' /\ Exporting(r)'
    BY <1>3, <1>4 DEF Paging, Exporting
<1> QED BY <1>1, <1>2, <1>3, <1>4, OneReads

LEMMA BuildPackSafe ==
    ASSUME ReadingInv, NEW r \in Readers, NEW t \in Tenancies, BuildPack(r, t)
    PROVE  ReadingInv'
<1>1. PICK D, T : D = Manifest(t) /\ T = Timeline(t, PackRefs(t))
    OBVIOUS
<1>2. T \in SUBSET Nat /\ D \subseteq Made /\ D \in SUBSET Papers /\ \A d \in D : Belongs(d, t)
    BY <1>1, TimelineTyped, Manifested DEF ReadingInv
<1>3. PICK to : to = Packed(t, T, D)
    OBVIOUS
<1>4. to \in ReaderType /\ to.at = "log" /\ to.of = t /\ to.papers = D /\ to.todo = D
    BY <1>2, <1>3, PackEdit
<1>5. /\ reader' = [reader EXCEPT ![r] = to] /\ UNCHANGED <<records, events, packs>>
      /\ exported' = exported
    BY <1>1, <1>3 DEF BuildPack, Reads, Packed
<1>6. ASSUME reader'[r] = to PROVE Paging(r)' /\ Exporting(r)'
    <2>1. Paging(r)'
        BY <1>4, <1>6 DEF Paging
    <2>2. Made' = Made
        BY <1>5, SameLists
    <2> QED BY <1>2, <1>4, <1>6, <2>1, <2>2 DEF Exporting
<1> QED BY <1>2, <1>4, <1>5, <1>6, OneReads

LEMMA LogExportSafe ==
    ASSUME ReadingInv, NEW r \in Readers, NEW d \in Papers, LogExport(r, d)
    PROVE  ReadingInv'
<1>1. PICK o : o = reader[r]
    OBVIOUS
<1>2. o \in ReaderType /\ o.at = "log" /\ o.of \in Tenancies /\ d \in o.todo
    BY <1>1 DEF LogExport, ReadingInv, ChronologyInv
<1>3. PICK to : to = TakenOff(o, d)
    OBVIOUS
<1>4. /\ to \in ReaderType /\ to.at = o.at /\ to.of = o.of /\ to.papers = o.papers
      /\ to.todo = o.todo \ {d}
    BY <1>2, <1>3, LogEdit
<1>5. /\ reader' = [reader EXCEPT ![r] = to] /\ UNCHANGED <<records, events, packs>>
      /\ exported' = exported \cup {d}
    <2>1. reader' = [reader EXCEPT ![r] = [reader[r] EXCEPT !.todo = @ \ {d}]]
        BY DEF LogExport
    <2> QED BY <1>1, <1>3, <2>1 DEF LogExport, TakenOff
<1>6. /\ o.papers \subseteq Made /\ o.todo \subseteq o.papers /\ o.papers \ o.todo \subseteq exported
      /\ \A x \in o.papers : Belongs(x, o.of)
    BY <1>1, <1>2 DEF ReadingInv, Exporting, Gathered
<1>7. ASSUME reader'[r] = to PROVE Paging(r)' /\ Exporting(r)'
    <2>1. Paging(r)'
        BY <1>2, <1>4, <1>7 DEF Paging
    <2>2. Made' = Made
        BY <1>5, SameLists
    <2> QED BY <1>4, <1>5, <1>6, <1>7, <2>1, <2>2 DEF Exporting
<1> QED BY <1>2, <1>4, <1>5, <1>6, <1>7, OneReads

LEMMA MadeStays == ASSUME Grows PROVE Made \subseteq Made'
BY DEF Grows, Made

LEMMA ExportingStays ==
    ASSUME Grows, exported \subseteq exported', NEW r \in Readers, SameReader(r), Exporting(r)
    PROVE  Exporting(r)'
BY MadeStays DEF Exporting, SameReader

LEMMA WritesKeep ==
    ASSUME ReadingInv, Writes
    PROVE  ReadingInv'
<1>1. ChronologyInv' /\ Wrote
    BY WritesSafe DEF ReadingInv
<1>2. \A r \in Readers : Paging(r)' /\ Exporting(r)'
    BY <1>1, PagingStays, ExportingStays DEF ReadingInv, Wrote, Additive
<1>3. FiledOnMade' /\ Made \subseteq Made'
    BY <1>1, FilingSafe, MadeStays DEF ReadingInv, Gathered, Wrote
<1>4. ASSUME NEW r \in Readers, reader'[r].at = "log"
      PROVE  (\A d \in reader[r].papers : Belongs(d, reader[r].of))'
    <2>1. PICK o : o = reader[r] /\ o.at = "log" /\ reader'[r].papers = o.papers /\ reader'[r].of = o.of
        BY <1>1, <1>4 DEF Wrote, Additive, SameReader
    <2>2. o.papers \subseteq Papers \cap Made /\ \A d \in o.papers : Belongs(d, o.of)
        <3>1. o.papers \subseteq Papers
            BY <2>1 DEF ReadingInv, ChronologyInv, ReaderType
        <3> QED BY <2>1, <3>1 DEF ReadingInv, Exporting, Gathered
    <2>3. \A d \in o.papers : Belongs(d, o.of)'
        BY <1>1, <2>2, BelongsStays DEF ReadingInv, Gathered, Wrote
    <2> QED BY <2>1, <2>3
<1>5. ASSUME NEW p \in packs'
      PROVE  p.papers \subseteq Papers \cap exported' \cap Made' /\ \A d \in p.papers : Belongs(d, p.of)'
    <2>1. p.papers \subseteq Papers \cap exported \cap Made /\ (\A d \in p.papers : Belongs(d, p.of)) /\ exported' = exported
        BY <1>1, <1>5 DEF ReadingInv, Gathered, Wrote
    <2>2. \A d \in p.papers : Belongs(d, p.of)'
        BY <1>1, <2>1, BelongsStays DEF ReadingInv, Gathered, Wrote
    <2> QED BY <1>3, <2>1, <2>2
<1> QED BY <1>1, <1>2, <1>3, <1>4, <1>5 DEF ReadingInv, Gathered

LEMMA TellExportSafe ==
    ASSUME ReadingInv, NEW r \in Readers, TellExport(r)
    PROVE  ReadingInv'
<1>1. PICK o, t : o = reader[r] /\ t = o.of
    OBVIOUS
<1>2. o \in ReaderType /\ o.at = "log" /\ t \in Tenancies /\ o.todo = {}
    BY <1>1 DEF TellExport, LoggedAll, ReadingInv, ChronologyInv
<1>3. PICK e : e = [scope |-> Scope("TENANCY", t), tenancy |-> t, about |-> {t}]
    OBVIOUS
<1>4. PICK p : p = [of |-> t, papers |-> o.papers, found |-> o.found]
    OBVIOUS
<1>5. /\ events' = Append(events, e) /\ reader' = [Later(e) EXCEPT ![r] = Away]
      /\ packs' = packs \cup {p} /\ UNCHANGED <<records, exported>>
    BY <1>1, <1>3, <1>4 DEF TellExport
<1>6. e \in EventType /\ Sound(e)'
    <2>1. e.scope = Scope("TENANCY", t) /\ e.tenancy = t /\ e.about = {t}
        BY <1>3
    <2>2. e \in EventType
        BY <1>2, <1>3 DEF EventType, Places, Scope
    <2>3. OnTenancy(e)'
        BY <1>2, <2>1 DEF OnTenancy
    <2> QED BY <2>2, <2>3 DEF Sound
<1>7. /\ rows' = rows /\ moved' = moved /\ scopeOf' = scopeOf /\ Made' = Made /\ exported' = exported
      /\ RecordsLast' /\ Grows
    BY <1>5 DEF ReadingInv, ChronologyInv, RecordsLast, Grows, records, Made
<1>8. reader'[r] = Away /\ \A q \in Readers \ {r} : reader'[q] = Later(e)[q]
    BY <1>5 DEF Later
<1>9. \A q \in Readers \ {r} : reader'[q] \in ReaderType /\ SameReader(q) /\ Additive(q)
    BY <1>5, <1>6, <1>7, <1>8, LaterSame, LaterAdditive DEF ReadingInv, ChronologyInv
<1>10. ChronologyInv'
    <2>1. reader' \in [Readers -> ReaderType]
        <3>1. DOMAIN reader' = Readers /\ reader' = [q \in Readers |-> reader'[q]]
            BY <1>5 DEF Later
        <3>2. \A q \in Readers : reader'[q] \in ReaderType
            BY <1>8, <1>9, AwayEdit
        <3> QED BY <3>1, <3>2
    <2>2. \A q \in Readers : reader'[q].at # "away" => reader'[q].of \in Tenancies
        BY <1>8, <1>9, AwayEdit DEF SameReader, ReadingInv, ChronologyInv
    <2>3. events' \in Seq(EventType) /\ \A n \in DOMAIN events' : Sound(events[n])'
        BY <1>5, <1>6, <1>7, AppendSound DEF ReadingInv
    <2> QED BY <1>7, <2>1, <2>2, <2>3 DEF ChronologyInv, EventType
<1>11. \A q \in Readers : Paging(q)' /\ Exporting(q)'
    <2>1. Paging(r)' /\ Exporting(r)'
        BY <1>8, AwayEdit DEF Paging, Exporting
    <2>2. ASSUME NEW q \in Readers \ {r} PROVE Paging(q)' /\ Exporting(q)'
        BY <1>7, <1>9, <1>10, PagingStays, ExportingStays DEF ReadingInv
    <2> QED BY <2>1, <2>2
<1>12. \A d, u : Belongs(d, u)' = Belongs(d, u)
    BY <1>7 DEF Belongs, About
<1>13. FiledOnMade'
    BY <1>7 DEF ReadingInv, Gathered, FiledOnMade
<1>14. ASSUME NEW q \in Readers, reader'[q].at = "log"
       PROVE  (\A d \in reader[q].papers : Belongs(d, reader[q].of))'
    <2>1. q # r
        BY <1>8, <1>14, AwayEdit
    <2>2. PICK f : f = reader[q] /\ f.at = "log" /\ reader'[q].papers = f.papers /\ reader'[q].of = f.of
        BY <1>9, <1>14, <2>1 DEF SameReader
    <2>3. \A d \in f.papers : Belongs(d, f.of)
        BY <2>2 DEF ReadingInv, Gathered
    <2> QED BY <1>12, <2>2, <2>3
<1>15. ASSUME NEW k \in packs'
       PROVE  k.papers \subseteq Papers \cap exported' \cap Made' /\ \A d \in k.papers : Belongs(d, k.of)'
    <2>1. CASE k \in packs
        BY <1>7, <1>12, <2>1 DEF ReadingInv, Gathered
    <2>2. CASE k = p
        <3>1. k.papers = o.papers /\ k.of = t
            BY <1>4, <2>2
        <3>2. /\ o.papers \subseteq Made /\ o.papers \ o.todo \subseteq exported
              /\ o.papers \subseteq Papers /\ \A d \in o.papers : Belongs(d, t)
            BY <1>1, <1>2 DEF ReadingInv, Exporting, Gathered, ReaderType
        <3> QED BY <1>2, <1>7, <1>12, <3>1, <3>2
    <2> QED BY <1>5, <1>15, <2>1, <2>2
<1> QED BY <1>10, <1>11, <1>13, <1>14, <1>15 DEF ReadingInv, Gathered

-----------------------------------------------------------------------------
(* The invariant *)

LEMMA ReadingStarts == ChronologyInit => ReadingInv
<1> SUFFICES ASSUME ChronologyInit PROVE ReadingInv
    OBVIOUS
<1>1. RecordsLast
    BY DEF ChronologyInit, RecordsLast
<1>2. /\ reader \in [Readers -> ReaderType] /\ \A r \in Readers : reader[r].at = "away"
    BY AwayEdit DEF ChronologyInit
<1>3. events \in Seq(EventType) /\ DOMAIN events = {}
    BY DEF ChronologyInit
<1>4. ChronologyInv
    BY <1>1, <1>2, <1>3 DEF ChronologyInv, EventType
<1>5. \A r \in Readers : Paging(r) /\ Exporting(r)
    BY <1>2 DEF Paging, Exporting
<1>6. Made = {} /\ packs = {}
    BY DEF ChronologyInit, Made
<1>7. Gathered
    BY <1>2, <1>6 DEF Gathered, FiledOnMade
<1> QED BY <1>4, <1>5, <1>7 DEF ReadingInv

LEMMA ReadingStep == ReadingInv /\ [ChronologyNext]_chronologyVars => ReadingInv'
<1> SUFFICES ASSUME ReadingInv, [ChronologyNext]_chronologyVars PROVE ReadingInv'
    OBVIOUS
<1>1. CASE Writes
    BY <1>1, WritesKeep
<1>2. ASSUME NEW r \in Readers,
             \/ \E t \in Tenancies : OpenTimeline(r, t) \/ BuildPack(r, t)
             \/ CountPages(r) \/ ReadRows(r) \/ CloseTimeline(r)
             \/ \E d \in Papers : LogExport(r, d)
             \/ TellExport(r) \/ Leave(r)
      PROVE  ReadingInv'
    BY <1>2, OpenTimelineSafe, BuildPackSafe, CountPagesSafe, ReadRowsSafe, LeavingSafe, LogExportSafe,
       TellExportSafe
<1>3. CASE UNCHANGED chronologyVars
    <2>1. /\ UNCHANGED <<records, events>> /\ reader' = reader /\ exported' = exported /\ packs' = packs
          /\ RecordsLast' /\ Grows
        BY <1>3 DEF chronologyVars, records, ReadingInv, ChronologyInv, RecordsLast, Grows
    <2>2. reader' \in [Readers -> ReaderType] /\ \A r \in Readers : SameReader(r)
        BY <2>1 DEF ReadingInv, ChronologyInv, SameReader
    <2>3. ChronologyInv'
        BY <2>1, <2>2, QuietSafe DEF ReadingInv
    <2>4. \A r \in Readers : Paging(r)' /\ Exporting(r)'
        BY <2>1, SameLists DEF ReadingInv, Paging, Exporting, Now, Then
    <2>5. Gathered'
        <3>1. FiledOnMade'
            BY <2>1, SameLists DEF ReadingInv, Gathered
        <3>2. \A r \in Readers : reader'[r].at = "log" => (\A d \in reader[r].papers : Belongs(d, reader[r].of))'
            BY <2>1, SameLists DEF ReadingInv, Gathered
        <3>3. \A p \in packs' : p.papers \subseteq Papers \cap exported' \cap Made' /\ \A d \in p.papers : Belongs(d, p.of)'
            BY <2>1, SameLists DEF ReadingInv, Gathered
        <3> QED BY <3>1, <3>2, <3>3 DEF Gathered
    <2> QED BY <2>3, <2>4, <2>5 DEF ReadingInv
<1> QED BY <1>1, <1>2, <1>3 DEF ChronologyNext

-----------------------------------------------------------------------------
(* The chronology is total *)

\* What a tenancy's page lists.
LEMMA PlaceListed ==
    ASSUME RecordsLast, NEW s \in Places, NEW t \in Tenancies
    PROVE  s \in PageRefs(t) <=> s = Scope("TENANCY", t) \/ (s \in rows /\ t \in About(s))
<1>1. \A x : s # Scope("PROOF_REQUEST", x)
    BY PlaceKinds DEF Scope
<1> QED BY <1>1 DEF PageRefs

LEMMA ProofListed ==
    ASSUME RecordsLast, NEW x \in Proofs, NEW t \in Tenancies, scopeOf[x] # None
    PROVE  Scope("PROOF_REQUEST", x) \in PageRefs(t)
               <=> \/ scopeOf[x] = Scope("TENANCY", t)
                   \/ scopeOf[x] \in rows /\ scopeOf[x][1] # "OFFER" /\ t \in About(scopeOf[x])
<1>1. Scope("PROOF_REQUEST", x) \notin rows /\ Scope("PROOF_REQUEST", x) # Scope("TENANCY", t)
    BY DEF RecordsLast, RecordScopes, Scope
<1>2. \A y : Scope("PROOF_REQUEST", y) = Scope("PROOF_REQUEST", x) <=> y = x
    BY DEF Scope
<1>3. x \in Made
    BY DEF Made
<1> QED BY <1>1, <1>2, <1>3 DEF PageRefs

\* A place's record is about the tenancy exactly if the page of the tenancy has it.
LEMMA PlaceKept ==
    ASSUME RecordsLast, NEW s \in Places, NEW t \in Tenancies,
           s[1] \in {"RENEWAL_CASE", "OFFER"} => s \in rows
    PROVE  s = Scope("TENANCY", t) \/ (s \in rows /\ t \in About(s))
               <=> t \in About(s) /\ ~(s[1] = "PAYMENT_ITEM" /\ s \notin rows)
<1>1. CASE s[1] = "TENANCY"
    <2>1. s = Scope("TENANCY", s[2]) /\ About(s) = {s[2]}
        BY <1>1, PlaceKinds, AboutPlain DEF Scope
    <2>2. s[1] # "PAYMENT_ITEM" /\ s \notin rows
        BY <1>1, PlaceKinds DEF RecordsLast
    <2>3. s = Scope("TENANCY", t) <=> s[2] = t
        BY <2>1 DEF Scope
    <2> QED BY <2>1, <2>2, <2>3
<1>2. CASE s[1] = "PROPERTY"
    <2>1. About(s) = {} /\ s # Scope("TENANCY", t)
        BY <1>2, PlaceKinds, AboutPlain DEF Scope
    <2> QED BY <2>1
<1>3. CASE s[1] \in {"RENEWAL_CASE", "OFFER", "PAYMENT_ITEM"}
    <2>1. s # Scope("TENANCY", t)
        BY <1>3 DEF Scope
    <2> QED BY <1>3, <2>1
<1> QED BY <1>1, <1>2, <1>3, PlaceKinds

\* An event under a place, and when the place's page lists it.
LEMMA ListedPlace ==
    ASSUME ChronologyInv, NEW e, NEW t \in Tenancies, e.scope \in Places,
           e.scope[1] \in {"RENEWAL_CASE", "OFFER"} => e.scope \in rows,
           e.about \subseteq About(e.scope) \cup {e.tenancy}, About(e.scope) \subseteq e.about,
           e.tenancy # None => e.tenancy \in e.about,
           e.tenancy # None /\ e.scope[1] = "PAYMENT_ITEM" => e.scope \in rows
    PROVE  Matches(e, t, PageRefs(t)) <=> t \in e.about /\ ~Orphaned(e.scope)
<1>1. PICK s : s = e.scope
    OBVIOUS
<1>2. s[1] # "PROOF_REQUEST"
    BY <1>1, PlaceKinds
<1>3. Orphaned(s) <=> s[1] = "PAYMENT_ITEM" /\ s \notin rows
    BY <1>2 DEF Orphaned
<1>4. s \in PageRefs(t) <=> t \in About(s) /\ ~Orphaned(s)
    BY <1>1, <1>3, PlaceListed, PlaceKept DEF ChronologyInv
<1>5. t # None
    BY ChronologyAssumption
<1>6. Matches(e, t, PageRefs(t)) <=> e.tenancy = t \/ s \in PageRefs(t)
    BY <1>1 DEF Matches
<1>7. e.tenancy = t => t \in e.about /\ ~Orphaned(s)
    BY <1>1, <1>3, <1>5
<1>8. t \in e.about => t \in About(s) \/ e.tenancy = t
    BY <1>1
<1>9. t \in About(s) => t \in e.about
    BY <1>1
<1> QED BY <1>1, <1>4, <1>6, <1>7, <1>8, <1>9

LEMMA ListedProof ==
    ASSUME ChronologyInv, NEW e, NEW t \in Tenancies, OnProof(e)
    PROVE  Matches(e, t, PageRefs(t)) <=> t \in e.about /\ ~Orphaned(e.scope)
<1>1. PICK x \in Proofs : e.scope = Scope("PROOF_REQUEST", x) /\ scopeOf[x] # None
                          /\ e.about = About(e.scope) /\ e.tenancy = None
    BY DEF OnProof
<1>2. PICK s : s = scopeOf[x] /\ s \in Places /\ (s[1] \in {"RENEWAL_CASE", "OFFER"} => s \in rows)
    BY <1>1 DEF ChronologyInv, RecordsLast
<1>3. e.about = About(s)
    BY <1>1, <1>2, AboutProof
<1>4. Matches(e, t, PageRefs(t)) <=> e.scope \in PageRefs(t)
    BY <1>1, ChronologyAssumption DEF Matches
<1>5. e.scope \in PageRefs(t) <=> s = Scope("TENANCY", t) \/ (s \in rows /\ s[1] # "OFFER" /\ t \in About(s))
    BY <1>1, <1>2, ProofListed DEF ChronologyInv
<1>6. Orphaned(e.scope) <=> (s[1] = "PAYMENT_ITEM" /\ s \notin rows) \/ s[1] = "OFFER"
    BY <1>1, <1>2 DEF Orphaned, Scope
<1>7. s = Scope("TENANCY", t) \/ (s \in rows /\ t \in About(s))
          <=> t \in About(s) /\ ~(s[1] = "PAYMENT_ITEM" /\ s \notin rows)
    BY <1>2, PlaceKept DEF ChronologyInv
<1>8. s = Scope("TENANCY", t) => s[1] # "OFFER"
    BY DEF Scope
<1> QED BY <1>1, <1>3, <1>4, <1>5, <1>6, <1>7, <1>8

LEMMA ListedEvent ==
    ASSUME ChronologyInv, NEW e, NEW t \in Tenancies, Sound(e)
    PROVE  Matches(e, t, PageRefs(t)) <=> t \in e.about /\ ~Orphaned(e.scope)
<1>1. ASSUME NEW u \in Tenancies, e.scope = Scope("TENANCY", u), e.about = {u}, e.tenancy \in {None, u}
      PROVE  Matches(e, t, PageRefs(t)) <=> t \in e.about /\ ~Orphaned(e.scope)
    <2>1. e.scope \in Places /\ e.scope[1] = "TENANCY" /\ About(e.scope) = {u}
        BY <1>1, AboutPlain DEF Places, Scope
    <2> QED BY <1>1, <2>1, ListedPlace
<1>2. ASSUME NEW u \in Tenancies, e.scope = Scope("PROPERTY", PropertyOf[u]), e.about = {}, e.tenancy = None
      PROVE  Matches(e, t, PageRefs(t)) <=> t \in e.about /\ ~Orphaned(e.scope)
    <2>1. e.scope \in Places /\ e.scope[1] = "PROPERTY" /\ About(e.scope) = {}
        BY <1>2, AboutPlain DEF Places, Scope
    <2> QED BY <1>2, <2>1, ListedPlace
<1>3. ASSUME NEW k \in Cases, e.scope = Scope("RENEWAL_CASE", k), e.scope \in rows,
             CaseOf[k] \in e.about, e.about \subseteq {CaseOf[k], e.tenancy},
             e.tenancy = None \/ e.tenancy \in e.about
      PROVE  Matches(e, t, PageRefs(t)) <=> t \in e.about /\ ~Orphaned(e.scope)
    <2>1. e.scope \in Places /\ e.scope[1] = "RENEWAL_CASE" /\ About(e.scope) = {CaseOf[k]}
        BY <1>3, AboutPlain DEF Places, RecordScopes, Scope
    <2> QED BY <1>3, <2>1, ListedPlace
<1>4. ASSUME NEW o \in DOMAIN OfferOf, e.scope = Scope("OFFER", o), e.scope \in rows,
             e.about = {CaseOf[OfferOf[o]]}, e.tenancy \in {None, CaseOf[OfferOf[o]]}
      PROVE  Matches(e, t, PageRefs(t)) <=> t \in e.about /\ ~Orphaned(e.scope)
    <2>1. e.scope \in Places /\ e.scope[1] = "OFFER" /\ About(e.scope) = {CaseOf[OfferOf[o]]}
        BY <1>4, AboutPlain DEF Places, RecordScopes, Scope
    <2> QED BY <1>4, <2>1, ListedPlace
<1>5. ASSUME NEW i \in DOMAIN ItemOf, e.scope = Scope("PAYMENT_ITEM", i), e.about = {ItemOf[i]},
             e.tenancy = None \/ (e.tenancy = ItemOf[i] /\ i \in moved)
      PROVE  Matches(e, t, PageRefs(t)) <=> t \in e.about /\ ~Orphaned(e.scope)
    <2>1. e.scope \in Places /\ e.scope[1] = "PAYMENT_ITEM" /\ About(e.scope) = {ItemOf[i]}
        BY <1>5, AboutPlain DEF Places, RecordScopes, Scope
    <2>2. e.tenancy # None => e.scope \in rows
        BY <1>5 DEF ChronologyInv, RecordsLast
    <2> QED BY <1>5, <2>1, <2>2, ListedPlace
<1> QED BY <1>1, <1>2, <1>3, <1>4, <1>5, ListedProof DEF Sound, OnTenancy, OnProperty, OnCase, OnOffer, OnItem

LEMMA InvTotal == ChronologyInv => ChronologyTotal
<1> SUFFICES ASSUME ChronologyInv, NEW t \in Tenancies, NEW n \in DOMAIN events
             PROVE  LET e == events[n]
                    IN  /\ n \in Timeline(t, PageRefs(t)) <=> t \in e.about /\ ~Orphaned(e.scope)
                        /\ n \in Timeline(t, PackRefs(t)) \ Timeline(t, PageRefs(t)) =>
                                e.scope[1] = "PROOF_REQUEST"
                                /\ scopeOf[e.scope[2]] = Scope("PROPERTY", PropertyOf[t])
    BY DEF ChronologyTotal
<1>1. PICK e : e = events[n]
    OBVIOUS
<1>2. Sound(e)
    BY <1>1 DEF ChronologyInv
<1>3. n \in Timeline(t, PageRefs(t)) <=> t \in e.about /\ ~Orphaned(e.scope)
    <2>1. n \in Timeline(t, PageRefs(t)) <=> Matches(e, t, PageRefs(t))
        BY <1>1 DEF Timeline
    <2> QED BY <1>2, <2>1, ListedEvent
<1>4. ASSUME n \in Timeline(t, PackRefs(t)) \ Timeline(t, PageRefs(t))
      PROVE  e.scope[1] = "PROOF_REQUEST" /\ scopeOf[e.scope[2]] = Scope("PROPERTY", PropertyOf[t])
    <2>1. e.scope \in PackRefs(t) \ PageRefs(t)
        BY <1>1, <1>4 DEF Timeline, Matches
    <2>2. PICK x \in Proofs : e.scope = Scope("PROOF_REQUEST", x)
                              /\ scopeOf[x] = Scope("PROPERTY", PropertyOf[t])
        BY <2>1 DEF PackRefs
    <2> QED BY <2>2 DEF Scope
<1> QED BY <1>1, <1>3, <1>4

\* A tenancy's chronology holds every event about it but those that the findings
\* describe, and the pack adds only the requests on its property
\* (evidenceQuery.ts:40-129, 207-257).
THEOREM ChronologyTotalHolds == ChronologySpec => []ChronologyTotal
<1>1. ReadingInv => ChronologyTotal
    BY InvTotal DEF ReadingInv
<1> QED BY <1>1, ReadingStarts, ReadingStep, PTL DEF ChronologySpec

LEMMA InvServed == ReadingInv => ReadersServed
<1> SUFFICES ASSUME ReadingInv PROVE PagesLoseNothing /\ PacksLogged
    BY DEF ReadersServed
<1>1. PagesLoseNothing
    BY DEF PagesLoseNothing, ReadingInv, Paging
<1>2. PacksLogged
    BY DEF PacksLogged, ReadingInv, Gathered, Belongs
<1> QED BY <1>1, <1>2

\* Whoever pages to the end has seen all that was there at the start, and a pack's
\* documents are the tenancy's and in the access log, whoever writes meanwhile
\* (evidenceQuery.ts:137-157, evidencePack.ts:40-72, 111-147).
THEOREM ReadersServedHolds == ChronologySpec => []ReadersServed
BY InvServed, ReadingStarts, ReadingStep, PTL DEF ChronologySpec


-----------------------------------------------------------------------------
(* The tenant's answers and consent *)

Settling == {"apply", "renew", "version", "create", "negotiate", "tell"}
Answered == {"optin", "optinWord", "receipt"}

\* What a request has in hand at each step.
Holds(p) ==
    /\ at[p] \in {"mail", "consume"} => answer[p].link \in Links
    /\ at[p] \in {"consume"} \cup Settling \cup Answered =>
          answer[p].action \in Actions /\ answer[p].offer \in Offers /\ p \in Tenants
    /\ at[p] = "renew" => answer[p].action = "ACCEPT"
    /\ at[p] \in {"version", "create", "negotiate"} => answer[p].action = "COUNTER"
    /\ at[p] \in {"negotiate", "tell"} \cup Answered /\ answer[p].action = "COUNTER" =>
          answer[p].made \in Offers

Shape == \A p \in Requests : Holds(p)

\* The versions of the offers have a last one.
Numbered ==
    /\ \E o \in Offers : \A q \in Offers : offer[q].version <= offer[o].version
    /\ \A o \in Offers : AbsentOffer(o) => offer[o].party = "none" /\ offer[o].version = 0

Holders(l) == {p \in Requests : at[p] \in Settling /\ answer[p].link = l}

Paid ==
    \A l \in Links :
        /\ IsFiniteSet(Holders(l)) /\ link[l].uses <= MaxUses[l]
        /\ toldBy[l] + refused[l] + Cardinality(Holders(l)) <= link[l].uses
        /\ l \notin cutShort => toldBy[l] + refused[l] + Cardinality(Holders(l)) = link[l].uses

\* p has accepted and has not told yet.
Accepting(p) == at[p] \in {"renew", "tell"} /\ answer[p].action = "ACCEPT"
Accepted(o) == offer[o].status = "ACCEPTED"

AcceptedOnce ==
    /\ \A o \in Offers : Accepted(o) => case.decided = o
    /\ \A o \in Offers : tellings[<<"ACCEPT", o>>] <= IF Accepted(o) THEN 1 ELSE 0
    /\ \A p \in Requests : Accepting(p) =>
          /\ Accepted(answer[p].offer) /\ tellings[<<"ACCEPT", answer[p].offer>>] = 0
          /\ \A q \in Requests : Accepting(q) => q = p

\* What is told of an answer, by a request or in a receipt, is so.
Stands(by, is) ==
    /\ is[1] = "ACCEPT" => Accepted(is[2])
    /\ is[1] = "COUNTER" => offer[is[2]].party = "TENANT" /\ offer[is[2]].via = by

RecordedOf(p) ==
    /\ at[p] \in {"negotiate", "tell"} \cup Answered => Stands(answer[p].link, Subject(p))
    /\ at[p] \in Answered => tellings[Subject(p)] > 0

Recorded ==
    /\ \A p \in Requests : RecordedOf(p)
    /\ \A r \in receipts : Stands(r.by, r.is) /\ tellings[r.is] > 0

\* Between a record and its word the records say what the word will.
Consistent ==
    ~crossed /\ cutShort \cap Requests = {} =>
        /\ \A p, q \in Requests : ~(Granting(p) /\ Revoking(q))
        /\ (\E p \in Requests : Granting(p)) => HasConsent
        /\ (\E p \in Requests : Revoking(p)) => ~HasConsent
        /\ (\A p \in Requests : ~Granting(p) /\ ~Revoking(p)) => (HasConsent <=> word = "GRANTED")

-----------------------------------------------------------------------------
(* How a request moves *)

LEMMA NoAnswerTyped == NoAnswer \in Answer
BY DEF NoAnswer, Answer

\* The others stay where they are.
Apart(p) == \A q \in Requests \ {p} : at'[q] = at[q] /\ answer'[q] = answer[q]

LEMMA Leaving ==
    ASSUME TenantTypeOK, NEW p \in Requests, NEW from, GoIdle(p, from)
    PROVE  /\ at' \in [Requests -> Steps] /\ answer' \in [Requests -> Answer]
           /\ at'[p] = "idle" /\ answer'[p] = NoAnswer /\ Apart(p) /\ at[p] = from
BY NoAnswerTyped DEF TenantTypeOK, Goto, GoIdle, Steps, Apart

LEMMA Going ==
    ASSUME TenantTypeOK, NEW p \in Requests, NEW from, NEW to \in Steps, Goto(p, from, to), answer' = answer
    PROVE  /\ at' \in [Requests -> Steps] /\ answer' \in [Requests -> Answer]
           /\ at'[p] = to /\ answer'[p] = answer[p] /\ Apart(p) /\ at[p] = from
BY DEF TenantTypeOK, Goto, Apart

LEMMA Taking ==
    ASSUME TenantTypeOK, NEW p \in Requests, NEW from, NEW to \in Steps, Goto(p, from, to),
           NEW a \in Answer, answer' = [answer EXCEPT ![p] = a]
    PROVE  /\ at' \in [Requests -> Steps] /\ answer' \in [Requests -> Answer]
           /\ at'[p] = to /\ answer'[p] = a /\ Apart(p) /\ at[p] = from
BY DEF TenantTypeOK, Goto, Apart

LEMMA Shaped ==
    ASSUME Shape, NEW p \in Requests, Apart(p), Holds(p)'
    PROVE  Shape'
<1> SUFFICES ASSUME NEW q \in Requests, q # p PROVE Holds(q)'
    BY DEF Shape
<1>1. at'[q] = at[q] /\ answer'[q] = answer[q]
    BY DEF Apart
<1> QED BY <1>1 DEF Shape, Holds

\* A request that has left has nothing in hand.
LEMMA GoneInHand ==
    ASSUME NEW p \in Requests, at'[p] = "idle"
    PROVE  Holds(p)'
BY DEF Holds, Settling, Answered

-----------------------------------------------------------------------------
(* Offers and their versions *)

Status == {"absent", "SENT", "COUNTERED", "SUPERSEDED", "ACCEPTED"}
Offer == [status : Status, version : Nat, party : {"none", "LANDLORD", "TENANT"}, via : Links \cup {Nothing}]

LEMMA Superseding ==
    ASSUME TenantTypeOK, NEW S, NEW new, new = Supersede(S)
    PROVE  /\ new \in [Offers -> Offer]
           /\ \A o \in Offers : /\ new[o].version = offer[o].version
                                /\ new[o].party = offer[o].party /\ new[o].via = offer[o].via
                                /\ new[o].status = "absent" <=> offer[o].status = "absent"
                                /\ new[o].status = "ACCEPTED" <=> offer[o].status = "ACCEPTED"
<1> SUFFICES ASSUME NEW o \in Offers
             PROVE  /\ new[o] \in Offer
                    /\ new[o].version = offer[o].version
                    /\ new[o].party = offer[o].party /\ new[o].via = offer[o].via
                    /\ new[o].status = "absent" <=> offer[o].status = "absent"
                    /\ new[o].status = "ACCEPTED" <=> offer[o].status = "ACCEPTED"
    BY DEF Supersede
<1> DEFINE f == offer[o]
<1>1. f \in Offer
    BY DEF TenantTypeOK, Offer, Status
<1>2. new[o] = IF o \in S /\ IsOpen(o) THEN [f EXCEPT !.status = "SUPERSEDED"] ELSE f
    BY DEF Supersede
<1>3. IsOpen(o) => f.status \in {"SENT", "COUNTERED"}
    BY DEF IsOpen
<1> HIDE DEF f
<1>4. CASE o \in S /\ IsOpen(o)
    BY <1>1, <1>2, <1>3, <1>4 DEF Offer, Status, f
<1>5. CASE ~(o \in S /\ IsOpen(o))
    BY <1>1, <1>2, <1>5 DEF f
<1> QED BY <1>4, <1>5

LEMMA LastIsLast ==
    ASSUME TenantTypeOK, Numbered
    PROVE  /\ LastVersion \in Nat
           /\ \A o \in Offers : offer[o].version <= LastVersion
<1> DEFINE V == {offer[o].version : o \in Offers}
<1>1. PICK o \in Offers : \A q \in Offers : offer[q].version <= offer[o].version
    BY DEF Numbered
<1>2. \E n \in V : \A q \in Offers : offer[q].version <= n
    BY <1>1
<1>3. LastVersion \in V /\ \A q \in Offers : offer[q].version <= LastVersion
    BY <1>2 DEF LastVersion
<1>4. V \subseteq Nat
    BY DEF TenantTypeOK
<1> QED BY <1>3, <1>4

-----------------------------------------------------------------------------
(* Types *)

LEMMA LinkMoves ==
    ASSUME LinkTypeOK
    PROVE  /\ \A l \in Links : Mint(l) \/ Consume(l) => LinkTypeOK'
           /\ \A S : End(S) => LinkTypeOK'
<1>1. ASSUME NEW S, End(S) PROVE LinkTypeOK'
    BY <1>1 DEF LinkTypeOK, Link, End
<1>2. ASSUME NEW l \in Links, Mint(l) PROVE LinkTypeOK'
    BY <1>2 DEF LinkTypeOK, Link, Mint
<1>3. ASSUME NEW l \in Links, Consume(l) PROVE LinkTypeOK'
    BY <1>3 DEF LinkTypeOK, Link, Consume
<1> QED BY <1>1, <1>2, <1>3

\* What changes besides the requests.
tables == <<link, offer, case, renewed, mailed, pages, tellings, toldBy, consent, word, crossed, receipts, refused>>
Tables ==
    /\ LinkTypeOK
    /\ offer \in [Offers -> Offer]
    /\ case \in [status : {"NEGOTIATING", "AGREED"}, decided : Offers \cup {Nothing}, current : Offers \cup {Nothing}]
    /\ renewed \in BOOLEAN /\ mailed \subseteq Links /\ pages \subseteq Links
    /\ tellings \in [Actions \X Offers -> Nat] /\ toldBy \in [Links -> Nat] /\ refused \in [Links -> Nat]
    /\ consent \in Seq(BOOLEAN) /\ word \in {"none", "GRANTED", "REVOKED"} /\ crossed \in BOOLEAN
    /\ receipts \subseteq [by : Links \cup {Nothing}, is : Actions \X Offers]
    /\ Numbered

Typed == TenantTypeOK /\ Numbered
LEMMA TypedIs ==
    /\ Typed <=> Tables /\ at \in [Requests -> Steps] /\ answer \in [Requests -> Answer]
    /\ Typed' <=> Tables' /\ (at \in [Requests -> Steps])' /\ (answer \in [Requests -> Answer])'
<1>1. Typed <=> Tables /\ at \in [Requests -> Steps] /\ answer \in [Requests -> Answer]
    BY DEF Typed, Tables, TenantTypeOK, Offer, Status
<1>2. Typed' <=> Tables' /\ (at \in [Requests -> Steps])' /\ (answer \in [Requests -> Answer])'
    BY DEF Typed, Tables, TenantTypeOK, Offer, Status
<1> QED BY <1>1, <1>2

LEMMA TablesStay == Tables /\ UNCHANGED tables => Tables'
BY DEF Tables, tables, Numbered, AbsentOffer, LinkTypeOK

LEMMA SubjectTyped ==
    ASSUME Typed, Shape, NEW p \in Requests, at[p] \in {"negotiate", "tell"} \cup Answered
    PROVE  Subject(p) \in Actions \X Offers
BY DEF Typed, TenantTypeOK, Shape, Holds, Subject, Settling, Answered, Answer

\* A new row takes the version after the last.
LEMMA Adding ==
    ASSUME Typed, NEW o \in Offers, AbsentOffer(o), NEW S, NEW row \in Offer, row.status # "absent",
           offer' = [Supersede(S) EXCEPT ![o] = row]
    PROVE  (offer \in [Offers -> Offer] /\ Numbered)'
<1>1. PICK new : new = Supersede(S)
    OBVIOUS
<1>2. /\ new \in [Offers -> Offer]
      /\ \A q \in Offers : new[q].version = offer[q].version /\ new[q].party = offer[q].party
      /\ \A q \in Offers : new[q].status = "absent" <=> offer[q].status = "absent"
    BY <1>1, Superseding DEF Typed
<1>3. offer' = [new EXCEPT ![o] = row]
    BY <1>1
<1>4. /\ offer' \in [Offers -> Offer] /\ offer'[o] = row
      /\ \A q \in Offers \ {o} : offer'[q] = new[q]
    BY <1>2, <1>3
<1>5. PICK b \in Offers : \A q \in Offers : offer[q].version <= offer[b].version
    BY DEF Typed, Numbered
<1>6. \A q \in Offers : offer'[q].version \in Nat /\ new[q].version \in Nat
    BY <1>2, <1>4 DEF Offer
<1>7. \A q \in Offers : new[q].version <= new[b].version
    BY <1>2, <1>5
<1>8. \E c \in Offers : \A q \in Offers : offer'[q].version <= offer'[c].version
  <2>1. CASE row.version >= new[b].version
    <3>1. \A q \in Offers : offer'[q].version <= offer'[o].version
        BY <1>4, <1>6, <1>7, <2>1
    <3> QED BY <3>1
  <2>2. CASE ~(row.version >= new[b].version)
    <3>1. b # o
        BY <1>2, <1>6, <2>2 DEF Typed, Numbered, AbsentOffer, Offer
    <3>2. \A q \in Offers : offer'[q].version <= offer'[b].version
        BY <1>4, <1>6, <1>7, <2>2, <3>1
    <3> QED BY <3>2
  <2> QED BY <2>1, <2>2
<1>9. \A q \in Offers : offer'[q].status = "absent" => offer'[q].party = "none" /\ offer'[q].version = 0
    BY <1>2, <1>4 DEF Typed, Numbered, AbsentOffer
<1> QED BY <1>4, <1>8, <1>9 DEF Numbered, AbsentOffer

LEMMA ClosingTables ==
    ASSUME Typed, NEW S, offer' = Supersede(S)
    PROVE  (offer \in [Offers -> Offer] /\ Numbered)'
<1>1. PICK new : new = Supersede(S)
    OBVIOUS
<1>2. /\ new \in [Offers -> Offer]
      /\ \A q \in Offers : new[q].version = offer[q].version /\ new[q].party = offer[q].party
      /\ \A q \in Offers : new[q].status = "absent" <=> offer[q].status = "absent"
    BY <1>1, Superseding DEF Typed
<1>3. offer' = new
    BY <1>1
<1> HIDE DEF Offer
<1> QED BY <1>2, <1>3 DEF Typed, Numbered, AbsentOffer

LEMMA TenantStepTypes ==
    ASSUME TenantAssumption, Typed, Shape, NEW p \in Tenants, TenantStep(p)
    PROVE  (Typed /\ Shape)'
<1>0. p \in Requests /\ answer[p] \in Answer /\ at[p] \in Steps /\ Tables
    BY TypedIs DEF Requests
<1>t. ASSUME Tables', at' \in [Requests -> Steps], answer' \in [Requests -> Answer], Holds(p)', Apart(p)
      PROVE (Typed /\ Shape)'
    BY <1>0, <1>t, TypedIs, Shaped
<1> USE DEF Settling, Answered
<1>1. ASSUME NEW a \in Actions, NEW o \in Offers, NEW l \in Links \cup {Nothing}, NEW b \in BOOLEAN, NEW to \in {"consume", "apply"},
             to = "consume" => l \in Links, Begin(p, a, o, l, b, to)
      PROVE (Typed /\ Shape)'
  <2> DEFINE x == [action |-> a, offer |-> o, link |-> l, optIn |-> b, made |-> Nothing, version |-> 0]
  <2>1. x \in Answer /\ x.action = a /\ x.offer = o /\ x.link = l
      BY DEF Answer
  <2>2. Goto(p, "idle", to) /\ answer' = [answer EXCEPT ![p] = x] /\ UNCHANGED tables
      BY <1>1 DEF Begin, tables, offerVars, timeline, consentVars
  <2>3. to \in Steps
      BY DEF Steps
  <2> HIDE DEF x
  <2>4. /\ at' \in [Requests -> Steps] /\ answer' \in [Requests -> Answer]
        /\ at'[p] = to /\ answer'[p] = x /\ Apart(p)
      BY <1>0, <2>1, <2>2, <2>3, Taking DEF Typed
  <2>5. Holds(p)'
      BY <1>1, <2>1, <2>4 DEF Holds
  <2> QED BY <1>0, <1>t, <2>2, <2>4, <2>5, TablesStay
<1>2. ASSUME NEW l \in Links, NEW a \in Actions, NEW b \in BOOLEAN, AnswerLink(p, l, a, b) PROVE (Typed /\ Shape)'
    BY <1>1, <1>2 DEF AnswerLink, TenantAssumption
<1>3. ASSUME NEW o \in Offers, NEW a \in Actions, AnswerSignedIn(p, o, a) PROVE (Typed /\ Shape)'
    BY <1>1, <1>3 DEF AnswerSignedIn
<1>4. CASE TakeUse(p)
  <2>1. answer[p].link \in Links /\ Goto(p, "consume", "apply") /\ answer' = answer
      BY <1>0, <1>4 DEF TakeUse, Goto, Shape, Holds
  <2>2. /\ at' \in [Requests -> Steps] /\ answer' \in [Requests -> Answer]
        /\ at'[p] = "apply" /\ answer'[p] = answer[p] /\ Apart(p) /\ at[p] = "consume"
      BY <1>0, <2>1, Going DEF Typed, Steps
  <2>3. Holds(p)'
      BY <1>0, <2>2 DEF Shape, Holds
  <2>4. LinkTypeOK'
      BY <1>0, <1>4, <2>1, LinkMoves DEF TakeUse, Tables
  <2>5. Tables'
      BY <1>0, <1>4, <2>4 DEF TakeUse, Tables, Numbered, AbsentOffer, offerVars, timeline, consentVars
  <2> QED BY <1>t, <2>2, <2>3, <2>5
<1>5. ASSUME NEW from, Refuse(p, from) PROVE (Typed /\ Shape)'
  <2>1. /\ at' \in [Requests -> Steps] /\ answer' \in [Requests -> Answer]
        /\ at'[p] = "idle" /\ Apart(p)
      BY <1>0, <1>5, Leaving DEF Refuse, Typed
  <2>2. refused' \in [Links -> Nat]
      BY <1>0, <1>5 DEF Refuse, Tables
  <2>3. Tables'
      BY <1>0, <1>5, <2>2 DEF Refuse, Tables, Numbered, AbsentOffer, offerVars, timeline, consentVars, LinkTypeOK
  <2> QED BY <1>0, <1>t, <2>1, <2>3, GoneInHand
<1>6. CASE NoUse(p)
  <2>1. /\ at' \in [Requests -> Steps] /\ answer' \in [Requests -> Answer]
        /\ at'[p] = "idle" /\ Apart(p)
      BY <1>0, <1>6, Leaving DEF NoUse, Typed
  <2>2. UNCHANGED tables
      BY <1>6 DEF NoUse, tables, offerVars, timeline, consentVars
  <2> QED BY <1>0, <1>t, <2>1, <2>2, GoneInHand, TablesStay
<1>7. CASE AcceptOffer(p)
  <2> DEFINE o == answer[p].offer
  <2>1. /\ Goto(p, "apply", "renew") /\ answer[p].action = "ACCEPT" /\ answer' = answer /\ o \in Offers
        /\ UNCHANGED <<link, renewed, mailed, pages, timeline, consentVars, receipts, refused>>
      BY <1>0, <1>7 DEF AcceptOffer, Goto, Shape, Holds
  <2>2. /\ at' \in [Requests -> Steps] /\ answer' \in [Requests -> Answer]
        /\ at'[p] = "renew" /\ answer'[p] = answer[p] /\ Apart(p) /\ at[p] = "apply"
      BY <1>0, <2>1, Going DEF Typed, Steps
  <2>3. Holds(p)'
      BY <1>0, <2>1, <2>2 DEF Shape, Holds
  <2>4. case' = [status |-> "AGREED", decided |-> o, current |-> o]
      BY <1>7 DEF AcceptOffer
  <2>5. PICK new : new = Supersede(Offers \ {o})
      OBVIOUS
  <2>6. offer' = [new EXCEPT ![o].status = "ACCEPTED"] /\ IsOpen(o)
      BY <1>7, <2>5 DEF AcceptOffer, Acceptable
  <2> HIDE DEF o
  <2>7. /\ new \in [Offers -> Offer]
        /\ \A q \in Offers : new[q].version = offer[q].version /\ new[q].party = offer[q].party
        /\ \A q \in Offers : new[q].status = "absent" <=> offer[q].status = "absent"
      BY <2>5, Superseding DEF Typed
  <2>8. PICK r : r = [new[o] EXCEPT !.status = "ACCEPTED"]
      OBVIOUS
  <2>9. r \in Offer /\ r.version = new[o].version /\ r.status = "ACCEPTED"
      BY <2>1, <2>7, <2>8 DEF Offer, Status
  <2>10. offer' \in [Offers -> Offer] /\ \A q \in Offers : offer'[q] = IF q = o THEN r ELSE new[q]
      BY <2>1, <2>6, <2>7, <2>8, <2>9
  <2>11. \A q \in Offers : /\ offer'[q].version = offer[q].version
                           /\ offer'[q].status = "absent" => offer[q].status = "absent" /\ offer'[q].party = offer[q].party
      BY <2>1, <2>7, <2>9, <2>10
  <2>12. Numbered'
      BY <1>0, <2>11 DEF Tables, Numbered, AbsentOffer
  <2>13. case' \in [status : {"NEGOTIATING", "AGREED"}, decided : Offers \cup {Nothing}, current : Offers \cup {Nothing}]
      BY <2>1, <2>4
  <2>14. Tables'
      BY <1>0, <2>1, <2>10, <2>12, <2>13 DEF Tables, timeline, consentVars, LinkTypeOK
  <2> QED BY <1>t, <2>2, <2>3, <2>14
<1>8. CASE RenewTenancy(p) \/ Ask(p)
  <2>1. /\ Goto(p, at[p], "tell") /\ at[p] \in {"renew", "apply"} /\ (at[p] = "apply" => answer[p].action = "ASK")
        /\ answer' = answer /\ renewed' \in BOOLEAN
        /\ UNCHANGED <<link, offer, case, mailed, pages, timeline, consentVars, receipts, refused>>
      BY <1>0, <1>8 DEF RenewTenancy, Ask, Goto, Tables, offerVars
  <2>2. /\ at' \in [Requests -> Steps] /\ answer' \in [Requests -> Answer]
        /\ at'[p] = "tell" /\ answer'[p] = answer[p] /\ Apart(p)
      BY <1>0, <2>1, Going DEF Typed, Steps
  <2>3. Holds(p)'
      BY <1>0, <2>1, <2>2 DEF Shape, Holds
  <2>4. Tables'
      BY <1>0, <2>1 DEF Tables, Numbered, AbsentOffer, timeline, consentVars, LinkTypeOK
  <2> QED BY <1>t, <2>2, <2>3, <2>4
<1>9. CASE CounterOffer(p)
  <2>1. /\ Goto(p, "apply", "version") /\ answer[p].action = "COUNTER" /\ answer' = answer /\ offer' = Supersede(Offers)
        /\ UNCHANGED <<link, case, renewed, mailed, pages, timeline, consentVars, receipts, refused>>
      BY <1>9 DEF CounterOffer
  <2>2. /\ at' \in [Requests -> Steps] /\ answer' \in [Requests -> Answer]
        /\ at'[p] = "version" /\ answer'[p] = answer[p] /\ Apart(p) /\ at[p] = "apply"
      BY <1>0, <2>1, Going DEF Typed, Steps
  <2>3. Holds(p)'
      BY <1>0, <2>1, <2>2 DEF Shape, Holds
  <2>4. Tables'
      BY <1>0, <2>1, ClosingTables DEF Tables, timeline, consentVars, LinkTypeOK
  <2> QED BY <1>t, <2>2, <2>3, <2>4
<1>10. CASE ReadVersion(p)
  <2>1. PICK x : x = [answer[p] EXCEPT !.version = LastVersion + 1]
      OBVIOUS
  <2>2. /\ x \in Answer /\ x.link = answer[p].link /\ x.action = answer[p].action
        /\ x.offer = answer[p].offer /\ x.made = answer[p].made
      BY <1>0, <2>1, LastIsLast DEF Answer, Typed
  <2>3. Goto(p, "version", "create") /\ answer' = [answer EXCEPT ![p] = x] /\ UNCHANGED tables
      BY <1>10, <2>1 DEF ReadVersion, tables, offerVars, timeline, consentVars
  <2>4. /\ at' \in [Requests -> Steps] /\ answer' \in [Requests -> Answer]
        /\ at'[p] = "create" /\ answer'[p] = x /\ Apart(p) /\ at[p] = "version"
      BY <1>0, <2>2, <2>3, Taking DEF Typed, Steps
  <2>5. Holds(p)'
      BY <1>0, <2>2, <2>4 DEF Shape, Holds
  <2> QED BY <1>0, <1>t, <2>3, <2>4, <2>5, TablesStay
<1>11. CASE CreateCounter(p)
  <2>1. PICK o \in Offers :
           /\ Goto(p, "create", "negotiate") /\ AbsentOffer(o)
           /\ offer' = [offer EXCEPT ![o] = Row("COUNTERED", answer[p].version, "TENANT", answer[p].link)]
           /\ answer' = [answer EXCEPT ![p].made = o]
           /\ UNCHANGED <<link, case, renewed, mailed, pages, timeline, consentVars, receipts, refused>>
      BY <1>11 DEF CreateCounter
  <2>2. PICK x : x = [answer[p] EXCEPT !.made = o]
      OBVIOUS
  <2>3. /\ x \in Answer /\ x.link = answer[p].link /\ x.action = answer[p].action
        /\ x.offer = answer[p].offer /\ x.made = o
      BY <1>0, <2>2 DEF Answer
  <2>4. answer' = [answer EXCEPT ![p] = x] /\ Goto(p, "create", "negotiate")
      BY <2>1, <2>2
  <2>5. /\ at' \in [Requests -> Steps] /\ answer' \in [Requests -> Answer]
        /\ at'[p] = "negotiate" /\ answer'[p] = x /\ Apart(p) /\ at[p] = "create"
      BY <1>0, <2>3, <2>4, Taking DEF Typed, Steps
  <2>6. Holds(p)'
      BY <1>0, <2>3, <2>5 DEF Shape, Holds
  <2>7. PICK row : row = Row("COUNTERED", answer[p].version, "TENANT", answer[p].link)
      OBVIOUS
  <2>8. row \in Offer /\ row.status # "absent"
      BY <1>0, <2>7 DEF Row, Offer, Status, Answer
  <2>9. PICK new : new = Supersede({})
      OBVIOUS
  <2>10. new = offer
      BY <1>0, <2>9 DEF Supersede, Tables
  <2>11. offer' = [Supersede({}) EXCEPT ![o] = row]
      BY <2>1, <2>7, <2>9, <2>10
  <2>12. (offer \in [Offers -> Offer] /\ Numbered)'
      BY <2>1, <2>8, <2>11, Adding
  <2>13. Tables'
      BY <1>0, <2>1, <2>12 DEF Tables, timeline, consentVars, LinkTypeOK
  <2> QED BY <1>t, <2>5, <2>6, <2>13
<1>12. CASE Negotiate(p)
  <2>1. /\ Goto(p, "negotiate", "tell") /\ answer' = answer
        /\ UNCHANGED <<link, offer, renewed, mailed, pages, timeline, consentVars, receipts, refused>>
      BY <1>12 DEF Negotiate
  <2>2. /\ at' \in [Requests -> Steps] /\ answer' \in [Requests -> Answer]
        /\ at'[p] = "tell" /\ answer'[p] = answer[p] /\ Apart(p) /\ at[p] = "negotiate"
      BY <1>0, <2>1, Going DEF Typed, Steps
  <2>3. Holds(p)'
      BY <1>0, <2>2 DEF Shape, Holds
  <2>4. case' \in [status : {"NEGOTIATING", "AGREED"}, decided : Offers \cup {Nothing}, current : Offers \cup {Nothing}]
      BY <1>0, <1>12 DEF Negotiate, Tables, Answer
  <2>5. Tables'
      BY <1>0, <2>1, <2>4 DEF Tables, Numbered, AbsentOffer, timeline, consentVars, LinkTypeOK
  <2> QED BY <1>t, <2>2, <2>3, <2>5
<1>13. CASE TellAnswer(p)
  <2>1. PICK to \in {"optin", "receipt"} : Goto(p, "tell", to)
      BY <1>13 DEF TellAnswer
  <2>2. /\ answer' = answer /\ tellings' = [tellings EXCEPT ![Subject(p)] = @ + 1]
        /\ toldBy' = [l \in Links |-> toldBy[l] + IF l = answer[p].link THEN 1 ELSE 0]
        /\ UNCHANGED <<link, offerVars, mailed, pages, consentVars, receipts, refused>>
      BY <1>13 DEF TellAnswer
  <2>3. /\ at' \in [Requests -> Steps] /\ answer' \in [Requests -> Answer]
        /\ at'[p] = to /\ answer'[p] = answer[p] /\ Apart(p) /\ at[p] = "tell"
      BY <1>0, <2>1, <2>2, Going DEF Typed, Steps
  <2>4. Holds(p)'
      BY <1>0, <2>1, <2>3 DEF Shape, Holds
  <2>5. Subject(p) \in Actions \X Offers
      BY <1>0, <2>3, SubjectTyped
  <2>6. tellings' \in [Actions \X Offers -> Nat] /\ toldBy' \in [Links -> Nat]
      BY <1>0, <2>2, <2>5 DEF Tables
  <2>7. Tables'
      BY <1>0, <2>2, <2>6 DEF Tables, Numbered, AbsentOffer, offerVars, consentVars, LinkTypeOK
  <2> QED BY <1>t, <2>3, <2>4, <2>7
<1>14. CASE OptIn(p) \/ OptInWord(p) \/ OptInFails(p)
  <2>1. PICK to \in {"optinWord", "receipt"} : Goto(p, at[p], to)
      BY <1>0, <1>14 DEF OptIn, OptInWord, OptInFails, Grants, Goto
  <2>2. /\ answer' = answer /\ at[p] \in {"optin", "optinWord"}
        /\ UNCHANGED <<link, offerVars, mailed, pages, timeline, receipts, refused>>
      BY <1>14 DEF OptIn, OptInWord, OptInFails, Grants, Goto, Says
  <2>3. consent' \in Seq(BOOLEAN) /\ word' \in {"none", "GRANTED", "REVOKED"} /\ crossed' \in BOOLEAN
    <3>1. CASE OptIn(p)
        BY <1>0, <3>1 DEF OptIn, Grants, Tables
    <3>2. CASE OptInWord(p)
        BY <1>0, <3>2 DEF OptInWord, Says, Tables
    <3>3. CASE OptInFails(p)
        BY <1>0, <3>3 DEF OptInFails, Tables, consentVars
    <3> QED BY <1>14, <3>1, <3>2, <3>3
  <2>4. /\ at' \in [Requests -> Steps] /\ answer' \in [Requests -> Answer]
        /\ at'[p] = to /\ answer'[p] = answer[p] /\ Apart(p)
      BY <1>0, <2>1, <2>2, Going DEF Typed, Steps
  <2>5. Holds(p)'
      BY <1>0, <2>1, <2>2, <2>4 DEF Shape, Holds
  <2>6. Tables'
      BY <1>0, <2>2, <2>3 DEF Tables, Numbered, AbsentOffer, offerVars, timeline, LinkTypeOK
  <2> QED BY <1>t, <2>4, <2>5, <2>6
<1>15. CASE GiveReceipt(p)
  <2>1. /\ at' \in [Requests -> Steps] /\ answer' \in [Requests -> Answer]
        /\ at'[p] = "idle" /\ Apart(p) /\ at[p] = "receipt"
      BY <1>0, <1>15, Leaving DEF GiveReceipt, Typed
  <2>2. [by |-> answer[p].link, is |-> Subject(p)] \in [by : Links \cup {Nothing}, is : Actions \X Offers]
      BY <1>0, <2>1, SubjectTyped DEF Answer
  <2>3. receipts' \subseteq [by : Links \cup {Nothing}, is : Actions \X Offers]
      BY <1>0, <1>15, <2>2 DEF GiveReceipt, Tables
  <2>4. Tables'
      BY <1>0, <1>15, <2>3 DEF GiveReceipt, Tables, Numbered, AbsentOffer, offerVars, timeline, consentVars, LinkTypeOK
  <2> QED BY <1>0, <1>t, <2>1, <2>4, GoneInHand
<1>16. AcceptRefused(p) \/ CounterRefused(p) \/ VersionTaken(p) => \E from \in Steps : Refuse(p, from)
    BY DEF AcceptRefused, CounterRefused, VersionTaken, Steps
<1> QED BY <1>2, <1>3, <1>4, <1>5, <1>6, <1>7, <1>8, <1>9, <1>10, <1>11, <1>12, <1>13, <1>14, <1>15, <1>16 DEF TenantStep

LEMMA StaffStepTypes ==
    ASSUME TenantAssumption, Typed, Shape, NEW p \in Staff, StaffStep(p)
    PROVE  (Typed /\ Shape)'
<1>0. p \in Requests /\ answer[p] \in Answer /\ at[p] \in Steps /\ Tables
    BY TypedIs DEF Requests
<1>t. ASSUME Tables', at' \in [Requests -> Steps], answer' \in [Requests -> Answer], Holds(p)', Apart(p)
      PROVE (Typed /\ Shape)'
    BY <1>0, <1>t, TypedIs, Shaped
<1> USE DEF Settling, Answered
<1>1. ASSUME NEW l \in Links, MintOffer(p, l) PROVE (Typed /\ Shape)'
  <2>1. PICK x : x = [NoAnswer EXCEPT !.link = l]
      OBVIOUS
  <2>2. x \in Answer /\ x.link = l
      BY <2>1 DEF Answer, NoAnswer
  <2>3. Goto(p, "idle", "mail") /\ answer' = [answer EXCEPT ![p] = x] /\ Mint(l)
      BY <1>1, <2>1 DEF MintOffer
  <2>4. /\ at' \in [Requests -> Steps] /\ answer' \in [Requests -> Answer]
        /\ at'[p] = "mail" /\ answer'[p] = x /\ Apart(p)
      BY <1>0, <2>2, <2>3, Taking DEF Typed, Steps
  <2>5. Holds(p)'
      BY <2>2, <2>4 DEF Holds
  <2>6. LinkTypeOK'
      BY <1>0, <2>3, LinkMoves DEF Tables
  <2>7. Tables'
      BY <1>0, <1>1, <2>6 DEF MintOffer, Tables, Numbered, AbsentOffer, offerVars, timeline, consentVars
  <2> QED BY <1>t, <2>4, <2>5, <2>7
<1>2. CASE MailOffer(p)
  <2>1. /\ at' \in [Requests -> Steps] /\ answer' \in [Requests -> Answer]
        /\ at'[p] = "idle" /\ Apart(p) /\ at[p] = "mail"
      BY <1>0, <1>2, Leaving DEF MailOffer, Typed
  <2>2. answer[p].link \in Links
      BY <1>0, <2>1 DEF Shape, Holds
  <2>3. Tables'
      BY <1>0, <1>2, <2>2 DEF MailOffer, Tables, Numbered, AbsentOffer, offerVars, timeline, consentVars, LinkTypeOK
  <2> QED BY <1>0, <1>t, <2>1, <2>3, GoneInHand
<1>3. CASE GrantWord(p) \/ RevokeWord(p)
  <2>1. PICK w \in {"GRANTED", "REVOKED"} : GoIdle(p, at[p]) /\ Says(p, w)
      BY <1>3 DEF GrantWord, RevokeWord, GoIdle, Goto
  <2>2. /\ at' \in [Requests -> Steps] /\ answer' \in [Requests -> Answer]
        /\ at'[p] = "idle" /\ Apart(p)
      BY <1>0, <2>1, Leaving DEF Typed
  <2>3. Tables'
      BY <1>0, <2>1 DEF Says, Tables, Numbered, AbsentOffer, offerVars, timeline, LinkTypeOK
  <2> QED BY <1>0, <1>t, <2>2, <2>3, GoneInHand
<1>4. CASE Grant(p) \/ Revoke(p)
  <2>1. PICK to \in {"grantWord", "revokeWord"} : Goto(p, "idle", to)
      BY <1>4 DEF Grant, Grants, Revoke
  <2>2. answer' = answer /\ UNCHANGED <<link, offerVars, mailed, pages, timeline, word, receipts, refused>>
      BY <1>4 DEF Grant, Grants, Revoke
  <2>3. consent' \in Seq(BOOLEAN)
    <3>1. CASE Grant(p)
        BY <1>0, <3>1 DEF Grant, Grants, Tables
    <3>2. CASE Revoke(p)
      <4>1. consent' = [n \in 1..Len(consent) |-> FALSE] /\ Len(consent) \in Nat
          BY <1>0, <3>2 DEF Revoke, AllRevoked, Tables
      <4> QED BY <4>1
    <3> QED BY <1>4, <3>1, <3>2
  <2>4. crossed' \in BOOLEAN
      BY <1>0, <1>4 DEF Grant, Grants, Revoke, Tables
  <2>5. /\ at' \in [Requests -> Steps] /\ answer' \in [Requests -> Answer]
        /\ at'[p] = to /\ answer'[p] = answer[p] /\ Apart(p)
      BY <1>0, <2>1, <2>2, Going DEF Typed, Steps
  <2>6. Holds(p)'
      BY <2>5 DEF Holds
  <2>7. Tables'
      BY <1>0, <2>2, <2>3, <2>4 DEF Tables, Numbered, AbsentOffer, offerVars, timeline, LinkTypeOK
  <2> QED BY <1>t, <2>5, <2>6, <2>7
<1> QED BY <1>1, <1>2, <1>3, <1>4 DEF StaffStep

LEMMA DieTypes ==
    ASSUME Typed, Shape, NEW p \in Requests, Die(p)
    PROVE  (Typed /\ Shape)'
<1>1. /\ at' \in [Requests -> Steps] /\ answer' \in [Requests -> Answer]
      /\ at'[p] = "idle" /\ Apart(p)
    BY Leaving DEF Die, Typed
<1>2. UNCHANGED tables
    BY DEF Die, tables, offerVars, timeline, consentVars
<1>3. Shape'
    BY <1>1, Shaped, GoneInHand
<1> QED BY <1>1, <1>2, <1>3, TypedIs, TablesStay

LEMMA AroundTypes ==
    ASSUME TenantAssumption, Typed, Shape,
           Propose \/ (\E l \in Links : OpenOfferPage(l) \/ LinkEnds(l)) \/ UNCHANGED tenantVars
    PROVE  (Typed /\ Shape)'
<1>0. Tables /\ at \in [Requests -> Steps] /\ answer \in [Requests -> Answer]
    BY TypedIs
<1>1. at' = at /\ answer' = answer
  <2>1. CASE Propose
      BY <2>1, Zenon DEF Propose
  <2>2. CASE \E l \in Links : OpenOfferPage(l) \/ LinkEnds(l)
      BY <2>2 DEF OpenOfferPage, LinkEnds
  <2>3. CASE UNCHANGED tenantVars
      BY <2>3 DEF tenantVars
  <2> QED BY <2>1, <2>2, <2>3
<1>2. Shape'
    BY <1>1 DEF Shape, Holds
<1>3. CASE Propose
  <2>1. PICK o \in Offers :
           /\ AbsentOffer(o)
           /\ offer' = [Supersede(Offers) EXCEPT ![o] = Row("SENT", LastVersion + 1, "LANDLORD", Nothing)]
           /\ case' = [case EXCEPT !.status = "NEGOTIATING", !.current = o]
           /\ UNCHANGED <<link, renewed, mailed, pages, timeline, consentVars, at, answer, receipts, refused, cutShort>>
      BY <1>3, Zenon DEF Propose
  <2>2. PICK row : row = Row("SENT", LastVersion + 1, "LANDLORD", Nothing)
      OBVIOUS
  <2>3. row \in Offer /\ row.status # "absent"
      BY <2>2, LastIsLast DEF Row, Offer, Status, Typed
  <2>4. offer' = [Supersede(Offers) EXCEPT ![o] = row]
      BY <2>1, <2>2
  <2>5. (offer \in [Offers -> Offer] /\ Numbered)'
      BY <2>1, <2>3, <2>4, Adding
  <2>6. case' \in [status : {"NEGOTIATING", "AGREED"}, decided : Offers \cup {Nothing}, current : Offers \cup {Nothing}]
      BY <1>0, <2>1 DEF Tables
  <2>7. Tables'
      BY <1>0, <2>1, <2>5, <2>6 DEF Tables, timeline, consentVars, LinkTypeOK
  <2> QED BY <1>0, <1>1, <1>2, <2>7, TypedIs
<1>4. ASSUME NEW l \in Links, LinkEnds(l) PROVE (Typed /\ Shape)'
  <2>1. LinkTypeOK'
      BY <1>0, <1>4, LinkMoves DEF LinkEnds, Tables
  <2>2. Tables'
      BY <1>0, <1>4, <2>1 DEF LinkEnds, Tables, Numbered, AbsentOffer, offerVars, timeline, consentVars
  <2> QED BY <1>0, <1>1, <1>2, <2>2, TypedIs
<1>5. ASSUME NEW l \in Links, OpenOfferPage(l) PROVE (Typed /\ Shape)'
  <2>1. Tables'
      BY <1>0, <1>5 DEF OpenOfferPage, Tables, Numbered, AbsentOffer, offerVars, timeline, consentVars, LinkTypeOK
  <2> QED BY <1>0, <1>1, <1>2, <2>1, TypedIs
<1>6. CASE UNCHANGED tenantVars
  <2>1. UNCHANGED tables
      BY <1>6 DEF tenantVars, tables, offerVars, timeline, consentVars
  <2> QED BY <1>0, <1>1, <1>2, <2>1, TypedIs, TablesStay
<1> QED BY <1>3, <1>4, <1>5, <1>6

LEMMA TypeStep == TenantAssumption /\ Typed /\ Shape /\ [TenantNext]_tenantVars => (Typed /\ Shape)'
BY TenantStepTypes, StaffStepTypes, DieTypes, AroundTypes DEF TenantNext

LEMMA TypeInit == TenantAssumption /\ TenantInit => Typed /\ Shape
<1> SUFFICES ASSUME TenantAssumption, TenantInit PROVE Typed /\ Shape
    OBVIOUS
<1>1. Sent \in Offers
    BY DEF TenantAssumption
<1>2. offer \in [Offers -> Offer] /\ LinkTypeOK
    BY DEF TenantInit, Row, Offer, Status, LinkInit, LinkTypeOK, Link
<1>3. \A q \in Offers : /\ offer[q].version <= offer[Sent].version
                        /\ offer[q].status = "absent" => offer[q].party = "none" /\ offer[q].version = 0
    BY <1>1 DEF TenantInit, Row
<1>4. Numbered
    BY <1>1, <1>3 DEF Numbered, AbsentOffer
<1>5. Tables
  <2>1. case \in [status : {"NEGOTIATING", "AGREED"}, decided : Offers \cup {Nothing}, current : Offers \cup {Nothing}]
      BY <1>1 DEF TenantInit
  <2>2. /\ tellings \in [Actions \X Offers -> Nat] /\ toldBy \in [Links -> Nat] /\ refused \in [Links -> Nat]
        /\ consent \in Seq(BOOLEAN)
      BY DEF TenantInit
  <2> QED BY <1>2, <1>4, <2>1, <2>2 DEF TenantInit, Tables
<1>6. at \in [Requests -> Steps] /\ answer \in [Requests -> Answer]
    BY NoAnswerTyped DEF TenantInit, Steps
<1>7. Shape
    BY DEF TenantInit, Shape, Holds, Settling, Answered
<1> QED BY <1>5, <1>6, <1>7, TypedIs

LEMMA TypesHold == ASSUME TenantAssumption PROVE TenantSpec => [](Typed /\ Shape)
<1>1. TenantInit => Typed /\ Shape
    BY TypeInit
<1>2. Typed /\ Shape /\ [TenantNext]_tenantVars => (Typed /\ Shape)'
    BY TypeStep
<1> QED BY <1>1, <1>2, PTL DEF TenantSpec

\* The offers, the case, what the tenant was told and each request keep their
\* types through answers and consents in any order (renewals.ts, consent.ts).
THEOREM TenantTypeCorrect == ASSUME TenantAssumption PROVE TenantSpec => []TenantTypeOK
BY TypesHold, PTL DEF Typed

-----------------------------------------------------------------------------
(* Consent *)

Words == {"optinWord", "grantWord", "revokeWord"}

\* Nothing is recorded or said, and nobody comes or goes between the two, unless cut off.
Quiet ==
    /\ consent' = consent /\ word' = word /\ crossed' = crossed /\ cutShort \subseteq cutShort'
    /\ cutShort' \cap Requests = {} =>
          \A q \in Requests : (Granting(q)' <=> Granting(q)) /\ (Revoking(q)' <=> Revoking(q))

LEMMA Quietly ==
    ASSUME Typed, NEW p \in Requests, NEW from, NEW to, Goto(p, from, to),
           from \notin Words, to \notin Words
    PROVE  \A q \in Requests : (Granting(q)' <=> Granting(q)) /\ (Revoking(q)' <=> Revoking(q))
BY DEF Typed, TenantTypeOK, Goto, Words, Granting, Revoking

LEMMA ConsentMoves ==
    ASSUME Typed, [TenantNext]_tenantVars
    PROVE  \/ Quiet
           \/ \E p \in Requests : OptIn(p) \/ Grant(p)
           \/ \E p \in Requests : OptInWord(p) \/ GrantWord(p)
           \/ \E p \in Requests : Revoke(p) \/ RevokeWord(p)
<1>1. ASSUME Propose \/ (\E l \in Links : OpenOfferPage(l) \/ LinkEnds(l)) \/ UNCHANGED tenantVars PROVE Quiet
  <2>1. consent' = consent /\ word' = word /\ crossed' = crossed /\ cutShort' = cutShort /\ at' = at
    <3>1. CASE Propose
        BY <3>1, Zenon DEF Propose, consentVars
    <3>2. CASE \E l \in Links : OpenOfferPage(l) \/ LinkEnds(l)
        BY <3>2 DEF OpenOfferPage, LinkEnds, consentVars
    <3>3. CASE UNCHANGED tenantVars
        BY <3>3 DEF tenantVars, consentVars
    <3> QED BY <1>1, <3>1, <3>2, <3>3
  <2> QED BY <2>1 DEF Quiet, Granting, Revoking
<1>2. ASSUME NEW p \in Requests, Die(p) PROVE Quiet
  <2>1. consent' = consent /\ word' = word /\ crossed' = crossed /\ cutShort \subseteq cutShort' /\ Goto(p, at[p], "idle")
      BY <1>2 DEF Die, GoIdle, consentVars
  <2>2. CASE Granting(p) \/ Revoking(p)
      BY <1>2, <2>1, <2>2 DEF Die, Quiet
  <2>3. CASE ~(Granting(p) \/ Revoking(p))
    <3>1. at[p] \notin Words
        BY <2>3 DEF Words, Granting, Revoking
    <3> QED BY <2>1, <3>1, Quietly DEF Quiet, Words
  <2> QED BY <2>2, <2>3
<1>3. ASSUME NEW p \in Requests, OptInFails(p) PROVE Quiet
  <2>1. consent' = consent /\ word' = word /\ crossed' = crossed /\ Goto(p, at[p], "receipt")
      BY <1>3 DEF OptInFails, consentVars
  <2>2. CASE at[p] = "optinWord"
      BY <1>3, <2>1, <2>2 DEF OptInFails, Quiet
  <2>3. CASE at[p] = "optin"
    <3>1. cutShort' = cutShort
        BY <1>3, <2>3 DEF OptInFails
    <3> QED BY <2>1, <2>3, <3>1, Quietly DEF Quiet, Words
  <2> QED BY <1>3, <2>2, <2>3 DEF OptInFails
<1>4. ASSUME NEW p \in Requests, NEW from, NEW to, Goto(p, from, to), from \notin Words, to \notin Words,
             UNCHANGED <<consentVars, cutShort>>
      PROVE  Quiet
    BY <1>4, Quietly DEF Quiet, consentVars
<1> Tenants \subseteq Requests /\ Staff \subseteq Requests
    BY DEF Requests
<1>5. ASSUME NEW p \in Tenants, TenantStep(p), ~OptIn(p), ~OptInWord(p) PROVE Quiet
  <2>1. ASSUME NEW from, Refuse(p, from), from \notin Words PROVE Quiet
      BY <2>1, <1>4 DEF Refuse, GoIdle, Words
  <2>2. CASE AcceptRefused(p) \/ CounterRefused(p) \/ VersionTaken(p)
      BY <2>2, <2>1 DEF AcceptRefused, CounterRefused, VersionTaken, Words
  <2>3. ASSUME NEW a, NEW o, NEW l, NEW b, NEW to \in {"consume", "apply"}, Begin(p, a, o, l, b, to) PROVE Quiet
      BY <2>3, <1>4 DEF Begin, Words
  <2>4. CASE \/ \E l \in Links, a \in Actions, optIn \in BOOLEAN : AnswerLink(p, l, a, optIn)
             \/ \E o \in Offers, a \in Actions : AnswerSignedIn(p, o, a)
      BY <2>3, <2>4 DEF AnswerLink, AnswerSignedIn
  <2>5. CASE TakeUse(p) \/ NoUse(p) \/ GiveReceipt(p)
      BY <2>5, <1>4 DEF TakeUse, NoUse, GiveReceipt, GoIdle, Words
  <2>6. CASE AcceptOffer(p)
      BY <2>6, <1>4 DEF AcceptOffer, Words
  <2>7. CASE RenewTenancy(p) \/ Negotiate(p) \/ Ask(p)
      BY <2>7, <1>4 DEF RenewTenancy, Negotiate, Ask, Words
  <2>8. CASE CounterOffer(p) \/ ReadVersion(p)
      BY <2>8, <1>4 DEF CounterOffer, ReadVersion, Words
  <2>9. CASE CreateCounter(p)
      BY <2>9, <1>4 DEF CreateCounter, Words
  <2>10. CASE TellAnswer(p)
    <3>1. PICK to \in {"optin", "receipt"} : Goto(p, "tell", to) /\ UNCHANGED <<consentVars, cutShort>>
        BY <2>10 DEF TellAnswer
    <3> QED BY <3>1, <1>4 DEF Words
  <2> QED BY <1>5, <1>3, <2>2, <2>4, <2>5, <2>6, <2>7, <2>8, <2>9, <2>10 DEF TenantStep
<1>6. ASSUME NEW p \in Staff, StaffStep(p), ~Grant(p), ~GrantWord(p), ~Revoke(p), ~RevokeWord(p) PROVE Quiet
  <2>1. ASSUME NEW l \in Links, MintOffer(p, l) PROVE Quiet
      BY <2>1, <1>4 DEF MintOffer, Words
  <2>2. CASE MailOffer(p)
      BY <2>2, <1>4 DEF MailOffer, GoIdle, Words
  <2> QED BY <1>6, <2>1, <2>2 DEF StaffStep
<1> QED BY <1>1, <1>2, <1>5, <1>6 DEF TenantNext

LEMMA ConsistentStep == Typed /\ Consistent /\ [TenantNext]_tenantVars => Consistent'
<1> SUFFICES ASSUME Typed, Consistent, [TenantNext]_tenantVars, ~crossed', cutShort' \cap Requests = {} PROVE Consistent'
    BY DEF Consistent
<1>0. at \in [Requests -> Steps] /\ consent \in Seq(BOOLEAN)
    BY DEF Typed, TenantTypeOK
<1>1. CASE Quiet
    BY <1>1 DEF Quiet, Consistent, HasConsent
<1>2. ASSUME NEW p \in Requests, OptIn(p) \/ Grant(p) PROVE Consistent'
  <2>1. PICK from, to : Grants(p, from, to) /\ to \in {"optinWord", "grantWord"} /\ from \notin Words /\ cutShort' = cutShort
      BY <1>2 DEF OptIn, Grant, Grants, Words
  <2>2. consent' = Append(consent, TRUE) /\ ~crossed /\ \A q \in Requests : ~Revoking(q)
      BY <2>1 DEF Grants
  <2>3. \A q \in Requests : ~Revoking(q)'
      BY <1>0, <2>1, <2>2 DEF Grants, Goto, Revoking
  <2>4. Granting(p)'
      BY <1>0, <2>1 DEF Grants, Goto, Granting
  <2>5. HasConsent'
    <3>1. Len(consent) + 1 \in DOMAIN consent' /\ consent'[Len(consent) + 1] = TRUE
        BY <1>0, <2>2
    <3> QED BY <3>1 DEF HasConsent
  <2> QED BY <2>3, <2>4, <2>5 DEF Consistent
<1>3. ASSUME NEW p \in Requests, OptInWord(p) \/ GrantWord(p) PROVE Consistent'
  <2>1. PICK to \in {"receipt", "idle"} : Goto(p, at[p], to)
      BY <1>3 DEF OptInWord, GrantWord, GoIdle, Goto
  <2>2. /\ Granting(p) /\ word' = "GRANTED" /\ consent' = consent /\ crossed' = crossed /\ cutShort' = cutShort
      BY <1>3 DEF OptInWord, GrantWord, GoIdle, Goto, Says, Granting
  <2>3. HasConsent /\ \A q \in Requests : ~Revoking(q)
      BY <2>2 DEF Consistent
  <2>4. HasConsent' /\ \A q \in Requests : ~Revoking(q)'
      BY <1>0, <2>1, <2>2, <2>3 DEF HasConsent, Revoking, Goto
  <2> QED BY <2>2, <2>4 DEF Consistent
<1>4. ASSUME NEW p \in Requests, Revoke(p) PROVE Consistent'
  <2>1. /\ Goto(p, "idle", "revokeWord") /\ consent' = AllRevoked /\ ~crossed
        /\ \A q \in Requests : ~Granting(q)
      BY <1>4 DEF Revoke
  <2>2. Revoking(p)' /\ \A q \in Requests : ~Granting(q)'
      BY <1>0, <2>1 DEF Goto, Revoking, Granting
  <2>3. ~HasConsent'
      BY <2>1 DEF HasConsent, AllRevoked
  <2> QED BY <2>2, <2>3 DEF Consistent
<1>5. ASSUME NEW p \in Requests, RevokeWord(p) PROVE Consistent'
  <2>1. /\ Goto(p, "revokeWord", "idle") /\ Revoking(p) /\ word' = "REVOKED" /\ consent' = consent
        /\ crossed' = crossed /\ cutShort' = cutShort
      BY <1>5 DEF RevokeWord, GoIdle, Goto, Says, Revoking
  <2>2. ~HasConsent /\ \A q \in Requests : ~Granting(q)
      BY <2>1 DEF Consistent
  <2>3. ~HasConsent' /\ \A q \in Requests : ~Granting(q)'
      BY <1>0, <2>1, <2>2 DEF HasConsent, Granting, Goto
  <2> QED BY <2>1, <2>3 DEF Consistent
<1> QED BY <1>1, <1>2, <1>3, <1>4, <1>5, ConsentMoves

LEMMA ConsistentInit == TenantInit => Consistent
BY DEF TenantInit, Consistent, Granting, Revoking, HasConsent

\* Once nobody is between a record and its word, the timeline's last word on the
\* tenant's consent is what the delivery gate finds (consent.ts:36-125), unless a
\* grant and a revocation met or one was cut off.
THEOREM ConsentHeldHolds == ASSUME TenantAssumption PROVE TenantSpec => []ConsentHeld
<1>1. Consistent => ConsentHeld
    BY DEF Consistent, ConsentHeld
<1>2. Typed /\ Consistent /\ [TenantNext]_tenantVars => Consistent'
    BY ConsistentStep
<1> QED BY <1>1, <1>2, ConsistentInit, TypesHold, PTL DEF TenantSpec

-----------------------------------------------------------------------------
(* A link pays for its answers *)

\* Nothing takes a use, settles an answer or is cut off in one.
Even ==
    /\ \A l \in Links : link'[l].uses = link[l].uses /\ Holders(l)' = Holders(l)
    /\ toldBy' = toldBy /\ refused' = refused /\ cutShort \subseteq cutShort'

\* p has told its answer or was refused it.
Gave(p) ==
    /\ at[p] \in Settling /\ at'[p] \notin Settling /\ Apart(p) /\ link' = link /\ cutShort \subseteq cutShort'
    /\ \A l \in Links : toldBy'[l] + refused'[l] = toldBy[l] + refused[l] + IF l = answer[p].link THEN 1 ELSE 0

\* p was cut off before.
Lost(p) ==
    /\ at[p] \in Settling /\ at'[p] \notin Settling /\ Apart(p) /\ link' = link
    /\ toldBy' = toldBy /\ refused' = refused /\ cutShort \cup {answer[p].link} \subseteq cutShort'

Holding(p, l) == at[p] \in Settling /\ answer[p].link = l

LEMMA EvenHolders ==
    ASSUME NEW p \in Requests, Apart(p), NEW l \in Links, Holding(p, l)' <=> Holding(p, l)
    PROVE  Holders(l)' = Holders(l)
BY DEF Apart, Holding, Holders

LEMMA EndKeepsUses ==
    ASSUME LinkTypeOK, NEW S, End(S)
    PROVE  \A l \in Links : link'[l].uses = link[l].uses
BY DEF LinkTypeOK, Link, End

LEMMA MintKeepsUses ==
    ASSUME LinkTypeOK, NEW m \in Links, Mint(m)
    PROVE  \A l \in Links : link'[l].uses = link[l].uses
BY DEF LinkTypeOK, Link, Mint

LEMMA PayMoves ==
    ASSUME TenantAssumption, Typed, Shape, [TenantNext]_tenantVars
    PROVE  \/ Even
           \/ \E p \in Tenants : TakeUse(p)
           \/ \E p \in Requests : Gave(p) \/ Lost(p)
<1>0. LinkTypeOK /\ at \in [Requests -> Steps] /\ answer \in [Requests -> Answer]
    BY DEF Typed, TenantTypeOK
<1>n. Nothing \notin Links
    BY DEF TenantAssumption
<1>e. ASSUME NEW p \in Requests, Apart(p), \A l \in Links : link'[l].uses = link[l].uses,
             UNCHANGED <<toldBy, refused>>, cutShort \subseteq cutShort',
             \A l \in Links : Holding(p, l)' <=> Holding(p, l)
      PROVE  Even
    BY <1>e, EvenHolders DEF Even
<1>1. ASSUME Propose \/ (\E l \in Links : OpenOfferPage(l) \/ LinkEnds(l)) \/ UNCHANGED tenantVars PROVE Even
  <2>1. at' = at /\ answer' = answer /\ toldBy' = toldBy /\ refused' = refused /\ cutShort' = cutShort
    <3>1. CASE Propose
        BY <3>1, Zenon DEF Propose, timeline
    <3>2. CASE \E l \in Links : OpenOfferPage(l) \/ LinkEnds(l)
        BY <3>2 DEF OpenOfferPage, LinkEnds, timeline
    <3>3. CASE UNCHANGED tenantVars
        BY <3>3 DEF tenantVars, timeline
    <3> QED BY <1>1, <3>1, <3>2, <3>3
  <2>2. \A l \in Links : link'[l].uses = link[l].uses
    <3>1. CASE Propose
        BY <3>1, Zenon DEF Propose
    <3>2. CASE \E l \in Links : OpenOfferPage(l) \/ LinkEnds(l)
        BY <1>0, <3>2, EndKeepsUses DEF OpenOfferPage, LinkEnds
    <3>3. CASE UNCHANGED tenantVars
        BY <3>3 DEF tenantVars
    <3> QED BY <1>1, <3>1, <3>2, <3>3
  <2> QED BY <2>1, <2>2 DEF Even, Holders
<1>2. ASSUME NEW p \in Requests, Die(p) PROVE Even \/ Lost(p)
  <2>1. at'[p] = "idle" /\ Apart(p)
      BY <1>2, Leaving DEF Die, Typed
  <2>2. link' = link /\ UNCHANGED <<toldBy, refused>> /\ cutShort \cup {answer[p].link} \subseteq cutShort'
      BY <1>2 DEF Die, timeline
  <2>3. CASE at[p] \in Settling
      BY <2>1, <2>2, <2>3 DEF Lost, Settling
  <2>4. CASE at[p] \notin Settling
      BY <1>e, <2>1, <2>2, <2>4 DEF Holding, Settling
  <2> QED BY <2>3, <2>4
<1> Tenants \subseteq Requests /\ Staff \subseteq Requests
    BY DEF Requests
<1>k. ASSUME NEW p \in Requests, NEW from, NEW to \in Steps, Goto(p, from, to), answer' = answer,
             from \in Settling <=> to \in Settling, UNCHANGED <<link, toldBy, refused>>, cutShort \subseteq cutShort'
      PROVE  Even
  <2>1. at'[p] = to /\ answer'[p] = answer[p] /\ Apart(p) /\ at[p] = from
      BY <1>k, Going DEF Typed
  <2> QED BY <1>e, <1>k, <2>1 DEF Holding
<1>l. ASSUME NEW p \in Requests, NEW from, GoIdle(p, from), from \notin Settling,
             UNCHANGED <<link, toldBy, refused>>, cutShort \subseteq cutShort'
      PROVE  Even
  <2>1. at'[p] = "idle" /\ Apart(p) /\ at[p] = from
      BY <1>l, Leaving DEF Typed
  <2> QED BY <1>e, <1>l, <2>1 DEF Holding, Settling
<1>3. ASSUME NEW p \in Tenants, TenantStep(p), ~TakeUse(p) PROVE Even \/ Gave(p)
  <2>0. toldBy \in [Links -> Nat] /\ refused \in [Links -> Nat]
      BY DEF Typed, TenantTypeOK
  <2>1. ASSUME NEW from \in Settling, Refuse(p, from) PROVE Gave(p)
    <3>1. at'[p] = "idle" /\ Apart(p) /\ at[p] = from
        BY <2>1, Leaving DEF Refuse, Typed
    <3>2. /\ link' = link /\ toldBy' = toldBy /\ cutShort' = cutShort
          /\ refused' = [l \in Links |-> refused[l] + IF l = answer[p].link THEN 1 ELSE 0]
        BY <2>1 DEF Refuse, timeline
    <3> QED BY <2>0, <2>1, <3>1, <3>2 DEF Gave, Settling
  <2>2. CASE AcceptRefused(p) \/ CounterRefused(p) \/ VersionTaken(p)
      BY <2>2, <2>1 DEF AcceptRefused, CounterRefused, VersionTaken, Settling
  <2>3. ASSUME NEW l \in Links, NEW a \in Actions, NEW b \in BOOLEAN, AnswerLink(p, l, a, b) PROVE Even
    <3> DEFINE x == [action |-> a, offer |-> OfferSent[l], link |-> l, optIn |-> b, made |-> Nothing, version |-> 0]
    <3>1. x \in Answer
        BY DEF Answer, TenantAssumption
    <3>2. Goto(p, "idle", "consume") /\ answer' = [answer EXCEPT ![p] = x] /\ UNCHANGED <<link, toldBy, refused, cutShort>>
        BY <2>3 DEF AnswerLink, Begin, timeline
    <3> HIDE DEF x
    <3>3. at'[p] = "consume" /\ Apart(p) /\ at[p] = "idle"
        BY <3>1, <3>2, Taking DEF Typed, Steps
    <3> QED BY <1>e, <3>2, <3>3 DEF Holding, Settling
  <2>4. ASSUME NEW o \in Offers, NEW a \in Actions, AnswerSignedIn(p, o, a) PROVE Even
    <3> DEFINE x == [action |-> a, offer |-> o, link |-> Nothing, optIn |-> FALSE, made |-> Nothing, version |-> 0]
    <3>1. x \in Answer /\ x.link = Nothing
        BY DEF Answer
    <3>2. Goto(p, "idle", "apply") /\ answer' = [answer EXCEPT ![p] = x] /\ UNCHANGED <<link, toldBy, refused, cutShort>>
        BY <2>4 DEF AnswerSignedIn, Begin, timeline
    <3> HIDE DEF x
    <3>3. at'[p] = "apply" /\ answer'[p] = x /\ Apart(p) /\ at[p] = "idle"
        BY <3>1, <3>2, Taking DEF Typed, Steps
    <3> QED BY <1>e, <1>n, <3>1, <3>2, <3>3 DEF Holding, Settling
  <2>5. CASE NoUse(p) \/ GiveReceipt(p)
      BY <2>5, <1>l DEF NoUse, GiveReceipt, timeline, Settling
  <2>6. CASE AcceptOffer(p)
      BY <2>6, <1>k DEF AcceptOffer, timeline, Steps, Settling
  <2>7. CASE RenewTenancy(p) \/ Negotiate(p) \/ Ask(p)
      BY <2>7, <1>k DEF RenewTenancy, Negotiate, Ask, timeline, Steps, Settling
  <2>8. CASE CounterOffer(p)
      BY <2>8, <1>k DEF CounterOffer, timeline, Steps, Settling
  <2>9. ASSUME NEW x \in Answer, x.link = answer[p].link, NEW from \in Settling, NEW to \in Settling,
               Goto(p, from, to), answer' = [answer EXCEPT ![p] = x], UNCHANGED <<link, toldBy, refused, cutShort>>
        PROVE  Even
    <3>0. to \in Steps
        BY DEF Steps, Settling
    <3>1. at'[p] = to /\ answer'[p] = x /\ Apart(p) /\ at[p] = from
        BY <2>9, <3>0, Taking DEF Typed
    <3> QED BY <1>e, <2>9, <3>1 DEF Holding
  <2>10. CASE ReadVersion(p)
    <3>1. PICK x : x = [answer[p] EXCEPT !.version = LastVersion + 1]
        OBVIOUS
    <3>2. x \in Answer /\ x.link = answer[p].link
        BY <1>0, <3>1, LastIsLast DEF Answer, Typed
    <3>3. Goto(p, "version", "create") /\ answer' = [answer EXCEPT ![p] = x] /\ UNCHANGED <<link, toldBy, refused, cutShort>>
        BY <2>10, <3>1 DEF ReadVersion, timeline
    <3> QED BY <2>9, <3>2, <3>3 DEF Settling
  <2>11. CASE CreateCounter(p)
    <3>1. PICK o \in Offers :
             /\ Goto(p, "create", "negotiate")
             /\ answer' = [answer EXCEPT ![p].made = o] /\ UNCHANGED <<link, timeline, refused, cutShort>>
        BY <2>11 DEF CreateCounter
    <3>2. PICK x : x = [answer[p] EXCEPT !.made = o]
        OBVIOUS
    <3>3. x \in Answer /\ x.link = answer[p].link
        BY <1>0, <3>2 DEF Answer
    <3>4. Goto(p, "create", "negotiate") /\ answer' = [answer EXCEPT ![p] = x] /\ UNCHANGED <<link, toldBy, refused, cutShort>>
        BY <3>1, <3>2 DEF timeline
    <3> QED BY <2>9, <3>3, <3>4 DEF Settling
  <2>12. CASE TellAnswer(p)
    <3>1. PICK to \in {"optin", "receipt"} : Goto(p, "tell", to)
        BY <2>12 DEF TellAnswer
    <3>2. /\ answer' = answer /\ link' = link /\ refused' = refused /\ cutShort' = cutShort
          /\ toldBy' = [l \in Links |-> toldBy[l] + IF l = answer[p].link THEN 1 ELSE 0]
        BY <2>12 DEF TellAnswer
    <3>3. at'[p] = to /\ Apart(p) /\ at[p] = "tell"
        BY <3>1, <3>2, Going DEF Typed, Steps
    <3> QED BY <2>0, <3>1, <3>2, <3>3 DEF Gave, Settling
  <2>13. CASE OptIn(p) \/ OptInWord(p)
      BY <2>13, <1>k DEF OptIn, Grants, OptInWord, Says, timeline, Steps, Settling
  <2>14. CASE OptInFails(p)
      BY <2>14, <1>k DEF OptInFails, timeline, Steps, Settling
  <2> QED BY <1>3, <2>2, <2>3, <2>4, <2>5, <2>6, <2>7, <2>8, <2>10, <2>11, <2>12, <2>13, <2>14 DEF TenantStep
<1>4. ASSUME NEW p \in Staff, StaffStep(p) PROVE Even
  <2>1. ASSUME NEW m \in Links, MintOffer(p, m) PROVE Even
    <3>1. PICK x : x = [NoAnswer EXCEPT !.link = m]
        OBVIOUS
    <3>2. x \in Answer
        BY <3>1 DEF Answer, NoAnswer
    <3>3. Goto(p, "idle", "mail") /\ answer' = [answer EXCEPT ![p] = x] /\ UNCHANGED <<toldBy, refused, cutShort>>
        BY <2>1, <3>1 DEF MintOffer, timeline
    <3>4. at'[p] = "mail" /\ Apart(p) /\ at[p] = "idle"
        BY <3>2, <3>3, Taking DEF Typed, Steps
    <3>5. \A l \in Links : link'[l].uses = link[l].uses
        BY <1>0, <2>1, MintKeepsUses DEF MintOffer
    <3> QED BY <1>e, <3>3, <3>4, <3>5 DEF Holding, Settling
  <2>2. CASE MailOffer(p) \/ GrantWord(p) \/ RevokeWord(p)
      BY <2>2, <1>l DEF MailOffer, GrantWord, RevokeWord, Says, timeline, Settling
  <2>3. CASE Grant(p) \/ Revoke(p)
      BY <2>3, <1>k DEF Grant, Grants, Revoke, timeline, Steps, Settling
  <2> QED BY <1>4, <2>1, <2>2, <2>3 DEF StaffStep
<1> QED BY <1>1, <1>2, <1>3, <1>4 DEF TenantNext

LEMMA PaidStep == TenantAssumption /\ Typed /\ Shape /\ Paid /\ [TenantNext]_tenantVars => Paid'
<1> SUFFICES ASSUME TenantAssumption, Typed, Shape, Paid, [TenantNext]_tenantVars, NEW l \in Links PROVE Paid!(l)'
    BY DEF Paid
<1>0. /\ toldBy[l] \in Nat /\ refused[l] \in Nat /\ link[l].uses \in Nat /\ MaxUses[l] \in Nat
      /\ IsFiniteSet(Holders(l)) /\ Cardinality(Holders(l)) \in Nat
    BY LinkAssumption, FS_CardinalityType DEF Typed, TenantTypeOK, LinkTypeOK, Link, Paid
<1>1. CASE Even
    BY <1>0, <1>1 DEF Even, Paid
<1>2. ASSUME NEW p \in Tenants, TakeUse(p) PROVE Paid!(l)'
  <2>1. p \in Requests /\ answer[p].link \in Links /\ Goto(p, "consume", "apply") /\ answer' = answer
      BY <1>2 DEF TakeUse, Goto, Shape, Holds, Requests
  <2>2. at'[p] = "apply" /\ answer'[p] = answer[p] /\ Apart(p) /\ at[p] = "consume"
      BY <2>1, Going DEF Typed, Steps
  <2>3. toldBy' = toldBy /\ refused' = refused /\ cutShort' = cutShort /\ Consume(answer[p].link)
      BY <1>2 DEF TakeUse, timeline
  <2>4. CASE l = answer[p].link
    <3>1. Holders(l)' = Holders(l) \cup {p} /\ p \notin Holders(l)
        BY <2>1, <2>2, <2>4 DEF Holders, Apart, Settling
    <3>2. IsFiniteSet(Holders(l)') /\ Cardinality(Holders(l)') = Cardinality(Holders(l)) + 1
        BY <1>0, <3>1, FS_AddElement
    <3>3. link[l].uses < MaxUses[l] /\ link'[l].uses = link[l].uses + 1
        BY <1>0, <2>3, <2>4 DEF Consume, CanConsume, Usable, Typed, TenantTypeOK, LinkTypeOK, Link
    <3> QED BY <1>0, <2>3, <3>2, <3>3 DEF Paid
  <2>5. CASE l # answer[p].link
    <3>1. Holders(l)' = Holders(l)
        BY <2>1, <2>2, <2>5 DEF Holders, Apart, Settling
    <3>2. link'[l] = link[l]
        BY <2>1, <2>3, <2>5 DEF Consume, Typed, TenantTypeOK, LinkTypeOK, Link
    <3> QED BY <1>0, <2>3, <3>1, <3>2 DEF Paid
  <2> QED BY <2>4, <2>5
<1>3. ASSUME NEW p \in Requests, Gave(p) \/ Lost(p) PROVE Paid!(l)'
  <2>1. at[p] \in Settling /\ at'[p] \notin Settling /\ Apart(p) /\ link' = link /\ cutShort \subseteq cutShort'
      BY <1>3 DEF Gave, Lost
  <2>2. CASE l = answer[p].link
    <3>1. Holders(l)' = Holders(l) \ {p} /\ p \in Holders(l)
        BY <2>1, <2>2 DEF Holders, Apart
    <3>2. IsFiniteSet(Holders(l)') /\ Cardinality(Holders(l)') = Cardinality(Holders(l)) - 1
        BY <1>0, <3>1, FS_RemoveElement
    <3>3. CASE Gave(p)
      <4>1. toldBy'[l] + refused'[l] = toldBy[l] + refused[l] + 1
          BY <2>2, <3>3 DEF Gave
      <4> QED BY <1>0, <2>1, <3>2, <4>1 DEF Paid
    <3>4. CASE Lost(p)
      <4>1. toldBy' = toldBy /\ refused' = refused /\ l \in cutShort'
          BY <2>2, <3>4 DEF Lost
      <4> QED BY <1>0, <2>1, <3>2, <4>1 DEF Paid
    <3> QED BY <1>3, <3>3, <3>4
  <2>3. CASE l # answer[p].link
    <3>1. Holders(l)' = Holders(l)
        BY <2>1, <2>3 DEF Holders, Apart
    <3>2. toldBy'[l] + refused'[l] = toldBy[l] + refused[l]
        BY <1>0, <1>3, <2>3 DEF Gave, Lost
    <3> QED BY <1>0, <2>1, <3>1, <3>2 DEF Paid
  <2> QED BY <2>2, <2>3
<1> QED BY <1>1, <1>2, <1>3, PayMoves

LEMMA PaidInit == TenantInit => Paid
<1>1. TenantInit => \A m \in Links : toldBy[m] = 0 /\ refused[m] = 0 /\ link[m].uses = 0 /\ Holders(m) = {}
    BY DEF TenantInit, LinkInit, Holders, Settling
<1>2. \A m \in Links : MaxUses[m] \in Nat
    BY LinkAssumption
<1>3. IsFiniteSet({}) /\ Cardinality({}) = 0
    BY FS_EmptySet
<1>4. ASSUME TenantInit, NEW m \in Links
      PROVE  /\ IsFiniteSet(Holders(m)) /\ link[m].uses <= MaxUses[m]
             /\ toldBy[m] + refused[m] + Cardinality(Holders(m)) = link[m].uses
  <2>1. /\ Holders(m) = {} /\ toldBy[m] = 0 /\ refused[m] = 0 /\ link[m].uses = 0
        /\ IsFiniteSet(Holders(m)) /\ Cardinality(Holders(m)) = 0 /\ MaxUses[m] \in Nat
      BY <1>1, <1>2, <1>3, <1>4
  <2> QED BY <2>1
<1>5. ASSUME TenantInit, NEW m \in Links
      PROVE toldBy[m] + refused[m] + Cardinality(Holders(m)) <= link[m].uses
  <2>1. link[m].uses = 0 /\ toldBy[m] + refused[m] + Cardinality(Holders(m)) = link[m].uses
      BY <1>1, <1>4, <1>5
  <2> QED BY <2>1
<1> QED BY <1>4, <1>5 DEF Paid

-----------------------------------------------------------------------------
(* What was told stands *)

\* Acceptances stay, and an offer of the tenant stays as it was made.
Grow ==
    /\ \A o \in Offers :
        /\ Accepted(o) => Accepted(o)'
        /\ offer[o].party = "TENANT" => offer'[o].party = "TENANT" /\ offer'[o].via = offer[o].via
    /\ \A x \in Actions \X Offers : tellings[x] > 0 => tellings'[x] > 0

\* Nothing accepts, and nobody tells.
Firm == (\A o \in Offers : Accepted(o)' <=> Accepted(o)) /\ tellings' = tellings /\ case'.decided = case.decided

LEMMA StandsGrows ==
    ASSUME Grow, NEW by, NEW is \in Actions \X Offers, Stands(by, is)
    PROVE  Stands(by, is)'
<1>1. is[2] \in Offers
    OBVIOUS
<1> QED BY <1>1 DEF Grow, Stands

\* The others, and the receipts given, while p moves.
LEMMA RecordedRest ==
    ASSUME Typed, Shape, Recorded, Grow, receipts' = receipts,
           NEW p \in Requests, Apart(p), RecordedOf(p)'
    PROVE  Recorded'
<1>0. /\ receipts \subseteq [by : Links \cup {Nothing}, is : Actions \X Offers]
      /\ tellings \in [Actions \X Offers -> Nat]
    BY DEF Typed, TenantTypeOK
<1>1. ASSUME NEW q \in Requests PROVE RecordedOf(q)'
  <2>1. CASE q # p
    <3>1. at'[q] = at[q] /\ answer'[q] = answer[q] /\ Subject(q)' = Subject(q)
        BY <2>1 DEF Apart, Subject
    <3>2. ASSUME at[q] \in {"negotiate", "tell"} \cup Answered PROVE Stands(answer[q].link, Subject(q))'
      <4>1. Subject(q) \in Actions \X Offers
          BY <3>2, SubjectTyped
      <4>2. Stands(answer[q].link, Subject(q))
          BY <3>2 DEF Recorded, RecordedOf
      <4>3. PICK l, s : l = answer[q].link /\ s = Subject(q)
          OBVIOUS
      <4>4. Stands(l, s)'
          BY <4>1, <4>2, <4>3, StandsGrows
      <4> QED BY <3>1, <4>3, <4>4 DEF Stands
    <3>3. ASSUME at[q] \in Answered PROVE tellings'[Subject(q)] > 0
      <4>1. Subject(q) \in Actions \X Offers /\ tellings[Subject(q)] > 0
          BY <3>3, SubjectTyped DEF Recorded, RecordedOf
      <4>2. PICK s \in Actions \X Offers : s = Subject(q)
          BY <4>1
      <4> QED BY <1>0, <4>1, <4>2 DEF Grow
    <3> QED BY <3>1, <3>2, <3>3 DEF RecordedOf
  <2> QED BY <2>1
<1>2. ASSUME NEW r \in receipts PROVE Stands(r.by, r.is)' /\ tellings'[r.is] > 0
  <2>1. r.is \in Actions \X Offers /\ Stands(r.by, r.is) /\ tellings[r.is] > 0
      BY <1>0 DEF Recorded
  <2>2. PICK b, s : b = r.by /\ s = r.is
      OBVIOUS
  <2>3. Stands(b, s)'
      BY <2>1, <2>2, StandsGrows
  <2> QED BY <1>0, <2>1, <2>2, <2>3 DEF Grow
<1> QED BY <1>1, <1>2 DEF Recorded

LEMMA AcceptedRest ==
    ASSUME Typed, Shape, AcceptedOnce, Firm, NEW p \in Requests, Apart(p),
           Accepting(p)' => Accepting(p) /\ answer'[p].offer = answer[p].offer
    PROVE  AcceptedOnce'
<1>1. \A q \in Requests : Accepting(q)' => Accepting(q) /\ answer'[q].offer = answer[q].offer
    BY DEF Apart, Accepting
<1>2. ASSUME NEW q \in Requests, Accepting(q)'
      PROVE /\ Accepted(answer[q].offer)' /\ tellings'[<<"ACCEPT", answer'[q].offer>>] = 0
            /\ answer'[q].offer = answer[q].offer
            /\ \A r \in Requests : Accepting(r)' => r = q
  <2>1. answer[q].offer \in Offers
      BY <1>1, <1>2 DEF Shape, Holds, Accepting, Settling
  <2>2. Accepted(answer[q].offer) /\ tellings[<<"ACCEPT", answer[q].offer>>] = 0
      BY <1>1, <1>2 DEF AcceptedOnce
  <2>3. \A r \in Requests : Accepting(r)' => r = q
      BY <1>1, <1>2 DEF AcceptedOnce
  <2>4. answer'[q].offer = answer[q].offer
      BY <1>1, <1>2
  <2>5. Accepted(answer[q].offer)' /\ tellings'[<<"ACCEPT", answer'[q].offer>>] = 0
      BY <2>1, <2>2, <2>4 DEF Firm, Accepted
  <2> QED BY <2>3, <2>4, <2>5
<1> QED BY <1>1, <1>2 DEF Firm, AcceptedOnce

\* A step that only moves p, to where nothing is claimed of it, or on with its claim.
LEMMA OnlyMoves ==
    ASSUME Typed, Shape, AcceptedOnce, Recorded, NEW p \in Requests, Apart(p),
           UNCHANGED <<offer, tellings, receipts>>, case'.decided = case.decided,
           Accepting(p)' => Accepting(p) /\ answer'[p].offer = answer[p].offer,
           RecordedOf(p)'
    PROVE  (AcceptedOnce /\ Recorded)'
<1>1. Grow /\ Firm
    BY DEF Grow, Firm, Accepted
<1> QED BY <1>1, RecordedRest, AcceptedRest

LEMMA LeavingKeeps ==
    ASSUME Typed, Shape, AcceptedOnce, Recorded, NEW p \in Requests, NEW from, GoIdle(p, from),
           UNCHANGED <<offer, case, tellings, receipts>>
    PROVE  (AcceptedOnce /\ Recorded)'
<1>1. at'[p] = "idle" /\ Apart(p)
    BY Leaving DEF Typed
<1>2. ~Accepting(p)' /\ RecordedOf(p)'
    BY <1>1 DEF Accepting, RecordedOf, Answered
<1> QED BY <1>1, <1>2, OnlyMoves

LEMMA AcceptKeeps ==
    ASSUME Typed, Shape, AcceptedOnce, Recorded, NEW p \in Requests, AcceptOffer(p)
    PROVE  (AcceptedOnce /\ Recorded)'
<1>1. PICK o : o = answer[p].offer
    OBVIOUS
<1>2. /\ Goto(p, "apply", "renew") /\ answer[p].action = "ACCEPT" /\ answer' = answer
      /\ Acceptable(o) /\ case'.decided = o /\ UNCHANGED <<tellings, receipts>>
    BY <1>1 DEF AcceptOffer, timeline
<1>3. at'[p] = "renew" /\ answer'[p] = answer[p] /\ Apart(p) /\ at[p] = "apply"
    BY <1>2, Going DEF Typed, Steps
<1>4. o \in Offers
    BY <1>1, <1>3 DEF Shape, Holds, Settling
<1>5. PICK new : new = Supersede(Offers \ {o})
    OBVIOUS
<1>6. offer' = [new EXCEPT ![o].status = "ACCEPTED"]
    BY <1>1, <1>5 DEF AcceptOffer
<1>7. /\ new \in [Offers -> Offer]
      /\ \A q \in Offers : /\ new[q].party = offer[q].party /\ new[q].via = offer[q].via
                           /\ new[q].status = "ACCEPTED" <=> offer[q].status = "ACCEPTED"
    BY <1>5, Superseding DEF Typed
<1>8. PICK r : r = [new[o] EXCEPT !.status = "ACCEPTED"]
    OBVIOUS
<1>9. r.status = "ACCEPTED" /\ r.party = new[o].party /\ r.via = new[o].via
    BY <1>4, <1>7, <1>8 DEF Offer
<1>10. \A q \in Offers : offer'[q] = IF q = o THEN r ELSE new[q]
    BY <1>4, <1>6, <1>7, <1>8
<1>11. \A q \in Offers : ~Accepted(q)
    BY <1>2 DEF Acceptable, Accepted
<1>12. \A q \in Offers : Accepted(q)' <=> q = o
    BY <1>7, <1>9, <1>10, <1>11 DEF Accepted
<1>13. Grow
    BY <1>2, <1>7, <1>9, <1>10, <1>11 DEF Grow
<1>14. RecordedOf(p)'
    BY <1>3 DEF RecordedOf, Answered
<1>15. Recorded'
    BY <1>2, <1>3, <1>13, <1>14, RecordedRest
<1>16. \A q \in Requests : ~Accepting(q)
    BY <1>11 DEF AcceptedOnce, Shape, Holds, Accepting, Settling
<1>17. \A q \in Requests : Accepting(q)' => q = p
    BY <1>3, <1>16 DEF Apart, Accepting
<1>18. \A q \in Offers : tellings[<<"ACCEPT", q>>] = 0
  <2>1. \A q \in Offers : tellings[<<"ACCEPT", q>>] \in Nat
      BY DEF Typed, TenantTypeOK, Actions
  <2>2. ASSUME NEW q \in Offers PROVE tellings[<<"ACCEPT", q>>] = 0
    <3>1. tellings[<<"ACCEPT", q>>] <= 0
        BY <1>11 DEF AcceptedOnce
    <3> QED BY <2>1, <3>1
  <2> QED BY <2>2, Zenon
<1>19. AcceptedOnce'
  <2>1. \A q \in Offers : Accepted(q)' => case'.decided = q
      BY <1>2, <1>12
  <2>2. tellings' = tellings /\ \A q \in Offers : tellings[<<"ACCEPT", q>>] = 0
      BY <1>2, <1>18
  <2>3. answer'[p].offer = o
      BY <1>1, <1>3
  <2>4. ASSUME NEW q \in Requests, Accepting(q)'
        PROVE  /\ Accepted(answer[q].offer)' /\ tellings'[<<"ACCEPT", answer'[q].offer>>] = 0
               /\ \A s \in Requests : Accepting(s)' => s = q
    <3>1. q = p /\ answer'[q].offer = o
        BY <1>17, <2>3, <2>4
    <3> QED BY <1>4, <1>12, <1>17, <2>2, <3>1 DEF Accepted
  <2>5. ASSUME NEW q \in Offers PROVE tellings'[<<"ACCEPT", q>>] <= IF Accepted(q)' THEN 1 ELSE 0
    <3>1. tellings[<<"ACCEPT", q>>] = 0
        BY <2>2, Zenon
    <3> QED BY <2>2, <3>1
  <2> QED BY <2>1, <2>4, <2>5 DEF AcceptedOnce
<1> QED BY <1>15, <1>19

\* A row that takes the place of nothing.
LEMMA RowAdded ==
    ASSUME Typed, NEW o \in Offers, AbsentOffer(o), NEW S, NEW row, row.status # "ACCEPTED",
           offer' = [Supersede(S) EXCEPT ![o] = row]
    PROVE  /\ \A q \in Offers : Accepted(q)' <=> Accepted(q)
           /\ \A q \in Offers : offer[q].party = "TENANT" => offer'[q].party = "TENANT" /\ offer'[q].via = offer[q].via
           /\ offer'[o] = row
<1>1. PICK new : new = Supersede(S)
    OBVIOUS
<1>2. /\ new \in [Offers -> Offer]
      /\ \A q \in Offers : /\ new[q].party = offer[q].party /\ new[q].via = offer[q].via
                           /\ new[q].status = "ACCEPTED" <=> offer[q].status = "ACCEPTED"
    BY <1>1, Superseding DEF Typed
<1>3. offer' = [new EXCEPT ![o] = row]
    BY <1>1
<1>4. \A q \in Offers : offer'[q] = IF q = o THEN row ELSE new[q]
    BY <1>2, <1>3
<1>5. offer[o].status = "absent" /\ offer[o].party = "none"
    BY DEF Typed, Numbered, AbsentOffer
<1> QED BY <1>2, <1>4, <1>5 DEF Accepted

LEMMA CounterKeeps ==
    ASSUME Typed, Shape, AcceptedOnce, Recorded, NEW p \in Requests, CreateCounter(p)
    PROVE  (AcceptedOnce /\ Recorded)'
<1>1. PICK o \in Offers :
         /\ Goto(p, "create", "negotiate") /\ AbsentOffer(o)
         /\ offer' = [offer EXCEPT ![o] = Row("COUNTERED", answer[p].version, "TENANT", answer[p].link)]
         /\ answer' = [answer EXCEPT ![p].made = o]
         /\ UNCHANGED <<case, timeline, receipts>>
    BY DEF CreateCounter
<1>2. PICK x : x = [answer[p] EXCEPT !.made = o]
    OBVIOUS
<1>3. answer[p] \in Answer
    BY DEF Typed, TenantTypeOK
<1>4. x \in Answer /\ x.link = answer[p].link /\ x.action = answer[p].action /\ x.made = o
    BY <1>2, <1>3 DEF Answer
<1>5. answer' = [answer EXCEPT ![p] = x] /\ Goto(p, "create", "negotiate")
    BY <1>1, <1>2
<1>6. at'[p] = "negotiate" /\ answer'[p] = x /\ Apart(p) /\ at[p] = "create"
  <2>1. "negotiate" \in Steps
      BY DEF Steps
  <2> QED BY <1>4, <1>5, <2>1, Taking DEF Typed
<1>7. PICK row : row = Row("COUNTERED", answer[p].version, "TENANT", answer[p].link)
    OBVIOUS
<1>8. row.status # "ACCEPTED" /\ row.party = "TENANT" /\ row.via = answer[p].link
    BY <1>7 DEF Row
<1>9. PICK new : new = Supersede({})
    OBVIOUS
<1>10. new = offer
    BY <1>9 DEF Supersede, Typed, TenantTypeOK
<1>11. offer' = [Supersede({}) EXCEPT ![o] = row]
    BY <1>1, <1>7, <1>9, <1>10
<1>12. AbsentOffer(o) /\ UNCHANGED <<case, tellings, receipts>>
    BY <1>1 DEF timeline
<1>13. /\ \A q \in Offers : Accepted(q)' <=> Accepted(q)
       /\ \A q \in Offers : offer[q].party = "TENANT" => offer'[q].party = "TENANT" /\ offer'[q].via = offer[q].via
       /\ offer'[o] = row
    BY <1>8, <1>11, <1>12, RowAdded
<1>14. Grow /\ Firm
    BY <1>12, <1>13 DEF Grow, Firm
<1>15. Subject(p)' = <<"COUNTER", o>>
  <2>1. answer[p].action = "COUNTER"
      BY <1>6 DEF Shape, Holds
  <2> QED BY <1>4, <1>6, <2>1 DEF Subject
<1>16. RecordedOf(p)'
  <2>1. answer'[p].link = answer[p].link
      BY <1>4, <1>6
  <2> QED BY <1>6, <1>8, <1>13, <1>15, <2>1 DEF RecordedOf, Answered, Stands
<1>17. ~Accepting(p)'
    BY <1>6 DEF Accepting
<1> QED BY <1>6, <1>12, <1>14, <1>16, <1>17, RecordedRest, AcceptedRest

LEMMA TellKeeps ==
    ASSUME Typed, Shape, AcceptedOnce, Recorded, NEW p \in Requests, TellAnswer(p)
    PROVE  (AcceptedOnce /\ Recorded)'
<1>1. PICK to \in {"optin", "receipt"} : Goto(p, "tell", to)
    BY DEF TellAnswer
<1>2. PICK s : s = Subject(p)
    OBVIOUS
<1>3. answer' = answer /\ tellings' = [tellings EXCEPT ![s] = @ + 1] /\ UNCHANGED <<offer, case, receipts>>
    BY <1>2 DEF TellAnswer, offerVars
<1>4. at'[p] = to /\ answer'[p] = answer[p] /\ Apart(p) /\ at[p] = "tell"
    BY <1>1, <1>3, Going DEF Typed, Steps
<1>5. s \in Actions \X Offers
    BY <1>2, <1>4, SubjectTyped
<1>6. tellings \in [Actions \X Offers -> Nat]
    BY DEF Typed, TenantTypeOK
<1>7. tellings'[s] = tellings[s] + 1 /\ \A x \in (Actions \X Offers) \ {s} : tellings'[x] = tellings[x]
    BY <1>3, <1>5, <1>6
<1>8. Grow
    BY <1>3, <1>5, <1>6, <1>7 DEF Grow, Accepted
<1>9. Subject(p)' = s
    BY <1>2, <1>3 DEF Subject
<1>10. RecordedOf(p)'
  <2>1. Stands(answer[p].link, s)
      BY <1>2, <1>4 DEF Recorded, RecordedOf
  <2>2. PICK l : l = answer[p].link
      OBVIOUS
  <2>3. Stands(l, s)'
      BY <1>5, <1>8, <2>1, <2>2, StandsGrows
  <2>4. tellings'[s] > 0
      BY <1>5, <1>6, <1>7
  <2>5. Stands(answer[p].link, Subject(p))'
      BY <1>4, <1>9, <2>2, <2>3 DEF Stands
  <2> QED BY <1>9, <2>4, <2>5 DEF RecordedOf
<1>11. Recorded'
    BY <1>3, <1>4, <1>8, <1>10, RecordedRest
<1>12. \A q \in Requests : Accepting(q)' <=> Accepting(q) /\ q # p
    BY <1>1, <1>4 DEF Apart, Accepting
<1>13. CASE answer[p].action = "ACCEPT"
  <2>1. PICK o \in Offers : o = answer[p].offer
      BY <1>4 DEF Shape, Holds, Settling
  <2>2. Accepting(p) /\ s = <<"ACCEPT", o>>
      BY <1>2, <1>4, <1>13, <2>1 DEF Accepting, Subject
  <2>3. Accepted(o) /\ tellings[s] = 0 /\ \A q \in Requests : ~Accepting(q)'
      BY <1>12, <2>1, <2>2 DEF AcceptedOnce
  <2>4. ASSUME NEW q \in Offers PROVE tellings'[<<"ACCEPT", q>>] <= IF Accepted(q)' THEN 1 ELSE 0
    <3>1. Accepted(q)' <=> Accepted(q)
        BY <1>3 DEF Accepted
    <3>2. CASE q = o
        BY <1>7, <2>2, <2>3, <3>1, <3>2
    <3>3. CASE q # o
      <4>1. <<"ACCEPT", q>> \in (Actions \X Offers) \ {s}
          BY <2>2, <3>3 DEF Actions
      <4> QED BY <1>7, <3>1, <4>1 DEF AcceptedOnce
    <3> QED BY <3>2, <3>3
  <2>5. \A q \in Offers : Accepted(q)' => case'.decided = q
      BY <1>3 DEF AcceptedOnce, Accepted
  <2> QED BY <1>11, <2>3, <2>4, <2>5 DEF AcceptedOnce
<1>14. CASE answer[p].action # "ACCEPT"
  <2>1. s[1] # "ACCEPT"
      BY <1>2, <1>14 DEF Subject
  <2>2. \A q \in Offers : tellings'[<<"ACCEPT", q>>] = tellings[<<"ACCEPT", q>>]
    <3>1. ASSUME NEW q \in Offers PROVE tellings'[<<"ACCEPT", q>>] = tellings[<<"ACCEPT", q>>]
      <4>1. <<"ACCEPT", q>> \in (Actions \X Offers) \ {s}
          BY <2>1 DEF Actions
      <4> QED BY <1>7, <4>1
    <3> QED BY <3>1, Zenon
  <2>3. \A q \in Offers : Accepted(q)' <=> Accepted(q)
      BY <1>3 DEF Accepted
  <2>4. ASSUME NEW q \in Requests, Accepting(q)'
        PROVE  /\ Accepted(answer[q].offer)' /\ tellings'[<<"ACCEPT", answer'[q].offer>>] = 0
               /\ \A r \in Requests : Accepting(r)' => r = q
    <3>1. Accepting(q) /\ answer' = answer /\ answer[q].offer \in Offers
        BY <1>3, <1>12, <2>4 DEF Shape, Holds, Accepting, Settling
    <3>2. Accepted(answer[q].offer) /\ tellings[<<"ACCEPT", answer[q].offer>>] = 0
        BY <3>1 DEF AcceptedOnce
    <3>3. \A r \in Requests : Accepting(r)' => r = q
        BY <1>12, <3>1 DEF AcceptedOnce
    <3> QED BY <2>2, <2>3, <3>1, <3>2, <3>3 DEF Accepted
  <2>5. \A q \in Offers : Accepted(q)' => case'.decided = q
      BY <1>3 DEF AcceptedOnce, Accepted
  <2>6. ASSUME NEW q \in Offers PROVE tellings'[<<"ACCEPT", q>>] <= IF Accepted(q)' THEN 1 ELSE 0
    <3>1. tellings[<<"ACCEPT", q>>] <= IF Accepted(q) THEN 1 ELSE 0
        BY DEF AcceptedOnce
    <3> QED BY <2>2, <2>3, <3>1
  <2> QED BY <1>11, <2>4, <2>5, <2>6 DEF AcceptedOnce
<1> QED BY <1>13, <1>14

LEMMA TenantKeeps ==
    ASSUME TenantAssumption, Typed, Shape, AcceptedOnce, Recorded, NEW p \in Tenants, TenantStep(p)
    PROVE  (AcceptedOnce /\ Recorded)'
<1>0. p \in Requests /\ answer[p] \in Answer
    BY DEF Requests, Typed, TenantTypeOK
<1>1. ASSUME NEW from, Refuse(p, from) PROVE (AcceptedOnce /\ Recorded)'
    BY <1>0, <1>1, LeavingKeeps DEF Refuse, offerVars, timeline
<1>2. CASE AcceptRefused(p) \/ CounterRefused(p) \/ VersionTaken(p)
    BY <1>1, <1>2 DEF AcceptRefused, CounterRefused, VersionTaken
<1>3. CASE NoUse(p)
    BY <1>0, <1>3, LeavingKeeps DEF NoUse, offerVars, timeline
<1>4. ASSUME NEW to \in {"consume", "apply", "create", "tell", "optinWord", "receipt"}, NEW x \in Answer,
             Goto(p, at[p], to), answer' = [answer EXCEPT ![p] = x],
             UNCHANGED <<offer, tellings, receipts>>, case'.decided = case.decided,
             to = "tell" /\ x.action = "ACCEPT" => at[p] = "renew" /\ x = answer[p],
             to = "tell" /\ x.action = "COUNTER" => at[p] = "negotiate" /\ x = answer[p],
             to \in {"optinWord", "receipt"} => at[p] \in Answered /\ x = answer[p]
      PROVE (AcceptedOnce /\ Recorded)'
  <2>1. to \in Steps
      BY DEF Steps
  <2>2. at'[p] = to /\ answer'[p] = x /\ Apart(p)
      BY <1>0, <1>4, <2>1, Taking DEF Typed
  <2>3. Accepting(p)' => Accepting(p) /\ answer'[p].offer = answer[p].offer
      BY <1>4, <2>2 DEF Accepting
  <2>s. Subject(p)' = <<x.action, IF x.action = "COUNTER" THEN x.made ELSE x.offer>>
      BY <2>2 DEF Subject
  <2>4. ASSUME to = "tell", x.action # "COUNTER", x.action # "ACCEPT" PROVE RecordedOf(p)'
    <3>1. at'[p] = "tell" /\ Subject(p)'[1] # "COUNTER" /\ Subject(p)'[1] # "ACCEPT"
        BY <2>2, <2>4, <2>s
    <3> QED BY <3>1 DEF RecordedOf, Stands, Answered
  <2>5. ASSUME to = "tell", x.action = "ACCEPT" PROVE RecordedOf(p)'
    <3>1. at[p] = "renew" /\ x = answer[p]
        BY <1>4, <2>5
    <3>2. Accepted(answer[p].offer)
        BY <1>0, <2>5, <3>1 DEF AcceptedOnce, Accepting
    <3>3. Accepted(answer[p].offer)'
        BY <1>4, <2>2, <3>1, <3>2 DEF Accepted
    <3>4. /\ at'[p] = "tell" /\ Subject(p)'[1] = "ACCEPT" /\ Subject(p)'[2] = answer'[p].offer
        BY <2>2, <2>5, <2>s
    <3> QED BY <3>3, <3>4 DEF RecordedOf, Stands, Answered, Accepted
  <2>6. ASSUME to \in {"optinWord", "receipt"} \/ (to = "tell" /\ x.action = "COUNTER") PROVE RecordedOf(p)'
    <3>1. /\ x = answer[p] /\ Subject(p)' = Subject(p) /\ at[p] \in {"negotiate"} \cup Answered
          /\ to \in Answered => at[p] \in Answered
        BY <1>4, <2>2, <2>6 DEF Subject, Answered
    <3>2. RecordedOf(p)
        BY <1>0 DEF Recorded
    <3>3. /\ answer'[p].link = answer[p].link /\ offer' = offer /\ tellings' = tellings
          /\ at'[p] \in Answered => at[p] \in Answered
        BY <1>4, <2>2, <3>1
    <3> QED BY <3>1, <3>2, <3>3 DEF RecordedOf, Stands, Accepted
  <2>7. ASSUME to \in {"consume", "apply", "create"} PROVE RecordedOf(p)'
    <3>1. at'[p] \notin {"negotiate", "tell"} \cup Answered
        BY <2>2, <2>7 DEF Answered
    <3> QED BY <3>1 DEF RecordedOf
  <2>8. RecordedOf(p)'
    <3>1. to = "tell" \/ to \in {"optinWord", "receipt"} \/ to \in {"consume", "apply", "create"}
        OBVIOUS
    <3> QED BY <2>4, <2>5, <2>6, <2>7, <3>1
  <2> QED BY <1>0, <1>4, <2>2, <2>3, <2>8, OnlyMoves
<1>s. answer' = answer => answer' = [answer EXCEPT ![p] = answer[p]]
    BY <1>0 DEF Typed, TenantTypeOK
<1>h. Holds(p)
    BY <1>0 DEF Shape
<1>5. ASSUME NEW l \in Links, NEW a \in Actions, NEW b \in BOOLEAN, AnswerLink(p, l, a, b)
      PROVE (AcceptedOnce /\ Recorded)'
  <2> DEFINE x == [action |-> a, offer |-> OfferSent[l], link |-> l, optIn |-> b, made |-> Nothing, version |-> 0]
  <2>1. x \in Answer
      BY DEF Answer, TenantAssumption
  <2>2. Goto(p, at[p], "consume") /\ answer' = [answer EXCEPT ![p] = x] /\ UNCHANGED <<offer, case, tellings, receipts>>
      BY <1>5 DEF AnswerLink, Begin, Goto, offerVars, timeline
  <2> HIDE DEF x
  <2> QED BY <1>4, <2>1, <2>2
<1>6. ASSUME NEW o \in Offers, NEW a \in Actions, AnswerSignedIn(p, o, a)
      PROVE (AcceptedOnce /\ Recorded)'
  <2> DEFINE x == [action |-> a, offer |-> o, link |-> Nothing, optIn |-> FALSE, made |-> Nothing, version |-> 0]
  <2>1. x \in Answer
      BY DEF Answer
  <2>2. Goto(p, at[p], "apply") /\ answer' = [answer EXCEPT ![p] = x] /\ UNCHANGED <<offer, case, tellings, receipts>>
      BY <1>6 DEF AnswerSignedIn, Begin, Goto, offerVars, timeline
  <2> HIDE DEF x
  <2> QED BY <1>4, <2>1, <2>2
<1>7. CASE TakeUse(p)
  <2>1. Goto(p, at[p], "apply") /\ answer' = answer /\ UNCHANGED <<offer, case, tellings, receipts>>
      BY <1>7 DEF TakeUse, Goto, offerVars, timeline
  <2> QED BY <1>0, <1>4, <1>s, <2>1
<1>8. CASE RenewTenancy(p)
  <2>1. /\ Goto(p, at[p], "tell") /\ at[p] = "renew" /\ answer' = answer
        /\ UNCHANGED <<offer, case, tellings, receipts>>
      BY <1>8 DEF RenewTenancy, Goto, timeline
  <2>2. answer[p].action = "ACCEPT"
      BY <1>h, <2>1 DEF Holds
  <2> QED BY <1>0, <1>4, <1>s, <2>1, <2>2
<1>9. CASE CounterOffer(p)
  <2>1. /\ Goto(p, "apply", "version") /\ answer' = answer /\ offer' = Supersede(Offers)
        /\ UNCHANGED <<case, tellings, receipts>>
      BY <1>9 DEF CounterOffer, timeline
  <2>2. at'[p] = "version" /\ Apart(p)
      BY <1>0, <2>1, Going DEF Typed, Steps
  <2>3. PICK new : new = Supersede(Offers)
      OBVIOUS
  <2>4. offer' = new
      BY <2>1, <2>3
  <2>5. \A q \in Offers : /\ new[q].party = offer[q].party /\ new[q].via = offer[q].via
                          /\ new[q].status = "ACCEPTED" <=> offer[q].status = "ACCEPTED"
      BY <2>3, Superseding DEF Typed
  <2>6. Grow /\ Firm
      BY <2>1, <2>4, <2>5 DEF Grow, Firm, Accepted
  <2>7. RecordedOf(p)' /\ ~Accepting(p)'
      BY <2>2 DEF RecordedOf, Accepting, Answered
  <2> QED BY <1>0, <2>1, <2>2, <2>6, <2>7, RecordedRest, AcceptedRest
<1>10. CASE ReadVersion(p)
  <2>1. PICK x : x = [answer[p] EXCEPT !.version = LastVersion + 1]
      OBVIOUS
  <2>2. x \in Answer
      BY <1>0, <2>1, LastIsLast DEF Answer, Typed
  <2>3. Goto(p, at[p], "create") /\ answer' = [answer EXCEPT ![p] = x] /\ UNCHANGED <<offer, case, tellings, receipts>>
      BY <1>10, <2>1 DEF ReadVersion, Goto, offerVars, timeline
  <2> QED BY <1>4, <2>2, <2>3
<1>11. CASE Negotiate(p)
  <2>1. /\ Goto(p, at[p], "tell") /\ at[p] = "negotiate" /\ answer' = answer
        /\ UNCHANGED <<offer, tellings, receipts>>
      BY <1>11 DEF Negotiate, Goto, timeline
  <2>2. answer[p].action = "COUNTER"
      BY <1>h, <2>1 DEF Holds
  <2>3. case \in [status : {"NEGOTIATING", "AGREED"}, decided : Offers \cup {Nothing}, current : Offers \cup {Nothing}]
      BY DEF Typed, TenantTypeOK
  <2>4. case'.decided = case.decided
      BY <1>11, <2>3 DEF Negotiate
  <2> QED BY <1>0, <1>4, <1>s, <2>1, <2>2, <2>4
<1>12. CASE Ask(p)
  <2>1. /\ Goto(p, at[p], "tell") /\ answer[p].action = "ASK" /\ answer' = answer
        /\ UNCHANGED <<offer, case, tellings, receipts>>
      BY <1>12 DEF Ask, Goto, offerVars, timeline
  <2> QED BY <1>0, <1>4, <1>s, <2>1
<1>13. CASE OptIn(p) \/ OptInWord(p) \/ OptInFails(p)
  <2>1. PICK to \in {"optinWord", "receipt"} : Goto(p, at[p], to)
      BY <1>13 DEF OptIn, OptInWord, OptInFails, Grants, Goto
  <2>2. /\ at[p] \in Answered /\ answer' = answer /\ UNCHANGED <<offer, case, tellings, receipts>>
      BY <1>13 DEF OptIn, OptInWord, OptInFails, Grants, Says, Goto, offerVars, timeline, Answered
  <2> QED BY <1>0, <1>4, <1>s, <2>1, <2>2
<1>14. CASE GiveReceipt(p)
  <2>1. PICK r : r = [by |-> answer[p].link, is |-> Subject(p)]
      OBVIOUS
  <2>2. /\ GoIdle(p, "receipt") /\ receipts' = receipts \cup {r} /\ UNCHANGED <<offer, case, tellings>>
      BY <1>14, <2>1 DEF GiveReceipt, offerVars, timeline
  <2>3. at'[p] = "idle" /\ Apart(p) /\ at[p] = "receipt"
      BY <1>0, <2>2, Leaving DEF Typed
  <2>4. Stands(r.by, r.is) /\ tellings[r.is] > 0
    <3>1. RecordedOf(p)
        BY <1>0 DEF Recorded
    <3> QED BY <2>1, <2>3, <3>1 DEF RecordedOf, Answered
  <2>5. \A s \in receipts' : Stands(s.by, s.is)' /\ tellings'[s.is] > 0
      BY <2>2, <2>4 DEF Recorded, Stands, Accepted
  <2>6. ASSUME NEW q \in Requests PROVE RecordedOf(q)'
    <3>1. CASE q = p
        BY <2>3, <3>1 DEF RecordedOf, Answered
    <3>2. CASE q # p
        BY <2>2, <2>3, <3>2 DEF Recorded, RecordedOf, Stands, Subject, Accepted, Apart
    <3> QED BY <3>1, <3>2
  <2>7. Recorded'
      BY <2>5, <2>6 DEF Recorded
  <2>8. Firm /\ ~Accepting(p)'
      BY <2>2, <2>3 DEF Firm, Accepted, Accepting
  <2> QED BY <1>0, <2>3, <2>7, <2>8, AcceptedRest
<1> QED BY <1>0, <1>2, <1>3, <1>5, <1>6, <1>7, <1>8, <1>9, <1>10, <1>11, <1>12, <1>13, <1>14,
           AcceptKeeps, CounterKeeps, TellKeeps DEF TenantStep

LEMMA OthersKeep ==
    ASSUME Typed, Shape, AcceptedOnce, Recorded,
           \/ \E p \in Staff : StaffStep(p)
           \/ \E p \in Requests : Die(p)
           \/ \E l \in Links : OpenOfferPage(l) \/ LinkEnds(l)
           \/ Propose
           \/ UNCHANGED tenantVars
    PROVE  (AcceptedOnce /\ Recorded)'
<1>1. ASSUME NEW p \in Requests, Die(p) PROVE (AcceptedOnce /\ Recorded)'
    BY <1>1, LeavingKeeps DEF Die, offerVars, timeline
<1>2. ASSUME NEW p \in Staff, StaffStep(p) PROVE (AcceptedOnce /\ Recorded)'
  <2>0. p \in Requests
      BY DEF Requests
  <2>1. ASSUME NEW to \in {"mail", "grantWord", "revokeWord"}, NEW x \in Answer,
               Goto(p, "idle", to), answer' = [answer EXCEPT ![p] = x], UNCHANGED <<offer, case, tellings, receipts>>
        PROVE  (AcceptedOnce /\ Recorded)'
    <3>1. to \in Steps
        BY DEF Steps
    <3>2. at'[p] = to /\ Apart(p)
        BY <2>0, <2>1, <3>1, Taking DEF Typed
    <3>3. RecordedOf(p)' /\ ~Accepting(p)'
        BY <3>2 DEF RecordedOf, Accepting, Answered
    <3> QED BY <2>0, <2>1, <3>2, <3>3, OnlyMoves
  <2>2. ASSUME NEW l \in Links, MintOffer(p, l) PROVE (AcceptedOnce /\ Recorded)'
    <3>1. PICK x : x = [NoAnswer EXCEPT !.link = l]
        OBVIOUS
    <3>2. x \in Answer
        BY <3>1 DEF Answer, NoAnswer
    <3>3. /\ Goto(p, "idle", "mail") /\ answer' = [answer EXCEPT ![p] = x]
          /\ UNCHANGED <<offer, case, tellings, receipts>>
        BY <2>2, <3>1 DEF MintOffer, offerVars, timeline
    <3> QED BY <2>1, <3>2, <3>3
  <2>3. CASE MailOffer(p) \/ GrantWord(p) \/ RevokeWord(p)
      BY <2>0, <2>3, LeavingKeeps DEF MailOffer, GrantWord, RevokeWord, Says, offerVars, timeline
  <2>4. CASE Grant(p) \/ Revoke(p)
    <3>1. answer[p] \in Answer /\ answer \in [Requests -> Answer]
        BY <2>0 DEF Typed, TenantTypeOK
    <3>2. answer' = answer /\ UNCHANGED <<offer, case, tellings, receipts>>
        BY <2>4 DEF Grant, Grants, Revoke, offerVars, timeline
    <3>3. answer' = [answer EXCEPT ![p] = answer[p]]
        BY <2>0, <3>1, <3>2
    <3>4. PICK to \in {"mail", "grantWord", "revokeWord"} : Goto(p, "idle", to)
        BY <2>4 DEF Grant, Grants, Revoke
    <3> QED BY <2>1, <3>1, <3>2, <3>3, <3>4
  <2> QED BY <1>2, <2>2, <2>3, <2>4 DEF StaffStep
<1>3. ASSUME UNCHANGED <<at, answer, tellings, receipts>>, Grow, Firm PROVE (AcceptedOnce /\ Recorded)'
  <2>1. AcceptedOnce'
    <3>1. ASSUME NEW q \in Requests, Accepting(q) PROVE answer[q].offer \in Offers
        BY <3>1 DEF Shape, Holds, Accepting, Settling
    <3>2. \A q \in Requests : Accepting(q)' <=> Accepting(q)
        BY <1>3 DEF Accepting
    <3>3. \A q \in Requests : Accepting(q) => Accepted(answer[q].offer)'
        BY <1>3, <3>1 DEF AcceptedOnce, Firm, Accepted
    <3> QED BY <1>3, <3>2, <3>3 DEF AcceptedOnce, Firm
  <2>2. ASSUME NEW q \in Requests PROVE RecordedOf(q)'
    <3>1. Subject(q)' = Subject(q)
        BY <1>3 DEF Subject
    <3>2. ASSUME at[q] \in {"negotiate", "tell"} \cup Answered PROVE Stands(answer[q].link, Subject(q))'
      <4>1. Subject(q) \in Actions \X Offers
          BY <3>2, SubjectTyped
      <4>2. Stands(answer[q].link, Subject(q))
          BY <3>2 DEF Recorded, RecordedOf
      <4>3. PICK l, s : l = answer[q].link /\ s = Subject(q)
          OBVIOUS
      <4>4. Stands(l, s)'
          BY <1>3, <4>1, <4>2, <4>3, StandsGrows
      <4> QED BY <1>3, <3>1, <4>3, <4>4 DEF Stands
    <3> QED BY <1>3, <3>1, <3>2 DEF Recorded, RecordedOf
  <2>3. ASSUME NEW r \in receipts PROVE Stands(r.by, r.is)' /\ tellings'[r.is] > 0
    <3>1. r.is \in Actions \X Offers /\ Stands(r.by, r.is) /\ tellings[r.is] > 0
        BY DEF Recorded, Typed, TenantTypeOK
    <3>2. PICK b, s : b = r.by /\ s = r.is
        OBVIOUS
    <3>3. Stands(b, s)'
        BY <1>3, <3>1, <3>2, StandsGrows
    <3> QED BY <1>3, <3>1, <3>2, <3>3
  <2> QED BY <1>3, <2>1, <2>2, <2>3 DEF Recorded
<1>4. CASE \E l \in Links : OpenOfferPage(l) \/ LinkEnds(l)
  <2>1. UNCHANGED <<at, answer, tellings, receipts, offer, case>>
      BY <1>4 DEF OpenOfferPage, LinkEnds, offerVars, timeline
  <2>2. Grow /\ Firm
      BY <2>1 DEF Grow, Firm, Accepted
  <2> QED BY <1>3, <2>1, <2>2
<1>5. CASE UNCHANGED tenantVars
  <2>1. UNCHANGED <<at, answer, tellings, receipts, offer, case>>
      BY <1>5 DEF tenantVars, offerVars, timeline
  <2>2. Grow /\ Firm
      BY <2>1 DEF Grow, Firm, Accepted
  <2> QED BY <1>3, <2>1, <2>2
<1>6. CASE Propose
  <2>1. PICK o \in Offers :
           /\ AbsentOffer(o)
           /\ offer' = [Supersede(Offers) EXCEPT ![o] = Row("SENT", LastVersion + 1, "LANDLORD", Nothing)]
           /\ case' = [case EXCEPT !.status = "NEGOTIATING", !.current = o]
           /\ UNCHANGED <<link, renewed, mailed, pages, timeline, consentVars, at, answer, receipts, refused, cutShort>>
      BY <1>6, Zenon DEF Propose
  <2>2. PICK row : row = Row("SENT", LastVersion + 1, "LANDLORD", Nothing)
      OBVIOUS
  <2>3. row.status # "ACCEPTED"
      BY <2>2 DEF Row
  <2>4. offer' = [Supersede(Offers) EXCEPT ![o] = row]
      BY <2>1, <2>2
  <2>5. /\ \A q \in Offers : Accepted(q)' <=> Accepted(q)
        /\ \A q \in Offers : offer[q].party = "TENANT" => offer'[q].party = "TENANT" /\ offer'[q].via = offer[q].via
    <3>1. AbsentOffer(o)
        BY <2>1
    <3> HIDE <2>1
    <3> QED BY <2>3, <2>4, <3>1, RowAdded
  <2>6. case \in [status : {"NEGOTIATING", "AGREED"}, decided : Offers \cup {Nothing}, current : Offers \cup {Nothing}]
      BY DEF Typed, TenantTypeOK
  <2>7. case'.decided = case.decided
      BY <2>1, <2>6
  <2>8. UNCHANGED <<at, answer, tellings, receipts>>
      BY <2>1, Zenon DEF timeline
  <2>9. Grow /\ Firm
      BY <2>5, <2>7, <2>8 DEF Grow, Firm
  <2> QED BY <1>3, <2>8, <2>9
<1> QED BY <1>1, <1>2, <1>4, <1>5, <1>6

LEMMA KeptStep ==
    TenantAssumption /\ Typed /\ Shape /\ AcceptedOnce /\ Recorded /\ [TenantNext]_tenantVars => (AcceptedOnce /\ Recorded)'
BY TenantKeeps, OthersKeep DEF TenantNext

LEMMA KeptInit == TenantAssumption /\ TenantInit => AcceptedOnce /\ Recorded
<1> SUFFICES ASSUME TenantAssumption, TenantInit PROVE AcceptedOnce /\ Recorded
    OBVIOUS
<1>1. \A o \in Offers : ~Accepted(o)
    BY DEF TenantInit, Accepted, Row
<1>2. \A e \in Actions \X Offers : tellings[e] = 0
    BY DEF TenantInit
<1>3. \A p \in Requests : at[p] = "idle"
    BY DEF TenantInit
<1>4. ASSUME NEW o \in Offers PROVE tellings[<<"ACCEPT", o>>] = 0
  <2>1. <<"ACCEPT", o>> \in Actions \X Offers
      BY DEF Actions
  <2> QED BY <1>2, <2>1
<1>5. \A o \in Offers : tellings[<<"ACCEPT", o>>] <= IF Accepted(o) THEN 1 ELSE 0
  <2>1. ASSUME NEW o \in Offers PROVE tellings[<<"ACCEPT", o>>] <= IF Accepted(o) THEN 1 ELSE 0
      BY <1>1, <1>4
  <2> QED BY <2>1, Zenon
<1>6. AcceptedOnce
    BY <1>1, <1>3, <1>5 DEF AcceptedOnce, Accepting
<1>7. Recorded
    BY <1>3 DEF TenantInit, Recorded, RecordedOf, Answered
<1> QED BY <1>6, <1>7

LEMMA KeptHolds == ASSUME TenantAssumption PROVE TenantSpec => [](Paid /\ AcceptedOnce /\ Recorded)
<1>1. TenantInit => Paid /\ AcceptedOnce /\ Recorded
    BY PaidInit, KeptInit
<1>2. Typed /\ Shape /\ Paid /\ AcceptedOnce /\ Recorded /\ [TenantNext]_tenantVars => (Paid /\ AcceptedOnce /\ Recorded)'
    BY PaidStep, KeptStep
<1> QED BY <1>1, <1>2, TypesHold, PTL DEF TenantSpec

\* renewals.ts:1229-1243, secureLinks.ts:74-109: a link's uses are the answers told
\* through it and those that were refused; an acceptance is told once; and what a
\* tenant was told is recorded stands, whoever else answers, proposes or dies.
THEOREM AnswersKeptHolds == ASSUME TenantAssumption PROVE TenantSpec => []AnswersKept
<1>1. Typed /\ Shape /\ Paid /\ AcceptedOnce /\ Recorded => AnswersKept
  <2> SUFFICES ASSUME Typed, Shape, Paid, AcceptedOnce, Recorded PROVE AnswersKept
      OBVIOUS
  <2>1. ASSUME NEW l \in Links
        PROVE  /\ toldBy[l] + refused[l] <= link[l].uses /\ link[l].uses <= MaxUses[l]
               /\ LinkAtRest(l) => link[l].uses = toldBy[l] + refused[l]
    <3>1. /\ toldBy[l] \in Nat /\ refused[l] \in Nat /\ link[l].uses \in Nat
          /\ Cardinality(Holders(l)) \in Nat
        BY FS_CardinalityType DEF Typed, TenantTypeOK, LinkTypeOK, Link, Paid
    <3>2. LinkAtRest(l) => Holders(l) = {}
        BY DEF LinkAtRest, Holders, Working, Settling, Shape, Holds
    <3> QED BY <3>1, <3>2, FS_EmptySet DEF Paid, LinkAtRest
  <2>2. ASSUME NEW r \in receipts
        PROVE  /\ tellings[r.is] > 0
               /\ r.is[1] = "ACCEPT" => offer[r.is[2]].status = "ACCEPTED" /\ case.decided = r.is[2]
               /\ r.is[1] = "COUNTER" => offer[r.is[2]].party = "TENANT" /\ offer[r.is[2]].via = r.by
    <3>1. r.is[2] \in Offers
        BY DEF Typed, TenantTypeOK
    <3> QED BY <3>1 DEF Recorded, Stands, AcceptedOnce, Accepted
  <2>3. \A o \in Offers : tellings[<<"ACCEPT", o>>] <= IF offer[o].status = "ACCEPTED" THEN 1 ELSE 0
      BY Zenon DEF AcceptedOnce, Accepted
  <2> QED BY <2>1, <2>2, <2>3 DEF AnswersKept
<1> QED BY <1>1, KeptHolds, TypesHold, PTL
=============================================================================
