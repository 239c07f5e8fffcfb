---------------------------- MODULE ImportProofs ----------------------------
(***************************************************************************)
(* Proofs about Imports, for any number of batches, rows, documents and    *)
(* requests, and any number of commits of a batch; and about Registry, for *)
(* any number of submissions, rents of any size and schedules of any       *)
(* length.                                                                 *)
(***************************************************************************)
EXTENDS Imports, Registry, WellFoundedInduction, TLAPS

(***************************************************************************)
(* What each step has in hand.  A record that an import made carries, in   *)
(* its id, the row it is of, the request that made it and the number of    *)
(* the commit it was made in, so that nothing new is ever taken for        *)
(* something archived.                                                     *)
(***************************************************************************)
Outer == {"idle", "extract", "add", "create", "detect", "conflicts", "open"}
Drafting == {"row", "write"}
Undoing == {"undo", "undone"}
Deriving == {"derive", "deriveWrite"}
Status == {"absent", "UPLOADED", "MAPPED", "COMMITTED", "ROLLED_BACK"}
Fields == {"batch", "job", "todo", "done", "seen", "nth", "target", "made", "moves", "conflicts"}

Typed ==
    /\ at \in [Requests -> Outer \cup Drafting \cup Undoing \cup Deriving]
    /\ DOMAIN work = Requests
    /\ \A p \in Requests : /\ DOMAIN work[p] = Fields /\ work[p].nth \in Nat
                           /\ at[p] \notin {"idle", "extract"} => work[p].batch \in Batches
    /\ DOMAIN row = Rows
    /\ \A r \in Rows : DOMAIN row[r] = {"status", "reason", "refs", "moves"}
    /\ batch \in [Batches -> Status] /\ commits \in [Batches -> Nat] /\ DOMAIN doc = Docs

\* What an import made has the kind of id its type says, and so have parties.
Sound(x) ==
    /\ x.id[2] \in Rows => x.id \in Ids
    /\ x.id \in Ids /\ x.type = "Contact" => IsContact(x.id)
    /\ x.id \in Ids /\ x.type = "Tenancy" => x.id[1] = "Tenancy"
    /\ x.type = "Tenancy" => \A c \in {x.landlord, x.tenant} : c \in Ids => IsContact(c)

\* The ids of a batch, as its first n commits made them.
Of(b, n) == {i \in Ids : BatchOf[i[2]] = b /\ i[4] < n}
TenancyRecords(xs) == {x \in xs : x.type = "Tenancy"}
OnePerRow(xs) == \A t, u \in TenancyRecords(xs) : t.id[2] = u.id[2] => t = u
Moved(m, b, xs) ==
    /\ FileOf[b] # None /\ m.doc = FileOf[b]
    /\ \E t \in TenancyRecords(xs) : t.id = m.to /\ t.id \in Ids /\ BatchOf[t.id[2]] = b

\* A request that is not writing has no draft; a draft is of the rows resolved
\* so far, and each of its tenancies takes the document, if the batch has one.
Draft(p) ==
    LET w == work[p]
        resolved == w.done \cup (IF at[p] = "write" THEN {w.target} ELSE {})
    IN  /\ at[p] \in Outer \cup Deriving => w.done = {} /\ w.made = {} /\ w.moves = {}
        /\ at[p] \in Drafting =>
            /\ w.todo \cup w.done \subseteq RowsOf(w.batch) /\ w.todo \cap w.done = {}
            /\ at[p] = "write" => w.target \in w.todo
            /\ w.nth <= commits[w.batch]
            /\ \A x \in w.made : /\ Sound(x) /\ x.id \in Ids /\ x.id[2] \in resolved
                                 /\ x.id[3] = p /\ x.id[4] = w.nth
            /\ OnePerRow(w.made)
            /\ \A m \in w.moves : Moved(m, w.batch, w.made)
            /\ FileOf[w.batch] # None =>
                \A t \in TenancyRecords(w.made) : \E m \in w.moves : m.to = t.id
        /\ at[p] \in Undoing =>
            /\ w.made \subseteq Of(w.batch, commits[w.batch])
            /\ \A m \in w.moves : Moved(m, w.batch, record)
        /\ at[p] \in Deriving =>
            /\ \A t \in w.todo : t \in Ids /\ BatchOf[t[2]] = w.batch
            /\ at[p] = "deriveWrite" => w.target \in Ids /\ BatchOf[w.target[2]] = w.batch

Stored ==
    /\ \A x \in record : /\ Sound(x)
                         /\ x.id \in Ids => x.id[4] < commits[BatchOf[x.id[2]]]
    /\ \A r \in Rows : /\ \A i \in row[r].refs : i[2] = r /\ i \in Of(BatchOf[r], commits[BatchOf[r]])
                       /\ \A m \in row[r].moves : Moved(m, BatchOf[r], record)
    /\ \A i \in archived : i \in Ids /\ i[4] < commits[BatchOf[i[2]]]

ShapeInv == Typed /\ Stored /\ \A p \in Requests : Draft(p)

(***************************************************************************)
(* A batch committed once is remembered whole by its rows, and a rollback  *)
(* of it has all of that in hand.                                          *)
(***************************************************************************)
Remembered ==
    /\ \A b \in Batches : batch[b] \in {"COMMITTED", "ROLLED_BACK"} => commits[b] > 0
    /\ \A p \in Requests : at[p] \in Undoing => commits[work[p].batch] > 0
    /\ \A x \in record : x.id \in Ids =>
        /\ commits[BatchOf[x.id[2]]] > 0
        /\ commits[BatchOf[x.id[2]]] = 1 => x.id \in row[x.id[2]].refs
    /\ \A p \in Requests, x \in record :
        x.id \in Ids /\ at[p] \in Undoing /\ work[p].batch = BatchOf[x.id[2]]
            /\ commits[BatchOf[x.id[2]]] = 1
        => x.id \in work[p].made \/ (at[p] = "undone" /\ IsContact(x.id))

RollbackInv == ShapeInv /\ Remembered /\ RollbackComplete

(***************************************************************************)
(* Who met whom.                                                           *)
(***************************************************************************)
Met ==
    /\ \A p, q \in Requests : p # q /\ at[p] \in Writing /\ at[q] \in Writing =>
            work[p].batch \in crossed
    /\ \A p, q \in Requests : at[p] \in Writing /\ Adding(q, work[p].batch) =>
            work[p].batch \in crossed
    /\ \A p \in Requests : at[p] \notin {"idle", "extract"} => batch[work[p].batch] # "absent"

\* What is derived is live, unless a rollback came across.
DueInv ==
    /\ NothingDueArchived
    /\ \A p \in Requests : at[p] = "deriveWrite" /\ work[p].target \in archived =>
            work[p].batch \in crossed

PartiesIn(xs, gone) == \A t \in TenancyRecords(xs) : {t.landlord, t.tenant} \cap gone = {}
LiveInv ==
    crossed = {} =>
        /\ PartiesLive
        /\ \A p \in Requests :
            /\ at[p] \in Drafting => work[p].nth = commits[work[p].batch]
                                     /\ PartiesIn(work[p].made, archived)
            /\ at[p] = "undone" =>
                \A t \in LiveOf("Tenancy") :
                    t.id \in work[p].made \/ {t.landlord, t.tenant} \cap work[p].made = {}

DanglingInv == ShapeInv /\ Met /\ DueInv /\ LiveInv

(***************************************************************************)
(* A batch without company is committed once; a document whose readings    *)
(* had none is attached to the one live tenancy made from it.              *)
(***************************************************************************)
Once ==
    /\ \A b \in Batches : commits[b] > 1 => b \in crossed
    /\ \A b \in Batches : commits[b] > 0 =>
            /\ batch[b] # "absent"
            /\ b \notin crossed => Final(b) /\ \A q \in Requests : ~Adding(q, b)
    /\ \A p \in Requests : work[p].batch \notin crossed =>
            /\ at[p] \in Drafting => commits[work[p].batch] = 0
            /\ at[p] \in Undoing => batch[work[p].batch] = "COMMITTED"

Quiet(f) == f # None /\ \A b \in Batches : FileOf[b] = f => b \notin crossed
From(f) == {t \in LiveOf("Tenancy") : Source(t) = f}

Attached ==
    /\ \A t, u \in TenancyRecords(record) :
        t.id \in Ids /\ t.id[2] = u.id[2] /\ BatchOf[t.id[2]] \notin crossed => t = u
    /\ \A t \in TenancyRecords(record) :
        t.id \in archived => batch[BatchOf[t.id[2]]] # "COMMITTED" \/ BatchOf[t.id[2]] \in crossed
    /\ \A t \in LiveOf("Tenancy") : Quiet(Source(t)) => doc[Source(t)] = t.id
    /\ \A p \in Requests : at[p] \in Drafting /\ TenancyRecords(work[p].made) # {} /\ Quiet(FileOf[work[p].batch]) =>
            From(FileOf[work[p].batch]) = {}

OnceInv == RollbackInv /\ Met /\ Once /\ Attached

-----------------------------------------------------------------------------
(* Steps *)

RowFields == {"status", "reason", "refs", "moves"}
RowsKept == \A r \in Rows : row'[r].refs = row[r].refs /\ row'[r].moves = row[r].moves
Others(p) == \A q \in Requests \ {p} : at'[q] = at[q] /\ work'[q] = work[q]

\* Everything up to a commit, and the ways out of one.
Outers(p) ==
    \/ \E j \in Jobs : Extract(p, j) \/ \E b \in Batches : Review(p, j, b)
    \/ \E b \in Batches : Upload(p, b)
    \/ Extracted(p)
    \/ AddRows(p) \/ AddRefused(p) \/ MarkMapped(p) \/ DetectRead(p) \/ Detected(p)
    \/ \E r \in Rows : CreateRow(p, r) \/ Detect(p, r) \/ RowRefused(p, r)
    \/ CommitRefused(p) \/ CommitDone(p)

OuterMove(p) ==
    /\ at[p] \in Outer \cup {"row", "derive"} /\ at'[p] \in Outer
    /\ Others(p) /\ RowsKept
    /\ work'[p].done = {} /\ work'[p].made = {} /\ work'[p].moves = {}
    /\ at'[p] \in {"idle", "extract"}
       \/ (at[p] \notin {"idle", "extract"} /\ work'[p].batch = work[p].batch
           /\ (at'[p] # "open" => at[p] \in {"add", "create", "detect", "conflicts"}))
       \/ (batch[work'[p].batch] = "absent" /\ batch'[work'[p].batch] = "UPLOADED")
    /\ \A b \in Batches : \/ batch'[b] = batch[b]
                          \/ batch'[b] \in {"UPLOADED", "MAPPED"} /\ batch[b] = "absent"
                          \/ batch'[b] \in {"UPLOADED", "MAPPED"} /\ Adding(p, b)
    /\ UNCHANGED <<record, archived, doc, due, commits, crossed>>

USE DEF sheet, directory, derived, importVars

\* What a request keeps, it alone keeps.
LEMMA KeepsItsOwn ==
    ASSUME Typed, NEW p \in Requests, NEW w, Keep(p, w), DOMAIN w = Fields, w.nth \in Nat
    PROVE  /\ work'[p] = w /\ DOMAIN work' = Requests
           /\ \A q \in Requests \ {p} : work'[q] = work[q]
           /\ \A q \in Requests : DOMAIN work'[q] = Fields /\ work'[q].nth \in Nat
BY DEF Keep, Typed

LEMMA GoesItsWay ==
    ASSUME Typed, NEW p \in Requests, NEW from, NEW to, Go(p, from, to)
    PROVE  /\ at[p] = from /\ at'[p] = to /\ \A q \in Requests \ {p} : at'[q] = at[q]
           /\ to \in Outer \cup Drafting \cup Undoing \cup Deriving
                => at' \in [Requests -> Outer \cup Drafting \cup Undoing \cup Deriving]
BY DEF Go, Typed

LEMMA IdleShape ==
    /\ DOMAIN Idle = Fields /\ Idle.nth = 0 /\ Idle.done = {} /\ Idle.made = {} /\ Idle.moves = {}
    /\ Idle.todo = {}
BY DEF Idle, Fields

LEMMA ReturnsIdle ==
    ASSUME Typed, NEW p \in Requests, NEW from, Return(p, from)
    PROVE  /\ at[p] = from /\ at'[p] = "idle" /\ work'[p] = Idle /\ Others(p)
           /\ at' \in [Requests -> Outer \cup Drafting \cup Undoing \cup Deriving]
           /\ DOMAIN work' = Requests
           /\ \A q \in Requests : DOMAIN work'[q] = Fields /\ work'[q].nth \in Nat
<1>1. Go(p, from, "idle") /\ Keep(p, Idle)  BY DEF Return
<1>2. /\ at[p] = from /\ at'[p] = "idle" /\ \A q \in Requests \ {p} : at'[q] = at[q]
      /\ at' \in [Requests -> Outer \cup Drafting \cup Undoing \cup Deriving]
    BY <1>1, GoesItsWay DEF Outer
<1>3. /\ work'[p] = Idle /\ DOMAIN work' = Requests
      /\ \A q \in Requests \ {p} : work'[q] = work[q]
      /\ \A q \in Requests : DOMAIN work'[q] = Fields /\ work'[q].nth \in Nat
    BY <1>1, IdleShape, KeepsItsOwn
<1> QED BY <1>2, <1>3 DEF Others

\* A step that ends the request, and writes no row.
LEMMA Leaves ==
    ASSUME ImportsAssumption, Typed, NEW p \in Requests, NEW from, Return(p, from),
           from \in Outer \cup {"row", "derive"}, UNCHANGED <<sheet, directory, due, crossed>>
    PROVE  OuterMove(p) /\ Typed'
<1>1. /\ at[p] = from /\ at'[p] = "idle" /\ work'[p] = Idle /\ Others(p)
      /\ at' \in [Requests -> Outer \cup Drafting \cup Undoing \cup Deriving]
      /\ DOMAIN work' = Requests
      /\ \A q \in Requests : DOMAIN work'[q] = Fields /\ work'[q].nth \in Nat
    BY ReturnsIdle
<1>2. Typed'  BY <1>1 DEF Typed, Others
<1>3. RowsKept  BY DEF RowsKept
<1> QED BY <1>1, <1>2, <1>3, IdleShape DEF OuterMove, Outer

\* A step from one outer place to another that keeps w, which has no draft.
LEMMA Wanders ==
    ASSUME ImportsAssumption, Typed, NEW p \in Requests, NEW from, NEW to, NEW w,
           at[p] = from, at'[p] = to, \A q \in Requests \ {p} : at'[q] = at[q],
           at' \in [Requests -> Outer \cup Drafting \cup Undoing \cup Deriving],
           from \in Outer, to \in Outer,
           Keep(p, w), DOMAIN w = Fields, w.nth \in Nat, w.done = {}, w.made = {}, w.moves = {},
           DOMAIN row' = Rows, \A r \in Rows : DOMAIN row'[r] = RowFields, RowsKept,
           batch' \in [Batches -> Status],
           UNCHANGED <<record, archived, doc, due, commits, crossed>>,
           to \notin {"idle", "extract"} => w.batch \in Batches,
           \/ to \in {"idle", "extract"}
           \/ from \notin {"idle", "extract"} /\ w.batch = work[p].batch
              /\ (to # "open" => from \in {"add", "create", "detect", "conflicts"})
           \/ batch[w.batch] = "absent" /\ batch'[w.batch] = "UPLOADED",
           \A b \in Batches : \/ batch'[b] = batch[b]
                              \/ batch'[b] \in {"UPLOADED", "MAPPED"} /\ batch[b] = "absent"
                              \/ batch'[b] \in {"UPLOADED", "MAPPED"} /\ Adding(p, b)
    PROVE  OuterMove(p) /\ Typed'
<1>1. /\ work'[p] = w /\ DOMAIN work' = Requests
      /\ \A q \in Requests \ {p} : work'[q] = work[q]
      /\ \A q \in Requests : DOMAIN work'[q] = Fields /\ work'[q].nth \in Nat
    BY KeepsItsOwn
<1>2. \A q \in Requests : at'[q] \notin {"idle", "extract"} => work'[q].batch \in Batches
    BY <1>1 DEF Typed
<1>3. Typed'
    BY <1>1, <1>2 DEF Typed, RowFields
<1>4. Others(p)  BY <1>1 DEF Others
<1> QED BY <1>1, <1>3, <1>4 DEF OuterMove

LEMMA OuterSteps ==
    ASSUME ImportsAssumption, Typed, NEW p \in Requests, Draft(p), Outers(p)
    PROVE  OuterMove(p) /\ Typed'
<1> DEFINE w == work[p]
<1>0. /\ at[p] \in Outer => w.done = {} /\ w.made = {} /\ w.moves = {}
      /\ DOMAIN w = Fields /\ w.nth \in Nat
      /\ at[p] \notin {"idle", "extract"} => w.batch \in Batches
      /\ batch \in [Batches -> Status] /\ DOMAIN row = Rows
      /\ \A r \in Rows : DOMAIN row[r] = RowFields
    BY DEF Draft, Typed, RowFields
<1>r. row' = row => RowsKept /\ DOMAIN row' = Rows /\ \A r \in Rows : DOMAIN row'[r] = RowFields
    BY <1>0 DEF RowsKept
<1>1. ASSUME NEW j \in Jobs, Extract(p, j) PROVE OuterMove(p) /\ Typed'
  <2>1. Go(p, "idle", "extract") /\ Keep(p, [Idle EXCEPT !.job = j])
        /\ UNCHANGED <<row, batch, record, archived, doc, due, commits, crossed>>
      BY <1>1 DEF Extract
  <2>2. at[p] = "idle" /\ at'[p] = "extract" /\ (\A q \in Requests \ {p} : at'[q] = at[q])
        /\ at' \in [Requests -> Outer \cup Drafting \cup Undoing \cup Deriving]
      BY <2>1, GoesItsWay DEF Outer
  <2>3. PICK x : x = [Idle EXCEPT !.job = j]  OBVIOUS
  <2>4. DOMAIN x = Fields /\ x.nth \in Nat /\ x.done = {} /\ x.made = {} /\ x.moves = {}
      BY <2>3 DEF Idle, Fields
  <2>5. Keep(p, x)  BY <2>1, <2>3
  <2> QED BY <1>0, <1>r, <2>1, <2>2, <2>4, <2>5, Wanders DEF Outer
<1>2. ASSUME NEW j \in Jobs, NEW b \in Batches, Review(p, j, b) PROVE OuterMove(p) /\ Typed'
  <2>1. Go(p, "idle", "add") /\ Keep(p, [Idle EXCEPT !.batch = b, !.job = j, !.todo = RowsOf(b)])
        /\ batch[b] = "absent" /\ batch' = [batch EXCEPT ![b] = "UPLOADED"]
        /\ UNCHANGED <<row, record, archived, doc, due, commits, crossed>>
      BY <1>2 DEF Review
  <2>2. at[p] = "idle" /\ at'[p] = "add" /\ (\A q \in Requests \ {p} : at'[q] = at[q])
        /\ at' \in [Requests -> Outer \cup Drafting \cup Undoing \cup Deriving]
      BY <2>1, GoesItsWay DEF Outer
  <2>3. PICK x : x = [Idle EXCEPT !.batch = b, !.job = j, !.todo = RowsOf(b)]  OBVIOUS
  <2>4. DOMAIN x = Fields /\ x.nth \in Nat /\ x.done = {} /\ x.made = {} /\ x.moves = {} /\ x.batch = b
      BY <2>3 DEF Idle, Fields
  <2>5. /\ batch' \in [Batches -> Status] /\ batch'[b] = "UPLOADED"
        /\ \A c \in Batches : c # b => batch'[c] = batch[c]
      BY <1>0, <2>1 DEF Status
  <2>6. Keep(p, x)  BY <2>1, <2>3
  <2> QED BY <1>r, <2>1, <2>2, <2>4, <2>5, <2>6, Wanders DEF Outer
<1>3. ASSUME NEW b \in Batches, Upload(p, b) PROVE OuterMove(p) /\ Typed'
  <2> DEFINE rows == {r \in RowsOf(b) : Parses(Data[r].cells)}
  <2>1. Go(p, "idle", "add") /\ Keep(p, [Idle EXCEPT !.batch = b, !.todo = rows])
        /\ batch[b] = "absent" /\ batch' = [batch EXCEPT ![b] = "UPLOADED"]
        /\ UNCHANGED <<row, record, archived, doc, due, commits, crossed>>
      BY <1>3 DEF Upload
  <2>2. at[p] = "idle" /\ at'[p] = "add" /\ (\A q \in Requests \ {p} : at'[q] = at[q])
        /\ at' \in [Requests -> Outer \cup Drafting \cup Undoing \cup Deriving]
      BY <2>1, GoesItsWay DEF Outer
  <2> HIDE DEF rows
  <2>3. PICK x : x = [Idle EXCEPT !.batch = b, !.todo = rows]  OBVIOUS
  <2>4. DOMAIN x = Fields /\ x.nth \in Nat /\ x.done = {} /\ x.made = {} /\ x.moves = {} /\ x.batch = b
      BY <2>3 DEF Idle, Fields
  <2>5. /\ batch' \in [Batches -> Status] /\ batch'[b] = "UPLOADED"
        /\ \A c \in Batches : c # b => batch'[c] = batch[c]
      BY <1>0, <2>1 DEF Status
  <2>6. Keep(p, x)  BY <2>1, <2>3
  <2> QED BY <1>r, <2>1, <2>2, <2>4, <2>5, <2>6, Wanders DEF Outer
<1>4. ASSUME Extracted(p) \/ AddRefused(p) \/ CommitRefused(p) \/ CommitDone(p)
             \/ \E r \in Rows : RowRefused(p, r)
      PROVE  OuterMove(p) /\ Typed'
  <2>1. UNCHANGED <<sheet, directory, due, crossed>>
      BY <1>4 DEF Extracted, AddRefused, CommitRefused, CommitDone, RowRefused
  <2>2. PICK from \in Outer \cup {"row", "derive"} : Return(p, from)
      BY <1>4 DEF Extracted, AddRefused, CommitRefused, CommitDone, RowRefused, Outer
  <2> QED BY <2>1, <2>2, Leaves
<1>5. CASE AddRows(p)
  <2>1. Go(p, "add", "create") /\ work' = work
        /\ UNCHANGED <<row, batch, record, archived, doc, due, commits, crossed>>
      BY <1>5 DEF AddRows
  <2>2. at[p] = "add" /\ at'[p] = "create" /\ (\A q \in Requests \ {p} : at'[q] = at[q])
        /\ at' \in [Requests -> Outer \cup Drafting \cup Undoing \cup Deriving]
      BY <2>1, GoesItsWay DEF Outer
  <2>3. Typed'  BY <1>0, <2>1, <2>2 DEF Typed
  <2> QED BY <1>0, <1>r, <2>1, <2>2, <2>3 DEF OuterMove, Outer, Others
<1>6. CASE MarkMapped(p)
  <2>1. Go(p, "create", "detect") /\ work' = work /\ batch' = [batch EXCEPT ![w.batch] = "MAPPED"]
        /\ UNCHANGED <<row, record, archived, doc, due, commits, crossed>>
      BY <1>6 DEF MarkMapped
  <2>2. at[p] = "create" /\ at'[p] = "detect" /\ (\A q \in Requests \ {p} : at'[q] = at[q])
        /\ at' \in [Requests -> Outer \cup Drafting \cup Undoing \cup Deriving]
      BY <2>1, GoesItsWay DEF Outer
  <2>3. batch' \in [Batches -> Status] /\ batch'[w.batch] = "MAPPED"
        /\ (\A c \in Batches : c # w.batch => batch'[c] = batch[c]) /\ w.batch \in Batches
      BY <1>0, <2>1, <2>2 DEF Status
  <2>4. Typed'  BY <1>0, <2>1, <2>2, <2>3 DEF Typed
  <2>5. Adding(p, w.batch)  BY <2>2 DEF Adding
  <2> QED BY <1>0, <1>r, <2>1, <2>2, <2>3, <2>4, <2>5 DEF OuterMove, Outer, Others
<1>7. CASE Detected(p)
  <2>1. UNCHANGED <<sheet, directory, due, crossed>>  BY <1>7 DEF Detected
  <2>2. CASE Return(p, "conflicts")
      BY <2>1, <2>2, Leaves DEF Outer
  <2>3. CASE Go(p, "conflicts", "open") /\ work' = work
    <3>1. at[p] = "conflicts" /\ at'[p] = "open" /\ (\A q \in Requests \ {p} : at'[q] = at[q])
          /\ at' \in [Requests -> Outer \cup Drafting \cup Undoing \cup Deriving]
        BY <2>3, GoesItsWay DEF Outer
    <3>2. Typed'  BY <1>0, <2>1, <2>3, <3>1 DEF Typed
    <3> QED BY <1>0, <1>r, <2>1, <2>3, <3>1, <3>2 DEF OuterMove, Outer, Others
  <2> QED BY <1>7, <2>2, <2>3 DEF Detected
<1>8. CASE DetectRead(p)
  <2> DEFINE rows == {r \in RowsOf(work[p].batch) : row[r].status \in {"PENDING", "CONFLICT"}}
  <2>1. Go(p, "detect", "conflicts") /\ Keep(p, [work[p] EXCEPT !.todo = rows])
        /\ UNCHANGED <<row, batch, record, archived, doc, due, commits, crossed>>
      BY <1>8 DEF DetectRead
  <2>2. at[p] = "detect" /\ at'[p] = "conflicts" /\ (\A q \in Requests \ {p} : at'[q] = at[q])
        /\ at' \in [Requests -> Outer \cup Drafting \cup Undoing \cup Deriving]
      BY <2>1, GoesItsWay DEF Outer
  <2> HIDE DEF rows
  <2>3. PICK x : x = [work[p] EXCEPT !.todo = rows]  OBVIOUS
  <2>4. DOMAIN x = Fields /\ x.nth \in Nat /\ x.done = {} /\ x.made = {} /\ x.moves = {}
        /\ x.batch = work[p].batch
      BY <1>0, <2>2, <2>3 DEF Fields, Outer
  <2>6. Keep(p, x)  BY <2>1, <2>3
  <2> QED BY <1>0, <1>r, <2>1, <2>2, <2>4, <2>6, Wanders DEF Outer
<1>9. ASSUME NEW r \in Rows, CreateRow(p, r) PROVE OuterMove(p) /\ Typed'
  <2>1. at[p] = "create" /\ row' = [row EXCEPT ![r].status = "PENDING"]
        /\ Keep(p, [work[p] EXCEPT !.todo = @ \ {r}])
        /\ UNCHANGED <<at, batch, record, archived, doc, due, commits, crossed>>
      BY <1>9 DEF CreateRow
  <2>2. DOMAIN row' = Rows /\ (\A s \in Rows : DOMAIN row'[s] = RowFields) /\ RowsKept
      BY <1>0, <2>1 DEF RowsKept, RowFields
  <2>3. PICK x : x = [work[p] EXCEPT !.todo = @ \ {r}]  OBVIOUS
  <2>4. DOMAIN x = Fields /\ x.nth \in Nat /\ x.done = {} /\ x.made = {} /\ x.moves = {}
        /\ x.batch = work[p].batch
      BY <1>0, <2>1, <2>3 DEF Fields, Outer
  <2>5. at'[p] = "create" /\ at' \in [Requests -> Outer \cup Drafting \cup Undoing \cup Deriving]
      BY <2>1 DEF Typed
  <2>6. Keep(p, x)  BY <2>1, <2>3
  <2> QED BY <1>0, <2>1, <2>2, <2>4, <2>5, <2>6, Wanders DEF Outer
<1>10. ASSUME NEW r \in Rows, Detect(p, r) PROVE OuterMove(p) /\ Typed'
  <2>1. PICK reason : row' = [row EXCEPT
                ![r].status = IF reason = None THEN "PENDING" ELSE "CONFLICT", ![r].reason = reason]
      BY <1>10 DEF Detect
  <2>2. at[p] = "conflicts" /\ Keep(p, [work[p] EXCEPT !.todo = @ \ {r}, !.seen = @ \cup {Data[r].ejari}])
        /\ UNCHANGED <<at, batch, record, archived, doc, due, commits, crossed>>
      BY <1>10 DEF Detect
  <2>3. DOMAIN row' = Rows /\ (\A s \in Rows : DOMAIN row'[s] = RowFields) /\ RowsKept
      BY <1>0, <2>1 DEF RowsKept, RowFields
  <2>4. PICK x : x = [work[p] EXCEPT !.todo = @ \ {r}, !.seen = @ \cup {Data[r].ejari}]  OBVIOUS
  <2>5. DOMAIN x = Fields /\ x.nth \in Nat /\ x.done = {} /\ x.made = {} /\ x.moves = {}
        /\ x.batch = work[p].batch
      BY <1>0, <2>2, <2>4 DEF Fields, Outer
  <2>6. Keep(p, x)  BY <2>2, <2>4
  <2>7. at'[p] = "conflicts" /\ at' \in [Requests -> Outer \cup Drafting \cup Undoing \cup Deriving]
      BY <2>2 DEF Typed
  <2> QED BY <1>0, <2>2, <2>3, <2>5, <2>6, <2>7, Wanders DEF Outer
<1> QED BY <1>1, <1>2, <1>3, <1>4, <1>5, <1>6, <1>7, <1>8, <1>9, <1>10 DEF Outers

\* What the steps from a commit's read to its last derivation, and those of a
\* rollback, leave of a request and of the rest.
Table == <<batch, row, commits, record, archived, doc>>

CommitReadMove(p, b) ==
    /\ b \in Batches /\ at[p] \in {"idle", "open"} /\ at'[p] = "row" /\ Others(p)
    /\ work'[p].batch = b /\ work'[p].nth = commits[b] /\ work'[p].todo \subseteq RowsOf(b)
    /\ work'[p].done = work[p].done /\ work'[p].made = work[p].made
    /\ work'[p].moves = work[p].moves
    /\ batch[b] # "absent" /\ ~Final(b) /\ Company(p, b)
    /\ UNCHANGED <<Table, due>>

RollbackReadMove(p, b) ==
    /\ b \in Batches /\ at[p] = "idle" /\ at'[p] = "undo" /\ Others(p)
    /\ work'[p].batch = b /\ work'[p].made = UNION {row[r].refs : r \in RowsOf(b)}
    /\ work'[p].moves = UNION {row[r].moves : r \in RowsOf(b)}
    /\ batch[b] = "COMMITTED" /\ Company(p, b)
    /\ UNCHANGED <<Table, due>>

ResolveMove(p, r, o, t, place) ==
    LET file == FileOf[work[p].batch]
    IN  /\ at[p] = "row" /\ at'[p] = "write" /\ Others(p)
        /\ work'[p].batch = work[p].batch /\ work'[p].nth = work[p].nth
        /\ work'[p].todo = work[p].todo /\ work'[p].done = work[p].done
        /\ r \in work[p].todo /\ work'[p].target = r
        /\ o \in Bound(p, "OWNER", r) /\ t \in Bound(p, "TENANT", r) /\ place \in PlaceOf(p, r)
        /\ file # None => ~AttachedElsewhere(file, place)
        /\ work'[p].made = work[p].made \cup Made(p, r, o, t, place)
        /\ file = None => work'[p].moves = work[p].moves
        /\ file # None => work'[p].moves = work[p].moves \cup
                {[doc |-> file, from |-> doc[file], to |-> New(p, "Tenancy", r)]}
        /\ UNCHANGED <<Table, due, crossed>>

WriteMove(p) ==
    /\ at[p] = "write" /\ at'[p] = "row" /\ Others(p)
    /\ work'[p].batch = work[p].batch /\ work'[p].nth = work[p].nth
    /\ work'[p].todo = work[p].todo \ {work[p].target}
    /\ work'[p].done = work[p].done \cup {work[p].target}
    /\ work'[p].made = work[p].made /\ work'[p].moves = work[p].moves
    /\ UNCHANGED <<Table, due, crossed>>

CommitMove(p) ==
    LET w == work[p]
    IN  /\ at[p] = "row" /\ at'[p] = "derive" /\ Others(p)
        /\ w.todo = {} /\ work'[p].batch = w.batch
        /\ work'[p].todo = {x.id : x \in TenancyRecords(w.made)}
        /\ work'[p].done = {} /\ work'[p].made = {} /\ work'[p].moves = {}
        /\ record' = record \cup w.made
        /\ \A d \in Docs : /\ (\A m \in w.moves : m.doc # d) => doc'[d] = doc[d]
                           /\ \/ \A m \in w.moves : m.doc # d
                              \/ \E m \in w.moves : m.doc = d /\ doc'[d] = m.to
        /\ \A r \in Rows :
            /\ r \notin w.done => row'[r].refs = row[r].refs /\ row'[r].moves = row[r].moves
            /\ r \in w.done => row'[r].refs = Refs(w.made, r) /\ row'[r].moves = w.moves
        /\ batch'[w.batch] = "COMMITTED" /\ commits'[w.batch] = commits[w.batch] + 1
        /\ \A b \in Batches \ {w.batch} : batch'[b] = batch[b] /\ commits'[b] = commits[b]
        /\ UNCHANGED <<archived, due, crossed>>

DeriveMove(p) ==
    LET w == work[p]
    IN  /\ at[p] \in Deriving /\ at'[p] \in Deriving /\ Others(p)
        /\ work'[p].batch = w.batch /\ work'[p].todo \subseteq w.todo
        /\ work'[p].done = w.done /\ work'[p].made = w.made /\ work'[p].moves = w.moves
        /\ at'[p] = "deriveWrite" => work'[p].target \in w.todo \ archived
        /\ due' \subseteq due \/ (at[p] = "deriveWrite" /\ due' = due \cup {w.target})
        /\ UNCHANGED <<Table, crossed>>

UndoMove(p) ==
    LET ids == work[p].made
    IN  /\ at[p] = "undo" /\ at'[p] = "undone" /\ Others(p)
        /\ work'[p].batch = work[p].batch /\ work'[p].moves = work[p].moves
        /\ work'[p].made = ids \ {c \in ids : IsContact(c) /\ Referenced(c, ids)}
        /\ UNCHANGED <<Table, due, crossed>>

UndoneMove(p) ==
    LET w == work[p]
    IN  /\ at[p] = "undone" /\ at'[p] = "idle" /\ Others(p) /\ work'[p] = Idle
        /\ archived' = archived \cup w.made /\ due' = due \ w.made
        /\ \A d \in Docs : (\A m \in w.moves : m.doc # d) => doc'[d] = doc[d]
        /\ batch'[w.batch] = "ROLLED_BACK"
        /\ \A b \in Batches \ {w.batch} : batch'[b] = batch[b]
        /\ UNCHANGED <<row, commits, record, crossed>>

\* A step that goes from one place to another and keeps w, and writes no table.
LEMMA Proceeds ==
    ASSUME Typed, NEW p \in Requests, NEW w, Keep(p, w), DOMAIN w = Fields, w.nth \in Nat,
           w.batch \in Batches, UNCHANGED Table, \A q \in Requests \ {p} : at'[q] = at[q],
           at' \in [Requests -> Outer \cup Drafting \cup Undoing \cup Deriving]
    PROVE  Typed' /\ Others(p) /\ work'[p] = w
<1>1. /\ work'[p] = w /\ DOMAIN work' = Requests
      /\ \A q \in Requests \ {p} : work'[q] = work[q]
      /\ \A q \in Requests : DOMAIN work'[q] = Fields /\ work'[q].nth \in Nat
    BY KeepsItsOwn
<1>2. \A q \in Requests : at'[q] \notin {"idle", "extract"} => work'[q].batch \in Batches
    BY <1>1 DEF Typed
<1> QED BY <1>1, <1>2 DEF Typed, Others, Table

LEMMA CommitReads ==
    ASSUME Typed, NEW p \in Requests, NEW b \in Batches, CommitRead(p, b)
    PROVE  CommitReadMove(p, b) /\ Typed'
<1> DEFINE rows == {r \in RowsOf(b) : row[r].status \in {"PENDING", "ACCEPTED"}}
           clashing == {r \in RowsOf(b) : row[r].reason = "overlap" /\ row[r].status = "CONFLICT"}
<1> HIDE DEF rows, clashing
<1>1. PICK x : x = [work[p] EXCEPT !.batch = b, !.nth = commits[b], !.todo = rows,
                                   !.conflicts = clashing]
    OBVIOUS
<1>2. Keep(p, x) /\ at' = [at EXCEPT ![p] = "row"] /\ at[p] \in {"idle", "open"}
      /\ batch[b] # "absent" /\ ~Final(b) /\ Company(p, b)
      /\ UNCHANGED <<Table, due>>
    BY <1>1 DEF CommitRead, Table, rows, clashing
<1>3. rows \subseteq RowsOf(b)  BY DEF rows
<1>4. DOMAIN x = Fields /\ x.nth = commits[b] /\ x.done = work[p].done /\ x.made = work[p].made
      /\ x.moves = work[p].moves /\ x.batch = b /\ x.todo = rows
    BY <1>1 DEF Typed, Fields
<1>5. x.nth \in Nat  BY <1>4 DEF Typed
<1>6. at'[p] = "row" /\ (\A q \in Requests \ {p} : at'[q] = at[q])
      /\ at' \in [Requests -> Outer \cup Drafting \cup Undoing \cup Deriving]
    BY <1>2 DEF Typed, Drafting
<1>7. Typed' /\ Others(p) /\ work'[p] = x
    BY <1>2, <1>4, <1>5, <1>6, Proceeds
<1> QED BY <1>2, <1>3, <1>4, <1>6, <1>7 DEF CommitReadMove

LEMMA RollbackReads ==
    ASSUME Typed, NEW p \in Requests, NEW b \in Batches, RollbackRead(p, b)
    PROVE  RollbackReadMove(p, b) /\ Typed'
<1> DEFINE ids == UNION {row[r].refs : r \in RowsOf(b)}
           back == UNION {row[r].moves : r \in RowsOf(b)}
<1> HIDE DEF ids, back
<1>1. PICK x : x = [Idle EXCEPT !.batch = b, !.made = ids, !.moves = back]
    OBVIOUS
<1>2. Keep(p, x) /\ Go(p, "idle", "undo") /\ batch[b] = "COMMITTED" /\ Company(p, b)
      /\ UNCHANGED <<Table, due>>
    BY <1>1 DEF RollbackRead, Table, ids, back
<1>4. DOMAIN x = Fields /\ x.nth \in Nat /\ x.made = ids /\ x.moves = back /\ x.batch = b
    BY <1>1 DEF Idle, Fields
<1>6. at[p] = "idle" /\ at'[p] = "undo" /\ (\A q \in Requests \ {p} : at'[q] = at[q])
      /\ at' \in [Requests -> Outer \cup Drafting \cup Undoing \cup Deriving]
    BY <1>2, GoesItsWay DEF Undoing
<1>7. Typed' /\ Others(p) /\ work'[p] = x
    BY <1>2, <1>4, <1>6, Proceeds
<1> QED BY <1>2, <1>4, <1>6, <1>7 DEF RollbackReadMove, ids, back

LEMMA Resolves ==
    ASSUME Typed, NEW p \in Requests, NEW r \in Rows, ResolveRow(p, r)
    PROVE  (\E o, t, place : ResolveMove(p, r, o, t, place)) /\ Typed'
<1> DEFINE file == FileOf[work[p].batch]
           moves == IF file = None THEN work[p].moves
                    ELSE work[p].moves \cup {[doc |-> file, from |-> doc[file],
                                              to |-> New(p, "Tenancy", r)]}
<1>1. PICK o \in Bound(p, "OWNER", r), t \in Bound(p, "TENANT", r), place \in PlaceOf(p, r) :
        /\ file # None => ~AttachedElsewhere(file, place)
        /\ Keep(p, [work[p] EXCEPT !.target = r, !.made = @ \cup Made(p, r, o, t, place),
                                   !.moves = moves])
    BY Zenon DEF ResolveRow
<1>2. PICK x : x = [work[p] EXCEPT !.target = r, !.made = @ \cup Made(p, r, o, t, place),
                                   !.moves = moves]
    OBVIOUS
<1>3. Keep(p, x) /\ Go(p, "row", "write") /\ r \in work[p].todo /\ UNCHANGED <<Table, due, crossed>>
    BY <1>1, <1>2 DEF ResolveRow, Table
<1> HIDE DEF moves
<1>4. DOMAIN x = Fields /\ x.nth = work[p].nth /\ x.done = work[p].done /\ x.todo = work[p].todo
      /\ x.made = work[p].made \cup Made(p, r, o, t, place)
      /\ x.moves = moves /\ x.batch = work[p].batch /\ x.target = r
    BY <1>2 DEF Typed, Fields
<1>5. at[p] = "row" /\ at'[p] = "write" /\ (\A q \in Requests \ {p} : at'[q] = at[q])
      /\ at' \in [Requests -> Outer \cup Drafting \cup Undoing \cup Deriving]
    BY <1>3, GoesItsWay DEF Drafting
<1>6. x.nth \in Nat /\ x.batch \in Batches
    BY <1>4, <1>5 DEF Typed
<1>7. Typed' /\ Others(p) /\ work'[p] = x
    BY <1>3, <1>4, <1>5, <1>6, Proceeds
<1>8. /\ file = None => moves = work[p].moves
      /\ file # None => moves = work[p].moves \cup
            {[doc |-> file, from |-> doc[file], to |-> New(p, "Tenancy", r)]}
    BY DEF moves
<1>9. ResolveMove(p, r, o, t, place)
    BY <1>1, <1>3, <1>4, <1>5, <1>7, <1>8 DEF ResolveMove
<1> QED BY <1>7, <1>9

LEMMA Writes ==
    ASSUME Typed, NEW p \in Requests, WriteRow(p)
    PROVE  WriteMove(p) /\ Typed'
<1>1. PICK x : x = [work[p] EXCEPT !.todo = @ \ {work[p].target}, !.done = @ \cup {work[p].target}]
    OBVIOUS
<1>2. Keep(p, x) /\ Go(p, "write", "row") /\ UNCHANGED <<Table, due, crossed>>
    BY <1>1 DEF WriteRow, Table
<1>4. DOMAIN x = Fields /\ x.nth = work[p].nth /\ x.made = work[p].made /\ x.moves = work[p].moves
      /\ x.batch = work[p].batch /\ x.todo = work[p].todo \ {work[p].target}
      /\ x.done = work[p].done \cup {work[p].target}
    BY <1>1 DEF Typed, Fields
<1>5. at[p] = "write" /\ at'[p] = "row" /\ (\A q \in Requests \ {p} : at'[q] = at[q])
      /\ at' \in [Requests -> Outer \cup Drafting \cup Undoing \cup Deriving]
    BY <1>2, GoesItsWay DEF Drafting
<1>6. x.nth \in Nat /\ x.batch \in Batches
    BY <1>4, <1>5 DEF Typed
<1>7. Typed' /\ Others(p) /\ work'[p] = x
    BY <1>2, <1>4, <1>5, <1>6, Proceeds
<1> QED BY <1>2, <1>4, <1>5, <1>7 DEF WriteMove

LEMMA Commits ==
    ASSUME Typed, NEW p \in Requests, CommitEnd(p)
    PROVE  CommitMove(p) /\ Typed'
<1> DEFINE w == work[p]
           ids == {x.id : x \in {y \in w.made : y.type = "Tenancy"}}
<1>0. ids = {x.id : x \in TenancyRecords(w.made)}  BY DEF TenancyRecords
<1>1. Go(p, "row", "derive")  BY Zenon DEF CommitEnd
<1>d. doc' = [d \in Docs |-> IF \E m \in w.moves : m.doc = d
                            THEN (CHOOSE m \in w.moves : m.doc = d).to ELSE doc[d]]
    BY Zenon DEF CommitEnd
<1>w. row' = [r \in Rows |-> IF r \in w.done
                            THEN [row[r] EXCEPT !.status = "ACCEPTED", !.refs = Refs(w.made, r),
                                                !.moves = w.moves]
                            ELSE row[r]]
    BY Zenon DEF CommitEnd
<1>b. /\ batch' = [batch EXCEPT ![w.batch] = "COMMITTED"]
      /\ commits' = [commits EXCEPT ![w.batch] = @ + 1]
    BY Zenon DEF CommitEnd
<1>u. w.todo = {} /\ record' = record \cup w.made /\ UNCHANGED <<archived, due, crossed>>
    BY Zenon DEF CommitEnd, derived
<1>2. Keep(p, [w EXCEPT !.todo = ids, !.done = {}, !.made = {}, !.moves = {}, !.target = None])
    BY Zenon DEF CommitEnd
<1> HIDE DEF ids
<1>3. PICK x : x = [w EXCEPT !.todo = ids, !.done = {}, !.made = {}, !.moves = {}, !.target = None]
    OBVIOUS
<1>4. DOMAIN x = Fields /\ x.nth = w.nth /\ x.made = {} /\ x.moves = {} /\ x.done = {}
      /\ x.batch = w.batch /\ x.todo = ids
    BY <1>3 DEF Typed, Fields
<1>5. at[p] = "row" /\ at'[p] = "derive" /\ (\A q \in Requests \ {p} : at'[q] = at[q])
      /\ at' \in [Requests -> Outer \cup Drafting \cup Undoing \cup Deriving]
    BY <1>1, GoesItsWay DEF Deriving
<1>6. x.nth \in Nat /\ x.batch \in Batches /\ Keep(p, x)
    BY <1>2, <1>3, <1>4, <1>5 DEF Typed
<1>7. /\ work'[p] = x /\ DOMAIN work' = Requests
      /\ \A q \in Requests \ {p} : work'[q] = work[q]
      /\ \A q \in Requests : DOMAIN work'[q] = Fields /\ work'[q].nth \in Nat
    BY <1>4, <1>6, KeepsItsOwn
<1>8. /\ batch' \in [Batches -> Status] /\ commits' \in [Batches -> Nat]
      /\ batch'[w.batch] = "COMMITTED" /\ commits'[w.batch] = commits[w.batch] + 1
      /\ \A b \in Batches \ {w.batch} : batch'[b] = batch[b] /\ commits'[b] = commits[b]
    BY <1>b, <1>4, <1>6 DEF Typed, Status
<1>9. \A r \in Rows : /\ DOMAIN row'[r] = RowFields
                      /\ r \notin w.done => row'[r].refs = row[r].refs /\ row'[r].moves = row[r].moves
                      /\ r \in w.done => row'[r].refs = Refs(w.made, r) /\ row'[r].moves = w.moves
  <2> SUFFICES ASSUME NEW r \in Rows
               PROVE /\ DOMAIN row'[r] = RowFields
                     /\ r \notin w.done => row'[r].refs = row[r].refs /\ row'[r].moves = row[r].moves
                     /\ r \in w.done => row'[r].refs = Refs(w.made, r) /\ row'[r].moves = w.moves
      BY Zenon
  <2>1. DOMAIN row[r] = RowFields  BY DEF Typed, RowFields
  <2>2. CASE r \notin w.done
    <3>1. row'[r] = row[r]  BY <1>w, <2>2, Zenon
    <3> QED BY <3>1, <2>1, <2>2
  <2>3. CASE r \in w.done
    <3>1. row'[r] = [row[r] EXCEPT !.status = "ACCEPTED", !.refs = Refs(w.made, r), !.moves = w.moves]
        BY <1>w, <2>3, Zenon
    <3> QED BY <3>1, <2>1, <2>3 DEF RowFields
  <2> QED BY <2>2, <2>3
<1>10. \A d \in Docs : /\ (\A m \in w.moves : m.doc # d) => doc'[d] = doc[d]
                       /\ \/ \A m \in w.moves : m.doc # d
                          \/ \E m \in w.moves : m.doc = d /\ doc'[d] = m.to
  <2>2. ASSUME NEW d \in Docs, \A m \in w.moves : m.doc # d PROVE doc'[d] = doc[d]
      BY <1>d, <2>2
  <2>3. ASSUME NEW d \in Docs, \E m \in w.moves : m.doc = d
        PROVE  \E m \in w.moves : m.doc = d /\ doc'[d] = m.to
    <3> DEFINE n == CHOOSE m \in w.moves : m.doc = d
    <3>1. n \in w.moves /\ n.doc = d  BY <2>3
    <3>2. doc'[d] = n.to  BY <1>d, <2>3
    <3> HIDE DEF n
    <3> QED BY <3>1, <3>2
  <2> QED BY <2>2, <2>3
<1>11. \A q \in Requests : at'[q] \notin {"idle", "extract"} => work'[q].batch \in Batches
    BY <1>4, <1>5, <1>6, <1>7 DEF Typed
<1>12. DOMAIN doc' = Docs /\ DOMAIN row' = Rows
    BY <1>d, <1>w, Zenon
<1>13. Typed'
    BY <1>5, <1>7, <1>8, <1>9, <1>11, <1>12 DEF Typed, RowFields
<1>14. Others(p)  BY <1>5, <1>7 DEF Others
<1> QED
    BY <1>0, <1>u, <1>4, <1>5, <1>7, <1>8, <1>9, <1>10, <1>13, <1>14 DEF CommitMove

Derivers(p) ==
    (\E t \in work[p].todo : DeriveRead(p, t)) \/ DeriveWrite(p) \/ \E r \in Rows : Flag(p, r)

LEMMA Derives ==
    ASSUME Typed, NEW p \in Requests, Derivers(p)
    PROVE  DeriveMove(p) /\ Typed'
<1>0. /\ DOMAIN work[p] = Fields /\ work[p].nth \in Nat
      /\ at[p] \in Deriving => work[p].batch \in Batches
    BY DEF Typed, Deriving
<1>1. ASSUME NEW t \in work[p].todo, DeriveRead(p, t), t \in archived
      PROVE  DeriveMove(p) /\ Typed'
  <2>1. PICK x : x = [work[p] EXCEPT !.todo = @ \ {t}]  OBVIOUS
  <2>u. UNCHANGED <<Table, crossed>>  BY <1>1 DEF DeriveRead, Table
  <2>2. Keep(p, x) /\ at[p] = "derive" /\ due' = due \ {t} /\ at' = at
      BY <1>1, <2>1 DEF DeriveRead
  <2>3. DOMAIN x = Fields /\ x.nth = work[p].nth /\ x.made = work[p].made /\ x.moves = work[p].moves
        /\ x.batch = work[p].batch /\ x.todo = work[p].todo \ {t} /\ x.done = work[p].done
      BY <2>1, <1>0 DEF Fields
  <2>4. Typed' /\ Others(p) /\ work'[p] = x
      BY <1>0, <2>u, <2>2, <2>3, Proceeds DEF Typed, Deriving
  <2> QED BY <2>u, <2>2, <2>3, <2>4 DEF DeriveMove, Deriving
<1>2. ASSUME NEW t \in work[p].todo, DeriveRead(p, t), t \notin archived
      PROVE  DeriveMove(p) /\ Typed'
  <2>1. PICK x : x = [work[p] EXCEPT !.todo = @ \ {t}, !.target = t]  OBVIOUS
  <2>u. UNCHANGED <<Table, crossed>>  BY <1>2 DEF DeriveRead, Table
  <2>2. Keep(p, x) /\ Go(p, "derive", "deriveWrite") /\ due' = due
      BY <1>2, <2>1 DEF DeriveRead
  <2>3. at[p] = "derive" /\ at'[p] = "deriveWrite" /\ (\A q \in Requests \ {p} : at'[q] = at[q])
        /\ at' \in [Requests -> Outer \cup Drafting \cup Undoing \cup Deriving]
      BY <2>2, GoesItsWay DEF Deriving
  <2>4. DOMAIN x = Fields /\ x.nth = work[p].nth /\ x.made = work[p].made /\ x.moves = work[p].moves
        /\ x.batch = work[p].batch /\ x.todo = work[p].todo \ {t} /\ x.done = work[p].done
        /\ x.target = t
      BY <2>1, <1>0 DEF Fields
  <2>5. Typed' /\ Others(p) /\ work'[p] = x
      BY <1>0, <2>u, <2>2, <2>3, <2>4, Proceeds DEF Deriving
  <2> QED BY <1>2, <2>u, <2>2, <2>3, <2>4, <2>5 DEF DeriveMove, Deriving
<1>3. CASE DeriveWrite(p)
  <2>1. Go(p, "deriveWrite", "derive") /\ due' = due \cup {work[p].target} /\ work' = work
        /\ UNCHANGED <<Table, crossed>>
      BY <1>3 DEF DeriveWrite, Table
  <2>2. at[p] = "deriveWrite" /\ at'[p] = "derive" /\ (\A q \in Requests \ {p} : at'[q] = at[q])
        /\ at' \in [Requests -> Outer \cup Drafting \cup Undoing \cup Deriving]
      BY <2>1, GoesItsWay DEF Deriving
  <2>3. Typed'  BY <2>1, <2>2 DEF Typed, Table
  <2> QED BY <2>1, <2>2, <2>3 DEF DeriveMove, Others, Deriving
<1>4. ASSUME NEW r \in Rows, Flag(p, r) PROVE DeriveMove(p) /\ Typed'
  <2>1. PICK x : x = [work[p] EXCEPT !.conflicts = @ \ {r}]  OBVIOUS
  <2>2. Keep(p, x) /\ at[p] = "derive" /\ due' = due /\ at' = at /\ UNCHANGED <<Table, crossed>>
      BY <1>4, <2>1 DEF Flag, Table
  <2>3. DOMAIN x = Fields /\ x.nth = work[p].nth /\ x.made = work[p].made /\ x.moves = work[p].moves
        /\ x.batch = work[p].batch /\ x.todo = work[p].todo /\ x.done = work[p].done
      BY <2>1, <1>0 DEF Fields
  <2>4. Typed' /\ Others(p) /\ work'[p] = x
      BY <1>0, <2>2, <2>3, Proceeds DEF Typed, Deriving
  <2> QED BY <2>2, <2>3, <2>4 DEF DeriveMove, Deriving
<1> QED BY <1>1, <1>2, <1>3, <1>4 DEF Derivers

LEMMA Undoes ==
    ASSUME Typed, NEW p \in Requests, Undo(p)
    PROVE  UndoMove(p) /\ Typed'
<1> DEFINE ids == work[p].made
           kept == {c \in ids : IsContact(c) /\ Referenced(c, ids)}
<1>1. Go(p, "undo", "undone") /\ Keep(p, [work[p] EXCEPT !.made = ids \ kept])
      /\ UNCHANGED <<Table, due, crossed>>
    BY DEF Undo, Table
<1> HIDE DEF kept
<1>2. PICK x : x = [work[p] EXCEPT !.made = ids \ kept]  OBVIOUS
<1>3. DOMAIN x = Fields /\ x.nth = work[p].nth /\ x.made = ids \ kept /\ x.moves = work[p].moves
      /\ x.batch = work[p].batch
    BY <1>2 DEF Typed, Fields
<1>4. at[p] = "undo" /\ at'[p] = "undone" /\ (\A q \in Requests \ {p} : at'[q] = at[q])
      /\ at' \in [Requests -> Outer \cup Drafting \cup Undoing \cup Deriving]
    BY <1>1, GoesItsWay DEF Undoing
<1>5. x.nth \in Nat /\ x.batch \in Batches /\ Keep(p, x)
    BY <1>1, <1>2, <1>3, <1>4 DEF Typed
<1>6. Typed' /\ Others(p) /\ work'[p] = x
    BY <1>1, <1>3, <1>4, <1>5, Proceeds
<1> QED BY <1>1, <1>3, <1>4, <1>6 DEF UndoMove, kept

LEMMA UndoEnds ==
    ASSUME Typed, NEW p \in Requests, UndoEnd(p)
    PROVE  UndoneMove(p) /\ Typed'
<1> DEFINE w == work[p]
<1>1. /\ Return(p, "undone") /\ archived' = archived \cup w.made /\ due' = due \ w.made
      /\ doc' = [d \in Docs |-> IF \E m \in w.moves : m.doc = d
                                THEN (CHOOSE m \in w.moves : m.doc = d).from ELSE doc[d]]
      /\ batch' = [batch EXCEPT ![w.batch] = "ROLLED_BACK"]
      /\ UNCHANGED <<row, commits, record, crossed>>
    BY DEF UndoEnd, StillDue
<1>2. /\ at[p] = "undone" /\ at'[p] = "idle" /\ work'[p] = Idle /\ Others(p)
      /\ at' \in [Requests -> Outer \cup Drafting \cup Undoing \cup Deriving]
      /\ DOMAIN work' = Requests
      /\ \A q \in Requests : DOMAIN work'[q] = Fields /\ work'[q].nth \in Nat
    BY <1>1, ReturnsIdle
<1>3. w.batch \in Batches  BY <1>2 DEF Typed
<1>4. /\ batch' \in [Batches -> Status] /\ batch'[w.batch] = "ROLLED_BACK"
      /\ \A b \in Batches \ {w.batch} : batch'[b] = batch[b]
    BY <1>1, <1>3 DEF Typed, Status
<1>5. DOMAIN doc' = Docs /\ \A d \in Docs : (\A m \in w.moves : m.doc # d) => doc'[d] = doc[d]
    BY <1>1
<1>6. \A q \in Requests : at'[q] \notin {"idle", "extract"} => work'[q].batch \in Batches
    BY <1>2 DEF Typed, Others
<1>7. Typed'
    BY <1>1, <1>2, <1>4, <1>5, <1>6 DEF Typed
<1> QED BY <1>1, <1>2, <1>4, <1>5, <1>7 DEF UndoneMove

Move(p) ==
    \/ OuterMove(p)
    \/ \E b \in Batches : CommitReadMove(p, b) \/ RollbackReadMove(p, b)
    \/ \E r \in Rows : \E o, t, place : ResolveMove(p, r, o, t, place)
    \/ WriteMove(p) \/ CommitMove(p) \/ DeriveMove(p) \/ UndoMove(p) \/ UndoneMove(p)

Stay == UNCHANGED <<Table, due, at, work, crossed>>

LEMMA Operates ==
    ASSUME ImportsAssumption, Typed, NEW p \in Requests, Draft(p), Operate(p)
    PROVE  Move(p) /\ Typed'
<1>1. \/ Outers(p) \/ Derivers(p)
      \/ \E b \in Batches : CommitRead(p, b) \/ RollbackRead(p, b)
      \/ \E r \in Rows : ResolveRow(p, r)
      \/ WriteRow(p) \/ CommitEnd(p) \/ Undo(p) \/ UndoEnd(p)
    BY Zenon DEF Operate, Outers, Derivers
<1>2. CASE Outers(p)  BY <1>2, OuterSteps DEF Move
<1>3. CASE Derivers(p)  BY <1>3, Derives DEF Move
<1>4. ASSUME NEW b \in Batches, CommitRead(p, b) PROVE Move(p) /\ Typed'
    BY <1>4, CommitReads DEF Move
<1>5. ASSUME NEW b \in Batches, RollbackRead(p, b) PROVE Move(p) /\ Typed'
    BY <1>5, RollbackReads DEF Move
<1>6. ASSUME NEW r \in Rows, ResolveRow(p, r) PROVE Move(p) /\ Typed'
    BY <1>6, Resolves DEF Move
<1>7. CASE WriteRow(p)  BY <1>7, Writes DEF Move
<1>8. CASE CommitEnd(p)  BY <1>8, Commits DEF Move
<1>9. CASE Undo(p)  BY <1>9, Undoes DEF Move
<1>10. CASE UndoEnd(p)  BY <1>10, UndoEnds DEF Move
<1> QED BY <1>1, <1>2, <1>3, <1>4, <1>5, <1>6, <1>7, <1>8, <1>9, <1>10

LEMMA StandingStill == UNCHANGED importVars => Stay
BY DEF Stay, Table

LEMMA Steps ==
    ASSUME ImportsAssumption, Typed, \A p \in Requests : Draft(p), [ImportsNext]_importVars
    PROVE  Typed' /\ (Stay \/ \E p \in Requests : Move(p))
<1>1. ASSUME NEW p \in Requests, Operate(p) PROVE Typed' /\ \E q \in Requests : Move(q)
    BY <1>1, Operates
<1>2. ASSUME NEW j \in Jobs, Reject(j) PROVE Stay
    BY <1>2 DEF Reject, Stay, Table
<1>3. ASSUME NEW c \in record, Attach(c) PROVE Stay
    BY <1>3 DEF Attach, Stay, Table
<1>4. UNCHANGED importVars => Stay
    BY StandingStill
<1>5. Stay => Typed'
    BY DEF Stay, Table, Typed
<1> QED BY <1>1, <1>2, <1>3, <1>4, <1>5 DEF ImportsNext

-----------------------------------------------------------------------------
(* The shape of what is drafted and stored *)

\* Records and counts only grow.
LEMMA Grows ==
    ASSUME Typed, NEW p \in Requests, Move(p)
    PROVE  /\ record \subseteq record' /\ archived \subseteq archived' /\ Others(p)
           /\ \A b \in Batches : commits[b] <= commits'[b]
           /\ crossed \subseteq crossed'
<1>1. commits' = commits => \A b \in Batches : commits[b] <= commits'[b]
    BY DEF Typed
<1>2. CASE OuterMove(p)  BY <1>1, <1>2 DEF OuterMove
<1>c. ASSUME NEW b, Company(p, b) PROVE crossed \subseteq crossed'
  <2> DEFINE beside == {q \in Requests \ {p} : at[q] \in Writing \/ Adding(q, b)}
             met == {work[q].batch : q \in beside}
  <2>1. crossed' = IF beside = {} THEN crossed ELSE crossed \cup {b} \cup met
      BY <1>c DEF Company
  <2> HIDE DEF beside, met
  <2> QED BY <2>1
<1>3. ASSUME NEW b \in Batches, CommitReadMove(p, b)
      PROVE  /\ record \subseteq record' /\ archived \subseteq archived' /\ Others(p)
             /\ \A c \in Batches : commits[c] <= commits'[c]
             /\ crossed \subseteq crossed'
  <2>1. Company(p, b) /\ UNCHANGED Table /\ Others(p)  BY <1>3, Zenon DEF CommitReadMove
  <2> QED BY <1>1, <1>c, <2>1 DEF Table
<1>4. ASSUME NEW b \in Batches, RollbackReadMove(p, b)
      PROVE  /\ record \subseteq record' /\ archived \subseteq archived' /\ Others(p)
             /\ \A c \in Batches : commits[c] <= commits'[c]
             /\ crossed \subseteq crossed'
  <2>1. Company(p, b) /\ UNCHANGED Table /\ Others(p)  BY <1>4, Zenon DEF RollbackReadMove
  <2> QED BY <1>1, <1>c, <2>1 DEF Table
<1>5. ASSUME NEW r \in Rows, NEW o, NEW t, NEW place, ResolveMove(p, r, o, t, place)
      PROVE  UNCHANGED <<Table, crossed>> /\ Others(p)
    BY <1>5 DEF ResolveMove
<1>6. WriteMove(p) \/ DeriveMove(p) \/ UndoMove(p) => UNCHANGED <<Table, crossed>> /\ Others(p)
    BY DEF WriteMove, DeriveMove, UndoMove
<1>7. CASE CommitMove(p)
  <2>1. record' = record \cup work[p].made /\ UNCHANGED <<archived, crossed>> /\ Others(p)
      BY <1>7 DEF CommitMove
  <2>2. commits'[work[p].batch] = commits[work[p].batch] + 1
        /\ \A b \in Batches \ {work[p].batch} : commits'[b] = commits[b]
      BY <1>7 DEF CommitMove
  <2>3. \A b \in Batches : commits[b] <= commits'[b]
      BY <2>2 DEF Typed
  <2> QED BY <2>1, <2>3
<1>8. CASE UndoneMove(p)  BY <1>1, <1>8 DEF UndoneMove
<1>9. UNCHANGED <<Table, crossed>> => /\ record \subseteq record' /\ archived \subseteq archived'
                                      /\ \A b \in Batches : commits[b] <= commits'[b]
                                      /\ crossed \subseteq crossed'
    BY <1>1 DEF Table
<1> QED BY <1>2, <1>3, <1>4, <1>5, <1>6, <1>7, <1>8, <1>9 DEF Move

\* What others have in hand stays as it should be.
LEMMA DraftKept ==
    ASSUME ImportsAssumption, Typed, Typed', NEW q \in Requests, Draft(q),
           at'[q] = at[q], work'[q] = work[q],
           record \subseteq record', \A b \in Batches : commits[b] <= commits'[b]
    PROVE  Draft(q)'
<1> DEFINE w == work[q]
<1>0. at[q] \notin Outer \cup Drafting \cup Undoing \cup Deriving => FALSE  BY DEF Typed
<1>1. CASE at[q] \in Outer
    BY <1>1 DEF Draft, Outer, Drafting, Undoing, Deriving
<1>2. CASE at[q] \in Deriving
    BY <1>2 DEF Draft, Outer, Drafting, Undoing, Deriving
<1>3. CASE at[q] \in Drafting
  <2>1. w.batch \in Batches /\ w.nth <= commits'[w.batch]
      BY <1>3 DEF Draft, Typed, Drafting
  <2> QED BY <1>3, <2>1 DEF Draft, Outer, Drafting, Undoing, Deriving
<1>4. CASE at[q] \in Undoing
  <2>1. w.batch \in Batches  BY <1>4 DEF Typed, Undoing
  <2>2. commits[w.batch] \in Nat /\ commits'[w.batch] \in Nat /\ commits[w.batch] <= commits'[w.batch]
      BY <2>1 DEF Typed
  <2>3. Of(w.batch, commits[w.batch]) \subseteq Of(w.batch, commits'[w.batch])
      BY <2>2 DEF Of, Ids
  <2>4. \A m : Moved(m, w.batch, record) => Moved(m, w.batch, record')
      BY DEF Moved, TenancyRecords
  <2> QED BY <1>4, <2>3, <2>4 DEF Draft, Outer, Drafting, Undoing, Deriving
<1> QED BY <1>0, <1>1, <1>2, <1>3, <1>4

\* A party is a live contact the transaction sees, a new one, or nobody.
LEMMA BoundAre ==
    ASSUME NEW p, NEW kind, NEW r, NEW o \in Bound(p, kind, r)
    PROVE  (\E x \in Seen(p, "Contact") : x.id = o) \/ o = None \/ o = New(p, kind, r)
<1> DEFINE party == Data[r][kind]
           Having(field, v) == {x.id : x \in {y \in Seen(p, "Contact") : y.kind = kind /\ y[field] = v}}
           Unique(field) == party.pick = None /\ party[field] # None
                            /\ Cardinality(Having(field, party[field])) = 1
           fresh == {IF party.name = None THEN None ELSE New(p, kind, r)}
<1>1. o \in CASE party.pick \notin {None, CREATE_NEW_CONTACT} -> Having("id", party.pick)
            [] Unique("emiratesId") -> Having("emiratesId", party.emiratesId)
            [] ~Unique("emiratesId") /\ Unique("name") -> Having("name", party.name)
            [] OTHER -> fresh
    BY Zenon DEF Bound
<1>2. \A field, v : \A i \in Having(field, v) : \E x \in Seen(p, "Contact") : x.id = i
    OBVIOUS
<1>3. \A i \in fresh : i = None \/ i = New(p, kind, r)
    OBVIOUS
<1> DEFINE picked == party.pick \notin {None, CREATE_NEW_CONTACT}
           byId == Unique("emiratesId")  byName == Unique("name")
           h1 == Having("id", party.pick)  h2 == Having("emiratesId", party.emiratesId)
           h3 == Having("name", party.name)
<1>4. o \in CASE picked -> h1 [] byId -> h2 [] ~byId /\ byName -> h3 [] OTHER -> fresh
    BY <1>1, Zenon
<1>5. \A i \in h1 \cup h2 \cup h3 : \E x \in Seen(p, "Contact") : x.id = i
    BY <1>2
<1> HIDE DEF picked, byId, byName, h1, h2, h3, fresh
<1>6. ~(byId /\ ~byId /\ byName)  OBVIOUS
<1>7. CASE picked /\ byId
    BY <1>4, <1>5, <1>7
<1> QED BY <1>3, <1>4, <1>5, <1>6, <1>7

LEMMA PlaceAre ==
    ASSUME NEW p, NEW r, NEW place \in PlaceOf(p, r)
    PROVE  (\E x \in Seen(p, "Property") : x.id = place) \/ place = New(p, "Property", r)
BY DEF PlaceOf

LEMMA NewIds ==
    ASSUME NEW p \in Requests, NEW r \in Rows, work[p].nth \in Nat,
           NEW type \in {"OWNER", "TENANT", "Property", "Tenancy", "PaymentItem"}
    PROVE  /\ New(p, type, r) \in Ids /\ New(p, type, r)[1] = type /\ New(p, type, r)[2] = r
           /\ New(p, type, r)[3] = p /\ New(p, type, r)[4] = work[p].nth
BY DEF New, Ids

\* What a row makes: one tenancy of the two parties, and what goes with it.
LEMMA MadeAre ==
    ASSUME NEW p \in Requests, NEW r \in Rows, work[p].nth \in Nat, NEW o, NEW t, NEW place
    PROVE  /\ \A x \in Made(p, r, o, t, place) :
                /\ x.id \in Ids /\ x.id[2] = r /\ x.id[3] = p /\ x.id[4] = work[p].nth
                /\ x.type = "Contact" => IsContact(x.id)
                /\ x.type = "Tenancy" => /\ x.id = New(p, "Tenancy", r) /\ x.id[1] = "Tenancy"
                                         /\ x.landlord = o /\ x.tenant = t
           /\ OnePerRow(Made(p, r, o, t, place))
           /\ \E x \in Made(p, r, o, t, place) : x.type = "Tenancy" /\ x.id = New(p, "Tenancy", r)
<1> DEFINE d == Data[r]
           Contact(kind) == [type |-> "Contact", id |-> New(p, kind, r), kind |-> kind,
                             name |-> d[kind].name, emiratesId |-> d[kind].emiratesId]
           unit == [type |-> "Property", id |-> place, site |-> d.site,
                        building |-> d.building, owner |-> o]
           lease == [type |-> "Tenancy", id |-> New(p, "Tenancy", r), property |-> place,
                       landlord |-> o, tenant |-> t, ejari |-> d.ejari, from |-> d.from, to |-> d.to]
           item == [type |-> "PaymentItem", id |-> New(p, "PaymentItem", r),
                    tenancy |-> New(p, "Tenancy", r)]
<1>1. Made(p, r, o, t, place) =
        {lease} \cup {Contact(kind) : kind \in {k \in {"OWNER", "TENANT"} : New(p, k, r) \in {o, t}}}
        \cup (IF place = New(p, "Property", r) THEN {unit} ELSE {})
        \cup (IF d.scheduled THEN {item} ELSE {})
    BY Zenon DEF Made
<1>2. \A x \in Made(p, r, o, t, place) :
        \/ x = lease \/ x = item \/ x = Contact("OWNER") \/ x = Contact("TENANT")
        \/ x = unit /\ place = New(p, "Property", r)
    BY <1>1
<1>3. lease \in Made(p, r, o, t, place)
    BY <1>1
<1>4. lease.type = "Tenancy" /\ lease.id = New(p, "Tenancy", r) /\ lease.landlord = o
      /\ lease.tenant = t
    OBVIOUS
<1>5. /\ item.type = "PaymentItem" /\ item.id = New(p, "PaymentItem", r)
      /\ unit.type = "Property" /\ unit.id = place
      /\ \A kind \in {"OWNER", "TENANT"} : /\ Contact(kind).type = "Contact"
                                           /\ Contact(kind).id = New(p, kind, r)
    OBVIOUS
<1> HIDE DEF lease, item, unit, Contact
<1>6. ASSUME NEW x \in Made(p, r, o, t, place)
      PROVE  /\ x.id \in Ids /\ x.id[2] = r /\ x.id[3] = p /\ x.id[4] = work[p].nth
             /\ x.type = "Contact" => IsContact(x.id)
             /\ x.type = "Tenancy" => /\ x.id = New(p, "Tenancy", r) /\ x.id[1] = "Tenancy"
                                      /\ x.landlord = o /\ x.tenant = t
             /\ x.type = "Tenancy" => x = lease
  <2>1. CASE x = lease  BY <1>4, <2>1, NewIds
  <2>2. CASE x = item  BY <1>5, <2>2, NewIds
  <2>3. ASSUME NEW kind \in {"OWNER", "TENANT"}, x = Contact(kind)
        PROVE  /\ x.id = New(p, kind, r) /\ x.type = "Contact" /\ x.id[1] = kind
      BY <1>5, <2>3, NewIds
  <2>4. CASE x = Contact("OWNER") \/ x = Contact("TENANT")
      BY <2>3, <2>4, NewIds DEF IsContact
  <2>5. CASE x = unit /\ place = New(p, "Property", r)
      BY <1>5, <2>5, NewIds
  <2> QED BY <1>2, <2>1, <2>2, <2>4, <2>5
<1> QED BY <1>3, <1>4, <1>6 DEF OnePerRow, TenancyRecords

\* What a request sees is well made.
LEMMA SeenSound ==
    ASSUME Stored, NEW p \in Requests, Draft(p), at[p] \in Drafting, NEW type, NEW x \in Seen(p, type)
    PROVE  Sound(x) /\ x.type = type /\ x.id \notin archived
BY DEF Stored, Draft, Seen, Drafting

LEMMA PartiesAre ==
    ASSUME ImportsAssumption, Stored, NEW p \in Requests, Draft(p), at[p] \in Drafting,
           work[p].nth \in Nat, NEW r \in Rows, NEW kind \in {"OWNER", "TENANT"},
           NEW o \in Bound(p, kind, r)
    PROVE  o \in Ids => IsContact(o)
<1>1. ASSUME NEW x \in Seen(p, "Contact"), x.id = o PROVE o \in Ids => IsContact(o)
    BY <1>1, SeenSound DEF Sound
<1>2. o = None => o \notin Ids
    BY DEF ImportsAssumption
<1>3. o = New(p, kind, r) => IsContact(o)
    BY NewIds DEF IsContact
<1> QED BY <1>1, <1>2, <1>3, BoundAre

LEMMA StoredKept ==
    ASSUME Stored, RowsKept, UNCHANGED <<record, archived, commits>>
    PROVE  Stored'
BY DEF Stored, RowsKept, Of, Moved

LEMMA ResolveShape ==
    ASSUME ImportsAssumption, Typed, Typed', Stored, NEW p \in Requests, Draft(p), NEW r \in Rows,
           NEW o, NEW t, NEW place, ResolveMove(p, r, o, t, place)
    PROVE  Draft(p)'
<1> DEFINE w == work[p]  new == Made(p, r, o, t, place)  file == FileOf[w.batch]
<1>1. /\ at[p] = "row" /\ at'[p] = "write" /\ work'[p].batch = w.batch /\ work'[p].nth = w.nth
      /\ work'[p].todo = w.todo /\ work'[p].done = w.done /\ r \in w.todo /\ work'[p].target = r
      /\ work'[p].made = w.made \cup new /\ commits' = commits
      /\ o \in Bound(p, "OWNER", r) /\ t \in Bound(p, "TENANT", r)
    BY Zenon DEF ResolveMove, Table
<1>2. /\ file = None => work'[p].moves = w.moves
      /\ file # None => work'[p].moves = w.moves \cup
            {[doc |-> file, from |-> doc[file], to |-> New(p, "Tenancy", r)]}
    BY Zenon DEF ResolveMove
<1>3. /\ w.todo \cup w.done \subseteq RowsOf(w.batch) /\ w.todo \cap w.done = {}
      /\ w.nth <= commits[w.batch] /\ w.nth \in Nat
      /\ \A x \in w.made : /\ Sound(x) /\ x.id \in Ids /\ x.id[2] \in w.done
                           /\ x.id[3] = p /\ x.id[4] = w.nth
      /\ OnePerRow(w.made)
      /\ \A m \in w.moves : Moved(m, w.batch, w.made)
      /\ file # None => \A u \in TenancyRecords(w.made) : \E m \in w.moves : m.to = u.id
    BY <1>1 DEF Draft, Drafting, Typed
<1>4. /\ \A x \in new : /\ x.id \in Ids /\ x.id[2] = r /\ x.id[3] = p /\ x.id[4] = w.nth
                        /\ x.type = "Contact" => IsContact(x.id)
                        /\ x.type = "Tenancy" => /\ x.id = New(p, "Tenancy", r) /\ x.id[1] = "Tenancy"
                                                 /\ x.landlord = o /\ x.tenant = t
      /\ OnePerRow(new)
      /\ \E x \in new : x.type = "Tenancy" /\ x.id = New(p, "Tenancy", r)
    BY <1>3, MadeAre
<1>5. (o \in Ids => IsContact(o)) /\ (t \in Ids => IsContact(t))
    BY <1>1, <1>3, PartiesAre DEF Drafting
<1>6. BatchOf[r] = w.batch
    BY <1>1, <1>3 DEF RowsOf
<1> HIDE DEF new
<1>7. \A x \in new : Sound(x)
    BY <1>4, <1>5 DEF Sound
<1>8. OnePerRow(w.made \cup new)
    BY <1>1, <1>3, <1>4 DEF OnePerRow, TenancyRecords
<1>9. \A m \in w.moves : Moved(m, w.batch, w.made \cup new)
    BY <1>3 DEF Moved, TenancyRecords
<1>10. ASSUME NEW m \in work'[p].moves PROVE Moved(m, w.batch, w.made \cup new)
  <2>1. CASE m \in w.moves  BY <1>9, <2>1
  <2>2. CASE file # None /\ m = [doc |-> file, from |-> doc[file], to |-> New(p, "Tenancy", r)]
    <3>1. m.doc = file /\ m.to = New(p, "Tenancy", r)  BY <2>2
    <3>2. PICK x \in new : x.type = "Tenancy" /\ x.id = New(p, "Tenancy", r)  BY <1>4
    <3>3. x \in TenancyRecords(w.made \cup new) /\ x.id = m.to /\ x.id \in Ids /\ BatchOf[x.id[2]] = w.batch
        BY <1>4, <1>6, <3>1, <3>2 DEF TenancyRecords
    <3> QED BY <2>2, <3>1, <3>3 DEF Moved
  <2> QED BY <1>2, <2>1, <2>2
<1>11. ASSUME file # None, NEW u \in TenancyRecords(w.made \cup new)
       PROVE  \E m \in work'[p].moves : m.to = u.id
  <2>1. CASE u \in w.made  BY <1>2, <1>3, <1>11, <2>1 DEF TenancyRecords
  <2>2. CASE u \in new
    <3>1. u.id = New(p, "Tenancy", r)  BY <1>4, <2>2 DEF TenancyRecords
    <3>2. PICK m : m = [doc |-> file, from |-> doc[file], to |-> New(p, "Tenancy", r)]  OBVIOUS
    <3>3. m \in work'[p].moves  BY <1>2, <1>11, <3>2
    <3>4. m.to = u.id  BY <3>1, <3>2
    <3> QED BY <3>3, <3>4
  <2> QED BY <2>1, <2>2 DEF TenancyRecords
<1>12. \A x \in w.made \cup new : /\ Sound(x) /\ x.id \in Ids /\ x.id[2] \in w.done \cup {r}
                                  /\ x.id[3] = p /\ x.id[4] = w.nth
    BY <1>3, <1>4, <1>7
<1> QED
    BY <1>1, <1>3, <1>8, <1>10, <1>11, <1>12 DEF Draft, Outer, Drafting, Undoing, Deriving

LEMMA CommitShape ==
    ASSUME ImportsAssumption, Typed, Typed', Stored, NEW p \in Requests, Draft(p), CommitMove(p)
    PROVE  Stored' /\ Draft(p)'
<1> DEFINE w == work[p]  b == w.batch
<1>1. /\ at[p] = "row" /\ at'[p] = "derive" /\ w.todo = {} /\ work'[p].batch = b
      /\ work'[p].todo = {x.id : x \in TenancyRecords(w.made)}
      /\ work'[p].done = {} /\ work'[p].made = {} /\ work'[p].moves = {}
      /\ record' = record \cup w.made /\ archived' = archived
    BY DEF CommitMove
<1>2. \A r \in Rows :
        /\ r \notin w.done => row'[r].refs = row[r].refs /\ row'[r].moves = row[r].moves
        /\ r \in w.done => row'[r].refs = Refs(w.made, r) /\ row'[r].moves = w.moves
    BY DEF CommitMove
<1>3. /\ commits'[b] = commits[b] + 1 /\ \A c \in Batches \ {b} : commits'[c] = commits[c]
    BY DEF CommitMove
<1>4. /\ w.done \subseteq RowsOf(b) /\ w.nth <= commits[b] /\ w.nth \in Nat /\ b \in Batches
      /\ \A x \in w.made : /\ Sound(x) /\ x.id \in Ids /\ x.id[2] \in w.done
                           /\ x.id[3] = p /\ x.id[4] = w.nth
      /\ \A m \in w.moves : Moved(m, b, w.made)
    BY <1>1 DEF Draft, Drafting, Typed
<1> HIDE DEF b, w
<1>5. \A c \in Batches : /\ commits[c] \in Nat /\ commits'[c] \in Nat /\ commits[c] <= commits'[c]
    BY <1>3 DEF Typed
<1>6. \A i \in Ids : BatchOf[i[2]] \in Batches /\ i[4] \in Nat /\ i[2] \in Rows
    BY DEF Ids, ImportsAssumption
<1>7. \A x \in w.made : BatchOf[x.id[2]] = b /\ x.id[4] < commits'[b]
    BY <1>3, <1>4, <1>5 DEF RowsOf
<1>8. \A x \in record' : Sound(x) /\ (x.id \in Ids => x.id[4] < commits'[BatchOf[x.id[2]]])
  <2> SUFFICES ASSUME NEW x \in record' PROVE Sound(x) /\ (x.id \in Ids => x.id[4] < commits'[BatchOf[x.id[2]]])
      OBVIOUS
  <2>1. CASE x \in w.made  BY <1>4, <1>7, <2>1
  <2>2. CASE x \in record
    <3>1. Sound(x) /\ (x.id \in Ids => x.id[4] < commits[BatchOf[x.id[2]]])  BY <2>2 DEF Stored
    <3> QED BY <1>5, <1>6, <3>1
  <2> QED BY <1>1, <2>1, <2>2
<1>9. ASSUME NEW r \in Rows
      PROVE  /\ \A i \in row'[r].refs : i[2] = r /\ i \in Of(BatchOf[r], commits'[BatchOf[r]])
             /\ \A m \in row'[r].moves : Moved(m, BatchOf[r], record')
  <2>1. CASE r \in w.done
    <3>1. BatchOf[r] = b  BY <1>4, <2>1 DEF RowsOf
    <3>2. ASSUME NEW i \in row'[r].refs PROVE i[2] = r /\ i \in Of(b, commits'[b])
      <4>1. PICK x \in w.made : x.id = i /\ x.id[2] = r  BY <1>2, <2>1, <3>2 DEF Refs
      <4> QED BY <1>4, <1>7, <4>1 DEF Of
    <3>3. \A m \in w.moves : Moved(m, b, record')
        BY <1>1, <1>4 DEF Moved, TenancyRecords
    <3> QED BY <1>2, <2>1, <3>1, <3>2, <3>3
  <2>2. CASE r \notin w.done
    <3>1. /\ \A i \in row[r].refs : i[2] = r /\ i \in Of(BatchOf[r], commits[BatchOf[r]])
          /\ \A m \in row[r].moves : Moved(m, BatchOf[r], record)
        BY DEF Stored
    <3>2. BatchOf[r] \in Batches  BY DEF ImportsAssumption
    <3>3. Of(BatchOf[r], commits[BatchOf[r]]) \subseteq Of(BatchOf[r], commits'[BatchOf[r]])
        BY <1>5, <1>6, <3>2 DEF Of
    <3>4. \A m : Moved(m, BatchOf[r], record) => Moved(m, BatchOf[r], record')
        BY <1>1 DEF Moved, TenancyRecords
    <3> QED BY <1>2, <2>2, <3>1, <3>3, <3>4
  <2> QED BY <2>1, <2>2
<1>10. \A i \in archived : i \in Ids /\ i[4] < commits'[BatchOf[i[2]]]
    BY <1>5, <1>6 DEF Stored
<1>11. Stored'
    BY <1>1, <1>8, <1>9, <1>10 DEF Stored
<1>12. \A t \in work'[p].todo : t \in Ids /\ BatchOf[t[2]] = b
    BY <1>1, <1>4, <1>7 DEF TenancyRecords
<1>13. Draft(p)'
    BY <1>1, <1>12 DEF Draft, Outer, Drafting, Undoing, Deriving
<1> QED BY <1>11, <1>13

LEMMA RollbackReadShape ==
    ASSUME ImportsAssumption, Typed, Typed', Stored, NEW p \in Requests, NEW b \in Batches,
           RollbackReadMove(p, b)
    PROVE  Draft(p)'
<1>1. /\ at'[p] = "undo" /\ work'[p].batch = b
      /\ work'[p].made = UNION {row[r].refs : r \in RowsOf(b)}
      /\ work'[p].moves = UNION {row[r].moves : r \in RowsOf(b)} /\ UNCHANGED <<record, commits>>
    BY DEF RollbackReadMove, Table
<1>2. ASSUME NEW i \in work'[p].made PROVE i \in Of(b, commits[b])
  <2>1. PICK r \in RowsOf(b) : i \in row[r].refs  BY <1>1, <1>2
  <2> QED BY <2>1 DEF Stored, RowsOf
<1>3. ASSUME NEW m \in work'[p].moves PROVE Moved(m, b, record)
  <2>1. PICK r \in RowsOf(b) : m \in row[r].moves  BY <1>1, <1>3
  <2> QED BY <2>1 DEF Stored, RowsOf
<1> QED BY <1>1, <1>2, <1>3 DEF Draft, Outer, Drafting, Undoing, Deriving

LEMMA ShapeStep ==
    ASSUME ImportsAssumption, ShapeInv, Typed', NEW p \in Requests, Move(p)
    PROVE  ShapeInv'
<1> DEFINE w == work[p]
<1>0. Typed /\ Stored /\ \A q \in Requests : Draft(q)
    BY DEF ShapeInv
<1>1. ASSUME NEW q \in Requests, q # p PROVE Draft(q)'
  <2>1. at'[q] = at[q] /\ work'[q] = work[q]  BY <1>0, <1>1, Grows DEF Others
  <2> QED BY <1>0, <1>1, <2>1, Grows, DraftKept
<1>2. ASSUME OuterMove(p) PROVE Stored' /\ Draft(p)'
  <2>1. Stored'  BY <1>0, <1>2, StoredKept DEF OuterMove
  <2>2. Draft(p)'
      BY <1>2 DEF OuterMove, Draft, Outer, Drafting, Undoing, Deriving
  <2> QED BY <2>1, <2>2
<1>3. ASSUME NEW b \in Batches, CommitReadMove(p, b) PROVE Stored' /\ Draft(p)'
  <2>1. /\ at[p] \in {"idle", "open"} /\ at'[p] = "row" /\ UNCHANGED Table
        /\ work'[p].batch = b /\ work'[p].nth = commits[b] /\ work'[p].todo \subseteq RowsOf(b)
        /\ work'[p].done = w.done /\ work'[p].made = w.made /\ work'[p].moves = w.moves
      BY <1>3, Zenon DEF CommitReadMove
  <2>2. w.done = {} /\ w.made = {} /\ w.moves = {}  BY <1>0, <2>1 DEF Draft, Outer
  <2>3. commits' = commits /\ commits[b] \in Nat /\ Stored'
      BY <1>0, <2>1, StoredKept DEF Table, Typed, RowsKept
  <2>4. Draft(p)'
      BY <2>1, <2>2, <2>3 DEF Draft, Outer, Drafting, Undoing, Deriving, OnePerRow, TenancyRecords
  <2> QED BY <2>3, <2>4
<1>4. ASSUME NEW b \in Batches, RollbackReadMove(p, b) PROVE Stored' /\ Draft(p)'
  <2>1. UNCHANGED Table  BY <1>4, Zenon DEF RollbackReadMove
  <2>2. Stored'  BY <1>0, <2>1, StoredKept DEF Table, RowsKept
  <2> QED BY <1>0, <1>4, <2>2, RollbackReadShape
<1>5. ASSUME NEW r \in Rows, NEW o, NEW t, NEW place, ResolveMove(p, r, o, t, place)
      PROVE  Stored' /\ Draft(p)'
  <2>1. UNCHANGED Table  BY <1>5, Zenon DEF ResolveMove
  <2>2. Stored'  BY <1>0, <2>1, StoredKept DEF Table, RowsKept
  <2> QED BY <1>0, <1>5, <2>2, ResolveShape
<1>6. ASSUME WriteMove(p) PROVE Stored' /\ Draft(p)'
  <2>1. /\ at[p] = "write" /\ at'[p] = "row" /\ UNCHANGED Table
        /\ work'[p].batch = w.batch /\ work'[p].nth = w.nth
        /\ work'[p].todo = w.todo \ {w.target} /\ work'[p].done = w.done \cup {w.target}
        /\ work'[p].made = w.made /\ work'[p].moves = w.moves
      BY <1>6 DEF WriteMove
  <2>2. Stored' /\ commits' = commits  BY <1>0, <2>1, StoredKept DEF Table, RowsKept
  <2>3. Draft(p)'
      BY <1>0, <2>1, <2>2 DEF Draft, Outer, Drafting, Undoing, Deriving
  <2> QED BY <2>2, <2>3
<1>7. ASSUME CommitMove(p) PROVE Stored' /\ Draft(p)'
    BY <1>0, <1>7, CommitShape
<1>8. ASSUME DeriveMove(p) PROVE Stored' /\ Draft(p)'
  <2>1. /\ at[p] \in Deriving /\ at'[p] \in Deriving /\ work'[p].batch = w.batch
        /\ work'[p].todo \subseteq w.todo /\ UNCHANGED Table
        /\ work'[p].done = w.done /\ work'[p].made = w.made /\ work'[p].moves = w.moves
        /\ (at'[p] = "deriveWrite" => work'[p].target \in w.todo \ archived)
      BY <1>8 DEF DeriveMove
  <2>2. Stored'  BY <1>0, <2>1, StoredKept DEF Table, RowsKept
  <2>3. Draft(p)'
      BY <1>0, <2>1 DEF Draft, Outer, Drafting, Undoing, Deriving
  <2> QED BY <2>2, <2>3
<1>9. ASSUME UndoMove(p) PROVE Stored' /\ Draft(p)'
  <2>1. /\ at[p] = "undo" /\ at'[p] = "undone" /\ work'[p].batch = w.batch
        /\ work'[p].moves = w.moves /\ work'[p].made \subseteq w.made /\ UNCHANGED Table
      BY <1>9 DEF UndoMove
  <2>2. Stored' /\ UNCHANGED <<record, commits>>  BY <1>0, <2>1, StoredKept DEF Table, RowsKept
  <2>3. Draft(p)'
      BY <1>0, <2>1, <2>2 DEF Draft, Outer, Drafting, Undoing, Deriving
  <2> QED BY <2>2, <2>3
<1>10. ASSUME UndoneMove(p) PROVE Stored' /\ Draft(p)'
  <2>1. /\ at[p] = "undone" /\ at'[p] = "idle" /\ work'[p] = Idle
        /\ archived' = archived \cup w.made /\ UNCHANGED <<row, commits, record>>
      BY <1>10 DEF UndoneMove
  <2>2. \A i \in w.made : i \in Ids /\ i[4] < commits[BatchOf[i[2]]]
      BY <1>0, <2>1 DEF Draft, Undoing, Of
  <2>3. Stored'
      BY <1>0, <2>1, <2>2 DEF Stored, Moved
  <2>4. Draft(p)'
      BY <2>1, IdleShape DEF Draft, Outer, Drafting, Undoing, Deriving
  <2> QED BY <2>3, <2>4
<1>11. Stored' /\ Draft(p)'
    BY <1>2, <1>3, <1>4, <1>5, <1>6, <1>7, <1>8, <1>9, <1>10 DEF Move
<1> QED BY <1>1, <1>11 DEF ShapeInv

LEMMA ShapeStay ==
    ASSUME ImportsAssumption, ShapeInv, Stay
    PROVE  ShapeInv'
<1>1. Stored'
    BY StoredKept DEF ShapeInv, Stay, Table, RowsKept
<1>2. Typed'
    BY DEF ShapeInv, Stay, Table, Typed
<1>3. ASSUME NEW q \in Requests PROVE Draft(q)'
    BY <1>3 DEF ShapeInv, Stay, Table, Draft, Moved, Of
<1> QED BY <1>1, <1>2, <1>3 DEF ShapeInv

LEMMA ShapeStarts ==
    ASSUME ImportsAssumption, ImportsInit
    PROVE  ShapeInv
<1>1. Typed
  <2>1. /\ at = [p \in Requests |-> "idle"] /\ work = [p \in Requests |-> Idle]
        /\ batch = [b \in Batches |-> "absent"] /\ commits = [b \in Batches |-> 0]
        /\ doc = [d \in Docs |-> None]
        /\ row = [r \in Rows |-> [status |-> "absent", reason |-> None, refs |-> {}, moves |-> {}]]
      BY DEF ImportsInit
  <2> QED BY <2>1, IdleShape DEF Typed, Status, Outer
<1>2. Stored
  <2>1. record = OnRecord /\ archived = {}
        /\ \A r \in Rows : row[r].refs = {} /\ row[r].moves = {}
      BY DEF ImportsInit
  <2>2. \A i \in Ids : i[2] \in Rows  BY DEF Ids
  <2>3. \A x \in OnRecord : x.id \notin Ids  BY <2>2 DEF ImportsAssumption
  <2>4. ASSUME NEW x \in OnRecord PROVE Sound(x)
    <3>1. x.type = "Tenancy" => {x.landlord, x.tenant} \subseteq {c.id : c \in OnRecord} \cup {None}
        BY DEF ImportsAssumption
    <3>2. None \notin Ids /\ x.id[2] \notin Rows  BY DEF ImportsAssumption
    <3>3. x.type = "Tenancy" => \A c \in {x.landlord, x.tenant} : c \notin Ids
        BY <2>3, <3>1, <3>2
    <3> QED BY <2>3, <3>2, <3>3 DEF Sound
  <2> QED BY <2>1, <2>3, <2>4 DEF Stored
<1>3. ASSUME NEW p \in Requests PROVE Draft(p)
  <2>1. at[p] = "idle" /\ work[p] = Idle  BY DEF ImportsInit
  <2> QED BY <2>1, IdleShape DEF Draft, Outer, Drafting, Undoing, Deriving
<1> QED BY <1>1, <1>2, <1>3 DEF ShapeInv

-----------------------------------------------------------------------------
(* What a rollback takes back *)

LEMMA RememberedStep ==
    ASSUME ImportsAssumption, ShapeInv, Remembered, RollbackComplete, NEW p \in Requests, Move(p)
    PROVE  Remembered' /\ RollbackComplete'
<1> DEFINE w == work[p]
           Mem(b) == batch[b] \in {"COMMITTED", "ROLLED_BACK"} => commits[b] > 0
           Back(q) == at[q] \in Undoing => commits[work[q].batch] > 0
           Held1(x) == /\ commits[BatchOf[x.id[2]]] > 0
                       /\ commits[BatchOf[x.id[2]]] = 1 => x.id \in row[x.id[2]].refs
           All(q, x) ==
                x.id \in Ids /\ at[q] \in Undoing /\ work[q].batch = BatchOf[x.id[2]]
                    /\ commits[BatchOf[x.id[2]]] = 1
                => x.id \in work[q].made \/ (at[q] = "undone" /\ IsContact(x.id))
           Done(b) == batch[b] = "ROLLED_BACK" /\ commits[b] = 1 =>
                \A x \in record : x.id \in Ids /\ BatchOf[x.id[2]] = b /\ x.id \notin archived
                                  => IsContact(x.id)
<1>0. /\ Typed /\ Stored /\ \A q \in Requests : Draft(q)
      /\ \A i \in Ids : i[2] \in Rows /\ BatchOf[i[2]] \in Batches
      /\ \A b \in Batches : commits[b] \in Nat
    BY DEF ShapeInv, Typed, Ids, ImportsAssumption
<1>1. /\ \A b \in Batches : Mem(b) /\ Done(b)
      /\ \A q \in Requests : Back(q)
      /\ \A x \in record : x.id \in Ids => Held1(x)
      /\ \A q \in Requests, x \in record : All(q, x)
  <2>1. \A x \in record : x.id \in Ids => x.id[2] \in RowsOf(BatchOf[x.id[2]])
      BY <1>0 DEF RowsOf
  <2>2. \A b \in Batches : Done(b)  BY <2>1 DEF RollbackComplete
  <2> QED BY <2>2 DEF Remembered
<1>g. Others(p) /\ record \subseteq record'
    BY <1>0, Grows
<1> SUFFICES /\ \A b \in Batches : Mem(b)' /\ Done(b)'
             /\ \A q \in Requests : Back(q)'
             /\ \A x \in record' : x.id \in Ids => Held1(x)'
             /\ \A q \in Requests, x \in record' : All(q, x)'
  <2>1. \A x \in record' : x.id[2] \in Rows => x.id \in Ids
    <3>1. \A x \in record : Sound(x)  BY <1>0 DEF Stored
    <3>2. record' = record \/ (CommitMove(p) /\ record' = record \cup w.made)
        BY Zenon DEF Move, OuterMove, CommitReadMove, RollbackReadMove, ResolveMove, WriteMove,
              CommitMove, DeriveMove, UndoMove, UndoneMove, Table
    <3>3. CommitMove(p) => \A x \in w.made : x.id \in Ids
        BY <1>0 DEF CommitMove, Draft, Drafting
    <3> QED BY <3>1, <3>2, <3>3 DEF Sound
  <2> QED BY <2>1 DEF Remembered, RollbackComplete, RowsOf
<1>2. ASSUME UNCHANGED <<record, archived, commits>>, RowsKept,
             \A b \in Batches : batch'[b] = batch[b] \/ batch'[b] \in {"UPLOADED", "MAPPED"},
             Back(p)', \A x \in record : All(p, x)'
      PROVE  /\ \A b \in Batches : Mem(b)' /\ Done(b)'
             /\ \A q \in Requests : Back(q)'
             /\ \A x \in record' : x.id \in Ids => Held1(x)'
             /\ \A q \in Requests, x \in record' : All(q, x)'
  <2>1. \A b \in Batches : Mem(b)' /\ Done(b)'
      BY <1>1, <1>2
  <2>2. \A x \in record' : x.id \in Ids => Held1(x)'
      BY <1>0, <1>1, <1>2 DEF RowsKept
  <2>3. ASSUME NEW q \in Requests, q # p PROVE Back(q)' /\ \A x \in record' : All(q, x)'
    <3>1. at'[q] = at[q] /\ work'[q] = work[q]  BY <1>g, <2>3 DEF Others
    <3> QED BY <1>1, <1>2, <3>1
  <2> QED BY <1>2, <2>1, <2>2, <2>3
<1>3. ASSUME at'[p] \notin Undoing PROVE Back(p)' /\ \A x \in record : All(p, x)'
    BY <1>3
<1> DEFINE Goal == /\ \A b \in Batches : Mem(b)' /\ Done(b)'
                   /\ \A q \in Requests : Back(q)'
                   /\ \A x \in record' : x.id \in Ids => Held1(x)'
                   /\ \A q \in Requests, x \in record' : All(q, x)'
<1>4. ASSUME OuterMove(p) PROVE Goal
  <2>1. /\ UNCHANGED <<record, archived, commits>> /\ RowsKept /\ at'[p] \notin Undoing
        /\ \A b \in Batches : batch'[b] = batch[b] \/ batch'[b] \in {"UPLOADED", "MAPPED"}
      BY <1>4 DEF OuterMove, Outer, Undoing
  <2> HIDE DEF Mem, Done, Back, Held1, All
  <2> QED BY <1>2, <1>3, <2>1
<1>5. ASSUME UNCHANGED Table, at'[p] \notin Undoing PROVE Goal
  <2>1. /\ UNCHANGED <<record, archived, commits>> /\ RowsKept
        /\ \A b \in Batches : batch'[b] = batch[b] \/ batch'[b] \in {"UPLOADED", "MAPPED"}
      BY <1>5 DEF Table, RowsKept
  <2> HIDE DEF Mem, Done, Back, Held1, All
  <2> QED BY <1>2, <1>3, <1>5, <2>1
<1>6. ASSUME NEW b \in Batches, RollbackReadMove(p, b) PROVE Goal
  <2>1. /\ at'[p] = "undo" /\ work'[p].batch = b /\ batch[b] = "COMMITTED"
        /\ work'[p].made = UNION {row[r].refs : r \in RowsOf(b)} /\ UNCHANGED Table
      BY <1>6 DEF RollbackReadMove
  <2>2. /\ UNCHANGED <<record, archived, commits>> /\ RowsKept
        /\ \A c \in Batches : batch'[c] = batch[c] \/ batch'[c] \in {"UPLOADED", "MAPPED"}
      BY <2>1 DEF Table, RowsKept
  <2>3. Back(p)'  BY <1>1, <2>1, <2>2
  <2>4. ASSUME NEW x \in record, x.id \in Ids, BatchOf[x.id[2]] = b, commits[b] = 1
        PROVE  x.id \in work'[p].made
    <3>1. x.id \in row[x.id[2]].refs  BY <1>1, <2>4
    <3>2. x.id[2] \in RowsOf(b)  BY <1>0, <2>4 DEF RowsOf
    <3> QED BY <2>1, <3>1, <3>2
  <2>5. \A x \in record : All(p, x)'
      BY <2>1, <2>2, <2>4
  <2> HIDE DEF Mem, Done, Back, Held1, All
  <2> QED BY <1>2, <2>2, <2>3, <2>5
<1>7. ASSUME UndoMove(p) PROVE Goal
  <2>1. /\ at[p] = "undo" /\ at'[p] = "undone" /\ work'[p].batch = w.batch
        /\ work'[p].made = w.made \ {c \in w.made : IsContact(c) /\ Referenced(c, w.made)}
        /\ UNCHANGED Table
      BY <1>7 DEF UndoMove
  <2>2. /\ UNCHANGED <<record, archived, commits>> /\ RowsKept
        /\ \A c \in Batches : batch'[c] = batch[c] \/ batch'[c] \in {"UPLOADED", "MAPPED"}
      BY <2>1 DEF Table, RowsKept
  <2>3. Back(p)'  BY <1>1, <2>1, <2>2 DEF Undoing
  <2>4. \A x \in record : All(p, x)'
      BY <1>1, <2>1, <2>2 DEF Undoing
  <2> HIDE DEF Mem, Done, Back, Held1, All
  <2> QED BY <1>2, <2>2, <2>3, <2>4
<1>8. ASSUME UndoneMove(p) PROVE Goal
  <2>1. /\ at[p] = "undone" /\ at'[p] = "idle" /\ archived' = archived \cup w.made
        /\ batch'[w.batch] = "ROLLED_BACK" /\ (\A b \in Batches \ {w.batch} : batch'[b] = batch[b])
        /\ UNCHANGED <<row, commits, record>>
      BY <1>8 DEF UndoneMove
  <2>2. \A b \in Batches : Mem(b)'  BY <1>1, <2>1 DEF Undoing
  <2>3. ASSUME NEW b \in Batches PROVE Done(b)'
    <3>1. CASE b # w.batch  BY <1>1, <2>1, <3>1
    <3>2. CASE b = w.batch
      <4>1. \A x \in record : All(p, x)  BY <1>1
      <4> QED BY <2>1, <3>2, <4>1 DEF Undoing
    <3> QED BY <3>1, <3>2
  <2>4. ASSUME NEW q \in Requests PROVE Back(q)' /\ \A x \in record' : All(q, x)'
    <3>1. CASE q = p  BY <2>1, <3>1 DEF Undoing
    <3>2. CASE q # p
      <4>1. at'[q] = at[q] /\ work'[q] = work[q]  BY <1>g, <3>2 DEF Others
      <4> QED BY <1>1, <2>1, <4>1
    <3> QED BY <3>1, <3>2
  <2>5. \A x \in record' : x.id \in Ids => Held1(x)'  BY <1>1, <2>1
  <2> QED BY <2>2, <2>3, <2>4, <2>5
<1>9. ASSUME CommitMove(p) PROVE Goal
  <2> DEFINE b == w.batch
  <2>1. /\ at[p] = "row" /\ at'[p] = "derive" /\ record' = record \cup w.made /\ archived' = archived
        /\ batch'[b] = "COMMITTED" /\ commits'[b] = commits[b] + 1
        /\ (\A c \in Batches \ {b} : batch'[c] = batch[c] /\ commits'[c] = commits[c])
      BY <1>9 DEF CommitMove
  <2>2. \A r \in Rows : /\ r \notin w.done => row'[r].refs = row[r].refs
                        /\ r \in w.done => row'[r].refs = Refs(w.made, r)
      BY <1>9 DEF CommitMove
  <2>3. /\ w.done \subseteq RowsOf(b) /\ b \in Batches
        /\ \A x \in w.made : x.id \in Ids /\ x.id[2] \in w.done
      BY <1>0, <2>1 DEF Draft, Drafting, Typed
  <2> HIDE DEF b
  <2>4. \A c \in Batches : Mem(c)'  BY <1>0, <1>1, <2>1, <2>3
  <2>5. ASSUME NEW x \in record', x.id \in Ids PROVE Held1(x)'
    <3>1. CASE x \in w.made
      <4>1. BatchOf[x.id[2]] = b /\ x.id[2] \in w.done  BY <2>3, <3>1 DEF RowsOf
      <4>2. x.id \in row'[x.id[2]].refs  BY <1>0, <2>2, <2>5, <3>1, <4>1 DEF Refs
      <4> QED BY <1>0, <2>1, <2>3, <4>1, <4>2
    <3>2. CASE x \in record
      <4>1. Held1(x)  BY <1>1, <2>5, <3>2
      <4>2. CASE BatchOf[x.id[2]] = b
        <5>0. commits[b] > 0 /\ commits[b] \in Nat  BY <1>0, <2>3, <4>1, <4>2
        <5>1. commits'[b] > 0 /\ commits'[b] # 1  BY <2>1, <5>0
        <5> QED BY <4>2, <5>1
      <4>3. CASE BatchOf[x.id[2]] # b
        <5>1. x.id[2] \notin w.done  BY <2>3, <4>3 DEF RowsOf
        <5> QED BY <1>0, <2>1, <2>2, <2>5, <4>1, <4>3, <5>1
      <4> QED BY <4>2, <4>3
    <3> QED BY <2>1, <3>1, <3>2
  <2>6. \A x \in w.made : BatchOf[x.id[2]] = b  BY <2>3 DEF RowsOf
  <2>7. ASSUME NEW c \in Batches PROVE Done(c)'
    <3>1. CASE c = b  BY <2>1, <3>1
    <3>2. CASE c # b  BY <1>1, <2>1, <2>6, <3>2
    <3> QED BY <3>1, <3>2
  <2>8. ASSUME NEW q \in Requests PROVE Back(q)' /\ \A x \in record' : All(q, x)'
    <3>1. CASE q = p  BY <2>1, <3>1 DEF Undoing
    <3>2. CASE q # p
      <4>1. at'[q] = at[q] /\ work'[q] = work[q]  BY <1>g, <3>2 DEF Others
      <4>2. at[q] \in Undoing => work[q].batch \in Batches  BY <1>0 DEF Typed, Undoing
      <4>3. Back(q)'  BY <1>0, <1>1, <2>1, <4>1, <4>2
      <4>4. ASSUME NEW x \in record' PROVE All(q, x)'
        <5>1. CASE at[q] \in Undoing /\ work[q].batch = b
          <6>1. commits'[b] > 1  BY <1>0, <1>1, <2>1, <2>3, <5>1
          <6> QED BY <4>1, <5>1, <6>1
        <5>2. CASE ~(at[q] \in Undoing /\ work[q].batch = b)
          <6>1. x \in w.made => All(q, x)'  BY <2>6, <4>1, <5>2
          <6>2. x \in record => All(q, x)'
            <7>1. ASSUME x \in record, x.id \in Ids, BatchOf[x.id[2]] # b PROVE All(q, x)'
              <8>1. commits'[BatchOf[x.id[2]]] = commits[BatchOf[x.id[2]]]
                  BY <1>0, <2>1, <7>1
              <8> QED BY <1>1, <4>1, <7>1, <8>1
            <7> QED BY <4>1, <5>2, <7>1
          <6> QED BY <2>1, <6>1, <6>2
        <5> QED BY <5>1, <5>2
      <4> QED BY <4>3, <4>4
    <3> QED BY <3>1, <3>2
  <2> QED BY <2>4, <2>5, <2>7, <2>8
<1> HIDE DEF Mem, Done, Back, Held1, All
<1>10. ASSUME NEW b \in Batches, CommitReadMove(p, b) PROVE Goal
  <2>1. UNCHANGED Table /\ at'[p] = "row"  BY <1>10, Zenon DEF CommitReadMove
  <2>2. at'[p] \notin Undoing  BY <2>1 DEF Undoing
  <2> QED BY <1>5, <2>1, <2>2
<1>11. ASSUME NEW r \in Rows, NEW o, NEW t, NEW place, ResolveMove(p, r, o, t, place) PROVE Goal
  <2>1. UNCHANGED Table /\ at'[p] = "write"  BY <1>11, Zenon DEF ResolveMove
  <2>2. at'[p] \notin Undoing  BY <2>1 DEF Undoing
  <2> QED BY <1>5, <2>1, <2>2
<1>12. ASSUME WriteMove(p) \/ DeriveMove(p) PROVE Goal
  <2>1. UNCHANGED Table /\ at'[p] \notin Undoing
      BY <1>12 DEF WriteMove, DeriveMove, Deriving, Undoing
  <2> QED BY <1>5, <2>1
<1>13. Goal
    BY <1>4, <1>6, <1>7, <1>8, <1>9, <1>10, <1>11, <1>12 DEF Move
<1> QED BY <1>13

LEMMA RollbackStarts ==
    ASSUME ImportsAssumption, ImportsInit
    PROVE  RollbackInv
<1>1. ShapeInv  BY ShapeStarts
<1>2. \A x \in OnRecord : x.id \notin Ids
    BY DEF ImportsAssumption, Ids
<1>3. Remembered /\ RollbackComplete
    BY <1>2 DEF ImportsInit, Remembered, RollbackComplete, Undoing
<1> QED BY <1>1, <1>3 DEF RollbackInv

LEMMA RollbackStep ==
    ASSUME ImportsAssumption, RollbackInv, [ImportsNext]_importVars
    PROVE  RollbackInv'
<1>0. ShapeInv /\ Typed /\ \A p \in Requests : Draft(p)
    BY DEF RollbackInv, ShapeInv
<1>1. Typed' /\ (Stay \/ \E p \in Requests : Move(p))
    BY <1>0, Steps
<1>2. CASE Stay
  <2>1. ShapeInv'  BY <1>0, <1>2, ShapeStay
  <2>2. Remembered' /\ RollbackComplete'
      BY <1>2 DEF RollbackInv, Remembered, RollbackComplete, Stay, Table
  <2> QED BY <2>1, <2>2 DEF RollbackInv
<1>3. ASSUME NEW p \in Requests, Move(p) PROVE RollbackInv'
    BY <1>0, <1>1, <1>3, ShapeStep, RememberedStep DEF RollbackInv
<1> QED BY <1>1, <1>2, <1>3

\* A rollback takes back all that the one commit of its batch made, but for the
\* contacts something else names, whoever commits or rolls back beside it.
THEOREM RollbackCompleteHolds == ImportsSpec => []RollbackComplete
<1>1. ImportsInit => RollbackInv  BY RollbackStarts, ImportsAssumption
<1>2. RollbackInv /\ [ImportsNext]_importVars => RollbackInv'  BY RollbackStep, ImportsAssumption
<1>3. RollbackInv => RollbackComplete  BY DEF RollbackInv
<1> QED BY <1>1, <1>2, <1>3, PTL DEF ImportsSpec

-----------------------------------------------------------------------------
(* Who met whom *)

Joins(p, b) == /\ b \in Batches /\ batch[b] # "absent" /\ Company(p, b)
               /\ at[p] \in {"idle", "open"} /\ at'[p] \in {"row", "undo"} /\ work'[p].batch = b
GoesOn(p) == /\ at[p] \in Writing /\ at'[p] \in Writing /\ work'[p].batch = work[p].batch
Adders == {"add", "create", "detect", "conflicts"}

\* As far as meetings go, a step is of four kinds, and no batch disappears.
LEMMA Kinds ==
    ASSUME ImportsAssumption, Typed, NEW p \in Requests, Move(p)
    PROVE  /\ OuterMove(p) \/ (\E b \in Batches : Joins(p, b)) \/ GoesOn(p) \/ UndoneMove(p)
           /\ \A b \in Batches : batch[b] # "absent" => batch'[b] # "absent"
<1> DEFINE Kept == \A b \in Batches : batch[b] # "absent" => batch'[b] # "absent"
<1>1. OuterMove(p) => Kept  BY DEF OuterMove
<1>2. UNCHANGED Table => Kept  BY DEF Table
<1>3. ASSUME NEW b \in Batches, CommitReadMove(p, b) PROVE Joins(p, b) /\ Kept
  <2>1. UNCHANGED Table /\ Company(p, b) /\ batch[b] # "absent" /\ at[p] \in {"idle", "open"}
        /\ at'[p] = "row" /\ work'[p].batch = b
      BY <1>3, Zenon DEF CommitReadMove
  <2> QED BY <1>2, <2>1 DEF Joins
<1>4. ASSUME NEW b \in Batches, RollbackReadMove(p, b) PROVE Joins(p, b) /\ Kept
  <2>1. UNCHANGED Table /\ Company(p, b) /\ batch[b] = "COMMITTED" /\ at[p] = "idle"
        /\ at'[p] = "undo" /\ work'[p].batch = b
      BY <1>4, Zenon DEF RollbackReadMove
  <2> QED BY <1>2, <2>1 DEF Joins
<1>5. ASSUME NEW r \in Rows, NEW o, NEW t, NEW place, ResolveMove(p, r, o, t, place)
      PROVE  GoesOn(p) /\ Kept
  <2>1. UNCHANGED Table /\ at[p] = "row" /\ at'[p] = "write" /\ work'[p].batch = work[p].batch
      BY <1>5, Zenon DEF ResolveMove
  <2> QED BY <1>2, <2>1 DEF GoesOn, Writing
<1>6. ASSUME WriteMove(p) \/ DeriveMove(p) \/ UndoMove(p) PROVE GoesOn(p) /\ Kept
    BY <1>2, <1>6 DEF WriteMove, DeriveMove, UndoMove, GoesOn, Writing, Deriving
<1>7. ASSUME CommitMove(p) PROVE GoesOn(p) /\ Kept
  <2>1. /\ at[p] = "row" /\ at'[p] = "derive" /\ work'[p].batch = work[p].batch
        /\ batch'[work[p].batch] = "COMMITTED"
        /\ \A b \in Batches \ {work[p].batch} : batch'[b] = batch[b]
      BY <1>7 DEF CommitMove
  <2> QED BY <2>1 DEF GoesOn, Writing
<1>8. ASSUME UndoneMove(p) PROVE Kept
    BY <1>8 DEF UndoneMove
<1> QED BY <1>1, <1>3, <1>4, <1>5, <1>6, <1>7, <1>8 DEF Move

\* Whoever joins notes the company and is noted.
LEMMA Noted ==
    ASSUME NEW p \in Requests, NEW b, Company(p, b), NEW q \in Requests, q # p,
           at[q] \in Writing \/ Adding(q, b)
    PROVE  b \in crossed' /\ work[q].batch \in crossed'
<1> DEFINE beside == {x \in Requests \ {p} : at[x] \in Writing \/ Adding(x, b)}
           met == {work[x].batch : x \in beside}
<1>1. crossed' = IF beside = {} THEN crossed ELSE crossed \cup {b} \cup met
    BY DEF Company
<1>2. q \in beside /\ work[q].batch \in met
    OBVIOUS
<1> HIDE DEF beside, met
<1> QED BY <1>1, <1>2

LEMMA MetStep ==
    ASSUME ImportsAssumption, Typed, Typed', Met, NEW p \in Requests, Move(p)
    PROVE  Met'
<1> DEFINE Away(q) == at[q] \in {"idle", "extract"}
<1>0. /\ \A q, s \in Requests : q # s /\ at[q] \in Writing /\ at[s] \in Writing
                                  => work[q].batch \in crossed
      /\ \A q, s \in Requests : at[q] \in Writing /\ Adding(s, work[q].batch)
                                  => work[q].batch \in crossed
      /\ \A q \in Requests : ~Away(q) => batch[work[q].batch] # "absent"
    BY DEF Met
<1>1. /\ \A q \in Requests \ {p} : at'[q] = at[q] /\ work'[q] = work[q]
      /\ crossed \subseteq crossed'
    BY Grows DEF Others
<1>2. OuterMove(p) \/ (\E b \in Batches : Joins(p, b)) \/ GoesOn(p) \/ UndoneMove(p)
    BY Kinds
<1>3. /\ \A b \in Batches : batch[b] # "absent" => batch'[b] # "absent"
      /\ \A q \in Requests : ~Away(q) => work[q].batch \in Batches
    BY Kinds DEF Typed
<1>o. /\ \A q, s \in Requests \ {p} : q # s /\ at'[q] \in Writing /\ at'[s] \in Writing
                                  => work'[q].batch \in crossed'
      /\ \A q, s \in Requests \ {p} : at'[q] \in Writing /\ Adding(s, work[q].batch)'
                                  => work'[q].batch \in crossed'
      /\ \A q \in Requests \ {p} : ~Away(q)' => batch'[work'[q].batch] # "absent"
    BY <1>0, <1>1, <1>3 DEF Adding
<1>i. \A q \in Requests : ~Away(q) <=> at[q] \notin {"idle", "extract"}
    OBVIOUS
<1> SUFFICES /\ \A q \in Requests \ {p} : at'[q] \in Writing /\ at'[p] \in Writing
                                  => work'[q].batch \in crossed' /\ work'[p].batch \in crossed'
             /\ \A q \in Requests \ {p} : at'[q] \in Writing /\ Adding(p, work[q].batch)'
                                  => work'[q].batch \in crossed'
             /\ \A q \in Requests \ {p} : at'[p] \in Writing /\ Adding(q, work[p].batch)'
                                  => work'[p].batch \in crossed'
             /\ ~Away(p)' => batch'[work'[p].batch] # "absent"
  <2>1. ~(at'[p] \in Writing /\ Adding(p, work[p].batch)')
      BY DEF Adding, Writing
  <2> HIDE DEF Away
  <2>2. \A q, s \in Requests : q # s /\ at'[q] \in Writing /\ at'[s] \in Writing
                                  => work'[q].batch \in crossed'
      BY <1>o
  <2>3. \A q, s \in Requests : at'[q] \in Writing /\ Adding(s, work[q].batch)'
                                  => work'[q].batch \in crossed'
      BY <1>o, <2>1
  <2>4. \A q \in Requests : ~Away(q)' => batch'[work'[q].batch] # "absent"
      BY <1>o
  <2> QED BY <2>2, <2>3, <2>4 DEF Met, Away
<1>4. CASE OuterMove(p)
  <2>1. at'[p] \notin Writing  BY <1>4 DEF OuterMove, Outer, Writing
  <2>2. ASSUME NEW q \in Requests \ {p}, at'[q] \in Writing, Adding(p, work[q].batch)'
        PROVE  work'[q].batch \in crossed'
    <3>1. at[q] \in Writing /\ work[q].batch = work'[q].batch  BY <1>1, <2>2
    <3>2. at'[p] \in Adders /\ work'[p].batch = work[q].batch  BY <2>2, <3>1 DEF Adding, Adders
    <3>3. batch[work[q].batch] # "absent"  BY <1>0, <3>1 DEF Writing
    <3>4. at[p] \in Adders /\ work'[p].batch = work[p].batch
        BY <1>4, <3>2, <3>3 DEF OuterMove, Adders
    <3> QED BY <1>0, <1>1, <3>1, <3>2, <3>4 DEF Adding, Adders
  <2>3. ~Away(p)' => batch'[work'[p].batch] # "absent"
      BY <1>0, <1>3, <1>4 DEF OuterMove
  <2> QED BY <2>1, <2>2, <2>3
<1>5. ASSUME NEW b \in Batches, Joins(p, b)
      PROVE  /\ \A q \in Requests \ {p} : at'[q] \in Writing /\ at'[p] \in Writing
                                  => work'[q].batch \in crossed' /\ work'[p].batch \in crossed'
             /\ \A q \in Requests \ {p} : at'[q] \in Writing /\ Adding(p, work[q].batch)'
                                  => work'[q].batch \in crossed'
             /\ \A q \in Requests \ {p} : at'[p] \in Writing /\ Adding(q, work[p].batch)'
                                  => work'[p].batch \in crossed'
             /\ ~Away(p)' => batch'[work'[p].batch] # "absent"
  <2>1. work'[p].batch = b /\ Company(p, b) /\ batch'[b] # "absent" /\ at'[p] \in {"row", "undo"}
      BY <1>3, <1>5 DEF Joins
  <2>2. ~Adding(p, b)' /\ \A c : ~Adding(p, c)'  BY <2>1 DEF Adding
  <2>3. \A q \in Requests \ {p} : at'[q] \in Writing => b \in crossed' /\ work'[q].batch \in crossed'
      BY <1>1, <2>1, Noted
  <2>4. \A q \in Requests \ {p} : Adding(q, b)' => b \in crossed'
      BY <1>1, <2>1, Noted DEF Adding
  <2> QED BY <2>1, <2>2, <2>3, <2>4
<1>6. CASE GoesOn(p)
  <2>1. /\ at[p] \in Writing /\ at'[p] \in Writing /\ work'[p].batch = work[p].batch
      BY <1>6 DEF GoesOn
  <2>2. \A c : ~Adding(p, c)'  BY <2>1 DEF Adding, Writing
  <2>3. \A q \in Requests \ {p} : Adding(q, work[p].batch)' <=> Adding(q, work[p].batch)
      BY <1>1, <2>1 DEF Adding
  <2>4. ~Away(p)  BY <2>1 DEF Writing
  <2> HIDE DEF Away
  <2>5. batch'[work'[p].batch] # "absent"  BY <1>0, <1>3, <2>1, <2>4
  <2>6. \A q \in Requests \ {p} : Adding(q, work[p].batch)' => work'[p].batch \in crossed'
      BY <1>0, <1>1, <2>1 DEF Adding
  <2> QED BY <1>0, <1>1, <2>1, <2>2, <2>5, <2>6
<1>7. CASE UndoneMove(p)
  <2>1. at'[p] = "idle"  BY <1>7 DEF UndoneMove
  <2>2. (\A c : ~Adding(p, c)') /\ at'[p] \notin Writing  BY <2>1 DEF Adding, Writing
  <2> QED BY <2>1, <2>2
<1> QED BY <1>2, <1>4, <1>5, <1>6, <1>7

-----------------------------------------------------------------------------
(* Nothing dangles *)

LEMMA DueStep ==
    ASSUME ImportsAssumption, ShapeInv, Met, DueInv, NEW p \in Requests, Move(p)
    PROVE  DueInv'
<1> DEFINE Fine(q) == at[q] = "deriveWrite" /\ work[q].target \in archived => work[q].batch \in crossed
           Due == \A t \in due \cap archived : BatchOf[t[2]] \in crossed
<1>0. Typed /\ Draft(p) /\ Due /\ \A q \in Requests : Fine(q)
    BY DEF ShapeInv, DueInv, NothingDueArchived
<1>1. Others(p) /\ crossed \subseteq crossed'
    BY <1>0, Grows
<1> SUFFICES Due' /\ \A q \in Requests : Fine(q)'
    BY DEF DueInv, NothingDueArchived
<1> HIDE DEF Due
<1>2. ASSUME archived' = archived, Fine(p)' PROVE \A q \in Requests : Fine(q)'
    BY <1>0, <1>1, <1>2 DEF Others
<1>3. ASSUME UNCHANGED <<archived, due>> PROVE Due'
    BY <1>0, <1>1, <1>3 DEF Due
<1> HIDE DEF Fine
<1>4. ASSUME UNCHANGED <<archived, due>>, at'[p] # "deriveWrite" PROVE Due' /\ \A q \in Requests : Fine(q)'
  <2>1. Fine(p)'  BY <1>4 DEF Fine
  <2> QED BY <1>2, <1>3, <1>4, <2>1
<1>5. CASE OuterMove(p)  BY <1>4, <1>5 DEF OuterMove, Outer
<1>6. ASSUME NEW b \in Batches, CommitReadMove(p, b) PROVE Due' /\ \A q \in Requests : Fine(q)'
  <2>1. UNCHANGED <<Table, due>> /\ at'[p] = "row"  BY <1>6, Zenon DEF CommitReadMove
  <2> QED BY <1>4, <2>1 DEF Table
<1>7. ASSUME NEW b \in Batches, RollbackReadMove(p, b) PROVE Due' /\ \A q \in Requests : Fine(q)'
  <2>1. UNCHANGED <<Table, due>> /\ at'[p] = "undo"  BY <1>7, Zenon DEF RollbackReadMove
  <2> QED BY <1>4, <2>1 DEF Table
<1>8. ASSUME NEW r \in Rows, NEW o, NEW t, NEW place, ResolveMove(p, r, o, t, place)
      PROVE  Due' /\ \A q \in Requests : Fine(q)'
  <2>1. UNCHANGED <<Table, due>> /\ at'[p] = "write"  BY <1>8, Zenon DEF ResolveMove
  <2> QED BY <1>4, <2>1 DEF Table
<1>9. CASE WriteMove(p) \/ CommitMove(p) \/ UndoMove(p)
  <2>1. UNCHANGED <<archived, due>> /\ at'[p] # "deriveWrite"
      BY <1>9 DEF WriteMove, CommitMove, UndoMove, Table
  <2> QED BY <1>4, <2>1
<1>10. CASE DeriveMove(p)
  <2>1. /\ archived' = archived /\ crossed' = crossed /\ work'[p].batch = work[p].batch
        /\ at'[p] = "deriveWrite" => work'[p].target \notin archived
        /\ due' \subseteq due \/ (at[p] = "deriveWrite" /\ due' = due \cup {work[p].target})
      BY <1>10 DEF DeriveMove, Table
  <2>2. Fine(p)'  BY <2>1 DEF Fine
  <2>3. CASE due' \subseteq due  BY <1>0, <1>2, <2>1, <2>2, <2>3 DEF Due
  <2>4. CASE at[p] = "deriveWrite" /\ due' = due \cup {work[p].target}
    <3>1. BatchOf[work[p].target[2]] = work[p].batch  BY <1>0, <2>4 DEF Draft, Deriving
    <3>2. work[p].target \in archived => work[p].batch \in crossed  BY <1>0, <2>4 DEF Fine
    <3>3. Due'  BY <1>0, <2>1, <2>4, <3>1, <3>2 DEF Due
    <3> QED BY <1>2, <2>1, <2>2, <3>3
  <2> QED BY <2>1, <2>3, <2>4
<1>11. CASE UndoneMove(p)
  <2>1. /\ at[p] = "undone" /\ at'[p] = "idle" /\ archived' = archived \cup work[p].made
        /\ due' = due \ work[p].made /\ crossed' = crossed
      BY <1>11 DEF UndoneMove
  <2>2. Due'  BY <1>0, <2>1 DEF Due
  <2>3. ASSUME NEW q \in Requests PROVE Fine(q)'
    <3>1. CASE q = p  BY <2>1, <3>1 DEF Fine
    <3>2. CASE q # p
      <4>1. at'[q] = at[q] /\ work'[q] = work[q]  BY <1>1, <3>2 DEF Others
      <4>2. at[q] = "deriveWrite" => work[q].batch \in crossed
          BY <2>1, <3>2 DEF Met, Writing
      <4> QED BY <2>1, <4>1, <4>2 DEF Fine
    <3> QED BY <3>1, <3>2
  <2> QED BY <2>2, <2>3
<1> QED BY <1>5, <1>6, <1>7, <1>8, <1>9, <1>10, <1>11 DEF Move

\* A party a row finds or makes is not among what is archived, if no commit of
\* its batch came in between.
LEMMA PartiesFresh ==
    ASSUME ImportsAssumption, Stored, Typed, NEW p \in Requests, Draft(p), at[p] \in Drafting,
           work[p].nth = commits[work[p].batch], NEW r \in work[p].todo,
           NEW kind \in {"OWNER", "TENANT"}, NEW o \in Bound(p, kind, r)
    PROVE  o \notin archived
<1>1. ASSUME NEW x \in Seen(p, "Contact"), x.id = o PROVE o \notin archived
    BY <1>1, SeenSound
<1>2. o = None => o \notin archived
    BY DEF Stored, ImportsAssumption
<1>3. ASSUME o = New(p, kind, r) PROVE o \notin archived
  <2>1. r \in Rows /\ BatchOf[r] = work[p].batch /\ work[p].nth \in Nat
      BY DEF Draft, RowsOf, Typed
  <2>2. o[2] = r /\ o[4] = commits[BatchOf[r]]  BY <1>3, <2>1, NewIds
  <2>3. commits[BatchOf[r]] \in Nat  BY <2>1 DEF Typed, ImportsAssumption
  <2> QED BY <2>2, <2>3 DEF Stored
<1> QED BY <1>1, <1>2, <1>3, BoundAre

\* What a rollback keeps is what lives on and still names it.
LEMMA UndoKeeps ==
    ASSUME ShapeInv, NEW p \in Requests, UndoMove(p), NEW t \in LiveOf("Tenancy")
    PROVE  t.id \in work'[p].made \/ {t.landlord, t.tenant} \cap work'[p].made = {}
<1> DEFINE ids == work[p].made  kept == {c \in ids : IsContact(c) /\ Referenced(c, ids)}
<1>1. at[p] = "undo" /\ work'[p].made = ids \ kept
    BY DEF UndoMove
<1>2. t \in record /\ t.type = "Tenancy" /\ t.id \notin archived /\ Sound(t)
    BY DEF LiveOf, ShapeInv, Stored
<1>3. ids \subseteq Ids
    BY <1>1 DEF ShapeInv, Draft, Undoing, Of
<1>4. CASE t.id \in ids
  <2>1. ~IsContact(t.id)  BY <1>2, <1>3, <1>4 DEF Sound, IsContact
  <2> QED BY <1>1, <1>4, <2>1
<1>5. CASE t.id \notin ids
  <2>1. ASSUME NEW c \in {t.landlord, t.tenant}, c \in ids PROVE c \in kept
    <3>1. IsContact(c)  BY <1>2, <1>3, <2>1 DEF Sound
    <3>2. Referenced(c, ids)  BY <1>2, <1>5, <2>1 DEF Referenced
    <3> QED BY <2>1, <3>1, <3>2
  <2> HIDE DEF kept
  <2> QED BY <1>1, <2>1
<1> QED BY <1>4, <1>5

LEMMA LiveStep ==
    ASSUME ImportsAssumption, ShapeInv, Typed', Met, Met', LiveInv, NEW p \in Requests, Move(p)
    PROVE  LiveInv'
<1> DEFINE Parties == \A t \in LiveOf("Tenancy") : {t.landlord, t.tenant} \cap archived = {}
           Draws(q) == at[q] \in Drafting => work[q].nth = commits[work[q].batch]
                                            /\ PartiesIn(work[q].made, archived)
           Frees(q) == at[q] = "undone" =>
                \A t \in LiveOf("Tenancy") :
                    t.id \in work[q].made \/ {t.landlord, t.tenant} \cap work[q].made = {}
<1> SUFFICES ASSUME crossed' = {}
             PROVE  Parties' /\ \A q \in Requests : Draws(q)' /\ Frees(q)'
    BY DEF LiveInv, PartiesLive
<1>0. Typed /\ Stored /\ Draft(p) /\ Others(p) /\ crossed = {}
    BY Grows DEF ShapeInv
<1>1. Parties /\ \A q \in Requests : Draws(q) /\ Frees(q)
    BY <1>0 DEF LiveInv, PartiesLive
<1>2. ASSUME UNCHANGED <<record, archived, commits>>, Draws(p)', Frees(p)'
      PROVE  Parties' /\ \A q \in Requests : Draws(q)' /\ Frees(q)'
  <2>1. Parties'  BY <1>1, <1>2 DEF LiveOf
  <2>2. ASSUME NEW q \in Requests, q # p PROVE Draws(q)' /\ Frees(q)'
    <3>1. at'[q] = at[q] /\ work'[q] = work[q]  BY <1>0, <2>2 DEF Others
    <3> QED BY <1>1, <1>2, <3>1 DEF LiveOf, PartiesIn
  <2> HIDE DEF Draws, Frees
  <2> QED BY <1>2, <2>1, <2>2
<1>3. ASSUME UNCHANGED <<record, archived, commits>>, at'[p] \notin Drafting \cup {"undone"}
      PROVE  Parties' /\ \A q \in Requests : Draws(q)' /\ Frees(q)'
  <2>1. Draws(p)' /\ Frees(p)'  BY <1>3
  <2> HIDE DEF Parties, Draws, Frees
  <2> QED BY <1>2, <1>3, <2>1
<1>4. ASSUME at[p] \in Writing, at'[p] \notin Drafting \cup {"undone"}
      PROVE  \A q \in Requests : Draws(q)' /\ Frees(q)'
  <2>1. ASSUME NEW q \in Requests, q # p PROVE at'[q] \notin Drafting \cup {"undone"}
      BY <1>0, <1>4, <2>1 DEF Met, Others, Writing, Drafting
  <2> QED BY <1>4, <2>1
<1> HIDE DEF Parties, Draws, Frees
<1>5. CASE OuterMove(p)
  <2>1. UNCHANGED <<record, archived, commits>> /\ at'[p] \notin Drafting \cup {"undone"}
      BY <1>5 DEF OuterMove, Outer, Drafting
  <2> QED BY <1>3, <2>1
<1>6. ASSUME NEW b \in Batches, CommitReadMove(p, b)
      PROVE  Parties' /\ \A q \in Requests : Draws(q)' /\ Frees(q)'
  <2>1. UNCHANGED Table /\ at'[p] = "row" /\ at[p] \in {"idle", "open"} /\ work'[p].batch = b
        /\ work'[p].nth = commits[b] /\ work'[p].made = work[p].made
      BY <1>6, Zenon DEF CommitReadMove
  <2>2. work[p].made = {}  BY <1>0, <2>1 DEF Draft, Outer
  <2>3. Draws(p)'  BY <2>1, <2>2 DEF Draws, PartiesIn, TenancyRecords, Table
  <2>4. Frees(p)'  BY <2>1 DEF Frees
  <2> QED BY <1>2, <2>1, <2>3, <2>4 DEF Table
<1>7. ASSUME NEW b \in Batches, RollbackReadMove(p, b)
      PROVE  Parties' /\ \A q \in Requests : Draws(q)' /\ Frees(q)'
  <2>1. UNCHANGED Table /\ at'[p] = "undo"  BY <1>7, Zenon DEF RollbackReadMove
  <2> QED BY <1>3, <2>1 DEF Table, Drafting
<1>8. ASSUME NEW r \in Rows, NEW o, NEW t, NEW place, ResolveMove(p, r, o, t, place)
      PROVE  Parties' /\ \A q \in Requests : Draws(q)' /\ Frees(q)'
  <2>1. UNCHANGED Table /\ at[p] = "row" /\ at'[p] = "write" /\ work'[p].batch = work[p].batch
        /\ work'[p].nth = work[p].nth /\ work'[p].made = work[p].made \cup Made(p, r, o, t, place)
        /\ r \in work[p].todo /\ o \in Bound(p, "OWNER", r) /\ t \in Bound(p, "TENANT", r)
      BY <1>8, Zenon DEF ResolveMove
  <2>2. work[p].nth = commits[work[p].batch] /\ PartiesIn(work[p].made, archived)
      BY <1>1, <2>1 DEF Draws, Drafting
  <2>3. o \notin archived /\ t \notin archived
      BY <1>0, <2>1, <2>2, PartiesFresh DEF Drafting
  <2>4. work[p].nth \in Nat  BY <1>0 DEF Typed
  <2>5. \A x \in Made(p, r, o, t, place) : x.type = "Tenancy" => x.landlord = o /\ x.tenant = t
      BY <2>4, MadeAre
  <2>6. PartiesIn(work'[p].made, archived')
      BY <2>1, <2>2, <2>3, <2>5 DEF PartiesIn, TenancyRecords, Table
  <2>7. Draws(p)'  BY <2>1, <2>2, <2>6 DEF Draws, Table
  <2>8. Frees(p)'  BY <2>1 DEF Frees
  <2> QED BY <1>2, <2>1, <2>7, <2>8 DEF Table
<1>9. CASE WriteMove(p)
  <2>1. UNCHANGED Table /\ at[p] = "write" /\ at'[p] = "row" /\ work'[p].batch = work[p].batch
        /\ work'[p].nth = work[p].nth /\ work'[p].made = work[p].made
      BY <1>9 DEF WriteMove
  <2>2. Draws(p)'  BY <1>1, <2>1 DEF Draws, Drafting, Table, PartiesIn
  <2>3. Frees(p)'  BY <2>1 DEF Frees
  <2> QED BY <1>2, <2>1, <2>2, <2>3 DEF Table
<1>10. CASE CommitMove(p)
  <2>1. at[p] = "row" /\ at'[p] = "derive" /\ record' = record \cup work[p].made
        /\ archived' = archived
      BY <1>10 DEF CommitMove
  <2>2. \A q \in Requests : Draws(q)' /\ Frees(q)'
      BY <1>4, <2>1 DEF Writing, Drafting
  <2>3. PartiesIn(work[p].made, archived)  BY <1>1, <2>1 DEF Draws, Drafting
  <2>4. Parties'
      BY <1>1, <2>1, <2>3 DEF Parties, LiveOf, PartiesIn, TenancyRecords
  <2> QED BY <2>2, <2>4
<1>11. CASE DeriveMove(p)
  <2>1. UNCHANGED Table /\ at'[p] \notin Drafting \cup {"undone"}
      BY <1>11 DEF DeriveMove, Deriving, Drafting
  <2> QED BY <1>3, <2>1 DEF Table
<1>12. CASE UndoMove(p)
  <2>1. UNCHANGED Table /\ at'[p] = "undone"  BY <1>12 DEF UndoMove
  <2>2. \A t \in LiveOf("Tenancy") :
            t.id \in work'[p].made \/ {t.landlord, t.tenant} \cap work'[p].made = {}
      BY <1>12, UndoKeeps
  <2>3. LiveOf("Tenancy")' = LiveOf("Tenancy")  BY <2>1 DEF LiveOf, Table
  <2>4. Frees(p)'  BY <2>2, <2>3 DEF Frees
  <2>5. Draws(p)'  BY <2>1 DEF Draws, Drafting
  <2> QED BY <1>2, <2>1, <2>4, <2>5 DEF Table
<1>13. CASE UndoneMove(p)
  <2>1. /\ at[p] = "undone" /\ at'[p] = "idle" /\ archived' = archived \cup work[p].made
        /\ record' = record
      BY <1>13 DEF UndoneMove
  <2>2. \A q \in Requests : Draws(q)' /\ Frees(q)'
      BY <1>4, <2>1 DEF Writing, Drafting
  <2>3. \A t \in LiveOf("Tenancy") :
            t.id \in work[p].made \/ {t.landlord, t.tenant} \cap work[p].made = {}
      BY <1>1, <2>1 DEF Frees
  <2>4. Parties'
      BY <1>1, <2>1, <2>3 DEF Parties, LiveOf
  <2> QED BY <2>2, <2>4
<1> QED BY <1>5, <1>6, <1>7, <1>8, <1>9, <1>10, <1>11, <1>12, <1>13 DEF Move

LEMMA DanglingStarts ==
    ASSUME ImportsAssumption, ImportsInit
    PROVE  DanglingInv
<1>1. ShapeInv  BY ShapeStarts
<1>2. \A p \in Requests : at[p] = "idle"
    BY DEF ImportsInit
<1>3. Met /\ DueInv
    BY <1>2 DEF ImportsInit, Met, DueInv, NothingDueArchived, Writing
<1>4. LiveInv
    BY <1>2 DEF ImportsInit, LiveInv, PartiesLive, Drafting
<1> QED BY <1>1, <1>3, <1>4 DEF DanglingInv

LEMMA MetStay ==
    ASSUME Met, Stay
    PROVE  Met'
BY DEF Met, Stay, Table, Adding

LEMMA DanglingStep ==
    ASSUME ImportsAssumption, DanglingInv, [ImportsNext]_importVars
    PROVE  DanglingInv'
<1>0. ShapeInv /\ Typed /\ \A p \in Requests : Draft(p)
    BY DEF DanglingInv, ShapeInv
<1>1. Typed' /\ (Stay \/ \E p \in Requests : Move(p))
    BY <1>0, Steps
<1>2. CASE Stay
  <2>1. ShapeInv' /\ Met'  BY <1>0, <1>2, ShapeStay, MetStay DEF DanglingInv
  <2>2. DueInv'
      BY <1>2 DEF DanglingInv, DueInv, NothingDueArchived, Stay, Table
  <2>3. LiveInv'
      BY <1>2 DEF DanglingInv, LiveInv, PartiesLive, PartiesIn, LiveOf, Stay, Table
  <2> QED BY <2>1, <2>2, <2>3 DEF DanglingInv
<1>3. ASSUME NEW p \in Requests, Move(p) PROVE DanglingInv'
  <2>1. ShapeInv' /\ Met'  BY <1>0, <1>1, <1>3, ShapeStep, MetStep DEF DanglingInv
  <2> QED BY <1>0, <1>1, <1>3, <2>1, DueStep, LiveStep DEF DanglingInv
<1> QED BY <1>1, <1>2, <1>3

\* After a rollback no live tenancy names an archived party, and no archived
\* tenancy has an open deadline, unless a commit or a rollback was under way
\* beside it.
THEOREM NothingDanglesHolds == ImportsSpec => []NothingDangles
<1>1. ImportsInit => DanglingInv  BY DanglingStarts, ImportsAssumption
<1>2. DanglingInv /\ [ImportsNext]_importVars => DanglingInv'
    BY DanglingStep, ImportsAssumption
<1>3. DanglingInv => NothingDangles
    BY DEF DanglingInv, DueInv, LiveInv, NothingDangles, PartiesLive
<1> QED BY <1>1, <1>2, <1>3, PTL DEF ImportsSpec

-----------------------------------------------------------------------------
(* One document, one tenancy *)

\* What a step does to the batches without company.
LEMMA OnceStep ==
    ASSUME ImportsAssumption, ShapeInv, Typed', Remembered, Met, Met', Once, NEW p \in Requests, Move(p)
    PROVE  Once'
<1> DEFINE w == work[p]
           Single(b) == commits[b] > 1 => b \in crossed
           Closed(b) == commits[b] > 0 =>
                /\ batch[b] # "absent"
                /\ b \notin crossed => Final(b) /\ \A q \in Requests : ~Adding(q, b)
           Hand(q) == work[q].batch \notin crossed =>
                /\ at[q] \in Drafting => commits[work[q].batch] = 0
                /\ at[q] \in Undoing => batch[work[q].batch] = "COMMITTED"
<1>0. /\ Typed /\ Draft(p) /\ Others(p) /\ crossed \subseteq crossed'
      /\ \A b \in Batches : commits[b] \in Nat
    BY Grows DEF ShapeInv, Typed
<1>1. /\ \A b \in Batches : Single(b) /\ Closed(b)
      /\ \A q \in Requests : Hand(q)
    BY DEF Once
<1>k. /\ OuterMove(p) \/ (\E b \in Batches : Joins(p, b)) \/ GoesOn(p) \/ UndoneMove(p)
      /\ \A b \in Batches : batch[b] # "absent" => batch'[b] # "absent"
    BY <1>0, Kinds
<1>a. ASSUME NEW b \in Batches, b \notin crossed', commits[b] > 0
      PROVE  \A q \in Requests : ~Adding(q, b)'
  <2>1. batch[b] # "absent" /\ \A q \in Requests : ~Adding(q, b)
      BY <1>0, <1>1, <1>a
  <2>2. \A q \in Requests \ {p} : ~Adding(q, b)'
      BY <1>0, <2>1 DEF Others, Adding
  <2>3. ~Adding(p, b)'
    <3>1. CASE OuterMove(p)  BY <2>1, <3>1 DEF OuterMove, Adding
    <3>2. ASSUME NEW c \in Batches, Joins(p, c) PROVE ~Adding(p, b)'
        BY <3>2 DEF Joins, Adding
    <3>3. CASE GoesOn(p)  BY <3>3 DEF GoesOn, Adding, Writing
    <3>4. CASE UndoneMove(p)  BY <3>4 DEF UndoneMove, Adding
    <3> QED BY <1>k, <3>1, <3>2, <3>3, <3>4
  <2> QED BY <2>2, <2>3
<1> SUFFICES /\ \A b \in Batches : Single(b)' /\ Closed(b)'
             /\ \A q \in Requests : Hand(q)'
    BY DEF Once
<1>s. ASSUME commits' = commits PROVE \A b \in Batches : Single(b)'
    BY <1>0, <1>1, <1>s
<1>c. ASSUME commits' = commits,
             \A b \in Batches : b \notin crossed' /\ commits[b] > 0 =>
                                    (batch[b] = batch'[b] \/ batch'[b] \in {"COMMITTED", "ROLLED_BACK"})
      PROVE  \A b \in Batches : Closed(b)'
    BY <1>0, <1>1, <1>a, <1>c, <1>k DEF Final
<1>2. CASE OuterMove(p)
  <2>1. /\ at'[p] \in Outer /\ commits' = commits /\ crossed' = crossed
        /\ \A b \in Batches : \/ batch'[b] = batch[b]
                              \/ batch'[b] \in {"UPLOADED", "MAPPED"} /\ batch[b] = "absent"
                              \/ batch'[b] \in {"UPLOADED", "MAPPED"} /\ Adding(p, b)
      BY <1>2 DEF OuterMove
  <2>2. \A b \in Batches : b \notin crossed' /\ commits[b] > 0 => batch[b] = batch'[b]
      BY <1>1, <2>1
  <2>3. ASSUME NEW q \in Requests PROVE Hand(q)'
    <3>1. CASE q = p  BY <2>1, <3>1 DEF Outer, Drafting, Undoing
    <3>2. CASE q # p
      <4>1. at'[q] = at[q] /\ work'[q] = work[q]  BY <1>0, <3>2 DEF Others
      <4>2. ASSUME at[q] \in Undoing, work[q].batch \notin crossed
            PROVE  batch'[work[q].batch] = "COMMITTED"
        <5>1. commits[work[q].batch] > 0 /\ work[q].batch \in Batches
            BY <1>0, <4>2 DEF Remembered, Typed, Undoing
        <5> QED BY <1>1, <2>1, <2>2, <4>2, <5>1
      <4> QED BY <1>1, <2>1, <4>1, <4>2
    <3> QED BY <3>1, <3>2
  <2> HIDE DEF Single, Closed, Hand
  <2> QED BY <1>s, <1>c, <2>1, <2>2, <2>3
<1>3. ASSUME UNCHANGED Table, Hand(p)'
      PROVE  /\ \A b \in Batches : Single(b)' /\ Closed(b)'
             /\ \A q \in Requests : Hand(q)'
  <2>1. UNCHANGED <<batch, commits>>  BY <1>3 DEF Table
  <2>2. ASSUME NEW q \in Requests, q # p PROVE Hand(q)'
    <3>1. at'[q] = at[q] /\ work'[q] = work[q]  BY <1>0, <2>2 DEF Others
    <3> QED BY <1>0, <1>1, <2>1, <3>1
  <2> HIDE DEF Single, Closed, Hand
  <2> QED BY <1>3, <1>s, <1>c, <2>1, <2>2
<1>4. ASSUME NEW b \in Batches, CommitReadMove(p, b) PROVE UNCHANGED Table /\ Hand(p)'
  <2>1. UNCHANGED Table /\ at'[p] = "row" /\ work'[p].batch = b /\ ~Final(b)
      BY <1>4, Zenon DEF CommitReadMove
  <2>2. b \notin crossed' => commits'[b] = 0
      BY <1>0, <1>1, <2>1 DEF Table
  <2> QED BY <2>1, <2>2 DEF Undoing
<1>5. ASSUME NEW b \in Batches, RollbackReadMove(p, b) PROVE UNCHANGED Table /\ Hand(p)'
  <2>1. UNCHANGED Table /\ at'[p] = "undo" /\ work'[p].batch = b /\ batch[b] = "COMMITTED"
      BY <1>5, Zenon DEF RollbackReadMove
  <2> QED BY <2>1 DEF Table, Drafting
<1>6. ASSUME NEW r \in Rows, NEW o, NEW t, NEW place, ResolveMove(p, r, o, t, place)
      PROVE  UNCHANGED Table /\ Hand(p)'
  <2>1. UNCHANGED Table /\ at[p] = "row" /\ at'[p] = "write" /\ work'[p].batch = w.batch
      BY <1>6, Zenon DEF ResolveMove
  <2> QED BY <1>0, <1>1, <2>1 DEF Table, Drafting, Undoing
<1>7. ASSUME WriteMove(p) PROVE UNCHANGED Table /\ Hand(p)'
  <2>1. UNCHANGED Table /\ at[p] = "write" /\ at'[p] = "row" /\ work'[p].batch = w.batch
      BY <1>7 DEF WriteMove
  <2> QED BY <1>0, <1>1, <2>1 DEF Table, Drafting, Undoing
<1>8. ASSUME DeriveMove(p) PROVE UNCHANGED Table /\ Hand(p)'
  <2>1. UNCHANGED Table /\ at'[p] \in Deriving
      BY <1>8 DEF DeriveMove
  <2> QED BY <2>1 DEF Drafting, Undoing, Deriving
<1>9. ASSUME UndoMove(p) PROVE UNCHANGED Table /\ Hand(p)'
  <2>1. UNCHANGED Table /\ at[p] = "undo" /\ at'[p] = "undone" /\ work'[p].batch = w.batch
      BY <1>9 DEF UndoMove
  <2> QED BY <1>0, <1>1, <2>1 DEF Table, Drafting, Undoing
<1>10. CASE UndoneMove(p)
  <2>1. /\ at[p] = "undone" /\ at'[p] = "idle" /\ batch'[w.batch] = "ROLLED_BACK"
        /\ (\A b \in Batches \ {w.batch} : batch'[b] = batch[b])
        /\ commits' = commits /\ crossed' = crossed
      BY <1>10 DEF UndoneMove
  <2>2. \A b \in Batches : batch[b] = batch'[b] \/ batch'[b] \in {"COMMITTED", "ROLLED_BACK"}
      BY <2>1
  <2>3. ASSUME NEW q \in Requests PROVE Hand(q)'
    <3>1. CASE q = p  BY <2>1, <3>1 DEF Drafting, Undoing
    <3>2. CASE q # p
      <4>1. at'[q] = at[q] /\ work'[q] = work[q]  BY <1>0, <3>2 DEF Others
      <4>2. at[q] \in Undoing => work[q].batch \in crossed
          BY <2>1, <3>2 DEF Met, Writing, Undoing
      <4> QED BY <1>1, <2>1, <4>1, <4>2
    <3> QED BY <3>1, <3>2
  <2> HIDE DEF Single, Closed, Hand
  <2> QED BY <1>s, <1>c, <2>1, <2>2, <2>3
<1>11. CASE CommitMove(p)
  <2>2. PICK b : b = w.batch  OBVIOUS
  <2>1. /\ at[p] = "row" /\ at'[p] = "derive" /\ batch'[b] = "COMMITTED" /\ commits'[b] = commits[b] + 1
        /\ (\A c \in Batches \ {b} : batch'[c] = batch[c] /\ commits'[c] = commits[c])
        /\ crossed' = crossed /\ b \in Batches
      BY <1>0, <1>11, <2>2 DEF CommitMove, Typed
  <2>3. b \notin crossed => commits[b] = 0  BY <1>1, <2>1, <2>2 DEF Drafting
  <2>4. \A q \in Requests \ {p} : at[q] \in Writing => work[q].batch \in crossed /\ b \in crossed
      BY <2>1, <2>2 DEF Met, Writing
  <2>5. b \notin crossed => \A q \in Requests : ~Adding(q, b)'
    <3>1. b \notin crossed => \A q \in Requests : ~Adding(q, b)
        BY <2>1, <2>2 DEF Met, Writing
    <3>2. ~Adding(p, b)'  BY <2>1 DEF Adding
    <3>3. \A q \in Requests \ {p} : Adding(q, b)' => Adding(q, b)
        BY <1>0 DEF Others, Adding
    <3> QED BY <3>1, <3>2, <3>3
  <2>6. ASSUME NEW c \in Batches PROVE Single(c)' /\ Closed(c)'
    <3>1. CASE c = b
      <4>1. b \notin crossed => commits'[b] = 1  BY <2>1, <2>3
      <4>2. b \in crossed' \/ \A q \in Requests : ~Adding(q, b)'  BY <2>1, <2>5
      <4> QED BY <2>1, <3>1, <4>1, <4>2 DEF Final
    <3>2. CASE c # b
      <4>1. batch'[c] = batch[c] /\ commits'[c] = commits[c]  BY <2>1, <3>2
      <4>2. c \notin crossed' /\ commits[c] > 0 => \A q \in Requests : ~Adding(q, c)'  BY <1>a
      <4> QED BY <1>1, <2>1, <4>1, <4>2 DEF Final
    <3> QED BY <3>1, <3>2
  <2>7. ASSUME NEW q \in Requests PROVE Hand(q)'
    <3>1. CASE q = p  BY <2>1, <3>1 DEF Drafting, Undoing
    <3>2. CASE q # p
      <4>1. at'[q] = at[q] /\ work'[q] = work[q]  BY <1>0, <3>2 DEF Others
      <4>2. at[q] \in Drafting \cup Undoing => work[q].batch \in crossed
          BY <2>4, <3>2 DEF Writing, Drafting, Undoing
      <4> QED BY <2>1, <4>1, <4>2
    <3> QED BY <3>1, <3>2
  <2> QED BY <2>6, <2>7
<1> HIDE DEF Single, Closed, Hand
<1> QED BY <1>2, <1>3, <1>4, <1>5, <1>6, <1>7, <1>8, <1>9, <1>10, <1>11 DEF Move

\* What the batches and documents without company have to do with a tenancy.
LEMMA Origins ==
    ASSUME ImportsAssumption, ShapeInv
    PROVE  /\ \A t \in TenancyRecords(record) : Source(t) # None =>
                /\ t.id \in Ids /\ t.id[1] = "Tenancy" /\ t.id[2] \in Rows /\ t.id # None
                /\ BatchOf[t.id[2]] \in Batches /\ Source(t) = FileOf[BatchOf[t.id[2]]]
                /\ Source(t) \in Docs
           /\ \A t : t.id \in Ids => t.id[2] \in Rows /\ BatchOf[t.id[2]] \in Batches
                                     /\ Source(t) = FileOf[BatchOf[t.id[2]]]
           /\ \A b \in Batches : FileOf[b] \in Docs \/ FileOf[b] = None
<1>1. \A i \in Ids : i[2] \in Rows /\ BatchOf[i[2]] \in Batches /\ i # None
    BY DEF Ids, ImportsAssumption
<1>2. \A b \in Batches : FileOf[b] \in Docs \/ FileOf[b] = None
    BY DEF ImportsAssumption
<1>3. ASSUME NEW t \in TenancyRecords(record), Source(t) # None
      PROVE  t.id \in Ids /\ t.id[1] = "Tenancy" /\ t.id[2] \in Rows
             /\ Source(t) = FileOf[BatchOf[t.id[2]]]
    BY <1>3 DEF TenancyRecords, Source, ShapeInv, Stored, Sound
<1> QED BY <1>1, <1>2, <1>3 DEF Source

LEMMA AttachedUndone ==
    ASSUME ImportsAssumption, ShapeInv, Remembered, Once, Attached, NEW p \in Requests, UndoneMove(p),
           NEW t \in LiveOf("Tenancy")', Quiet(Source(t))
    PROVE  doc'[Source(t)] = t.id
<1> DEFINE w == work[p]  b == w.batch  f == Source(t)
<1>1. /\ at[p] = "undone" /\ archived' = archived \cup w.made /\ record' = record
      /\ \A d \in Docs : (\A m \in w.moves : m.doc # d) => doc'[d] = doc[d]
    BY DEF UndoneMove
<1>2. t \in TenancyRecords(record) /\ t.id \notin archived /\ t.id \notin w.made
      /\ t \in LiveOf("Tenancy")
    BY <1>1 DEF LiveOf, TenancyRecords
<1>3. t.id \in Ids /\ t.id[1] = "Tenancy" /\ f = FileOf[BatchOf[t.id[2]]] /\ f \in Docs /\ f # None
    BY <1>2, Origins DEF Quiet
<1>4. doc[f] = t.id
    BY <1>2 DEF Attached
<1>5. CASE \A m \in w.moves : m.doc # f
    BY <1>1, <1>3, <1>4, <1>5
<1>6. ASSUME NEW m \in w.moves, m.doc = f PROVE FALSE
  <2>1. Moved(m, b, record) /\ b \in Batches
      BY <1>1 DEF ShapeInv, Draft, Undoing, Typed
  <2>2. PICK x \in TenancyRecords(record) : x.id = m.to /\ x.id \in Ids /\ BatchOf[x.id[2]] = b
      BY <2>1 DEF Moved
  <2>3. FileOf[b] = f  BY <1>6, <2>1 DEF Moved
  <2>4. b \notin crossed  BY <2>1, <2>3 DEF Quiet
  <2>5. batch[b] = "COMMITTED" /\ commits[b] = 1
    <3>1. commits[b] > 0 /\ commits[b] \in Nat /\ ~(commits[b] > 1)
        BY <1>1, <2>1, <2>4 DEF Remembered, Once, Undoing, ShapeInv, Typed
    <3> QED BY <1>1, <2>4, <3>1 DEF Once, Undoing
  <2>6. x.id \notin archived  BY <2>2, <2>4, <2>5 DEF Attached
  <2>7. x \in LiveOf("Tenancy") /\ Source(x) = f
      BY <2>2, <2>3, <2>6, Origins DEF LiveOf, TenancyRecords
  <2>8. doc[f] = x.id  BY <2>7 DEF Attached
  <2>9. BatchOf[t.id[2]] = b  BY <1>4, <2>2, <2>8
  <2>10. t.id \in w.made \/ IsContact(t.id)
      BY <1>1, <1>2, <1>3, <2>5, <2>9 DEF Remembered, Undoing, TenancyRecords
  <2> QED BY <1>2, <1>3, <2>10 DEF IsContact
<1> QED BY <1>5, <1>6

LEMMA AttachedCommit ==
    ASSUME ImportsAssumption, ShapeInv, Remembered, Once, Attached, NEW p \in Requests, CommitMove(p)
    PROVE  /\ \A t, u \in TenancyRecords(record') :
                t.id \in Ids /\ t.id[2] = u.id[2] /\ BatchOf[t.id[2]] \notin crossed => t = u
           /\ \A t \in TenancyRecords(record') :
                t.id \in archived => batch'[BatchOf[t.id[2]]] # "COMMITTED" \/ BatchOf[t.id[2]] \in crossed
           /\ \A t \in LiveOf("Tenancy")' : Quiet(Source(t)) => doc'[Source(t)] = t.id
<1> DEFINE w == work[p]  b == w.batch
<1>1. /\ at[p] = "row" /\ archived' = archived /\ record' = record \cup w.made
      /\ \A d \in Docs : /\ (\A m \in w.moves : m.doc # d) => doc'[d] = doc[d]
                         /\ \/ \A m \in w.moves : m.doc # d
                            \/ \E m \in w.moves : m.doc = d /\ doc'[d] = m.to
      /\ \A c \in Batches \ {b} : batch'[c] = batch[c]
    BY DEF CommitMove
<1>2. /\ b \in Batches /\ w.done \subseteq RowsOf(b)
      /\ \A x \in w.made : x.id \in Ids /\ x.id[2] \in w.done /\ Sound(x)
      /\ OnePerRow(w.made)
      /\ \A m \in w.moves : Moved(m, b, w.made)
      /\ FileOf[b] # None => \A t \in TenancyRecords(w.made) : \E m \in w.moves : m.to = t.id
    BY <1>1 DEF ShapeInv, Draft, Drafting, Typed
<1>3. \A x \in w.made : BatchOf[x.id[2]] = b
    BY <1>2 DEF RowsOf
<1>4. b \notin crossed => commits[b] = 0
    BY <1>1 DEF Once, Drafting
<1>5. \A x \in record : x.id \in Ids /\ BatchOf[x.id[2]] = b => b \in crossed
    BY <1>2, <1>4 DEF Remembered
<1>6. \A x \in w.made : x.id \in archived => b \in crossed
  <2>1. \A i \in archived : i \in Ids /\ i[4] < commits[BatchOf[i[2]]]
      BY DEF ShapeInv, Stored
  <2>2. \A i \in Ids : i[4] \in Nat  BY DEF Ids
  <2> QED BY <1>3, <1>4, <2>1, <2>2
<1> HIDE DEF w, b
<1>7. ASSUME NEW t \in TenancyRecords(record'), NEW u \in TenancyRecords(record'),
             t.id \in Ids, t.id[2] = u.id[2], BatchOf[t.id[2]] \notin crossed
      PROVE  t = u
  <2>1. CASE BatchOf[t.id[2]] = b
    <3>1. u.id \in Ids
      <4>1. CASE u \in w.made  BY <1>2, <4>1
      <4>2. CASE u \in record
        <5>1. t.id[2] \in Rows  BY <1>7 DEF Ids
        <5> QED BY <1>7, <4>2, <5>1 DEF ShapeInv, Stored, Sound
      <4> QED BY <1>1, <4>1, <4>2 DEF TenancyRecords
    <3>2. t \in w.made /\ u \in w.made
        BY <1>1, <1>5, <1>7, <2>1, <3>1 DEF TenancyRecords
    <3> QED BY <1>2, <1>7, <3>2 DEF OnePerRow, TenancyRecords
  <2>2. CASE BatchOf[t.id[2]] # b
    <3>1. t \in TenancyRecords(record) /\ u \in TenancyRecords(record)
        BY <1>1, <1>3, <1>7, <2>2 DEF TenancyRecords
    <3> QED BY <1>7, <3>1 DEF Attached
  <2> QED BY <2>1, <2>2
<1>8. ASSUME NEW t \in TenancyRecords(record'), t.id \in archived
      PROVE  batch'[BatchOf[t.id[2]]] # "COMMITTED" \/ BatchOf[t.id[2]] \in crossed
  <2>1. t.id \in Ids /\ BatchOf[t.id[2]] \in Batches
      BY <1>8, Origins DEF ShapeInv, Stored
  <2>2. CASE t \in w.made  BY <1>3, <1>6, <1>8, <2>2
  <2>3. CASE t \in record
    <3>1. CASE BatchOf[t.id[2]] = b  BY <1>5, <2>1, <2>3, <3>1
    <3>2. CASE BatchOf[t.id[2]] # b
      <4>1. t \in TenancyRecords(record)  BY <2>3 DEF TenancyRecords
      <4> QED BY <1>1, <1>8, <2>1, <3>2, <4>1 DEF Attached
    <3> QED BY <3>1, <3>2
  <2> QED BY <1>1, <2>2, <2>3 DEF TenancyRecords
<1>9. ASSUME NEW t \in LiveOf("Tenancy")', Quiet(Source(t)) PROVE doc'[Source(t)] = t.id
  <2> DEFINE f == Source(t)
  <2>0. t.type = "Tenancy" /\ t.id \notin archived /\ (t \in record \/ t \in w.made)
      BY <1>1 DEF LiveOf
  <2>1. CASE t \in w.made
    <3>1. f = FileOf[b] /\ f # None /\ f \in Docs
        BY <1>2, <1>3, <1>9, <2>1, Origins DEF Quiet
    <3>2. PICK m \in w.moves : m.to = t.id  BY <1>2, <2>0, <2>1, <3>1 DEF TenancyRecords
    <3>3. m.doc = f  BY <1>2, <3>1 DEF Moved
    <3>4. PICK n \in w.moves : n.doc = f /\ doc'[f] = n.to  BY <1>1, <3>1, <3>2, <3>3
    <3>5. PICK x \in TenancyRecords(w.made) : x.id = n.to /\ x.id \in Ids /\ BatchOf[x.id[2]] = b
        BY <1>2 DEF Moved
    <3>6. t.id[2] \in Rows /\ x.id[2] \in Rows /\ BatchOf[t.id[2]] = b
        BY <1>2, <1>3, <2>1, <3>5, Origins
    <3>7. t.id[2] = x.id[2]
        BY <3>1, <3>5, <3>6 DEF ImportsAssumption
    <3>8. t = x  BY <1>2, <2>0, <2>1, <3>5, <3>7 DEF OnePerRow, TenancyRecords
    <3> QED BY <3>4, <3>5, <3>8
  <2>2. CASE t \in record
    <3>1. t \in TenancyRecords(record) /\ t \in LiveOf("Tenancy")  BY <2>0, <2>2 DEF TenancyRecords, LiveOf
    <3>2. f \in Docs /\ f # None  BY <1>9, <3>1, Origins DEF Quiet
    <3>3. doc[f] = t.id  BY <1>9, <3>1 DEF Attached
    <3>4. ASSUME NEW m \in w.moves, m.doc = f PROVE FALSE
      <4>1. FileOf[b] = f /\ Moved(m, b, w.made)  BY <1>2, <3>4 DEF Moved
      <4>2. TenancyRecords(w.made) # {}  BY <4>1 DEF Moved
      <4>3. From(f) = {}
          BY <1>1, <1>9, <4>1, <4>2 DEF Attached, Drafting, w, b
      <4> QED BY <3>1, <4>3 DEF From
    <3> QED BY <1>1, <3>2, <3>3, <3>4
  <2> QED BY <2>0, <2>1, <2>2
<1> QED BY <1>7, <1>8, <1>9

\* A draft that takes a document meets no live tenancy made from it.
Alone(p) ==
    at[p] \in Drafting /\ TenancyRecords(work[p].made) # {} /\ Quiet(FileOf[work[p].batch]) =>
        From(FileOf[work[p].batch]) = {}
Linked ==
    /\ \A t, u \in TenancyRecords(record) :
        t.id \in Ids /\ t.id[2] = u.id[2] /\ BatchOf[t.id[2]] \notin crossed => t = u
    /\ \A t \in TenancyRecords(record) :
        t.id \in archived => batch[BatchOf[t.id[2]]] # "COMMITTED" \/ BatchOf[t.id[2]] \in crossed
    /\ \A t \in LiveOf("Tenancy") : Quiet(Source(t)) => doc[Source(t)] = t.id

LEMMA AttachedParts == Attached <=> Linked /\ \A p \in Requests : Alone(p)
BY DEF Attached, Linked, Alone

\* What becomes quiet was quiet.
LEMMA QuietBefore ==
    ASSUME crossed \subseteq crossed', NEW f, Quiet(f)'
    PROVE  Quiet(f)
BY DEF Quiet

\* A step that leaves the records, what is archived and the documents alone, and
\* commits nothing, leaves them linked.
LEMMA LinkedKept ==
    ASSUME ImportsAssumption, ShapeInv, Linked, UNCHANGED <<record, archived, doc>>, crossed \subseteq crossed',
           \A b \in Batches : batch'[b] = "COMMITTED" => batch[b] = "COMMITTED"
    PROVE  Linked'
<1>1. ASSUME NEW t \in TenancyRecords(record)', NEW u \in TenancyRecords(record)',
             t.id \in Ids, t.id[2] = u.id[2], BatchOf[t.id[2]] \notin crossed'
      PROVE  t = u
    BY <1>1 DEF Linked, TenancyRecords
<1>2. ASSUME NEW t \in TenancyRecords(record)', t.id \in archived'
      PROVE  batch'[BatchOf[t.id[2]]] # "COMMITTED" \/ BatchOf[t.id[2]] \in crossed'
  <2>1. t \in TenancyRecords(record) /\ t.id \in archived  BY <1>2 DEF TenancyRecords
  <2>2. BatchOf[t.id[2]] \in Batches
      BY <2>1, Origins DEF ShapeInv, Stored
  <2> QED BY <2>1, <2>2 DEF Linked
<1>3. ASSUME NEW t \in LiveOf("Tenancy")', Quiet(Source(t))'
      PROVE  doc'[Source(t)] = t.id
  <2>1. t \in LiveOf("Tenancy")  BY <1>3 DEF LiveOf
  <2>2. Quiet(Source(t))  BY <1>3, QuietBefore
  <2> QED BY <2>1, <2>2 DEF Linked
<1> QED BY <1>1, <1>2, <1>3 DEF Linked

\* A request that keeps its draft meets nobody new.
LEMMA AloneKept ==
    ASSUME UNCHANGED <<record, archived>>, crossed \subseteq crossed', NEW q, Alone(q),
           at'[q] \in Drafting => at[q] \in Drafting /\ work'[q].batch = work[q].batch
                                  /\ work'[q].made = work[q].made
    PROVE  Alone(q)'
<1> SUFFICES ASSUME at'[q] \in Drafting, TenancyRecords(work[q].made) # {}, Quiet(FileOf[work[q].batch])',
                    work'[q].batch = work[q].batch
             PROVE  From(FileOf[work[q].batch])' = {}
    BY DEF Alone, TenancyRecords
<1>1. Quiet(FileOf[work[q].batch])  BY DEF Quiet
<1>2. From(FileOf[work[q].batch]) = {}  BY <1>1 DEF Alone
<1> QED BY <1>2 DEF From, LiveOf

\* Whoever drafts beside somebody who writes is not quiet.
LEMMA CrossedDraft ==
    ASSUME Typed, Met, NEW p \in Requests, at[p] \in Writing, NEW q \in Requests, q # p,
           at'[q] = at[q], work'[q] = work[q], crossed \subseteq crossed'
    PROVE  Alone(q)'
<1> SUFFICES ASSUME at[q] \in Drafting, Quiet(FileOf[work[q].batch])'
             PROVE  FALSE
    BY DEF Alone
<1>1. work[q].batch \in crossed  BY DEF Met, Writing, Drafting
<1>2. work[q].batch \in Batches  BY DEF Typed, Drafting
<1> QED BY <1>1, <1>2 DEF Quiet

\* A row is not resolved onto a document that a live tenancy was made from.
LEMMA AloneResolved ==
    ASSUME ImportsAssumption, ShapeInv, Linked, NEW p \in Requests, NEW r \in Rows,
           NEW o, NEW t, NEW place, ResolveMove(p, r, o, t, place)
    PROVE  Alone(p)'
<1> DEFINE file == FileOf[work[p].batch]
<1>1. /\ work'[p].batch = work[p].batch /\ UNCHANGED <<Table, crossed>>
      /\ file # None => ~AttachedElsewhere(file, place)
    BY Zenon DEF ResolveMove
<1> SUFFICES ASSUME Quiet(file) PROVE From(file)' = {}
    BY <1>1 DEF Alone, Quiet
<1>2. file # None  BY DEF Quiet
<1>3. ASSUME NEW x \in From(file) PROVE FALSE
  <2>1. x \in LiveOf("Tenancy") /\ Source(x) = file  BY <1>3 DEF From
  <2>2. doc[file] = x.id  BY <2>1 DEF Linked
  <2>3. x \in TenancyRecords(record)  BY <2>1 DEF LiveOf, TenancyRecords
  <2>4. x.id[1] = "Tenancy" /\ x.id # None  BY <1>2, <2>1, <2>3, Origins
  <2> QED BY <1>1, <1>2, <2>2, <2>4 DEF AttachedElsewhere
<1> QED BY <1>1, <1>3 DEF From, LiveOf, Table

LEMMA AttachedStep ==
    ASSUME ImportsAssumption, ShapeInv, Remembered, Met, Once, Attached, NEW p \in Requests, Move(p)
    PROVE  Attached'
<1>p. Attached' <=> Linked' /\ \A q \in Requests : Alone(q)'
    BY DEF Attached, Linked, Alone
<1>1. /\ Linked /\ (\A q \in Requests : Alone(q)) /\ Typed
      /\ (Attached' <=> Linked' /\ \A q \in Requests : Alone(q)')
    BY <1>p, AttachedParts DEF ShapeInv
<1>2. crossed \subseteq crossed' /\ \A q \in Requests \ {p} : at'[q] = at[q] /\ work'[q] = work[q]
    BY <1>1, Grows DEF Others
<1>3. UNCHANGED Table => Linked'
    BY <1>1, <1>2, LinkedKept DEF Table
<1>4. UNCHANGED <<record, archived>> => \A q \in Requests \ {p} : Alone(q)'
    BY <1>1, <1>2, AloneKept
<1>5. at[p] \in Writing => \A q \in Requests \ {p} : Alone(q)'
    BY <1>1, <1>2, CrossedDraft
<1>6. at'[p] \notin Drafting => Alone(p)'
    BY DEF Alone
<1>7. UNCHANGED Table /\ Alone(p)' => Attached'
    BY <1>1, <1>3, <1>4 DEF Table
<1>8. CASE OuterMove(p)
  <2>1. /\ UNCHANGED <<record, archived, doc, crossed>> /\ at'[p] \in Outer
        /\ \A b \in Batches : batch'[b] = batch[b] \/ batch'[b] \in {"UPLOADED", "MAPPED"}
      BY <1>8 DEF OuterMove
  <2>2. Linked'  BY <1>1, <2>1, LinkedKept
  <2>3. Alone(p)'  BY <1>6, <2>1 DEF Outer, Drafting
  <2> QED BY <1>1, <1>4, <2>1, <2>2, <2>3
<1>9. ASSUME NEW b \in Batches, CommitReadMove(p, b) PROVE Attached'
  <2>1. UNCHANGED Table /\ work'[p].made = work[p].made /\ at[p] \in {"idle", "open"}
      BY <1>9, Zenon DEF CommitReadMove
  <2>2. work'[p].made = {}  BY <2>1 DEF ShapeInv, Draft, Outer
  <2>3. Alone(p)'  BY <2>2 DEF Alone, TenancyRecords
  <2> QED BY <1>7, <2>1, <2>3
<1>10. ASSUME NEW b \in Batches, RollbackReadMove(p, b) PROVE Attached'
  <2>1. UNCHANGED Table /\ at'[p] = "undo"  BY <1>10, Zenon DEF RollbackReadMove
  <2> QED BY <1>6, <1>7, <2>1 DEF Drafting
<1>11. ASSUME NEW r \in Rows, NEW o, NEW t, NEW place, ResolveMove(p, r, o, t, place) PROVE Attached'
  <2>1. UNCHANGED Table  BY <1>11, Zenon DEF ResolveMove
  <2>2. Alone(p)'  BY <1>1, <1>11, AloneResolved
  <2> QED BY <1>7, <2>1, <2>2
<1>12. CASE WriteMove(p)
  <2>1. /\ UNCHANGED Table /\ at[p] = "write" /\ work'[p].batch = work[p].batch
        /\ work'[p].made = work[p].made
      BY <1>12 DEF WriteMove
  <2>2. Alone(p)'  BY <1>1, <1>2, <2>1, AloneKept DEF Table, Drafting
  <2> QED BY <1>7, <2>1, <2>2
<1>13. CASE DeriveMove(p)
  <2>1. UNCHANGED Table /\ at'[p] \in Deriving  BY <1>13 DEF DeriveMove
  <2> QED BY <1>6, <1>7, <2>1 DEF Drafting, Deriving
<1>14. CASE UndoMove(p)
  <2>1. UNCHANGED Table /\ at'[p] = "undone"  BY <1>14 DEF UndoMove
  <2> QED BY <1>6, <1>7, <2>1 DEF Drafting
<1>15. CASE CommitMove(p)
  <2>1. at[p] = "row" /\ at'[p] = "derive" /\ crossed' = crossed  BY <1>15 DEF CommitMove
  <2>2. Linked'
    <3>1. /\ \A t, u \in TenancyRecords(record') :
                t.id \in Ids /\ t.id[2] = u.id[2] /\ BatchOf[t.id[2]] \notin crossed => t = u
          /\ \A t \in TenancyRecords(record') :
                t.id \in archived => batch'[BatchOf[t.id[2]]] # "COMMITTED" \/ BatchOf[t.id[2]] \in crossed
          /\ \A t \in LiveOf("Tenancy")' : Quiet(Source(t)) => doc'[Source(t)] = t.id
        BY <1>15, AttachedCommit
    <3>2. archived' = archived  BY <1>15 DEF CommitMove
    <3> QED BY <2>1, <3>1, <3>2 DEF Linked, TenancyRecords, Quiet
  <2> QED BY <1>1, <1>5, <1>6, <2>1, <2>2 DEF Drafting, Writing
<1>16. CASE UndoneMove(p)
  <2>1. /\ at[p] = "undone" /\ at'[p] = "idle" /\ crossed' = crossed /\ record' = record
        /\ archived' = archived \cup work[p].made /\ batch'[work[p].batch] = "ROLLED_BACK"
        /\ \A b \in Batches \ {work[p].batch} : batch'[b] = batch[b]
      BY <1>16 DEF UndoneMove
  <2>2. \A i \in work[p].made : BatchOf[i[2]] = work[p].batch
      BY <2>1 DEF ShapeInv, Draft, Undoing, Of
  <2>3. ASSUME NEW t \in TenancyRecords(record), t.id \in archived'
        PROVE  batch'[BatchOf[t.id[2]]] # "COMMITTED" \/ BatchOf[t.id[2]] \in crossed
    <3>1. CASE BatchOf[t.id[2]] = work[p].batch  BY <2>1, <3>1
    <3>2. CASE BatchOf[t.id[2]] # work[p].batch
      <4>1. t.id \in archived  BY <2>1, <2>2, <2>3, <3>2
      <4>2. BatchOf[t.id[2]] \in Batches  BY <4>1, Origins DEF ShapeInv, Stored
      <4> QED BY <1>1, <2>1, <3>2, <4>1, <4>2 DEF Linked
    <3> QED BY <3>1, <3>2
  <2>4. \A t \in LiveOf("Tenancy")' : Quiet(Source(t)) => doc'[Source(t)] = t.id
      BY <1>16, AttachedUndone
  <2>5. Linked'
      BY <1>1, <2>1, <2>3, <2>4 DEF Linked, TenancyRecords, Quiet
  <2> QED BY <1>1, <1>5, <1>6, <2>1, <2>5 DEF Drafting, Writing
<1> QED BY <1>8, <1>9, <1>10, <1>11, <1>12, <1>13, <1>14, <1>15, <1>16 DEF Move

LEMMA OnceStarts ==
    ASSUME ImportsAssumption, ImportsInit
    PROVE  OnceInv
<1>1. RollbackInv  BY RollbackStarts
<1>2. Met  BY DanglingStarts DEF DanglingInv
<1>3. Once  BY DEF ImportsInit, Once, Drafting, Undoing
<1>4. \A t \in record : t.id \notin Ids /\ Source(t) = None
    BY DEF ImportsInit, ImportsAssumption, Ids, Source
<1>5. \A p \in Requests : at[p] \notin Drafting
    BY DEF ImportsInit, Drafting
<1>6. Attached
    BY <1>4, <1>5 DEF ImportsInit, Attached, TenancyRecords, LiveOf, Quiet
<1> QED BY <1>1, <1>2, <1>3, <1>6 DEF OnceInv

LEMMA OnceStays ==
    ASSUME ImportsAssumption, OnceInv, [ImportsNext]_importVars
    PROVE  OnceInv'
<1>0. /\ RollbackInv /\ ShapeInv /\ Typed /\ Remembered /\ Met /\ Once /\ Attached
      /\ \A p \in Requests : Draft(p)
    BY DEF OnceInv, RollbackInv, ShapeInv
<1>1. Typed' /\ RollbackInv' /\ (Stay \/ \E p \in Requests : Move(p))
    BY <1>0, Steps, RollbackStep
<1>2. CASE Stay
  <2>1. Met'  BY <1>0, <1>2, MetStay
  <2>2. Once'  BY <1>0, <1>2 DEF Once, Stay, Table, Final, Adding
  <2>3. Attached'
      BY <1>0, <1>2 DEF Attached, Stay, Table, TenancyRecords, LiveOf, Quiet, From
  <2> QED BY <1>1, <2>1, <2>2, <2>3 DEF OnceInv
<1>3. ASSUME NEW p \in Requests, Move(p) PROVE OnceInv'
  <2>1. Met'  BY <1>0, <1>1, <1>3, MetStep
  <2>2. Once'  BY <1>0, <1>1, <1>3, <2>1, OnceStep
  <2>3. Attached'  BY <1>0, <1>3, AttachedStep
  <2> QED BY <1>1, <2>1, <2>2, <2>3 DEF OnceInv
<1> QED BY <1>1, <1>2, <1>3

LEMMA OnceHolds ==
    ASSUME ImportsAssumption, OnceInv
    PROVE  ImportedOnce
<1>0. ShapeInv /\ Once /\ Attached  BY DEF OnceInv, RollbackInv
<1>1. \A b \in Batches : commits[b] > 1 => b \in crossed  BY <1>0 DEF Once
<1>2. ASSUME NEW t \in LiveOf("Tenancy"), NEW u \in LiveOf("Tenancy"),
             t # u, Source(t) # None, Source(t) = Source(u),
             \A b \in crossed : FileOf[b] # Source(t)
      PROVE  FALSE
  <2>1. Quiet(Source(t))  BY <1>2 DEF Quiet
  <2>2. t.id = u.id  BY <1>0, <1>2, <2>1 DEF Attached
  <2>3. t \in TenancyRecords(record) /\ u \in TenancyRecords(record)  BY DEF LiveOf, TenancyRecords
  <2>4. t.id \in Ids /\ BatchOf[t.id[2]] \in Batches /\ FileOf[BatchOf[t.id[2]]] = Source(t)
      BY <1>0, <1>2, <2>3, Origins
  <2>5. BatchOf[t.id[2]] \notin crossed  BY <1>2, <2>4
  <2> QED BY <1>0, <1>2, <2>2, <2>3, <2>4, <2>5 DEF Attached
<1> QED BY <1>1, <1>2 DEF ImportedOnce

\* Two live tenancies are never made from one document unless commits or
\* rollbacks of its readings had company, and a batch is committed twice only
\* when another call was under way.
THEOREM ImportedOnceHolds == ImportsSpec => []ImportedOnce
<1>1. ImportsInit => OnceInv  BY OnceStarts, ImportsAssumption
<1>2. OnceInv /\ [ImportsNext]_importVars => OnceInv'  BY OnceStays, ImportsAssumption
<1>3. OnceInv => ImportedOnce  BY OnceHolds, ImportsAssumption
<1> QED BY <1>1, <1>2, <1>3, PTL DEF ImportsSpec

(***************************************************************************)
(* Registry.  The cheques first: a sequence of numbers has one running     *)
(* total, for two would differ first somewhere.                            *)
(***************************************************************************)

LEMMA LeastOf ==
    ASSUME NEW N \in SUBSET Nat, N # {}
    PROVE  \E n \in N : \A m \in N : n <= m
<1> DEFINE R == {ss \in Nat \X Nat : ss[1] < ss[2]}
<1>1. IsWellFoundedOn(R, Nat)
  BY NatLessThanWellFounded DEF OpToRel
<1>2. \A x, y \in Nat : x < y => <<x, y>> \in R
  OBVIOUS
<1> HIDE DEF R
<1>3. PICK n \in N : \A m \in N : ~ (<<m, n>> \in R)
  BY <1>1, WFMin
<1>4. \A m \in N : ~ (m < n)
  BY <1>2, <1>3
<1>5. n \in Nat /\ \A m \in N : m \in Nat
  OBVIOUS
<1>6. \A m \in N : n <= m
  BY <1>4, <1>5
<1> QED BY <1>6

\* What adds the elements up one by one is the running total.
LEMMA TotalOf ==
    ASSUME NEW s \in Seq(Int), NEW run, run = [i \in 0 .. Len(s) |-> run[i]], run[0] = 0,
           \A i \in 1 .. Len(s) : run[i] = run[i - 1] + s[i]
    PROVE  Total(s) = run[Len(s)]
<1> DEFINE F(f) == [i \in 0 .. Len(s) |-> IF i = 0 THEN 0 ELSE f[i - 1] + s[i]]
<1> DEFINE r == CHOOSE f : f = F(f)
<1>1. run = F(run)
  OBVIOUS
<1>2. r = F(r)
  BY <1>1
<1>3. Total(s) = r[Len(s)]
  BY DEF Total
<1>4. r[0] = 0 /\ \A i \in 1 .. Len(s) : r[i] = r[i - 1] + s[i]
  <2> HIDE DEF r
  <2>1. Len(s) \in Nat
    OBVIOUS
  <2> QED BY <1>2, <2>1
<1> HIDE DEF r
<1> DEFINE Differ == {i \in 0 .. Len(s) : r[i] # run[i]}
<1>5. Differ = {}
  <2> SUFFICES ASSUME Differ # {} PROVE FALSE
    OBVIOUS
  <2>1. Differ \in SUBSET Nat
    OBVIOUS
  <2>2. PICK n \in Differ : \A m \in Differ : n <= m
    <3> HIDE DEF Differ
    <3> QED BY <2>1, LeastOf
  <2>3. n \in 1 .. Len(s) /\ n - 1 \in 0 .. Len(s)
    BY <1>4
  <2>4. n - 1 \notin Differ
    BY <2>2, <2>3
  <2>5. r[n - 1] = run[n - 1]
    BY <2>3, <2>4
  <2>6. r[n] = run[n]
    BY <1>4, <2>3, <2>5
  <2> QED BY <2>6
<1>6. Len(s) \in 0 .. Len(s)
  OBVIOUS
<1> QED BY <1>3, <1>5, <1>6

\* A twelfth, or what it is, rounded half up, is off by half a unit at most.
LEMMA PerRounds ==
    ASSUME NEW rent \in Int, NEW n \in 1 .. 12
    PROVE  /\ Per(rent, n) \in Int
           /\ 2 * (rent - Per(rent, n) * n) <= n /\ 2 * (Per(rent, n) * n - rent) <= n
<1>1. CASE n = 1  BY <1>1 DEF Per
<1>2. CASE n = 2  BY <1>2 DEF Per
<1>3. CASE n = 3  BY <1>3 DEF Per
<1>4. CASE n = 4  BY <1>4 DEF Per
<1>5. CASE n = 5  BY <1>5 DEF Per
<1>6. CASE n = 6  BY <1>6 DEF Per
<1>7. CASE n = 7  BY <1>7 DEF Per
<1>8. CASE n = 8  BY <1>8 DEF Per
<1>9. CASE n = 9  BY <1>9 DEF Per
<1>10. CASE n = 10  BY <1>10 DEF Per
<1>11. CASE n = 11  BY <1>11 DEF Per
<1>12. CASE n = 12  BY <1>12 DEF Per
<1> QED BY <1>1, <1>2, <1>3, <1>4, <1>5, <1>6, <1>7, <1>8, <1>9, <1>10, <1>11, <1>12

\* As many cheques as asked for, up to twelve, come to the rent, none more than
\* six off another.
LEMMA ScheduleSums ==
    ASSUME NEW rent \in Int, NEW count \in Nat, count > 0
    PROVE  /\ evenChequeSchedule(rent, count) \in Seq(Int)
           /\ Len(evenChequeSchedule(rent, count)) = Min2(count, 12)
           /\ Total(evenChequeSchedule(rent, count)) = rent
           /\ \A i, j \in DOMAIN evenChequeSchedule(rent, count) :
                evenChequeSchedule(rent, count)[i] - evenChequeSchedule(rent, count)[j] <= 6
<1> DEFINE n == Min2(count, 12)  per == Per(rent, n)  s == evenChequeSchedule(rent, count)
<1>1. n \in 1 .. 12
  BY DEF Min2
<1>2. per \in Int /\ 2 * (rent - per * n) <= n /\ 2 * (per * n - rent) <= n
  BY <1>1, PerRounds
<1>3. s = [i \in 1 .. n |-> IF i = n THEN rent - per * (n - 1) ELSE per]
  BY DEF evenChequeSchedule, Evenly
<1> HIDE DEF n, per, s
<1>4. rent - per * (n - 1) \in Int
  BY <1>1, <1>2
<1>5. s \in Seq(Int) /\ Len(s) = n /\ DOMAIN s = 1 .. n
  BY <1>1, <1>2, <1>3, <1>4
<1>6. \A i \in 1 .. n : s[i] = IF i = n THEN rent - per * (n - 1) ELSE per
  BY <1>3
<1>7. Total(s) = rent
  <2> DEFINE run == [i \in 0 .. n |-> IF i = n THEN rent ELSE per * i]
  <2>1. run[0] = 0 /\ run[n] = rent /\ run = [i \in 0 .. Len(s) |-> run[i]]
    BY <1>1, <1>2, <1>5
  <2>2. ASSUME NEW i \in 1 .. n PROVE run[i] = run[i - 1] + s[i]
    <3>1. run[i - 1] = per * (i - 1)
      BY <1>1
    <3>2. per * (i - 1) + per = per * i
      BY <1>1, <1>2
    <3>3. CASE i = n
      BY <1>1, <1>2, <1>6, <3>1, <3>3
    <3>4. CASE i # n
      BY <1>1, <1>2, <1>6, <3>1, <3>2, <3>4
    <3> QED BY <3>3, <3>4
  <2> HIDE DEF run
  <2> QED BY <1>5, <2>1, <2>2, TotalOf
<1>8. \A i, j \in DOMAIN s : s[i] - s[j] <= 6
  <2> DEFINE off == rent - per * n
  <2>1. rent - per * (n - 1) = per + off
    BY <1>1, <1>2
  <2>2. off \in Int /\ off <= 6 /\ off >= -6
    BY <1>1, <1>2
  <2>3. \A i \in 1 .. n : s[i] = per + off \/ s[i] = per
    BY <1>6, <2>1
  <2> HIDE DEF off
  <2> TAKE i, j \in DOMAIN s
  <2>4. (s[i] = per + off \/ s[i] = per) /\ (s[j] = per + off \/ s[j] = per)
    BY <1>5, <2>3
  <2> QED BY <1>2, <2>2, <2>4
<1> QED BY <1>5, <1>7, <1>8 DEF n, s

-----------------------------------------------------------------------------
(* What a request of the form has in hand *)

Blank == {Nobody}
FormRow == [landlord : Contacts \cup {Nobody, Anew}, tenant : Contacts \cup {Nobody, Anew},
            property : Properties \cup {Nobody, Anew}, client : Clients \cup {Nobody},
            rent : Int, count : Nat]
RequestRow == [role : {"MANAGER", "MANAGING_AGENT"} \cup Blank, form : FormRow,
               landlord : Contacts \cup Blank, tenant : Contacts \cup Blank,
               property : Properties \cup Blank, tenancy : Tenancies \cup Blank,
               book : SUBSET Properties]
TenancyRow == [state : {"absent", "live"}, property : Properties \cup Blank,
               landlord : Contacts \cup Blank, tenant : Contacts \cup Blank,
               rent : Int, cheques : Seq(Int), dated : {"never", "term", "cheques"}]
RowStates == {"absent", "live", "archived"}

BookTypes ==
    /\ contact \in [Contacts -> RowStates]
    /\ property \in [Properties -> [state : RowStates, client : Clients \cup Blank]]
    /\ tenancy \in [Tenancies -> TenancyRow]
    /\ held \in SUBSET Properties /\ onboarded \in SUBSET Tenancies
    /\ req \in [Submissions -> RequestRow] /\ DOMAIN step = Submissions

Onboarding == {"deadlines", "cheques", "redate", "audit", "done"}   \* with a tenancy
Placed == {"claim", "tenancy"} \cup Onboarding                     \* with a property

\* The party is the one named, or somebody made for the form.
Kept(k, f) == (f # Anew => k = f) /\ (f = Anew => k # Nobody)
PartiesKept(p) ==
    /\ step[p] \in {"tenant", "property"} \cup Placed => Kept(req[p].landlord, req[p].form.landlord)
    /\ step[p] \in {"property"} \cup Placed => Kept(req[p].tenant, req[p].form.tenant)
    /\ step[p] \in {"idle", "landlord"} => req[p].landlord = Nobody
    /\ step[p] \in {"idle", "landlord", "tenant"} => req[p].tenant = Nobody
    /\ Agent(p) => /\ req[p].landlord \in {Nobody, req[p].form.landlord}
                   /\ req[p].tenant \in {Nobody, req[p].form.tenant}
    /\ req[p].landlord # Nobody => contact[req[p].landlord] # "absent"
    /\ req[p].tenant # Nobody => contact[req[p].tenant] # "absent"

\* The property is the one named, or one made for the client named, and an
\* agent's is in the book the request goes by.
PropertyKept(p) ==
    /\ step[p] \in {"idle", "landlord", "tenant", "property", "refused"} => req[p].property = Nobody
    /\ req[p].book \subseteq held
    /\ step[p] \in Placed =>
        LET x == req[p].property  f == req[p].form IN
        /\ x \in Properties /\ property[x].state # "absent"
        /\ f.property # Anew => x = f.property
        /\ f.property = Anew => property[x].client = f.client
        /\ Agent(p) /\ step[p] # "claim" => x \in req[p].book

\* The tenancy is what was asked for, as far as the request has come.
Asked(p, l) ==
    /\ l.state # "absent" /\ l.property = req[p].property
    /\ l.landlord = req[p].landlord /\ l.tenant = req[p].tenant /\ l.rent = req[p].form.rent
Advanced(p, l) ==
    LET count == req[p].form.count  even == evenChequeSchedule(l.rent, count) IN
    /\ step[p] \in {"deadlines", "cheques"} => l.cheques = <<>>
    /\ step[p] \in {"cheques", "redate"} => count > 0
    /\ step[p] = "redate" => l.cheques = even
    /\ step[p] \in {"audit", "done"} => IF count > 0 THEN l.cheques = even /\ l.dated = "cheques"
                                        ELSE l.cheques = <<>> /\ l.dated = "term"
TenancyKept(p) ==
    /\ req[p].tenancy # Nobody =>
        /\ step[p] \in Onboarding \cup {"dead"} /\ tenancy[req[p].tenancy].state # "absent"
    /\ step[p] \in Onboarding => /\ req[p].tenancy # Nobody
                                 /\ Asked(p, tenancy[req[p].tenancy])
                                 /\ Advanced(p, tenancy[req[p].tenancy])

InHand(p) == PartiesKept(p) /\ PropertyKept(p) /\ TenancyKept(p) /\ (step[p] = "idle" => req[p] = NoRequest)

\* What two requests made is not the same.
Apart(p, q) ==
    /\ req[p].tenancy # Nobody => req[p].tenancy # req[q].tenancy
    /\ req[p].form.landlord = Anew /\ req[q].form.landlord = Anew /\ req[p].landlord # Nobody =>
        req[p].landlord # req[q].landlord
    /\ req[p].form.tenant = Anew /\ req[q].form.tenant = Anew /\ req[p].tenant # Nobody =>
        req[p].tenant # req[q].tenant

BookInv ==
    /\ BookTypes
    /\ \A p \in Submissions : InHand(p)
    /\ \A p, q \in Submissions : p # q => Apart(p, q)
    /\ onboarded = {req[p].tenancy : p \in {q \in Submissions : step[q] = "done"}}

-----------------------------------------------------------------------------
(* Rows *)

\* What stays of a request when one field is written.
Rest(r, s) == r.role = s.role /\ r.form = s.form
BookKept(r, s) == Rest(r, s) /\ r.landlord = s.landlord /\ r.tenant = s.tenant /\ r.tenancy = s.tenancy

LEMMA RequestWritten ==
    ASSUME NEW r \in RequestRow
    PROVE  /\ \A k \in Contacts \cup Blank :
                /\ [r EXCEPT !["landlord"] = k] \in RequestRow /\ [r EXCEPT !["landlord"] = k].landlord = k
                /\ LET s == [r EXCEPT !["landlord"] = k] IN
                    Rest(s, r) /\ s.tenant = r.tenant /\ s.tenancy = r.tenancy
                        /\ s.property = r.property /\ s.book = r.book
           /\ \A k \in Contacts \cup Blank :
                /\ [r EXCEPT !["tenant"] = k] \in RequestRow /\ [r EXCEPT !["tenant"] = k].tenant = k
                /\ LET s == [r EXCEPT !["tenant"] = k] IN
                    Rest(s, r) /\ s.landlord = r.landlord /\ s.tenancy = r.tenancy
                        /\ s.property = r.property /\ s.book = r.book
           /\ \A x \in Properties \cup Blank :
                /\ [r EXCEPT !["property"] = x] \in RequestRow /\ [r EXCEPT !["property"] = x].property = x
                /\ BookKept([r EXCEPT !["property"] = x], r) /\ [r EXCEPT !["property"] = x].book = r.book
           /\ \A t \in Tenancies \cup Blank :
                /\ [r EXCEPT !["tenancy"] = t] \in RequestRow /\ [r EXCEPT !["tenancy"] = t].tenancy = t
                /\ LET s == [r EXCEPT !["tenancy"] = t] IN
                    Rest(s, r) /\ s.landlord = r.landlord /\ s.tenant = r.tenant
                        /\ s.property = r.property /\ s.book = r.book
           /\ \A b \in SUBSET Properties :
                /\ [r EXCEPT !["book"] = b] \in RequestRow /\ [r EXCEPT !["book"] = b].book = b
                /\ BookKept([r EXCEPT !["book"] = b], r) /\ [r EXCEPT !["book"] = b].property = r.property
  BY DEF RequestRow, Rest, BookKept

LEMMA RequestFields ==
    ASSUME NEW r, r \in RequestRow
    PROVE  /\ r.role \in {"MANAGER", "MANAGING_AGENT"} \cup Blank /\ r.form \in FormRow
           /\ r.landlord \in Contacts \cup Blank /\ r.tenant \in Contacts \cup Blank
           /\ r.property \in Properties \cup Blank /\ r.tenancy \in Tenancies \cup Blank
           /\ r.book \in SUBSET Properties
           /\ r.form.landlord \in Contacts \cup {Nobody, Anew}
           /\ r.form.tenant \in Contacts \cup {Nobody, Anew}
           /\ r.form.property \in Properties \cup {Nobody, Anew} /\ r.form.client \in Clients \cup {Nobody}
           /\ r.form.rent \in Int /\ r.form.count \in Nat
  BY DEF RequestRow, FormRow

\* A row that is not there is found if there is one.
LEMMA FreshIs ==
    ASSUME NEW S, NEW used, HasRoom(S, used)
    PROVE  Fresh(S, used) \in S /\ Fresh(S, used) \notin used
  BY DEF HasRoom, Fresh

LEMMA NamesApart ==
    /\ Nobody \notin Contacts /\ Nobody \notin Properties /\ Nobody \notin Tenancies
    /\ Anew \notin Contacts /\ Anew \notin Properties /\ Nobody # Anew
  BY RegistryAssumption

-----------------------------------------------------------------------------
(* What a request has in hand stays when others move *)

\* No row goes away, no property changes hands, and no agent loses one.
BookGrows ==
    /\ \A k \in Contacts : contact[k] # "absent" => contact'[k] # "absent"
    /\ \A x \in Properties : property[x].state # "absent" =>
        property'[x].state # "absent" /\ property'[x].client = property[x].client
    /\ held \subseteq held'

LEMMA OthersKeep ==
    ASSUME BookTypes, BookGrows, NEW q \in Submissions, InHand(q),
           step'[q] = step[q], req'[q] = req[q],
           req[q].tenancy # Nobody => tenancy'[req[q].tenancy] = tenancy[req[q].tenancy]
    PROVE  InHand(q)'
<1>1. req[q] \in RequestRow
  BY DEF BookTypes
<1>2. PartiesKept(q)'
  <2>1. /\ req[q].landlord # Nobody => req[q].landlord \in Contacts
        /\ req[q].tenant # Nobody => req[q].tenant \in Contacts
    BY <1>1, RequestFields DEF Blank
  <2>2. PartiesKept(q)
    BY DEF InHand
  <2> QED BY <2>1, <2>2 DEF PartiesKept, Agent, BookGrows
<1>3. PropertyKept(q)'
  <2>1. PropertyKept(q)
    BY DEF InHand
  <2> QED BY <2>1 DEF PropertyKept, Agent, BookGrows
<1>4. TenancyKept(q)'
  <2>1. TenancyKept(q)
    BY DEF InHand
  <2>2. Asked(q, tenancy[req[q].tenancy]) => Asked(q, tenancy[req[q].tenancy])' \/ req[q].tenancy = Nobody
    BY DEF Asked
  <2>3. Advanced(q, tenancy[req[q].tenancy])
            => Advanced(q, tenancy[req[q].tenancy])' \/ req[q].tenancy = Nobody
    BY DEF Advanced
  <2> QED BY <2>1, <2>2, <2>3 DEF TenancyKept
<1> QED BY <1>2, <1>3, <1>4 DEF InHand

LEMMA NoneMoves ==
    ASSUME BookInv, BookTypes', BookGrows, UNCHANGED <<tenancy, onboarded, step, req>>
    PROVE  BookInv'
<1>1. \A q \in Submissions : InHand(q)'
  BY OthersKeep DEF BookInv
<1> QED BY <1>1 DEF BookInv, Apart

LEMMA OneMoves ==
    ASSUME BookInv, BookTypes', BookGrows, NEW p \in Submissions, step[p] # "done",
           \A q \in Submissions \ {p} : step'[q] = step[q] /\ req'[q] = req[q],
           \A q \in Submissions \ {p} :
               req[q].tenancy # Nobody => tenancy'[req[q].tenancy] = tenancy[req[q].tenancy],
           InHand(p)', \A q \in Submissions \ {p} : Apart(p, q)' /\ Apart(q, p)',
           onboarded' = IF step'[p] = "done" THEN onboarded \cup {req'[p].tenancy} ELSE onboarded
    PROVE  BookInv'
<1>1. \A q \in Submissions : InHand(q)'
  BY OthersKeep DEF BookInv
<1>2. ASSUME NEW q \in Submissions, NEW r \in Submissions, q # r PROVE Apart(q, r)'
  <2>1. CASE q = p \/ r = p
    BY <1>2, <2>1
  <2>2. CASE q # p /\ r # p
    BY <1>2, <2>2 DEF BookInv, Apart
  <2> QED BY <2>1, <2>2
<1>3. onboarded' = {req'[q].tenancy : q \in {r \in Submissions : step'[r] = "done"}}
  BY DEF BookInv
<1> QED BY <1>1, <1>2, <1>3 DEF BookInv

\* The same when the one that moves made nothing.
LEMMA OneGoesOn ==
    ASSUME BookInv, BookTypes', BookGrows, NEW p \in Submissions, step[p] # "done",
           \A q \in Submissions \ {p} : step'[q] = step[q] /\ req'[q] = req[q],
           \A q \in Submissions \ {p} :
               req[q].tenancy # Nobody => tenancy'[req[q].tenancy] = tenancy[req[q].tenancy],
           BookKept(req'[p], req[p]), InHand(p)',
           onboarded' = IF step'[p] = "done" THEN onboarded \cup {req'[p].tenancy} ELSE onboarded
    PROVE  BookInv'
<1>1. \A q \in Submissions \ {p} : Apart(p, q)' /\ Apart(q, p)'
  BY DEF BookInv, Apart, BookKept, Rest
<1> QED BY <1>1, OneMoves

-----------------------------------------------------------------------------
(* The steps of a request *)

LEMMA Going ==
    ASSUME BookTypes, NEW p \in Submissions, NEW here, NEW there, Goto(p, here, there)
    PROVE  /\ step[p] = here /\ step'[p] = there /\ DOMAIN step' = Submissions
           /\ \A q \in Submissions \ {p} : step'[q] = step[q]
  BY DEF BookTypes, Goto

LEMMA RequestOf ==
    ASSUME BookTypes, NEW p \in Submissions, NEW r \in RequestRow, req' = [req EXCEPT ![p] = r]
    PROVE  /\ req' \in [Submissions -> RequestRow] /\ req'[p] = r
           /\ \A q \in Submissions \ {p} : req'[q] = req[q]
  BY DEF BookTypes

LEMMA Refused ==
    ASSUME BookInv, NEW p \in Submissions, NEW here \in {"landlord", "tenant", "property"},
           Refuse(p, here)
    PROVE  BookInv'
<1>0. BookTypes /\ InHand(p)
  BY DEF BookInv
<1>1. /\ step[p] = here /\ step'[p] = "refused" /\ DOMAIN step' = Submissions
      /\ \A q \in Submissions \ {p} : step'[q] = step[q]
  BY <1>0, Going DEF Refuse
<1>2. UNCHANGED <<client, contact, property, tenancy, held, onboarded, req>>
  BY DEF Refuse
<1>3. BookTypes'
  BY <1>0, <1>1, <1>2 DEF BookTypes
<1>4. InHand(p)'
  <2>1. PartiesKept(p)'
    BY <1>0, <1>1, <1>2 DEF InHand, PartiesKept, Placed, Onboarding, Agent
  <2>2. PropertyKept(p)'
    BY <1>0, <1>1, <1>2 DEF InHand, PropertyKept, Placed, Onboarding, Agent
  <2>3. TenancyKept(p)'
    BY <1>0, <1>1, <1>2 DEF InHand, TenancyKept, Onboarding
  <2> QED BY <1>1, <2>1, <2>2, <2>3 DEF InHand
<1>5. BookGrows
  BY <1>2 DEF BookGrows
<1>6. BookKept(req'[p], req[p])
  BY <1>2 DEF BookKept, Rest
<1> QED BY <1>1, <1>2, <1>3, <1>4, <1>5, <1>6, OneGoesOn

\* A party is left blank, found on record or made, or the request is refused.
LEMMA LandlordStep ==
    ASSUME BookInv, NEW p \in Submissions, Landlord(p)
    PROVE  BookInv'
<1>0. BookTypes /\ InHand(p) /\ req[p] \in RequestRow /\ req \in [Submissions -> RequestRow]
      /\ PartiesKept(p) /\ PropertyKept(p) /\ TenancyKept(p)
  BY DEF BookInv, BookTypes, InHand
<1>1. req[p].form.landlord \in Contacts \cup {Nobody, Anew} /\ req[p].landlord \in Contacts \cup Blank
      /\ req[p].tenant \in Contacts \cup Blank
  BY <1>0, RequestFields
<1>2. CASE Goto(p, "landlord", "tenant")
  <2>1. /\ step[p] = "landlord" /\ step'[p] = "tenant" /\ DOMAIN step' = Submissions
        /\ \A q \in Submissions \ {p} : step'[q] = step[q]
    BY <1>0, <1>2, Going
  <2>2. UNCHANGED <<property, tenancy, held, onboarded>>
    BY <1>2 DEF Landlord, Party, Refuse
  <2>3. req[p].landlord = Nobody
    BY <1>0, <2>1 DEF PartiesKept
  \* What is taken, whether named, made or left blank, is kept.
  <2>4. ASSUME NEW k \in Contacts \cup Blank, Kept(k, req[p].form.landlord),
               k # Nobody => contact'[k] # "absent",
               Agent(p) => k \in {Nobody, req[p].form.landlord},
               \A c \in Contacts : contact[c] # "absent" => contact'[c] # "absent",
               contact' \in [Contacts -> RowStates],
               req' = [req EXCEPT ![p] = [req[p] EXCEPT !["landlord"] = k]],
               req[p].form.landlord = Anew => k \in Contacts /\ contact[k] = "absent"
        PROVE  BookInv'
    <3> DEFINE r == [req[p] EXCEPT !["landlord"] = k]
    <3>1. r \in RequestRow /\ r.landlord = k /\ Rest(r, req[p]) /\ r.tenant = req[p].tenant
          /\ r.tenancy = req[p].tenancy /\ r.property = req[p].property /\ r.book = req[p].book
      BY <1>0, RequestWritten
    <3>2. req' = [req EXCEPT ![p] = r]
      BY <2>4
    <3> HIDE DEF r
    <3>3. /\ req' \in [Submissions -> RequestRow] /\ req'[p] = r
          /\ \A q \in Submissions \ {p} : req'[q] = req[q]
      BY <1>0, <3>1, <3>2, RequestOf
    <3>4. BookTypes'
      BY <1>0, <2>1, <2>2, <2>4, <3>3 DEF BookTypes
    <3>5. BookGrows
      BY <2>2, <2>4 DEF BookGrows
    <3>6. PartiesKept(p)'
      BY <1>0, <1>1, <2>1, <2>4, <3>1, <3>3, NamesApart
         DEF PartiesKept, Placed, Onboarding, Agent, Rest, Blank
    <3>7. PropertyKept(p)'
      BY <1>0, <2>1, <2>2, <3>1, <3>3 DEF PropertyKept, Placed, Onboarding, Agent
    <3>8. TenancyKept(p)'
      BY <1>0, <2>1, <2>2, <3>1, <3>3 DEF TenancyKept, Onboarding
    <3>9. InHand(p)'
      BY <2>1, <3>6, <3>7, <3>8 DEF InHand
    <3>10. ASSUME NEW q \in Submissions \ {p} PROVE Apart(p, q)' /\ Apart(q, p)'
      <4>1. Apart(p, q) /\ Apart(q, p) /\ InHand(q)
        BY DEF BookInv
      <4>2. req[q].landlord # Nobody => contact[req[q].landlord] # "absent"
        BY <4>1 DEF InHand, PartiesKept
      <4> QED BY <2>4, <3>1, <3>3, <4>1, <4>2 DEF Apart, Rest
    <3> QED BY <2>1, <2>2, <3>3, <3>4, <3>5, <3>9, <3>10, OneMoves
  <2>5. CASE req[p].form.landlord = Nobody /\ UNCHANGED <<contact, req>>
    <3>1. BookTypes'
      BY <1>0, <2>1, <2>2, <2>5 DEF BookTypes
    <3>2. BookGrows /\ BookKept(req'[p], req[p])
      BY <2>2, <2>5 DEF BookGrows, BookKept, Rest
    <3>3. PartiesKept(p)'
      BY <1>0, <2>1, <2>3, <2>5, NamesApart DEF PartiesKept, Placed, Onboarding, Agent, Kept
    <3>4. PropertyKept(p)'
      BY <1>0, <2>1, <2>2, <2>5 DEF PropertyKept, Placed, Onboarding, Agent
    <3>5. TenancyKept(p)'
      BY <1>0, <2>1, <2>2, <2>5 DEF TenancyKept, Onboarding
    <3>6. InHand(p)'
      BY <2>1, <3>3, <3>4, <3>5 DEF InHand
    <3> QED BY <2>1, <2>2, <2>5, <3>1, <3>2, <3>6, OneGoesOn
  <2>6. CASE /\ req[p].form.landlord \in Contacts /\ Reachable(p, req[p].form.landlord)
             /\ Carries(p, "landlord", req[p].form.landlord) /\ UNCHANGED contact
    <3> DEFINE k == req[p].form.landlord
    <3>1. Kept(k, req[p].form.landlord) /\ contact[k] # "absent" /\ k # Anew
      BY <2>6, NamesApart DEF Kept, Reachable
    <3>2. req' = [req EXCEPT ![p] = [req[p] EXCEPT !["landlord"] = k]]
      BY <2>6 DEF Carries
    <3>3. contact' = contact /\ contact \in [Contacts -> RowStates] /\ k \in Contacts
      BY <1>0, <2>6 DEF BookTypes
    <3> HIDE DEF k
    <3> QED BY <2>4, <3>1, <3>2, <3>3 DEF k
  <2>7. CASE /\ req[p].form.landlord = Anew /\ ~Agent(p) /\ HasRoom(Contacts, InBook)
             /\ contact' = [contact EXCEPT ![Fresh(Contacts, InBook)] = "live"]
             /\ Carries(p, "landlord", Fresh(Contacts, InBook))
    <3>1. PICK k \in Contacts : k = Fresh(Contacts, InBook) /\ k \notin InBook
      BY <2>7, FreshIs
    <3>2. contact[k] = "absent" /\ k # Nobody /\ Kept(k, req[p].form.landlord)
      BY <2>7, <3>1, NamesApart DEF InBook, Kept
    <3>3. req' = [req EXCEPT ![p] = [req[p] EXCEPT !["landlord"] = k]]
      BY <2>7, <3>1 DEF Carries
    <3>4. contact \in [Contacts -> RowStates] /\ contact' = [contact EXCEPT ![k] = "live"]
      BY <1>0, <2>7, <3>1 DEF BookTypes
    <3>5. contact' \in [Contacts -> RowStates] /\ contact'[k] = "live"
          /\ \A c \in Contacts : contact[c] # "absent" => contact'[c] # "absent"
      BY <3>4 DEF RowStates
    <3> QED BY <2>4, <2>7, <3>2, <3>3, <3>5
  <2>8. step'[p] # "refused"
    BY <2>1
  <2>9. ~Refuse(p, "landlord")
    BY <1>0, <2>8, Going DEF Refuse
  <2> QED BY <1>2, <2>5, <2>6, <2>7, <2>9 DEF Landlord, Party
<1>3. CASE Refuse(p, "landlord")
  BY <1>3, Refused
<1> QED BY <1>2, <1>3 DEF Landlord, Party

LEMMA TenantStep ==
    ASSUME BookInv, NEW p \in Submissions, Tenant(p)
    PROVE  BookInv'
<1>0. BookTypes /\ InHand(p) /\ req[p] \in RequestRow /\ req \in [Submissions -> RequestRow]
      /\ PartiesKept(p) /\ PropertyKept(p) /\ TenancyKept(p)
  BY DEF BookInv, BookTypes, InHand
<1>1. req[p].form.tenant \in Contacts \cup {Nobody, Anew} /\ req[p].landlord \in Contacts \cup Blank
      /\ req[p].tenant \in Contacts \cup Blank
  BY <1>0, RequestFields
<1>2. CASE Goto(p, "tenant", "property")
  <2>1. /\ step[p] = "tenant" /\ step'[p] = "property" /\ DOMAIN step' = Submissions
        /\ \A q \in Submissions \ {p} : step'[q] = step[q]
    BY <1>0, <1>2, Going
  <2>2. UNCHANGED <<property, tenancy, held, onboarded>>
    BY <1>2 DEF Tenant, Party, Refuse
  <2>3. req[p].tenant = Nobody
    BY <1>0, <2>1 DEF PartiesKept
  \* What is taken, whether named, made or left blank, is kept.
  <2>4. ASSUME NEW k \in Contacts \cup Blank, Kept(k, req[p].form.tenant),
               k # Nobody => contact'[k] # "absent",
               Agent(p) => k \in {Nobody, req[p].form.tenant},
               \A c \in Contacts : contact[c] # "absent" => contact'[c] # "absent",
               contact' \in [Contacts -> RowStates],
               req' = [req EXCEPT ![p] = [req[p] EXCEPT !["tenant"] = k]],
               req[p].form.tenant = Anew => k \in Contacts /\ contact[k] = "absent"
        PROVE  BookInv'
    <3> DEFINE r == [req[p] EXCEPT !["tenant"] = k]
    <3>1. r \in RequestRow /\ r.tenant = k /\ Rest(r, req[p]) /\ r.landlord = req[p].landlord
          /\ r.tenancy = req[p].tenancy /\ r.property = req[p].property /\ r.book = req[p].book
      BY <1>0, RequestWritten
    <3>2. req' = [req EXCEPT ![p] = r]
      BY <2>4
    <3> HIDE DEF r
    <3>3. /\ req' \in [Submissions -> RequestRow] /\ req'[p] = r
          /\ \A q \in Submissions \ {p} : req'[q] = req[q]
      BY <1>0, <3>1, <3>2, RequestOf
    <3>4. BookTypes'
      BY <1>0, <2>1, <2>2, <2>4, <3>3 DEF BookTypes
    <3>5. BookGrows
      BY <2>2, <2>4 DEF BookGrows
    <3>6. PartiesKept(p)'
      <4>1. /\ Kept(req[p].landlord, req[p].form.landlord)
            /\ Agent(p) => req[p].landlord \in {Nobody, req[p].form.landlord}
            /\ req[p].landlord # Nobody => contact[req[p].landlord] # "absent"
        BY <1>0, <2>1 DEF PartiesKept
      <4>2. req[p].landlord # Nobody => contact'[req[p].landlord] # "absent"
        BY <1>1, <2>4, <4>1 DEF Blank
      <4>3. req'[p].landlord = req[p].landlord /\ req'[p].form = req[p].form /\ req'[p].tenant = k
            /\ Agent(p)' = Agent(p)
        BY <3>1, <3>3 DEF Rest, Agent
      <4> QED BY <2>1, <2>4, <4>1, <4>2, <4>3 DEF PartiesKept
    <3>7. PropertyKept(p)'
      BY <1>0, <2>1, <2>2, <3>1, <3>3 DEF PropertyKept, Placed, Onboarding, Agent
    <3>8. TenancyKept(p)'
      BY <1>0, <2>1, <2>2, <3>1, <3>3 DEF TenancyKept, Onboarding
    <3>9. InHand(p)'
      BY <2>1, <3>6, <3>7, <3>8 DEF InHand
    <3>10. ASSUME NEW q \in Submissions \ {p} PROVE Apart(p, q)' /\ Apart(q, p)'
      <4>1. Apart(p, q) /\ Apart(q, p) /\ InHand(q)
        BY DEF BookInv
      <4>2. req[q].tenant # Nobody => contact[req[q].tenant] # "absent"
        BY <4>1 DEF InHand, PartiesKept
      <4> QED BY <2>4, <3>1, <3>3, <4>1, <4>2 DEF Apart, Rest
    <3> QED BY <2>1, <2>2, <3>3, <3>4, <3>5, <3>9, <3>10, OneMoves
  <2>5. CASE req[p].form.tenant = Nobody /\ UNCHANGED <<contact, req>>
    <3>1. BookTypes'
      BY <1>0, <2>1, <2>2, <2>5 DEF BookTypes
    <3>2. BookGrows /\ BookKept(req'[p], req[p])
      BY <2>2, <2>5 DEF BookGrows, BookKept, Rest
    <3>3. PartiesKept(p)'
      BY <1>0, <2>1, <2>3, <2>5, NamesApart DEF PartiesKept, Placed, Onboarding, Agent, Kept
    <3>4. PropertyKept(p)'
      BY <1>0, <2>1, <2>2, <2>5 DEF PropertyKept, Placed, Onboarding, Agent
    <3>5. TenancyKept(p)'
      BY <1>0, <2>1, <2>2, <2>5 DEF TenancyKept, Onboarding
    <3>6. InHand(p)'
      BY <2>1, <3>3, <3>4, <3>5 DEF InHand
    <3> QED BY <2>1, <2>2, <2>5, <3>1, <3>2, <3>6, OneGoesOn
  <2>6. CASE /\ req[p].form.tenant \in Contacts /\ Reachable(p, req[p].form.tenant)
             /\ Carries(p, "tenant", req[p].form.tenant) /\ UNCHANGED contact
    <3> DEFINE k == req[p].form.tenant
    <3>1. Kept(k, req[p].form.tenant) /\ contact[k] # "absent" /\ k # Anew
      BY <2>6, NamesApart DEF Kept, Reachable
    <3>2. req' = [req EXCEPT ![p] = [req[p] EXCEPT !["tenant"] = k]]
      BY <2>6 DEF Carries
    <3>3. contact' = contact /\ contact \in [Contacts -> RowStates] /\ k \in Contacts
      BY <1>0, <2>6 DEF BookTypes
    <3> HIDE DEF k
    <3> QED BY <2>4, <3>1, <3>2, <3>3 DEF k
  <2>7. CASE /\ req[p].form.tenant = Anew /\ ~Agent(p) /\ HasRoom(Contacts, InBook)
             /\ contact' = [contact EXCEPT ![Fresh(Contacts, InBook)] = "live"]
             /\ Carries(p, "tenant", Fresh(Contacts, InBook))
    <3>1. PICK k \in Contacts : k = Fresh(Contacts, InBook) /\ k \notin InBook
      BY <2>7, FreshIs
    <3>2. contact[k] = "absent" /\ k # Nobody /\ Kept(k, req[p].form.tenant)
      BY <2>7, <3>1, NamesApart DEF InBook, Kept
    <3>3. req' = [req EXCEPT ![p] = [req[p] EXCEPT !["tenant"] = k]]
      BY <2>7, <3>1 DEF Carries
    <3>4. contact \in [Contacts -> RowStates] /\ contact' = [contact EXCEPT ![k] = "live"]
      BY <1>0, <2>7, <3>1 DEF BookTypes
    <3>5. contact' \in [Contacts -> RowStates] /\ contact'[k] = "live"
          /\ \A c \in Contacts : contact[c] # "absent" => contact'[c] # "absent"
      BY <3>4 DEF RowStates
    <3> QED BY <2>4, <2>7, <3>2, <3>3, <3>5
  <2>8. step'[p] # "refused"
    BY <2>1
  <2>9. ~Refuse(p, "tenant")
    BY <1>0, <2>8, Going DEF Refuse
  <2> QED BY <1>2, <2>5, <2>6, <2>7, <2>9 DEF Tenant, Party
<1>3. CASE Refuse(p, "tenant")
  BY <1>3, Refused
<1> QED BY <1>2, <1>3 DEF Tenant, Party

\* A form is handed in.
LEMMA SubmitStep ==
    ASSUME BookInv, NEW p \in Submissions, NEW role \in {"MANAGER", "MANAGING_AGENT"},
           NEW form \in Forms, Submit(p, role, form)
    PROVE  BookInv'
<1>0. BookTypes /\ InHand(p)
  BY DEF BookInv
<1>1. /\ step[p] = "idle" /\ step'[p] = "landlord" /\ DOMAIN step' = Submissions
      /\ \A q \in Submissions \ {p} : step'[q] = step[q]
  BY <1>0, Going DEF Submit
<1>2. UNCHANGED <<client, contact, property, tenancy, held, onboarded>>
  BY DEF Submit
<1>3. form \in FormRow
  BY RegistryAssumption DEF Form, FormRow
<1> DEFINE r == [NoRequest EXCEPT !.role = role, !.form = form, !.book = held]
<1>4. /\ r \in RequestRow /\ r.landlord = Nobody /\ r.tenant = Nobody /\ r.property = Nobody
      /\ r.tenancy = Nobody /\ r.book = held
  BY <1>0, <1>3 DEF NoRequest, RequestRow, Blank, BookTypes
<1>5. req' = [req EXCEPT ![p] = r]
  BY DEF Submit
<1>6. req[p].landlord = Nobody /\ req[p].tenant = Nobody /\ req[p].tenancy = Nobody
  BY <1>0, <1>1 DEF InHand, NoRequest
<1> HIDE DEF r
<1>7. /\ req' \in [Submissions -> RequestRow] /\ req'[p] = r
      /\ \A q \in Submissions \ {p} : req'[q] = req[q]
  BY <1>0, <1>4, <1>5, RequestOf
<1>8. BookTypes'
  BY <1>0, <1>1, <1>2, <1>7 DEF BookTypes
<1>9. BookGrows
  BY <1>2 DEF BookGrows
<1>10. InHand(p)'
  <2>1. PartiesKept(p)'
    BY <1>1, <1>4, <1>7 DEF PartiesKept, Placed, Onboarding
  <2>2. PropertyKept(p)'
    BY <1>1, <1>2, <1>4, <1>7 DEF PropertyKept, Placed, Onboarding
  <2>3. TenancyKept(p)'
    BY <1>1, <1>4, <1>7 DEF TenancyKept, Onboarding
  <2> QED BY <1>1, <2>1, <2>2, <2>3 DEF InHand
<1>11. ASSUME NEW q \in Submissions \ {p} PROVE Apart(p, q)' /\ Apart(q, p)'
  BY <1>4, <1>7 DEF Apart
<1> QED BY <1>1, <1>2, <1>7, <1>8, <1>9, <1>10, <1>11, OneMoves

\* A property on record is taken, or one is made for the client named.
LEMMA PropertyTaken ==
    ASSUME BookInv, NEW p \in Submissions, NEW there \in {"claim", "tenancy"},
           Goto(p, "property", there), NEW x \in Properties,
           UNCHANGED <<contact, tenancy, held, onboarded>>,
           property' \in [Properties -> [state : RowStates, client : Clients \cup Blank]],
           \A y \in Properties : property[y].state # "absent" => property'[y] = property[y],
           req' = [req EXCEPT ![p] = [req[p] EXCEPT !["property"] = x]],
           property'[x].state # "absent",
           req[p].form.property # Anew => x = req[p].form.property,
           req[p].form.property = Anew => property'[x].client = req[p].form.client,
           Agent(p) /\ there # "claim" => x \in req[p].book
    PROVE  BookInv'
<1>0. BookTypes /\ InHand(p) /\ req[p] \in RequestRow /\ PartiesKept(p) /\ PropertyKept(p)
      /\ TenancyKept(p)
  BY DEF BookInv, BookTypes, InHand
<1>1. /\ step[p] = "property" /\ step'[p] = there /\ DOMAIN step' = Submissions
      /\ \A q \in Submissions \ {p} : step'[q] = step[q]
  BY <1>0, Going
<1> DEFINE r == [req[p] EXCEPT !["property"] = x]
<1>2. /\ r \in RequestRow /\ r.property = x /\ BookKept(r, req[p]) /\ r.book = req[p].book
  <2>1. x \in Properties \cup Blank
    OBVIOUS
  <2> QED BY <1>0, <2>1, RequestWritten
<1>3. req' = [req EXCEPT ![p] = r]
  OBVIOUS
<1> HIDE DEF r
<1>4. /\ req' \in [Submissions -> RequestRow] /\ req'[p] = r
      /\ \A q \in Submissions \ {p} : req'[q] = req[q]
  BY <1>0, <1>2, <1>3, RequestOf
<1>5. BookTypes'
  BY <1>0, <1>1, <1>4 DEF BookTypes
<1>6. BookGrows
  BY DEF BookGrows
<1>7. PartiesKept(p)'
  BY <1>0, <1>1, <1>2, <1>4 DEF PartiesKept, Placed, Onboarding, Agent, BookKept, Rest
<1>8. PropertyKept(p)'
  <2>1. req[p].book \subseteq held'
    BY <1>0 DEF PropertyKept
  <2>2. /\ req'[p].property = x /\ req'[p].book = req[p].book /\ req'[p].form = req[p].form
        /\ Agent(p)' = Agent(p)
    BY <1>2, <1>4 DEF BookKept, Rest, Agent
  <2> QED BY <1>1, <2>1, <2>2 DEF PropertyKept
<1>9. TenancyKept(p)'
  BY <1>0, <1>1, <1>2, <1>4 DEF TenancyKept, Onboarding, BookKept, Rest
<1>10. InHand(p)' /\ BookKept(req'[p], req[p])
  BY <1>1, <1>2, <1>4, <1>7, <1>8, <1>9 DEF InHand
<1> QED BY <1>1, <1>4, <1>5, <1>6, <1>10, OneGoesOn

LEMMA UsePropertyStep ==
    ASSUME BookInv, NEW p \in Submissions, UseProperty(p)
    PROVE  BookInv'
<1> DEFINE x == req[p].form.property
<1>1. x \in Properties
  BY DEF UseProperty
<1>2. CASE property[x].state # "absent" /\ (Agent(p) => x \in req[p].book)
  <2>1. /\ Goto(p, "property", "tenancy") /\ Carries(p, "property", x)
        /\ UNCHANGED <<client, contact, property, tenancy, held, onboarded>>
    BY <1>2 DEF UseProperty
  <2>2. x # Anew
    BY <1>1, NamesApart
  <2>3. req' = [req EXCEPT ![p] = [req[p] EXCEPT !["property"] = x]]
    BY <2>1 DEF Carries
  <2>4. property' \in [Properties -> [state : RowStates, client : Clients \cup Blank]]
    BY <2>1 DEF BookInv, BookTypes
  <2>5. /\ property'[x].state # "absent" /\ UNCHANGED <<contact, tenancy, held, onboarded>>
        /\ \A y \in Properties : property[y].state # "absent" => property'[y] = property[y]
        /\ x # Anew => x = x
        /\ x = Anew => property'[x].client = req[p].form.client
        /\ Agent(p) => x \in req[p].book
    BY <1>2, <2>1, <2>2
  <2> QED BY <1>1, <2>1, <2>3, <2>4, <2>5, PropertyTaken
<1>3. CASE ~(property[x].state # "absent" /\ (Agent(p) => x \in req[p].book))
  <2>1. Refuse(p, "property")
    BY <1>3 DEF UseProperty
  <2> QED BY <2>1, Refused
<1> QED BY <1>2, <1>3

LEMMA CreatePropertyStep ==
    ASSUME BookInv, NEW p \in Submissions, CreateProperty(p)
    PROVE  BookInv'
<1> DEFINE c == req[p].form.client
<1>0. BookTypes /\ req[p] \in RequestRow /\ req[p].form.property = Anew
  BY DEF BookInv, BookTypes, CreateProperty
<1>1. c \in Clients \cup Blank
  BY <1>0, RequestFields DEF Blank
<1>2. CASE MayAttach(p, c)
  <2>1. /\ Goto(p, "property", IF Agent(p) THEN "claim" ELSE "tenancy") /\ HasRoom(Properties, Units)
        /\ property' = [property EXCEPT ![Fresh(Properties, Units)] = [state |-> "live", client |-> c]]
        /\ Carries(p, "property", Fresh(Properties, Units))
        /\ UNCHANGED <<client, contact, tenancy, held, onboarded>>
    BY <1>2 DEF CreateProperty
  <2>2. PICK x \in Properties : x = Fresh(Properties, Units) /\ x \notin Units
    BY <2>1, FreshIs
  <2>3. property[x].state = "absent"
    BY <2>2 DEF Units
  <2>4. property' = [property EXCEPT ![x] = [state |-> "live", client |-> c]]
        /\ req' = [req EXCEPT ![p] = [req[p] EXCEPT !["property"] = x]]
    BY <2>1, <2>2 DEF Carries
  <2>5. property \in [Properties -> [state : RowStates, client : Clients \cup Blank]]
    BY <1>0 DEF BookTypes
  <2> HIDE DEF c
  <2>6. /\ property' \in [Properties -> [state : RowStates, client : Clients \cup Blank]]
        /\ property'[x].state # "absent" /\ property'[x].client = c
        /\ \A y \in Properties : property[y].state # "absent" => property'[y] = property[y]
    BY <1>1, <2>3, <2>4, <2>5 DEF RowStates
  <2>7. PICK there \in {"claim", "tenancy"} :
          there = (IF Agent(p) THEN "claim" ELSE "tenancy") /\ Goto(p, "property", there)
    BY <2>1
  <2>8. /\ req[p].form.property # Anew => x = req[p].form.property
        /\ req[p].form.property = Anew => property'[x].client = req[p].form.client
        /\ Agent(p) /\ there # "claim" => x \in req[p].book
        /\ UNCHANGED <<contact, tenancy, held, onboarded>>
    BY <1>0, <2>1, <2>6, <2>7 DEF c
  <2> QED BY <2>4, <2>6, <2>7, <2>8, PropertyTaken
<1>3. CASE ~MayAttach(p, c)
  <2>1. Refuse(p, "property")
    BY <1>3 DEF CreateProperty
  <2> QED BY <2>1, Refused
<1> QED BY <1>2, <1>3

\* The agent takes what it made into its book.
LEMMA ClaimStep ==
    ASSUME BookInv, NEW p \in Submissions, Claim(p)
    PROVE  BookInv'
<1>0. BookTypes /\ InHand(p) /\ req[p] \in RequestRow /\ PartiesKept(p) /\ PropertyKept(p)
      /\ TenancyKept(p)
  BY DEF BookInv, BookTypes, InHand
<1>1. /\ step[p] = "claim" /\ step'[p] = "tenancy" /\ DOMAIN step' = Submissions
      /\ \A q \in Submissions \ {p} : step'[q] = step[q]
  BY <1>0, Going DEF Claim
<1> DEFINE x == req[p].property  b == req[p].book \cup {x}  r == [req[p] EXCEPT !["book"] = b]
<1>2. x \in Properties /\ b \in SUBSET Properties /\ held' = held \cup {x} /\ b \subseteq held'
  BY <1>0, <1>1, RequestFields DEF Claim, PropertyKept, Placed
<1>3. UNCHANGED <<client, contact, property, tenancy, onboarded>>
  BY DEF Claim
<1>4. req' = [req EXCEPT ![p] = r]
  BY DEF Claim, Carries
<1>5. /\ r \in RequestRow /\ r.property = x /\ BookKept(r, req[p]) /\ r.book = b
  BY <1>0, <1>2, RequestWritten
<1>6. x \in b
  OBVIOUS
<1> HIDE DEF r, b
<1>7. /\ req' \in [Submissions -> RequestRow] /\ req'[p] = r
      /\ \A q \in Submissions \ {p} : req'[q] = req[q]
  BY <1>0, <1>4, <1>5, RequestOf
<1>8. BookTypes'
  <2>1. held' \in SUBSET Properties
    BY <1>0, <1>2 DEF BookTypes
  <2> QED BY <1>0, <1>1, <1>3, <1>7, <2>1 DEF BookTypes
<1>9. BookGrows
  BY <1>2, <1>3 DEF BookGrows
<1>10. PartiesKept(p)'
  BY <1>0, <1>1, <1>3, <1>5, <1>7 DEF PartiesKept, Placed, Onboarding, Agent, BookKept, Rest
<1>11. PropertyKept(p)'
  BY <1>0, <1>1, <1>2, <1>3, <1>5, <1>6, <1>7
     DEF PropertyKept, Placed, Onboarding, Agent, BookKept, Rest
<1>12. TenancyKept(p)'
  BY <1>0, <1>1, <1>3, <1>5, <1>7 DEF TenancyKept, Onboarding, BookKept, Rest
<1>13. InHand(p)' /\ BookKept(req'[p], req[p])
  BY <1>1, <1>5, <1>7, <1>10, <1>11, <1>12 DEF InHand
<1> QED BY <1>1, <1>3, <1>7, <1>8, <1>9, <1>13, OneGoesOn

NewRow(x, k, c, rent) ==
    [NoTenancy EXCEPT !.state = "live", !.property = x, !.landlord = k, !.tenant = c, !.rent = rent]

LEMMA NewLease ==
    ASSUME NEW x, NEW k, NEW c, NEW rent
    PROVE  NewRow(x, k, c, rent)
           = [state |-> "live", property |-> x, landlord |-> k, tenant |-> c, rent |-> rent,
              cheques |-> <<>>, dated |-> "never"]
<1>1. PICK q : q = <<>>
  OBVIOUS
<1> DEFINE a == [NoTenancy EXCEPT !.state = "live"]  b == [a EXCEPT !.property = x]
           d == [b EXCEPT !.landlord = k]  e == [d EXCEPT !.tenant = c]
<1>2. a = [state |-> "live", property |-> Nobody, landlord |-> Nobody, tenant |-> Nobody, rent |-> 0,
          cheques |-> q, dated |-> "never"]
  BY <1>1 DEF NoTenancy
<1> HIDE DEF a
<1>3. b = [state |-> "live", property |-> x, landlord |-> Nobody, tenant |-> Nobody, rent |-> 0,
          cheques |-> q, dated |-> "never"]
  BY <1>2
<1> HIDE DEF b
<1>4. d = [state |-> "live", property |-> x, landlord |-> k, tenant |-> Nobody, rent |-> 0,
          cheques |-> q, dated |-> "never"]
  BY <1>3
<1> HIDE DEF d
<1>5. e = [state |-> "live", property |-> x, landlord |-> k, tenant |-> c, rent |-> 0,
          cheques |-> q, dated |-> "never"]
  BY <1>4
<1> HIDE DEF e
<1>6. [e EXCEPT !.rent = rent] = [state |-> "live", property |-> x, landlord |-> k, tenant |-> c, rent |-> rent,
          cheques |-> q, dated |-> "never"]
  BY <1>5
<1> QED BY <1>1, <1>6 DEF a, b, d, e, NewRow

\* A tenancy of what the request has in hand; an agent's property is in its book.
LEMMA CreateTenancyStep ==
    ASSUME BookInv, NEW p \in Submissions, CreateTenancy(p)
    PROVE  BookInv'
<1>0. BookTypes /\ InHand(p) /\ req[p] \in RequestRow /\ PartiesKept(p) /\ PropertyKept(p)
      /\ TenancyKept(p) /\ tenancy \in [Tenancies -> TenancyRow]
  BY DEF BookInv, BookTypes, InHand
<1>1. step[p] = "tenancy"
  BY DEF CreateTenancy, Goto, Refuse
<1>2. Agent(p) => req[p].property \in req[p].book
  BY <1>0, <1>1 DEF PropertyKept, Placed
<1> DEFINE l == [NoTenancy EXCEPT !.state = "live", !.property = req[p].property,
                     !.landlord = req[p].landlord, !.tenant = req[p].tenant,
                     !.rent = req[p].form.rent]
<1>3. /\ Goto(p, "tenancy", "deadlines") /\ HasRoom(Tenancies, Leases)
      /\ tenancy' = [tenancy EXCEPT ![Fresh(Tenancies, Leases)] = l]
      /\ Carries(p, "tenancy", Fresh(Tenancies, Leases))
      /\ UNCHANGED <<client, contact, property, held, onboarded>>
  BY <1>2 DEF CreateTenancy
<1>4. /\ step'[p] = "deadlines" /\ DOMAIN step' = Submissions
      /\ \A q \in Submissions \ {p} : step'[q] = step[q]
  BY <1>0, <1>3, Going
<1>5. PICK t \in Tenancies : t = Fresh(Tenancies, Leases) /\ t \notin Leases
  BY <1>3, FreshIs
<1> DEFINE r == [req[p] EXCEPT !["tenancy"] = t]
<1>6. tenancy' = [tenancy EXCEPT ![t] = l] /\ req' = [req EXCEPT ![p] = r]
      /\ tenancy[t].state = "absent" /\ t # Nobody /\ t \in Tenancies \cup Blank
  BY <1>3, <1>5, NamesApart DEF Carries, Leases
<1>7. /\ r \in RequestRow /\ r.tenancy = t /\ Rest(r, req[p]) /\ r.landlord = req[p].landlord
      /\ r.tenant = req[p].tenant /\ r.property = req[p].property /\ r.book = req[p].book
  BY <1>0, <1>6, RequestWritten
<1>8. /\ l \in TenancyRow /\ l.state = "live" /\ l.property = req[p].property
      /\ l.landlord = req[p].landlord /\ l.tenant = req[p].tenant /\ l.rent = req[p].form.rent
      /\ l.cheques = <<>>
  <2>4. l = NewRow(req[p].property, req[p].landlord, req[p].tenant, req[p].form.rent)
    BY DEF NewRow
  <2> HIDE DEF l
  <2>1. l = [state |-> "live", property |-> req[p].property, landlord |-> req[p].landlord,
             tenant |-> req[p].tenant, rent |-> req[p].form.rent, cheques |-> <<>>,
             dated |-> "never"]
    BY <2>4, NewLease
  <2>2. <<>> \in Seq(Int)
    OBVIOUS
  <2>3. req[p].property \in Properties \cup Blank /\ req[p].landlord \in Contacts \cup Blank
        /\ req[p].tenant \in Contacts \cup Blank /\ req[p].form.rent \in Int
    BY <1>0, RequestFields
  <2> QED BY <2>1, <2>2, <2>3 DEF TenancyRow
<1> HIDE DEF r, l
<1>9. /\ req' \in [Submissions -> RequestRow] /\ req'[p] = r
      /\ \A q \in Submissions \ {p} : req'[q] = req[q]
  <2>1. req' = [req EXCEPT ![p] = r] /\ r \in RequestRow
    BY <1>6, <1>7
  <2> QED BY <1>0, <2>1, RequestOf
<1>10. tenancy' \in [Tenancies -> TenancyRow] /\ tenancy'[t] = l
       /\ \A u \in Tenancies \ {t} : tenancy'[u] = tenancy[u]
  BY <1>0, <1>6, <1>8
<1>11. BookTypes'
  BY <1>0, <1>3, <1>4, <1>9, <1>10 DEF BookTypes
<1>12. BookGrows
  BY <1>3 DEF BookGrows
<1>13. InHand(p)'
  <2>1. PartiesKept(p)'
    <3>1. /\ req'[p].landlord = req[p].landlord /\ req'[p].tenant = req[p].tenant
          /\ req'[p].form = req[p].form /\ Agent(p)' = Agent(p)
      BY <1>7, <1>9 DEF Rest, Agent
    <3> QED BY <1>0, <1>1, <1>3, <1>4, <3>1 DEF PartiesKept, Placed, Onboarding
  <2>2. PropertyKept(p)'
    <3>1. /\ req'[p].property = req[p].property /\ req'[p].book = req[p].book
          /\ req'[p].form = req[p].form /\ Agent(p)' = Agent(p)
      BY <1>7, <1>9 DEF Rest, Agent
    <3> QED BY <1>0, <1>1, <1>3, <1>4, <3>1 DEF PropertyKept, Placed, Onboarding
  <2>3. TenancyKept(p)'
    BY <1>4, <1>6, <1>7, <1>8, <1>9, <1>10 DEF TenancyKept, Onboarding, Asked, Advanced, Rest
  <2> QED BY <1>4, <2>1, <2>2, <2>3 DEF InHand
<1>14. \A q \in Submissions \ {p} : req[q].tenancy # t
  BY <1>6 DEF BookInv, InHand, TenancyKept
<1>15. \A q \in Submissions \ {p} :
          req[q].tenancy # Nobody => tenancy'[req[q].tenancy] = tenancy[req[q].tenancy]
  <2> TAKE q \in Submissions \ {p}
  <2>1. req[q] \in RequestRow
    BY <1>0 DEF BookTypes
  <2>2. req[q].tenancy \in Tenancies \cup Blank
    BY <2>1, RequestFields
  <2> QED BY <1>10, <1>14, <2>2 DEF Blank
<1>16. ASSUME NEW q \in Submissions \ {p} PROVE Apart(p, q)' /\ Apart(q, p)'
  <2>1. Apart(p, q) /\ Apart(q, p)
    BY DEF BookInv
  <2> QED BY <1>7, <1>9, <1>14, <2>1 DEF Apart, Rest
<1>17. onboarded' = (IF step'[p] = "done" THEN onboarded \cup {req'[p].tenancy} ELSE onboarded)
  BY <1>3, <1>4
<1> QED BY <1>1, <1>4, <1>9, <1>11, <1>12, <1>13, <1>15, <1>16, <1>17, OneMoves

\* The tenancy the request made is written, and what was asked for stays.
LEMMA LeaseWritten ==
    ASSUME BookInv, NEW p \in Submissions, NEW here \in {"deadlines", "cheques", "redate"},
           NEW there \in {"cheques", "redate", "audit"}, Goto(p, here, there),
           NEW l \in TenancyRow, tenancy' = [tenancy EXCEPT ![req[p].tenancy] = l],
           UNCHANGED <<contact, property, held, onboarded, req>>,
           l.state = tenancy[req[p].tenancy].state, l.property = tenancy[req[p].tenancy].property,
           l.landlord = tenancy[req[p].tenancy].landlord,
           l.tenant = tenancy[req[p].tenancy].tenant, l.rent = tenancy[req[p].tenancy].rent,
           Advanced(p, tenancy[req[p].tenancy]) => Advanced(p, l)'
    PROVE  BookInv'
<1> DEFINE t == req[p].tenancy
<1>0. BookTypes /\ InHand(p) /\ req[p] \in RequestRow /\ PartiesKept(p) /\ PropertyKept(p)
      /\ TenancyKept(p) /\ tenancy \in [Tenancies -> TenancyRow]
  BY DEF BookInv, BookTypes, InHand
<1>1. /\ step[p] = here /\ step'[p] = there /\ DOMAIN step' = Submissions
      /\ \A q \in Submissions \ {p} : step'[q] = step[q]
  BY <1>0, Going
<1>2. t # Nobody /\ t \in Tenancies /\ Asked(p, tenancy[t]) /\ Advanced(p, tenancy[t])
  <2>1. t \in Tenancies \cup Blank
    BY <1>0, RequestFields
  <2> QED BY <1>0, <1>1, <2>1 DEF TenancyKept, Onboarding, Blank
<1>3. tenancy' \in [Tenancies -> TenancyRow] /\ tenancy'[t] = l
      /\ \A u \in Tenancies \ {t} : tenancy'[u] = tenancy[u]
  BY <1>0, <1>2
<1>4. Asked(p, l)' /\ Advanced(p, l)'
  BY <1>2 DEF Asked
<1> HIDE DEF t
<1>5. BookTypes'
  BY <1>0, <1>1, <1>3 DEF BookTypes
<1>6. BookGrows /\ BookKept(req'[p], req[p])
  BY DEF BookGrows, BookKept, Rest
<1>7. InHand(p)'
  <2>1. PartiesKept(p)'
    BY <1>0, <1>1 DEF PartiesKept, Placed, Onboarding, Agent
  <2>2. PropertyKept(p)'
    BY <1>0, <1>1 DEF PropertyKept, Placed, Onboarding, Agent
  <2>3. TenancyKept(p)'
    <3>1. req'[p].tenancy = t /\ tenancy'[req'[p].tenancy] = l
      BY <1>3 DEF t
    <3>2. l.state # "absent"
      BY <1>2 DEF Asked, t
    <3> QED BY <1>1, <1>2, <1>3, <1>4, <3>1, <3>2 DEF TenancyKept, Onboarding, Asked, Advanced
  <2> QED BY <1>1, <2>1, <2>2, <2>3 DEF InHand
<1>8. \A q \in Submissions \ {p} :
          req[q].tenancy # Nobody => tenancy'[req[q].tenancy] = tenancy[req[q].tenancy]
  <2> TAKE q \in Submissions \ {p}
  <2>1. req[q] \in RequestRow /\ Apart(p, q)
    BY <1>0 DEF BookInv, BookTypes
  <2>2. req[q].tenancy \in Tenancies \cup Blank
    BY <2>1, RequestFields
  <2>3. req[q].tenancy # t
    BY <1>2, <2>1 DEF Apart, t
  <2> QED BY <1>3, <2>2, <2>3 DEF Blank
<1>9. onboarded' = (IF step'[p] = "done" THEN onboarded \cup {req'[p].tenancy} ELSE onboarded)
  BY <1>1
<1> QED BY <1>1, <1>5, <1>6, <1>7, <1>8, <1>9, OneGoesOn

LEMMA RequestLease ==
    ASSUME BookInv, NEW p \in Submissions, step[p] \in Onboarding
    PROVE  tenancy[req[p].tenancy] \in TenancyRow /\ Asked(p, tenancy[req[p].tenancy])
           /\ Advanced(p, tenancy[req[p].tenancy]) /\ req[p].tenancy \in Tenancies
           /\ req[p].form.count \in Nat /\ req[p].form.rent \in Int
<1>1. req[p] \in RequestRow /\ tenancy \in [Tenancies -> TenancyRow] /\ TenancyKept(p)
  BY DEF BookInv, BookTypes, InHand
<1>2. req[p].tenancy \in Tenancies \cup Blank
  BY <1>1, RequestFields
<1>3. /\ req[p].tenancy # Nobody /\ Asked(p, tenancy[req[p].tenancy])
      /\ Advanced(p, tenancy[req[p].tenancy])
  BY <1>1 DEF TenancyKept
<1>4. req[p].form.count \in Nat /\ req[p].form.rent \in Int
  BY <1>1, RequestFields
<1> QED BY <1>1, <1>2, <1>3, <1>4 DEF Blank

LEMMA LeaseRow ==
    ASSUME NEW l \in TenancyRow
    PROVE  /\ \A d \in {"never", "term", "cheques"} :
                LET m == [l EXCEPT !.dated = d] IN
                m \in TenancyRow /\ m.state = l.state /\ m.property = l.property /\ m.rent = l.rent
                    /\ m.landlord = l.landlord /\ m.tenant = l.tenant /\ m.cheques = l.cheques
                    /\ m.dated = d
           /\ \A s \in Seq(Int) :
                LET m == [l EXCEPT !.cheques = s] IN
                m \in TenancyRow /\ m.state = l.state /\ m.property = l.property /\ m.rent = l.rent
                    /\ m.landlord = l.landlord /\ m.tenant = l.tenant /\ m.cheques = s
                    /\ m.dated = l.dated
  BY DEF TenancyRow

LEMMA RegenerateStep ==
    ASSUME BookInv, NEW p \in Submissions, RegenerateDeadlines(p)
    PROVE  BookInv'
<1> DEFINE t == req[p].tenancy  m == [tenancy[t] EXCEPT !.dated = "term"]
<1>1. PICK there \in {"cheques", "audit"} :
        there = (IF req[p].form.count > 0 THEN "cheques" ELSE "audit") /\ Goto(p, "deadlines", there)
  BY DEF RegenerateDeadlines
<1>2. step[p] = "deadlines" /\ step'[p] = there
  BY <1>1, Going DEF BookInv
<1>3. tenancy[t] \in TenancyRow /\ Advanced(p, tenancy[t]) /\ req[p].form.count \in Nat
      /\ t \in Tenancies
  BY <1>2, RequestLease DEF Onboarding
<1>4. tenancy' = [tenancy EXCEPT ![t] = m] /\ UNCHANGED <<contact, property, held, onboarded, req>>
  BY DEF RegenerateDeadlines
<1>5. m \in TenancyRow /\ m.state = tenancy[t].state /\ m.property = tenancy[t].property
      /\ m.rent = tenancy[t].rent /\ m.landlord = tenancy[t].landlord /\ m.tenant = tenancy[t].tenant
      /\ m.cheques = tenancy[t].cheques /\ m.dated = "term"
  BY <1>3, LeaseRow
<1> HIDE DEF m
<1>9. PICK l \in TenancyRow : l = m
  BY <1>5
<1>6. Advanced(p, l)'
  BY <1>9, <1>1, <1>2, <1>3, <1>4, <1>5 DEF Advanced
<1>7. there \in {"cheques", "redate", "audit"} /\ "deadlines" \in {"deadlines", "cheques", "redate"}
  OBVIOUS
<1>8. Goto(p, "deadlines", there)
  BY <1>1
<1> QED BY <1>9, <1>4, <1>5, <1>6, <1>7, <1>8, LeaseWritten

LEMMA SetPaymentScheduleStep ==
    ASSUME BookInv, NEW p \in Submissions, SetPaymentSchedule(p)
    PROVE  BookInv'
<1> DEFINE t == req[p].tenancy
           even == evenChequeSchedule(req[p].form.rent, req[p].form.count)
           m == [tenancy[t] EXCEPT !.cheques = even]
<1>1. Goto(p, "cheques", "redate")
  BY DEF SetPaymentSchedule
<1>2. step[p] = "cheques" /\ step'[p] = "redate"
  BY <1>1, Going DEF BookInv
<1>3. tenancy[t] \in TenancyRow /\ Advanced(p, tenancy[t]) /\ Asked(p, tenancy[t])
      /\ req[p].form.count \in Nat /\ req[p].form.rent \in Int
  BY <1>2, RequestLease DEF Onboarding
<1>4. req[p].form.count > 0 /\ tenancy[t].rent = req[p].form.rent
  BY <1>2, <1>3 DEF Advanced, Asked
<1>5. even \in Seq(Int)
  BY <1>3, <1>4, ScheduleSums
<1>6. tenancy' = [tenancy EXCEPT ![t] = m] /\ UNCHANGED <<contact, property, held, onboarded, req>>
  BY DEF SetPaymentSchedule
<1>7. m \in TenancyRow /\ m.state = tenancy[t].state /\ m.property = tenancy[t].property
      /\ m.rent = tenancy[t].rent /\ m.landlord = tenancy[t].landlord /\ m.tenant = tenancy[t].tenant
      /\ m.cheques = even
  <2>1. PICK l \in TenancyRow : l = tenancy[t]
    BY <1>3
  <2>2. PICK s \in Seq(Int) : s = even
    BY <1>5
  <2>3. LET n == [l EXCEPT !.cheques = s] IN
          n \in TenancyRow /\ n.state = l.state /\ n.property = l.property /\ n.rent = l.rent
            /\ n.landlord = l.landlord /\ n.tenant = l.tenant /\ n.cheques = s
    BY LeaseRow, Zenon
  <2> HIDE DEF even
  <2> QED BY <2>1, <2>2, <2>3
<1> HIDE DEF m
<1>9. PICK l \in TenancyRow : l = m
  BY <1>7
<1>8. Advanced(p, l)'
  BY <1>9, <1>2, <1>4, <1>6, <1>7 DEF Advanced
<1> QED BY <1>1, <1>9, <1>6, <1>7, <1>8, LeaseWritten

LEMMA RedateStep ==
    ASSUME BookInv, NEW p \in Submissions, Redate(p)
    PROVE  BookInv'
<1> DEFINE t == req[p].tenancy  m == [tenancy[t] EXCEPT !.dated = "cheques"]
<1>1. Goto(p, "redate", "audit")
  BY DEF Redate
<1>2. step[p] = "redate" /\ step'[p] = "audit"
  BY <1>1, Going DEF BookInv
<1>3. tenancy[t] \in TenancyRow /\ Advanced(p, tenancy[t])
  BY <1>2, RequestLease DEF Onboarding
<1>4. tenancy' = [tenancy EXCEPT ![t] = m] /\ UNCHANGED <<contact, property, held, onboarded, req>>
  BY DEF Redate
<1>5. m \in TenancyRow /\ m.state = tenancy[t].state /\ m.property = tenancy[t].property
      /\ m.rent = tenancy[t].rent /\ m.landlord = tenancy[t].landlord /\ m.tenant = tenancy[t].tenant
      /\ m.cheques = tenancy[t].cheques /\ m.dated = "cheques"
  BY <1>3, LeaseRow
<1> HIDE DEF m
<1>9. PICK l \in TenancyRow : l = m
  BY <1>5
<1>6. Advanced(p, l)'
  BY <1>9, <1>2, <1>3, <1>4, <1>5 DEF Advanced
<1> QED BY <1>1, <1>9, <1>4, <1>5, <1>6, LeaseWritten

\* The whole form is audited, once it is all there.
LEMMA AuditStep ==
    ASSUME BookInv, NEW p \in Submissions, Audit(p)
    PROVE  BookInv'
<1>0. BookTypes /\ InHand(p) /\ PartiesKept(p) /\ PropertyKept(p) /\ TenancyKept(p)
  BY DEF BookInv, InHand
<1>1. /\ step[p] = "audit" /\ step'[p] = "done" /\ DOMAIN step' = Submissions
      /\ \A q \in Submissions \ {p} : step'[q] = step[q]
  BY <1>0, Going DEF Audit
<1>2. onboarded' = onboarded \cup {req[p].tenancy} /\ UNCHANGED <<client, contact, property, tenancy, held, req>>
  BY DEF Audit
<1>3. req[p].tenancy \in Tenancies
  BY <1>1, RequestLease DEF Onboarding
<1>4. BookTypes'
  BY <1>0, <1>1, <1>2, <1>3 DEF BookTypes
<1>5. BookGrows /\ BookKept(req'[p], req[p])
  BY <1>2 DEF BookGrows, BookKept, Rest
<1>6. InHand(p)'
  <2>1. PartiesKept(p)'
    BY <1>0, <1>1, <1>2 DEF PartiesKept, Placed, Onboarding, Agent
  <2>2. PropertyKept(p)'
    BY <1>0, <1>1, <1>2 DEF PropertyKept, Placed, Onboarding, Agent
  <2>3. TenancyKept(p)'
    BY <1>0, <1>1, <1>2 DEF TenancyKept, Onboarding, Asked, Advanced
  <2> QED BY <1>1, <2>1, <2>2, <2>3 DEF InHand
<1> QED BY <1>1, <1>2, <1>4, <1>5, <1>6, OneGoesOn

LEMMA DiesStep ==
    ASSUME BookInv, NEW p \in Submissions, Dies(p)
    PROVE  BookInv'
<1>0. BookTypes /\ InHand(p) /\ PartiesKept(p) /\ PropertyKept(p) /\ TenancyKept(p)
  BY DEF BookInv, InHand
<1>1. /\ step[p] \notin {"idle", "done"} /\ step'[p] = "dead" /\ DOMAIN step' = Submissions
      /\ \A q \in Submissions \ {p} : step'[q] = step[q]
  BY <1>0 DEF Dies, BookTypes
<1>2. UNCHANGED <<client, contact, property, tenancy, held, onboarded, req>>
  BY DEF Dies
<1>3. BookTypes'
  BY <1>0, <1>1, <1>2 DEF BookTypes
<1>4. BookGrows /\ BookKept(req'[p], req[p])
  BY <1>2 DEF BookGrows, BookKept, Rest
<1>5. InHand(p)'
  <2>1. PartiesKept(p)'
    BY <1>0, <1>1, <1>2 DEF PartiesKept, Placed, Onboarding, Agent
  <2>2. PropertyKept(p)'
    BY <1>0, <1>1, <1>2 DEF PropertyKept, Placed, Onboarding, Agent
  <2>3. TenancyKept(p)'
    BY <1>0, <1>1, <1>2 DEF TenancyKept, Onboarding
  <2> QED BY <1>1, <2>1, <2>2, <2>3 DEF InHand
<1> QED BY <1>1, <1>2, <1>3, <1>4, <1>5, OneGoesOn

-----------------------------------------------------------------------------
(* The rows on their own forms, and every step *)

LEMMA OwnForms ==
    ASSUME BookInv,
           \/ CreateContact
           \/ \E c \in Clients : CreateClient(c) \/ ArchiveClient(c)
           \/ \E k \in Contacts : ArchiveContact(k)
           \/ \E x \in Properties : ArchiveProperty(x) \/ Assign(x)
    PROVE  BookInv'
<1>0. BookTypes
  BY DEF BookInv
<1>1. CASE CreateContact
  <2>1. PICK k \in Contacts : k = Fresh(Contacts, InBook)
    BY <1>1, FreshIs DEF CreateContact
  <2>2. contact' = [contact EXCEPT ![k] = "live"] /\ UNCHANGED <<property, tenancy, held, onboarded, step, req>>
    BY <1>1, <2>1 DEF CreateContact
  <2>3. BookTypes' /\ BookGrows
    BY <1>0, <2>2 DEF BookTypes, BookGrows, RowStates
  <2> QED BY <2>2, <2>3, NoneMoves
<1>2. ASSUME NEW c \in Clients, CreateClient(c) \/ ArchiveClient(c) PROVE BookInv'
  <2>1. UNCHANGED <<contact, property, tenancy, held, onboarded, step, req>>
    BY <1>2 DEF CreateClient, ArchiveClient
  <2>2. BookTypes' /\ BookGrows
    BY <1>0, <2>1 DEF BookTypes, BookGrows
  <2> QED BY <2>1, <2>2, NoneMoves
<1>3. ASSUME NEW k \in Contacts, ArchiveContact(k) PROVE BookInv'
  <2>1. contact' = [contact EXCEPT ![k] = "archived"] /\ UNCHANGED <<property, tenancy, held, onboarded, step, req>>
    BY <1>3 DEF ArchiveContact
  <2>2. BookTypes' /\ BookGrows
    BY <1>0, <2>1 DEF BookTypes, BookGrows, RowStates
  <2> QED BY <2>1, <2>2, NoneMoves
<1>4. ASSUME NEW x \in Properties, ArchiveProperty(x) PROVE BookInv'
  <2>1. property' = [property EXCEPT ![x] = [property[x] EXCEPT !.state = "archived"]]
        /\ UNCHANGED <<contact, tenancy, held, onboarded, step, req>>
    BY <1>4 DEF ArchiveProperty
  <2>2. PICK r \in [state : RowStates, client : Clients \cup Blank] : r = property[x]
    BY <1>0 DEF BookTypes
  <2>3. [r EXCEPT !.state = "archived"] \in [state : RowStates, client : Clients \cup Blank]
        /\ [r EXCEPT !.state = "archived"].state = "archived"
        /\ [r EXCEPT !.state = "archived"].client = r.client
    BY <2>2 DEF RowStates
  <2>4. PICK n \in [state : RowStates, client : Clients \cup Blank] :
            n.state = "archived" /\ n.client = r.client /\ property' = [property EXCEPT ![x] = n]
    BY <2>1, <2>2, <2>3
  <2>5. property \in [Properties -> [state : RowStates, client : Clients \cup Blank]]
    BY <1>0 DEF BookTypes
  <2>6. BookTypes'
    <3>1. property' \in [Properties -> [state : RowStates, client : Clients \cup Blank]]
      BY <2>4, <2>5
    <3> QED BY <1>0, <2>1, <3>1 DEF BookTypes
  <2>7. BookGrows
    BY <2>1, <2>2, <2>4, <2>5 DEF BookGrows
  <2> QED BY <2>1, <2>6, <2>7, NoneMoves
<1>5. ASSUME NEW x \in Properties, Assign(x) PROVE BookInv'
  <2>1. held' = held \cup {x} /\ UNCHANGED <<contact, property, tenancy, onboarded, step, req>>
    BY <1>5 DEF Assign
  <2>2. BookTypes' /\ BookGrows
    BY <1>0, <2>1 DEF BookTypes, BookGrows
  <2> QED BY <2>1, <2>2, NoneMoves
<1> QED BY <1>1, <1>2, <1>3, <1>4, <1>5

LEMMA BookInvStep ==
    ASSUME BookInv, [RegistryNext]_registryVars
    PROVE  BookInv'
<1>1. ASSUME NEW p \in Submissions, NEW role \in {"MANAGER", "MANAGING_AGENT"}, NEW form \in Forms,
             Submit(p, role, form)
      PROVE  BookInv'
  BY <1>1, SubmitStep
<1>2. ASSUME NEW p \in Submissions,
             \/ Landlord(p) \/ Tenant(p) \/ UseProperty(p) \/ CreateProperty(p) \/ Claim(p)
             \/ CreateTenancy(p) \/ RegenerateDeadlines(p) \/ SetPaymentSchedule(p) \/ Redate(p)
             \/ Audit(p) \/ Dies(p)
      PROVE  BookInv'
  BY <1>2, LandlordStep, TenantStep, UsePropertyStep, CreatePropertyStep, ClaimStep,
     CreateTenancyStep, RegenerateStep, SetPaymentScheduleStep, RedateStep, AuditStep, DiesStep
<1>3. CASE UNCHANGED registryVars
  <2>1. UNCHANGED <<client, contact, property, tenancy, held, onboarded, step, req>>
    BY <1>3 DEF registryVars
  <2>2. BookTypes' /\ BookGrows
    BY <2>1 DEF BookInv, BookTypes, BookGrows
  <2> QED BY <2>1, <2>2, NoneMoves
<1> QED BY <1>1, <1>2, <1>3, OwnForms DEF RegistryNext

LEMMA BookInvInit ==
    ASSUME RegistryInit
    PROVE  BookInv
<1>1. NoRequest \in RequestRow
  BY DEF NoRequest, NoForm, RequestRow, FormRow, Blank
<1>2. NoTenancy \in TenancyRow
  <2>1. <<>> \in Seq(Int)
    OBVIOUS
  <2> QED BY <2>1 DEF NoTenancy, TenancyRow, Blank
<1>3. NoProperty \in [state : RowStates, client : Clients \cup Blank]
  BY DEF NoProperty, RowStates, Blank
<1>4. BookTypes
  BY <1>1, <1>2, <1>3 DEF RegistryInit, BookTypes, RowStates
<1>5. \A p \in Submissions : step[p] = "idle" /\ req[p] = NoRequest
  BY DEF RegistryInit
<1>6. /\ NoRequest.landlord = Nobody /\ NoRequest.tenant = Nobody /\ NoRequest.property = Nobody
      /\ NoRequest.tenancy = Nobody /\ NoRequest.book = {}
  BY DEF NoRequest
<1>7. ASSUME NEW p \in Submissions PROVE InHand(p)
  <2>1. PartiesKept(p)
    BY <1>5, <1>6 DEF PartiesKept, Placed, Onboarding
  <2>2. PropertyKept(p)
    BY <1>5, <1>6 DEF PropertyKept, Placed, Onboarding
  <2>3. TenancyKept(p)
    BY <1>5, <1>6 DEF TenancyKept, Onboarding
  <2> QED BY <1>5, <2>1, <2>2, <2>3 DEF InHand
<1>8. \A p, q \in Submissions : Apart(p, q)
  BY <1>5, <1>6 DEF Apart
<1>9. onboarded = {req[p].tenancy : p \in {q \in Submissions : step[q] = "done"}}
  <2>1. onboarded = {}
    BY DEF RegistryInit
  <2>2. {q \in Submissions : step[q] = "done"} = {}
    BY <1>5
  <2> QED BY <2>1, <2>2
<1> QED BY <1>4, <1>7, <1>8, <1>9 DEF BookInv

-----------------------------------------------------------------------------
(* What the audit of the whole form says *)

LEMMA NamedKept ==
    ASSUME BookInv, NEW p \in Submissions, step[p] = "done"
    PROVE  AsNamed(p, req[p].tenancy)
<1> DEFINE t == req[p].tenancy
<1>1. PartiesKept(p) /\ PropertyKept(p)
  BY DEF BookInv, InHand
<1>2. Asked(p, tenancy[t])
  BY RequestLease DEF Onboarding
<1>3. Kept(req[p].landlord, req[p].form.landlord) /\ Kept(req[p].tenant, req[p].form.tenant)
      /\ (req[p].landlord # Nobody => contact[req[p].landlord] # "absent")
      /\ (req[p].tenant # Nobody => contact[req[p].tenant] # "absent")
  BY <1>1 DEF PartiesKept, Placed, Onboarding
<1>4. \A q \in Submissions \ {p} : Apart(p, q)
  BY DEF BookInv
<1>5. ASSUME NEW side \in {"landlord", "tenant"}
      PROVE  LET k == tenancy[t][side]  f == req[p].form[side] IN
        /\ f # Anew => k = f
        /\ f = Anew => k # Nobody /\ \A q \in Submissions \ {p} : req[q].form[side] = Anew => req[q][side] # k
        /\ k # Nobody => contact[k] # "absent"
  <2>1. CASE side = "landlord"
    BY <1>2, <1>3, <1>4, <2>1 DEF Asked, Kept, Apart
  <2>2. CASE side = "tenant"
    BY <1>2, <1>3, <1>4, <2>2 DEF Asked, Kept, Apart
  <2> QED BY <2>1, <2>2
<1>6. LET x == tenancy[t].property  f == req[p].form IN
        /\ property[x].state # "absent"
        /\ f.property # Anew => x = f.property
        /\ f.property = Anew => property[x].client = f.client
        /\ Agent(p) => x \in held
  BY <1>1, <1>2 DEF Asked, PropertyKept, Placed, Onboarding
<1> QED BY <1>5, <1>6 DEF AsNamed

LEMMA ScheduleKept ==
    ASSUME BookInv, NEW p \in Submissions, step[p] = "done"
    PROVE  /\ Scheduled(p, req[p].tenancy)
           /\ tenancy[req[p].tenancy].dated = IF req[p].form.count > 0 THEN "cheques" ELSE "term"
<1> DEFINE l == tenancy[req[p].tenancy]  count == req[p].form.count
<1>1. l \in TenancyRow /\ Advanced(p, l) /\ count \in Nat
  BY RequestLease DEF Onboarding
<1>2. l.rent \in Int
  BY <1>1 DEF TenancyRow
<1>3. CASE count > 0
  <2>1. l.cheques = evenChequeSchedule(l.rent, count) /\ l.dated = "cheques"
    BY <1>1, <1>3 DEF Advanced
  <2>2. /\ Len(l.cheques) = Min2(count, 12) /\ Total(l.cheques) = l.rent
        /\ \A i, j \in DOMAIN l.cheques : l.cheques[i] - l.cheques[j] <= 6
    <3> HIDE DEF l, count
    <3> QED BY <1>1, <1>2, <1>3, <2>1, ScheduleSums
  <2> QED BY <1>3, <2>1, <2>2 DEF Scheduled
<1>4. CASE ~(count > 0)
  <2>1. l.cheques = <<>> /\ l.dated = "term"
    BY <1>1, <1>4 DEF Advanced
  <2>2. Min2(count, 12) = 0 /\ Len(l.cheques) = 0 /\ DOMAIN l.cheques = {}
    BY <1>1, <1>4, <2>1 DEF Min2
  <2> QED BY <1>4, <2>1, <2>2 DEF Scheduled
<1> QED BY <1>3, <1>4

LEMMA BookIsWhole ==
    ASSUME BookInv
    PROVE  OnboardedWhole
<1> SUFFICES ASSUME NEW p \in Submissions
             PROVE  LET t == req[p].tenancy IN
        /\ t \in onboarded <=> step[p] = "done"
        /\ step[p] = "done" =>
            AsNamed(p, t) /\ Scheduled(p, t)
                /\ tenancy[t].dated = IF req[p].form.count > 0 THEN "cheques" ELSE "term"
        /\ t # Nobody /\ t \notin onboarded =>
            step[p] \in {"deadlines", "cheques", "redate", "audit", "dead"}
        /\ step[p] = "refused" =>
            /\ t = Nobody /\ req[p].property = Nobody
            /\ Agent(p) => \A side \in {"landlord", "tenant"} : req[p][side] \in {Nobody, req[p].form[side]}
  BY DEF OnboardedWhole
<1> DEFINE t == req[p].tenancy
<1>1. PartiesKept(p) /\ PropertyKept(p) /\ TenancyKept(p)
      /\ \A q \in Submissions \ {p} : Apart(q, p) /\ TenancyKept(q)
  BY DEF BookInv, InHand
<1>2. t \in onboarded <=> step[p] = "done"
  <2>1. step[p] = "done" => t \in onboarded
    BY DEF BookInv
  <2>2. ASSUME t \in onboarded PROVE step[p] = "done"
    <3>1. PICK q \in Submissions : step[q] = "done" /\ req[q].tenancy = t
      BY <2>2 DEF BookInv
    <3>2. q # p => FALSE
      BY <1>1, <3>1 DEF Apart, TenancyKept, Onboarding
    <3> QED BY <3>1, <3>2
  <2> QED BY <2>1, <2>2
<1>3. t # Nobody => step[p] \in Onboarding \cup {"dead"}
  BY <1>1 DEF TenancyKept
<1>4. step[p] = "refused" => t = Nobody /\ req[p].property = Nobody
  BY <1>1, <1>3 DEF PropertyKept, Onboarding
<1>5. Agent(p) => \A side \in {"landlord", "tenant"} : req[p][side] \in {Nobody, req[p].form[side]}
  BY <1>1 DEF PartiesKept
<1>6. step[p] = "done" =>
            AsNamed(p, t) /\ Scheduled(p, t)
                /\ tenancy[t].dated = IF req[p].form.count > 0 THEN "cheques" ELSE "term"
  BY NamedKept, ScheduleKept
<1> QED BY <1>2, <1>3, <1>4, <1>5, <1>6 DEF Onboarding

\* Whatever the ids, the forms (rents of any size, cheques of any number) and
\* however the requests interleave and die, the audit of a whole onboarding is
\* true of the tenancy it names, what lacks some of it belongs to a request under
\* way or dead, and a refusal leaves no tenancy, no property and, to an agent, no
\* contact (onboarding.ts:65-155, payments.ts:34-50, properties.ts:75-108).
THEOREM OnboardedWholeHolds == RegistrySpec => []OnboardedWhole
<1>1. RegistryInit => BookInv
  BY BookInvInit
<1>2. BookInv /\ [RegistryNext]_registryVars => BookInv'
  BY BookInvStep
<1>3. BookInv => OnboardedWhole
  BY BookIsWhole
<1> QED BY <1>1, <1>2, <1>3, PTL DEF RegistrySpec

=============================================================================
