------------------------------ MODULE Imports ------------------------------
(***************************************************************************)
(* Import batches: rows from a CSV file or from a reviewed extraction are  *)
(* checked for conflicts, committed to properties, tenancies, contacts and *)
(* payment items in one transaction, and rolled back in another.           *)
(*                                                                         *)
(* A transaction is READ COMMITTED: it reads what is committed and what it *)
(* made itself, and a row it updates waits for the other transaction that  *)
(* updated it.  A commit only makes records, so its draft is a set of new  *)
(* ones; a rollback only archives, so its draft is a set of ids.           *)
(***************************************************************************)
EXTENDS Integers, FiniteSets

CONSTANTS
    Batches,     \* import batches
    Rows,        \* import rows
    BatchOf,     \* the batch of a row
    Data,        \* the mapped data of a row
    Jobs,        \* extraction jobs
    DocOf,       \* the document of a job
    Docs,        \* documents
    FileOf,      \* fileDocId of a batch, None for a CSV file
    Found,       \* the fields the provider finds in the document of a job
    OnRecord,    \* the contacts, properties and tenancies there at the start
    Requests,    \* requests of operators
    MaxCommits,  \* how often a batch may be committed
    None

CREATE_NEW_CONTACT == "__create_new__"

\* The id of what an import makes: its kind, the row and the request it is made
\* by, and how many commits of the batch that request knew of.
Ids == {"OWNER", "TENANT", "Property", "Tenancy", "PaymentItem"} \X Rows \X Requests \X Nat

ASSUME ImportsAssumption ==
    /\ BatchOf \in [Rows -> Batches]
    /\ DocOf \in [Jobs -> Docs]
    /\ FileOf \in [Batches -> Docs \cup {None}]
    /\ \A r, s \in Rows : BatchOf[r] = BatchOf[s] /\ FileOf[BatchOf[r]] # None => r = s
    /\ \A x \in OnRecord : x.id[2] \notin Rows
    /\ \A t \in OnRecord : t.type = "Tenancy" =>
            {t.landlord, t.tenant} \subseteq {c.id : c \in OnRecord} \cup {None}
    /\ None \notin Docs \cup Ids
    /\ Found \in [Jobs -> SUBSET STRING]
    /\ MaxCommits \in Nat

VARIABLES
    batch,      \* status of each batch
    row,        \* status of each row and what it made
    record,     \* contacts, properties, tenancies, payment items, archived ones too
    archived,   \* ids of archived records and of cancelled payment items
    doc,        \* what each document is attached to
    due,        \* tenancies that have open deadlines
    flagged,    \* tenancies with an overlap flag
    job,        \* status of each extraction job
    attached,   \* contacts in use outside properties and tenancies
    commits,    \* IMPORT_COMMITTED events of each batch
    at,         \* where each request is
    work,       \* what each request has read and written
    crossed     \* batches whose commits and rollbacks had company

sheet == <<batch, row, commits>>
directory == <<record, archived, doc, attached>>
derived == <<due, flagged>>
importVars == <<sheet, directory, derived, job, at, work, crossed>>

Idle == [batch |-> None, job |-> None, todo |-> {}, done |-> {}, seen |-> {}, nth |-> 0,
         target |-> None, made |-> {}, moves |-> {}, conflicts |-> {}]

ImportsInit ==
    /\ batch = [b \in Batches |-> "absent"]
    /\ row = [r \in Rows |-> [status |-> "absent", reason |-> None, refs |-> {}, moves |-> {}]]
    /\ record = OnRecord /\ archived = {} /\ attached = {}
    /\ doc = [d \in Docs |-> None]
    /\ due = {} /\ flagged = {}
    /\ job = [j \in Jobs |-> "PENDING"]
    /\ commits = [b \in Batches |-> 0]
    /\ at = [p \in Requests |-> "idle"]
    /\ work = [p \in Requests |-> Idle]
    /\ crossed = {}

-----------------------------------------------------------------------------
(* Steps of a request *)

RowsOf(b) == {r \in Rows : BatchOf[r] = b}
Go(p, from, to) == at[p] = from /\ at' = [at EXCEPT ![p] = to]
Keep(p, w) == work' = [work EXCEPT ![p] = w]
Return(p, from) == Go(p, from, "idle") /\ Keep(p, Idle)

\* From its first read to its last derivation, two calls that write the same
\* records, or a call that still adds the rows another one commits.
Writing == {"row", "write", "derive", "deriveWrite", "undo", "undone"}
Adding(q, b) == at[q] \in {"add", "create", "detect", "conflicts"} /\ work[q].batch = b
Company(p, b) ==
    LET beside == {q \in Requests \ {p} : at[q] \in Writing \/ Adding(q, b)}
    IN  crossed' = IF beside = {} THEN crossed
                   ELSE crossed \cup {b} \cup {work[q].batch : q \in beside}

-----------------------------------------------------------------------------
(* parseCsvRows: a line with a missing or malformed column is left out *)

Required == {"community", "startDate", "endDate", "annualRent"}
Numeric == {"bedrooms", "annualRent", "depositAmount", "noticePeriodDays"}

\* cells says of each column whether it is empty, a number or other text.
Must(cells, key) == cells[key] # "empty"
Num(cells, key) == cells[key] # "text"
Parses(cells) == /\ \A key \in Required : Must(cells, key)
                 /\ \A key \in Numeric : Num(cells, key)

-----------------------------------------------------------------------------
(* Extraction *)

\* A run reads PENDING, calls the provider, and writes the job by id.
Extract(p, j) ==
    /\ job[j] = "PENDING"
    /\ Go(p, "idle", "extract") /\ Keep(p, [Idle EXCEPT !.job = j])
    /\ UNCHANGED <<sheet, directory, derived, job, crossed>>

Extracted(p) ==
    /\ Return(p, "extract")
    /\ \E s \in {"EXTRACTED", "FAILED"} : job' = [job EXCEPT ![work[p].job] = s]
    /\ UNCHANGED <<sheet, directory, derived, crossed>>

\* rejectExtraction: whatever the job's status.
Reject(j) ==
    /\ job' = [job EXCEPT ![j] = "REJECTED"]
    /\ UNCHANGED <<sheet, directory, derived, at, work, crossed>>

\* A document that names parties and a place may be a quotation: a lease has a term.
IsTenancyShaped(fields) == {"startDate", "endDate"} \subseteq fields \/ "ejariNo" \in fields

Reviewable(j) == job[j] \in {"EXTRACTED", "REVIEWING"} /\ IsTenancyShaped(Found[j])

\* reviewAndCommit up to the batch it makes for the document.
Review(p, j, b) ==
    /\ Reviewable(j)
    /\ batch[b] = "absent" /\ FileOf[b] = DocOf[j]
    /\ batch' = [batch EXCEPT ![b] = "UPLOADED"]
    /\ Go(p, "idle", "add") /\ Keep(p, [Idle EXCEPT !.batch = b, !.job = j, !.todo = RowsOf(b)])
    /\ UNCHANGED <<row, commits, directory, derived, job, crossed>>

-----------------------------------------------------------------------------
(* Rows and conflicts *)

\* importCsvAction up to the batch it makes.
Upload(p, b) ==
    /\ batch[b] = "absent" /\ FileOf[b] = None
    /\ batch' = [batch EXCEPT ![b] = "UPLOADED"]
    /\ Go(p, "idle", "add")
    /\ Keep(p, [Idle EXCEPT !.batch = b, !.todo = {r \in RowsOf(b) : Parses(Data[r].cells)}])
    /\ UNCHANGED <<row, commits, directory, derived, job, crossed>>

Final(b) == batch[b] \in {"COMMITTED", "ROLLED_BACK"}

AddRows(p) ==
    /\ Go(p, "add", "create")
    /\ ~Final(work[p].batch)
    /\ UNCHANGED <<sheet, directory, derived, job, work, crossed>>

AddRefused(p) ==
    /\ Return(p, "add")
    /\ Final(work[p].batch)
    /\ UNCHANGED <<sheet, directory, derived, job, crossed>>

\* One statement per row.
CreateRow(p, r) ==
    /\ at[p] = "create" /\ r \in work[p].todo
    /\ row' = [row EXCEPT ![r].status = "PENDING"]
    /\ Keep(p, [work[p] EXCEPT !.todo = @ \ {r}])
    /\ UNCHANGED <<batch, commits, directory, derived, job, at, crossed>>

\* The batch is written by id, whatever became of it meanwhile.
MarkMapped(p) ==
    /\ Go(p, "create", "detect")
    /\ work[p].todo = {}
    /\ batch' = [batch EXCEPT ![work[p].batch] = "MAPPED"]
    /\ UNCHANGED <<row, commits, directory, derived, job, work, crossed>>

\* The rows detectConflicts goes through.
DetectRead(p) ==
    /\ Go(p, "detect", "conflicts")
    /\ Keep(p, [work[p] EXCEPT
            !.todo = {r \in RowsOf(work[p].batch) : row[r].status \in {"PENDING", "CONFLICT"}}])
    /\ UNCHANGED <<sheet, directory, derived, job, crossed>>

\* The live records of a type, as a transaction sees them.
Seen(p, type) == {x \in record \cup work[p].made : x.type = type /\ x.id \notin archived}
SamePlace(x, d) == x.site = d.site /\ x.building = d.building
Meets(t, d) == t.from <= d.to /\ t.to >= d.from

EjariTaken(p, d) ==
    /\ d.ejari # None
    /\ d.ejari \in work[p].seen \/ \E t \in Seen(p, "Tenancy") : t.ejari = d.ejari

\* findFirst may return any live property at the place: only its tenancies are looked at.
Reasons(p, d) ==
    LET here == {x \in Seen(p, "Property") : SamePlace(x, d)}
        Let(x) == \E t \in Seen(p, "Tenancy") : t.property = x.id /\ Meets(t, d)
    IN  IF EjariTaken(p, d) THEN {"ejari"}
        ELSE IF here = {} THEN {None}
        ELSE {IF Let(x) THEN "overlap" ELSE None : x \in here}

\* The row is written by id too.
Detect(p, r) ==
    /\ at[p] = "conflicts" /\ r \in work[p].todo
    /\ \E reason \in Reasons(p, Data[r]) :
            row' = [row EXCEPT ![r].status = IF reason = None THEN "PENDING" ELSE "CONFLICT",
                               ![r].reason = reason]
    /\ Keep(p, [work[p] EXCEPT !.todo = @ \ {r}, !.seen = @ \cup {Data[r].ejari}])
    /\ UNCHANGED <<batch, commits, directory, derived, job, at, crossed>>

\* The CSV form ends here; a review goes on to commit unless a row conflicts.
Detected(p) ==
    /\ at[p] = "conflicts" /\ work[p].todo = {}
    /\ IF work[p].job # None /\ \A r \in RowsOf(work[p].batch) : row[r].status # "CONFLICT"
       THEN Go(p, "conflicts", "open") /\ UNCHANGED work
       ELSE Return(p, "conflicts")
    /\ UNCHANGED <<sheet, directory, derived, job, crossed>>

-----------------------------------------------------------------------------
(* commitImportBatch *)

\* The batch and its rows are read before the transaction.
CommitRead(p, b) ==
    /\ at[p] = "idle" \/ (at[p] = "open" /\ work[p].batch = b)
    /\ batch[b] # "absent" /\ ~Final(b)
    /\ commits[b] < MaxCommits
    /\ at' = [at EXCEPT ![p] = "row"]
    /\ Keep(p, [work[p] EXCEPT
            !.batch = b, !.nth = commits[b],
            !.todo = {r \in RowsOf(b) : row[r].status \in {"PENDING", "ACCEPTED"}},
            !.conflicts = {r \in RowsOf(b) : row[r].reason = "overlap" /\ row[r].status = "CONFLICT"}])
    /\ Company(p, b)
    /\ UNCHANGED <<sheet, directory, derived, job>>

CommitRefused(p) ==
    /\ Return(p, "open")
    /\ Final(work[p].batch)
    /\ UNCHANGED <<sheet, directory, derived, job, crossed>>

New(p, type, r) == <<type, r, p, work[p].nth>>

\* resolveImportParty: the contact a party is bound to, a new one, None if the
\* row names nobody; no outcome when the pick is refused.
Bound(p, kind, r) ==
    LET party == Data[r][kind]
        Having(field, v) ==
            {x.id : x \in {y \in Seen(p, "Contact") : y.kind = kind /\ y[field] = v}}
        Unique(field) == party.pick = None /\ party[field] # None
                         /\ Cardinality(Having(field, party[field])) = 1
    IN  CASE party.pick \notin {None, CREATE_NEW_CONTACT} -> Having("id", party.pick)
          [] Unique("emiratesId") -> Having("emiratesId", party.emiratesId)
          [] ~Unique("emiratesId") /\ Unique("name") -> Having("name", party.name)
          [] OTHER -> {IF party.name = None THEN None ELSE New(p, kind, r)}

\* The property picked, else one at the place, else a new one.
PlaceOf(p, r) ==
    LET d == Data[r]
        picked == {x \in Seen(p, "Property") : x.id = d.propertyId}
        here == {x \in Seen(p, "Property") : SamePlace(x, d)}
        found == IF picked # {} THEN picked ELSE here
    IN  IF found = {} THEN {New(p, "Property", r)} ELSE {x.id : x \in found}

\* What a row makes when its parties are o and t and its property is place.
Made(p, r, o, t, place) ==
    LET d == Data[r]
        Contact(kind) == [type |-> "Contact", id |-> New(p, kind, r), kind |-> kind,
                          name |-> d[kind].name, emiratesId |-> d[kind].emiratesId]
        Property == [type |-> "Property", id |-> place, site |-> d.site, building |-> d.building,
                     owner |-> o]
        Tenancy == [type |-> "Tenancy", id |-> New(p, "Tenancy", r), property |-> place,
                    landlord |-> o, tenant |-> t, ejari |-> d.ejari, from |-> d.from, to |-> d.to]
        Item == [type |-> "PaymentItem", id |-> New(p, "PaymentItem", r),
                 tenancy |-> New(p, "Tenancy", r)]
    IN  {Tenancy}
        \cup {Contact(kind) : kind \in {k \in {"OWNER", "TENANT"} : New(p, k, r) \in {o, t}}}
        \cup (IF place = New(p, "Property", r) THEN {Property} ELSE {})
        \cup (IF d.scheduled THEN {Item} ELSE {})

NotAttached(file, place) == FALSE
AttachedElsewhere(file, place) ==
    /\ doc[file] # None
    /\ doc[file][1] = "Tenancy" \/ (doc[file][1] = "Property" /\ doc[file] # place)

ResolveRow(p, r) ==
    LET file == FileOf[work[p].batch]
    IN  /\ Go(p, "row", "write") /\ r \in work[p].todo
        /\ \E o \in Bound(p, "OWNER", r), t \in Bound(p, "TENANT", r), place \in PlaceOf(p, r) :
            /\ file # None => ~AttachedElsewhere(file, place)
            /\ Keep(p, [work[p] EXCEPT
                    !.target = r,
                    !.made = @ \cup Made(p, r, o, t, place),
                    !.moves = IF file = None THEN @
                              ELSE @ \cup {[doc |-> file, from |-> doc[file],
                                            to |-> New(p, "Tenancy", r)]}])
        /\ UNCHANGED <<sheet, directory, derived, job, crossed>>

\* The pick is refused, or the document is attached: the transaction is undone.
RowRefused(p, r) ==
    LET file == FileOf[work[p].batch]
    IN  /\ at[p] = "row" /\ r \in work[p].todo
        /\ \/ \E kind \in {"OWNER", "TENANT"} : Bound(p, kind, r) = {}
           \/ file # None /\ \E place \in PlaceOf(p, r) : AttachedElsewhere(file, place)
        /\ Return(p, "row")
        /\ UNCHANGED <<sheet, directory, derived, job, crossed>>

\* The documents and rows a transaction has updated and not yet released.
Held(q) == IF at[q] \in {"row", "write"}
           THEN work[q].done \cup {m.doc : m \in {n \in work[q].moves : n.to[2] \in work[q].done}}
           ELSE IF at[q] = "undone" THEN work[q].made \cup {m.doc : m \in work[q].moves}
           ELSE {}
Free(p, things) == \A q \in Requests \ {p} : Held(q) \cap things = {}

WriteRow(p) ==
    /\ Go(p, "write", "row")
    /\ Free(p, {work[p].target} \cup {m.doc : m \in work[p].moves})
    /\ Keep(p, [work[p] EXCEPT !.todo = @ \ {work[p].target}, !.done = @ \cup {work[p].target}])
    /\ UNCHANGED <<sheet, directory, derived, job, crossed>>

\* The ids a row remembers, and the slip of forgetting the payment items.
RecordsOnly(made, r) == {x.id : x \in {y \in made : y.id[2] = r /\ y.type # "PaymentItem"}}
Refs(made, r) == {x.id : x \in {y \in made : y.id[2] = r}}

\* Records, rows, batch and evidence appear together; the derivations come after.
CommitEnd(p) ==
    LET w == work[p]
    IN  /\ Go(p, "row", "derive")
        /\ w.todo = {}
        /\ record' = record \cup w.made
        /\ doc' = [d \in Docs |-> IF \E m \in w.moves : m.doc = d
                                  THEN (CHOOSE m \in w.moves : m.doc = d).to ELSE doc[d]]
        /\ row' = [r \in Rows |-> IF r \in w.done
                                  THEN [row[r] EXCEPT !.status = "ACCEPTED", !.refs = Refs(w.made, r),
                                                      !.moves = w.moves]
                                  ELSE row[r]]
        /\ batch' = [batch EXCEPT ![w.batch] = "COMMITTED"]
        /\ commits' = [commits EXCEPT ![w.batch] = @ + 1]
        /\ Keep(p, [w EXCEPT !.todo = {x.id : x \in {y \in w.made : y.type = "Tenancy"}},
                             !.done = {}, !.made = {}, !.moves = {}, !.target = None])
        /\ UNCHANGED <<archived, attached, derived, job, crossed>>

\* regenerateDeadlinesForTenancy and evaluateRiskForTenancy, outside the transaction.
DeriveRead(p, t) ==
    /\ at[p] = "derive" /\ t \in work[p].todo
    /\ IF t \in archived
       THEN /\ due' = due \ {t}
            /\ Keep(p, [work[p] EXCEPT !.todo = @ \ {t}])
            /\ UNCHANGED <<at, flagged>>
       ELSE /\ Go(p, "derive", "deriveWrite")
            /\ Keep(p, [work[p] EXCEPT !.todo = @ \ {t}, !.target = t])
            /\ UNCHANGED derived
    /\ UNCHANGED <<sheet, directory, job, crossed>>

DeriveWrite(p) ==
    /\ Go(p, "deriveWrite", "derive")
    /\ due' = due \cup {work[p].target}
    /\ UNCHANGED <<sheet, directory, flagged, job, work, crossed>>

\* The overlap flag goes to any live tenancy of any property with the row's
\* community and unit, whatever its building, archived ones among them.
Flag(p, r) ==
    LET There(t) == \E x \in record : /\ x.type = "Property" /\ x.id = t.property
                                      /\ x.site = Data[r].site
        there == {t \in record : t.type = "Tenancy" /\ t.id \notin archived /\ There(t)}
    IN  /\ at[p] = "derive" /\ work[p].todo = {} /\ r \in work[p].conflicts
        /\ IF there = {} THEN UNCHANGED flagged
           ELSE \E t \in there : flagged' = flagged \cup {t.id}
        /\ Keep(p, [work[p] EXCEPT !.conflicts = @ \ {r}])
        /\ UNCHANGED <<sheet, directory, due, job, at, crossed>>

\* A review marks its job last, whatever became of the job.
CommitDone(p) ==
    /\ Return(p, "derive")
    /\ work[p].todo = {} /\ work[p].conflicts = {}
    /\ job' = IF work[p].job = None THEN job ELSE [job EXCEPT ![work[p].job] = "COMMITTED"]
    /\ UNCHANGED <<sheet, directory, derived, crossed>>

-----------------------------------------------------------------------------
(* rollbackImportBatch *)

\* The batch and the records of its rows are read before the transaction.
RollbackRead(p, b) ==
    /\ batch[b] = "COMMITTED"
    /\ Go(p, "idle", "undo")
    /\ Keep(p, [Idle EXCEPT !.batch = b,
                            !.made = UNION {row[r].refs : r \in RowsOf(b)},
                            !.moves = UNION {row[r].moves : r \in RowsOf(b)}])
    /\ Company(p, b)
    /\ UNCHANGED <<sheet, directory, derived, job>>

\* findContactReferences, inside the transaction that archives ids: what is live
\* and still names the contact.
NoReference(c, ids) == FALSE
Referenced(c, ids) ==
    \/ c \in attached
    \/ \E x \in record : /\ x.id \notin archived \cup ids
                         /\ \/ x.type = "Tenancy" /\ c \in {x.landlord, x.tenant}
                            \/ x.type = "Property" /\ x.owner = c

IsContact(id) == id[1] \in {"OWNER", "TENANT"}

\* The second pass: the batch's own records are archived by now.
Undo(p) ==
    LET ids == work[p].made
        kept == {c \in ids : IsContact(c) /\ Referenced(c, ids)}
    IN  /\ Go(p, "undo", "undone")
        /\ Free(p, ids \cup {m.doc : m \in work[p].moves})
        /\ Keep(p, [work[p] EXCEPT !.made = ids \ kept])
        /\ UNCHANGED <<sheet, directory, derived, job, crossed>>

StillDue(ids) == due \ ids

\* A document goes back to where the commit found it, wherever it is now.
UndoEnd(p) ==
    LET w == work[p]
    IN  /\ Return(p, "undone")
        /\ archived' = archived \cup w.made
        /\ due' = StillDue(w.made)
        /\ doc' = [d \in Docs |-> IF \E m \in w.moves : m.doc = d
                                  THEN (CHOOSE m \in w.moves : m.doc = d).from ELSE doc[d]]
        /\ batch' = [batch EXCEPT ![w.batch] = "ROLLED_BACK"]
        /\ UNCHANGED <<row, commits, record, attached, flagged, job, crossed>>

\* An operator assigns a proof, a membership or a listing to a live contact;
\* one contact is enough.
Attach(c) ==
    /\ c.type = "Contact" /\ c.id \notin archived /\ attached = {}
    /\ attached' = attached \cup {c.id}
    /\ UNCHANGED <<sheet, record, archived, doc, derived, job, at, work, crossed>>

-----------------------------------------------------------------------------

Operate(p) ==
    \/ \E j \in Jobs : Extract(p, j) \/ \E b \in Batches : Review(p, j, b)
    \/ \E b \in Batches : Upload(p, b) \/ CommitRead(p, b) \/ RollbackRead(p, b)
    \/ Extracted(p)
    \/ AddRows(p) \/ AddRefused(p) \/ MarkMapped(p) \/ DetectRead(p) \/ Detected(p)
    \/ \E r \in Rows : CreateRow(p, r) \/ Detect(p, r) \/ ResolveRow(p, r) \/ RowRefused(p, r)
                       \/ Flag(p, r)
    \/ CommitRefused(p) \/ WriteRow(p) \/ CommitEnd(p)
    \/ \E t \in work[p].todo : DeriveRead(p, t)
    \/ DeriveWrite(p) \/ CommitDone(p)
    \/ Undo(p) \/ UndoEnd(p)

ImportsNext ==
    \/ \E p \in Requests : Operate(p)
    \/ \E j \in Jobs : Reject(j)
    \/ \E c \in record : Attach(c)

ImportsSpec == ImportsInit /\ [][ImportsNext]_importVars

-----------------------------------------------------------------------------
(* Properties *)

LiveOf(type) == {x \in record : x.type = type /\ x.id \notin archived}

\* Rollback takes back all that the batch made: a batch that is ROLLED_BACK has
\* no live property, tenancy or payment item left, only contacts that something
\* else named.  Only a batch committed twice keeps some, because its
\* rows remember the records of the last commit alone.
RollbackComplete ==
    \A b \in Batches : batch[b] = "ROLLED_BACK" /\ commits[b] = 1 =>
        \A x \in record : x.id[2] \in RowsOf(b) /\ x.id \notin archived =>
            IsContact(x.id)

\* A rollback never leaves a live tenancy with an archived landlord or tenant,
\* unless another commit or rollback was under way beside it.
PartiesLive ==
    crossed = {} =>
        \A t \in LiveOf("Tenancy") : {t.landlord, t.tenant} \cap archived = {}

\* An archived tenancy has no open deadline, and so no reminder, unless the
\* rollback ran while the commit was still deriving them.
NothingDueArchived ==
    \A t \in due \cap archived : BatchOf[t[2]] \in crossed

\* After a rollback the rows that live and the rows archived do not hold each other.
NothingDangles == PartiesLive /\ NothingDueArchived

\* The document a tenancy was made from, if it was.
Source(t) == IF t.id[2] \in Rows THEN FileOf[BatchOf[t.id[2]]] ELSE None

\* A contract document grants its readers one tenancy: two live tenancies are
\* never made from one document, unless commits or rollbacks of its readings had
\* company; and a second commit of a batch takes another call that was under way
\* at the time of the first.
ImportedOnce ==
    /\ \A t, u \in LiveOf("Tenancy") :
        t # u /\ Source(t) # None /\ Source(t) = Source(u) => \E b \in crossed : FileOf[b] = Source(t)
    /\ \A b \in Batches : commits[b] > 1 => b \in crossed

=============================================================================
