----------------------------- MODULE MCImports -----------------------------
(***************************************************************************)
(* Two requests over one CSV batch and one document that two reviewers     *)
(* read differently.  The CSV names a landlord the directory holds and a   *)
(* tenant it does not; the reviews name the same tenant.  In a scene of    *)
(* its own the book is filled in by hand.                                  *)
(***************************************************************************)
EXTENDS Imports, Registry, TLC

CONSTANTS csv, scan, rescan, r1, r2, r3, r4, job1, doc1, p1, p2,
    Scenes,
    c1, c2, k1, k2, k3, k4, x1, x2, x3, t1, t2, q1, q2    \* of the book

VARIABLE scene

mcBatches == {csv, scan, rescan}
mcRows == {r1, r2, r3, r4}
mcBatchOf == r1 :> csv @@ r2 :> scan @@ r3 :> rescan @@ r4 :> csv
mcFileOf == csv :> None @@ scan :> doc1 @@ rescan :> doc1
mcDocOf == job1 :> doc1
mcFound == job1 :> {"community", "startDate", "endDate"}
mcRequests == {p1, p2}

Cells == [c \in Required \cup Numeric |-> IF c \in Numeric THEN "number" ELSE "text"]
Named(name) == [name |-> name, emiratesId |-> None, pick |-> None]
Lease(site, ejari, tenant) ==
    [cells |-> Cells, site |-> site, building |-> None, propertyId |-> None, ejari |-> ejari,
     from |-> 1, to |-> 2, scheduled |-> TRUE, OWNER |-> Named("noor"), TENANT |-> tenant]

mcData ==
    r1 :> Lease("marina", "e1", Named("ali"))
    @@ r2 :> [Lease("creek", None, Named("ali")) EXCEPT !.scheduled = FALSE]
    @@ r3 :> [Lease("marina", "e1", [name |-> "ali", emiratesId |-> None, pick |-> CREATE_NEW_CONTACT])
              EXCEPT !.from = 2, !.to = 3]
    @@ r4 :> [Lease("marina", "e1", Named("ali")) EXCEPT !.cells["community"] = "empty"]

Base(type) == <<type, "base", None, 0>>
mcOnRecord ==
    {[type |-> "Contact", id |-> Base("OWNER"), kind |-> "OWNER", name |-> "noor",
      emiratesId |-> None]}

\* The landlord's flat at the marina, let under another contract.
Let ==
    {[type |-> "Property", id |-> Base("Property"), site |-> "marina", building |-> None,
      owner |-> Base("OWNER")],
     [type |-> "Tenancy", id |-> Base("Tenancy"), property |-> Base("Property"),
      landlord |-> Base("OWNER"), tenant |-> None, ejari |-> "e0", from |-> 1, to |-> 2]}

\* Where a behaviour starts: the batches already taken back, the rows already
\* uploaded, the job's status, the contacts already in use and what is let.
Start(closed, mapped, status, inUse, let) ==
    /\ batch = [b \in Batches |-> IF b \in closed THEN "ROLLED_BACK"
                                  ELSE IF b \in mapped THEN "MAPPED" ELSE "absent"]
    /\ commits = [b \in Batches |-> IF b \in closed THEN 1 ELSE 0]
    /\ row = [r \in Rows |->
                [status |-> IF BatchOf[r] \in closed THEN "ACCEPTED"
                            ELSE IF BatchOf[r] \in mapped /\ Parses(Data[r].cells) THEN "PENDING"
                            ELSE "absent",
                 reason |-> None, refs |-> {}, moves |-> {}]]
    /\ record = OnRecord \cup let /\ archived = {} /\ attached = inUse /\ doc = [d \in Docs |-> None]
    /\ due = {} /\ flagged = {} /\ job = [j \in Jobs |-> status]
    /\ at = [p \in Requests |-> "idle"] /\ work = [p \in Requests |-> Idle] /\ crossed = {}

ImportsStart ==
    \/ Start({csv, rescan}, {}, "PENDING", {Base("OWNER")}, {})
    \/ Start({scan, rescan}, {}, "REJECTED", {Base("OWNER")}, {})
    \/ Start({rescan}, {csv}, "EXTRACTED", {Base("OWNER")}, {})
    \/ Start({csv}, {}, "EXTRACTED", {Base("OWNER")}, {})
    \/ Start({rescan, scan}, {csv}, "REJECTED", {}, {})
    \/ Start({scan, rescan}, {}, "REJECTED", {Base("OWNER")}, Let)

-----------------------------------------------------------------------------
(* By hand: a client, a contact and a property of the client on record *)

Lines(landlords, tenants, sites, counts) ==
    {[landlord |-> l, tenant |-> t, property |-> s[1], client |-> s[2], rent |-> 100, count |-> n] :
        l \in landlords, t \in tenants, s \in sites, n \in counts}
Short == Lines({k1, Anew}, {None}, {<<x1, None>>, <<Anew, c1>>}, {13})
mcForms == Short \cup
    Lines({k1, Anew, None}, {k1, Anew, None},
          {<<x1, None>>, <<Anew, None>>, <<Anew, c1>>, <<Anew, c2>>}, {0, 13})

BookStart ==
    /\ client = [c \in {c1, c2} |-> IF c = c1 THEN "live" ELSE "absent"]
    /\ contact = [k \in {k1, k2, k3, k4} |-> IF k = k1 THEN "live" ELSE "absent"]
    /\ property = [x \in {x1, x2, x3} |->
                    IF x = x1 THEN [state |-> "live", client |-> c1] ELSE NoProperty]
    /\ tenancy = [t \in {t1, t2} |-> NoTenancy] /\ held = {} /\ onboarded = {}
    /\ step = [q \in {q1, q2} |-> "idle"] /\ req = [q \in {q1, q2} |-> NoRequest]

Archived ==
    {c \in {c1, c2} : client'[c] = "archived"} \cup {k \in {k1, k2} : contact'[k] = "archived"}
        \cup {x \in {x1} : property'[x].state = "archived"}
\* The other forms come first, and archive one thing at most; a manager's form
\* meets a second one, both short and in a book as it was; one of them may die.
ByHand ==
    /\ RegistryNext
    /\ step' = step => /\ \A q \in {q1, q2} : step[q] = "idle"
                      /\ client'[c2] # "archived" /\ contact'[k3] = "absent"
                      /\ Cardinality(Archived) <= 1
    /\ client' # client \/ Archived # {} => k2 \notin InBook
    /\ step'[q2] # "idle" =>
        /\ Archived = {} /\ client'[c2] = "absent" /\ held # {} /\ step'[q1] # "idle"
        /\ req'[q1].role = "MANAGER" /\ {req'[q1].form, req'[q2].form} \subseteq Short
        /\ "dead" \notin {step'[q1], step'[q2]} \/ step'[q1] # step'[q2]

mcNext ==
    /\ UNCHANGED scene
    /\ \/ scene = "imports" /\ ImportsNext /\ UNCHANGED registryVars
       \/ scene = "by_hand" /\ ByHand /\ UNCHANGED importVars

mcInit ==
    /\ scene \in Scenes /\ ImportsStart /\ BookStart
    /\ scene = "by_hand" => crossed = {} /\ batch[csv] = "MAPPED" /\ attached = {}
mcSpec == mcInit /\ [][mcNext]_<<scene, importVars, registryVars>>
Sym == Permutations(Requests)
=============================================================================
