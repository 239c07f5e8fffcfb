----------------------------- MODULE RiskFlags -----------------------------
(***************************************************************************)
(* Risk flags (src/server/services/risk.ts) and the requests that raise    *)
(* and clear them.  A flag is looked for first, then created or updated by *)
(* another statement; a partial unique index allows one active flag for    *)
(* each subject and rule.  A subject has one rule here: PAYMENT_LATE on a  *)
(* cheque, PROOF_OVERDUE on a proof request, CHEQUE_TOTAL_MISMATCH on the  *)
(* tenancy.                                                                *)
(***************************************************************************)
EXTENDS Naturals, FiniteSets

CONSTANTS
    Subjects,   \* what a flag may be about
    FlagRows,   \* rows of the RiskFlag table; a cleared one nobody holds is used again
    SubjectOf,  \* the subject of a row
    Users,      \* requests of people
    Jobs,       \* daily runs
    Held,       \* ids of secure links, which a request may hold
    None,       \* no id
    MaxDeaths   \* bound on requests that end half-way

Requests == Users \cup Jobs

ASSUME FlagAssumption ==
    /\ SubjectOf \in [FlagRows -> Subjects]
    /\ Users \cap Jobs = {} /\ IsFiniteSet(Users \cup Jobs)
    /\ None \notin Subjects \cup FlagRows \cup Held
    /\ MaxDeaths \in Nat

VARIABLES
    flag,       \* RiskFlag: status of each row
    pc,         \* where each request is
    req,        \* what each request was asked for and has read
    disturbed,  \* history: subjects that two requests worked on at once, that a request
                \* ended on half-way, or whose cleared flag was acknowledged
    deaths      \* history: requests that ended half-way

FlagStatuses == {"absent", "OPEN", "ACKNOWLEDGED", "CLEARED"}
Steps == {"idle", "raise", "create", "clear", "clearing", "transition", "trail", "replace",
          "evaluate", "late", "remind", "mint", "sent", "use", "upload", "submit", "decide",
          "overdue"}
Stages == {"request", "late", "overdue", "evaluate"}
Targets == {"none", "SCHEDULED", "REQUESTED", "RECEIVED", "DEPOSITED", "CLEARED",
            "BOUNCED", "LATE", "CANCELLED", "APPROVED", "REJECTED"}

Request == [stage : Stages, subject : Subjects \cup {None}, rest : SUBSET Subjects,
            fresh : SUBSET Subjects, to : Targets, flag : FlagRows \cup {None},
            link : Held \cup {None}]
NoRequest == [stage |-> "request", subject |-> None, rest |-> {}, fresh |-> {},
              to |-> "none", flag |-> None, link |-> None]

FlagTypeOK ==
    /\ flag \in [FlagRows -> FlagStatuses]
    /\ pc \in [Requests -> Steps]
    /\ req \in [Requests -> Request]
    /\ disturbed \subseteq Subjects
    /\ deaths \in 0 .. MaxDeaths

FlagInit ==
    /\ flag = [f \in FlagRows |-> "absent"]
    /\ pc = [p \in Requests |-> "idle"]
    /\ req = [p \in Requests |-> NoRequest]
    /\ disturbed = {} /\ deaths = 0

-----------------------------------------------------------------------------
(* Requests *)

Goto(p, from, to) == pc[p] = from /\ pc' = [pc EXCEPT ![p] = to]
Leave(p, from) == Goto(p, from, "idle") /\ req' = [req EXCEPT ![p] = NoRequest]

\* The subjects a request has read and will write, or report, later.
Holds(p) == ({req[p].subject} \cup req[p].rest) \cap Subjects
Meets(p, S) == {s \in S : \E q \in Requests \ {p} : s \in Holds(q)}

\* A request goes to a step holding what r says.
Take(p, from, to, r) ==
    /\ Goto(p, from, to)
    /\ req' = [req EXCEPT ![p] = r]
    /\ disturbed' = disturbed \cup Meets(p, ({r.subject} \cup r.rest) \cap Subjects)
    /\ UNCHANGED deaths

\* After a flag has been raised or cleared: a sweep goes on, another request is done.
AfterFlag == [late |-> "remind", overdue |-> "overdue"]
Resume(p, from) ==
    IF req[p].stage \in DOMAIN AfterFlag
      THEN /\ Goto(p, from, AfterFlag[req[p].stage])
           /\ req' = [req EXCEPT ![p].flag = None,
                                 ![p].subject = IF req[p].stage = "late" THEN @ ELSE None]
      ELSE Leave(p, from)

\* The process ends, or a statement fails, half-way.
Die(p) ==
    /\ pc[p] # "idle" /\ deaths < MaxDeaths
    /\ Leave(p, pc[p])
    /\ deaths' = deaths + 1
    /\ disturbed' = disturbed \cup Holds(p)
    /\ UNCHANGED flag

-----------------------------------------------------------------------------
(* raiseFlag and clearFlag *)

IsActive(f) == flag[f] \in {"OPEN", "ACKNOWLEDGED"}
ActiveFlags(s) == {f \in FlagRows : SubjectOf[f] = s /\ IsActive(f)}

\* findFirst of raiseFlag; there tells whether the subject's own row still exists.
FindToRaise(p, there) ==
    /\ IF there /\ ActiveFlags(req[p].subject) = {}
         THEN Goto(p, "raise", "create") /\ UNCHANGED req
         ELSE Resume(p, "raise")
    /\ UNCHANGED <<flag, disturbed, deaths>>

CreateFlag(p) ==
    \E f \in FlagRows :
        /\ SubjectOf[f] = req[p].subject /\ ~IsActive(f)
        /\ \A q \in Requests : req[q].flag # f
        /\ ActiveFlags(req[p].subject) = {}
        /\ Resume(p, "create")
        /\ flag' = [flag EXCEPT ![f] = "OPEN"]
        /\ UNCHANGED <<disturbed, deaths>>

\* The unique index refuses the row, and the request throws.
CreateRefused(p) ==
    /\ Leave(p, "create")
    /\ ActiveFlags(req[p].subject) # {}
    /\ UNCHANGED <<flag, disturbed, deaths>>

FindToClear(p, there) ==
    /\ IF there /\ ActiveFlags(req[p].subject) # {}
         THEN \E f \in ActiveFlags(req[p].subject) :
                  Goto(p, "clear", "clearing") /\ req' = [req EXCEPT ![p].flag = f]
         ELSE Resume(p, "clear")
    /\ UNCHANGED <<flag, disturbed, deaths>>

\* By id, whatever the row has become.
WriteCleared(p) ==
    /\ Resume(p, "clearing")
    /\ flag' = [flag EXCEPT ![req[p].flag] = "CLEARED"]
    /\ UNCHANGED <<disturbed, deaths>>

\* acknowledgeFlag writes by id too: a cleared flag comes back, unless the index refuses it.
Acknowledge(f) ==
    /\ flag[f] \in {"OPEN", "CLEARED"}
    /\ ActiveFlags(SubjectOf[f]) \subseteq {f}
    /\ flag' = [flag EXCEPT ![f] = "ACKNOWLEDGED"]
    /\ disturbed' = IF flag[f] = "CLEARED" THEN disturbed \cup {SubjectOf[f]} ELSE disturbed
    /\ UNCHANGED <<pc, req, deaths>>
=============================================================================
