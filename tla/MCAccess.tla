------------------------------ MODULE MCAccess ------------------------------
(***************************************************************************)
(* Who may come in and what they see, on small instances.  The parts share *)
(* no row, so a behaviour runs one of them and the others rest.            *)
(***************************************************************************)
EXTENDS Members, SignIn, Assignees, Doors, TLC

CONSTANTS
    Scenes,
    admin, guest, other,   \* users
    contact,               \* an owner contact of the workspace
    i1, i2,                \* invitations
    w1, w2, b1, b2,        \* offices and browsers
    r1, r2, a1, k1, k2, c1, c2, d1, d2, u1, u2, t1, t2

VARIABLE scene

\* Sign-in and the office run on the same requests, never both.
mcRequests == {r1, r2}
Sym == Permutations(mcRequests) \cup Permutations({t1, t2})

Asked == {req'[p].role : p \in Requests}
Named == {req'[p].user : p \in Requests}
\* Invitations of agents and owners that no two accept at once.
InvitesScene ==
    /\ AtOnce \/ \E p \in Requests : Arrives(p) \/ Continues(p) \/ Die(p)
    /\ UNCHANGED <<made, overlay, book>>
    /\ "ORG_ADMIN" \notin Asked /\ admin \notin Named /\ raced' = {}
    /\ \A p \in Requests : at'[p] # "grant"
    /\ \A i \in Invites : ~invite'[i].expired

\* Office admins, by seat and by overlay, who remove one another.
OfficeScene ==
    /\ AtOnce \/ \E p \in Requests : Arrives(p) \/ Continues(p) \/ Die(p)
    /\ ~invite'[i2].made /\ ~invite'[i1].expired
    /\ UNCHANGED <<archived, made, book>>
    /\ "LANDLORD" \notin Asked /\ other \notin Named

\* An agent's properties.
BookScene ==
    /\ AtOnce \/ \E p \in Requests : Arrives(p) \/ Continues(p) \/ Die(p)
    /\ ~invite'[i2].made
    /\ UNCHANGED <<archived, overlay>>
    /\ Asked \subseteq {Absent, "MANAGING_AGENT"} /\ other \notin Named
    /\ \A p \in Requests : at'[p] # "grant"

\* One browser is the operator's and stays signed in; the second office has the
\* operator's seats and stays open; one role is hired besides the owners.
DoorsScene ==
    /\ DoorsNext
    /\ jar[b1] # Absent => jar'[b1] = jar[b1] /\ session'[jar[b1]] = session[jar[b1]]
    /\ jar'[b1] # Absent => session'[jar'[b1]].user = admin
    /\ Cardinality(shut'[w1]) <= 1 /\ shut'[w2] = {}
    /\ "archived" \in shut'[w1] => w1 \notin invited'
    /\ Cardinality({seats'[n].role : n \in DOMAIN seats'} \ {"WORKSPACE_ADMIN"}) <= 1
    /\ \A n \in DOMAIN seats' : seats'[n].user = admin =>
        seats'[n].office = w2 /\ seats'[n].role \in {"WORKSPACE_ADMIN", "LANDLORD"}

\* One row is archived and one lease ends; one unit has no owner and no agent.
AskingScene ==
    /\ AssigneesNext
    /\ Cardinality(gone') <= 1 /\ Cardinality(ended') <= 1
    /\ owner'[u2] = Nothing /\ u2 \notin agentBook'

mcInit ==
    /\ scene \in Scenes
    /\ DoorsInit
    /\ MembersInit /\ SignInInit
    /\ AssigneesInit /\ (scene \notin {"scopes", "asking"} => client = [x \in Units |-> c1])

mcNext ==
    /\ scene' = scene
    /\ \/ /\ scene = "invites" /\ InvitesScene /\ UNCHANGED <<signInVars, assigneeVars, doorVars>>
       \/ /\ scene = "office" /\ OfficeScene /\ UNCHANGED <<signInVars, assigneeVars, doorVars>>
       \/ /\ scene = "book" /\ BookScene /\ UNCHANGED <<signInVars, assigneeVars, doorVars>>
       \/ /\ scene = "signin" /\ SignInNext /\ mixed' # {"login", "reset"}
          /\ UNCHANGED <<memberVars, assigneeVars, doorVars>>
       \/ scene = "scopes" /\ ScopesNext /\ UNCHANGED <<memberVars, signInVars, doorVars, gone>>
       \/ scene = "asking" /\ AskingScene /\ UNCHANGED <<memberVars, signInVars, doorVars>>
       \/ scene = "doors" /\ DoorsScene /\ UNCHANGED <<memberVars, signInVars, assigneeVars>>

mcSpec == mcInit /\ [][mcNext]_<<scene, memberVars, signInVars, assigneeVars, doorVars>>

=============================================================================
