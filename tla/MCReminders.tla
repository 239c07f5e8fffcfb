---------------------------- MODULE MCReminders ----------------------------
(***************************************************************************)
(* Four scenes of one system, chosen by the initial state: writers of one  *)
(* tenancy until two of them overlap; the ladders over the deadlines of a  *)
(* tenancy whose end may move; the digests of two users' items; and a user *)
(* who reads the feed.                                                     *)
(***************************************************************************)
EXTENDS Reminders, TLC

CONSTANTS t1, i1, i2, w1, w2, j1, j2, admin, viewer,
    Scenes   \* the scenes a run looks at

VARIABLE scene

mcLeaseOf == [i \in Items |-> t1]
mcDueOf == [i \in Items |-> 107]
mcSeqNo == [i \in Items |-> 1]
mcRoleOf == admin :> "WORKSPACE_ADMIN" @@ viewer :> "CLIENT_VIEWER"
mcCategories == {"DEADLINES", "DIGEST"}

vars == <<reminderVars, scene>>

\* A tenancy whose four deadlines are there, as a regeneration leaves them.
Kept == Term(200, 90) \o Cheques({i1})
WithDeadlines ==
    /\ lease = [t \in Leases |-> [there |-> TRUE, end |-> 200, period |-> 90,
                                  gate |-> 110, archived |-> FALSE]]
    /\ item = [i \in Items |-> IF i = i1 THEN "SCHEDULED" ELSE "absent"]
    /\ deadline = [n \in 1 .. 4 |-> [of |-> t1, kind |-> Kept[n].kind, item |-> Kept[n].item,
                                     due |-> Kept[n].due, status |-> "OPEN", manual |-> FALSE]]

Still == /\ step = [p \in Writers |-> "idle"] /\ edit = [p \in Writers |-> Unread] /\ raced = {}

Shown(u) == [user |-> u, about |-> <<>>, category |-> "DEADLINES", urgent |-> FALSE,
             asked |-> FALSE, email |-> "none", linked |-> FALSE, read |-> FALSE,
             mailed |-> 1, digested |-> TRUE]
\* No job at work; the feed holds items, and every category has cadence k.
Quiet(items, k) ==
    /\ feed = items
    /\ cadence = [u \in Users |-> [c \in Categories |-> k]]
    /\ recent = {} /\ at = [p \in Jobs |-> "idle"] /\ work = [p \in Jobs |-> Blank]
    /\ changes = 0 /\ beside = FALSE /\ died = FALSE

mcInit ==
    /\ sent = {} /\ today = 107 /\ scene \in Scenes
    /\ \/ scene = "rows" /\ DeadlinesInit /\ FeedInit
       \/ scene = "ladder" /\ WithDeadlines /\ Still /\ Quiet(<<>>, "OFF")
       \/ scene = "digest" /\ DeadlinesInit /\ FeedInit
       \/ scene = "reader" /\ DeadlinesInit /\ Quiet(<<Shown(admin), Shown(viewer)>>, "DAILY")

Writes == raced = {} /\ DeadlinesNext /\ UNCHANGED <<feedVars, today, sent>>
Others == UNCHANGED <<deadlineVars, today, sent>>

\* Two jobs overlap, or one dies (not both with the ladders), only on the first
\* day and with one other item.
Runs2(p) ==
    /\ Proceed(p)
    /\ scene = "ladder" /\ beside' => today = 107 /\ ~died
    /\ scene = "digest" /\ beside' => Len(feed') < 2 /\ changes = 0
Dies == \E p \in Jobs : ~beside /\ (IF scene = "ladder" THEN today = 107 ELSE Len(feed) < 2 /\ changes = 0)
                        /\ DieTelling(p) /\ Others

\* The end of the tenancy moves once while the jobs run; nobody sets preferences.
Moves == \/ UpdateTenancy(w1, t1) /\ lease[t1].end = 200 /\ lease'[t1].end = 205
         \/ Rewrite(w1)
Ladders ==
    \/ \E p \in Jobs : Runs2(p)
    \/ Tick \/ Dies
    \/ Moves /\ raced' = {} /\ ~beside /\ ~died /\ UNCHANGED <<feedVars, today, sent>>

\* In the scene of the digests another job tells the administrator of two things,
\* and the administrator changes the category they belong to once.
Digests ==
    \/ \E p \in Jobs : Runs2(p)
    \/ Dies
    \/ /\ Others
       /\ \/ \E n \in DOMAIN feed : EmailEnds(n)
          \/ \E w \in recent : WindowEnds(w)
          \/ ~beside /\ ~died /\ \E k \in {"WEEKLY", "OFF"} : SetNotificationPreference(admin, "DEADLINES", k)
          \/ /\ Len(feed) + Cardinality({p \in Jobs : at[p] \in {"tell", "email", "link"}}) <
                    (IF beside \/ died THEN 1 ELSE 2)
             /\ \E urgent \in (IF feed = <<>> THEN BOOLEAN ELSE {FALSE}) :
                    Event(j2, {admin}, <<>>, "DEADLINES", urgent)

Reads == Others /\ ((\E n \in DOMAIN feed : MarkRead(n)) \/ \E u \in Users : Self(u))

mcNext ==
    /\ UNCHANGED scene
    /\ \/ scene = "rows" /\ Writes
       \/ scene = "ladder" /\ Ladders
       \/ scene = "digest" /\ Digests
       \/ scene = "reader" /\ Reads

mcFair == 
    /\ \A p \in Jobs : WF_vars(scene \in {"ladder", "digest"} /\ Runs2(p) /\ UNCHANGED scene)
    /\ WF_vars(scene = "digest" /\ (\E n \in DOMAIN feed : EmailEnds(n)) /\ Others /\ UNCHANGED scene)
    /\ \A w \in Users \X Runs : WF_vars(scene = "digest" /\ WindowEnds(w) /\ Others /\ UNCHANGED scene)

mcSpec == mcInit /\ [][mcNext]_vars /\ mcFair
=============================================================================
