-------------------------------- MODULE Feed --------------------------------
(***************************************************************************)
(* The in-app feed and the e-mail digests.  recordNotification writes a    *)
(* feed item for each recipient and, for one that is urgent or wanted at   *)
(* once, an e-mail that it links to the item in a third statement.  The    *)
(* daily jobs roll what was deferred into one e-mail per user, and mark it *)
(* after that e-mail exists.  A job may die between any two statements.    *)
(***************************************************************************)
EXTENDS Integers, Sequences, FiniteSets

CONSTANTS
    Users,       \* members of the workspace
    RoleOf,      \* their roles
    Categories,  \* notification categories
    Jobs,        \* processes that run the daily jobs or call recordNotification
    MaxChanges,  \* how often preferences may be changed
    Nobody       \* nothing read, nobody chosen

ASSUME FeedAssumption ==
    /\ "DIGEST" \in Categories
    /\ RoleOf \in [Users -> STRING]
    /\ MaxChanges \in Nat

VARIABLES
    feed,       \* the feed items, in the order of their creation
    cadence,    \* each user's cadence for each category
    recent,     \* the digests of each user and kind inside their window
    at,         \* where each process is
    work,       \* what each process has read
    changes,    \* preference changes so far
    beside,     \* whether two daily jobs ever overlapped
    died        \* whether a process ever died

feedVars == <<feed, cadence, recent, at, work, changes, beside, died>>

Cadences == {"IMMEDIATE", "DAILY", "WEEKLY", "OFF"}
Runs == {"daily", "weekly"}

\* email is the state of the linked message, linked tells if the item knows it.
Item == [user : Users, about : Seq(Int), category : Categories, urgent : BOOLEAN,
         asked : BOOLEAN, email : {"none", "QUEUED", "SENT", "FAILED"}, linked : BOOLEAN,
         read : BOOLEAN, mailed : 0 .. 2, digested : BOOLEAN]

Blank == [users |-> {}, prefs |-> Nobody, user |-> Nobody, about |-> <<>>, category |-> Nobody,
          urgent |-> FALSE, item |-> 0, chosen |-> {}, todo |-> {}, next |-> Nobody, ladders |-> <<>>, today |-> 0]

DefaultCadence(c) == IF c = "DIGEST" THEN "WEEKLY" ELSE "DAILY"

FeedInit ==
    /\ feed = <<>>
    /\ cadence = [u \in Users |-> [c \in Categories |-> DefaultCadence(c)]]
    /\ recent = {}
    /\ at = [p \in Jobs |-> "idle"]
    /\ work = [p \in Jobs |-> Blank]
    /\ changes = 0
    /\ beside = FALSE /\ died = FALSE

\* workspaceOverseers
OVERSEER_ROLES == {"WORKSPACE_ADMIN", "FIDUCIARY", "MANAGER"}
Overseers == {u \in Users : RoleOf[u] \in OVERSEER_ROLES}

Go(p, from, to) == at[p] = from /\ at' = [at EXCEPT ![p] = to]
Keep(p, w) == work' = [work EXCEPT ![p] = w]
Busy(p) == at[p] # "idle" /\ work[p].next # "idle"

-----------------------------------------------------------------------------
(* recordNotification *)

\* Whatever calls it: a list of users, a category, and whether it is urgent.
Tell(p, from, users, about, category, urgent, next) ==
    /\ Go(p, from, "tell")
    /\ Keep(p, [work[p] EXCEPT !.users = users, !.about = about, !.category = category,
                               !.urgent = urgent, !.next = next])

\* Slip: an urgent item waits for the cadence too.
ByCadence(u, category, urgent, prefs) == prefs[u][category] = "IMMEDIATE"
SendNow(u, category, urgent, prefs) == urgent \/ prefs[u][category] = "IMMEDIATE"

RecordFeed(p, u) ==
    LET w == work[p]
        now == SendNow(u, w.category, w.urgent, w.prefs)
    IN  /\ u \in w.users
        /\ Go(p, "tell", IF now THEN "email" ELSE "tell")
        /\ feed' = Append(feed, [user |-> u, about |-> w.about, category |-> w.category,
                    urgent |-> w.urgent, asked |-> now, email |-> "none", linked |-> FALSE,
                    read |-> FALSE, mailed |-> 0, digested |-> FALSE])
        /\ Keep(p, [w EXCEPT !.users = @ \ {u}, !.item = IF now THEN Len(feed) + 1 ELSE 0])
        /\ UNCHANGED <<cadence, recent, changes, beside, died>>

RecordEmail(p) ==
    /\ Go(p, "email", "link")
    /\ feed' = [feed EXCEPT ![work[p].item].email = "QUEUED"]
    /\ UNCHANGED <<cadence, recent, work, changes, beside, died>>

RecordLink(p) ==
    /\ Go(p, "link", "tell")
    /\ feed' = [feed EXCEPT ![work[p].item].linked = TRUE]
    /\ Keep(p, [work[p] EXCEPT !.item = 0])
    /\ UNCHANGED <<cadence, recent, changes, beside, died>>

Told(p) ==
    /\ at[p] = "tell" /\ work[p].users = {}
    /\ Go(p, "tell", work[p].next)
    /\ IF work[p].next = "idle" THEN Keep(p, Blank) ELSE UNCHANGED work
    /\ UNCHANGED <<feed, cadence, recent, changes, beside, died>>

\* Late cheques, risk flags, proofs and enquiries tell their users this way.
Event(p, users, about, category, urgent) ==
    /\ at[p] = "idle"
    /\ at' = [at EXCEPT ![p] = "tell"]
    /\ Keep(p, [Blank EXCEPT !.users = users, !.about = about, !.category = category,
                             !.urgent = urgent, !.prefs = cadence, !.next = "idle"])
    /\ UNCHANGED <<feed, cadence, recent, changes, beside, died>>

\* The outbox carries the e-mail to its end.
EmailEnds(n) ==
    /\ feed[n].email = "QUEUED"
    /\ \E s \in {"SENT", "FAILED"} : feed' = [feed EXCEPT ![n].email = s]
    /\ UNCHANGED <<cadence, recent, at, work, changes, beside, died>>

-----------------------------------------------------------------------------
(* runDigests and flushDigest *)

TargetCadence(run) == IF run = "daily" THEN "DAILY" ELSE "WEEKLY"

\* Whose digests a run goes through, and their preferences, are read at its start.
RunDigests(p, run) ==
    LET pending == {feed[n].user : n \in {n \in DOMAIN feed : ~feed[n].digested}}
    IN  /\ Go(p, run, IF run = "daily" THEN "flushDaily" ELSE "flushWeekly")
        /\ Keep(p, [work[p] EXCEPT !.todo = pending \cup (IF run = "weekly" THEN Overseers ELSE {}),
                                   !.prefs = cadence])
        /\ UNCHANGED <<feed, cadence, recent, changes, beside, died>>

Flushing(p) == IF at[p] = "flushDaily" THEN "daily" ELSE "weekly"

\* One digest of a kind per user and window.
Throttled(u, run) == <<u, run>> \in recent

\* An item whose own e-mail failed for good goes into a daily digest.
NoFallback(n, run) == FALSE
Fallback(n, run) == run = "daily" /\ feed[n].linked /\ feed[n].email = "FAILED"

Selected(u, run, prefs) ==
    {n \in DOMAIN feed :
        /\ feed[n].user = u /\ ~feed[n].digested
        /\ \/ ~feed[n].urgent /\ prefs[u][feed[n].category] = TargetCadence(run)
           \/ Fallback(n, run)}

Summary(u, run, prefs) == run = "weekly" /\ prefs[u]["DIGEST"] # "OFF"

\* The throttle, the items and the failed messages are read before the e-mail exists.
FlushDigest(p, u) ==
    LET run == Flushing(p)
        chosen == Selected(u, run, work[p].prefs)
        send == ~Throttled(u, run) /\ (chosen # {} \/ Summary(u, run, work[p].prefs))
    IN  /\ at[p] \in {"flushDaily", "flushWeekly"} /\ u \in work[p].todo
        /\ at' = [at EXCEPT ![p] = IF send THEN "send" ELSE @]
        /\ Keep(p, [work[p] EXCEPT !.todo = @ \ {u}, !.next = at[p],
                                   !.user = IF send THEN u ELSE Nobody,
                                   !.chosen = IF send THEN chosen ELSE {}])
        /\ UNCHANGED <<feed, cadence, recent, changes, beside, died>>

SendDigest(p) ==
    /\ Go(p, "send", "mark")
    /\ recent' = recent \cup {<<work[p].user, IF work[p].next = "flushDaily" THEN "daily" ELSE "weekly">>}
    /\ feed' = [n \in DOMAIN feed |-> IF n \in work[p].chosen /\ feed[n].mailed < 2
                                      THEN [feed[n] EXCEPT !.mailed = @ + 1] ELSE feed[n]]
    /\ UNCHANGED <<cadence, work, changes, beside, died>>

Digested(chosen) == chosen

MarkDigested(p) ==
    /\ Go(p, "mark", work[p].next)
    /\ feed' = [n \in DOMAIN feed |-> IF n \in Digested(work[p].chosen)
                                      THEN [feed[n] EXCEPT !.digested = TRUE] ELSE feed[n]]
    /\ Keep(p, [work[p] EXCEPT !.user = Nobody, !.chosen = {}])
    /\ UNCHANGED <<cadence, recent, changes, beside, died>>

\* runDailyJobs goes from the daily digests to the weekly ones.
Flushed(p) ==
    /\ at[p] \in {"flushDaily", "flushWeekly"} /\ work[p].todo = {}
    /\ at' = [at EXCEPT ![p] = IF at[p] = "flushDaily" THEN "weekly" ELSE "idle"]
    /\ Keep(p, IF at[p] = "flushDaily" THEN [work[p] EXCEPT !.prefs = Nobody, !.next = Nobody] ELSE Blank)
    /\ UNCHANGED <<feed, cadence, recent, changes, beside, died>>

\* Twenty hours, or six days, pass.
WindowEnds(w) ==
    /\ w \in recent
    /\ recent' = recent \ {w}
    /\ UNCHANGED <<feed, cadence, at, work, changes, beside, died>>

-----------------------------------------------------------------------------
(* What a user does, and the death of a process *)

SetNotificationPreference(u, c, k) ==
    /\ changes < MaxChanges /\ cadence[u][c] # k
    /\ changes' = changes + 1
    /\ cadence' = [cadence EXCEPT ![u][c] = k]
    /\ UNCHANGED <<feed, recent, at, work, beside, died>>

MarkRead(n) ==
    /\ ~feed[n].read
    /\ feed' = [feed EXCEPT ![n].read = TRUE]
    /\ UNCHANGED <<cadence, recent, at, work, changes, beside, died>>

MarkAllRead(u) ==
    /\ \E n \in DOMAIN feed : feed[n].user = u /\ ~feed[n].read
    /\ feed' = [n \in DOMAIN feed |-> IF feed[n].user = u THEN [feed[n] EXCEPT !.read = TRUE]
                                      ELSE feed[n]]
    /\ UNCHANGED <<cadence, recent, at, work, changes, beside, died>>

DieTelling(p) ==
    /\ at[p] # "idle" /\ ~died
    /\ at' = [at EXCEPT ![p] = "idle"]
    /\ Keep(p, Blank)
    /\ died' = TRUE
    /\ UNCHANGED <<feed, cadence, recent, changes, beside>>

-----------------------------------------------------------------------------

Telling(p) ==
    \/ \E u \in Users : RecordFeed(p, u) \/ FlushDigest(p, u)
    \/ RecordEmail(p) \/ RecordLink(p) \/ Told(p)
    \/ \E run \in Runs : RunDigests(p, run)
    \/ SendDigest(p) \/ MarkDigested(p) \/ Flushed(p)

Self(u) ==
    \/ \E c \in Categories, k \in Cadences : SetNotificationPreference(u, c, k)
    \/ MarkAllRead(u)

-----------------------------------------------------------------------------
(* Properties *)

\* An item is mailed in one digest only, unless two daily jobs overlapped or one
\* died between the e-mail and the mark.
DigestedOnce ==
    (~beside /\ ~died) => \A n \in DOMAIN feed : feed[n].mailed <= 1

\* What was deferred, or mailed at once and failed for good, reaches its user in a
\* digest, unless the user turns the category to OFF or IMMEDIATE meanwhile.
DeferredReaches ==
    \A n \in 1 .. 2 :
        LET There == n \in DOMAIN feed
            Cadence == cadence[feed[n].user][feed[n].category]
            Waits == There /\ ~feed[n].urgent /\ Cadence \in {"DAILY", "WEEKLY"}
            Failed == There /\ feed[n].linked /\ feed[n].email = "FAILED"
            Given == There /\ feed[n].digested
            Turned == There /\ Cadence \in {"OFF", "IMMEDIATE"}
        IN  (Waits ~> (Given \/ Turned)) /\ (Failed ~> Given)
=============================================================================
