----------------------------- MODULE Reminders -----------------------------
(***************************************************************************)
(* The daily jobs: the alert ladders go through the open deadlines, tell   *)
(* the overseers of each rung whose day is today, and write REMINDER_SENT  *)
(* after the telling; the digests come next.  The worker and the cron      *)
(* route may run the jobs at once, and either may die.                     *)
(***************************************************************************)
EXTENDS Deadlines, Feed

CONSTANTS
    Days         \* the days on which time stops

ASSUME RemindersAssumption == Days \subseteq Int

VARIABLES
    today,      \* todayInDubai
    sent        \* REMINDER_SENT events: the deadline and the rung

reminderVars == <<deadlineVars, feedVars, today, sent>>

RemindersInit == DeadlinesInit /\ FeedInit /\ today \in Days /\ sent = {}

-----------------------------------------------------------------------------
(* runAlertLadders *)

\* The rungs of each kind of deadline, in days before it is due.
LADDERS == [NOTICE_GATE |-> {120, 100, 95, 3}, CHEQUE_DUE |-> {7, 0, -3},
            PERMIT_EXPIRY |-> {60, 30, 7}]

\* The last rung of the notice gate cannot wait for a digest.
Urgent(x) == deadline[x[1]].kind = "NOTICE_GATE" /\ x[2] = 3

DailyJob == {"rung", "evidence", "daily", "weekly", "flushDaily", "flushWeekly", "send", "mark"}
AtWork(p) == at[p] \in DailyJob \/ (at[p] # "idle" /\ work[p].next = "evidence")

RunDailyJobs(p) ==
    /\ Go(p, "idle", IF Overseers = {} THEN "daily" ELSE "rung")
    /\ Keep(p, [Blank EXCEPT !.prefs = cadence, !.today = today,
                             !.ladders = <<"NOTICE_GATE", "CHEQUE_DUE", "PERMIT_EXPIRY">>])
    /\ beside' = (beside \/ \E q \in Jobs \ {p} : AtWork(q))
    /\ UNCHANGED <<feed, cadence, recent, changes, died, deadlineVars, today, sent>>

\* The open deadlines of one ladder whose rung is today.
ReadLadder(p) ==
    /\ at[p] = "rung" /\ work[p].todo = {} /\ work[p].ladders # <<>>
    /\ Keep(p, [work[p] EXCEPT
            !.ladders = Tail(@),
            !.todo = {<<n, deadline[n].due - work[p].today>> :
                      n \in {n \in DOMAIN deadline :
                             /\ deadline[n].status = "OPEN"
                             /\ deadline[n].kind = Head(work[p].ladders)
                             /\ deadline[n].due - work[p].today \in LADDERS[deadline[n].kind]}}])
    /\ UNCHANGED <<feed, cadence, recent, at, changes, beside, died, deadlineVars, today, sent>>

\* Slip: do not look whether the rung was told before.
NeverAlready(x) == FALSE
Already(x) == x \in sent

SkipRung(p, x) ==
    /\ at[p] = "rung" /\ x \in work[p].todo
    /\ Already(x)
    /\ Keep(p, [work[p] EXCEPT !.todo = @ \ {x}])
    /\ UNCHANGED <<feed, cadence, recent, at, changes, beside, died, deadlineVars, today, sent>>

TellRung(p, x) ==
    /\ x \in work[p].todo
    /\ ~Already(x)
    /\ Tell(p, "rung", Overseers, x, "DEADLINES", Urgent(x), "evidence")
    /\ UNCHANGED <<feed, cadence, recent, changes, beside, died, deadlineVars, today, sent>>

RecordReminder(p) ==
    /\ Go(p, "evidence", "rung")
    /\ sent' = sent \cup {work[p].about}
    /\ Keep(p, [work[p] EXCEPT !.todo = @ \ {work[p].about}, !.next = Nobody])
    /\ UNCHANGED <<feed, cadence, recent, changes, beside, died, deadlineVars, today>>

LadderDone(p) ==
    /\ Go(p, "rung", "daily")
    /\ work[p].todo = {} /\ work[p].ladders = <<>>
    /\ UNCHANGED <<feed, cadence, recent, work, changes, beside, died, deadlineVars, today, sent>>

Tick ==
    /\ \E d \in Days : d > today /\ today' = d
    /\ UNCHANGED <<deadlineVars, feedVars, sent>>

-----------------------------------------------------------------------------

Climb(p) ==
    \/ RunDailyJobs(p) \/ ReadLadder(p) \/ LadderDone(p) \/ RecordReminder(p)
    \/ \E x \in work[p].todo : SkipRung(p, x) \/ TellRung(p, x)

\* A step of a process that writes the feed leaves deadlines and evidence alone.
Proceed(p) == Climb(p) \/ (Telling(p) /\ UNCHANGED <<deadlineVars, today, sent>>)

\* The outbox, the windows, the users, the deaths, and whatever else tells its users.
World ==
    \/ \E n \in DOMAIN feed : EmailEnds(n) \/ MarkRead(n)
    \/ \E w \in recent : WindowEnds(w)
    \/ \E u \in Users : Self(u)
    \/ \E p \in Jobs : DieTelling(p)
    \/ \E p \in Jobs, users \in SUBSET Users, c \in Categories, urgent \in BOOLEAN :
            Event(p, users, <<>>, c, urgent)

RemindersNext ==
    \/ \E p \in Jobs : Proceed(p)
    \/ Tick
    \/ World /\ UNCHANGED <<deadlineVars, today, sent>>
    \/ DeadlinesNext /\ UNCHANGED <<feedVars, today, sent>>

\* The worker starts the jobs every hour and they go on unless it dies; the outbox
\* ends every e-mail; the windows of the digests pass.  Nobody has to write a
\* tenancy or to change a preference.
Fair ==
    /\ \A p \in Jobs : WF_reminderVars(Proceed(p))
    /\ WF_reminderVars(\E n \in DOMAIN feed : EmailEnds(n) /\ UNCHANGED <<deadlineVars, today, sent>>)
    /\ \A w \in Users \X Runs : WF_reminderVars(WindowEnds(w) /\ UNCHANGED <<deadlineVars, today, sent>>)

RemindersSpec == RemindersInit /\ [][RemindersNext]_reminderVars /\ Fair

-----------------------------------------------------------------------------
(* Properties *)

Subject(n) == IF deadline[n].of = None THEN <<None, None, n>>
              ELSE <<deadline[n].of, deadline[n].kind, deadline[n].item>>

\* "A rung fires once per deadline": nobody is told twice of one rung of one
\* deadline of a tenancy, unless two daily jobs overlapped, one died before its
\* evidence, or two regenerations left the deadline there twice.
RungOnce ==
    (~beside /\ ~died) =>
        \A m, n \in DOMAIN feed :
            LET x == feed[m].about  y == feed[n].about
            IN  /\ m # n /\ feed[m].user = feed[n].user
                /\ x # <<>> /\ y # <<>> /\ x[2] = y[2]
                => \/ Subject(x[1]) # Subject(y[1])
                   \/ deadline[x[1]].of \in raced

\* A run tells each user each thing once, on its rung or in its digest.
ToldOnce == RungOnce /\ DigestedOnce

\* A reminder on the evidence timeline was really given: every overseer has it in
\* the feed, and an urgent one was also mailed at once and can fall back.
ReminderReaches ==
    \A x \in sent : \A u \in Overseers : \E n \in DOMAIN feed :
        /\ feed[n].user = u /\ feed[n].about = x
        /\ Urgent(x) => feed[n].linked /\ feed[n].email # "none"
=============================================================================
