# A verification development of Seneschal

Seneschal keeps the records of rented property in Dubai: tenancies and their
renewals, notices, offers, cheques, requests for proof, and an append-only
timeline of evidence. It is a Next.js application over PostgreSQL (Prisma), with
a worker that sends messages and runs daily sweeps. Almost nothing in it is held
in memory between requests: **the concurrency of this system is the concurrency
of SQL statements**. A request reads rows, decides, and writes rows by id,
usually without a transaction around the three; other requests, the worker, the
cron route, a provider's callback and the holder of a link run between them, and
a process may end anywhere (a serverless function is cut off after 300 s).

The models therefore take one step per statement or transaction, let a request
carry what it read earlier, and let it die between any two steps. Paths below
are relative to `src/src/server/` unless they begin with `src/`.

## 1. The system

| Component | State | Operations | What is hard, and what makes it correct |
|---|---|---|---|
| Outbox (`outbox/index.ts`, `runner.ts`) | `Outbox` rows: status, attempts, availableAt, lockedUntil, payload | enqueue; dispatchPending: release expired leases, claim a batch, run handlers, ack or nack | several workers, leases that expire, crashes, retries. No row worked on twice, bounded tries, no secret left at rest, every row comes to rest |
| Notifications (`notify/`) | `NotificationMessage`: status, providerRef | notify; deliverNotification; applyWhatsappEvents | an accepted send whose answer is lost; retries; callbacks out of order. The log claims only what the provider accepted |
| Feed, digests and alerts (`notify/`, `services/digests.ts`, `alerts.ts`) | feed items, digestedAt marks, REMINDER_SENT evidence, preferences | recordNotification fan-in; daily and weekly digest; alert rungs | the mail, its link to the item and the mark are three statements; two runs at once. Told once, and told in the end |
| Renewal engine (`services/renewals.ts`) | `RenewalCase`, `Offer`, rent index and benchmark captures | open, propose, counter, accept, mint; captures; pipeline | landlord, tenant and staff act on one case at once. One decision per case, one successor per tenancy, told once and truly |
| Renewal guidance (`renewalNextAction.ts`, the renewal pages) | none: three pickers over the tables | what to do next, on the page and in the pipeline | two views that pick their rows differently. They agree, and lead on to a form the service takes |
| Notices (`services/notice.ts`) | `Notice` | prepare, approve, serve with or without proof, confirm | stale approvals and services. Service only after approval |
| Tenancies (`services/tenancies.ts`) | `Tenancy` status, dates, parties | create, edit, setTenancyStatus, archive | the status table is checked on an earlier read |
| Secure links (`services/secureLinks.ts`) | `SecureLink`: useCount, maxUses, expiry, revocation | create, validate, consume, revoke | a token in many hands. Uses within the cap |
| Tenant's answers and consent (`renewals.ts`, `services/consent.ts`) | offers made by a tenant, `ConsentRecord` | send, present, accept, counter, ask; opt in, grant, revoke | a use is taken before the answer and the answer may be refused; consent has several writers |
| Owner approvals (`services/approvals.ts`) | `Approval`: decision, decidedAt | request, decide through a link | a request repeated while the owner decides. Decisions are final, told once, one per link |
| Proof requests (`services/proofs.ts`, `emailIntake.ts`) | `ProofRequest` status | create, send, submit through a link or mail, decide, overdue sweep | unguarded status writes against the sweep |
| Payments (`services/payments.ts`) | `PaymentItem` status, schedule | set schedule, transition, late sweep, receipts | the cheque table checked on an earlier read; the sweep's stale list |
| Risk flags (`services/risk.ts`) | `RiskFlag` status; one active per rule and scope (partial unique index) | raise, clear, acknowledge; evaluators | find-then-create, unguarded acknowledge |
| Deadlines (`services/deadlines.ts`) | `Deadline` rows | regenerate, manual entries | find-then-create under concurrent regeneration. One open row of a kind, and the right ones |
| Imports and extraction (`services/imports.ts`, `extraction.ts`) | `ImportBatch`, `ImportRow`, jobs | stage, detect conflicts, commit, roll back, review | batch status checked outside the transaction; a rollback of what others use. Nothing half taken back |
| Registry (`services/onboarding.ts`, `clients.ts`, `contacts.ts`, `properties.ts`, `tenancies.ts`) | clients, contacts, properties, tenancies | the forms, and the one that makes a tenancy with all it names | a chain of calls that each commit. The audit of a whole is true |
| Members (`services/members.ts`, `assignments.ts`) | `WorkspaceInvite`, `Membership`, `MembershipGrant`, assignments | invite, accept, grant, revoke, remove, reactivate | accept against accept; removal by the removed. One seat, somebody in charge |
| Authentication (`auth/`) | failure counter, lock, reset tokens, sessions | login, request and use a reset | lost update of the counter; a reset token used twice |
| Authorization (`authz.ts`, `capabilities.ts`, `contactScope.ts`, `clientScope.ts`, `delegateScope.ts`, `nav.ts`, layouts) | memberships, grants | what a role may do, where a session lands, whose records it sees | the same question answered in a list, a getter, a rail and a layout |
| Provisioning (`admin/provisioning.ts`) | workspaces and first invitations | provision, suspend, archive | sessions that outlive their office |
| Vault (`services/documents.ts`, `storage/`) | `Document`, `DocumentAccessLog` | upload, list, sign, fetch, archive | bytes, row, log and evidence are four writes. Every touch is logged, archive ends access |
| Move-in (`services/moveIn.ts`) | handover records, acknowledgements | make, photograph, acknowledge | both sides written back whole. A lost acknowledgement |
| Evidence (`evidence.ts`, `evidenceQuery.ts`, `evidencePack.ts`, `audit.ts`) | insert-only rows | record; page; export | which events are a tenancy's is worked out at each read. Nothing lost between pages |
| Calculators (`calculators/`) | none | notice gate, cheque split, decree 43 bands | boundaries and rounding; the first two are operators of `Deadlines` and `Registry` |
| Listings, enquiries, viewings, offers on listings, contract pack, passport | one table each | small status machines, assembly | second in line |
| Rate limiter, read models, pages, seed | counters, queries, forms | | not modelled |

How they interact: a user request (`src/src/app/(app)/actions.ts`) or a link
action (`src/src/app/link/[token]/actions.ts`) calls services; services write
tables, evidence and flags, and enqueue messages; the runner and the cron route
dispatch the outbox and run the sweeps, which write the same tables; a provider
calls back through a webhook that itself enqueues.

`PROJECT.json` lists every component with its status, and under `hazards` each
place where this goes wrong in a way a test would hardly reach.

## 2. Modules

| Module | Models | Run |
|---|---|---|
| `JobQueue` | what the outbox promises: a job waits, is run by one runner, and pays one try per run | through `ImplementsQueue` |
| `Outbox`, `Notify` | the Outbox table with concurrent `dispatchPending` calls; messages, delivery and the callback handler on top | `notify_timely`, `notify_overrun`, `overlap` |
| `Agreement` | what the renewal loop promises: one decision per case, one successor per tenancy, told only when it happened | through `ImplementsAgreement` |
| `Renewals` | cases, offers, notices, tenancy status, mint and their evidence, with concurrent requests | `renewals`, `notice_evidence` |
| `Guidance` | what the page and the pipeline tell the desk to do next, on top of `Renewals` | `renewals` |
| `SecureLinks` | the link table and its atomic use | through the modules that use it |
| `Approvals` | owner sign-off on top of `SecureLinks` | `sign_off` |
| `TenantLink` | the tenant's answers and consent on top of `SecureLinks` | `records` |
| `RiskFlags`, `Payments`, `ProofRequests`, `Obligations` | flags; cheques; requests for proof; and the three together with people and daily runs | `obligations`, `daily_run` |
| `Imports` | batches, rows, extraction jobs, and what a commit makes and a rollback takes back | `imports` |
| `Registry` | the book filled in by hand, and the form that makes a whole tenancy | `imports` |
| `Deadlines`, `Feed`, `Reminders` | deadline rows; feed items and digests; the alert ladders that join them | `reminders` |
| `Members`, `SignIn`, `Scopes` | seats of a workspace; the password and its reset; whose records are shown | `access` |
| `Assignees` | who may be asked for proof, about what: the form and the service, on `Menu` and `Scopes` | `access` |
| `Menu`, `Doors` | roles, capabilities and the rail; sessions, offices and redirects | `access` |
| `Vault`, `Handover` | documents and their access log; the move-in record on top | `records` |
| `Chronology` | a tenancy's evidence: its writers, and those who page through it or export it | `records` |
| `NotifyProofs` (Outbox, Notify), `RenewalProofs` (Renewals, Guidance), `ApprovalProofs`, `ObligationProofs`, `AccessProofs` (SignIn, Members, Scopes), `RecordsProofs` (Vault, Handover, Chronology, TenantLink), `ImportProofs`, `ReminderProofs` (Deadlines, Feed, Reminders) | theorems and proofs (section 4) | |
| `MC...` | small instances for TLC; where parts of one run share no row, a variable `scene`, chosen at the start, says which of them a behaviour runs | |

### Outbox and Notify

`row` is the Outbox table; `pc`, `todo` and `cur` are where each
`dispatchPending` call is, the entries it claimed and the one it works on. An
entry is the *snapshot* the claim returned: later writes use it and are guarded
by the row id alone, as in the code. Time is two facts per row: whether
`availableAt` has come (`due`) and whether `lockedUntil` has passed (`lease`).
`Overrun` says whether a batch may outlive its lease: the code takes one lease
of 60 s for a whole batch and never renews it, so both worlds are real, and the
properties divide into those that need a batch to be timely (`Exclusive`,
`ImplementsQueue`) and those that hold regardless (`LateWritesHarmless`,
`DispatchedMeansHandled`, `Settles`).

| Definition | Code |
|---|---|
| `Release`, `Claim` | the UPDATE of step 1 and the claim transaction, `outbox/index.ts:93-121` |
| `Begin`, `HandlerReturns`, `HandlerThrows`, `Ack`, `AckThrows`, `Nack` | the loop of lines 123-155 |
| `Tick` | `availableAt` or `lockedUntil` passes |
| `Crash`, `Die` | the process ends; only the lease remains |
| `CreateMessage`, `EnqueueSend` | `notify`, `notify/index.ts:31-81`, two statements |
| `ReadMessage`, `DeadLetter`, `Send`, `Record`, `RecordThrows`, `Reject` | `deliverNotification`, one step per await |
| `ReadCallback`, `ApplyCallback` | `applyWhatsappEvents`: read the status, compute, write |

### Renewals and Guidance

A request is `pc[p]` and what it was asked for and has read, `req[p]`. `Propose`
supersedes the open offers, `ReadVersion` reads the last version, `InsertOffer`
creates the offer (or `VersionTaken`, when the unique index refuses it),
`PointCase` points the case at it; `Accept` is the claiming transaction; then
the tenancy is moved (`MoveRead`, `MoveWrite`: `setTenancyStatus` checks a read
and writes by id) and the evidence is written (`Record`). Notices are
`PrepareNotice`, `ApproveRead`/`ApproveWrite`, `ServeRead`/`ServeWrite`,
`PendingRead`/`PendingWrite`. `successor[t]` is the unique column
`renewsFromTenancyId`. Offer statuses SENT and COUNTERED, which no guard tells
apart, are one status OPEN; of the evidence the four kinds the properties speak
of are kept; rent figures, citations, risk flags, audit rows and
`currentNoticeId` are left out. A case is never DECLINED or LAPSED: nothing in
the source writes those statuses. Transactions are atomic steps, which is what
row locks and READ COMMITTED give the claims written as guarded `updateMany`.

`Guidance` keeps beside each step of the loop what the three pickers go by: the
case created last (`newest`) and written last (`touched`), the last notice of a
case, who made an offer and whether it has a link, the captured figure and the
benchmark, whether the gate has passed. `getRenewalRisk`, `listRenewalPipeline`
and `deriveRenewalNextAction` are operators over them, and `actionView` is the
set of forms the page then shows. `strayed` is a history variable: tenancies
on which a notice was served or terms were proposed after the acceptance, or a
case opened after the renewal (section 5).

### SecureLinks, Approvals and TenantLink

A link is minted, used, ended: revocation and expiry have the same effect on
`validateLinkToken` and on the UPDATE of `consumeLinkUse` and are one fact.
`requestOwnerApproval` is five steps (`Close`, `RevokeOld`, `CreateApproval`,
`MintLink`, `RecordAsked`); `decideApprovalViaLink` is `Present` (everything
that only looks), `TakeUse`, `Find`, `Claim`, `RecordDecision`. `createdAt`,
which orders the pending approvals, is kept as a rank. A link carries the offer
it was minted for and not the approval, as in the table.

`TenantLink` gives the tenant two ways to one answer, the link and the portal:
present, take a use, record an opt-in if there is one, apply the answer
(accept, counter with a new version, or ask), tell. The consent has two other
writers, `grant` and `revoke` of staff. `told`, `receipts`, `refused`, `cut` and
`crossed` are history: what was told through each link, what a tenant was told
is recorded, uses whose answer was refused, who was cut off, and whether a grant
and a revocation were under way at once.

### RiskFlags, Payments, ProofRequests and Obligations

`flag`, `item`, `proof` and `link` are the four tables; `paper`, `uploads` and
`reminded` are the insert-only rows the properties read. Requests of people
(`Users`) and daily runs (`Jobs`) share one machinery: `pc[p]` is the step a
request is at and `req[p]` what it was asked for and has read.

| Definition | Code |
|---|---|
| `AskTransition`, `WriteTransition`, `Trail` | `transitionPayment`: read and check, update by id, evidence; then `FindToClear` where the late flag is cleared |
| `AskSchedule`, `Replace`, `Evaluate` | `setPaymentSchedule`: the rows its transaction reads, what it deletes and creates, and the comparison after it. The read is a step of its own, because a READ COMMITTED transaction does not keep other statements out |
| `ListLate`, `MarkLate`, `MarkMissing`, `Remind` | `detectLatePayments`, item by item |
| `AskSend`, `MintProofLink`, `WriteSent` | `sendProofRequest` |
| `PresentProof`, `UseLink`, `LinkRefused`, `RecordUpload`, `Submit` | the upload page, or the mail intake, and `submitProofViaLink` |
| `AskDecide`, `WriteDecision` | `decideProofRequest` |
| `ListOverdue`, `MarkOverdue` | `sweepOverdueProofRequests` |
| `FindToRaise`, `CreateFlag`, `CreateRefused` | `raiseFlag`, with the refusal of the partial unique index |
| `FindToClear`, `WriteCleared`, `Acknowledge` | `clearFlag`, `acknowledgeFlag`, both writing by id |
| `DailyStep`, `Compare` | `runDailyJobs`, in its order; `Compare` is the total check of `evaluateWorkspaceRisk` |

`Resume` says how a request goes on after a flag has been dealt with. `disturbed`
is a history variable: the subjects on which two requests met (one began to work
on what another had read and not yet written), on which one was cut off, or
whose cleared flag was revived. Under such meetings the code does let a received
cheque fall back to LATE and a submitted request to SENT or OVERDUE, because no
write is guarded by the status it was decided on. `FlagsAgree` says what holds
of the undisturbed subjects; `ChequeTrail` and `UploadBacked` hold whatever
meets. A subject has one rule (`PAYMENT_LATE` on a cheque, `PROOF_OVERDUE` on a
request, `CHEQUE_TOTAL_MISMATCH` on the tenancy); a flag row that is cleared and
in nobody's hands is used again instead of a new one; amounts are the sets of
cheques that add up (`Balanced`).

### Imports

`batch`, `row` and `job` are the sheets, `record`, `archived`, `doc` and
`attached` the directory they are committed to, `due` and `flagged` what is
derived afterwards. A transaction is READ COMMITTED, so it is several steps: it
reads what is committed and what it made itself, and keeps its draft in
`work[p]` until it ends. A commit only makes records (its draft is a set of new
ones) and a rollback only archives (a set of ids), which is why a draft need not
be a copy of the tables. `Free` is the row lock: an update of a row waits for the
other transaction that updated it.

| Definition | Code |
|---|---|
| `Upload`, `AddRows`, `CreateRow`, `MarkMapped` | the CSV form: batch, rows one by one, the status by id |
| `DetectRead`, `Detect`, `Detected` | `detectConflicts`, row by row |
| `Extract`, `Extracted`, `Review`, `Reject` | the extraction job, and the batch a review makes of it |
| `CommitRead`, `ResolveRow`, `WriteRow`, `RowRefused`, `CommitEnd` | `commitImportBatch`: what is read before the transaction, each row in it, its end |
| `DeriveRead`, `DeriveWrite`, `Flag`, `CommitDone` | deadlines and overlap flags, after the transaction |
| `RollbackRead`, `Undo`, `UndoEnd` | `rollbackImportBatch` |

`crossed` is history: batches whose commit or rollback had company. A record's
id names the row, the request and the commit that made it.

### Registry

The book filled in by hand: clients, contacts, properties, tenancies, each made
or archived by a form of its own, and `onboardTenancy`, a chain of calls
that each commit: `Submit`, `Landlord`, `Tenant`, then `UseProperty` or
`CreateProperty` (and `Claim`, for an agent), `CreateTenancy`,
`RegenerateDeadlines`, `SetPaymentSchedule`, `Redate`, `Audit`. A request may be
refused at each, or die (`Dies`). `Evenly` is `evenChequeSchedule` with its
rounding and its cap of twelve.

### Deadlines, Feed and Reminders

Every write of a tenancy, its schedule or its archive mark (`CreateTenancy`,
`UpdateTenancy`, `ArchiveTenancy`, `SetPaymentSchedule`) goes on to a
regeneration outside any transaction: `Regenerate` reads the tenancy and its
items once, `FindExisting` and `UpsertDeadline` take the derived deadlines one
by one, `CacheGate` writes the notice gate after the three of the term,
`ReadVanished`, `CancelVanished`, `Regenerated` cancel the cheques that went
away; `CancelAll` is the path of an archived tenancy. `raced` is history:
tenancies whose regenerations overlapped, or one of which died.

`Feed` is `recordNotification`: for each user, item, e-mail and link are three
statements; and the digests `RunDigests`, `FlushDigest`, `SendDigest`,
`MarkDigested`. `Reminders` puts the ladders on top: `RunDailyJobs`,
`ReadLadder`, `TellRung`, `RecordReminder`, and `Tick` for a day, which may be
one without a run. `beside` and `died` are history: whether two daily jobs
overlapped, and whether one died.

### Members, SignIn and Scopes

`Members` is one workspace: seats, overlays, an agent's book, invitations.
`InviteMember`/`CreateInvite`, `AcceptInvite`/`FindSeat`/`TakeSeat` or
`TakeOverlay`/`MarkAccepted`, `GrantBundle`, `AskRemoval`/`RemoveMember`,
`AssignProperty`, `ClaimCreatedProperty` are the statements of `members.ts` and
`assignments.ts`. History: `raced` (an invitation, person or contact on which
two acceptances met or one died before the mark), `sat` (how often an
invitation seated somebody), `stale` (a removal by somebody removed meanwhile),
`gaveUp` (a manager who gave the power away).

`SignIn` is the password (`ReadUser`, `Refuse`, `Accept`: read the counter,
compare, write it whole) and its reset (`RequestReset`, `ExpirePrior`,
`MintToken`, `PresentToken`, `ChangePassword`); `due` and `mixed` are history.
`Scopes` has clients, units, leases and contacts, and two operators over them:
`Listed`, what a list shows a viewer, and `Opened`, what the getters let through;
`Meant` says in the words of the code's comments which rows are meant.

### Assignees

The records of `Scopes` with an archive mark on units, clients and contacts
(`Archive`; nothing looks at what still names the row), and two ways to say who
may be asked for proof about what: `proofRequestOptions`, which loads clients,
units and contacts in three queries and puts them together in memory, and
`MayAsk`, what `createProofRequest` lets through of whatever is posted.
`FormOptions` is what the page draws of the first and `Postable` what can be
chosen in its two selects. The assigned agent of a unit, which only the seed
writes, is left out.

### Menu and Doors

`Menu` is the capability table, `hasCapability`, the rail and what each page
loads. `Doors` has sessions, cookies, seats in several offices and what an
operator's console does to them (`Provision`, `SuspendWorkspace`,
`ArchiveWorkspace`, `AcceptSeatZero`). `Goes(b, page)` is where one request
sends a browser, and `Rests` where it ends after two.

### Vault, Handover and Chronology

An upload is bytes, row, access log and timeline (`Upload`, `CreateRow`,
`LogUpload`, `TellUpload`); a page signs links (`GetForUrl`, `LogView`,
`Render`); a link is opened (`OpenUrl`, `ReadRow`, `GetBytes`, `LogDownload`,
`Serve`), which verifies the hash; a document is archived (`GetToArchive`,
`WriteArchived`, `LogArchived`) or `Spoil`s at rest. `cut` is history: documents
with a request cut off. `Handover` reads the move-in record, merges one side in
memory and writes it whole (`ReadMoveIn`, `WriteAck`), then tells (`TellAck`,
`TellComplete`); `met` and `broken` are history.

`Chronology` has the records of tenancies and the timeline. Writers stamp an
event with a scope and sometimes with the tenancy; the readers work out which
scopes are a tenancy's, the page in `PageRefs`, the pack in `PackRefs`.
`OpenTimeline`, `CountPages`, `ReadRows` page through a list that grows at its
head; `BuildPack`, `LogExport`, `TellExport` export it.

## 3. What the runs check

| Run | Instance | Shows |
|---|---|---|
| `notify_timely` | 2 calls, one sensitive send, one read callback, 2 tries, 1 crash, no overrun | `Exclusive`: no row is in the hands of two calls; `SentMeansAccepted`: the log claims only what the provider accepted; `ImplementsQueue` |
| `notify_overrun` | the same send with overrun and 3 tries | with stale snapshots: `LateWritesHarmless` (`AttemptBudget` and `NoSecretAtRest`), `DispatchedMeansHandled`, and `Settles`: every row comes to rest |
| `renewals` | 1 tenancy, 2 cases, 3 offers, 2 notices, 2 requests; scenes `loop`, `notices`, `path`, `sources` | `DecisionStands`, `TimelineTold`, `ImplementsAgreement`, `ServiceApproved`; `ViewsAgree`: page and pipeline tell one next step; `PageLeadsOn`: each form offered is one the service takes |
| `sign_off` | 1 offer, 2 approvals, 2 single-use links, 2 askers, 2 owners | `OneDecisionPerLink`; `SignOffTold`: the evidence of a decision is the one that stands |
| `obligations` | 2 people, 1 daily run, a cheque or a request with a link of 2 uses, 1 death | `ChequeTrail`, `FlagsAgree`, `UploadBacked` |
| `daily_run` | 1 person, 1 daily run, no total ever balanced, 1 death | `WaitingSwept`: what is due is answered or called late; `MismatchFlagged` |
| `imports` | scene `imports`: 3 batches (one CSV, two readings of one document), 4 rows, 2 requests, 2 commits of a batch; scene `by_hand`: the book and two forms | `RollbackComplete`, `NothingDangles`, `ImportedOnce`, `OnboardedWhole` |
| `reminders` | scenes `rows` (1 tenancy, 2 items in one place, 2 writers), `ladder` (2 jobs, three days), `digest` (2 jobs, an administrator who changes a preference), `reader` | `DeadlinesFollow`, `ToldOnce`, `ReminderReaches`, `DeferredReaches` |
| `access` | scenes `invites`, `office`, `book` (3 users, 2 invitations, 2 requests), `signin` (a limit of 2 failures, 2 tokens, 2 attempts), `scopes` and `asking` (2 clients, 2 people, 2 units, 2 leases; in `asking` one archived row and one ended lease), `doors` (2 browsers, 2 offices, 3 seats) | `SeatedOnce`, `Governed`, `LockoutHolds`, `ResetOnce`, `DoorsAgree`, `AskedRightly`, `DoorsLead` |
| `records` | scenes `vault`, `handover` (2 documents, 2 clerks), `writing`, `reading` (pages of 1, 4 events), `answers`, `consent` (2 links, 2 offers, 2 requests of the tenant, 2 of staff) | `VaultAccounts`, `HandoverTold`, `ChronologyTotal`, `ReadersServed`, `AnswersKept`, `ConsentHeld` |
| `overlap` | overrun, 2 calls | **violation** of `Exclusive`: two calls hold one row |
| `notice_evidence` | 1 notice, 2 requests | **violation** of `ServedIsTold`: a served notice without its one row |

The scenes of a run share no row; a variable chosen by the initial state says
which of them a behaviour runs, and each satisfies the run's properties of the
others by standing still. What a scene holds still (a preference changed at most
once, a death only on the first day) is said in its MC module.

Why the bounds are enough. Every hazard listed takes two actors: one that reads,
one that writes in between. Two requests (workers, owners, clerks, jobs) are
therefore the least that shows it, and where there is a proof it removes the
bound. Two cases on one tenancy are what the partial unique index allows one
after the other; three offers give a supersede, a counter and an offer of the
other case; two readings of one document are the second import of it. Two and
three tries, a failure limit of two and two pages are the least that have a
first, a middle and a last. One crash suffices where a recovery leaves nothing
behind but the row. The named bounds are `MaxCrashes`, `MaxDeaths`, `MaxTables`
(with one table a behaviour of `Obligations` uses the cheque or the request, which
share only the flag machinery), `MaxCommits`, `MaxRows`, `MaxEntries`,
`MaxChanges`, `MaxFails`, `MaxEvents`, `MaxRecords`; nothing else is bounded but
the finite sets of ids.

`CHECK_DEADLOCK FALSE` is said where the finite sets of ids run out (all offers
made, all links minted, every row terminal) and the system rightly stops; the
notify, obligations and daily runs check for deadlock too. Symmetry is used only
in runs without liveness, on ids that no definition tells apart.

### Fairness

In `Notify`, time passes (`WF` of `Time`); a `dispatchPending` call that has
started goes on unless it dies (`WF` of `Proceed`: Node runs the continuation of
a settled await, and the statement timeouts of the database settle each one); the
runner polls for ever (`WF` of `Poll(Runner)`: the `for(;;)` of
`runner.ts:52-67`, or the cron). No other call is promised to start, no request
to arrive, no provider to answer well.

In `Obligations` a daily run goes on and starts again (`WF` of each job's
steps): the loop of `runner.ts:52-67` starts one every hour, and one that threw
leaves `lastDaily` as it was, so that the loop starts it again. A person's
request goes on once it is under way (`WF` of `Busy`); nothing makes people ask,
and due dates need not pass.

In `Reminders` each process of the daily jobs goes on and starts again unless it
dies, the outbox ends every e-mail (what `Settles` says of it), and the window of
a digest passes. Nobody has to write a tenancy or change a preference.

## 4. What is proved

Every theorem holds for every value of the constants (any number of rows,
workers, requests, links, batches, documents) under the assumptions its module
names, and is checked to the last leaf. The argument is the same everywhere: an
inductive invariant, made of named parts, that says what a request at each step
has in hand; one lemma per group of steps that says what such a step leaves
(`Moved`, `Move`, `...Kept`), so that each part of the invariant treats only the
steps that touch it; and a temporal step at the end. The parts were checked by
TLC on the run's instance before they were proved.

*Notify* and *Outbox* (`NotifyProofs`). `TypeOK`; `AttemptBudget` by `Budget` (a
snapshot in hand never shows more tries than are left, and no write goes beyond
the limit, whoever overlaps); `NoSecretAtRest`; the two are
`LateWritesHarmless`. With `~Overrun`: `Exclusive` by
`Owned` (a held row is processing under a live lease, holders are disjoint and
snapshots agree with the table), and from it that the outbox implements
`JobQueue`, step by step. `Located` says which handler phase belongs to which
kind of row, `Quiet` that idle calls hold no phase; `DispatchedMeansHandled`
needs `Created` and `Handled` (once past the read, a send's message has left
QUEUED for good before the handler returns), `SentMeansAccepted` needs `Honest`
(whoever is about to record holds an accepted send), and `SendOnlyQueued`, with
`~Overrun`, needs `Fresh`: what a worker read of its message is still so.

*Renewals* (`RenewalProofs`). `Well` (types, and `Shape`: what each step has in
hand), `Grounded` (an offer that exists belongs to a case that exists; agreed
cases are decided), `Ledger` (for each event, rows written plus requests about to
write equal at most what happened, and exactly that if nobody died),
`DecisionStands` itself, and `Ready` (a request about to serve has seen an
approved notice, and approved notices do not go back). From them
`DecisionStands`, `TimelineTold`, `ServiceApproved`, and that the loop implements
`Agreement`.

*Guidance* (`RenewalProofs`). `ViewsAgree` needs `Picked`: all but the newest
case of a tenancy are RENEWED, and then the newest is the live one, so picking
by creation and picking by last write choose the same. `PageLeadsOn` needs
`Heads` (versions are unique, and the latest offer is open, or is the one
accepted, or a request above it is under way), `OnPath` and `Facts` (what must
have happened for a case to be where it is). `Ladder`, `CodesAre` and `ViewsAre`
turn the ladder of conditions that the page goes through into one clause per
answer.

*Approvals* (`ApprovalProofs`). `Filled` (what each step has in hand), `Spent`
(each link's uses bound the decisions made or still possible through it), `Owed`
(evidence written or still owed equals the decision), `Cleared` (between closing
and creating there is no pending approval, unless requests overlapped). From
them `WithinCap`, `OneDecisionPerLink`, `SignOffTold`, `OnePending`, and from
the types alone `DecisionFinal`.

*Obligations* (`ObligationProofs`). `ChequeTrail` needs `Trailed`: a status
written without its evidence is *told* by the request that is about to note it,
and a transition to a later status was allowed only from a status whose own step
had been told; the invariant survives stale writes because a step told is never
taken back, unless the teller dies. `UploadBacked` needs `Paid`: for each link,
uploads on the timeline plus requests between their use and their upload never
exceed its uses, and these never its cap; that set of requests is counted, so
the proof rests on the theorems about finite sets. `FlagsAgree` is `FlagInv`:
the partial unique index (`Unique`); an undisturbed subject has at most one
request at work (`Alone`), which knows what it is about (`Shape`); and what the
flag, the subject and that request's next step say agrees, step by step
(`Agreeing`).

*Access* (`AccessProofs`). `LockoutHolds`: failures that did not overlap are
counted, and the lock follows the count. `ResetOnce`: a token that nobody else
presented meanwhile is marked before its request ends. `SeatedOnce`: `Meeting`
(unless the invitation, the person or the contact is `raced`, at most one
acceptance works on it), `Once`, `Person`, `Owner` (one of seats taken, marks
written and requests under way accounts for the other). `Governed` is inductive
with the types: every removal looks at the table it changes, so the remover is
left, unless it was removed meanwhile. `DoorsAgree` needs only the shape of the
records: list and getter are two formulas, proved equal, and equal to what is
meant, for any set of rows. `AskedRightly` is proved from the same shape: the
options that the form puts together unit by unit are those that the service
works out from the subject (`OptionsAre`, `PostableAre`, `FormHonoured`), and the
contacts of a subject lie in what `ids` collects for whoever follows it up
(`DelegateSends`, `AskedFind`, `AssigneeListed`). `DoorsLead` needs `DoorTypes`:
every session's person is known, every seat is in a provisioned office and its
role can be hired. `PickedSeat` finds the best seat of a finite table by rank and
number; what a page asks then depends on the role alone (`ByRoleAlone`), so the
rail is settled role by role (`RailAsks`, `OffersOpen`) and the redirects case by
case: strangers, people without a seat, people with one (`LeadsStranger`,
`LeadsUnseated`, `LeadsSeated`).

*Records* (`RecordsProofs`). `VaultInv`: whoever signs, serves or tells has
looked (`Vouches`), each document is written by one upload (`Alone`), and log and
timeline account for what is over (`Accounted`, `Answers`). `HandoverInv`:
`Claim` (who is about to tell holds a side that is set), `Told`, `Settled`,
`Halfway`, `Followed`, `Spared`. `ChronologyTotal`: the records are sound and
`RecordsLast`, a record that an event names stays, but for the replaced items
and the offers the property names. `ReadersServed`: `Paging` counts, for each
reader, how many of the events there at the start lie behind the pages read;
the list grows at its head, so an offset only ever repeats. `Exporting`,
`Gathered` and `FiledOnMade` say the same of a pack's papers and the access log.

*Tenant* (`RecordsProofs`). `InHand` (what each step holds), `Numbered` (versions
of offers), `Paid` (uses of a link = answers told + refused + in hand, counted as
finite sets; an inequality once somebody was cut off), `AcceptedOnce`, and
`Recorded` with `Stands` (what was told of an answer stays true: the tables only
grow there, `Grow`, `Firm`). From them `AnswersKept`; from `Consistent` (record
and timeline differ only while somebody is between the two writes)
`ConsentHeld`. The constants' `TenantAssumption` is a hypothesis of the
theorems that TLC evaluates in `MCRecords`.

*Imports* (`ImportProofs`). `ShapeInv` says what is drafted and stored: ids carry
row, request and number of the commit, drafts are of the rows resolved so far,
rows remember ids of their own. `RollbackComplete` needs `Remembered`: a batch
committed once is remembered whole by its rows, and a rollback under way has all
of it in hand. `NothingDangles` needs `Met` (two requests that write at once both
note it), `DueInv` (what is about to become due is live) and `LiveInv` (the
parties of a draft are live, and what a rollback takes names nobody that a
living tenancy names). `ImportedOnce` needs `Once` (a batch without company has
no second commit under way) and `Attached`: a document whose readings had no
company is attached to the one live tenancy made from it, so that resolving a
row onto it is refused. A document is read as one row
(`ImportsAssumption`), as `reviewAndCommit` does.

*The book by hand* (`ImportProofs`). `BookInv` says of every request which party,
property and tenancy it has in hand at each step (`PartiesKept`, `PropertyKept`,
`TenancyKept`: named in the form or made for it, and written as far as the
request has come), that two requests never have one tenancy or one new party in
hand (`Apart`), and that the audited tenancies are those of the requests that are
done; `BookIsWhole` draws `OnboardedWhole` from it. That the cheques come to the
rent is `ScheduleSums`. The sum is a recursive function, so its value is not
computed but characterised: whatever starts at zero and adds the cheques one by
one is the running total (`TotalOf`), for two such would differ at a least place
(`LeastOf`, from the well-foundedness of the naturals); the cheques, all alike but
the last, have an obvious one.

*Reminders* (`ReminderProofs`). `DeadlineInv`: every row belongs to a tenancy
that is there or was made by hand (`RowsSound`); a regeneration's list is derived
from what it read (`HasInHand`); and a tenancy that was never `raced` is
`Orderly`: one request at work on it, one row of a kind and item, and for each
step of the request what is still to come (`Under`): a deadline it called for is
open or on the rest of its list, an open row it does not call for is among those
it is going to look at. When the list is empty that is `DeadlinesFollow`. A raced
tenancy promises nothing, but its rows do not disturb the others (`SameRows`,
`Calm`). The daily jobs see of all this only `RowsKeep`: rows stay, with their
tenancy, kind and item. `FeedInv` says of a job on a rung that each overseer is
still to be told, has the item, or is being mailed (`HasWork`), so that
`REMINDER_SENT` is written when all have it (`Reached`, whoever overlaps or
dies). With no overlap one job at a time is at work (`Sole`), and with no death
either an item is mailed once, being marked or about to be (`MailedOnce`), and a
rung is told only before its evidence, by the job that has it in hand, to a user
not yet told (`ToldFirst`). `ToldOnce` then needs `OneRowEach` of `DeadlineInv`:
two rows of one deadline would be two rungs.

Only model-checked:

- `Settles`, `WaitingSwept`, `MismatchFlagged`, `DeferredReaches` are liveness,
  which this prover does not do.
- `Exclusive` under overrun and `ServedIsTold`, which do not hold.

## 5. Findings

Shown by a run (`PROJECT.json`, `findings`): one lease for a whole batch
(`overlap`); a notice served without its one evidence row (`notice_evidence`).

Met while modelling. The models contain the behaviour, and the properties say
what holds around it:

- *Renewals.* Two proposals at once leave two open offers (`renewals.ts:839`).
  Two tenant counters at once: the unique version refuses one after everything
  open was superseded, and its use of the link is gone. A counter or a question
  from a stale page is not checked against the offer's status
  (`renewals.ts:1120-1162`, against the comment at 1054-1056). A notice served or
  terms proposed after the acceptance, or a case opened on a renewed tenancy,
  lead the guidance into a dead end; AWAIT_TENANT waits on a link that may have
  expired (`renewals.ts:432`). The renewals page shows the first hundred events,
  oldest first.
- *Links.* `src/README.md:237` calls the TENANT_OFFER link single-use;
  `renewals.ts:989` mints it with `maxUses: 5`. `secureLinks.ts:90-91` wants every
  caller to take the use before the side effect; `listings.ts:245` and
  `tenantPassport.ts:242` take it after.
- *Notifications.* A retry of a refused send never reaches the provider
  (`src/README.md:127`). No running caller sets `preferChannel` to WHATSAPP.
- *Access.* The deadline filter of `contactScope.ts:195-199` shows a landlord of
  record deadlines of the unit's other leases, against the comment at 71-75. A
  removed agent's assignment goes on blocking the unit, and reactivation revives
  it. `resolveCtxFor` falls back to the highest seat even if its workspace is
  shut, where `authz.ts:97-99` says it falls through to an active one. Nothing
  sets the workspace cookie, so a second seat of equal or lower rank cannot be
  reached. An operator's own address as the first administrator seats an
  operator (against `request.ts:105-108`). `/admin` sends others to `/dashboard`,
  which refuses an ORG_ADMIN, whose home is `/members`. An agent is offered "New
  property" and the page throws, because it lists clients. Two administrators
  who remove each other leave nobody. `acceptInvite` resets the password and
  the failure counter of an existing account and does not look whether the
  workspace is archived. A request for proof about an archived client is still
  taken (`proofs.ts:71-78`), though the form no longer offers one; and a payment of an
  archived tenancy still has somebody to ask, where the tenancy has not
  (`proofs.ts:79-94`).
- *Registry and imports.* A refused onboarding leaves the contacts it made, and
  a second submit makes them again; `createTenancy` does not check the ids of its
  parties; a form may use what was archived meanwhile, and two forms may let one
  property. `evenChequeSchedule` gives a negative last cheque for small rents. The
  rule that a fiduciary's property needs a client (`properties.ts:8-9,76-80`) is
  not applied by imports (`imports.ts:274-290`) or by an update. A rollback puts a
  document back to where its own commit found it, even when another commit has
  moved it since.
- *Records.* Two acknowledgements at once lose one (`moveIn.ts:125`). The
  chronology loses events of proof requests and papers on replaced payment items,
  and of proof requests on an offer (`evidenceQuery.ts:207-210`). A page lists no
  property proofs, a pack's manifest no receipts of payment items.
  `documents.ts:210` and `vault/[id]/page.tsx:12-18` differ on who may see what.

## 6. Not modelled

- Listings, enquiries, viewings and offers on listings; the contract pack and the
  tenant's passport: small machines of one table each, with no other writer.
- Provisioning beyond what `Doors` needs: first invitations, statistics.
- The arithmetic of the rent decree, and the figures of offers: no property here
  depends on an amount, except where `Registry` splits a rent.
- Read models (dashboards, statistics), PDF rendering, the pages' layout, the
  seed: they change none of the modelled state.
- Storage, mail, WhatsApp and the model that reads documents are external: what
  they answer is a choice, and what the code does with each answer is modelled.
- The rate limiter, a counter in memory per process; the renewal reminder sweep.
- The database schema is modelled where it decides an outcome: unique and partial
  unique indexes, guarded updates, transactions at READ COMMITTED.
