# TLA+ verification of the Steel Man Resumes platform

This directory holds TLA+ models of the parts of this repository whose
correctness depends on order: requests that overlap on serverless instances,
a person and an organization's staff acting on the same rows, crons that retry,
emails that must go out once. TLC checks each model on a small instance, and
TLAPS proves the central facts for every size.

## The system

`apps/consumer` is a Next.js application on serverless functions; `packages/core`
holds the data layer; Postgres (with row-level security) holds all shared state.
There is no long-lived process. A request is a sequence of short READ COMMITTED
transactions (`packages/core/src/db.ts`: `query`, `runScoped`, `runAsUser` each
run one transaction), many requests run at once, and an instance may die between
any two of them. Where several rows must move together the code uses one
statement, a PL/pgSQL function (`smr_*`), a row lock or an advisory lock; where
it does not, what a request read may be stale when it writes. That is the shape
every module here takes: one action per transaction, requests as records that
say which transaction comes next.

### Inventory

| Part | State | Operations | What is hard | What makes it right |
|---|---|---|---|---|
| Organization seats (`096`, `101`, `orgInvite.ts`, `refineryAccess.ts`, `accessCode.ts`) | `access_code.times_redeemed/max_redemptions`, memberships, departures, offers, invites | redeem, attribute, offer/accept/decline/withdraw, invite/claim/roll back/resend/revoke, leave, leave all, erase account | requests of one person and of staff overlap; a request spans transactions | the cap; the counter covers the holders; seats are durable; consent; one email a day |
| Package delivery (`packageDelivery.ts`, `packageEmail.ts`, `email-package-*.ts`, `079`, `086`) | delivery queue row, version claims, resume-day claims, saved provider payload, revisions | revise, trigger, cron claim, send, reclaim, reschedule, purge | crash between provider call and completion, lease expiry, overlapping crons, newer draft while sending | a finished revision is delivered at most once; one email per resume per day; only the newest settled version |
| AI operation accounting (`ai-operation-server.ts`, `ai-usage-log.ts`, `087`, `092`) | one row per call with its reservation, status and cost; usage rows; the policy and bonus | admit under the lock, call the provider, record usage, finish, fail, purge | concurrent admissions, policy edits, midnight, a crash between admit and finish, unpriced calls, calls side by side | a day's calls and dollars stay within what a call had read; no bill is forgotten before it is measured |
| Tailor batch (`tailor-batch*.ts`, `094`) | a job row per (person, batch, index) | claim, run, retry, save, purge | double submit, retry of a job still running, lost answer | one model run per job at a time; a saved result is final |
| Staff and organization lifecycle (`097`, `100`, `orgStaffAdmin.ts`, `staffInvites.ts`, `orgAdmin.ts`, `053`, `partnerDashboard.ts`) | `org_staff`, staff invites, exceptions, caseload, owner, `max_staff`, `is_active` | add, set role, remove, except, assign, invite/resend/revoke/answer, change owner or cap, close, reopen | the guard is read before the write; the cap is counted without a lock; a removal is two transactions | admins only by authority; an answer keeps the cap; no forgotten exception; nobody left with someone removed |
| Sharing and required sharing (`051`, `054`) | grants, requests, acknowledgements, policies | ask, grant, revoke, acknowledge, set policy, leave | policy changes under an open request; leaving ends everything | staff read only what is granted now |
| Refinery gate (`096`, `refinery-access*.ts`) | seat rule, legacy list, seat requests | decide, request, grant | gate and membership change apart | the seat rule |
| Artifact revisions (`081`, `artifactRevision.ts`) | numbered revisions, 50 kept | save, prune, delete | two saves take the same number | numbers unique and growing; the newest finished kept |
| Account security (`065`-`067`, auth routes) | rate windows, TOTP last step, sessions, tokens | sign in, verify, rotate | replay, two requests with one code | a code works once |
| Impersonation | impersonation sessions | start, write, end | expiry between check and write | no write after it ends |
| Voice sessions (`035`) | session, minutes | start, tick, end | two tabs, lost end | minutes never pass the cap |
| Premium and progression (`079`, progression) | requests, grants | ask, decide, revoke | two decisions | one decision per request |
| Vault, secure objects, deletion tasks (`secureObject.ts`, `vaultDocument.ts`, `avatarAsset.ts`, `deletionTasks.ts`, `037`, `042`, `043`, the delete-data route) | bytes in the object store, `secure_object` with its metadata row, `deletion_task` | upload, delete, erase with or without the account, hourly cron | object store and database apart, a request that dies between any two steps, tasks that always fail | dropped bytes have a pending task; done means gone; a document keeps its bytes; what is deleted goes away |
| Record check (`080`) | sealed checklists | run, save | serializable retry | owner only |
| Org structure, fields, views, workflow drafts, referrals, retention (`103`-`106`) | rows per organization | edit | version checks | last write does not lose an edit |
| Staff handoff, rewards, team talk (`109`-`111`) | requests, points, threads | request, accept, award | two accepts | one owner per client |
| Directory (`061`-`091`, `112`) | listings, contributions | publish, review | stale review | reviewed text is what is published |
| Outcomes, forge sessions, finish gate, truth checks, resume render, ATS | profile data | pure functions of the profile | wording and layout | tested directly |
| Job search, t.ROY, SCORM tablet, UI packages, scripts | client state | pure I/O and rendering | provider behaviour | not state machines of this code |
| `apps/web`, `services/worker` | dormant | none in use | - | - |

How the parts interact: an organization's code row is what a seat, an invite,
an offer, a staff place and a shared record all refer to; leaving an
organization ends what it could read. A saved revision puts the package queue's
row in place in the same transaction (a trigger), the hourly cron and the finish
page both run the same send, and the send reads the account's address and its
switch. A tailoring batch saves a resume (a vault document and, in the forge, a
revision) and pays for its run through the AI operation accounting. Staff of an
organization are people of their own seat pool, but the row that closes an
organization and names its owner is the same `access_code` row. Deleting one's
data leaves every organization (`OrgSeats`) and files every stored object in the
ledger of deletions (`Vault`) in one request.

## Modules

| Module | Models | Of |
|---|---|---|
| `OrgSeats` | seats, memberships, departures, offers, invites, accounts, requests in flight | `096`, `101`, `packages/core/src/orgInvite.ts`, `accessCode.ts`, `refineryAccess.ts`, `orgAdmin.ts`, the delete routes |
| `SeatLedger` | the abstract specification of the seat counter; `OrgSeats` implements it | what `096`/`101` promise an organization |
| `OrgSeatsProofs`, `OrgSeatsOfferProofs` | theorems about `OrgSeats`: seats and membership; offers and their emails | |
| `PackageDelivery` | the queue, the claims, the send, its callers and the mail provider | `086`, `packageEmail.ts`, `packageDelivery.ts`, `email-package-auto.ts`, `package-delivery-worker.ts` |
| `Mailbox` | the abstract specification of the mails a person gets; `PackageDelivery` implements it | what `email-package-auto.ts:23-24` promises a person |
| `PackageDeliveryProofs`, `PackageDeliveryDayProofs` | theorems about `PackageDelivery`: queue, claims and mails; addressee, day and mailbox | |
| `TailorBatch` | the claim row of one job and the requests that race for it | `094`, `tailor-batch.ts` (core), `tailor-batch-server.ts`, its route |
| `TailorJob` | the abstract specification of one job; `TailorBatch` implements it | what `094` and `tailor-batch-server.ts:9` promise a person |
| `TailorBatchProofs` | theorems about `TailorBatch` | |
| `AiAllowance` | one person's AI calls: policy, advisory lock, insert, provider calls, usage rows, finish | `ai-operation-server.ts`, `ai-usage-log.ts`, `progression-server.ts`, `ai-call.ts`, the AI policy route, `087` |
| `AiAllowanceProofs` | theorems about `AiAllowance` | |
| `OrgStaff` | the staff, exceptions, caseload and staff invitations of one organization | `orgStaffAdmin.ts`, `staffInvites.ts`, `orgAccess.ts`, `partnerDashboard.ts`, `orgAdmin.ts`, `053`, `100` |
| `OrgStaffProofs` | theorems about `OrgStaff` | |
| `Vault` | stored documents and photos: store, rows, the ledger of deletions and its cron | `secureObject.ts`, `vaultDocument.ts`, `avatarAsset.ts`, `deletionTasks.ts`, the delete-data route, `037`, `042`, `043` |
| `VaultProofs` | theorems about `Vault` | |
| `*MC` | small sets, starting caps and symmetry for TLC | |

Mutated forms. Some definitions are preceded by an operator whose comment starts
with "Mutated form": a plausible slip in the code it stands for (a dropped guard,
`>` for `>=`, a missing reset). None is used by the specification. For each
property there is one such slip that makes TLC refute it, so the property is
known to say something about the code.

### OrgSeats

An organization is its `access_code` row: `claimed` is `times_redeemed`, `cap`
is `max_redemptions` (`NoLimit` when null), `codeOpen` is "active and not
expired". `member` and `departed` are the rows of `access_code_redemption` and
`access_code_departure`; `offer` is the status of the newest `org_seat_offer` of a
pair; `invite` and `recent` are the `org_invite` row and its `last_sent_at`; `acct`
says whether a `users` row exists and has ever signed in ("shell": created by an
invite and never used). `charged` and `offerMails` are history: who paid a seat, how
often an offer was emailed since the last day passed.

One action is one transaction. `redeemAccessCode` and `smr_redeem_code` are single
actions because the function locks the code row before it reads anything it
decides on. A request of several transactions is an entry of `req` whose stage
names the transaction to come: attribution of a carried code (read, then
redeem); an accept (check, then redeem and mark); an invite of a new address
(create shell, claim, roll back, list); an invite of an active account (list,
offer, list again); resend (touch, offer, list again); revoke of a seat nobody
used (read, then the one statement that deletes the membership and refunds what it
deleted, `FreeSeat`); revoke of an offer (withdraw, unlist); leave all and erase the
account. Overlapping revokes of one seat are part of every run of two requests: both
have read the same row, and only the statement's own count keeps the seat from being
refunded twice. The reads that open an invite (`InviteCheck`, `InviteNew`) and the clock
test of a resend (`ResendTouch`, which the UPDATE repeats) are one step each, since every
write after them repeats the test it rests on, but for the pending test of
`InviteCheck`, which Disagreements takes up. Two locks that outlive one
statement are modelled as guards: `OfferLocked` (an accept holds its offer with
FOR UPDATE) and `RowPinned` (foreign keys pin the `users` row under an open
transaction). `smr_leave_all_orgs` is split where its statements take separate
snapshots. `Crash` drops a request between two transactions.

Properties that hold with any overlap:

- `SeatCap`: the counter never passes the cap. `LedgerCovers`: it never says
  fewer seats are used than people hold. `SeatBooks` (proved, not run) is the
  strengthening behind both (members and departed paid; the counter covers the payers; a
  leave-all in flight is still owed what it read).
- `DurableSeats`: the counter goes down only with the membership of a person
  who never signed in, one for one. `ReturnIsFree` (proved, not run): coming back
  costs nothing.
  `SeatOnlyForOpenOffer`: a decline or a withdrawal cannot slip under an accept.
  `OneOfferEmailADay`: whatever staff add, withdraw and resend at once.
- `LedgerSpec`: every step of `OrgSeats` is a step of `SeatLedger` or changes
  nothing of it, under the mapping `holders <- charged`.

Properties that hold while requests run one at a time, with crashes between their
transactions (`seats_one_at_a_time`): `SeatsMatchPeople` (the counter is exactly
the people charged) and `ConsentOnAttach` (an account in use is attached only by
its owner's yes). Both can fail when two requests overlap; how, and what else
does, is under Disagreements.

### PackageDelivery

One person, one resume. `revs` are the revisions in order, `job` is the
queue row, `revClaim[r]` and `dayClaim[d]` are the two kinds of row in
`forge_package_email_sent` with the row's age ("fresh" under 23 hours, "late"
until 24, "old" after), its lease, its delivered mark, whether a payload was saved
for a try and to whom. `acct` is the address and the switch. The provider is
external: `window` is the set of idempotency keys it still knows, `inbox` the
mails it took as new.

A worker is one run of `sendFinishedPackage`, of the page (`Pages`) or of the
hourly cron (`Crons`), and its stages are that function's awaits in order:
`Looks` (every refusal before the claims), `ClaimsRev`/`SeesRev` (the claim's two
queries, which do not share a snapshot), `ClaimsDay`/`SeesDay`, `Yields`,
`Builds`, `Prepares` (saves the payload), `ChecksTarget`, `Sends` (accepted,
refused, accepted with its answer lost), `CompletesRev`/`CompletesDay`, the
`finally` block (`GivesRevBack`, `GivesDayBack`), and for the cron
`FinishesJob`. `QueryFails`, `FinishFails` and `Crashes` are the failures.
`SaveRevision` includes the trigger. Time is the set of things it
brings: a lease ends, a row ages, a revision settles, a job falls due, midnight.
Midnight may pass under a send in flight, though no send spans two midnights. A mail in
the inbox carries two days: the one it was claimed for, which the code takes from the
clock at the first look (`email-package-auto.ts:106`, `:132`), and the one on which the
provider took it. With `SlowSends` a page's send may outlive its two-minute lease. A row under a running send does not age: an
instance lives five minutes, rows age in hours.

Three merges of the code's queries lose nothing the properties see. `Looks` reads the
revision, the account and the clock at once: each of them is read again, or repeated by
a write, before the transport (`Builds`, `ChecksTarget`, the claims). `FinishesJob` is the
UPDATE and the DELETE that follows it, of the same row and on complementary conditions
that name the revision. A claim and the purge before it (`CronClaims`) meet no other writer.
A send that throws before its claims is finished as "failed" by the catch block, once.

Properties: `MailedOnce` (no revision is taken as new twice),
`MailboxSpec` (every step of `PackageDelivery` is a step of `Mailbox` or changes nothing
of it, under the mapping `told <- Told`, the rows marked delivered; it implies
`DeliveredMeansMailed`, which is proved, not run), `OneSender` (two sends of one revision are never at the
provider together, when no send outlives its lease), `JobIsNewest`,
`JobEndsByItsOwn`, `OneMailAFaultlessDay` (until something fails each day is claimed for
one mail, and two mails go out on one day only if the first of the two was claimed the
day before and taken after midnight), `SendsToCurrentAddress`, and the liveness properties `JobsEnd` and
`PackageArrives`. `JobsEnd` says that again and again there is no job, or only one that
waits for a day past the bound `MaxDay`.

### TailorBatch

`row` is the claim row: status, attempts, whether a result waits on it, and its
age since `claimed_at`. `resumes` and `charges` are what the job leaves behind:
documents saved under its key and runs of the generator that count. A request
goes through `runBatchJob` one call at a time: claim, `Finds`,
`SavesApplication`, `Generates`, `SavesResume`, then `RecordsSaved`, or
`KeepsResult` when the save failed, or `Releases`. A run that counted and whose answer is
lost, or holds no resume, is `LosesRun`. None of the three writes
to the row checks who owns it, as in the code; what keeps a late
writer away is only that the platform ends a request (`maxDuration`) before
its claim is stale. `Tick` is the clock that the row and the requests share; its
unit is left open, and `MaxDuration <= StaleClaim <= KeepDays` is all the proofs
ask of the three durations (300 s, 6 minutes, 7 days in the code). A request
that lives to see a tick is slow, and slow requests, failed calls and crashes
draw on one bound, `MaxFaults`. The contents of the application row and the
cover letter are left out. So is a person who deletes a saved resume before
its job is recorded: the next try would rightly run again.

Properties: `OneRunner`; `ExtraRunsHaveFaults` (each counted run after the first
has its own fault); `RunsOnlyWhenNothingIsKept`; `JobSpec`; `JobGetsSaved`.
`JobSpec`: every step is a step of `TailorJob` or changes nothing of it. There a
request has a hand on the job: empty, with a result, or spent; `Hands` reads it off
the stage and what the request holds, and the job is closed when the row says saved;
a run whose answer is lost is the job's `Waste`.
It implies `SavedIsFinal` (proved, not run), that a resume is stored only from a result
somebody ran for, and that saved is written only over a stored resume.
"Never charged twice" does not hold of the design without the word "fault": the
lookup `findSaved` treats its own failure as "nothing there", and a purge
forgets the key.

### AiAllowance

One person's calls of AI tools. `op[c]` is the `ai_operation` row of call `c`
(status, day, `reserved_usd`, what its usage rows add up to, whether one of them
has no price, the two flags `finish` sets), `call[c]` what its request knows and
does next, `holder` the person's advisory lock. `ReadsPolicy`, `ReadsAllowance`,
`Opens` (the transaction's `now()`), `Locks` (the lock, then the insert's
snapshot and verdict, `Fits`) and `Commits` are `beginAiOperation`; `Fits` is the
WHERE of the insert, one operator per limit: the tool's calls and dollars, the
progress allowance of a new account, the bonus. `Sends` and `Answers` are a
provider call and its usage row, `Finishes` the one update that settles the row.
A crash rolls back an open transaction and loses the answers in flight; a commit
whose answer is lost leaves a running row. `EditsPolicy`, `GrantsBonus`,
`LooseUsage` (usage of no operation) and `Midnight` happen at any time.

Money is counted in provider calls: each costs one unit, and each has one usage row.
Usage of voice sessions is `LooseUsage`. A usage row is priced or not. The third
status, an estimate (audio), counts in the sums like a price and never gives the
reservation back (`ai-operation-server.ts:102`): it keeps more than a priced row does and
is left out. A streamed
answer that the client drops before `onFinish`, or a voice operation nobody ends, leaves
its row running and is one of the modelled crashes; so `StuckRunsHaveFaults` calls it a
fault. Edits of the tool policy and bonuses are steps; the policy of the progression
(reserve, daily dollars, base allowance) keeps its value within a run. The purge takes rows of more than seven days,
outside every day a limit reads. The refusals of premium tools, of a missing
seat and of a failed read are `ReadsAllowance`'s refusal: none writes anything.

Properties: `CallsStayWithinLimits` (what one of the day's calls had read bounds
them all, though the policy is read outside the lock), `BudgetIsKept` (bills and
reservations of a day; only what a call costs above its own reservation can pass
the limit), `BillsAreCounted`, `StuckRunsHaveFaults`.

### OrgStaff

`role`, `exceptions`, `caseload`, `invites` are the rows; `owner`, `active`, `cap`
belong to the organization; `lock` is its row, locked from the first statement of
an accepting answer (`100:379`) and shared, through the foreign key, by every
insert of a staff row or an assignment. A request's first step takes the guard
of its route with the reads it decides by (`AddSees`, `SetRoleAsks`, `InviteSees`
and so on), its later steps are its writes, each of which repeats in its WHERE
what the statement repeats (`AddWrites`, `SetRoleWrites`). A removal is two
transactions, the row with its trigger on the exceptions (`RemoveWrites`,
`ClearsExceptions`) and the caseload (`Releases`). An answer is `AnswerLocks`,
`AnswerReads`, `AnswerCommits`. `setOrgOwner`, `setOrgStaffCap` and `closeOrReopen` are the
platform's, at any time.

New and existing accounts are one path (both hold a place and say yes). The
record that an admin was added, titles and presets' individual denies are left
out: `exceptions` is the set of people who have any. `orderly` is history: no two
requests overlapped and no instance died so far.

There are two ways to a colleague's role, and they carry different authority. At the
console the owner and the admins manage staff and only the owner touches an admin; on
the support path a platform admin does, whatever their place in the organization.
`support` says which way a request came, `ComesBy` is its guard and `OverAdmins` what the
statement asks again about an admin. An account may have both ways open: the platform
admin of `staff_team` is sometimes an admin at the console, and there gets no more than one.
An ended invitation is the one row `Ended`: how it
ended and what it said is read by nothing. `AdminInviteSees` is the support path's invitation of an address without an account.

`parted` holds the former owners whose caseload nobody has released since: a change of
owner releases nothing, a later removal of theirs does. `CaseloadIsHeld` excepts those
people and nobody else.

Left out: the end of an account. Deleting a `users` row (`delete-data/route.ts:221`) takes
the staff row with it, whose trigger clears the exceptions, and empties `invited_by`
(`023:12`, `:25`); a participant who leaves takes their assignment along. Each only
removes rows, of the person who goes. `setOrgStaffRole` and the removal are asked only of
people who have a staff row; of others the code does nothing.

Properties with any overlap: `AdminsByAuthority` (who makes and unmakes an admin)
and `AnswersKeepCap`. While orderly: `NoForgottenGrant` and `CaseloadIsHeld`.

### Vault

`bytes` is the object store, `row` what Postgres says of each key (`free`,
`minted` when the bytes were put, `object` with a `secure_object` row, `document`
with its metadata row too, `gone`), `task` the ledger, in order of creation.
An upload is three steps (`UploadPuts`, `UploadInserts`, `UploadIndexes`), a deletion
three (`DeleteLooks`, `DeleteEnqueues`, `DeleteDrops`), an erase a listing, one
insert per object, one delete of every row of the person, and with the account
the `users` row and its cascade (`EraseLists`, `EraseEnqueues`, `EraseDrops`,
`EraseEndsAccount`). `CronReads` takes the oldest pending tasks, `CronDeletes` and
`CronMarks` are the store and the status, `CronFails` the catch block, `CronDies`
the end of a run before its last task. `missed` and `interrupted` are history:
keys an erase dropped unlisted and without a task of anybody's, and keys whose deletion
died half-way.

`Stuck` tasks stand for rows whose target the code can never delete: a reference
without `::` throws before the store is asked, and nothing but an operator gives
a task up. A request whose call fails, or whose answer is lost, is a request that
dies before or after that step. Attempts and error texts are not kept. A PUT
whose answer was lost and that lands later is left out. The session check of an upload
and its put are one step: an account that ends between them is as one that ends right
after the put and before the row. `NothingForgotten` is about recorded keys; the bytes of
an upload that dies before its row, or whose account ends there, are named by no row and
stay outside it.

Properties: `NothingForgotten`, `DoneMeansGone`, `MetadataGoesWithBytes`,
`DeletedGoesAway`.

## Runs

| Run | Instance | What it shows |
|---|---|---|
| `seats_pool` | two accounts, one organization with one seat, two requests, two email windows | two people race for the last seat by every door: cap, cover and durability hold, an accept spends a seat for an open offer only, every step refines the ledger, one offer email a window |
| `seats_one_at_a_time` | one account, two organizations (capped, growing, or not capped), one request, crashes | the properties that ask for one request at a time |
| `delivery_once` | one revision, one page and one cron, two addresses, sends that outlive their lease, two faults | one mail per revision, to the address of the moment; every step refines the mailbox |
| `delivery_queue` | two revisions, two days, one page and one cron, one fault (a crash, a failed query or a refusal), fairness | the queue row is the newest and ends; one sender at a time; one mail for a claimed day while nothing fails, with midnight under a send |
| `delivery_arrives` | two revisions, two days, the cron alone with five tries, two faults, fairness | a queued revision reaches the person |
| `delivery_second_mail` | two revisions, one day, one lost answer or other fault | refuted: two emails on one day |
| `tailor_once` | two requests, five faults, two purges, fairness | one runner; runs and saves; every step refines the job; a retried job is saved |
| `tailor_second_resume` | two requests, three faults | refuted: one job saves two resumes |
| `ai_allowance` | three calls of one workflow, limits of one call, of two dollars or none, two provider calls each, one event (policy edit, bonus, midnight, loose usage), one fault | limits and budget hold however the calls race, no bill is forgotten, a stuck row has its fault |
| `ai_unsettled` | two calls whose handler asks the provider side by side, no fault | refuted: a reservation is given back with a bill in flight |
| `staff_team` | three people (an owner, a participant, a platform admin), one participant on a caseload, two requests at a time and four in all, one invitation, one platform change or crash, two staff places or fewer | authority over admins at the console and on the support path and the cap of an answer with any overlap; exceptions and caseload while requests do not overlap |
| `vault_erase` | two keys, two requests, one cron that takes two tasks, one task that always fails, four rows of the ledger, one fault, fairness | nothing dropped is forgotten, done stays gone, no document loses its bytes, what is deleted goes away |

Why the bounds are enough. The seat rows of two organizations meet only through
a person and an account, so one organization with two people, and one person
with two organizations, are the two ways rows interfere; two requests give every
pairwise overlap; a cap of one makes the pool full at once, and the last seat is
where the count can go wrong; two 24-hour windows suffice for a clock that is
looked at once. A pool that grows is run with one request at a time; that growth
disturbs no overlap is what the theorems add. In the delivery, a revision
interferes with the next one only through the day's row and the job, so two
revisions and two days show every meeting, of which midnight under a send is one; one cron suffices because
the claim of a job moves its `due_at` in one conditional UPDATE, which excludes a
second, and page and cron together are two senders. The code's cap of 24 tries
matters only as "more tries than faults" or not: two tries reach the cap in the
runs about ends, five stay above two faults in `delivery_arrives`. Lost answers are left to
`delivery_once`, `delivery_arrives` and `delivery_second_mail`; to the job of `delivery_queue`
a lost answer is a send that failed.
In `tailor_once` five faults allow two whole failed runs and
one more, and a duration of two ticks lets a request be early, late for
`StartBudget`, and ended.
In `ai_allowance` a limit of one call and a budget of two reservations are both
passed first by the third call, so three calls reach every limit from below and
above; two provider calls per operation let one be priced and the other not.
In `staff_team` the third person is what makes an authority (the platform) that
is neither the owner nor the one acted on; one participant can be assigned, handed
over, unassigned and released; two places are full after one
addition beside an invitation, and a cap lowered to one first lets an addition meet an
answer at the last place; a longer team adds rows that nothing compares.
In `vault_erase` two keys let an erase list one and miss one; the tasks that
always fail (one) stay below what a run takes up (two), as the design needs
(`DeletedGoesAway` fails when they do not, see Disagreements), and a second task
for one key comes from two deletions or a deletion and an erase. A second run of
the cron beside the first would only repeat an idempotent delete; the theorems
cover any number.

Deadlock is not checked: in every model the work comes to an end when the
bounded saves, days and requests are spent, and the system may really be idle.

Symmetry is used only in runs without liveness properties, over accounts,
workers, pages, addresses or requests that nothing distinguishes.

## Fairness

`OrgSeats` assumes none: every property is about safety, and a person or an
instance may stop at any point.

`PackageDelivery!Fairness`: a running send goes on (`WF SendStep`; its end in a
crash is a fault, and faults are bounded), the hourly cron claims a due job
(`vercel.json` schedules it), and the clock goes on (`Clock`, one weakly fair action:
leases end, revisions settle, days pass). The one
strong fairness is of `JobFallsDue`: it waits half an hour of wall clock, which
pass whatever a page does meanwhile, while in the model the sends of a page can
disable it again and again (a page's requests are bounded, too). No fairness is
assumed of the person, of the page or of the provider's good will: what the
provider refuses is a fault, and `PackageArrives` says what happens when faults
are fewer than tries, leaving out a revision that was replaced, an account that
was edited, and a claim so old that the code prefers silence to a second mail.

`TailorBatch!FairSpec`: a request that runs goes on, time passes, and the person
retries (`WF Claims`): `JobGetsSaved` is a promise to a person who keeps
trying, and says so.

`Vault!FairSpec` is fair to the cron alone (`WF CronStep`): `vercel.json` runs
`/api/cron/deletion-retry` every hour, a run goes on to its next task, and its
deaths and failures are bounded faults. No request is promised to go on, and
none has to: `DeletedGoesAway` is about rows already dropped. `AiAllowance` and
`OrgStaff` assume no fairness; all they state is safety.

## Findings

Each is a disagreement between what the code does and what a comment of the
repository says of it, and the run that reaches it.

1. `delivery_second_mail`: the day's claim, undelivered because the provider's
   answer was lost, is claimed again after its lease by the next revision under a
   new key, and a second email goes out the same day, against
   `email-package-auto.ts:23`. What remains of that promise without a fault is
   `OneMailAFaultlessDay`; how it fails over midnight is under Disagreements.
2. `tailor_second_resume`: a retry saves the result that waits on the row and dies
   before `markSaved`; the row still holds the result and the next retry, which
   uses it without looking for a saved resume, saves it again
   (`tailor-batch-server.ts:127`).
3. `ai_unsettled`: the analyze route asks the provider for three answers side by
   side; the first failure ends the handler, `finish` sees only priced usage rows
   and gives the reservation back while two bills are still to be written
   (`analyze/route.ts:86`), against `ai-operation-server.ts:26`.

A smaller one has no run: the cap on tries is looked at only when a result is put
on the job, and the claim counts on without it (`packageDelivery.ts:10` and `:14`),
so a job whose runs die before they finish is tried past "this many tries".

### Disagreements

What follows was met while modelling, by reading or in a model checker's trace,
and has no run of its own. Each is a reason why a property above is stated the way
it is.

Seats (none of these is excluded by a property; those of "one at a time" fail so):

- `smr_leave_all_orgs` records the departures of its first statement's snapshot
  and deletes memberships in its last (`096:377`). A join that commits between
  them is deleted without a departure, and the next join spends a second seat,
  against `096:367-368` (`SeatsMatchPeople` with two requests).
- The rollback of a failed invite deletes the shell it created without asking
  whether another organization has attached it since (`orgInvite.ts:237`), against
  `orgInvite.ts:473-476`. A join between leave-all and the users row
  (`delete-data/route.ts:210-221`) is left to the cascade likewise.
- A person accepts two organizations' offers at once: each check sees no other
  membership, both redeem (`096:236-242`).
- An offer is created just after a revoke unlisted the person: it stays pending
  with no row staff can see (`orgInvite.ts:422`).
- A second add in flight finds the send clock already touched and skips the
  email of an offer nobody has yet been told of (`orgInvite.ts:278`).
- An invite checks that an account is a shell, the person signs in, the claim
  attaches them without their yes (`orgInvite.ts:205-222`; `ConsentOnAttach`
  with two requests).

Delivery:

- The day of an email is read at the first look (`email-package-auto.ts:106`, `:132`), not
  when it goes out. A send begun before midnight UTC and taken after it leaves the new
  day unclaimed, and the next revision's email of that day is a second one on it, with no
  fault at all, against `email-package-auto.ts:23` ("at most one automatic email per resume
  per day"). `TwoOnlyOverMidnight` says that this is the only way, and never a third.
- A claim whose second query finds no row, because the holder has just given it
  back, answers "unsure", and the worker drops the job although nothing was sent
  (`packageEmail.ts:93`), against `086:24-25`. `PackageArrives` is therefore about
  the cron alone.

Staff:

- The cap is counted in each addition's own snapshot: two additions at once, or
  one beside a lowered cap, pass it (`orgStaffAdmin.ts:126`). And the places an
  open invitation holds are counted only by the first, plain answer: the addition
  ignores them and the inserts of an invitation count nothing, though
  `orgAccess.ts:184-185` says both.
- An exception written by `smr_set_capability_override` after the removal's trigger
  has run outlives the staff row (`053:46`), against `053:73`; an assignment whose
  statement began before a removal stays with the person removed, against
  `orgStaffAdmin.ts:303`. `NoForgottenGrant` and `CaseloadIsHeld` ask for orderly
  requests for that reason, and the second excepts a former owner, whose change
  releases no caseload (`orgAdmin.ts:275`).
- An addition that saw its target on the staff inserts them anew when a removal
  commits first, for a person still connected by the code (`orgStaffAdmin.ts:120`).

Vault:

- An erase lists what to delete and then deletes every row of the person: an
  upload recorded between the two leaves bytes that no task names
  (`delete-data/route.ts:131-135`, and the cascade of the `users` row at 221),
  against "a retry can always re-derive what's left to delete". `missed` names
  exactly those in `NothingForgotten`.
- A deletion that dies after its task and before its row leaves a document whose
  bytes the cron then deletes, against "metadata never survives its bytes"
  (`vaultDocument.ts:167`); `interrupted` names those in `MetadataGoesWithBytes`.
  Exporting the vault then fails as a whole: `getDecryptedObject` throws for bytes
  that are missing, and only its null answer is skipped
  (`export-vault/route.ts`, the loop over the documents).
- A run takes the oldest 50 pending tasks and failing ones stay pending in
  place: 50 tasks that always fail would keep every later one from being taken
  up (`deletionTasks.ts:65`). `DeletedGoesAway` needs fewer of them than a run takes.

## Theorems

TLAPS checks all of them for every value of the constants that satisfies the
named assumptions.

`OrgSeatsProofs`, for any accounts (finitely many), organizations, requests,
caps and barred pairs. The inductive invariant is
`SeatInv == TypeOK /\ SeatCap /\ SeatBooks`. `SeatCap` alone is inductive, but
`LedgerCovers` is not: it says nothing of a person who is a member no more and
not yet departed, which is where a leave-all stands between its statements.
`SeatBooks` counts the payers, a set that only a refund shrinks, and `LeaversPaid`
keeps what a leave-all in flight has read inside it; that in turn needs that a
person at the leave-all stage stays signed in (`RowPinned`, `ActiveStays`). Each
step is classified by `LedgerMove` (a charge, a refund, a raised cap, or nothing), and
the cardinality lemmas `PayersGrow`, `PayersShrink` and `PayersSame` do
the counting once per class. From it: `TypeCorrect`, `NeverOverCap`,
`BooksBalance`, `CounterCoversHolders`, `SeatsAreDurable`, `ComingBackIsFree`,
`ImplementsLedger` (initial states map to initial states, every step to a ledger
step or a stutter).

`SeatsAlwaysMatchPeople` and `NobodyAttachedUnasked` are about requests that overlap
as long as they keep apart (`RequestsKeepApart`): while a request about a person is
under way no other step changes that person's account or memberships. Any
number of requests about different people do. Under it `Prepared` says that what a
request read when it began is still so when it writes, and `Settled` (with
`OnlyTheGone`: whoever paid is a member or departed until their account is gone)
is inductive. `OneWorkerKeepsApart` shows that one worker meets the condition, so
`OneAtATimeSeatsMatch` and `OneAtATimeConsents` are what `seats_one_at_a_time` checks,
for every size.

`OrgSeatsOfferProofs`, under the same assumptions. `YesNeedsOpenOffer`:
`AcceptHolds` says that an accept in flight stands on an open offer which no
other accept holds; a step that begins no accept leaves such an offer alone
(`HeldStay`), because every other writer of an offer looks at `OfferLocked` or,
where the account itself goes, at `RowPinned`. `NoSecondOfferEmail`:
`OneOfferEmailADay` is not inductive, since it says nothing of the send clock.
`MailInv` adds that an email sent leaves the clock moved unless the account is
gone (`EmailsAreTimed`), that only accounts in use are asked, which is why a
withdrawn never-opened invite may clear a clock (`OffersAreToUsers`), and that a
resend between its two writes has the window to itself (`ResendAlone`).

`PackageDeliveryProofs`, for any pages, crons, addresses, revisions, days and
bounds. `DeliveryTypeCorrect` and `JobOfTheNewest` come from one induction
(`Types`); `JobEndsOnlyByItsOwn` reads off it. `DeliveredOnce` and
`DeliveredIsMailed` need `SendInv`, five conjuncts none of which is inductive
alone: the row a worker holds is not old (`HeldRowsAreFresh`), a row tried once
remembers it (`AttemptsAreKept`), the key of a mailed revision is known to the
provider until its row is old (`KeysAreKnown`), so a second send meets either its
own key or a row it may no longer claim. Each action is reduced to what it does
to one claim row (`RowGoes`) and one worker (`RecGoes`), and `MoveKeeps` carries
the invariant over any such move. `SenderAlone` (`OneSender`) assumes
`SlowSends = FALSE` and adds that whoever works on a row holds its lease.

`PackageDeliveryDayProofs`. `SentWhereTheAccountIs` needs no more than the types:
only `ChecksTarget` brings a send before the transport, and what it holds is
addressed as its first read said. `OneMailWhileNothingFails` assumes
`SlowSends = FALSE` and proves, while `faults = 0`, that whoever works on a day
holds its row alone (`DayHeldAlone`) and that a day a mail was claimed for is delivered or
in the hands of the sender who got the answer (`MailedDaysAreClosed`); a sender
before the transport therefore knows that no mail has its day yet
(`HeldDayIsOpen`). A send is at most one midnight old (`NearItsDay`), so the day on
which a mail is taken is the claimed one or the next, and claims that differ
(`ClaimedApart`) leave room for two such mails on one day and for no third. The assumption on faults is needed: `delivery_second_mail`
is what one lost answer does. `ImplementsMailbox` is the refinement of `Mailbox`,
without any assumption: `ChosenAreFinished` says that a send under way is of a
finished revision, whatever was saved since it looked; a mail that the provider
takes as new is that revision's first (`SendInv`); and only the completion of a
row makes it say delivered, because a row of a mail that went out is never given
back or made new (`DeliveredRowsStand`). The keys, leases, tries and the whole queue
are stutters of the mailbox.

`TailorBatchProofs`, for any requests and any `MaxDuration <= StaleClaim <=
KeepDays`. `Alone`: a live request's row is running and exactly as old as the
request, so nobody can claim it and no purge can take it. From it: `TailorTypeCorrect`,
`OneAtATime`, `SavedStaysSaved`; `ExtraRunsArePaidByFaults` (via `RunsAccounted`,
which says where the unpaid run stands now; a run whose answer is lost brings its own
fault) and `KeptWorkIsUsed` (via
`KnowledgeHolds`: what a request learned before it generates is still true).
`OnlyKeptResultsSaveTwice` gives the exact extent of the finding on second
resumes: without a failed look, a purge or a result kept on the row, a resume is
saved only where there is none (`Unsaved`).
`ImplementsJob` is the refinement of `TailorJob`, step by step: `Grounded` adds
that a run stands behind every result and a resume behind every request about to
record one. A step of one request moves one hand (`OneHandMoves`); a Tick that
ends the one live request lets its hand go; everything else is a stutter of the job.

`AiAllowanceProofs`, for any calls, workflows, policies, bonuses, midnights and
faults. `Shaped` is the type invariant with the place of each row: a row belongs
to a call that works or has ended, the lock is held by exactly the call between
its verdict and its commit, and what is recorded never exceeds what was sent.
`CallsAlwaysWithinLimits` adds that a verdict stays true until its commit: only
the holder inserts, and no other step adds a row to a day or takes one back out
of "failed". `BillsAlwaysCounted` (for handlers that ask one at a time,
`~Parallel`) adds that a row that gave its reservation back has recorded all it
sent. `StuckAlwaysPaid` counts the stuck rows against the faults.
`BudgetAlwaysKept` (also `~Parallel`) is about sums. What the insert compares is a
sum of charges (a running row's reservation, a settled row's cost); what the
property bounds is a sum of shares, the smaller of what a call may yet have cost
and its own reservation. `Kept` says that a row's reservation is the one its
call asked for until it is settled, so at a verdict every share is covered by its
charge (`VerdictCoversShares`); between verdict and commit shares only shrink
(`SharesShrink`), and the commit adds at most the reservation the verdict left room
for (`MoneyStands`, `TotalOneMore`). `Total` counts units, pairs of a call and a
number up to its term, so that the library's facts about finite sets do the sums
and no induction over a set is needed.

`OrgStaffProofs`, for any people, requests and invitations: `StaffTypeCorrect`,
`AdminsAlwaysByAuthority`, `AnswersAlwaysKeepCap`. The invariant says of each
request what it read that cannot have changed (`Asked`), that an answer holds the
row lock and an open invitation (`Held`), and that what the answer checked (place,
organization, the inviter's authority) still holds when it writes (`Checked`).
`GrantsNeverForgotten` and `CaseloadAlwaysHeld` hold while requests are orderly, which
their properties say: `Tidy` adds that then one request at most is under way and
that what it read is still so, an exception with its row and a participant with
somebody on the team or in the hands of the removal that releases them.
`AnswersKeepCap` alone is not inductive: `Quiet` states what every other step
leaves alone under the lock, and it is the foreign key's share of that lock that
makes additions leave it alone.

`VaultProofs`, for any keys, requests, runs of the cron and faults:
`VaultTypeCorrect`, `DeletionsAreNotForgotten`, `DoneStaysGone`,
`MetadataNeverAlone`. None of the three properties is inductive. `Ledger`: no
task names a key before it is recorded, so an upload cannot bring back bytes of a
task marked done. `Taken`: what a run is about to mark is already gone. `Held`: what
a request knows of its keys at each stage, in particular that it drops only
rows whose keys the ledger has. `Known`: of each key, that a dropped row or missing
bytes imply a task, and that a recorded key with a task is being deleted or its
deletion died. Every action is brought under one of four frames (`RequestStep`,
`RowStep`, `EnqueueStep`, `CronStepKeeps`).

Only model-checked: liveness (`JobsEnd`, `PackageArrives`, `JobGetsSaved`,
`DeletedGoesAway`). Liveness under fairness is out of the prover's reach; every
safety property of a passing run is a theorem. No `RECURSIVE` operator and no
induction over data is used anywhere.

## Plan

What would come next, in this order.

1. An abstract ledger of deletions that `Vault` implements: what a person deletes
   stays to be erased until it is.
2. `Sharing` (`051`, `054`): grants, requests, policies; what leaving ends.
3. `Revisions` (`081`): numbering under concurrent saves, the 50 kept, the newest
   finished never pruned; composed with the queue.
4. Handoff and rewards: two accepts, points given once. Then voice minutes,
   one-time codes and progression decisions.
5. Seats and staff over one organization: nobody is both.

## Not modelled

Most of the repository is screens, prompts, text and layout: the models cover the
server code whose order of steps matters, a small share of its lines.

Wording, layout and parsing of resumes, the finish gate and truth checks (pure
functions with tests of their own); rendering, the tablet, user interface packages
and scripts; job search and other providers' behaviour; the dormant
applications. Row-level security is not modelled: each transaction is taken to run
with the role the code gives it. Postgres is taken at its word: a statement is
atomic, READ COMMITTED takes a snapshot per statement, row locks exclude.
