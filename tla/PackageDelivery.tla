---- MODULE PackageDelivery ----
(***************************************************************************)
(* The finished resume that is emailed by itself: the delivery queue       *)
(* (086_package_delivery.sql), the claims that stand between two sends     *)
(* (packageEmail.ts), the send (email-package-auto.ts) and the two callers *)
(* that run it, the hourly cron (package-delivery-worker.ts) and the page  *)
(* of the person (email-package/auto/route.ts).                            *)
(*                                                                         *)
(* One person and one resume.  A worker is one run of sendFinishedPackage; *)
(* its record says which of its transactions comes next.  The mail         *)
(* provider is external: it keeps an idempotency key for a day.            *)
(***************************************************************************)
EXTENDS Naturals, Sequences

CONSTANTS
    Pages,          \* instances that answer the page's request for a send
    Crons,          \* instances that run the hourly job
    Addrs,          \* addresses the account may have
    MaxRev,         \* revisions saved
    MaxDay,         \* UTC days
    MaxAttempts,    \* PACKAGE_DELIVERY_MAX_ATTEMPTS
    MaxFaults,      \* faults of any kind: refusals, errors, crashes
    MaxEdits,       \* changes of the account's address or switch
    MaxAsks,        \* requests of the page
    CanCrash,       \* an instance may die between two transactions
    CanLoseAnswer,  \* the provider may accept a mail and its answer be lost,
                    \* or the writes that record its answer may fail
    SlowSends       \* a page's send may outlive its two-minute lease

ASSUME BoundsAssumption ==
    /\ MaxRev \in Nat \ {0} /\ MaxDay \in Nat \ {0}
    /\ MaxAttempts \in Nat \ {0}
    /\ MaxFaults \in Nat /\ MaxEdits \in Nat /\ MaxAsks \in Nat
ASSUME SwitchAssumption == {CanCrash, CanLoseAnswer, SlowSends} \subseteq BOOLEAN
ASSUME AddrsAssumption == Addrs # {} /\ "none" \notin Addrs
ASSUME WorkersAssumption == Pages \cap Crons = {}

VARIABLES
    revs,       \* artifact_revision: the status of each revision, in order
    settled,    \* the newest revision is five minutes old
    job,        \* forge_package_delivery: the queue row of the resume
    revClaim,   \* forge_package_email_sent: the row of each revision
    dayClaim,   \* forge_package_email_sent: the row of the resume on each day
    acct,       \* users: address, switch and proof
    worker,     \* the sends in flight
    day,        \* today (UTC)
    window,     \* provider: the revisions whose idempotency key it still knows
    inbox,      \* the mails the provider accepted as new, in order
    faults,     \* faults so far (bounds them)
    edits,      \* account edits so far (bounds them)
    asks        \* requests of the page so far (bounds them)

queueVars == <<revs, settled, job>>
outsideVars == <<acct, day, faults, edits, asks>>
providerVars == <<window, inbox>>
vars == <<queueVars, revClaim, dayClaim, worker, outsideVars, providerVars>>

Workers == Pages \cup Crons
Revs == 1..MaxRev
Days == 1..MaxDay
Newest == Len(revs)

(* A claim row.  "fresh" is under 23 hours old, "late" between 23 and 24,  *)
(* "old" past that; payload is the address of the saved mail.              *)
NoRow == [age |-> "none", leased |-> FALSE, delivered |-> FALSE,
          attempted |-> FALSE, payload |-> "none"]
NewRow == [NoRow EXCEPT !.age = "fresh", !.leased = TRUE]
Row == [age : {"none", "fresh", "late", "old"}, leased : BOOLEAN,
        delivered : BOOLEAN, attempted : BOOLEAN, payload : Addrs \cup {"none"}]

NoJob == [rev |-> 0, due |-> "later", attempts |-> 0]
Job == [rev : 0..MaxRev, due : {"now", "later", "tomorrow"}, attempts : Nat]

Reasons == {"none", "sent", "draft", "off", "unproven", "settling", "not_configured",
            "already", "already_today", "delivery_pending", "delivery_unknown",
            "limit", "failed"}
Idle == [at |-> "idle", job |-> 0, now |-> FALSE, rev |-> 0, day |-> 0,
         to |-> "none", mail |-> "none", why |-> "none"]
Stages == {"idle", "look", "claimRev", "seeRev", "claimDay", "seeDay", "yield", "build",
           "prepare", "target", "send", "completeRev", "completeDay",
           "releaseRev", "releaseDay", "finish", "refinish"}
Worker == [at : Stages, job : 0..MaxRev, now : BOOLEAN, rev : 0..MaxRev, day : 0..MaxDay,
           to : Addrs \cup {"none"}, mail : Addrs \cup {"none"}, why : Reasons]

(* The account's column values; an account without an address counts as    *)
(* switched off (both end the job).                                        *)
Account == [to : Addrs, mode : {"on", "off", "unproven"}]
Mail == [rev : Revs, claimed : Days, day : Days, to : Addrs]

Init ==
    /\ revs = <<>> /\ settled = FALSE /\ job = NoJob
    /\ revClaim = [r \in Revs |-> NoRow] /\ dayClaim = [d \in Days |-> NoRow]
    /\ acct \in [to : Addrs, mode : {"on"}]
    /\ worker = [w \in Workers |-> Idle]
    /\ day = 1 /\ window = {} /\ inbox = <<>> /\ faults = 0
    /\ edits = 0 /\ asks = 0

-----------------------------------------------------------------------------
(* Where a worker goes next.                                               *)

Goes(w, rec) == worker' = [worker EXCEPT ![w] = rec]
Step(w, stage) == Goes(w, [worker[w] EXCEPT !.at = stage])
Fault == faults < MaxFaults /\ faults' = faults + 1

(* sendFinishedPackage returned: the page has its answer; the cron still   *)
(* has to put the result on the job.                                       *)
Ends(w, stage, why) ==
    Goes(w, IF w \in Pages THEN Idle
            ELSE [worker[w] EXCEPT !.at = stage, !.why = why])
Returns(w, why) == Ends(w, "finish", why)

(* It threw: the cron's catch block puts "failed" on the job, once.        *)
Throws(w) == Ends(w, "refinish", "failed")

(* The finally block: claims are given back before the return.             *)
GivesBack(w, why) == Goes(w, [worker[w] EXCEPT !.at = "releaseRev", !.why = why])

(* The rows a running worker counts on: everything it claimed.             *)
HoldsDay(w, d) ==
    /\ worker[w].day = d
    /\ worker[w].at \in {"build", "prepare", "target", "send", "completeRev", "completeDay",
                        "releaseRev", "releaseDay"}
HoldsRev(w, r) ==
    /\ worker[w].rev = r
    /\ worker[w].at \in {"claimDay", "seeDay", "yield"} \/ HoldsDay(w, worker[w].day)

-----------------------------------------------------------------------------
(* The person.                                                             *)

(* Mutated form: the trigger of a draft leaves the job alone.              *)
queue_finished_package_only(status) ==
    job' = IF status = "finished"
           THEN [rev |-> Newest + 1, due |-> "later", attempts |-> 0]
           ELSE job

(* insertRevision and its trigger, one transaction: a finished revision    *)
(* replaces the job, a draft cancels it.                                   *)
queue_finished_package(status) ==
    job' = IF status = "finished"
           THEN [rev |-> Newest + 1, due |-> "later", attempts |-> 0]
           ELSE NoJob

SaveRevision(status) ==
    /\ Newest < MaxRev
    /\ revs' = Append(revs, status)
    /\ settled' = FALSE
    /\ queue_finished_package(status)
    /\ UNCHANGED <<revClaim, dayClaim, worker, outsideVars, providerVars>>

(* The address, the switch or the proof changes.                           *)
EditAccount ==
    /\ edits < MaxEdits
    /\ edits' = edits + 1
    /\ acct' \in Account \ {acct}
    /\ UNCHANGED <<queueVars, revClaim, dayClaim, worker, day, faults, asks, providerVars>>

(* The page asks for the send, with or without "Email me the latest".      *)
PageAsks(w, now) ==
    /\ w \in Pages /\ worker[w] = Idle /\ Newest > 0
    /\ asks < MaxAsks
    /\ asks' = asks + 1
    /\ Goes(w, [Idle EXCEPT !.at = "look", !.now = now])
    /\ UNCHANGED <<queueVars, revClaim, dayClaim, acct, day, faults, edits, providerVars>>

-----------------------------------------------------------------------------
(* The cron.                                                               *)

(* purge_package_payloads: rows past a day lose the saved mail.            *)
Purged(c) == IF c.age = "old" THEN [c EXCEPT !.payload = "none"] ELSE c

(* Mutated form: a claimed job has no due date until its worker answers.   *)
CronClaimsForGood(w) ==
    /\ w \in Crons /\ worker[w] = Idle
    /\ job # NoJob /\ job.due = "now"
    /\ revClaim' = [r \in Revs |-> Purged(revClaim[r])]
    /\ job' = [job EXCEPT !.due = "never", !.attempts = @ + 1]
    /\ Goes(w, [Idle EXCEPT !.at = "look", !.job = job.rev])
    /\ UNCHANGED <<revs, settled, dayClaim, outsideVars, providerVars>>

(* duePackageDeliveries, then claimPackageDelivery: due ten minutes on,    *)
(* one more attempt.  The claim names the revision it read, so a job that  *)
(* was replaced between the two is simply not claimed.                     *)
CronClaims(w) ==
    /\ w \in Crons /\ worker[w] = Idle
    /\ job # NoJob /\ job.due = "now"
    /\ revClaim' = [r \in Revs |-> Purged(revClaim[r])]
    /\ job' = [job EXCEPT !.due = "later", !.attempts = @ + 1]
    /\ Goes(w, [Idle EXCEPT !.at = "look", !.job = job.rev])
    /\ UNCHANGED <<revs, settled, dayClaim, outsideVars, providerVars>>

(* Mutated form: a day that had its mail ends the job.                     *)
RetryReasonsOfToday == {"settling", "failed", "delivery_pending", "not_configured",
                        "unproven", "limit"}

(* The results drainPackageDeliveries tries again.                         *)
RetryReasons == {"settling", "failed", "delivery_pending", "not_configured",
                 "unproven", "limit", "already_today"}

(* Mutated form: the due date of the other reasons is left out.            *)
DueAfterTheCap(why) == IF why = "already_today" THEN "tomorrow" ELSE "null"

(* When a kept job is due: a day that had its mail waits for the next one; *)
(* six hours and half an hour are both later.                              *)
DueAfter(why) == IF why = "already_today" THEN "tomorrow" ELSE "later"

(* Mutated form: the result is put on whatever job the resume has now.     *)
FinishesAnyJob(w) ==
    /\ worker[w].at \in {"finish", "refinish"}
    /\ job' = IF worker[w].why \in RetryReasons /\ job.attempts < MaxAttempts THEN job ELSE NoJob
    /\ Goes(w, Idle)
    /\ UNCHANGED <<revs, settled, revClaim, dayClaim, outsideVars, providerVars>>

(* finishPackageDelivery: keep the job for another try, or delete it; the  *)
(* job of a newer revision is not touched.                                 *)
FinishesJob(w) ==
    /\ worker[w].at \in {"finish", "refinish"}
    /\ \/ job.rev # worker[w].job /\ UNCHANGED job
       \/ /\ job.rev = worker[w].job
          /\ worker[w].why \in RetryReasons /\ job.attempts < MaxAttempts
          /\ job' = [job EXCEPT !.due = DueAfter(worker[w].why)]
       \/ /\ job.rev = worker[w].job
          /\ worker[w].why \notin RetryReasons \/ job.attempts >= MaxAttempts
          /\ job' = NoJob
    /\ Goes(w, Idle)
    /\ UNCHANGED <<revs, settled, revClaim, dayClaim, outsideVars, providerVars>>
-----------------------------------------------------------------------------
(* sendFinishedPackage, one action per transaction.                        *)

(* What the first reads decide without claiming anything: the newest       *)
(* revision, the account, and how long the revision has stood.             *)
Refusal(w) ==
    IF revs[Newest] # "finished" THEN "draft"
    ELSE IF acct.mode # "on" THEN acct.mode
    ELSE IF ~worker[w].now /\ ~settled THEN "settling"
    ELSE "none"

Looks(w) ==
    /\ worker[w].at = "look"
    /\ \/ Refusal(w) # "none" /\ Returns(w, Refusal(w)) /\ UNCHANGED faults
       \/ Refusal(w) = "none" /\ Fault /\ Returns(w, "not_configured")
       \/ /\ Refusal(w) = "none"
          /\ Goes(w, [worker[w] EXCEPT !.at = "claimRev", !.now = FALSE,
                                       !.rev = Newest, !.day = day, !.to = acct.to])
          /\ UNCHANGED faults
    /\ UNCHANGED <<queueVars, revClaim, dayClaim, acct, day, edits, asks, providerVars>>

(* Mutated form: a lease that still runs does not stop a second claim.     *)
ClaimableAnyLease(c) == c.age = "none" \/ (~c.delivered /\ c.age = "fresh")

(* Mutated form: the claim has no window.                                  *)
ClaimableAtAnyAge(c) == c.age = "none" \/ (~c.delivered /\ ~c.leased)

(* Mutated form: a delivered row can be claimed again.                     *)
ClaimableAgain(c) == c.age = "none" \/ (~c.leased /\ c.age = "fresh")

(* claimPackageEmailVersion: a new row, or a row whose send did not finish *)
(* and whose lease ran out, while the provider still knows its key.        *)
Claimable(c) == c.age = "none" \/ (~c.delivered /\ ~c.leased /\ c.age = "fresh")
Claimed(c) == IF c.age = "none" THEN NewRow ELSE [c EXCEPT !.leased = TRUE]

(* What a second query then finds of a row that could not be claimed; by   *)
(* then it may be gone, which reads as uncertain.                          *)
Standing(c, delivered) ==
    IF c.delivered THEN delivered
    ELSE IF c.age = "fresh" THEN "delivery_pending" ELSE "delivery_unknown"

ClaimsRev(w) ==
    /\ worker[w].at = "claimRev"
    /\ LET r == worker[w].rev
           c == revClaim[r]
       IN \/ /\ Claimable(c)
             /\ revClaim' = [revClaim EXCEPT ![r] = Claimed(c)]
             /\ Step(w, "claimDay")
          \/ /\ ~Claimable(c)
             /\ Step(w, "seeRev")
             /\ UNCHANGED revClaim
    /\ UNCHANGED <<queueVars, dayClaim, outsideVars, providerVars>>

SeesRev(w) ==
    /\ worker[w].at = "seeRev"
    /\ Returns(w, Standing(revClaim[worker[w].rev], "already"))
    /\ UNCHANGED <<queueVars, revClaim, dayClaim, outsideVars, providerVars>>

ClaimsDay(w) ==
    /\ worker[w].at = "claimDay"
    /\ LET d == worker[w].day
           c == dayClaim[d]
       IN \/ /\ Claimable(c)
             /\ dayClaim' = [dayClaim EXCEPT ![d] = Claimed(c)]
             /\ Step(w, "build")
          \/ /\ ~Claimable(c)
             /\ Step(w, "seeDay")
             /\ UNCHANGED dayClaim
    /\ UNCHANGED <<queueVars, revClaim, outsideVars, providerVars>>

SeesDay(w) ==
    /\ worker[w].at = "seeDay"
    /\ Goes(w, [worker[w] EXCEPT !.at = "yield",
                     !.why = Standing(dayClaim[worker[w].day], "already_today")])
    /\ UNCHANGED <<queueVars, revClaim, dayClaim, outsideVars, providerVars>>

(* releasePackageEmailVersion: the row goes only if no mail was saved in it. *)
Released(c) == IF ~c.attempted /\ ~c.delivered THEN NoRow ELSE c

(* A release the database refuses is swallowed.                            *)
ReleasesRev(w, next) ==
    /\ \/ /\ revClaim' = [revClaim EXCEPT ![worker[w].rev] = Released(@)]
          /\ UNCHANGED faults
       \/ Fault /\ UNCHANGED revClaim
    /\ next
    /\ UNCHANGED <<queueVars, dayClaim, acct, day, edits, asks, providerVars>>

(* The day was refused: the revision is given back.                        *)
Yields(w) == worker[w].at = "yield" /\ ReleasesRev(w, Returns(w, worker[w].why))

(* The finally block, in its two transactions.                             *)
GivesRevBack(w) == worker[w].at = "releaseRev" /\ ReleasesRev(w, Step(w, "releaseDay"))

GivesDayBack(w) ==
    /\ worker[w].at = "releaseDay"
    /\ \/ /\ dayClaim' = [dayClaim EXCEPT ![worker[w].day] = Released(@)]
          /\ UNCHANGED faults
       \/ Fault /\ UNCHANGED dayClaim
    /\ Returns(w, worker[w].why)
    /\ UNCHANGED <<queueVars, revClaim, acct, day, edits, asks, providerVars>>

(* The daily cap of the address and the files (both may refuse), then the  *)
(* newest revision once more.                                              *)
Builds(w) ==
    /\ worker[w].at = "build"
    /\ \/ Fault /\ \E why \in {"limit", "failed"} : GivesBack(w, why)
       \/ Newest # worker[w].rev /\ GivesBack(w, "settling") /\ UNCHANGED faults
       \/ Newest = worker[w].rev /\ Step(w, "prepare") /\ UNCHANGED faults
    /\ UNCHANGED <<queueVars, revClaim, dayClaim, acct, day, edits, asks, providerVars>>

(* Mutated form: the saved mail goes out whatever its address.             *)
PreparesAnyAddress(w) ==
    /\ worker[w].at = "prepare"
    /\ LET r == worker[w].rev
           c == revClaim[r]
           mail == IF c.payload = "none" THEN worker[w].to ELSE c.payload
       IN \/ /\ c.age = "none" \/ c.delivered
             /\ GivesBack(w, "failed")
             /\ UNCHANGED revClaim
          \/ /\ c.age # "none" /\ ~c.delivered
             /\ revClaim' = [revClaim EXCEPT ![r].payload = mail, ![r].attempted = TRUE]
             /\ Goes(w, [worker[w] EXCEPT !.at = "target", !.mail = mail])
    /\ UNCHANGED <<queueVars, dayClaim, outsideVars, providerVars>>

(* preparePackageEmail: the first mail saved for this revision is the one  *)
(* that goes out; a mail to another address than today's is not sent.      *)
Prepares(w) ==
    /\ worker[w].at = "prepare"
    /\ LET r == worker[w].rev
           c == revClaim[r]
           mail == IF c.payload = "none" THEN worker[w].to ELSE c.payload
       IN \/ /\ c.age = "none" \/ c.delivered
             /\ GivesBack(w, "failed")
             /\ UNCHANGED revClaim
          \/ /\ c.age # "none" /\ ~c.delivered
             /\ revClaim' = [revClaim EXCEPT ![r].payload = mail, ![r].attempted = TRUE]
             /\ Goes(w, IF mail # worker[w].to
                        THEN [worker[w] EXCEPT !.at = "releaseRev", !.why = "delivery_unknown"]
                        ELSE [worker[w] EXCEPT !.at = "target", !.mail = mail])
    /\ UNCHANGED <<queueVars, dayClaim, outsideVars, providerVars>>

(* The account is read a last time before the transport.                   *)
ChecksTarget(w) ==
    /\ worker[w].at = "target"
    /\ \/ acct.mode # "on" /\ GivesBack(w, acct.mode)
       \/ acct.mode = "on" /\ acct.to # worker[w].to /\ GivesBack(w, "delivery_unknown")
       \/ acct.mode = "on" /\ acct.to = worker[w].to /\ Step(w, "send")
    /\ UNCHANGED <<queueVars, revClaim, dayClaim, outsideVars, providerVars>>

(* The provider takes the mail, unless it still knows its key.  The mail   *)
(* goes out today; the day it was claimed for is the one the send began.   *)
Accepts(w) ==
    LET r == worker[w].rev
    IN /\ window' = window \cup {r}
       /\ inbox' = IF r \in window THEN inbox
                   ELSE Append(inbox, [rev |-> r, claimed |-> worker[w].day,
                                       day |-> day, to |-> worker[w].mail])

(* Mutated form: a refused mail is completed like an accepted one.         *)
SendsWhateverTheAnswer(w) ==
    /\ worker[w].at = "send"
    /\ \/ Accepts(w) /\ Step(w, "completeRev") /\ UNCHANGED faults
       \/ Fault /\ Step(w, "completeRev") /\ UNCHANGED providerVars
    /\ UNCHANGED <<queueVars, revClaim, dayClaim, acct, day, edits, asks>>

(* The transport: accepted, refused (or not reached), or accepted with the *)
(* answer lost.  After this nothing is given back.                         *)
Sends(w) ==
    /\ worker[w].at = "send"
    /\ \/ Accepts(w) /\ Step(w, "completeRev") /\ UNCHANGED faults
       \/ Fault /\ Returns(w, "failed") /\ UNCHANGED providerVars
       \/ CanLoseAnswer /\ Fault /\ Accepts(w) /\ Returns(w, "failed")
    /\ UNCHANGED <<queueVars, revClaim, dayClaim, acct, day, edits, asks>>

(* completePackageEmailVersion.  When it fails the send still returns sent: *)
(* the result was set before it.                                           *)
Completed(c) == IF c.age = "none" THEN c
                ELSE [c EXCEPT !.delivered = TRUE, !.leased = FALSE, !.payload = "none"]

CompletesRev(w) ==
    /\ worker[w].at = "completeRev"
    /\ \/ /\ revClaim' = [revClaim EXCEPT ![worker[w].rev] = Completed(@)]
          /\ Step(w, "completeDay") /\ UNCHANGED faults
       \/ CanLoseAnswer /\ Fault /\ Returns(w, "sent") /\ UNCHANGED revClaim
    /\ UNCHANGED <<queueVars, dayClaim, acct, day, edits, asks, providerVars>>

CompletesDay(w) ==
    /\ worker[w].at = "completeDay"
    /\ \/ /\ dayClaim' = [dayClaim EXCEPT ![worker[w].day] = Completed(@)]
          /\ UNCHANGED faults
       \/ CanLoseAnswer /\ Fault /\ UNCHANGED dayClaim
    /\ Returns(w, "sent")
    /\ UNCHANGED <<queueVars, revClaim, acct, day, edits, asks, providerVars>>

(* The result could not be put on the job: the catch block tries again as  *)
(* "failed", and a second failure ends the run.                            *)
FinishFails(w) ==
    /\ Fault
    /\ \/ worker[w].at = "finish"
          /\ Goes(w, [worker[w] EXCEPT !.at = "refinish", !.why = "failed"])
       \/ worker[w].at = "refinish" /\ Goes(w, Idle)
    /\ UNCHANGED <<queueVars, revClaim, dayClaim, acct, day, edits, asks, providerVars>>

(* A query fails: before both claims are taken the send throws; after, its *)
(* try block answers and gives them back.                                  *)
QueryFails(w) ==
    /\ Fault
    /\ \/ worker[w].at \in {"look", "claimRev", "seeRev", "claimDay", "seeDay"}
          /\ Throws(w)
       \/ worker[w].at \in {"prepare", "target"} /\ GivesBack(w, "failed")
    /\ UNCHANGED <<queueVars, revClaim, dayClaim, acct, day, edits, asks, providerVars>>

(* The instance dies: what it had written stays.                           *)
Crashes(w) ==
    /\ CanCrash /\ worker[w] # Idle /\ Fault
    /\ Goes(w, Idle)
    /\ UNCHANGED <<queueVars, revClaim, dayClaim, acct, day, edits, asks, providerVars>>

-----------------------------------------------------------------------------
(* Time.  Only its order matters: a lease lasts two minutes, a revision    *)
(* settles in five, a retry comes after at least ten, a claim can be taken *)
(* over for 23 hours and the provider keeps a key for 24.                  *)

(* A cron instance lives one minute, so it ends before its lease does; the *)
(* page's route states no limit, so its send may not.                      *)
MayOutlive(w) == SlowSends /\ w \in Pages

RevLeaseEnds(r) ==
    /\ revClaim[r].leased
    /\ \A w \in Workers : HoldsRev(w, r) => MayOutlive(w)
    /\ revClaim' = [revClaim EXCEPT ![r].leased = FALSE]
    /\ UNCHANGED <<queueVars, dayClaim, worker, outsideVars, providerVars>>

DayLeaseEnds(d) ==
    /\ dayClaim[d].leased
    /\ \A w \in Workers : HoldsDay(w, d) => MayOutlive(w)
    /\ dayClaim' = [dayClaim EXCEPT ![d].leased = FALSE]
    /\ UNCHANGED <<queueVars, revClaim, worker, outsideVars, providerVars>>

Older(age) == IF age = "fresh" THEN "late" ELSE "old"

(* No send lasts for hours. *)
RevRowAges(r) ==
    /\ revClaim[r].age \in {"fresh", "late"} /\ ~revClaim[r].leased
    /\ \A w \in Workers : ~HoldsRev(w, r)
    /\ revClaim' = [revClaim EXCEPT ![r].age = Older(@)]
    /\ UNCHANGED <<queueVars, dayClaim, worker, outsideVars, providerVars>>

(* A row without a saved mail is the same at 23 hours as at 24. *)
DayRowAges(d) ==
    /\ dayClaim[d].age = "fresh" /\ ~dayClaim[d].leased
    /\ \A w \in Workers : ~HoldsDay(w, d)
    /\ dayClaim' = [dayClaim EXCEPT ![d].age = Older(@)]
    /\ UNCHANGED <<queueVars, revClaim, worker, outsideVars, providerVars>>

Settles ==
    /\ Newest > 0 /\ ~settled
    /\ settled' = TRUE
    /\ UNCHANGED <<revs, job, revClaim, dayClaim, worker, outsideVars, providerVars>>

(* By the time a retry is due the revision has settled, the sends that ran *)
(* at the last try have ended and their leases are over.                   *)
JobFallsDue ==
    /\ job # NoJob /\ job.due = "later"
    /\ \A w \in Crons : worker[w] = Idle
    /\ job.attempts > 0 =>
         /\ settled /\ \A w \in Workers : worker[w] = Idle
         /\ ~revClaim[job.rev].leased /\ ~dayClaim[day].leased
    /\ job' = [job EXCEPT !.due = "now"]
    /\ UNCHANGED <<revs, settled, revClaim, dayClaim, worker, outsideVars, providerVars>>

(* Midnight (UTC); five minutes later the jobs that waited for it are due. *)
(* A send may run across it, none runs across two.                         *)
NextDay ==
    /\ day < MaxDay
    /\ \A w \in Workers : worker[w].day \in {0, day}
    /\ day' = day + 1
    /\ job' = IF job.due = "tomorrow" THEN [job EXCEPT !.due = "later"] ELSE job
    /\ UNCHANGED <<revs, settled, revClaim, dayClaim, worker, acct, faults, edits, asks, providerVars>>

(* The provider's day ran out; it began after the row's did.               *)
ProviderForgets(r) ==
    /\ r \in window /\ revClaim[r].age = "old"
    /\ window' = window \ {r}
    /\ UNCHANGED <<queueVars, revClaim, dayClaim, worker, outsideVars, inbox>>

-----------------------------------------------------------------------------
SendStep(w) ==
    \/ Looks(w) \/ ClaimsRev(w) \/ SeesRev(w) \/ ClaimsDay(w) \/ SeesDay(w)
    \/ Yields(w) \/ Builds(w)
    \/ Prepares(w) \/ ChecksTarget(w) \/ Sends(w) \/ CompletesRev(w) \/ CompletesDay(w)
    \/ GivesRevBack(w) \/ GivesDayBack(w) \/ FinishesJob(w)

Passes ==
    \/ \E r \in Revs : RevLeaseEnds(r) \/ RevRowAges(r) \/ ProviderForgets(r)
    \/ \E d \in Days : DayLeaseEnds(d) \/ DayRowAges(d)
    \/ Settles \/ JobFallsDue \/ NextDay

Next ==
    \/ \E status \in {"draft", "finished"} : SaveRevision(status)
    \/ EditAccount
    \/ \E w \in Workers :
         \/ \E now \in BOOLEAN : PageAsks(w, now)
         \/ CronClaims(w) \/ SendStep(w) \/ QueryFails(w) \/ FinishFails(w)
         \/ Crashes(w)
    \/ Passes

Clock ==
    \/ Settles \/ NextDay
    \/ \E r \in Revs : RevLeaseEnds(r)
    \/ \E d \in Days : DayLeaseEnds(d)

Spec == Init /\ [][Next]_vars

(* The hourly schedule: a due job is claimed, a running send goes on (it   *)
(* ends in a result or, within MaxFaults, in a crash), and time passes.    *)
(* The person and the page owe nothing.                                    *)
Fairness ==
    /\ \A w \in Workers : WF_vars(SendStep(w))
    /\ WF_vars(\E w \in Crons : CronClaims(w))
    /\ WF_vars(Clock)
    /\ SF_vars(JobFallsDue)     \* half an hour passes whatever a page does meanwhile

FairSpec == Spec /\ Fairness

-----------------------------------------------------------------------------
TypeOK ==
    /\ revs \in Seq({"draft", "finished"}) /\ Newest <= MaxRev
    /\ settled \in BOOLEAN /\ job \in Job
    /\ revClaim \in [Revs -> Row] /\ dayClaim \in [Days -> Row]
    /\ acct \in Account /\ worker \in [Workers -> Worker]
    /\ day \in Days /\ window \subseteq Revs /\ inbox \in Seq(Mail)
    /\ faults \in 0..MaxFaults /\ edits \in 0..MaxEdits
    /\ asks \in 0..MaxAsks

(* What a worker's fields hold at each stage.                              *)
RecordsFit ==
    \A w \in Workers :
        /\ worker[w].at = "look" => Newest > 0
        /\ worker[w].at \notin {"idle", "look", "finish", "refinish"} =>
             worker[w].rev \in Revs /\ worker[w].day \in Days /\ worker[w].to \in Addrs
        /\ worker[w].at \in {"target", "send"} => worker[w].mail = worker[w].to
        /\ w \in Crons /\ worker[w].at # "idle" => worker[w].job > 0
        /\ w \in Pages => worker[w].at \notin {"finish", "refinish"}

Mailed(r) == \E i \in DOMAIN inbox : inbox[i].rev = r

(* "Never the same revision twice" (email-package-auto.ts:24): retries,    *)
(* crashes, lost answers and the page beside the cron included.            *)
MailedOnce ==
    \A i, j \in DOMAIN inbox : inbox[i].rev = inbox[j].rev => i = j

(* "At most one automatic email per resume per day (UTC)"                  *)
(* (email-package-auto.ts:23).                                             *)
OneMailADay ==
    \A i, j \in DOMAIN inbox : inbox[i].day = inbox[j].day => i = j

(* What of it the two claims keep while nothing fails (no crash, refusal   *)
(* or lost answer), however the two callers and new revisions interleave:  *)
(* each day is claimed for one mail, so two mails go out on one day only   *)
(* when one of them was claimed the day before and taken after midnight,   *)
(* and three never do.                                                     *)
OneMailAClaimedDay ==
    \A i, j \in DOMAIN inbox : inbox[i].claimed = inbox[j].claimed => i = j
TwoOnlyOverMidnight ==
    \A i, j \in DOMAIN inbox : i # j /\ inbox[i].day = inbox[j].day =>
        {inbox[i].claimed, inbox[j].claimed} = {inbox[i].day - 1, inbox[i].day}
OneMailAFaultlessDay == faults = 0 => OneMailAClaimedDay /\ TwoOnlyOverMidnight

(* A row marked delivered, which ends every later try, stands for a mail   *)
(* the provider really took.                                               *)
DeliveredMeansMailed ==
    \A r \in Revs : revClaim[r].delivered => Mailed(r)

(* The queue, the claims and their tries implement the mails a person is   *)
(* promised: a mail is of a finished revision, each revision's first, and  *)
(* a row says delivered only of a revision that went out.                  *)
Told == {r \in Revs : revClaim[r].delivered}
Box == INSTANCE Mailbox WITH told <- Told
MailboxSpec == Box!Spec

(* What MailedOnce rests on.  A row that a send holds is young enough for  *)
(* the provider to know its key; the row of a mail that may have gone out  *)
(* is never given back, so its age tells how old the key is; and the       *)
(* provider forgets a key only after the row is too old to be claimed.     *)
HeldRowsAreFresh ==
    \A w \in Workers, r \in Revs : HoldsRev(w, r) => revClaim[r].age \in {"none", "fresh"}
AttemptsAreKept ==
    /\ \A r \in Revs : Mailed(r) => revClaim[r].attempted
    /\ \A r \in Revs : revClaim[r].attempted => revClaim[r].age # "none"
    /\ \A w \in Workers : worker[w].at \in {"target", "send", "completeRev"} =>
                             revClaim[worker[w].rev].attempted
KeysAreKnown ==
    /\ \A r \in window : Mailed(r)
    /\ \A r \in Revs : Mailed(r) => r \in window \/ revClaim[r].age = "old"
    /\ \A w \in Workers : worker[w].at \in {"completeRev", "completeDay"} => Mailed(worker[w].rev)

(* Two sends of one revision never stand before the provider together: the *)
(* lease lets one past while the other runs.                               *)
Sending(w, r) == worker[w].rev = r /\ worker[w].at \in {"prepare", "target", "send", "completeRev"}
OneSender ==
    \A w1, w2 \in Workers, r \in Revs : Sending(w1, r) /\ Sending(w2, r) => w1 = w2

(* Nobody but its holder works on a claimed row: the row is leased until   *)
(* the send gives it back or completes it (when no send outlives its       *)
(* lease).                                                                 *)
Working(w, r) == HoldsRev(w, r) /\ worker[w].at # "releaseDay"
HoldersLease ==
    /\ \A w \in Workers, r \in Revs : Working(w, r) =>
          \/ revClaim[r].age = "fresh" /\ revClaim[r].leased
          \/ revClaim[r].delivered /\ worker[w].at = "completeDay"
    /\ \A w1, w2 \in Workers, r \in Revs : Working(w1, r) /\ Working(w2, r) => w1 = w2

(* "A newer draft cancels a pending finished delivery ... so the newest    *)
(* finished document is what goes out" (086:22): whatever a send in flight *)
(* does, the job is for the newest revision, and that one is finished.     *)
JobIsNewest == job # NoJob => Newest > 0 /\ job.rev = Newest /\ revs[Newest] = "finished"

(* A job is dropped only by a draft or by a result of its own revision: a  *)
(* send of an older revision that ends late takes nothing from it.         *)
JobEndsByItsOwn ==
    [][job # NoJob /\ job' = NoJob =>
         \/ Len(revs') > Len(revs)
         \/ \E w \in Workers : /\ worker[w].at \in {"finish", "refinish"}
                              /\ worker[w].job = job.rev]_vars

(* "A changed account address must never replay the old recipient's        *)
(* payload" (email-package-auto.ts:181): when a send commits to the        *)
(* transport, the mail it holds is to the address the account has then,    *)
(* and the account wants it.                                               *)
SendsToCurrentAddress ==
    [][\A w \in Workers :
         worker[w].at # "send" /\ worker'[w].at = "send" =>
           worker[w].mail = acct.to /\ acct.mode = "on"]_vars

(* No job stays: again and again the queue is empty, or its job waits for  *)
(* a day past the last one modelled (saves being bounded, the one that     *)
(* replaces every other is done or dropped).                               *)
JobsEnd == []<>(job = NoJob \/ (day = MaxDay /\ job.due = "tomorrow"))

(* What the queue is for.  With fewer faults than tries, a queued revision *)
(* reaches the person, unless a newer one takes its place, the account     *)
(* changes, or a claim got too old for anyone to be sure of it.  With the  *)
(* page beside the cron it does not hold: the page's release makes the     *)
(* cron's second query read a missing row as uncertain, and the job ends.  *)
Unsure(r) == revClaim[r].age \in {"late", "old"} \/ \E d \in Days : dayClaim[d].age = "late"
PackageArrives ==
    \A r \in Revs : job.rev = r ~>
        \/ Mailed(r) \/ Newest # r \/ edits > 0 \/ Unsure(r)
        \/ day = MaxDay /\ job.due = "tomorrow"
====
