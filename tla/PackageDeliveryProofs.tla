---- MODULE PackageDeliveryProofs ----
(***************************************************************************)
(* Proofs about PackageDelivery, for any number of pages, cron instances,  *)
(* addresses, revisions, days, tries and faults.                           *)
(***************************************************************************)
EXTENDS PackageDelivery, TLAPS

-----------------------------------------------------------------------------
(***************************************************************************)
(* Types.                                                                  *)
(***************************************************************************)

(* A worker's new record, given back by Goes, Step or Returns, is typed    *)
(* and fits its stage.                                                     *)
Fits(w, rec) ==
    /\ rec.at = "look" => Newest > 0
    /\ rec.at \notin {"idle", "look", "finish", "refinish"} =>
         rec.rev \in Revs /\ rec.day \in Days /\ rec.to \in Addrs
    /\ rec.at \in {"target", "send"} => rec.mail = rec.to
    /\ w \in Crons /\ rec.at # "idle" => rec.job > 0
    /\ w \in Pages => rec.at \notin {"finish", "refinish"}

WorkersFit == worker \in [Workers -> Worker] /\ \A w \in Workers : Fits(w, worker[w])

(* TypeOK and RecordsFit, with the workers apart.                          *)
Types ==
    /\ revs \in Seq({"draft", "finished"}) /\ Newest <= MaxRev
    /\ settled \in BOOLEAN /\ job \in Job
    /\ revClaim \in [Revs -> Row] /\ dayClaim \in [Days -> Row]
    /\ acct \in Account /\ day \in Days
    /\ window \subseteq Revs /\ inbox \in Seq(Mail)
    /\ faults \in 0..MaxFaults /\ edits \in 0..MaxEdits /\ asks \in 0..MaxAsks
    /\ WorkersFit

LEMMA TypesMean == Types => TypeOK /\ RecordsFit
  BY DEF Types, TypeOK, RecordsFit, WorkersFit, Fits

LEMMA IdleFits == Idle \in Worker /\ \A w \in Workers : Fits(w, Idle)
  BY BoundsAssumption DEF Idle, Worker, Fits, Stages, Reasons

LEMMA NoRowIsRow == NoRow \in Row /\ NewRow \in Row
  BY DEF NoRow, NewRow, Row

LEMMA GoesFits ==
    ASSUME WorkersFit, NEW w \in Workers, NEW rec \in Worker, Fits(w, rec), Goes(w, rec),
           UNCHANGED revs
    PROVE  WorkersFit'
  BY DEF WorkersFit, Goes, Fits, Newest

LEMMA EndsFits ==
    ASSUME WorkersFit, NEW w \in Workers, NEW why \in Reasons,
           NEW stage \in {"finish", "refinish"}, Ends(w, stage, why),
           worker[w].at # "idle", UNCHANGED revs
    PROVE  WorkersFit'
  <1> DEFINE rec == [worker[w] EXCEPT !.at = stage, !.why = why]
  <1>0. worker[w] \in Worker /\ Fits(w, worker[w])
    BY DEF WorkersFit
  <1>1. rec \in Worker
    BY <1>0 DEF Worker, Stages
  <1>2. w \notin Pages => Fits(w, rec)
    BY <1>0 DEF Worker, Workers, Fits
  <1>3. Goes(w, Idle) \/ (w \notin Pages /\ Goes(w, rec))
    BY DEF Ends
  <1> QED BY <1>1, <1>2, <1>3, IdleFits, GoesFits

LEMMA ReturnsFits ==
    ASSUME WorkersFit, NEW w \in Workers, NEW why \in Reasons, Returns(w, why) \/ Throws(w),
           worker[w].at # "idle", UNCHANGED revs
    PROVE  WorkersFit'
  BY EndsFits DEF Returns, Throws, Reasons

LEMMA GivesBackFits ==
    ASSUME WorkersFit, NEW w \in Workers, NEW why \in Reasons, GivesBack(w, why),
           worker[w].at \in {"build", "prepare", "target"}, UNCHANGED revs
    PROVE  WorkersFit'
  <1> DEFINE rec == [worker[w] EXCEPT !.at = "releaseRev", !.why = why]
  <1>0. worker[w] \in Worker /\ Fits(w, worker[w])
    BY DEF WorkersFit
  <1>1. rec \in Worker
    BY <1>0 DEF Worker, Stages
  <1>2. Fits(w, rec)
    BY <1>0 DEF Worker, Fits
  <1> QED BY <1>1, <1>2, GoesFits DEF GivesBack

LEMMA StepFits ==
    ASSUME WorkersFit, NEW w \in Workers, NEW stage \in Stages, Step(w, stage),
           worker[w].at \notin {"idle", "look", "finish", "refinish"},
           stage \notin {"look", "target", "finish", "refinish"},
           stage = "send" => worker[w].at = "target",
           UNCHANGED revs
    PROVE  WorkersFit'
  <1> DEFINE rec == [worker[w] EXCEPT !.at = stage]
  <1>0. worker[w] \in Worker /\ Fits(w, worker[w])
    BY DEF WorkersFit
  <1>1. rec \in Worker
    BY <1>0 DEF Worker
  <1>2. Fits(w, rec)
    BY <1>0 DEF Worker, Fits
  <1> QED BY <1>1, <1>2, GoesFits DEF Step

LEMMA FitsKept ==
    ASSUME WorkersFit, UNCHANGED <<worker, revs>>
    PROVE  WorkersFit'
  BY DEF WorkersFit, Fits, Newest

LEMMA ClaimRows ==
    ASSUME NEW c \in Row
    PROVE  /\ Claimed(c) \in Row /\ Released(c) \in Row /\ Completed(c) \in Row
           /\ Purged(c) \in Row
           /\ [c EXCEPT !.leased = FALSE] \in Row
           /\ c.age \in {"fresh", "late"} => [c EXCEPT !.age = Older(c.age)] \in Row
           /\ Standing(c, "already") \in Reasons /\ Standing(c, "already_today") \in Reasons
  <1>1. Claimed(c) \in Row
    BY NoRowIsRow DEF Row, Claimed
  <1>2. Released(c) \in Row
    BY NoRowIsRow DEF Released
  <1>3. Completed(c) \in Row /\ Purged(c) \in Row
    BY DEF Row, Completed, Purged
  <1>4. [c EXCEPT !.leased = FALSE] \in Row
    BY DEF Row
  <1>5. c.age \in {"fresh", "late"} => [c EXCEPT !.age = Older(c.age)] \in Row
    BY DEF Row, Older
  <1>6. Standing(c, "already") \in Reasons /\ Standing(c, "already_today") \in Reasons
    BY DEF Standing, Reasons
  <1> QED BY <1>1, <1>2, <1>3, <1>4, <1>5, <1>6

LEMMA InitTypes == Init => Types
  <1> SUFFICES ASSUME Init PROVE Types
    OBVIOUS
  <1>1. WorkersFit
    BY IdleFits DEF Init, WorkersFit
  <1>2. job \in Job /\ acct \in Account
    BY BoundsAssumption DEF Init, NoJob, Job, Account
  <1>3. revClaim \in [Revs -> Row] /\ dayClaim \in [Days -> Row]
    BY NoRowIsRow DEF Init
  <1>4. /\ revs \in Seq({"draft", "finished"}) /\ Newest <= MaxRev
        /\ inbox \in Seq(Mail) /\ day \in Days
    BY BoundsAssumption DEF Init, Newest, Days
  <1>5. settled \in BOOLEAN /\ window \subseteq Revs
    BY DEF Init
  <1>6. faults \in 0..MaxFaults /\ edits \in 0..MaxEdits /\ asks \in 0..MaxAsks
    <2>1. faults = 0 /\ edits = 0 /\ asks = 0
      BY DEF Init
    <2> QED BY <2>1, BoundsAssumption
  <1> QED BY <1>1, <1>2, <1>3, <1>4, <1>5, <1>6 DEF Types

(* The person and the clock leave the workers alone.                       *)
LEMMA PersonTypes ==
    ASSUME Types, (\E status \in {"draft", "finished"} : SaveRevision(status)) \/ EditAccount
    PROVE  Types'
  <1> USE BoundsAssumption DEF Types, outsideVars, providerVars, queueVars
  <1>1. ASSUME NEW status \in {"draft", "finished"}, SaveRevision(status)
        PROVE  Types'
    <2>1. /\ revs' \in Seq({"draft", "finished"}) /\ Len(revs') = Len(revs) + 1
          /\ Len(revs) \in Nat
      BY <1>1 DEF SaveRevision
    <2>2. Newest' <= MaxRev
      BY <1>1, <2>1 DEF SaveRevision, Newest
    <2>3. job' \in Job
      BY <1>1, <2>1 DEF SaveRevision, queue_finished_package, Job, NoJob, Newest
    <2>4. WorkersFit'
      BY <1>1, <2>1 DEF SaveRevision, WorkersFit, Fits, Newest
    <2> QED BY <1>1, <2>1, <2>2, <2>3, <2>4 DEF SaveRevision
  <1>2. CASE EditAccount
    <2>1. WorkersFit'
      BY <1>2, FitsKept DEF EditAccount
    <2> QED BY <1>2, <2>1 DEF EditAccount, Newest
  <1> QED BY <1>1, <1>2

LEMMA TimeTypes == ASSUME Types, Passes PROVE Types'
  <1> USE BoundsAssumption DEF Types, outsideVars, providerVars, queueVars
  <1>1. ASSUME NEW r \in Revs, RevLeaseEnds(r) \/ RevRowAges(r)
        PROVE  Types'
    <2>1. WorkersFit'
      BY <1>1, FitsKept DEF RevLeaseEnds, RevRowAges
    <2>2. revClaim' \in [Revs -> Row]
      BY <1>1, ClaimRows, revClaim[r] \in Row DEF RevLeaseEnds, RevRowAges
    <2> QED BY <1>1, <2>1, <2>2 DEF RevLeaseEnds, RevRowAges, Newest
  <1>2. ASSUME NEW d \in Days, DayLeaseEnds(d) \/ DayRowAges(d)
        PROVE  Types'
    <2>1. WorkersFit'
      BY <1>2, FitsKept DEF DayLeaseEnds, DayRowAges
    <2>2. dayClaim' \in [Days -> Row]
      BY <1>2, ClaimRows, dayClaim[d] \in Row DEF DayLeaseEnds, DayRowAges
    <2> QED BY <1>2, <2>1, <2>2 DEF DayLeaseEnds, DayRowAges, Newest
  <1>3. ASSUME NEW r \in Revs, ProviderForgets(r)
        PROVE  Types'
    <2>1. WorkersFit'
      BY <1>3, FitsKept DEF ProviderForgets
    <2> QED BY <1>3, <2>1 DEF ProviderForgets, Newest
  <1>4. CASE Settles
    <2>1. WorkersFit'
      BY <1>4, FitsKept DEF Settles
    <2> QED BY <1>4, <2>1 DEF Settles, Newest
  <1>5. CASE JobFallsDue
    <2>1. WorkersFit'
      BY <1>5, FitsKept DEF JobFallsDue
    <2>2. job' \in Job
      BY <1>5 DEF JobFallsDue, Job
    <2> QED BY <1>5, <2>1, <2>2 DEF JobFallsDue, Newest
  <1>6. CASE NextDay
    <2>1. WorkersFit'
      BY <1>6, FitsKept DEF NextDay
    <2>2. job' \in Job
      BY <1>6 DEF NextDay, Job
    <2>3. day' \in Days
      BY <1>6 DEF NextDay, Days
    <2> QED BY <1>6, <2>1, <2>2, <2>3 DEF NextDay, Newest
  <1> QED BY <1>1, <1>2, <1>3, <1>4, <1>5, <1>6 DEF Passes

(* What a worker at a claimed stage counts on.                             *)
LEMMA ClaimedFits ==
    ASSUME WorkersFit, NEW w \in Workers
    PROVE  /\ worker[w] \in Worker /\ Fits(w, worker[w])
           /\ worker[w].at \notin {"idle", "look", "finish", "refinish"} =>
                worker[w].rev \in Revs /\ worker[w].day \in Days /\ worker[w].to \in Addrs
           /\ worker[w].why \in Reasons
  BY DEF WorkersFit, Fits, Worker

LEMMA FaultCounts ==
    ASSUME faults \in 0..MaxFaults, Fault PROVE faults' \in 0..MaxFaults
  BY BoundsAssumption DEF Fault

(* The first reads and the two claims.                                     *)
LEMMA ClaimTypes ==
    ASSUME Types, NEW w \in Workers,
           Looks(w) \/ ClaimsRev(w) \/ SeesRev(w) \/ ClaimsDay(w) \/ SeesDay(w)
    PROVE  Types'
  <1> USE DEF Types, outsideVars, providerVars, queueVars, Newest
  <1>0. /\ worker[w] \in Worker /\ Fits(w, worker[w])
        /\ worker[w].at \notin {"idle", "look", "finish", "refinish"} =>
             worker[w].rev \in Revs /\ worker[w].day \in Days /\ worker[w].to \in Addrs
    BY ClaimedFits
  <1>1. CASE Looks(w)
    <2>1. faults' \in 0..MaxFaults
      BY <1>1, FaultCounts DEF Looks
    <2>2. Refusal(w) \in Reasons /\ "not_configured" \in Reasons
      BY DEF Refusal, Reasons, Account
    <2>3. Len(revs) \in 1..MaxRev
      BY <1>0, <1>1 DEF Looks, Fits
    <2> DEFINE rec == [worker[w] EXCEPT !.at = "claimRev", !.now = FALSE,
                                        !.rev = Newest, !.day = day, !.to = acct.to]
    <2>4. rec \in Worker
      <3>1. Newest \in 0..MaxRev
        BY <2>3, BoundsAssumption
      <3>2. day \in 0..MaxDay
        BY BoundsAssumption DEF Days
      <3>3. acct.to \in Addrs
        BY DEF Account
      <3> HIDE DEF Newest
      <3> QED BY <1>0, <3>1, <3>2, <3>3 DEF Worker, Stages
    <2>5. Fits(w, rec)
      BY <1>0, <1>1, <2>3, <2>4 DEF Looks, Worker, Fits, Revs, Account
    <2>6. WorkersFit'
      <3>1. CASE Returns(w, Refusal(w)) \/ Returns(w, "not_configured")
        BY <1>1, <2>2, <3>1, ReturnsFits DEF Looks
      <3>2. CASE Goes(w, rec)
        BY <1>1, <2>4, <2>5, <3>2, GoesFits DEF Looks
      <3> QED BY <1>1, <3>1, <3>2 DEF Looks
    <2> QED BY <1>1, <2>1, <2>6 DEF Looks
  <1>2. CASE ClaimsRev(w)
    <2>1. WorkersFit'
      BY <1>2, StepFits DEF ClaimsRev, Stages
    <2>2. revClaim' \in [Revs -> Row]
      BY <1>0, <1>2, ClaimRows, revClaim[worker[w].rev] \in Row DEF ClaimsRev
    <2> QED BY <1>2, <2>1, <2>2 DEF ClaimsRev
  <1>3. CASE SeesRev(w)
    <2>1. WorkersFit'
      BY <1>0, <1>3, ClaimRows, ReturnsFits, revClaim[worker[w].rev] \in Row DEF SeesRev
    <2> QED BY <1>3, <2>1 DEF SeesRev
  <1>4. CASE ClaimsDay(w)
    <2>1. WorkersFit'
      BY <1>4, StepFits DEF ClaimsDay, Stages
    <2>2. dayClaim' \in [Days -> Row]
      BY <1>0, <1>4, ClaimRows, dayClaim[worker[w].day] \in Row DEF ClaimsDay
    <2> QED BY <1>4, <2>1, <2>2 DEF ClaimsDay
  <1>5. CASE SeesDay(w)
    <2> DEFINE why == Standing(dayClaim[worker[w].day], "already_today")
               rec == [worker[w] EXCEPT !.at = "yield", !.why = why]
    <2>1. why \in Reasons
      BY <1>0, <1>5, ClaimRows, dayClaim[worker[w].day] \in Row DEF SeesDay
    <2>2. rec \in Worker
      BY <1>0, <2>1 DEF Worker, Stages
    <2>3. Fits(w, rec)
      BY <1>0, <1>5 DEF Worker, Fits, SeesDay
    <2>4. WorkersFit'
      BY <1>5, <2>2, <2>3, GoesFits DEF SeesDay
    <2> QED BY <1>5, <2>4 DEF SeesDay
  <1> QED BY <1>1, <1>2, <1>3, <1>4, <1>5

(* The claims given back, and the build between them.                      *)
LEMMA GiveBackTypes ==
    ASSUME Types, NEW w \in Workers,
           Yields(w) \/ GivesRevBack(w) \/ GivesDayBack(w) \/ Builds(w)
    PROVE  Types'
  <1> USE DEF Types, outsideVars, providerVars, queueVars, Newest
  <1>0. /\ worker[w] \in Worker /\ Fits(w, worker[w]) /\ worker[w].why \in Reasons
        /\ worker[w].at \notin {"idle", "look", "finish", "refinish"} =>
             worker[w].rev \in Revs /\ worker[w].day \in Days /\ worker[w].to \in Addrs
    BY ClaimedFits
  <1>1. CASE Yields(w) \/ GivesRevBack(w)
    <2>1. faults' \in 0..MaxFaults
      BY <1>1, FaultCounts DEF Yields, GivesRevBack, ReleasesRev
    <2>2. revClaim' \in [Revs -> Row]
      BY <1>0, <1>1, ClaimRows, revClaim[worker[w].rev] \in Row
      DEF Yields, GivesRevBack, ReleasesRev
    <2>3. WorkersFit'
      BY <1>0, <1>1, StepFits, ReturnsFits DEF Yields, GivesRevBack, ReleasesRev, Stages
    <2> QED BY <1>1, <2>1, <2>2, <2>3 DEF Yields, GivesRevBack, ReleasesRev
  <1>2. CASE GivesDayBack(w)
    <2>1. faults' \in 0..MaxFaults
      BY <1>2, FaultCounts DEF GivesDayBack
    <2>2. dayClaim' \in [Days -> Row]
      BY <1>0, <1>2, ClaimRows, dayClaim[worker[w].day] \in Row DEF GivesDayBack
    <2>3. WorkersFit'
      BY <1>0, <1>2, ReturnsFits DEF GivesDayBack
    <2> QED BY <1>2, <2>1, <2>2, <2>3 DEF GivesDayBack
  <1>3. CASE Builds(w)
    <2>1. faults' \in 0..MaxFaults
      BY <1>3, FaultCounts DEF Builds
    <2>2. WorkersFit'
      BY <1>3, StepFits, GivesBackFits DEF Builds, Stages, Reasons
    <2> QED BY <1>3, <2>1, <2>2 DEF Builds
  <1> QED BY <1>1, <1>2, <1>3

(* The mail: saved, checked, sent, completed.                              *)
LEMMA MailTypes ==
    ASSUME Types, NEW w \in Workers,
           Prepares(w) \/ ChecksTarget(w) \/ Sends(w) \/ CompletesRev(w) \/ CompletesDay(w)
    PROVE  Types'
  <1> USE DEF Types, outsideVars, providerVars, queueVars, Newest
  <1>0. /\ worker[w] \in Worker /\ Fits(w, worker[w])
        /\ worker[w].at \notin {"idle", "look", "finish", "refinish"} =>
             worker[w].rev \in Revs /\ worker[w].day \in Days /\ worker[w].to \in Addrs
    BY ClaimedFits
  <1>1. CASE Prepares(w)
    <2> DEFINE c == revClaim[worker[w].rev]
               mail == IF c.payload = "none" THEN worker[w].to ELSE c.payload
               back == [worker[w] EXCEPT !.at = "releaseRev", !.why = "delivery_unknown"]
               on == [worker[w] EXCEPT !.at = "target", !.mail = mail]
    <2>1. c \in Row /\ mail \in Addrs
      BY <1>0, <1>1 DEF Prepares, Row
    <2>2. revClaim' \in [Revs -> Row]
      BY <1>0, <1>1, <2>1 DEF Prepares, Row
    <2>3. back \in Worker /\ on \in Worker
      BY <1>0, <2>1 DEF Worker, Stages, Reasons
    <2>4. Fits(w, back)
      BY <1>0, <1>1 DEF Prepares, Worker, Fits
    <2>5. mail = worker[w].to => Fits(w, on)
      BY <1>0, <1>1 DEF Prepares, Worker, Fits
    <2>6. WorkersFit'
      <3>1. CASE GivesBack(w, "failed")
        BY <1>1, <3>1, GivesBackFits DEF Prepares, Reasons
      <3>2. CASE Goes(w, IF mail # worker[w].to THEN back ELSE on)
        BY <1>1, <2>3, <2>4, <2>5, <3>2, GoesFits DEF Prepares
      <3> QED BY <1>1, <3>1, <3>2 DEF Prepares
    <2> QED BY <1>1, <2>2, <2>6 DEF Prepares
  <1>2. CASE ChecksTarget(w)
    <2>1. acct.mode \in {"on", "off", "unproven"}
      BY DEF Account
    <2>2. WorkersFit'
      BY <1>2, <2>1, StepFits, GivesBackFits DEF ChecksTarget, Stages, Reasons
    <2> QED BY <1>2, <2>2 DEF ChecksTarget
  <1>3. CASE Sends(w)
    <2>1. faults' \in 0..MaxFaults
      BY <1>3, FaultCounts DEF Sends
    <2>2. WorkersFit'
      BY <1>3, StepFits, ReturnsFits DEF Sends, Stages, Reasons
    <2>3. window' \subseteq Revs
      BY <1>0, <1>3 DEF Sends, Accepts
    <2>4. inbox' \in Seq(Mail)
      <3>1. worker[w].mail \in Addrs
        BY <1>0, <1>3 DEF Sends, Fits
      <3>2. [rev |-> worker[w].rev, claimed |-> worker[w].day, day |-> day,
             to |-> worker[w].mail] \in Mail
        BY <1>0, <1>3, <3>1 DEF Sends, Mail, Types
      <3>3. CASE UNCHANGED inbox
        BY <3>3
      <3>4. CASE inbox' = Append(inbox, [rev |-> worker[w].rev, claimed |-> worker[w].day,
                                         day |-> day, to |-> worker[w].mail])
        <4> HIDE DEF Types
        <4>1. inbox \in Seq(Mail)
          BY DEF Types
        <4> QED BY <3>2, <3>4, <4>1
      <3> QED BY <1>3, <3>3, <3>4 DEF Sends, Accepts
    <2> QED BY <1>3, <2>1, <2>2, <2>3, <2>4 DEF Sends
  <1>4. CASE CompletesRev(w)
    <2>1. faults' \in 0..MaxFaults
      BY <1>4, FaultCounts DEF CompletesRev
    <2>2. WorkersFit'
      BY <1>4, StepFits, ReturnsFits DEF CompletesRev, Stages, Reasons
    <2>3. revClaim' \in [Revs -> Row]
      BY <1>0, <1>4, ClaimRows, revClaim[worker[w].rev] \in Row DEF CompletesRev
    <2> QED BY <1>4, <2>1, <2>2, <2>3 DEF CompletesRev
  <1>5. CASE CompletesDay(w)
    <2>1. faults' \in 0..MaxFaults
      BY <1>5, FaultCounts DEF CompletesDay
    <2>2. WorkersFit'
      BY <1>5, ReturnsFits DEF CompletesDay, Reasons
    <2>3. dayClaim' \in [Days -> Row]
      BY <1>0, <1>5, ClaimRows, dayClaim[worker[w].day] \in Row DEF CompletesDay
    <2> QED BY <1>5, <2>1, <2>2, <2>3 DEF CompletesDay
  <1> QED BY <1>1, <1>2, <1>3, <1>4, <1>5

(* The queue's own steps, the page's request, and what can go wrong.  The  *)
(* cron claims a job only of a revision there is.                          *)
LEMMA AskTypes ==
    ASSUME Types, NEW w \in Workers, NEW now \in BOOLEAN, PageAsks(w, now)
    PROVE  Types'
  <1> USE DEF Types, outsideVars, providerVars, queueVars, Newest
  <1> DEFINE rec == [Idle EXCEPT !.at = "look", !.now = now]
  <1>1. rec \in Worker
    BY IdleFits DEF Idle, Worker, Stages
  <1>2. Fits(w, rec)
    BY WorkersAssumption DEF PageAsks, Idle, Fits
  <1>3. WorkersFit'
    BY <1>1, <1>2, GoesFits DEF PageAsks
  <1>4. asks' \in 0..MaxAsks
    BY BoundsAssumption DEF PageAsks
  <1> QED BY <1>3, <1>4 DEF PageAsks

LEMMA JobTypes ==
    ASSUME Types, JobIsNewest, NEW w \in Workers, CronClaims(w) \/ FinishesJob(w)
    PROVE  Types'
  <1> USE DEF Types, outsideVars, providerVars, queueVars, Newest
  <1>1. CASE CronClaims(w)
    <2> DEFINE rec == [Idle EXCEPT !.at = "look", !.job = job.rev]
    <2>1. job.rev \in 0..MaxRev /\ Len(revs) > 0
      BY <1>1 DEF CronClaims, Job, JobIsNewest
    <2>7. job.rev > 0
      BY <1>1, <2>1 DEF CronClaims, JobIsNewest
    <2>2. rec \in Worker
      BY <2>1, IdleFits DEF Idle, Worker, Stages
    <2>3. Fits(w, rec)
      BY <1>1, <2>1, <2>7, WorkersAssumption DEF CronClaims, Idle, Fits
    <2>4. WorkersFit'
      BY <1>1, <2>2, <2>3, GoesFits DEF CronClaims
    <2>5. job' \in Job
      <3>1. job \in Job /\ job' = [job EXCEPT !.due = "later", !.attempts = @ + 1]
        BY <1>1 DEF CronClaims
      <3> HIDE DEF Types
      <3>2. job.attempts + 1 \in Nat /\ job.rev \in 0..MaxRev
        BY <3>1 DEF Job
      <3>3. job' = [rev |-> job.rev, due |-> "later", attempts |-> job.attempts + 1]
        BY <3>1 DEF Job
      <3> QED BY <3>2, <3>3 DEF Job
    <2>6. revClaim' \in [Revs -> Row]
      BY <1>1, ClaimRows DEF CronClaims
    <2> QED BY <1>1, <2>4, <2>5, <2>6 DEF CronClaims
  <1>2. CASE FinishesJob(w)
    <2>1. WorkersFit'
      BY <1>2, IdleFits, GoesFits DEF FinishesJob
    <2>2. [job EXCEPT !.due = DueAfter(worker[w].why)] \in Job
      BY DEF DueAfter, Job
    <2>3. NoJob \in Job
      BY BoundsAssumption DEF NoJob, Job
    <2>4. job' \in Job
      BY <1>2, <2>2, <2>3 DEF FinishesJob
    <2> QED BY <1>2, <2>1, <2>4 DEF FinishesJob
  <1> QED BY <1>1, <1>2

LEMMA FailTypes ==
    ASSUME Types, NEW w \in Workers, QueryFails(w) \/ FinishFails(w) \/ Crashes(w)
    PROVE  Types'
  <1> USE DEF Types, outsideVars, providerVars, queueVars, Newest
  <1>0. worker[w] \in Worker /\ Fits(w, worker[w])
    BY ClaimedFits
  <1>1. faults' \in 0..MaxFaults
    BY FaultCounts DEF QueryFails, FinishFails, Crashes
  <1>2. CASE QueryFails(w)
    <2>1. WorkersFit'
      BY <1>2, ReturnsFits, GivesBackFits DEF QueryFails, Reasons
    <2> QED BY <1>1, <1>2, <2>1 DEF QueryFails
  <1>3. CASE FinishFails(w)
    <2> DEFINE rec == [worker[w] EXCEPT !.at = "refinish", !.why = "failed"]
    <2>1. rec \in Worker
      BY <1>0 DEF Worker, Stages, Reasons
    <2>2. worker[w].at = "finish" => Fits(w, rec)
      BY <1>0 DEF Worker, Fits
    <2>3. WorkersFit'
      BY <1>3, <2>1, <2>2, IdleFits, GoesFits DEF FinishFails
    <2> QED BY <1>1, <1>3, <2>3 DEF FinishFails
  <1>4. CASE Crashes(w)
    <2>1. WorkersFit'
      BY <1>4, IdleFits, GoesFits DEF Crashes
    <2> QED BY <1>1, <1>4, <2>1 DEF Crashes
  <1> QED BY <1>2, <1>3, <1>4

-----------------------------------------------------------------------------
(***************************************************************************)
(* The job is for the newest revision.                                     *)
(***************************************************************************)
LEMMA NewestSteps ==
    ASSUME Types, JobIsNewest, [Next]_vars PROVE JobIsNewest'
  <1> USE DEF JobIsNewest, Newest, outsideVars, providerVars, queueVars
  <1>0. revs \in Seq({"draft", "finished"}) /\ Len(revs) \in Nat /\ job \in Job
    BY DEF Types
  <1>1. ASSUME NEW status \in {"draft", "finished"}, SaveRevision(status)
        PROVE  JobIsNewest'
    <2>1. /\ Len(revs') = Len(revs) + 1 /\ revs'[Len(revs) + 1] = status
      BY <1>0, <1>1 DEF SaveRevision
    <2>2. CASE status = "finished"
      BY <1>0, <1>1, <2>1, <2>2 DEF SaveRevision, queue_finished_package
    <2>3. CASE status = "draft"
      BY <1>1, <2>3 DEF SaveRevision, queue_finished_package
    <2> QED BY <2>2, <2>3
  <1>2. CASE UNCHANGED <<revs, job>>
    BY <1>2
  <1>3. ASSUME NEW w \in Workers, CronClaims(w) PROVE JobIsNewest'
    BY <1>0, <1>3 DEF CronClaims, Job
  <1>4. ASSUME NEW w \in Workers, FinishesJob(w) PROVE JobIsNewest'
    <2>1. CASE job' = job
      BY <1>4, <2>1 DEF FinishesJob
    <2>2. CASE job' = NoJob
      BY <2>2
    <2>3. CASE job' = [job EXCEPT !.due = DueAfter(worker[w].why)]
      <3>1. job'.rev = job.rev
        BY <1>0, <2>3 DEF Job
      <3>0. job.rev > 0 \/ job' = job
        BY <1>4, ClaimedFits DEF FinishesJob, Types, Fits, Workers
      <3>2. job' # NoJob => job # NoJob
        BY <1>0, <1>4, <2>3, <3>0 DEF FinishesJob, Job, NoJob
      <3> QED BY <1>4, <3>1, <3>2 DEF FinishesJob
    <2> QED BY <1>4, <2>1, <2>2, <2>3 DEF FinishesJob
  <1>5. CASE JobFallsDue \/ NextDay
    BY <1>0, <1>5 DEF JobFallsDue, NextDay, Job, NoJob
  <1>6. CASE EditAccount \/ Settles
    BY <1>2, <1>6 DEF EditAccount, Settles
  <1>7. ASSUME NEW w \in Workers,
               \/ \E now \in BOOLEAN : PageAsks(w, now)
               \/ QueryFails(w) \/ FinishFails(w) \/ Crashes(w)
               \/ Looks(w) \/ ClaimsRev(w) \/ SeesRev(w) \/ ClaimsDay(w) \/ SeesDay(w)
        PROVE  UNCHANGED <<revs, job>>
    BY <1>7 DEF PageAsks, QueryFails, FinishFails, Crashes, Looks, ClaimsRev, SeesRev,
                ClaimsDay, SeesDay
  <1>8. ASSUME NEW w \in Workers,
               \/ Yields(w) \/ Builds(w) \/ Prepares(w) \/ ChecksTarget(w) \/ Sends(w)
               \/ CompletesRev(w) \/ CompletesDay(w) \/ GivesRevBack(w) \/ GivesDayBack(w)
        PROVE  UNCHANGED <<revs, job>>
    BY <1>8 DEF Yields, Builds, Prepares, ChecksTarget, Sends, CompletesRev, CompletesDay,
                GivesRevBack, GivesDayBack, ReleasesRev
  <1>9. CASE \E r \in Revs : RevLeaseEnds(r) \/ RevRowAges(r) \/ ProviderForgets(r)
    BY <1>2, <1>9 DEF RevLeaseEnds, RevRowAges, ProviderForgets
  <1>10. CASE \E d \in Days : DayLeaseEnds(d) \/ DayRowAges(d)
    BY <1>2, <1>10 DEF DayLeaseEnds, DayRowAges
  <1>11. CASE UNCHANGED vars
    BY <1>2, <1>11 DEF vars
  <1> QED BY <1>1, <1>2, <1>3, <1>4, <1>5, <1>6, <1>7, <1>8, <1>9, <1>10, <1>11
          DEF Next, SendStep, Passes

LEMMA TypeSteps ==
    ASSUME Types, JobIsNewest, [Next]_vars PROVE Types'
  <1>1. CASE UNCHANGED vars
    BY <1>1, FitsKept DEF vars, Types, queueVars, outsideVars, providerVars, Newest
  <1>2. ASSUME NEW w \in Workers, SendStep(w) PROVE Types'
    BY <1>2, ClaimTypes, GiveBackTypes, MailTypes, JobTypes DEF SendStep
  <1> QED BY <1>1, <1>2, PersonTypes, TimeTypes, AskTypes, JobTypes, FailTypes DEF Next

LEMMA TypesAlways == Spec => [](Types /\ JobIsNewest)
  <1>1. Init => Types /\ JobIsNewest
    BY InitTypes DEF Init, JobIsNewest
  <1>2. Types /\ JobIsNewest /\ [Next]_vars => (Types /\ JobIsNewest)'
    BY TypeSteps, NewestSteps
  <1> QED BY <1>1, <1>2, PTL DEF Spec

(* Every record of the queue, the claims and the sends has its shape, and  *)
(* a send holds what its stage needs (packageEmail.ts, packageDelivery.ts, *)
(* email-package-auto.ts).                                                 *)
THEOREM DeliveryTypeCorrect == Spec => [](TypeOK /\ RecordsFit)
  BY TypesAlways, TypesMean, PTL

(* "So the newest finished document is what goes out" (086:25): in every   *)
(* reachable state the job is for the newest revision, a finished one.     *)
THEOREM JobOfTheNewest == Spec => []JobIsNewest
  BY TypesAlways, PTL

(* Only a draft, a newer revision, or a result of the job's own revision   *)
(* takes a job away, whatever older sends are in flight.                   *)
THEOREM JobEndsOnlyByItsOwn == Spec => JobEndsByItsOwn
  <1>1. Types /\ JobIsNewest /\ [Next]_vars =>
          (job # NoJob /\ job' = NoJob =>
             \/ Len(revs') > Len(revs)
             \/ \E w \in Workers : /\ worker[w].at \in {"finish", "refinish"}
                                  /\ worker[w].job = job.rev)
    <2> SUFFICES ASSUME Types, JobIsNewest, [Next]_vars, job # NoJob, job' = NoJob,
                        ~(Len(revs') > Len(revs))
                 PROVE  \E w \in Workers : /\ worker[w].at \in {"finish", "refinish"}
                                           /\ worker[w].job = job.rev
      OBVIOUS
    <2> USE DEF queueVars
    <2>0. job \in Job /\ revs \in Seq({"draft", "finished"}) /\ job.rev = Len(revs) /\ job.rev > 0
      BY DEF Types, JobIsNewest, Newest
    <2>1. ASSUME NEW w \in Workers, FinishesJob(w) PROVE worker[w].job = job.rev
      BY <2>1 DEF FinishesJob
    <2>2. ASSUME NEW status \in {"draft", "finished"}, SaveRevision(status) PROVE FALSE
      <3>1. Len(revs') = Len(revs) + 1 /\ Len(revs) \in Nat
        BY <2>0, <2>2 DEF SaveRevision
      <3> QED BY <3>1
    <2>3. CASE UNCHANGED job
      BY <2>3
    <2>4. ASSUME NEW w \in Workers, CronClaims(w) PROVE FALSE
      <3>1. job'.rev = job.rev
        BY <2>0, <2>4 DEF CronClaims, Job
      <3> QED BY <2>0, <3>1 DEF NoJob
    <2>5. CASE JobFallsDue \/ NextDay
      BY <2>0, <2>5 DEF JobFallsDue, NextDay, Job, NoJob
    <2>6. ASSUME NEW w \in Workers,
                 \/ \E now \in BOOLEAN : PageAsks(w, now)
                 \/ QueryFails(w) \/ FinishFails(w) \/ Crashes(w)
                 \/ Looks(w) \/ ClaimsRev(w) \/ SeesRev(w) \/ ClaimsDay(w) \/ SeesDay(w)
          PROVE  UNCHANGED job
      BY <2>6 DEF PageAsks, QueryFails, FinishFails, Crashes, Looks, ClaimsRev, SeesRev,
                  ClaimsDay, SeesDay
    <2>7. ASSUME NEW w \in Workers,
                 \/ Yields(w) \/ Builds(w) \/ Prepares(w) \/ ChecksTarget(w) \/ Sends(w)
                 \/ CompletesRev(w) \/ CompletesDay(w) \/ GivesRevBack(w) \/ GivesDayBack(w)
          PROVE  UNCHANGED job
      BY <2>7 DEF Yields, Builds, Prepares, ChecksTarget, Sends, CompletesRev, CompletesDay,
                  GivesRevBack, GivesDayBack, ReleasesRev
    <2>8. ASSUME NEW r \in Revs, RevLeaseEnds(r) \/ RevRowAges(r) \/ ProviderForgets(r)
          PROVE  UNCHANGED job
      BY <2>8 DEF RevLeaseEnds, RevRowAges, ProviderForgets
    <2>9. ASSUME NEW d \in Days, DayLeaseEnds(d) \/ DayRowAges(d)
          PROVE  UNCHANGED job
      BY <2>9 DEF DayLeaseEnds, DayRowAges
    <2>10. CASE EditAccount \/ Settles \/ UNCHANGED vars
      BY <2>3, <2>10 DEF EditAccount, Settles, vars
    <2>11. ASSUME NEW w \in Workers, FinishesJob(w) PROVE worker[w].at \in {"finish", "refinish"}
      BY <2>11 DEF FinishesJob
    <2> QED BY <2>1, <2>2, <2>3, <2>4, <2>5, <2>6, <2>7, <2>8, <2>9, <2>10, <2>11
            DEF Next, SendStep, Passes
  <1>2. Types /\ JobIsNewest /\ [Next]_vars =>
          [job # NoJob /\ job' = NoJob =>
             \/ Len(revs') > Len(revs)
             \/ \E w \in Workers : /\ worker[w].at \in {"finish", "refinish"}
                                  /\ worker[w].job = job.rev]_vars
    BY <1>1
  <1> QED BY <1>2, TypesAlways, PTL DEF Spec, JobEndsByItsOwn

-----------------------------------------------------------------------------
(***************************************************************************)
(* No revision is mailed twice.  A mail is new to the provider only if its *)
(* key is not known; the key of a mail that went out is known until its    *)
(* row is old; the row a sender holds is not old.  None of the five parts  *)
(* is inductive alone.                                                     *)
(***************************************************************************)
SendInv ==
    HeldRowsAreFresh /\ AttemptsAreKept /\ KeysAreKnown /\ DeliveredMeansMailed /\ MailedOnce

Young == {"none", "fresh"}
HeldAt == {"claimDay", "seeDay", "yield", "build", "prepare", "target", "send",
           "completeRev", "completeDay", "releaseRev", "releaseDay"}
TriedAt == {"target", "send", "completeRev"}
TakenAt == {"completeRev", "completeDay"}

(* What a step may do to a claim row.                                      *)
RowGoes(r) ==
    /\ revClaim[r].attempted => revClaim'[r].attempted
    /\ revClaim'[r].attempted => revClaim'[r].age # "none"
    /\ revClaim[r].attempted /\ revClaim[r].age = "old" => revClaim'[r].age = "old"
    /\ revClaim'[r].delivered => revClaim[r].delivered \/ Mailed(r)
    /\ (\E w \in Workers : HoldsRev(w, r)) /\ revClaim[r].age \in Young =>
          revClaim'[r].age \in Young

(* What a step may do to the record of its worker.                         *)
RecGoes(w, rec) ==
    /\ rec.at \in HeldAt => \/ worker[w].at \in HeldAt /\ worker[w].rev = rec.rev
                            \/ revClaim'[rec.rev].age \in Young
    /\ rec.at \in TriedAt => \/ worker[w].at \in TriedAt /\ worker[w].rev = rec.rev
                             \/ revClaim'[rec.rev].attempted
    /\ rec.at \in TakenAt => \/ worker[w].at \in TakenAt /\ worker[w].rev = rec.rev
                             \/ Mailed(rec.rev)

LEMMA HoldsMeans ==
    ASSUME NEW w \in Workers, NEW r \in Revs
    PROVE  HoldsRev(w, r) <=> worker[w].rev = r /\ worker[w].at \in HeldAt
  BY DEF HoldsRev, HoldsDay, HeldAt

(* A worker that stays goes this way, and so does everybody beside the one *)
(* that moves; a row that stays goes this way, and so does every other.    *)
LEMMA OneMoves ==
    ASSUME Types, NEW w \in Workers, NEW rec, Goes(w, rec), RecGoes(w, rec)
    PROVE  \A v \in Workers : RecGoes(v, worker'[v])
  <1>1. worker \in [Workers -> Worker] /\ worker' = [worker EXCEPT ![w] = rec]
    BY DEF Types, WorkersFit, Goes
  <1>2. \A v \in Workers : worker'[v] = IF v = w THEN rec ELSE worker[v]
    BY <1>1
  <1>3. \A v \in Workers : RecGoes(v, worker[v])
    BY DEF RecGoes
  <1> QED BY <1>2, <1>3

LEMMA NoneMoves ==
    ASSUME UNCHANGED worker PROVE \A v \in Workers : RecGoes(v, worker'[v])
  BY DEF RecGoes

LEMMA OneRowGoes ==
    ASSUME Types, SendInv, NEW q \in Revs, NEW c,
           revClaim' = [revClaim EXCEPT ![q] = c], RowGoes(q)
    PROVE  \A r \in Revs : RowGoes(r)
  <1>1. \A r \in Revs : r # q => revClaim'[r] = revClaim[r]
    BY DEF Types
  <1>2. ASSUME NEW r \in Revs, r # q PROVE RowGoes(r)
    BY <1>1, <1>2 DEF RowGoes, SendInv, AttemptsAreKept
  <1> QED BY <1>2

LEMMA SameRows ==
    ASSUME Types, SendInv, UNCHANGED revClaim
    PROVE  \A r \in Revs : RowGoes(r)
  BY DEF RowGoes, SendInv, AttemptsAreKept

(* Such a step keeps the invariant when the provider takes no mail.        *)
LEMMA MoveKeeps ==
    ASSUME Types, Types', SendInv, UNCHANGED providerVars,
           \A r \in Revs : RowGoes(r), \A v \in Workers : RecGoes(v, worker'[v])
    PROVE  SendInv'
  <1> USE DEF providerVars
  <1>0. \A v \in Workers : worker[v].at \in HeldAt => worker[v].rev \in Revs
    BY DEF Types, WorkersFit, Fits, HeldAt
  <1>2. \A r : Mailed(r)' <=> Mailed(r)
    BY DEF Mailed
  <1>3. HeldRowsAreFresh'
    <2> SUFFICES ASSUME NEW v \in Workers, NEW r \in Revs, HoldsRev(v, r)'
                 PROVE  revClaim'[r].age \in Young
      BY DEF HeldRowsAreFresh, Young
    <2>1. worker'[v].rev = r /\ worker'[v].at \in HeldAt
      BY DEF HoldsRev, HoldsDay, HeldAt
    <2>2. CASE worker[v].at \in HeldAt /\ worker[v].rev = r
      <3>1. HoldsRev(v, r) /\ revClaim[r].age \in Young
        BY <2>2, HoldsMeans DEF SendInv, HeldRowsAreFresh, Young
      <3> QED BY <3>1 DEF RowGoes
    <2> QED BY <2>1, <2>2 DEF RecGoes
  <1>4. AttemptsAreKept'
    <2>1. ASSUME NEW v \in Workers, worker'[v].at \in TriedAt
          PROVE  revClaim'[worker'[v].rev].attempted
      <3>1. CASE worker[v].at \in TriedAt /\ worker[v].rev = worker'[v].rev
        <4>1. revClaim[worker[v].rev].attempted /\ worker[v].rev \in Revs
          BY <1>0, <3>1 DEF SendInv, AttemptsAreKept, TriedAt, HeldAt
        <4> QED BY <3>1, <4>1 DEF RowGoes
      <3> QED BY <2>1, <3>1 DEF RecGoes
    <2>2. \A r \in Revs : Mailed(r)' => revClaim'[r].attempted
      BY <1>2 DEF SendInv, AttemptsAreKept, RowGoes
    <2>3. \A r \in Revs : revClaim'[r].attempted => revClaim'[r].age # "none"
      BY DEF RowGoes
    <2> QED BY <2>1, <2>2, <2>3 DEF AttemptsAreKept, TriedAt
  <1>5. KeysAreKnown'
    <2>1. ASSUME NEW v \in Workers, worker'[v].at \in TakenAt PROVE Mailed(worker'[v].rev)
      <3>1. CASE worker[v].at \in TakenAt /\ worker[v].rev = worker'[v].rev
        BY <3>1 DEF SendInv, KeysAreKnown, TakenAt
      <3> QED BY <2>1, <3>1 DEF RecGoes
    <2>2. \A r \in Revs : Mailed(r) => r \in window \/ revClaim'[r].age = "old"
      BY DEF SendInv, KeysAreKnown, AttemptsAreKept, RowGoes
    <2>3. \A r \in window : Mailed(r)
      BY DEF SendInv, KeysAreKnown
    <2> QED BY <1>2, <2>1, <2>2, <2>3 DEF KeysAreKnown, TakenAt
  <1>6. DeliveredMeansMailed'
    <2> SUFFICES ASSUME NEW r \in Revs, revClaim'[r].delivered PROVE Mailed(r)
      BY <1>2 DEF DeliveredMeansMailed
    <2> QED BY DEF SendInv, DeliveredMeansMailed, RowGoes
  <1>7. MailedOnce'
    BY DEF SendInv, MailedOnce
  <1> QED BY <1>3, <1>4, <1>5, <1>6, <1>7 DEF SendInv

(* The workers' moves that ask for nothing new.                            *)
LEMMA IdleMoves ==
    ASSUME Types, NEW w \in Workers, Goes(w, Idle)
    PROVE  \A v \in Workers : RecGoes(v, worker'[v])
  <1>1. RecGoes(w, Idle)
    BY DEF RecGoes, Idle, HeldAt, TriedAt, TakenAt
  <1> QED BY <1>1, OneMoves

LEMMA EndMoves ==
    ASSUME Types, NEW w \in Workers, NEW why,
           NEW stage \in {"finish", "refinish"}, Ends(w, stage, why)
    PROVE  \A v \in Workers : RecGoes(v, worker'[v])
  <1> DEFINE rec == [worker[w] EXCEPT !.at = stage, !.why = why]
  <1>1. rec.at = stage
    BY ClaimedFits DEF Types, Worker
  <1>2. RecGoes(w, rec)
    BY <1>1 DEF RecGoes, HeldAt, TriedAt, TakenAt
  <1> QED BY <1>2, IdleMoves, OneMoves DEF Ends

LEMMA ReturnMoves ==
    ASSUME Types, NEW w \in Workers, NEW why, Returns(w, why) \/ Throws(w)
    PROVE  \A v \in Workers : RecGoes(v, worker'[v])
  BY EndMoves DEF Returns, Throws

LEMMA GiveBackMoves ==
    ASSUME Types, NEW w \in Workers, NEW why, GivesBack(w, why), worker[w].at \in HeldAt
    PROVE  \A v \in Workers : RecGoes(v, worker'[v])
  <1> DEFINE rec == [worker[w] EXCEPT !.at = "releaseRev", !.why = why]
  <1>1. rec.at = "releaseRev" /\ rec.rev = worker[w].rev
    BY ClaimedFits DEF Types, Worker
  <1>2. RecGoes(w, rec)
    BY <1>1 DEF RecGoes, HeldAt, TriedAt, TakenAt
  <1> QED BY <1>2, OneMoves DEF GivesBack

LEMMA StepMoves ==
    ASSUME Types, NEW w \in Workers, NEW stage \in Stages, Step(w, stage),
           stage \in HeldAt => worker[w].at \in HeldAt,
           stage \in TriedAt => worker[w].at \in TriedAt,
           stage \in TakenAt => worker[w].at \in TakenAt
    PROVE  \A v \in Workers : RecGoes(v, worker'[v])
  <1> DEFINE rec == [worker[w] EXCEPT !.at = stage]
  <1>1. rec.at = stage /\ rec.rev = worker[w].rev
    BY ClaimedFits DEF Types, Worker
  <1>2. RecGoes(w, rec)
    BY <1>1 DEF RecGoes
  <1> QED BY <1>2, OneMoves DEF Step

(* The steps of the claims.                                                *)
LEMMA SendInvClaims ==
    ASSUME Types, Types', SendInv, NEW w \in Workers,
           Looks(w) \/ ClaimsRev(w) \/ SeesRev(w) \/ ClaimsDay(w) \/ SeesDay(w)
    PROVE  SendInv'
  <1> DEFINE r == worker[w].rev
  <1> USE DEF outsideVars
  <1>0. /\ worker[w] \in Worker
        /\ worker[w].at \notin {"idle", "look", "finish", "refinish"} => r \in Revs
    BY ClaimedFits DEF Types
  <1>1. CASE Looks(w)
    <2> DEFINE rec == [worker[w] EXCEPT !.at = "claimRev", !.now = FALSE,
                                        !.rev = Newest, !.day = day, !.to = acct.to]
    <2>1. RecGoes(w, rec)
      BY <1>0 DEF RecGoes, Worker, HeldAt, TriedAt, TakenAt
    <2>2. CASE Goes(w, rec)
      BY <1>1, <2>1, <2>2, OneMoves, SameRows, MoveKeeps DEF Looks
    <2>3. ASSUME NEW why, Returns(w, why) PROVE SendInv'
      BY <1>1, <2>3, ReturnMoves, SameRows, MoveKeeps DEF Looks
    <2>4. Goes(w, rec) \/ Returns(w, Refusal(w)) \/ Returns(w, "not_configured")
      BY <1>1 DEF Looks
    <2> HIDE DEF rec
    <2> QED BY <2>2, <2>3, <2>4
  <1>2. CASE ClaimsRev(w)
    <2>1. CASE Claimable(revClaim[r])
      <3>1. /\ revClaim' = [revClaim EXCEPT ![r] = Claimed(revClaim[r])] /\ Step(w, "claimDay")
            /\ r \in Revs /\ worker[w].at = "claimRev" /\ UNCHANGED providerVars
        BY <1>0, <1>2, <2>1 DEF ClaimsRev
      <3>2. revClaim'[r] = Claimed(revClaim[r]) /\ revClaim[r] \in Row
        BY <3>1 DEF Types
      <3>3. revClaim'[r].age = "fresh"
        BY <2>1, <3>2 DEF Claimable, Claimed, NewRow, NoRow, Row
      <3>4. RowGoes(r)
        <4>1. CASE revClaim[r].age = "none"
          <5>1. ~revClaim[r].attempted /\ ~revClaim'[r].attempted /\ ~revClaim'[r].delivered
            <6>1. ~revClaim[r].attempted
              BY <3>1, <4>1 DEF SendInv, AttemptsAreKept
            <6>2. revClaim'[r] = NewRow
              BY <3>2, <4>1 DEF Claimed
            <6>3. NewRow.attempted = FALSE /\ NewRow.delivered = FALSE
              BY DEF NewRow, NoRow
            <6> QED BY <6>1, <6>2, <6>3
          <5> QED BY <3>3, <4>1, <5>1 DEF RowGoes, Young
        <4>2. CASE revClaim[r].age # "none"
          <5>1. /\ revClaim'[r].attempted = revClaim[r].attempted
                /\ revClaim'[r].delivered = revClaim[r].delivered /\ revClaim[r].age = "fresh"
            BY <2>1, <3>2, <4>2 DEF Claimed, Claimable, Row
          <5> QED BY <3>3, <5>1 DEF RowGoes, Young
        <4> QED BY <4>1, <4>2
      <3>5. \A q \in Revs : RowGoes(q)
        BY <3>1, <3>4, OneRowGoes
      <3> DEFINE rec == [worker[w] EXCEPT !.at = "claimDay"]
      <3>6. RecGoes(w, rec)
        BY <1>0, <3>3 DEF RecGoes, Worker, HeldAt, TriedAt, TakenAt, Young
      <3> QED BY <3>1, <3>5, <3>6, OneMoves, MoveKeeps DEF Step
    <2>2. CASE ~Claimable(revClaim[r])
      <3>1. Step(w, "seeRev") /\ UNCHANGED revClaim /\ UNCHANGED providerVars
        BY <1>2, <2>2 DEF ClaimsRev
      <3> QED BY <3>1, StepMoves, SameRows, MoveKeeps DEF Stages, HeldAt, TriedAt, TakenAt
    <2> QED BY <2>1, <2>2
  <1>3. CASE SeesRev(w)
    BY <1>3, ReturnMoves, SameRows, MoveKeeps DEF SeesRev
  <1>4. CASE ClaimsDay(w)
    <2>1. Step(w, "build") \/ Step(w, "seeDay")
      BY <1>4 DEF ClaimsDay
    <2>2. worker[w].at \in HeldAt /\ UNCHANGED providerVars /\ UNCHANGED revClaim
      BY <1>4 DEF ClaimsDay, HeldAt
    <2> QED BY <2>1, <2>2, StepMoves, SameRows, MoveKeeps DEF Stages, HeldAt, TriedAt, TakenAt
  <1>5. CASE SeesDay(w)
    <2> DEFINE rec == [worker[w] EXCEPT !.at = "yield",
                             !.why = Standing(dayClaim[worker[w].day], "already_today")]
    <2>1. RecGoes(w, rec)
      BY <1>0, <1>5 DEF SeesDay, RecGoes, Worker, HeldAt, TriedAt, TakenAt
    <2> QED BY <1>5, <2>1, OneMoves, SameRows, MoveKeeps DEF SeesDay
  <1> QED BY <1>1, <1>2, <1>3, <1>4, <1>5

(* The steps that give claims back, and the build.                         *)
LEMMA SendInvGiveBacks ==
    ASSUME Types, Types', SendInv, NEW w \in Workers,
           Yields(w) \/ GivesRevBack(w) \/ GivesDayBack(w) \/ Builds(w)
    PROVE  SendInv'
  <1> DEFINE r == worker[w].rev
  <1> USE DEF outsideVars
  <1>0. worker[w].at \in HeldAt => r \in Revs /\ revClaim[r] \in Row
    BY ClaimedFits DEF Types, HeldAt
  <1>1. ASSUME NEW next, worker[w].at \in HeldAt, ReleasesRev(w, next)
        PROVE  (\A q \in Revs : RowGoes(q)) /\ UNCHANGED providerVars
    <2>1. CASE revClaim' = [revClaim EXCEPT ![r] = Released(revClaim[r])]
      <3>1. revClaim'[r] = Released(revClaim[r])
        BY <1>0, <1>1, <2>1 DEF Types
      <3>2. RowGoes(r)
        <4>1. CASE revClaim[r].attempted \/ revClaim[r].delivered
          <5>1. revClaim'[r] = revClaim[r]
            BY <3>1, <4>1 DEF Released
          <5> QED BY <1>0, <1>1, <5>1 DEF RowGoes, SendInv, AttemptsAreKept
        <4>2. CASE ~revClaim[r].attempted /\ ~revClaim[r].delivered
          <5>1. revClaim'[r] = NoRow
            BY <3>1, <4>2 DEF Released
          <5> QED BY <4>2, <5>1 DEF NoRow, RowGoes, Young
        <4> QED BY <4>1, <4>2
      <3> QED BY <1>0, <1>1, <2>1, <3>2, OneRowGoes DEF ReleasesRev
    <2>2. CASE UNCHANGED revClaim
      BY <1>1, <2>2, SameRows DEF ReleasesRev
    <2> QED BY <1>1, <2>1, <2>2 DEF ReleasesRev
  <1>2. CASE Yields(w)
    <2>1. worker[w].at \in HeldAt /\ ReleasesRev(w, Returns(w, worker[w].why))
      BY <1>2 DEF Yields, HeldAt
    <2>2. Returns(w, worker[w].why)
      BY <2>1 DEF ReleasesRev
    <2> QED BY <1>1, <2>1, <2>2, ReturnMoves, MoveKeeps
  <1>3. CASE GivesRevBack(w)
    <2>1. worker[w].at \in HeldAt /\ ReleasesRev(w, Step(w, "releaseDay"))
      BY <1>3 DEF GivesRevBack, HeldAt
    <2>2. Step(w, "releaseDay")
      BY <2>1 DEF ReleasesRev
    <2>3. \A v \in Workers : RecGoes(v, worker'[v])
      BY <2>1, <2>2, StepMoves DEF Stages, HeldAt, TriedAt, TakenAt
    <2> QED BY <1>1, <2>1, <2>3, MoveKeeps
  <1>4. CASE GivesDayBack(w)
    BY <1>4, ReturnMoves, SameRows, MoveKeeps DEF GivesDayBack
  <1>5. CASE Builds(w)
    <2>1. worker[w].at \in HeldAt /\ UNCHANGED revClaim /\ UNCHANGED providerVars
      BY <1>5 DEF Builds, HeldAt
    <2>2. ASSUME NEW why, GivesBack(w, why) PROVE SendInv'
      BY <2>1, <2>2, GiveBackMoves, SameRows, MoveKeeps
    <2>3. CASE Step(w, "prepare")
      BY <2>1, <2>3, StepMoves, SameRows, MoveKeeps DEF Stages, HeldAt, TriedAt, TakenAt
    <2>4. (\E why \in {"limit", "failed", "settling"} : GivesBack(w, why)) \/ Step(w, "prepare")
      BY <1>5 DEF Builds
    <2> QED BY <2>2, <2>3, <2>4
  <1> QED BY <1>2, <1>3, <1>4, <1>5

(* The mail is saved before it is sent.                                    *)
LEMMA SendInvPrepares ==
    ASSUME Types, Types', SendInv, NEW w \in Workers, Prepares(w)
    PROVE  SendInv'
  <1> DEFINE r == worker[w].rev
             c == revClaim[r]
             mail == IF c.payload = "none" THEN worker[w].to ELSE c.payload
             back == [worker[w] EXCEPT !.at = "releaseRev", !.why = "delivery_unknown"]
             on == [worker[w] EXCEPT !.at = "target", !.mail = mail]
  <1> USE DEF outsideVars
  <1>0. /\ worker[w] \in Worker /\ worker[w].at = "prepare" /\ worker[w].at \in HeldAt
        /\ r \in Revs /\ c \in Row /\ UNCHANGED providerVars
    BY ClaimedFits DEF Types, HeldAt, Prepares
  <1>1. CASE GivesBack(w, "failed") /\ UNCHANGED revClaim
    BY <1>0, <1>1, GiveBackMoves, SameRows, MoveKeeps
  <1>2. CASE /\ c.age # "none" /\ ~c.delivered
             /\ revClaim' = [revClaim EXCEPT ![r].payload = mail, ![r].attempted = TRUE]
             /\ Goes(w, IF mail # worker[w].to THEN back ELSE on)
    <2> DEFINE c2 == [c EXCEPT !.payload = mail, !.attempted = TRUE]
    <2>1. revClaim' = [revClaim EXCEPT ![r] = c2] /\ revClaim'[r] = c2
      BY <1>0, <1>2 DEF Types
    <2>2. /\ revClaim'[r].attempted /\ revClaim'[r].age = c.age
          /\ revClaim'[r].delivered = c.delivered
      <3>1. c2.attempted = TRUE /\ c2.age = c.age /\ c2.delivered = c.delivered
        BY <1>0 DEF Row
      <3> HIDE DEF c2, c
      <3> QED BY <2>1, <3>1
    <2>3. RowGoes(r)
      BY <1>2, <2>2 DEF RowGoes
    <2>4. \A q \in Revs : RowGoes(q)
      BY <1>0, <2>1, <2>3, OneRowGoes
    <2>5. RecGoes(w, back)
      BY <1>0 DEF Worker, RecGoes, HeldAt, TriedAt, TakenAt
    <2>6. RecGoes(w, on)
      BY <1>0, <2>2 DEF Worker, RecGoes, HeldAt, TriedAt, TakenAt
    <2>7. Goes(w, back) \/ Goes(w, on)
      BY <1>2
    <2> HIDE DEF back, on
    <2> QED BY <1>0, <2>4, <2>5, <2>6, <2>7, OneMoves, MoveKeeps
  <1> QED BY <1>1, <1>2 DEF Prepares

(* The completions: only of a revision that was mailed.                    *)
LEMMA SendInvCompletes ==
    ASSUME Types, Types', SendInv, NEW w \in Workers,
           ChecksTarget(w) \/ CompletesRev(w) \/ CompletesDay(w)
    PROVE  SendInv'
  <1> DEFINE r == worker[w].rev
  <1> USE DEF outsideVars
  <1>0. worker[w].at \in HeldAt => r \in Revs /\ revClaim[r] \in Row
    BY ClaimedFits DEF Types, HeldAt
  <1>1. CASE ChecksTarget(w)
    <2>1. /\ worker[w].at = "target" /\ worker[w].at \in HeldAt
          /\ UNCHANGED revClaim /\ UNCHANGED providerVars
      BY <1>1 DEF ChecksTarget, HeldAt
    <2>2. CASE Step(w, "send")
      BY <2>1, <2>2, StepMoves, SameRows, MoveKeeps DEF Stages, HeldAt, TriedAt, TakenAt
    <2>3. ASSUME NEW why, GivesBack(w, why) PROVE SendInv'
      BY <2>1, <2>3, GiveBackMoves, SameRows, MoveKeeps
    <2> QED BY <1>1, <2>2, <2>3 DEF ChecksTarget
  <1>2. CASE CompletesRev(w)
    <2>1. worker[w].at = "completeRev" /\ worker[w].at \in HeldAt /\ UNCHANGED providerVars
      BY <1>2 DEF CompletesRev, HeldAt
    <2>2. Mailed(r)
      BY <2>1 DEF SendInv, KeysAreKnown
    <2>3. CASE revClaim' = [revClaim EXCEPT ![r] = Completed(revClaim[r])] /\ Step(w, "completeDay")
      <3>1. revClaim'[r] = Completed(revClaim[r])
        BY <1>0, <2>1, <2>3 DEF Types
      <3>2. revClaim'[r].attempted = revClaim[r].attempted /\ revClaim'[r].age = revClaim[r].age
        BY <1>0, <2>1, <3>1 DEF Completed, Row
      <3>3. RowGoes(r)
        BY <1>0, <2>1, <2>2, <3>2 DEF RowGoes, SendInv, AttemptsAreKept
      <3>4. \A q \in Revs : RowGoes(q)
        BY <1>0, <2>1, <2>3, <3>3, OneRowGoes
      <3>5. \A v \in Workers : RecGoes(v, worker'[v])
        BY <2>1, <2>3, StepMoves DEF Stages, HeldAt, TriedAt, TakenAt
      <3> QED BY <2>1, <3>4, <3>5, MoveKeeps
    <2>4. CASE Returns(w, "sent") /\ UNCHANGED revClaim
      BY <2>1, <2>4, ReturnMoves, SameRows, MoveKeeps
    <2> QED BY <1>2, <2>3, <2>4 DEF CompletesRev
  <1>3. CASE CompletesDay(w)
    BY <1>3, ReturnMoves, SameRows, MoveKeeps DEF CompletesDay
  <1> QED BY <1>1, <1>2, <1>3

(* The transport.  A mail is new only if its key is not known; the sender  *)
(* holds a young row, so a mail of before would still have its key.        *)
LEMMA SendInvSends ==
    ASSUME Types, Types', SendInv, NEW w \in Workers, Sends(w)
    PROVE  SendInv'
  <1> DEFINE r == worker[w].rev
             mail == [rev |-> r, claimed |-> worker[w].day, day |-> day, to |-> worker[w].mail]
  <1>0. /\ worker[w].at = "send" /\ worker[w].at \in HeldAt /\ r \in Revs
        /\ UNCHANGED revClaim /\ revClaim[r].attempted /\ HoldsRev(w, r)
        /\ inbox \in Seq(Mail)
    <2>1. worker[w].at = "send" /\ r \in Revs /\ UNCHANGED revClaim /\ inbox \in Seq(Mail)
      BY ClaimedFits DEF Sends, Types
    <2> QED BY <2>1, HoldsMeans DEF HeldAt, SendInv, AttemptsAreKept
  <1>1. CASE Returns(w, "failed") /\ UNCHANGED providerVars
    BY <1>0, <1>1, ReturnMoves, SameRows, MoveKeeps
  <1>2. CASE Accepts(w) /\ (Step(w, "completeRev") \/ Returns(w, "failed"))
    <2>1. /\ window' = window \cup {r}
          /\ r \in window => inbox' = inbox
          /\ r \notin window => inbox' = Append(inbox, mail)
      BY <1>2 DEF Accepts
    <2>2. r \notin window => ~Mailed(r)
      BY <1>0 DEF SendInv, KeysAreKnown, HeldRowsAreFresh
    <2>3. \A q \in Revs : Mailed(q)' <=> Mailed(q) \/ q = r
      <3>1. CASE r \in window
        BY <2>1, <3>1 DEF Mailed, SendInv, KeysAreKnown
      <3>2. CASE r \notin window
        <4>1. /\ Len(inbox') = Len(inbox) + 1 /\ Len(inbox) \in Nat
              /\ DOMAIN inbox = 1..Len(inbox) /\ DOMAIN inbox' = 1..(Len(inbox) + 1)
              /\ \A i \in 1..Len(inbox) : inbox'[i] = inbox[i]
              /\ inbox'[Len(inbox) + 1].rev = r
          BY <1>0, <2>1, <3>2
        <4> QED BY <4>1 DEF Mailed
      <3> QED BY <3>1, <3>2
    <2>4. MailedOnce'
      <3>1. CASE r \in window
        BY <2>1, <3>1 DEF SendInv, MailedOnce
      <3>2. CASE r \notin window
        <4>1. /\ Len(inbox) \in Nat
              /\ DOMAIN inbox = 1..Len(inbox) /\ DOMAIN inbox' = 1..(Len(inbox) + 1)
              /\ \A i \in 1..Len(inbox) : inbox'[i] = inbox[i]
              /\ inbox'[Len(inbox) + 1].rev = r
          BY <1>0, <2>1, <3>2
        <4>2. \A i \in 1..Len(inbox) : inbox[i].rev # r
          BY <2>2, <3>2, <4>1 DEF Mailed
        <4> QED BY <4>1, <4>2 DEF SendInv, MailedOnce
      <3> QED BY <3>1, <3>2
    <2>5. \A v \in Workers : v # w => worker'[v] = worker[v]
      BY <1>2 DEF Returns, Ends, Step, Goes, Types, WorkersFit
    <2>6. \/ worker'[w].rev = r /\ worker'[w].at = "completeRev"
          \/ worker'[w].at \in {"idle", "finish"}
      <3>1. worker \in [Workers -> Worker] /\ worker[w] \in Worker
        BY DEF Types, WorkersFit
      <3>2. CASE Step(w, "completeRev")
        <4>1. worker'[w] = [worker[w] EXCEPT !.at = "completeRev"]
          BY <3>1, <3>2 DEF Step, Goes
        <4> QED BY <3>1, <4>1 DEF Worker
      <3>3. CASE Returns(w, "failed")
        <4>1. CASE Goes(w, Idle)
          BY <3>1, <4>1 DEF Goes, Idle
        <4>2. CASE Goes(w, [worker[w] EXCEPT !.at = "finish", !.why = "failed"])
          <5>1. worker'[w] = [worker[w] EXCEPT !.at = "finish", !.why = "failed"]
            BY <3>1, <4>2 DEF Goes
          <5> QED BY <3>1, <5>1 DEF Worker
        <4> QED BY <3>3, <4>1, <4>2 DEF Returns, Ends
      <3> QED BY <1>2, <3>2, <3>3
    <2>7. HeldRowsAreFresh'
      <3> SUFFICES ASSUME NEW v \in Workers, NEW q \in Revs, HoldsRev(v, q)'
                   PROVE  revClaim[q].age \in Young
        BY <1>0 DEF HeldRowsAreFresh, Young
      <3>1. worker'[v].rev = q /\ worker'[v].at \in HeldAt
        BY DEF HoldsRev, HoldsDay, HeldAt
      <3>2. HoldsRev(v, q)
        BY <1>0, <2>5, <2>6, <3>1, HoldsMeans DEF HeldAt
      <3> QED BY <3>2 DEF SendInv, HeldRowsAreFresh, Young
    <2>8. AttemptsAreKept'
      <3>1. \A q \in Revs : Mailed(q)' => revClaim'[q].attempted
        BY <1>0, <2>3 DEF SendInv, AttemptsAreKept
      <3>2. \A q \in Revs : revClaim'[q].attempted => revClaim'[q].age # "none"
        BY <1>0 DEF SendInv, AttemptsAreKept
      <3>3. ASSUME NEW v \in Workers, worker'[v].at \in {"target", "send", "completeRev"}
            PROVE  revClaim'[worker'[v].rev].attempted
        BY <1>0, <2>5, <2>6, <3>3 DEF SendInv, AttemptsAreKept
      <3> QED BY <3>1, <3>2, <3>3 DEF AttemptsAreKept
    <2>9. KeysAreKnown'
      <3>1. \A q \in window' : Mailed(q)'
        BY <1>0, <2>1, <2>3 DEF SendInv, KeysAreKnown, Types
      <3>2. \A q \in Revs : Mailed(q)' => q \in window' \/ revClaim'[q].age = "old"
        BY <1>0, <2>1, <2>3 DEF SendInv, KeysAreKnown
      <3>3. ASSUME NEW v \in Workers, worker'[v].at \in TakenAt
            PROVE  Mailed(worker[v].rev)'
        <4>1. CASE v = w
          BY <1>0, <2>3, <2>6, <3>3, <4>1 DEF TakenAt, Mailed
        <4>2. CASE v # w
          <5>1. worker'[v] = worker[v] /\ worker[v].at \in TakenAt
            BY <2>5, <3>3, <4>2
          <5>2. Mailed(worker[v].rev)
            BY <5>1 DEF TakenAt, SendInv, KeysAreKnown
          <5>3. worker[v].rev \in Revs
            BY <5>1, ClaimedFits DEF TakenAt, Types
          <5> QED BY <2>3, <5>1, <5>2, <5>3 DEF Mailed
        <4> QED BY <4>1, <4>2
      <3> QED BY <3>1, <3>2, <3>3 DEF KeysAreKnown, TakenAt
    <2>10. DeliveredMeansMailed'
      BY <1>0, <2>3 DEF SendInv, DeliveredMeansMailed
    <2> QED BY <2>4, <2>7, <2>8, <2>9, <2>10 DEF SendInv
  <1> QED BY <1>1, <1>2 DEF Sends

(* The queue, the person and the failures.                                 *)
LEMMA SendInvQueue ==
    ASSUME Types, Types', SendInv, NEW w \in Workers,
           \/ \E now \in BOOLEAN : PageAsks(w, now)
           \/ CronClaims(w) \/ FinishesJob(w)
           \/ QueryFails(w) \/ FinishFails(w) \/ Crashes(w)
    PROVE  SendInv'
  <1>0. worker[w] \in Worker /\ Idle \in Worker
    BY ClaimedFits, IdleFits DEF Types
  <1>1. ASSUME NEW now \in BOOLEAN, PageAsks(w, now) PROVE SendInv'
    <2> DEFINE rec == [Idle EXCEPT !.at = "look", !.now = now]
    <2>1. RecGoes(w, rec)
      BY <1>0 DEF Worker, Idle, RecGoes, HeldAt, TriedAt, TakenAt
    <2> QED BY <1>1, <2>1, OneMoves, SameRows, MoveKeeps DEF PageAsks
  <1>2. CASE CronClaims(w)
    <2> DEFINE rec == [Idle EXCEPT !.at = "look", !.job = job.rev]
    <2>1. RecGoes(w, rec)
      BY <1>0 DEF Worker, Idle, RecGoes, HeldAt, TriedAt, TakenAt
    <2>2. ASSUME NEW r \in Revs PROVE RowGoes(r)
      <3>1. revClaim'[r] = Purged(revClaim[r]) /\ revClaim[r] \in Row
        BY <1>2 DEF CronClaims, Types
      <3>2. /\ revClaim'[r].age = revClaim[r].age /\ revClaim'[r].attempted = revClaim[r].attempted
            /\ revClaim'[r].delivered = revClaim[r].delivered
        BY <3>1 DEF Purged, Row
      <3> QED BY <3>2 DEF RowGoes, SendInv, AttemptsAreKept
    <2> QED BY <1>2, <2>1, <2>2, OneMoves, MoveKeeps DEF CronClaims
  <1>3. CASE FinishesJob(w)
    BY <1>3, IdleMoves, SameRows, MoveKeeps DEF FinishesJob
  <1>4. CASE QueryFails(w)
    <2>1. CASE Throws(w)
      BY <1>4, <2>1, ReturnMoves, SameRows, MoveKeeps DEF QueryFails
    <2>2. CASE worker[w].at \in HeldAt /\ GivesBack(w, "failed")
      BY <1>4, <2>2, GiveBackMoves, SameRows, MoveKeeps DEF QueryFails
    <2> QED BY <1>4, <2>1, <2>2 DEF QueryFails, HeldAt
  <1>5. CASE FinishFails(w)
    <2> DEFINE rec == [worker[w] EXCEPT !.at = "refinish", !.why = "failed"]
    <2>1. RecGoes(w, rec)
      BY <1>0 DEF Worker, RecGoes, HeldAt, TriedAt, TakenAt
    <2> QED BY <1>5, <2>1, IdleMoves, OneMoves, SameRows, MoveKeeps DEF FinishFails
  <1>6. CASE Crashes(w)
    BY <1>6, IdleMoves, SameRows, MoveKeeps DEF Crashes
  <1> QED BY <1>1, <1>2, <1>3, <1>4, <1>5, <1>6

(* Time: a row is old before its key is forgotten, and no held row ages.   *)
LEMMA SendInvPasses ==
    ASSUME Types, Types', SendInv, Passes
    PROVE  SendInv'
  <1>1. ASSUME NEW r \in Revs, RevLeaseEnds(r) PROVE SendInv'
    <2>1. /\ revClaim'[r] = [revClaim[r] EXCEPT !.leased = FALSE] /\ revClaim[r] \in Row
          /\ revClaim' = [revClaim EXCEPT ![r] = [revClaim[r] EXCEPT !.leased = FALSE]]
      BY <1>1 DEF RevLeaseEnds, Types
    <2>2. /\ revClaim'[r].age = revClaim[r].age /\ revClaim'[r].attempted = revClaim[r].attempted
          /\ revClaim'[r].delivered = revClaim[r].delivered
      BY <2>1 DEF Row
    <2>3. RowGoes(r)
      BY <2>2 DEF RowGoes, SendInv, AttemptsAreKept
    <2> QED BY <1>1, <2>1, <2>3, OneRowGoes, NoneMoves, MoveKeeps DEF RevLeaseEnds
  <1>2. ASSUME NEW r \in Revs, RevRowAges(r) PROVE SendInv'
    <2>1. /\ revClaim'[r] = [revClaim[r] EXCEPT !.age = Older(revClaim[r].age)]
          /\ revClaim[r] \in Row /\ revClaim[r].age \in {"fresh", "late"}
          /\ revClaim' = [revClaim EXCEPT ![r] = [revClaim[r] EXCEPT !.age = Older(revClaim[r].age)]]
          /\ \A w \in Workers : ~HoldsRev(w, r)
      BY <1>2 DEF RevRowAges, Types
    <2>2. /\ revClaim'[r].age \in {"late", "old"} /\ revClaim'[r].attempted = revClaim[r].attempted
          /\ revClaim'[r].delivered = revClaim[r].delivered
      BY <2>1 DEF Row, Older
    <2>3. RowGoes(r)
      BY <2>1, <2>2 DEF RowGoes
    <2> QED BY <1>2, <2>1, <2>3, OneRowGoes, NoneMoves, MoveKeeps DEF RevRowAges
  <1>3. ASSUME NEW r \in Revs, ProviderForgets(r) PROVE SendInv'
    <2>1. /\ UNCHANGED <<revClaim, worker, inbox>> /\ window' = window \ {r}
          /\ revClaim[r].age = "old"
      BY <1>3 DEF ProviderForgets
    <2>2. \A q : Mailed(q)' <=> Mailed(q)
      BY <2>1 DEF Mailed
    <2>3. KeysAreKnown'
      BY <2>1, <2>2 DEF SendInv, KeysAreKnown
    <2>4. HeldRowsAreFresh'
      BY <2>1 DEF SendInv, HeldRowsAreFresh, HoldsRev, HoldsDay
    <2>5. AttemptsAreKept' /\ DeliveredMeansMailed' /\ MailedOnce'
      BY <2>1, <2>2 DEF SendInv, AttemptsAreKept, DeliveredMeansMailed, MailedOnce
    <2> QED BY <2>3, <2>4, <2>5 DEF SendInv
  <1>4. CASE (\E d \in Days : DayLeaseEnds(d) \/ DayRowAges(d)) \/ Settles \/ JobFallsDue \/ NextDay
    <2>1. UNCHANGED <<revClaim, worker, providerVars>>
      BY <1>4 DEF DayLeaseEnds, DayRowAges, Settles, JobFallsDue, NextDay
    <2> QED BY <2>1, NoneMoves, SameRows, MoveKeeps
  <1> QED BY <1>1, <1>2, <1>3, <1>4 DEF Passes

LEMMA SendInvSteps ==
    ASSUME Types, Types', SendInv, [Next]_vars PROVE SendInv'
  <1>1. CASE UNCHANGED <<revClaim, worker, providerVars>>
    BY <1>1, NoneMoves, SameRows, MoveKeeps
  <1>2. CASE (\E status \in {"draft", "finished"} : SaveRevision(status)) \/ EditAccount \/ UNCHANGED vars
    BY <1>1, <1>2 DEF SaveRevision, EditAccount, vars
  <1>3. ASSUME NEW w \in Workers, SendStep(w) PROVE SendInv'
    BY <1>3, SendInvClaims, SendInvGiveBacks, SendInvPrepares, SendInvSends, SendInvCompletes,
       SendInvQueue DEF SendStep
  <1> QED BY <1>2, <1>3, SendInvQueue, SendInvPasses DEF Next

LEMMA SendInvAlways == Spec => []SendInv
  <1>1. Init => SendInv
    BY DEF Init, SendInv, HeldRowsAreFresh, AttemptsAreKept, KeysAreKnown, DeliveredMeansMailed,
           MailedOnce, Mailed, HoldsRev, HoldsDay, Idle, NoRow
  <1>2. Types /\ Types' /\ SendInv /\ [Next]_vars => SendInv'
    BY SendInvSteps
  <1> QED BY <1>1, <1>2, TypesAlways, PTL DEF Spec

(* "Never the same revision twice" (email-package-auto.ts:24), whatever    *)
(* crashes, answers are lost and sends outlive their leases: for any       *)
(* number of instances, tries and days.                                    *)
THEOREM DeliveredOnce == Spec => []MailedOnce
  BY SendInvAlways, PTL DEF SendInv

(* A claim marked delivered, which no later send takes over, stands for a  *)
(* mail the provider took (completePackageEmailVersion).                   *)
THEOREM DeliveredIsMailed == Spec => []DeliveredMeansMailed
  BY SendInvAlways, PTL DEF SendInv

-----------------------------------------------------------------------------
(***************************************************************************)
(* One sender at a time, where no send outlives its lease: the worker of a *)
(* row holds its lease (or has just completed it), so nobody else can      *)
(* claim it.                                                               *)
(***************************************************************************)
WorkAt == HeldAt \ {"releaseDay"}
Leased(c) == c.age = "fresh" /\ c.leased
SameLease(r) ==
    /\ revClaim'[r].age = revClaim[r].age
    /\ revClaim'[r].leased = revClaim[r].leased
    /\ revClaim'[r].delivered = revClaim[r].delivered

LEMMA WorkMeans ==
    ASSUME NEW w \in Workers, NEW r \in Revs
    PROVE  Working(w, r) <=> worker[w].rev = r /\ worker[w].at \in WorkAt
  BY HoldsMeans DEF Working, WorkAt, HeldAt

(* One worker moves: nobody else works on the row it goes to, and the rows *)
(* the others work on keep their leases.                                   *)
LEMMA LeaseMoves ==
    ASSUME Types, HoldersLease, NEW w \in Workers, NEW rec, Goes(w, rec),
           \A q \in Revs, v \in Workers : v # w /\ Working(v, q) => SameLease(q),
           rec.at \in WorkAt =>
              /\ Leased(revClaim'[rec.rev])
                    \/ (revClaim'[rec.rev].delivered /\ rec.at = "completeDay")
              /\ rec.rev \in Revs
              /\ \A v \in Workers : v # w => ~Working(v, rec.rev)
    PROVE  HoldersLease'
  <1>1. worker \in [Workers -> Worker] /\ worker' = [worker EXCEPT ![w] = rec]
    BY DEF Types, WorkersFit, Goes
  <1>2. \A v \in Workers : worker'[v] = IF v = w THEN rec ELSE worker[v]
    BY <1>1
  <1>3. ASSUME NEW v \in Workers, NEW q \in Revs, Working(v, q)'
        PROVE  /\ worker'[v].rev = q /\ worker'[v].at \in WorkAt
               /\ v # w => Working(v, q)
               /\ v = w => rec.rev = q /\ rec.at \in WorkAt
    <2>1. worker'[v].rev = q /\ worker'[v].at \in WorkAt
      BY <1>3 DEF Working, HoldsRev, HoldsDay, WorkAt, HeldAt
    <2> QED BY <1>2, <2>1, WorkMeans
  <1>4. ASSUME NEW v \in Workers, NEW q \in Revs, Working(v, q)'
        PROVE  \/ revClaim'[q].age = "fresh" /\ revClaim'[q].leased
               \/ revClaim'[q].delivered /\ worker'[v].at = "completeDay"
    <2>1. CASE v = w
      BY <1>2, <1>3, <1>4, <2>1 DEF Leased
    <2>2. CASE v # w
      <3>1. Working(v, q) /\ SameLease(q) /\ worker'[v] = worker[v]
        BY <1>2, <1>3, <1>4, <2>2
      <3> QED BY <3>1 DEF HoldersLease, SameLease
    <2> QED BY <2>1, <2>2
  <1>5. ASSUME NEW v1 \in Workers, NEW v2 \in Workers, NEW q \in Revs,
               Working(v1, q)', Working(v2, q)'
        PROVE  v1 = v2
    BY <1>3, <1>5 DEF HoldersLease
  <1> QED BY <1>4, <1>5 DEF HoldersLease

(* A step that leaves the row work, or every row.                          *)
LEMMA LeaseLeft ==
    ASSUME Types, HoldersLease, UNCHANGED revClaim, NEW w \in Workers, NEW rec, Goes(w, rec),
           rec.at \notin WorkAt
    PROVE  HoldersLease'
  BY LeaseMoves DEF SameLease

LEMMA LeaseEndsWith ==
    ASSUME Types, HoldersLease, NEW w \in Workers, NEW why,
           NEW stage \in {"finish", "refinish"}, Ends(w, stage, why),
           \A q \in Revs, v \in Workers : v # w /\ Working(v, q) => SameLease(q)
    PROVE  HoldersLease'
  <1> DEFINE rec == [worker[w] EXCEPT !.at = stage, !.why = why]
  <1>1. rec.at \notin WorkAt
    BY ClaimedFits DEF Types, Worker, WorkAt, HeldAt
  <1>2. Idle.at \notin WorkAt
    BY DEF Idle, WorkAt, HeldAt
  <1>3. Goes(w, Idle) \/ Goes(w, rec)
    BY DEF Ends
  <1> HIDE DEF rec
  <1> QED BY <1>1, <1>2, <1>3, LeaseMoves

LEMMA LeaseReturns ==
    ASSUME Types, HoldersLease, NEW w \in Workers, NEW why, Returns(w, why) \/ Throws(w),
           \A q \in Revs, v \in Workers : v # w /\ Working(v, q) => SameLease(q)
    PROVE  HoldersLease'
  BY LeaseEndsWith DEF Returns, Throws

(* A worker that goes on working on its row.                               *)
LEMMA LeaseGoesOn ==
    ASSUME Types, HoldersLease, NEW w \in Workers, NEW rec, Goes(w, rec),
           worker[w].at \in WorkAt \ {"completeDay"}, rec.rev = worker[w].rev,
           \A q \in Revs : q # worker[w].rev => SameLease(q),
           rec.at \in WorkAt =>
             \/ SameLease(rec.rev)
             \/ revClaim'[rec.rev].delivered /\ rec.at = "completeDay"
    PROVE  HoldersLease'
  <1> DEFINE r == worker[w].rev
  <1>1. r \in Revs /\ Working(w, r)
    BY ClaimedFits, WorkMeans DEF Types, WorkAt, HeldAt
  <1>2. Leased(revClaim[r]) /\ \A v \in Workers : v # w => ~Working(v, r)
    BY <1>1 DEF HoldersLease, Leased
  <1>3. \A q \in Revs, v \in Workers : v # w /\ Working(v, q) => SameLease(q)
    BY <1>2
  <1>4. SameLease(r) => Leased(revClaim'[r])
    BY <1>2 DEF SameLease, Leased
  <1> QED BY <1>1, <1>2, <1>3, <1>4, LeaseMoves

LEMMA LeaseGivesBack ==
    ASSUME Types, HoldersLease, NEW w \in Workers, NEW why, GivesBack(w, why),
           worker[w].at \in WorkAt \ {"completeDay"}, UNCHANGED revClaim
    PROVE  HoldersLease'
  <1> DEFINE rec == [worker[w] EXCEPT !.at = "releaseRev", !.why = why]
  <1>1. rec.rev = worker[w].rev
    BY ClaimedFits DEF Types, Worker
  <1>2. \A q : SameLease(q)
    BY DEF SameLease
  <1> HIDE DEF rec
  <1> QED BY <1>1, <1>2, LeaseGoesOn DEF GivesBack, rec

LEMMA LeaseSteps ==
    ASSUME Types, HoldersLease, NEW w \in Workers, NEW stage \in Stages, Step(w, stage),
           worker[w].at \in WorkAt \ {"completeDay"}, UNCHANGED revClaim
    PROVE  HoldersLease'
  <1> DEFINE rec == [worker[w] EXCEPT !.at = stage]
  <1>1. rec.rev = worker[w].rev
    BY ClaimedFits DEF Types, Worker
  <1>2. \A q : SameLease(q)
    BY DEF SameLease
  <1> QED BY <1>1, <1>2, LeaseGoesOn DEF Step

(* When only rows go on in time, the rows that are worked on keep theirs.  *)
LEMMA LeaseRows ==
    ASSUME HoldersLease, UNCHANGED worker,
           \A q \in Revs, v \in Workers : Working(v, q) => SameLease(q)
    PROVE  HoldersLease'
  <1>1. \A q, v : Working(v, q)' <=> Working(v, q)
    BY DEF Working, HoldsRev, HoldsDay
  <1> QED BY <1>1 DEF HoldersLease, SameLease

LEMMA LeaseClaims ==
    ASSUME Types, SendInv, HoldersLease, NEW w \in Workers,
           Looks(w) \/ ClaimsRev(w) \/ SeesRev(w) \/ ClaimsDay(w) \/ SeesDay(w)
    PROVE  HoldersLease'
  <1> DEFINE r == worker[w].rev
  <1>0. /\ worker[w] \in Worker
        /\ worker[w].at \notin {"idle", "look", "finish", "refinish"} => r \in Revs
    BY ClaimedFits DEF Types
  <1>1. CASE Looks(w)
    <2> DEFINE rec == [worker[w] EXCEPT !.at = "claimRev", !.now = FALSE,
                                        !.rev = Newest, !.day = day, !.to = acct.to]
    <2>1. rec.at \notin WorkAt
      BY <1>0 DEF Worker, WorkAt, HeldAt
    <2>2. UNCHANGED revClaim
      BY <1>1 DEF Looks
    <2>3. CASE Goes(w, rec)
      BY <2>1, <2>2, <2>3, LeaseLeft
    <2>4. ASSUME NEW why, Returns(w, why) PROVE HoldersLease'
      BY <2>2, <2>4, LeaseReturns DEF SameLease
    <2>5. Goes(w, rec) \/ Returns(w, Refusal(w)) \/ Returns(w, "not_configured")
      BY <1>1 DEF Looks
    <2> HIDE DEF rec
    <2> QED BY <2>3, <2>4, <2>5
  <1>2. CASE ClaimsRev(w)
    <2>1. CASE Claimable(revClaim[r])
      <3> DEFINE rec == [worker[w] EXCEPT !.at = "claimDay"]
      <3>1. /\ revClaim' = [revClaim EXCEPT ![r] = Claimed(revClaim[r])]
            /\ Goes(w, rec) /\ r \in Revs /\ revClaim[r] \in Row
        BY <1>0, <1>2, <2>1 DEF ClaimsRev, Step, Types
      <3>2. rec.rev = r
        BY <1>0 DEF Worker
      <3>3. Leased(revClaim'[r])
        BY <2>1, <3>1 DEF Types, Leased, Claimable, Claimed, NewRow, NoRow, Row
      <3>4. revClaim[r].age = "none" => ~revClaim[r].delivered
        BY <3>1 DEF SendInv, DeliveredMeansMailed, AttemptsAreKept
      <3>5. \A v \in Workers : ~Working(v, r)
        BY <2>1, <3>1, <3>4 DEF HoldersLease, Claimable
      <3>6. \A q \in Revs, v \in Workers : Working(v, q) => SameLease(q)
        BY <3>1, <3>5 DEF SameLease, Types
      <3> HIDE DEF rec
      <3> QED BY <3>1, <3>2, <3>3, <3>5, <3>6, LeaseMoves
    <2>2. CASE ~Claimable(revClaim[r])
      <3> DEFINE rec == [worker[w] EXCEPT !.at = "seeRev"]
      <3>1. rec.at \notin WorkAt
        BY <1>0 DEF Worker, WorkAt, HeldAt
      <3>2. Goes(w, rec) /\ UNCHANGED revClaim
        BY <1>2, <2>2 DEF ClaimsRev, Step
      <3> HIDE DEF rec
      <3> QED BY <3>1, <3>2, LeaseLeft
    <2> QED BY <2>1, <2>2
  <1>3. CASE SeesRev(w)
    BY <1>3, LeaseReturns DEF SeesRev, SameLease
  <1>4. CASE ClaimsDay(w)
    <2>1. Step(w, "build") \/ Step(w, "seeDay")
      BY <1>4 DEF ClaimsDay
    <2>2. worker[w].at \in WorkAt \ {"completeDay"} /\ UNCHANGED revClaim
      BY <1>4 DEF ClaimsDay, WorkAt, HeldAt
    <2> QED BY <2>1, <2>2, LeaseSteps DEF Stages
  <1>5. CASE SeesDay(w)
    <2> DEFINE rec == [worker[w] EXCEPT !.at = "yield",
                             !.why = Standing(dayClaim[worker[w].day], "already_today")]
    <2>1. rec.rev = worker[w].rev
      BY <1>0 DEF Worker
    <2>2. /\ Goes(w, rec) /\ UNCHANGED revClaim
          /\ worker[w].at \in WorkAt \ {"completeDay"}
      BY <1>5 DEF SeesDay, WorkAt, HeldAt
    <2>3. \A q : SameLease(q)
      BY <2>2 DEF SameLease
    <2> HIDE DEF rec
    <2> QED BY <2>1, <2>2, <2>3, LeaseGoesOn
  <1> QED BY <1>1, <1>2, <1>3, <1>4, <1>5

(* A row is given back by the one who works on it.                         *)
LEMMA LeaseGiveBacks ==
    ASSUME Types, HoldersLease, NEW w \in Workers,
           Yields(w) \/ GivesRevBack(w) \/ GivesDayBack(w) \/ Builds(w)
    PROVE  HoldersLease'
  <1> DEFINE r == worker[w].rev
  <1>0. worker[w] \in Worker /\ (worker[w].at \in WorkAt => r \in Revs /\ Working(w, r))
    BY ClaimedFits, WorkMeans DEF Types, WorkAt, HeldAt
  <1>1. ASSUME NEW next, worker[w].at \in WorkAt, ReleasesRev(w, next)
        PROVE  \A q \in Revs, v \in Workers : v # w /\ Working(v, q) => SameLease(q)
    <2>1. \A q \in Revs : q # r => revClaim'[q] = revClaim[q]
      BY <1>1 DEF ReleasesRev, Types
    <2>2. \A v \in Workers : v # w => ~Working(v, r)
      BY <1>0, <1>1 DEF HoldersLease
    <2> QED BY <2>1, <2>2 DEF SameLease
  <1>2. CASE Yields(w)
    <2>1. worker[w].at \in WorkAt /\ ReleasesRev(w, Returns(w, worker[w].why))
      BY <1>2 DEF Yields, WorkAt, HeldAt
    <2>2. Returns(w, worker[w].why)
      BY <2>1 DEF ReleasesRev
    <2> QED BY <1>1, <2>1, <2>2, LeaseReturns
  <1>3. CASE GivesRevBack(w)
    <2> DEFINE rec == [worker[w] EXCEPT !.at = "releaseDay"]
    <2>1. worker[w].at \in WorkAt /\ ReleasesRev(w, Step(w, "releaseDay"))
      BY <1>3 DEF GivesRevBack, WorkAt, HeldAt
    <2>2. Goes(w, rec)
      BY <2>1 DEF ReleasesRev, Step
    <2>3. rec.at \notin WorkAt
      BY <1>0 DEF Worker, WorkAt
    <2> HIDE DEF rec
    <2> QED BY <1>1, <2>1, <2>2, <2>3, LeaseMoves
  <1>4. CASE GivesDayBack(w)
    BY <1>4, LeaseReturns DEF GivesDayBack, SameLease
  <1>5. CASE Builds(w)
    <2>1. worker[w].at \in WorkAt \ {"completeDay"} /\ UNCHANGED revClaim
      BY <1>5 DEF Builds, WorkAt, HeldAt
    <2>2. ASSUME NEW why, GivesBack(w, why) PROVE HoldersLease'
      BY <2>1, <2>2, LeaseGivesBack
    <2>3. CASE Step(w, "prepare")
      BY <2>1, <2>3, LeaseSteps DEF Stages
    <2>4. (\E why \in {"limit", "failed", "settling"} : GivesBack(w, why)) \/ Step(w, "prepare")
      BY <1>5 DEF Builds
    <2> QED BY <2>2, <2>3, <2>4
  <1> QED BY <1>2, <1>3, <1>4, <1>5

LEMMA LeaseMails ==
    ASSUME Types, HoldersLease, NEW w \in Workers,
           Prepares(w) \/ ChecksTarget(w) \/ Sends(w) \/ CompletesRev(w) \/ CompletesDay(w)
    PROVE  HoldersLease'
  <1> DEFINE r == worker[w].rev
             c == revClaim[r]
  <1>0. /\ worker[w] \in Worker
        /\ worker[w].at \in WorkAt => r \in Revs /\ c \in Row
    BY ClaimedFits DEF Types, WorkAt, HeldAt
  <1>1. CASE Prepares(w)
    <2> DEFINE mail == IF c.payload = "none" THEN worker[w].to ELSE c.payload
               back == [worker[w] EXCEPT !.at = "releaseRev", !.why = "delivery_unknown"]
               on == [worker[w] EXCEPT !.at = "target", !.mail = mail]
               c2 == [c EXCEPT !.payload = mail, !.attempted = TRUE]
    <2>1. worker[w].at \in WorkAt \ {"completeDay"}
      BY <1>1 DEF Prepares, WorkAt, HeldAt
    <2>2. CASE GivesBack(w, "failed") /\ UNCHANGED revClaim
      BY <2>1, <2>2, LeaseGivesBack
    <2>3. CASE /\ revClaim' = [revClaim EXCEPT ![r].payload = mail, ![r].attempted = TRUE]
               /\ Goes(w, IF mail # worker[w].to THEN back ELSE on)
      <3>1. back.rev = r /\ on.rev = r
        BY <1>0 DEF Worker
      <3>2. /\ \A q \in Revs : q # r => revClaim'[q] = revClaim[q]
            /\ revClaim'[r] = c2
        BY <1>0, <2>1, <2>3 DEF Types
      <3>3. c2.age = c.age /\ c2.leased = c.leased /\ c2.delivered = c.delivered
        BY <1>0, <2>1 DEF Row
      <3>4. \A q \in Revs : SameLease(q)
        BY <3>2, <3>3 DEF SameLease
      <3>5. Goes(w, back) \/ Goes(w, on)
        BY <2>3
      <3>6. r \in Revs
        BY <1>0, <2>1
      <3> HIDE DEF back, on
      <3> QED BY <2>1, <3>1, <3>4, <3>5, <3>6, LeaseGoesOn
    <2> QED BY <1>1, <2>2, <2>3 DEF Prepares
  <1>2. CASE ChecksTarget(w)
    <2>1. worker[w].at \in WorkAt \ {"completeDay"} /\ UNCHANGED revClaim
      BY <1>2 DEF ChecksTarget, WorkAt, HeldAt
    <2>2. ASSUME NEW why, GivesBack(w, why) PROVE HoldersLease'
      BY <2>1, <2>2, LeaseGivesBack
    <2>3. CASE Step(w, "send")
      BY <2>1, <2>3, LeaseSteps DEF Stages
    <2> QED BY <1>2, <2>2, <2>3 DEF ChecksTarget
  <1>3. CASE Sends(w)
    <2>1. worker[w].at \in WorkAt \ {"completeDay"} /\ UNCHANGED revClaim
      BY <1>3 DEF Sends, WorkAt, HeldAt
    <2>2. CASE Step(w, "completeRev")
      BY <2>1, <2>2, LeaseSteps DEF Stages
    <2>3. CASE Returns(w, "failed")
      BY <2>1, <2>3, LeaseReturns DEF SameLease
    <2> QED BY <1>3, <2>2, <2>3 DEF Sends
  <1>4. CASE CompletesRev(w)
    <2> DEFINE rec == [worker[w] EXCEPT !.at = "completeDay"]
    <2>1. worker[w].at \in WorkAt \ {"completeDay"}
      BY <1>4 DEF CompletesRev, WorkAt, HeldAt
    <2>2. CASE revClaim' = [revClaim EXCEPT ![r] = Completed(c)] /\ Step(w, "completeDay")
      <3>1. rec.rev = r /\ rec.at = "completeDay"
        BY <1>0 DEF Worker
      <3>2. /\ \A q \in Revs : q # r => revClaim'[q] = revClaim[q]
            /\ revClaim'[r] = Completed(c)
        BY <1>0, <2>1, <2>2 DEF Types
      <3>3. Working(w, r) /\ r \in Revs
        BY <1>0, <2>1, WorkMeans
      <3>4. c.age # "none"
        BY <2>1, <3>3 DEF HoldersLease
      <3>5. revClaim'[r].delivered
        BY <1>0, <2>1, <3>2, <3>4 DEF Completed, Row
      <3>6. \A q \in Revs : q # r => SameLease(q)
        BY <3>2 DEF SameLease
      <3>7. Goes(w, rec)
        BY <2>2 DEF Step
      <3> HIDE DEF rec
      <3>8. \A v \in Workers : v # w => ~Working(v, r)
        BY <3>3 DEF HoldersLease
      <3>9. \A q \in Revs, v \in Workers : v # w /\ Working(v, q) => SameLease(q)
        BY <3>6, <3>8
      <3> QED BY <3>1, <3>3, <3>5, <3>7, <3>8, <3>9, LeaseMoves
    <2>3. CASE Returns(w, "sent") /\ UNCHANGED revClaim
      BY <2>3, LeaseReturns DEF SameLease
    <2> QED BY <1>4, <2>2, <2>3 DEF CompletesRev
  <1>5. CASE CompletesDay(w)
    BY <1>5, LeaseReturns DEF CompletesDay, SameLease
  <1> QED BY <1>1, <1>2, <1>3, <1>4, <1>5

LEMMA LeaseQueue ==
    ASSUME Types, HoldersLease, NEW w \in Workers,
           \/ \E now \in BOOLEAN : PageAsks(w, now)
           \/ CronClaims(w) \/ FinishesJob(w)
           \/ QueryFails(w) \/ FinishFails(w) \/ Crashes(w)
    PROVE  HoldersLease'
  <1>0. worker[w] \in Worker /\ Idle \in Worker /\ Idle.at \notin WorkAt
    BY ClaimedFits, IdleFits DEF Types, Idle, WorkAt, HeldAt
  <1>1. ASSUME NEW now \in BOOLEAN, PageAsks(w, now) PROVE HoldersLease'
    <2> DEFINE rec == [Idle EXCEPT !.at = "look", !.now = now]
    <2>1. rec.at \notin WorkAt
      BY <1>0 DEF Worker, WorkAt, HeldAt
    <2> HIDE DEF rec
    <2> QED BY <1>1, <2>1, LeaseLeft DEF PageAsks, rec
  <1>2. CASE CronClaims(w)
    <2> DEFINE rec == [Idle EXCEPT !.at = "look", !.job = job.rev]
    <2>1. rec.at \notin WorkAt
      BY <1>0 DEF Worker, WorkAt, HeldAt
    <2>2. ASSUME NEW r \in Revs PROVE SameLease(r)
      <3>1. revClaim'[r] = Purged(revClaim[r]) /\ revClaim[r] \in Row
        BY <1>2 DEF CronClaims, Types
      <3> QED BY <3>1 DEF SameLease, Purged, Row
    <2>3. Goes(w, rec)
      BY <1>2 DEF CronClaims
    <2> HIDE DEF rec
    <2> QED BY <2>1, <2>2, <2>3, LeaseMoves
  <1>3. CASE FinishesJob(w) \/ Crashes(w)
    <2>1. Goes(w, Idle) /\ UNCHANGED revClaim
      BY <1>3 DEF FinishesJob, Crashes
    <2> QED BY <1>0, <2>1, LeaseLeft
  <1>4. CASE QueryFails(w)
    <2>1. UNCHANGED revClaim
      BY <1>4 DEF QueryFails
    <2>2. CASE Throws(w)
      BY <2>1, <2>2, LeaseReturns DEF SameLease
    <2>3. CASE worker[w].at \in WorkAt \ {"completeDay"} /\ GivesBack(w, "failed")
      BY <2>1, <2>3, LeaseGivesBack
    <2> QED BY <1>4, <2>2, <2>3 DEF QueryFails, WorkAt, HeldAt
  <1>5. CASE FinishFails(w)
    <2> DEFINE rec == [worker[w] EXCEPT !.at = "refinish", !.why = "failed"]
    <2>1. rec.at \notin WorkAt
      BY <1>0 DEF Worker, WorkAt, HeldAt
    <2>2. (Goes(w, rec) \/ Goes(w, Idle)) /\ UNCHANGED revClaim
      BY <1>5 DEF FinishFails
    <2> HIDE DEF rec
    <2> QED BY <1>0, <2>1, <2>2, LeaseLeft
  <1> QED BY <1>1, <1>2, <1>3, <1>4, <1>5

LEMMA LeasePasses ==
    ASSUME Types, HoldersLease, Passes, SlowSends = FALSE
    PROVE  HoldersLease'
  <1>1. ASSUME NEW r \in Revs, RevLeaseEnds(r) \/ RevRowAges(r) PROVE HoldersLease'
    <2>1. /\ UNCHANGED worker /\ \A v \in Workers : ~Working(v, r)
          /\ \A q \in Revs : q # r => revClaim'[q] = revClaim[q]
      BY <1>1 DEF RevLeaseEnds, RevRowAges, MayOutlive, Working, Types
    <2> QED BY <2>1, LeaseRows DEF SameLease
  <1>2. ASSUME UNCHANGED <<revClaim, worker>> PROVE HoldersLease'
    BY <1>2, LeaseRows DEF SameLease
  <1> QED BY <1>1, <1>2
          DEF Passes, ProviderForgets, DayLeaseEnds, DayRowAges, Settles, JobFallsDue, NextDay

LEMMA LeaseKept ==
    ASSUME Types, SendInv, HoldersLease, [Next]_vars, SlowSends = FALSE
    PROVE  HoldersLease'
  <1>1. CASE (\E status \in {"draft", "finished"} : SaveRevision(status)) \/ EditAccount \/ UNCHANGED vars
    <2>1. UNCHANGED <<revClaim, worker>>
      BY <1>1 DEF SaveRevision, EditAccount, vars
    <2> QED BY <2>1, LeaseRows DEF SameLease
  <1>2. ASSUME NEW w \in Workers, SendStep(w) PROVE HoldersLease'
    BY <1>2, LeaseClaims, LeaseGiveBacks, LeaseMails, LeaseQueue DEF SendStep
  <1> QED BY <1>1, <1>2, LeaseQueue, LeasePasses DEF Next

(* Two sends of one revision never stand before the provider together,     *)
(* provided that no send outlives its two-minute lease (the cron's limit   *)
(* of a minute gives that; the page's route states none).                  *)
THEOREM SenderAlone ==
    ASSUME SlowSends = FALSE
    PROVE  Spec => []OneSender
  <1>1. Init => HoldersLease
    BY DEF Init, HoldersLease, Working, HoldsRev, HoldsDay, Idle
  <1>2. Types /\ SendInv /\ HoldersLease /\ [Next]_vars => HoldersLease'
    BY LeaseKept
  <1>3. HoldersLease => OneSender
    <2> SUFFICES ASSUME HoldersLease, NEW w1 \in Workers, NEW w2 \in Workers, NEW r \in Revs,
                        Sending(w1, r), Sending(w2, r)
                 PROVE  w1 = w2
      BY DEF OneSender
    <2>1. Working(w1, r) /\ Working(w2, r)
      BY WorkMeans DEF Sending, WorkAt, HeldAt
    <2> QED BY <2>1 DEF HoldersLease
  <1> QED BY <1>1, <1>2, <1>3, TypesAlways, SendInvAlways, PTL DEF Spec
====
