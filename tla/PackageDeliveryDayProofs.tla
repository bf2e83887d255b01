---- MODULE PackageDeliveryDayProofs ----
(***************************************************************************)
(* Proofs about PackageDelivery: whom a send commits to, what the day's    *)
(* claim keeps while nothing fails, and the mailbox that the queue and its *)
(* claims implement.                                                       *)
(***************************************************************************)
EXTENDS PackageDeliveryProofs

(* The other workers stay where they are; the one that moves goes where    *)
(* its action says.                                                        *)
LEMMA OneGoes ==
    ASSUME Types, NEW w \in Workers, NEW rec, Goes(w, rec)
    PROVE  \A v \in Workers : worker'[v] = IF v = w THEN rec ELSE worker[v]
  BY DEF Types, WorkersFit, Goes

LEMMA StepGoes ==
    ASSUME Types, NEW w \in Workers, NEW stage, Step(w, stage)
    PROVE  /\ worker'[w].at = stage
           /\ worker'[w].day = worker[w].day /\ worker'[w].rev = worker[w].rev
           /\ \A v \in Workers \ {w} : worker'[v] = worker[v]
  <1>1. worker[w] \in Worker
    BY ClaimedFits DEF Types
  <1> QED BY <1>1, OneGoes DEF Step, Worker

LEMMA EndGoes ==
    ASSUME Types, NEW w \in Workers, NEW why,
           NEW stage \in {"finish", "refinish"}, Ends(w, stage, why)
    PROVE  /\ worker'[w].at \in {"idle", "finish", "refinish"}
           /\ worker'[w].day \in {0, worker[w].day}
           /\ \A v \in Workers \ {w} : worker'[v] = worker[v]
  <1>1. worker[w] \in Worker
    BY ClaimedFits DEF Types
  <1>2. CASE Goes(w, Idle)
    BY <1>2, OneGoes DEF Idle
  <1>3. CASE Goes(w, [worker[w] EXCEPT !.at = stage, !.why = why])
    <2> DEFINE rec == [worker[w] EXCEPT !.at = stage, !.why = why]
    <2>1. rec.at = stage /\ rec.day = worker[w].day
      BY <1>1 DEF Worker
    <2>2. \A v \in Workers : worker'[v] = IF v = w THEN rec ELSE worker[v]
      BY <1>3, OneGoes
    <2> HIDE DEF rec
    <2> QED BY <2>1, <2>2
  <1> QED BY <1>2, <1>3 DEF Ends

LEMMA ReturnGoes ==
    ASSUME Types, NEW w \in Workers, NEW why, Returns(w, why) \/ Throws(w)
    PROVE  /\ worker'[w].at \in {"idle", "finish", "refinish"}
           /\ worker'[w].day \in {0, worker[w].day}
           /\ \A v \in Workers \ {w} : worker'[v] = worker[v]
  BY EndGoes DEF Returns, Throws

LEMMA GiveBackGoes ==
    ASSUME Types, NEW w \in Workers, NEW why, GivesBack(w, why)
    PROVE  /\ worker'[w].at = "releaseRev"
           /\ worker'[w].day = worker[w].day /\ worker'[w].rev = worker[w].rev
           /\ \A v \in Workers \ {w} : worker'[v] = worker[v]
  <1>1. worker[w] \in Worker
    BY ClaimedFits DEF Types
  <1> DEFINE rec == [worker[w] EXCEPT !.at = "releaseRev", !.why = why]
  <1>2. rec.at = "releaseRev" /\ rec.day = worker[w].day /\ rec.rev = worker[w].rev
    BY <1>1 DEF Worker
  <1>3. \A v \in Workers : worker'[v] = IF v = w THEN rec ELSE worker[v]
    BY OneGoes DEF GivesBack
  <1> HIDE DEF rec
  <1> QED BY <1>2, <1>3

(***************************************************************************)
(* The last look before the transport.                                     *)
(***************************************************************************)

(* Only ChecksTarget brings a send before the transport.                   *)
LEMMA OnlyTheCheckSends ==
    ASSUME Types, [Next]_vars, NEW v \in Workers,
           worker[v].at # "send", worker'[v].at = "send"
    PROVE  ChecksTarget(v) /\ Step(v, "send")
  <1>1. ~UNCHANGED worker
    OBVIOUS
  <1>2. ASSUME NEW w \in Workers, NEW rec, Goes(w, rec), rec.at # "send" PROVE FALSE
    BY <1>2, OneGoes
  <1>3. ASSUME NEW w \in Workers, NEW why, Returns(w, why) \/ Throws(w) \/ GivesBack(w, why)
        PROVE  FALSE
    BY <1>3, ReturnGoes, GiveBackGoes
  <1>4. ASSUME NEW w \in Workers, NEW stage \in Stages \ {"send"}, Step(w, stage) PROVE FALSE
    BY <1>4, StepGoes
  <1>5. ASSUME NEW w \in Workers PROVE worker[w] \in Worker
    BY ClaimedFits DEF Types
  <1>6. ASSUME NEW w \in Workers, ChecksTarget(w) PROVE ChecksTarget(v) /\ Step(v, "send")
    <2>1. Step(w, "send")
      BY <1>3, <1>6 DEF ChecksTarget
    <2>2. w = v
      BY <2>1, StepGoes
    <2> QED BY <1>6, <2>1, <2>2
  <1>7. ASSUME NEW w \in Workers, Looks(w) PROVE FALSE
    <2> DEFINE rec == [worker[w] EXCEPT !.at = "claimRev", !.now = FALSE,
                                        !.rev = Newest, !.day = day, !.to = acct.to]
    <2>1. rec.at # "send"
      BY <1>5 DEF Worker
    <2> QED BY <1>2, <1>3, <1>7, <2>1 DEF Looks
  <1>8. ASSUME NEW w \in Workers,
               ClaimsRev(w) \/ SeesRev(w) \/ ClaimsDay(w) \/ Builds(w) \/ CompletesRev(w)
        PROVE  FALSE
    BY <1>3, <1>4, <1>8 DEF ClaimsRev, SeesRev, ClaimsDay, Builds, CompletesRev, Stages
  <1>9. ASSUME NEW w \in Workers, SeesDay(w) PROVE FALSE
    <2> DEFINE rec == [worker[w] EXCEPT !.at = "yield",
                            !.why = Standing(dayClaim[worker[w].day], "already_today")]
    <2>1. rec.at # "send"
      BY <1>5 DEF Worker
    <2> QED BY <1>2, <1>9, <2>1 DEF SeesDay
  <1>10. ASSUME NEW w \in Workers,
                Yields(w) \/ GivesRevBack(w) \/ GivesDayBack(w) \/ Sends(w) \/ CompletesDay(w)
         PROVE  FALSE
    BY <1>3, <1>4, <1>10
       DEF Yields, GivesRevBack, GivesDayBack, ReleasesRev, Sends, CompletesDay, Stages
  <1>11. ASSUME NEW w \in Workers, Prepares(w) PROVE FALSE
    <2> DEFINE c == revClaim[worker[w].rev]
               mail == IF c.payload = "none" THEN worker[w].to ELSE c.payload
               rec == IF mail # worker[w].to
                      THEN [worker[w] EXCEPT !.at = "releaseRev", !.why = "delivery_unknown"]
                      ELSE [worker[w] EXCEPT !.at = "target", !.mail = mail]
    <2>1. rec.at # "send"
      BY <1>5 DEF Worker
    <2>2. GivesBack(w, "failed") \/ Goes(w, rec)
      BY <1>11 DEF Prepares
    <2> HIDE DEF rec
    <2> QED BY <1>2, <1>3, <2>1, <2>2
  <1>12. ASSUME NEW w \in Workers,
                \/ \E now \in BOOLEAN : PageAsks(w, now)
                \/ CronClaims(w) \/ FinishesJob(w) \/ FinishFails(w) \/ Crashes(w)
         PROVE  FALSE
    <2>1. \A now \in BOOLEAN : [Idle EXCEPT !.at = "look", !.now = now].at # "send"
      BY DEF Idle
    <2>2. [Idle EXCEPT !.at = "look", !.job = job.rev].at # "send" /\ Idle.at # "send"
      BY DEF Idle
    <2>3. [worker[w] EXCEPT !.at = "refinish", !.why = "failed"].at # "send"
      BY <1>5 DEF Worker
    <2> QED BY <1>2, <1>12, <2>1, <2>2, <2>3
            DEF PageAsks, CronClaims, FinishesJob, FinishFails, Crashes
  <1>13. ASSUME NEW w \in Workers, QueryFails(w) PROVE FALSE
    BY <1>3, <1>13 DEF QueryFails
  <1>14. CASE (\E status \in {"draft", "finished"} : SaveRevision(status)) \/ EditAccount
              \/ Passes \/ UNCHANGED vars
    BY <1>1, <1>14
       DEF SaveRevision, EditAccount, Passes, RevLeaseEnds, RevRowAges, ProviderForgets,
           DayLeaseEnds, DayRowAges, Settles, JobFallsDue, NextDay, vars
  <1> QED BY <1>6, <1>7, <1>8, <1>9, <1>10, <1>11, <1>12, <1>13, <1>14
          DEF Next, SendStep

(* "A changed account address must never replay the old recipient's        *)
(* payload" (email-package-auto.ts:181): a send commits to the transport   *)
(* only with a mail to the address the account has in that transaction,    *)
(* whatever was saved, claimed or edited before.                           *)
THEOREM SentWhereTheAccountIs == Spec => SendsToCurrentAddress
  <1>1. ASSUME Types, [Next]_vars, NEW w \in Workers,
               worker[w].at # "send", worker'[w].at = "send"
        PROVE  worker[w].mail = acct.to /\ acct.mode = "on"
    <2>1. ChecksTarget(w) /\ worker'[w].at = "send"
      BY <1>1, OnlyTheCheckSends
    <2>2. acct.mode = "on" /\ acct.to = worker[w].to
      <3>1. ASSUME NEW why, GivesBack(w, why) PROVE FALSE
        BY <1>1, <3>1, GiveBackGoes
      <3> QED BY <2>1, <3>1 DEF ChecksTarget
    <2>3. worker[w].mail = worker[w].to
      BY <1>1, <2>1, ClaimedFits DEF ChecksTarget, Types, Fits
    <2> QED BY <2>2, <2>3
  <1>2. Types /\ [Next]_vars =>
          [\A w \in Workers : worker[w].at # "send" /\ worker'[w].at = "send" =>
             worker[w].mail = acct.to /\ acct.mode = "on"]_vars
    BY <1>1
  <1> QED BY <1>2, TypesAlways, PTL DEF Spec, SendsToCurrentAddress

-----------------------------------------------------------------------------
(***************************************************************************)
(* One mail a day.  While nothing fails and no send outlives its lease,    *)
(* who works on a day holds its row, alone, and leaves it only when no     *)
(* mail of that day went out, or delivered.                                *)
(***************************************************************************)
DayHeldAt == {"build", "prepare", "target", "send", "completeRev", "completeDay",
              "releaseRev", "releaseDay"}

DayHeldAlone ==
    /\ \A w \in Workers, d \in Days : HoldsDay(w, d) =>
          dayClaim[d].age = "fresh" /\ dayClaim[d].leased /\ ~dayClaim[d].delivered
    /\ \A v, w \in Workers, d \in Days : HoldsDay(v, d) /\ HoldsDay(w, d) => v = w

MailedDaysAreClosed ==
    /\ \A d \in Days : dayClaim[d].delivered => dayClaim[d].age # "none"
    /\ \A i \in DOMAIN inbox :
          \/ dayClaim[inbox[i].claimed].delivered
          \/ \E w \in Workers : worker[w].day = inbox[i].claimed /\ worker[w].at \in TakenAt

DayInv == DayHeldAlone /\ MailedDaysAreClosed /\ OneMailAClaimedDay

LEMMA HoldsDayMeans ==
    \A w, d : HoldsDay(w, d) <=> worker[w].day = d /\ worker[w].at \in DayHeldAt
  BY DEF HoldsDay, DayHeldAt

LEMMA MailDays == ASSUME Types PROVE \A i \in DOMAIN inbox : inbox[i] \in Mail /\ inbox[i].claimed \in Days
  <1> SUFFICES ASSUME NEW i \in DOMAIN inbox PROVE inbox[i] \in Mail /\ inbox[i].claimed \in Days
    OBVIOUS
  <1>1. inbox \in Seq(Mail)
    BY DEF Types
  <1>2. inbox[i] \in Mail
    BY <1>1
  <1> QED BY <1>2 DEF Mail

(* A step that takes no day, gives none back and sends nothing.            *)
LEMMA DayKeeps ==
    ASSUME DayInv, UNCHANGED <<dayClaim, inbox>>,
           \A v \in Workers :
             /\ worker'[v].at \in DayHeldAt =>
                  worker[v].at \in DayHeldAt /\ worker'[v].day = worker[v].day
             /\ worker[v].at \in TakenAt =>
                  worker'[v].at \in TakenAt /\ worker'[v].day = worker[v].day
    PROVE  DayInv'
  <1>1. \A v \in Workers, d \in Days : HoldsDay(v, d)' => HoldsDay(v, d)
    BY DEF HoldsDay, DayHeldAt
  <1>2. DayHeldAlone'
    BY <1>1 DEF DayInv, DayHeldAlone
  <1>3. MailedDaysAreClosed'
    BY DEF DayInv, MailedDaysAreClosed
  <1>4. OneMailAClaimedDay'
    BY DEF DayInv, OneMailAClaimedDay
  <1> QED BY <1>2, <1>3, <1>4 DEF DayInv

(* A worker that moves where it holds no day, or only gives it up before   *)
(* the transport, is such a step.                                          *)
LEMMA DayReturns ==
    ASSUME Types, DayInv, NEW w \in Workers, NEW why,
           Returns(w, why) \/ Goes(w, Idle), worker[w].at \notin TakenAt,
           UNCHANGED <<dayClaim, inbox>>
    PROVE  DayInv'
  <1>1. /\ worker'[w].at \in {"idle", "finish", "refinish"}
        /\ \A v \in Workers \ {w} : worker'[v] = worker[v]
    <2>1. CASE Goes(w, Idle)
      BY <2>1, OneGoes DEF Idle
    <2> QED BY <2>1, ReturnGoes
  <1> QED BY <1>1, DayKeeps DEF DayHeldAt, TakenAt

LEMMA DayGoesBack ==
    ASSUME Types, DayInv, NEW w \in Workers, NEW why, GivesBack(w, why),
           worker[w].at \in DayHeldAt \ TakenAt, UNCHANGED <<dayClaim, inbox>>
    PROVE  DayInv'
  BY GiveBackGoes, DayKeeps DEF DayHeldAt, TakenAt

LEMMA DayGoesOn ==
    ASSUME Types, DayInv, NEW w \in Workers, NEW stage, Step(w, stage),
           stage \in DayHeldAt => worker[w].at \in DayHeldAt,
           worker[w].at \in TakenAt => stage \in TakenAt,
           UNCHANGED <<dayClaim, inbox>>
    PROVE  DayInv'
  BY StepGoes, DayKeeps DEF DayHeldAt, TakenAt

LEMMA DayGoesElsewhere ==
    ASSUME Types, DayInv, NEW w \in Workers, NEW rec, Goes(w, rec),
           rec.at \in DayHeldAt => worker[w].at \in DayHeldAt /\ rec.day = worker[w].day,
           worker[w].at \notin TakenAt, UNCHANGED <<dayClaim, inbox>>
    PROVE  DayInv'
  BY OneGoes, DayKeeps

(* A day's row changes and nobody holds it afterwards: it must then be     *)
(* delivered if a mail of that day went out.                               *)
LEMMA DayLeft ==
    ASSUME Types, DayInv, NEW d \in Days, UNCHANGED inbox,
           \A e \in Days \ {d} : dayClaim'[e] = dayClaim[e],
           \A v \in Workers :
             \/ worker'[v] = worker[v] /\ ~HoldsDay(v, d)
             \/ worker[v].day = d /\ worker'[v].at \notin DayHeldAt,
           dayClaim'[d].delivered => dayClaim'[d].age # "none",
           \A i \in DOMAIN inbox : inbox[i].claimed = d => dayClaim'[d].delivered
    PROVE  DayInv'
  <1>1. \A v \in Workers, e \in Days : HoldsDay(v, e)' => e # d /\ HoldsDay(v, e)
    BY DEF HoldsDay, DayHeldAt
  <1>2. DayHeldAlone'
    BY <1>1 DEF DayInv, DayHeldAlone
  <1>3. ASSUME NEW i \in DOMAIN inbox', inbox'[i].claimed # d
        PROVE  \/ dayClaim'[inbox'[i].claimed].delivered
               \/ \E v \in Workers : worker'[v].day = inbox'[i].claimed /\ worker'[v].at \in TakenAt
    <2>1. i \in DOMAIN inbox /\ inbox'[i] = inbox[i] /\ inbox[i].claimed \in Days \ {d}
      BY <1>3, MailDays
    <2>2. CASE dayClaim[inbox[i].claimed].delivered
      BY <2>1, <2>2
    <2>3. ASSUME NEW v \in Workers, worker[v].day = inbox[i].claimed, worker[v].at \in TakenAt
          PROVE  worker'[v] = worker[v]
      BY <2>1, <2>3
    <2> QED BY <2>1, <2>2, <2>3 DEF DayInv, MailedDaysAreClosed
  <1>4. MailedDaysAreClosed'
    BY <1>3 DEF DayInv, MailedDaysAreClosed
  <1>5. OneMailAClaimedDay'
    BY DEF DayInv, OneMailAClaimedDay
  <1> QED BY <1>2, <1>4, <1>5 DEF DayInv

(* Whoever holds a day and has not heard from the provider knows that no   *)
(* mail of the day went out.                                               *)
LEMMA HeldDayIsOpen ==
    ASSUME Types, DayInv, NEW w \in Workers, NEW d \in Days, HoldsDay(w, d),
           worker[w].at \notin TakenAt
    PROVE  \A i \in DOMAIN inbox : inbox[i].claimed # d
  <1> SUFFICES ASSUME NEW i \in DOMAIN inbox, inbox[i].claimed = d PROVE FALSE
    OBVIOUS
  <1>1. ~dayClaim[d].delivered
    BY DEF DayInv, DayHeldAlone
  <1>2. PICK v \in Workers : worker[v].day = d /\ worker[v].at \in TakenAt
    BY <1>1 DEF DayInv, MailedDaysAreClosed
  <1>3. HoldsDay(v, d)
    BY <1>2 DEF HoldsDay, TakenAt
  <1> QED BY <1>2, <1>3 DEF DayInv, DayHeldAlone

LEMMA DayTaken ==
    ASSUME Types, DayInv, NEW w \in Workers, ClaimsDay(w)
    PROVE  DayInv'
  <1> DEFINE d == worker[w].day
             c == dayClaim[d]
  <1>0. worker[w].at = "claimDay" /\ d \in Days /\ inbox' = inbox
    BY ClaimedFits DEF ClaimsDay, Types, providerVars
  <1>1. CASE Step(w, "seeDay") /\ UNCHANGED dayClaim
    BY <1>0, <1>1, DayGoesOn DEF DayHeldAt, TakenAt
  <1>2. CASE Claimable(c) /\ dayClaim' = [dayClaim EXCEPT ![d] = Claimed(c)] /\ Step(w, "build")
    <2>1. c \in Row /\ \A e \in Days : dayClaim'[e] = IF e = d THEN Claimed(c) ELSE dayClaim[e]
      BY <1>0, <1>2 DEF Types
    <2>2. Claimed(c).age = "fresh" /\ Claimed(c).leased /\ ~Claimed(c).delivered
      BY <1>2, <2>1 DEF Claimable, Claimed, NewRow, NoRow, Row
    <2>3. ~c.delivered /\ \A v \in Workers : ~HoldsDay(v, d)
      BY <1>0, <1>2 DEF Claimable, DayInv, DayHeldAlone, MailedDaysAreClosed
    <2>4. /\ worker'[w].at = "build" /\ worker'[w].day = d
          /\ \A v \in Workers \ {w} : worker'[v] = worker[v]
      BY <1>2, StepGoes
    <2> HIDE DEF c, d
    <2>5. ASSUME NEW v \in Workers, NEW e \in Days, HoldsDay(v, e)'
          PROVE  (v = w /\ e = d) \/ (e # d /\ HoldsDay(v, e))
      <3>1. CASE v = w
        BY <2>4, <2>5, <3>1 DEF HoldsDay
      <3>2. CASE v # w
        <4>1. HoldsDay(v, e)
          BY <2>4, <2>5, <3>2 DEF HoldsDay
        <4> QED BY <2>3, <4>1
      <3> QED BY <3>1, <3>2
    <2>6. DayHeldAlone'
      BY <2>1, <2>2, <2>5 DEF DayInv, DayHeldAlone
    <2>7. ASSUME NEW i \in DOMAIN inbox
          PROVE  \/ dayClaim'[inbox[i].claimed].delivered
                 \/ \E v \in Workers : worker'[v].day = inbox[i].claimed /\ worker'[v].at \in TakenAt
      <3>1. inbox[i].claimed \in Days
        BY MailDays
      <3>2. CASE dayClaim[inbox[i].claimed].delivered
        BY <2>1, <2>3, <3>1, <3>2 DEF c
      <3>3. ASSUME NEW v \in Workers, worker[v].day = inbox[i].claimed, worker[v].at \in TakenAt
            PROVE  worker'[v] = worker[v]
        BY <1>0, <2>4, <3>3 DEF TakenAt
      <3> QED BY <3>2, <3>3 DEF DayInv, MailedDaysAreClosed
    <2>8. MailedDaysAreClosed'
      BY <1>0, <2>1, <2>2, <2>7 DEF DayInv, MailedDaysAreClosed
    <2>9. OneMailAClaimedDay'
      BY <1>0 DEF DayInv, OneMailAClaimedDay
    <2> QED BY <2>6, <2>8, <2>9 DEF DayInv
  <1> QED BY <1>1, <1>2 DEF ClaimsDay

LEMMA DaySent ==
    ASSUME Types, DayInv, NEW w \in Workers, worker[w].at = "send",
           Accepts(w), Step(w, "completeRev"), UNCHANGED dayClaim
    PROVE  DayInv'
  <1> DEFINE d == worker[w].day
             mail == [rev |-> worker[w].rev, claimed |-> d, day |-> day, to |-> worker[w].mail]
  <1>1. d \in Days /\ HoldsDay(w, d)
    BY ClaimedFits DEF Types, HoldsDay
  <1>2. /\ worker'[w].at = "completeRev" /\ worker'[w].day = d
        /\ \A v \in Workers \ {w} : worker'[v] = worker[v]
    BY StepGoes
  <1>3. CASE inbox' = inbox
    BY <1>2, <1>3, DayKeeps DEF DayHeldAt, TakenAt
  <1>4. CASE inbox' = Append(inbox, mail)
    <2>1. /\ Len(inbox) \in Nat /\ DOMAIN inbox = 1..Len(inbox)
          /\ DOMAIN inbox' = 1..(Len(inbox) + 1)
          /\ \A i \in 1..Len(inbox) : inbox'[i] = inbox[i]
          /\ inbox'[Len(inbox) + 1].claimed = d
      BY <1>4 DEF Types
    <2>2. \A i \in 1..Len(inbox) : inbox[i].claimed # d
      BY <1>1, <2>1, HeldDayIsOpen DEF TakenAt
    <2> HIDE DEF d, mail
    <2>3. \A v \in Workers, e \in Days : HoldsDay(v, e)' => HoldsDay(v, e)
      <3> SUFFICES ASSUME NEW v \in Workers, NEW e \in Days, HoldsDay(v, e)' PROVE HoldsDay(v, e)
        OBVIOUS
      <3>1. CASE v = w
        BY <1>1, <1>2, <3>1 DEF HoldsDay
      <3>2. CASE v # w
        BY <1>2, <3>2 DEF HoldsDay
      <3> QED BY <3>1, <3>2
    <2>4. DayHeldAlone'
      BY <2>3 DEF DayInv, DayHeldAlone
    <2>5. ASSUME NEW i \in 1..Len(inbox)
          PROVE  \/ dayClaim[inbox[i].claimed].delivered
                 \/ \E v \in Workers : worker'[v].day = inbox[i].claimed /\ worker'[v].at \in TakenAt
      <3>1. ASSUME NEW v \in Workers, worker[v].day = inbox[i].claimed, worker[v].at \in TakenAt
            PROVE  worker'[v] = worker[v]
        BY <1>2, <3>1 DEF TakenAt
      <3> QED BY <2>1, <3>1 DEF DayInv, MailedDaysAreClosed
    <2>6. worker'[w].day = inbox'[Len(inbox) + 1].claimed /\ worker'[w].at \in TakenAt
      BY <1>2, <2>1 DEF TakenAt
    <2>7. MailedDaysAreClosed'
      <3>1. \A e \in Days : dayClaim'[e].delivered => dayClaim'[e].age # "none"
        BY DEF DayInv, MailedDaysAreClosed
      <3>2. \A i \in DOMAIN inbox' : i \in 1..Len(inbox) \/ i = Len(inbox) + 1
        BY <2>1
      <3>3. \A i \in DOMAIN inbox' :
              \/ dayClaim'[inbox'[i].claimed].delivered
              \/ \E v \in Workers : worker'[v].day = inbox'[i].claimed /\ worker'[v].at \in TakenAt
        BY <2>1, <2>5, <2>6, <3>2
      <3> QED BY <3>1, <3>3 DEF MailedDaysAreClosed
    <2>8. OneMailAClaimedDay'
      BY <2>1, <2>2 DEF DayInv, OneMailAClaimedDay
    <2> QED BY <2>4, <2>7, <2>8 DEF DayInv
  <1> QED BY <1>3, <1>4 DEF Accepts

(* The two ways a day's row is left: given back unsent, or completed.      *)
LEMMA DayEnds ==
    ASSUME Types, DayInv, NEW w \in Workers, CompletesDay(w) \/ GivesDayBack(w),
           UNCHANGED faults
    PROVE  DayInv'
  <1> DEFINE d == worker[w].day
             c == dayClaim[d]
  <1>0. /\ worker[w].at \in DayHeldAt /\ d \in Days /\ inbox' = inbox /\ HoldsDay(w, d)
        /\ faults \in Nat /\ c \in Row
    BY ClaimedFits DEF CompletesDay, GivesDayBack, Types, DayHeldAt, HoldsDay, providerVars
  <1>1. ~Fault
    BY <1>0 DEF Fault
  <1>2. c.age = "fresh" /\ c.leased /\ ~c.delivered
    BY <1>0 DEF DayInv, DayHeldAlone
  <1>3. /\ worker'[w].at \in {"idle", "finish", "refinish"}
        /\ \A v \in Workers \ {w} : worker'[v] = worker[v]
    BY ReturnGoes DEF CompletesDay, GivesDayBack
  <1>4. \A v \in Workers :
           \/ worker'[v] = worker[v] /\ ~HoldsDay(v, d)
           \/ worker[v].day = d /\ worker'[v].at \notin DayHeldAt
    BY <1>0, <1>3 DEF DayInv, DayHeldAlone, DayHeldAt
  <1>5. CASE CompletesDay(w)
    <2>1. \A e \in Days : dayClaim'[e] = IF e = d THEN Completed(c) ELSE dayClaim[e]
      BY <1>0, <1>1, <1>5 DEF CompletesDay, Types
    <2>2. Completed(c).delivered /\ Completed(c).age = "fresh"
      BY <1>0, <1>2 DEF Completed, Row
    <2> QED BY <1>0, <1>4, <2>1, <2>2, DayLeft
  <1>6. CASE GivesDayBack(w)
    <2>1. \A e \in Days : dayClaim'[e] = IF e = d THEN Released(c) ELSE dayClaim[e]
      BY <1>0, <1>1, <1>6 DEF GivesDayBack, Types
    <2>2. ~Released(c).delivered
      BY <1>2 DEF Released, NoRow
    <2>3. \A i \in DOMAIN inbox : inbox[i].claimed # d
      BY <1>0, <1>6, HeldDayIsOpen DEF GivesDayBack, TakenAt
    <2> QED BY <1>0, <1>4, <2>1, <2>2, <2>3, DayLeft
  <1> QED BY <1>5, <1>6

LEMMA DayTime ==
    ASSUME Types, DayInv, Passes, SlowSends = FALSE
    PROVE  DayInv'
  <1>1. ASSUME NEW d \in Days, DayLeaseEnds(d) \/ DayRowAges(d) PROVE DayInv'
    <2> DEFINE c == dayClaim[d]
    <2>1. /\ UNCHANGED <<worker, inbox>> /\ \A v \in Workers : ~HoldsDay(v, d)
          /\ c \in Row
      BY <1>1 DEF DayLeaseEnds, DayRowAges, MayOutlive, providerVars, Types
    <2>2. /\ \A e \in Days \ {d} : dayClaim'[e] = dayClaim[e]
          /\ dayClaim'[d].delivered = c.delivered
          /\ dayClaim'[d].age = c.age \/ dayClaim'[d].age = "late"
      BY <1>1, <2>1 DEF DayLeaseEnds, DayRowAges, Types, Row, Older
    <2>3. dayClaim'[d].delivered => dayClaim'[d].age # "none"
      BY <2>2 DEF DayInv, MailedDaysAreClosed
    <2>4. ASSUME NEW i \in DOMAIN inbox, inbox[i].claimed = d PROVE dayClaim'[d].delivered
      <3>1. \A v \in Workers : ~(worker[v].day = d /\ worker[v].at \in TakenAt)
        BY <2>1 DEF HoldsDay, TakenAt
      <3> QED BY <2>2, <2>4, <3>1 DEF DayInv, MailedDaysAreClosed
    <2>5. \A v \in Workers : worker'[v] = worker[v] /\ ~HoldsDay(v, d)
      BY <2>1
    <2> HIDE DEF c
    <2> QED BY <2>1, <2>2, <2>3, <2>4, <2>5, DayLeft
  <1>2. CASE UNCHANGED <<dayClaim, inbox, worker>>
    BY <1>2, DayKeeps
  <1> QED BY <1>1, <1>2
          DEF Passes, RevLeaseEnds, RevRowAges, ProviderForgets, Settles, JobFallsDue, NextDay,
              providerVars

(* Every step of a send and its callers that does not fail.                *)
LEMMA DayWorks ==
    ASSUME Types, DayInv, NEW w \in Workers, SendStep(w), UNCHANGED faults
    PROVE  DayInv'
  <1>0. faults \in Nat /\ ~Fault /\ worker[w] \in Worker
    BY ClaimedFits DEF Types, Fault
  <1> USE DEF providerVars
  <1>1. CASE Looks(w)
    <2> DEFINE rec == [worker[w] EXCEPT !.at = "claimRev", !.now = FALSE,
                                        !.rev = Newest, !.day = day, !.to = acct.to]
    <2>1. rec.at \notin DayHeldAt
      BY <1>0 DEF Worker, DayHeldAt
    <2>2. (Goes(w, rec) \/ Returns(w, Refusal(w))) /\ worker[w].at \notin TakenAt
          /\ UNCHANGED <<dayClaim, inbox>>
      BY <1>0, <1>1 DEF Looks, TakenAt
    <2> HIDE DEF rec
    <2> QED BY <2>1, <2>2, DayReturns, DayGoesElsewhere
  <1>2. CASE ClaimsRev(w)
    <2>1. (Step(w, "claimDay") \/ Step(w, "seeRev")) /\ worker[w].at \notin TakenAt
          /\ UNCHANGED <<dayClaim, inbox>>
      BY <1>2 DEF ClaimsRev, TakenAt
    <2> QED BY <2>1, DayGoesOn DEF DayHeldAt
  <1>3. CASE SeesRev(w)
    BY <1>3, DayReturns DEF SeesRev, TakenAt
  <1>4. CASE SeesDay(w)
    <2> DEFINE rec == [worker[w] EXCEPT !.at = "yield",
                            !.why = Standing(dayClaim[worker[w].day], "already_today")]
    <2>1. rec.at \notin DayHeldAt
      BY <1>0 DEF Worker, DayHeldAt
    <2>2. Goes(w, rec) /\ worker[w].at \notin TakenAt /\ UNCHANGED <<dayClaim, inbox>>
      BY <1>4 DEF SeesDay, TakenAt
    <2> HIDE DEF rec
    <2> QED BY <2>1, <2>2, DayGoesElsewhere
  <1>5. CASE Yields(w)
    BY <1>5, DayReturns DEF Yields, ReleasesRev, TakenAt
  <1>6. CASE GivesRevBack(w)
    BY <1>6, DayGoesOn DEF GivesRevBack, ReleasesRev, TakenAt, DayHeldAt
  <1>7. CASE Builds(w)
    <2>1. CASE Step(w, "prepare")
      BY <1>7, <2>1, DayGoesOn DEF Builds, TakenAt, DayHeldAt
    <2> QED BY <1>0, <1>7, <2>1, DayGoesBack DEF Builds, TakenAt, DayHeldAt
  <1>8. CASE Prepares(w)
    <2> DEFINE c == revClaim[worker[w].rev]
               mail == IF c.payload = "none" THEN worker[w].to ELSE c.payload
               rec == IF mail # worker[w].to
                      THEN [worker[w] EXCEPT !.at = "releaseRev", !.why = "delivery_unknown"]
                      ELSE [worker[w] EXCEPT !.at = "target", !.mail = mail]
    <2>1. rec.day = worker[w].day
      BY <1>0 DEF Worker
    <2>2. /\ GivesBack(w, "failed") \/ Goes(w, rec)
          /\ worker[w].at = "prepare" /\ UNCHANGED <<dayClaim, inbox>>
      BY <1>8 DEF Prepares
    <2> HIDE DEF rec
    <2> QED BY <2>1, <2>2, DayGoesBack, DayGoesElsewhere DEF DayHeldAt, TakenAt
  <1>9. CASE ChecksTarget(w)
    <2>1. CASE Step(w, "send")
      BY <1>9, <2>1, DayGoesOn DEF ChecksTarget, TakenAt, DayHeldAt
    <2> QED BY <1>9, <2>1, DayGoesBack DEF ChecksTarget, TakenAt, DayHeldAt
  <1>10. CASE Sends(w)
    BY <1>0, <1>10, DaySent DEF Sends
  <1>11. CASE CompletesRev(w)
    BY <1>0, <1>11, DayGoesOn DEF CompletesRev, TakenAt, DayHeldAt
  <1>12. CASE FinishesJob(w)
    BY <1>12, DayReturns DEF FinishesJob, TakenAt
  <1> QED BY <1>1, <1>2, <1>3, <1>4, <1>5, <1>6, <1>7, <1>8, <1>9, <1>10, <1>11, <1>12,
             DayTaken, DayEnds DEF SendStep

LEMMA DaySteps ==
    ASSUME Types, DayInv, [Next]_vars, UNCHANGED faults, SlowSends = FALSE
    PROVE  DayInv'
  <1>0. faults \in Nat /\ ~Fault
    BY DEF Types, Fault
  <1> USE DEF providerVars
  <1>1. CASE UNCHANGED <<dayClaim, inbox, worker>>
    BY <1>1, DayKeeps
  <1>2. CASE (\E status \in {"draft", "finished"} : SaveRevision(status)) \/ EditAccount \/ UNCHANGED vars
    BY <1>1, <1>2 DEF SaveRevision, EditAccount, vars
  <1>3. ASSUME NEW w \in Workers, NEW now \in BOOLEAN, PageAsks(w, now) PROVE DayInv'
    <2> DEFINE rec == [Idle EXCEPT !.at = "look", !.now = now]
    <2>1. rec.at \notin DayHeldAt
      BY DEF Idle, DayHeldAt
    <2>2. Goes(w, rec) /\ worker[w].at \notin TakenAt /\ UNCHANGED <<dayClaim, inbox>>
      BY <1>3 DEF PageAsks, Idle, TakenAt
    <2> HIDE DEF rec
    <2> QED BY <2>1, <2>2, DayGoesElsewhere
  <1>4. ASSUME NEW w \in Workers, CronClaims(w) PROVE DayInv'
    <2> DEFINE rec == [Idle EXCEPT !.at = "look", !.job = job.rev]
    <2>1. rec.at \notin DayHeldAt
      BY DEF Idle, DayHeldAt
    <2>2. Goes(w, rec) /\ worker[w].at \notin TakenAt /\ UNCHANGED <<dayClaim, inbox>>
      BY <1>4 DEF CronClaims, Idle, TakenAt
    <2> HIDE DEF rec
    <2> QED BY <2>1, <2>2, DayGoesElsewhere
  <1>5. ASSUME NEW w \in Workers, QueryFails(w) \/ FinishFails(w) \/ Crashes(w) PROVE FALSE
    BY <1>0, <1>5 DEF QueryFails, FinishFails, Crashes
  <1> QED BY <1>2, <1>3, <1>4, <1>5, DayWorks, DayTime DEF Next

(* A send runs across one midnight at most, so a mail goes out on the day  *)
(* it was claimed for or the day after.                                    *)
NearItsDay ==
    /\ \A w \in Workers : worker[w].day \in {0, day - 1, day}
    /\ \A i \in DOMAIN inbox : inbox[i].day \in {inbox[i].claimed, inbox[i].claimed + 1}

LEMMA NearKept ==
    ASSUME Types, NearItsDay, UNCHANGED <<day, inbox>>, NEW w \in Workers, NEW rec, Goes(w, rec),
           rec.day \in {0, worker[w].day, day}
    PROVE  NearItsDay'
  BY OneGoes DEF NearItsDay

LEMMA NearEnds ==
    ASSUME Types, NearItsDay, UNCHANGED <<day, inbox>>, NEW w \in Workers, NEW why, NEW stage,
           \/ Returns(w, why) \/ Throws(w) \/ Goes(w, Idle)
           \/ GivesBack(w, why) \/ Step(w, stage)
    PROVE  NearItsDay'
  <1>1. CASE Goes(w, Idle)
    BY <1>1, NearKept DEF Idle
  <1>2. CASE ~Goes(w, Idle)
    <2>1. /\ worker'[w].day \in {0, worker[w].day}
          /\ \A v \in Workers \ {w} : worker'[v] = worker[v]
      BY <1>2, ReturnGoes, GiveBackGoes, StepGoes
    <2> QED BY <2>1 DEF NearItsDay
  <1> QED BY <1>1, <1>2

LEMMA NearSends ==
    ASSUME Types, NearItsDay, NEW w \in Workers, Sends(w)
    PROVE  NearItsDay'
  <1>0. /\ worker[w].at = "send" /\ worker[w].day \in Days /\ day \in Days /\ UNCHANGED day
        /\ \A v \in Workers : worker'[v].day \in {0, worker[v].day}
        /\ inbox \in Seq(Mail)
    <2>1. /\ worker[w].at = "send" /\ worker[w].day \in Days /\ day \in Days /\ UNCHANGED day
          /\ inbox \in Seq(Mail)
      BY ClaimedFits DEF Sends, Types
    <2>2. Returns(w, "failed") \/ Step(w, "completeRev")
      BY DEF Sends
    <2> QED BY <2>1, <2>2, ReturnGoes, StepGoes
  <1>1. \A v \in Workers : worker'[v].day \in {0, day - 1, day}
    BY <1>0 DEF NearItsDay
  <1>2. \A i \in DOMAIN inbox' :
           inbox'[i].day \in {inbox'[i].claimed, inbox'[i].claimed + 1}
    <2>1. CASE UNCHANGED inbox
      BY <2>1 DEF NearItsDay
    <2>2. CASE inbox' = Append(inbox, [rev |-> worker[w].rev, claimed |-> worker[w].day,
                                       day |-> day, to |-> worker[w].mail])
      <3>1. /\ Len(inbox) \in Nat /\ DOMAIN inbox = 1..Len(inbox)
            /\ DOMAIN inbox' = 1..(Len(inbox) + 1)
            /\ \A i \in 1..Len(inbox) : inbox'[i] = inbox[i]
            /\ inbox'[Len(inbox) + 1].claimed = worker[w].day
            /\ inbox'[Len(inbox) + 1].day = day
        BY <1>0, <2>2
      <3>2. day \in {worker[w].day, worker[w].day + 1}
        BY <1>0 DEF NearItsDay, Days
      <3>3. \A i \in DOMAIN inbox' : i \in 1..Len(inbox) \/ i = Len(inbox) + 1
        BY <3>1
      <3> QED BY <3>1, <3>2, <3>3 DEF NearItsDay
    <2> QED BY <2>1, <2>2 DEF Sends, Accepts, providerVars
  <1> QED BY <1>0, <1>1, <1>2 DEF NearItsDay

LEMMA NearStep ==
    ASSUME Types, NearItsDay, [Next]_vars
    PROVE  NearItsDay'
  <1> USE DEF outsideVars, providerVars
  <1>t. \A w \in Workers : worker[w] \in Worker
    BY ClaimedFits DEF Types
  <1>1. CASE UNCHANGED <<worker, day, inbox>>
    BY <1>1 DEF NearItsDay
  <1>2. CASE NextDay
    <2>1. /\ day \in Nat /\ day' = day + 1 /\ UNCHANGED <<worker, inbox>>
          /\ \A w \in Workers : worker[w].day \in {0, day}
      BY <1>2 DEF NextDay, Types, Days
    <2> QED BY <2>1 DEF NearItsDay
  <1>3. ASSUME NEW w \in Workers, Looks(w) PROVE NearItsDay'
    <2> DEFINE rec == [worker[w] EXCEPT !.at = "claimRev", !.now = FALSE,
                                        !.rev = Newest, !.day = day, !.to = acct.to]
    <2>1. rec.day = day
      BY <1>t DEF Worker
    <2>2. UNCHANGED day /\ UNCHANGED inbox
      BY <1>3 DEF Looks
    <2>3. Goes(w, rec) \/ Returns(w, Refusal(w)) \/ Returns(w, "not_configured")
      BY <1>3 DEF Looks
    <2> HIDE DEF rec
    <2>4. CASE Goes(w, rec)
      BY <2>1, <2>2, <2>4, NearKept
    <2>5. ASSUME NEW why, Returns(w, why) PROVE NearItsDay'
      BY <2>2, <2>5, NearEnds
    <2> QED BY <2>3, <2>4, <2>5
  <1>4. ASSUME NEW w \in Workers,
               ClaimsRev(w) \/ SeesRev(w) \/ ClaimsDay(w) \/ Builds(w) \/ ChecksTarget(w)
        PROVE  NearItsDay'
    <2>1. UNCHANGED <<day, inbox>>
      BY <1>4 DEF ClaimsRev, SeesRev, ClaimsDay, Builds, ChecksTarget
    <2> QED BY <1>4, <2>1, NearEnds DEF ClaimsRev, SeesRev, ClaimsDay, Builds, ChecksTarget
  <1>5. ASSUME NEW w \in Workers, SeesDay(w) PROVE NearItsDay'
    <2> DEFINE rec == [worker[w] EXCEPT !.at = "yield",
                            !.why = Standing(dayClaim[worker[w].day], "already_today")]
    <2>1. rec.day = worker[w].day /\ Goes(w, rec) /\ UNCHANGED <<day, inbox>>
      BY <1>5, <1>t DEF SeesDay, Worker
    <2> HIDE DEF rec
    <2> QED BY <2>1, NearKept
  <1>6. ASSUME NEW w \in Workers, Prepares(w) PROVE NearItsDay'
    <2> DEFINE c == revClaim[worker[w].rev]
               mail == IF c.payload = "none" THEN worker[w].to ELSE c.payload
               rec == IF mail # worker[w].to
                      THEN [worker[w] EXCEPT !.at = "releaseRev", !.why = "delivery_unknown"]
                      ELSE [worker[w] EXCEPT !.at = "target", !.mail = mail]
    <2>1. rec.day = worker[w].day /\ UNCHANGED <<day, inbox>>
      BY <1>6, <1>t DEF Prepares, Worker
    <2>2. GivesBack(w, "failed") \/ Goes(w, rec)
      BY <1>6 DEF Prepares
    <2> HIDE DEF rec
    <2> QED BY <2>1, <2>2, NearKept, NearEnds
  <1>7. ASSUME NEW w \in Workers,
               Yields(w) \/ GivesRevBack(w) \/ GivesDayBack(w) \/ CompletesRev(w)
                  \/ CompletesDay(w) \/ FinishesJob(w) \/ QueryFails(w) \/ Crashes(w)
        PROVE  NearItsDay'
    <2>1. UNCHANGED <<day, inbox>>
      BY <1>7 DEF Yields, GivesRevBack, GivesDayBack, ReleasesRev, CompletesRev, CompletesDay,
                  FinishesJob, QueryFails, Crashes
    <2> QED BY <1>7, <2>1, NearEnds
            DEF Yields, GivesRevBack, GivesDayBack, ReleasesRev, CompletesRev, CompletesDay,
                FinishesJob, QueryFails, Crashes
  <1>8. ASSUME NEW w \in Workers, NEW now \in BOOLEAN, PageAsks(w, now) PROVE NearItsDay'
    <2> DEFINE rec == [Idle EXCEPT !.at = "look", !.now = now]
    <2>1. rec.day = 0 /\ Goes(w, rec) /\ UNCHANGED <<day, inbox>>
      BY <1>8 DEF PageAsks, Idle
    <2> HIDE DEF rec
    <2> QED BY <2>1, NearKept
  <1>9. ASSUME NEW w \in Workers, CronClaims(w) PROVE NearItsDay'
    <2> DEFINE rec == [Idle EXCEPT !.at = "look", !.job = job.rev]
    <2>1. rec.day = 0 /\ Goes(w, rec) /\ UNCHANGED <<day, inbox>>
      BY <1>9 DEF CronClaims, Idle
    <2> HIDE DEF rec
    <2> QED BY <2>1, NearKept
  <1>10. ASSUME NEW w \in Workers, FinishFails(w) PROVE NearItsDay'
    <2> DEFINE rec == [worker[w] EXCEPT !.at = "refinish", !.why = "failed"]
    <2>1. rec.day = worker[w].day /\ UNCHANGED <<day, inbox>>
      BY <1>10, <1>t DEF FinishFails, Worker
    <2>2. Goes(w, rec) \/ Goes(w, Idle)
      BY <1>10 DEF FinishFails
    <2> HIDE DEF rec
    <2> QED BY <2>1, <2>2, NearKept, NearEnds
  <1>11. CASE (\E status \in {"draft", "finished"} : SaveRevision(status)) \/ EditAccount
              \/ (Passes /\ ~NextDay) \/ UNCHANGED vars
    BY <1>1, <1>11 DEF SaveRevision, EditAccount, Passes, RevLeaseEnds, RevRowAges,
                       ProviderForgets, DayLeaseEnds, DayRowAges, Settles, JobFallsDue, vars
  <1> QED BY <1>2, <1>3, <1>4, <1>5, <1>6, <1>7, <1>8, <1>9, <1>10, <1>11, NearSends
          DEF Next, SendStep, Passes

(* Two mails of one day were claimed for different days, and each was      *)
(* claimed for that day or the one before.                                 *)
LEMMA ClaimedApart ==
    ASSUME Types, NearItsDay, OneMailAClaimedDay
    PROVE  TwoOnlyOverMidnight
  <1> SUFFICES ASSUME NEW i \in DOMAIN inbox, NEW j \in DOMAIN inbox, i # j,
                      inbox[i].day = inbox[j].day
               PROVE  {inbox[i].claimed, inbox[j].claimed} = {inbox[i].day - 1, inbox[i].day}
    BY DEF TwoOnlyOverMidnight
  <1>1. /\ inbox[i].claimed \in Nat /\ inbox[j].claimed \in Nat
        /\ inbox[i].day \in Nat /\ inbox[j].day \in Nat
    BY MailDays DEF Days, Mail
  <1>2. inbox[i].claimed # inbox[j].claimed
    BY DEF OneMailAClaimedDay
  <1>3. /\ inbox[i].day \in {inbox[i].claimed, inbox[i].claimed + 1}
        /\ inbox[j].day \in {inbox[j].claimed, inbox[j].claimed + 1}
    BY DEF NearItsDay
  <1> QED BY <1>1, <1>2, <1>3

(* "At most one automatic email per resume per day (UTC)"                  *)
(* (email-package-auto.ts:23), as far as it goes while nothing has failed  *)
(* and no send outlives its lease, however the page, the cron and new      *)
(* revisions meet: each day is claimed for one mail, and two mails go out  *)
(* on one day only when one of them was claimed the day before and was     *)
(* taken after midnight.                                                   *)
THEOREM OneMailWhileNothingFails ==
    ASSUME SlowSends = FALSE
    PROVE  Spec => []OneMailAFaultlessDay
  <1>1. Init => (faults = 0 => DayInv)
    BY DEF Init, DayInv, DayHeldAlone, MailedDaysAreClosed, OneMailAClaimedDay, HoldsDay, Idle, NoRow
  <1>2. Types /\ (faults = 0 => DayInv) /\ [Next]_vars => (faults = 0 => DayInv)'
    <2> SUFFICES ASSUME Types, faults = 0 => DayInv, [Next]_vars, faults' = 0 PROVE DayInv'
      OBVIOUS
    <2>1. faults \in Nat /\ (faults' = faults \/ faults' = faults + 1)
      <3>1. faults \in Nat
        BY DEF Types
      <3>2. UNCHANGED faults \/ Fault
        BY DEF Next, SaveRevision, EditAccount, PageAsks, CronClaims, SendStep, Looks,
               ClaimsRev, SeesRev, ClaimsDay, SeesDay, Yields, Builds, Prepares, ChecksTarget,
               Sends, CompletesRev, CompletesDay, GivesRevBack, GivesDayBack, ReleasesRev,
               FinishesJob, QueryFails, FinishFails, Crashes, Passes, RevLeaseEnds, RevRowAges,
               ProviderForgets, DayLeaseEnds, DayRowAges, Settles, JobFallsDue, NextDay,
               outsideVars, vars
      <3> QED BY <3>1, <3>2 DEF Fault
    <2>2. UNCHANGED faults
      BY <2>1
    <2> QED BY <2>2, DaySteps
  <1>3. Types /\ NearItsDay /\ (faults = 0 => DayInv) => OneMailAFaultlessDay
    BY ClaimedApart DEF DayInv, OneMailAFaultlessDay
  <1>4. Init => NearItsDay
    BY DEF Init, NearItsDay, Idle
  <1>5. Types /\ NearItsDay /\ [Next]_vars => NearItsDay'
    BY NearStep
  <1> QED BY <1>1, <1>2, <1>3, <1>4, <1>5, TypesAlways, PTL DEF Spec

-----------------------------------------------------------------------------
(***************************************************************************)
(* The mailbox a person is promised.                                       *)
(***************************************************************************)
Finished(r) == r \in DOMAIN revs /\ revs[r] = "finished"

(* A send that has chosen a revision chose a finished one, and a finished  *)
(* revision stays so, whatever is saved after it.                          *)
ChosenAt == {"claimRev", "seeRev"} \cup HeldAt
ChosenAreFinished ==
    \A w \in Workers : worker[w].at \in ChosenAt => Finished(worker[w].rev)

(* What a step may do to the record of its worker.                         *)
KeepsChoice(w, rec) ==
    rec.at \in ChosenAt =>
        (worker[w].at \in ChosenAt /\ rec.rev = worker[w].rev) \/ Finished(rec.rev)

LEMMA ChoiceKept ==
    ASSUME Types, ChosenAreFinished, NEW w \in Workers, KeepsChoice(w, worker'[w]),
           UNCHANGED revs, \A v \in Workers \ {w} : worker'[v] = worker[v]
    PROVE  ChosenAreFinished'
  <1>1. \A r : Finished(r)' <=> Finished(r)
    BY DEF Finished
  <1> QED BY <1>1 DEF ChosenAreFinished, KeepsChoice

LEMMA ChoiceGoes ==
    ASSUME Types, ChosenAreFinished, NEW w \in Workers, NEW rec, Goes(w, rec),
           KeepsChoice(w, rec), UNCHANGED revs
    PROVE  ChosenAreFinished'
  <1>1. worker'[w] = rec /\ \A v \in Workers \ {w} : worker'[v] = worker[v]
    BY OneGoes
  <1> QED BY <1>1, ChoiceKept

LEMMA ChoiceReturns ==
    ASSUME Types, ChosenAreFinished, NEW w \in Workers, NEW why,
           Returns(w, why) \/ Throws(w) \/ Goes(w, Idle), UNCHANGED revs
    PROVE  ChosenAreFinished'
  <1>1. CASE Goes(w, Idle)
    BY <1>1, ChoiceGoes DEF KeepsChoice, Idle, ChosenAt, HeldAt
  <1>2. CASE Returns(w, why) \/ Throws(w)
    BY <1>2, ReturnGoes, ChoiceKept DEF KeepsChoice, ChosenAt, HeldAt
  <1> QED BY <1>1, <1>2

LEMMA ChoiceStays ==
    ASSUME Types, ChosenAreFinished, NEW w \in Workers, worker[w].at \in ChosenAt,
           NEW why, NEW stage, Step(w, stage) \/ GivesBack(w, why), UNCHANGED revs
    PROVE  ChosenAreFinished'
  BY StepGoes, GiveBackGoes, ChoiceKept DEF KeepsChoice

LEMMA ChosenStep ==
    ASSUME Types, ChosenAreFinished, [Next]_vars
    PROVE  ChosenAreFinished'
  <1> USE DEF queueVars
  <1>t. \A w \in Workers : worker[w] \in Worker
    BY ClaimedFits DEF Types
  <1>1. ASSUME NEW status \in {"draft", "finished"}, SaveRevision(status)
        PROVE  ChosenAreFinished'
    <2>1. /\ revs' = Append(revs, status) /\ UNCHANGED worker
          /\ revs \in Seq({"draft", "finished"})
      BY <1>1 DEF SaveRevision, Types
    <2>2. \A r : Finished(r) => Finished(r)'
      BY <2>1 DEF Finished
    <2> QED BY <2>1, <2>2 DEF ChosenAreFinished
  <1>2. ASSUME NEW w \in Workers, Looks(w) PROVE ChosenAreFinished'
    <2> DEFINE rec == [worker[w] EXCEPT !.at = "claimRev", !.now = FALSE,
                                        !.rev = Newest, !.day = day, !.to = acct.to]
    <2>1. UNCHANGED revs
      BY <1>2 DEF Looks
    <2>2. CASE Refusal(w) = "none" /\ Goes(w, rec)
      <3>1. rec.rev = Newest
        BY <1>t DEF Worker
      <3>2. Newest > 0 /\ revs \in Seq({"draft", "finished"})
        BY <1>2, ClaimedFits DEF Types, Fits, Looks
      <3>3. revs[Newest] = "finished"
        BY <2>2 DEF Refusal
      <3>4. Finished(Newest)
        BY <3>2, <3>3 DEF Finished, Newest
      <3> HIDE DEF rec
      <3> QED BY <2>1, <2>2, <3>1, <3>4, ChoiceGoes DEF KeepsChoice
    <2> QED BY <1>2, <2>1, <2>2, ChoiceReturns DEF Looks
  <1>3. ASSUME NEW w \in Workers,
               ClaimsRev(w) \/ SeesRev(w) \/ ClaimsDay(w) \/ Builds(w) \/ ChecksTarget(w)
        PROVE  ChosenAreFinished'
    <2>1. UNCHANGED revs /\ worker[w].at \in ChosenAt
      BY <1>3 DEF ClaimsRev, SeesRev, ClaimsDay, Builds, ChecksTarget, ChosenAt, HeldAt
    <2> QED BY <1>3, <2>1, ChoiceStays, ChoiceReturns
            DEF ClaimsRev, SeesRev, ClaimsDay, Builds, ChecksTarget
  <1>4. ASSUME NEW w \in Workers, SeesDay(w) PROVE ChosenAreFinished'
    <2> DEFINE rec == [worker[w] EXCEPT !.at = "yield",
                            !.why = Standing(dayClaim[worker[w].day], "already_today")]
    <2>1. rec.rev = worker[w].rev /\ worker[w].at \in ChosenAt /\ Goes(w, rec) /\ UNCHANGED revs
      BY <1>4, <1>t DEF SeesDay, Worker, ChosenAt, HeldAt
    <2> HIDE DEF rec
    <2> QED BY <2>1, ChoiceGoes DEF KeepsChoice
  <1>5. ASSUME NEW w \in Workers, Prepares(w) PROVE ChosenAreFinished'
    <2> DEFINE c == revClaim[worker[w].rev]
               mail == IF c.payload = "none" THEN worker[w].to ELSE c.payload
               rec == IF mail # worker[w].to
                      THEN [worker[w] EXCEPT !.at = "releaseRev", !.why = "delivery_unknown"]
                      ELSE [worker[w] EXCEPT !.at = "target", !.mail = mail]
    <2>1. rec.rev = worker[w].rev /\ worker[w].at \in ChosenAt /\ UNCHANGED revs
      BY <1>5, <1>t DEF Prepares, Worker, ChosenAt, HeldAt
    <2>2. GivesBack(w, "failed") \/ Goes(w, rec)
      BY <1>5 DEF Prepares
    <2> HIDE DEF rec
    <2> QED BY <2>1, <2>2, ChoiceGoes, ChoiceStays DEF KeepsChoice
  <1>6. ASSUME NEW w \in Workers,
               Yields(w) \/ GivesRevBack(w) \/ GivesDayBack(w) \/ Sends(w)
                  \/ CompletesRev(w) \/ CompletesDay(w)
        PROVE  ChosenAreFinished'
    <2>1. UNCHANGED revs /\ worker[w].at \in ChosenAt
      BY <1>6 DEF Yields, GivesRevBack, GivesDayBack, ReleasesRev, Sends, CompletesRev,
                  CompletesDay, ChosenAt, HeldAt
    <2> QED BY <1>6, <2>1, ChoiceStays, ChoiceReturns
            DEF Yields, GivesRevBack, GivesDayBack, ReleasesRev, Sends, CompletesRev, CompletesDay
  <1>7. ASSUME NEW w \in Workers, QueryFails(w) PROVE ChosenAreFinished'
    <2>1. UNCHANGED revs
      BY <1>7 DEF QueryFails
    <2> QED BY <1>7, <2>1, ChoiceStays, ChoiceReturns DEF QueryFails, ChosenAt, HeldAt
  <1>8. ASSUME NEW w \in Workers,
               \/ \E now \in BOOLEAN : PageAsks(w, now)
               \/ CronClaims(w) \/ FinishesJob(w) \/ FinishFails(w) \/ Crashes(w)
        PROVE  ChosenAreFinished'
    <2>1. \A now \in BOOLEAN : KeepsChoice(w, [Idle EXCEPT !.at = "look", !.now = now])
      BY DEF Idle, KeepsChoice, ChosenAt, HeldAt
    <2>2. KeepsChoice(w, [Idle EXCEPT !.at = "look", !.job = job.rev]) /\ KeepsChoice(w, Idle)
      BY DEF Idle, KeepsChoice, ChosenAt, HeldAt
    <2>3. KeepsChoice(w, [worker[w] EXCEPT !.at = "refinish", !.why = "failed"])
      BY <1>t DEF Worker, KeepsChoice, ChosenAt, HeldAt
    <2>4. UNCHANGED revs
      BY <1>8 DEF PageAsks, CronClaims, FinishesJob, FinishFails, Crashes
    <2> QED BY <1>8, <2>1, <2>2, <2>3, <2>4, ChoiceGoes
            DEF PageAsks, CronClaims, FinishesJob, FinishFails, Crashes
  <1>9. CASE EditAccount \/ Passes \/ UNCHANGED vars
    <2>1. UNCHANGED <<revs, worker>>
      BY <1>9 DEF EditAccount, Passes, RevLeaseEnds, RevRowAges, ProviderForgets, DayLeaseEnds,
                  DayRowAges, Settles, JobFallsDue, NextDay, vars
    <2> QED BY <2>1 DEF ChosenAreFinished, Finished
  <1> QED BY <1>1, <1>2, <1>3, <1>4, <1>5, <1>6, <1>7, <1>8, <1>9 DEF Next, SendStep

(* Only completing a row makes it say delivered, and nothing unsays it: a  *)
(* row of a mail that went out is never given back or made new.            *)
LEMMA ToldIsKept ==
    ASSUME Types, SendInv, NEW q \in Revs, NEW c, c.delivered = revClaim[q].delivered,
           revClaim' = [revClaim EXCEPT ![q] = c]
    PROVE  Told' = Told
  BY DEF Types, Told

LEMMA DeliveredRowsStand ==
    ASSUME Types, SendInv, NEW r \in Revs
    PROVE  /\ revClaim[r].delivered => Mailed(r) /\ revClaim[r].age # "none"
           /\ Claimed(revClaim[r]).delivered = revClaim[r].delivered
           /\ Released(revClaim[r]).delivered = revClaim[r].delivered
           /\ Purged(revClaim[r]).delivered = revClaim[r].delivered
  <1>1. revClaim[r] \in Row
    BY DEF Types
  <1>2. revClaim[r].delivered => Mailed(r) /\ revClaim[r].age # "none"
    BY DEF SendInv, DeliveredMeansMailed, AttemptsAreKept
  <1>3. Claimed(revClaim[r]).delivered = revClaim[r].delivered
    BY <1>1, <1>2 DEF Claimed, NewRow, NoRow, Row
  <1>4. Released(revClaim[r]).delivered = revClaim[r].delivered
    BY <1>1 DEF Released, NoRow, Row
  <1>5. Purged(revClaim[r]).delivered = revClaim[r].delivered
    BY <1>1 DEF Purged, Row
  <1> QED BY <1>2, <1>3, <1>4, <1>5

(* Every step saves, mails or confirms a revision as the mailbox allows,   *)
(* or is nothing the person can tell.                                      *)
LEMMA MailboxStep ==
    ASSUME Types, SendInv, ChosenAreFinished, [Next]_vars
    PROVE  [Box!Next]_(Box!boxVars)
  <1> USE DEF queueVars, providerVars
  <1>t. \A w \in Workers : worker[w] \in Worker
    BY ClaimedFits DEF Types
  <1>r. \A w \in Workers : worker[w].at \in ChosenAt => worker[w].rev \in Revs
    BY ClaimedFits DEF Types, ChosenAt, HeldAt
  <1>m. \A r : Box!Mailed(r) <=> Mailed(r)
    BY DEF Box!Mailed, Mailed
  <1>1. ASSUME NEW status \in {"draft", "finished"}, SaveRevision(status)
        PROVE  Box!Save(status)
    BY <1>1 DEF SaveRevision, Box!Save, Told
  <1>2. ASSUME NEW w \in Workers, Sends(w) PROVE [Box!Next]_(Box!boxVars)
    <2> DEFINE r == worker[w].rev
    <2>1. /\ worker[w].at = "send" /\ r \in Revs /\ worker[w].day \in Days /\ day \in Days
          /\ worker[w].mail \in Addrs /\ UNCHANGED revs /\ Told' = Told
          /\ r \in DOMAIN revs /\ revs[r] = "finished" /\ HoldsRev(w, r)
      <3>1. /\ worker[w].at = "send" /\ r \in Revs /\ worker[w].day \in Days /\ day \in Days
            /\ worker[w].mail \in Addrs
        BY <1>2, ClaimedFits DEF Sends, Types, Fits
      <3>2. UNCHANGED revs /\ Told' = Told
        BY <1>2 DEF Sends, Told
      <3>3. r \in DOMAIN revs /\ revs[r] = "finished"
        BY <3>1 DEF ChosenAreFinished, Finished, ChosenAt, HeldAt
      <3>4. HoldsRev(w, r)
        BY <3>1, HoldsMeans DEF HeldAt
      <3> QED BY <3>1, <3>2, <3>3, <3>4
    <2>2. CASE UNCHANGED inbox
      BY <2>1, <2>2 DEF Box!boxVars
    <2>3. CASE Accepts(w) /\ r \notin window
      <3>1. ~Mailed(r)
        BY <2>1, <2>3 DEF SendInv, KeysAreKnown, HeldRowsAreFresh
      <3>2. inbox' = Append(inbox, [rev |-> r, claimed |-> worker[w].day, day |-> day,
                                  to |-> worker[w].mail])
        BY <2>3 DEF Accepts
      <3>3. Box!Deliver(r, worker[w].day, day, worker[w].mail)
        BY <2>1, <3>1, <3>2, <1>m DEF Box!Deliver
      <3> QED BY <2>1, <3>3 DEF Box!Next
    <2> QED BY <1>2, <2>2, <2>3 DEF Sends, Accepts
  <1>3. ASSUME NEW w \in Workers, CompletesRev(w) PROVE [Box!Next]_(Box!boxVars)
    <2> DEFINE r == worker[w].rev
               done == Completed(revClaim[r])
    <2>1. /\ worker[w].at = "completeRev" /\ r \in Revs /\ revClaim[r] \in Row
          /\ UNCHANGED <<revs, inbox>> /\ Mailed(r)
          /\ r \in DOMAIN revs
      BY <1>3, <1>r DEF CompletesRev, Types, SendInv, KeysAreKnown, ChosenAreFinished, Finished,
                        ChosenAt, HeldAt
    <2>2. CASE UNCHANGED revClaim
      BY <2>1, <2>2 DEF Box!boxVars, Told
    <2>3. CASE revClaim' = [revClaim EXCEPT ![r] = done]
      <3>1. revClaim[r].age # "none"
        BY <2>1 DEF SendInv, AttemptsAreKept
      <3>2. done.delivered
        BY <2>1, <3>1 DEF Completed, Row
      <3>3. Told' = Told \cup {r}
        BY <2>1, <2>3, <3>2 DEF Types, Told
      <3>4. Box!Confirm(r)
        BY <2>1, <3>3, <1>m DEF Box!Confirm
      <3> QED BY <2>1, <3>4 DEF Box!Next
    <2> QED BY <1>3, <2>2, <2>3 DEF CompletesRev
  <1>4. ASSUME UNCHANGED <<revs, inbox>>, Told' = Told PROVE UNCHANGED Box!boxVars
    BY <1>4 DEF Box!boxVars
  <1>5. ASSUME NEW w \in Workers, ClaimsRev(w) PROVE UNCHANGED Box!boxVars
    <2>1. UNCHANGED <<revs, inbox>> /\ worker[w].rev \in Revs
      BY <1>5, <1>r DEF ClaimsRev, ChosenAt
    <2>2. Told' = Told
      BY <1>5, <2>1, ToldIsKept, DeliveredRowsStand DEF ClaimsRev, Told
    <2> QED BY <2>1, <2>2, <1>4
  <1>6. ASSUME NEW w \in Workers, Yields(w) \/ GivesRevBack(w) PROVE UNCHANGED Box!boxVars
    <2>1. UNCHANGED <<revs, inbox>> /\ worker[w].rev \in Revs
      BY <1>6, <1>r DEF Yields, GivesRevBack, ReleasesRev, ChosenAt, HeldAt
    <2>2. Told' = Told
      BY <1>6, <2>1, ToldIsKept, DeliveredRowsStand DEF Yields, GivesRevBack, ReleasesRev, Told
    <2> QED BY <2>1, <2>2, <1>4
  <1>7. ASSUME NEW w \in Workers, Prepares(w) PROVE UNCHANGED Box!boxVars
    <2> DEFINE r == worker[w].rev
               mail == IF revClaim[r].payload = "none" THEN worker[w].to ELSE revClaim[r].payload
               saved == [revClaim[r] EXCEPT !.payload = mail, !.attempted = TRUE]
    <2>1. UNCHANGED <<revs, inbox>> /\ r \in Revs /\ revClaim[r] \in Row
      BY <1>7, <1>r DEF Prepares, ChosenAt, HeldAt, Types
    <2>2. saved.delivered = revClaim[r].delivered
      BY <2>1 DEF Row
    <2>3. revClaim' = revClaim \/ revClaim' = [revClaim EXCEPT ![r] = saved]
      BY <1>7, <2>1 DEF Prepares, Types
    <2> HIDE DEF saved
    <2>4. Told' = Told
      BY <2>1, <2>2, <2>3, ToldIsKept DEF Told
    <2> QED BY <2>1, <2>4, <1>4
  <1>8. ASSUME NEW w \in Workers, CronClaims(w) PROVE UNCHANGED Box!boxVars
    <2>1. UNCHANGED <<revs, inbox>> /\ revClaim' = [r \in Revs |-> Purged(revClaim[r])]
      BY <1>8 DEF CronClaims
    <2>2. Told' = Told
      BY <2>1, DeliveredRowsStand DEF Told
    <2> QED BY <2>1, <2>2, <1>4
  <1>9. ASSUME NEW r \in Revs, RevLeaseEnds(r) \/ RevRowAges(r) PROVE UNCHANGED Box!boxVars
    <2>1. /\ UNCHANGED <<revs, inbox>> /\ revClaim[r] \in Row
          /\ [revClaim[r] EXCEPT !.leased = FALSE].delivered = revClaim[r].delivered
          /\ [revClaim[r] EXCEPT !.age = Older(revClaim[r].age)].delivered = revClaim[r].delivered
      BY <1>9 DEF RevLeaseEnds, RevRowAges, Types, Row
    <2>2. \/ revClaim' = [revClaim EXCEPT ![r] = [revClaim[r] EXCEPT !.leased = FALSE]]
          \/ revClaim' = [revClaim EXCEPT ![r] = [revClaim[r] EXCEPT !.age = Older(revClaim[r].age)]]
      BY <1>9 DEF RevLeaseEnds, RevRowAges, Types
    <2>3. Told' = Told
      BY <2>1, <2>2, ToldIsKept
    <2> QED BY <2>1, <2>3, <1>4
  <1>10. ASSUME NEW w \in Workers,
                \/ \E now \in BOOLEAN : PageAsks(w, now)
                \/ Looks(w) \/ SeesRev(w) \/ ClaimsDay(w) \/ SeesDay(w) \/ Builds(w)
                \/ ChecksTarget(w) \/ CompletesDay(w) \/ GivesDayBack(w) \/ FinishesJob(w)
                \/ QueryFails(w) \/ FinishFails(w) \/ Crashes(w)
         PROVE  UNCHANGED Box!boxVars
    <2>1. UNCHANGED <<revs, inbox, revClaim>>
      BY <1>10 DEF PageAsks, Looks, SeesRev, ClaimsDay, SeesDay, Builds, ChecksTarget, CompletesDay,
                   GivesDayBack, FinishesJob, QueryFails, FinishFails, Crashes
    <2> QED BY <2>1 DEF Box!boxVars, Told
  <1>11. CASE \/ EditAccount \/ Settles \/ JobFallsDue \/ NextDay \/ UNCHANGED vars
              \/ \E d \in Days : DayLeaseEnds(d) \/ DayRowAges(d)
              \/ \E r \in Revs : ProviderForgets(r)
    <2>1. UNCHANGED <<revs, inbox, revClaim>>
      BY <1>11 DEF EditAccount, Settles, JobFallsDue, NextDay, vars, DayLeaseEnds, DayRowAges,
                   ProviderForgets
    <2> QED BY <2>1 DEF Box!boxVars, Told
  <1> QED BY <1>1, <1>2, <1>3, <1>5, <1>6, <1>7, <1>8, <1>9, <1>10, <1>11
          DEF Next, SendStep, Passes, Box!Next

(* The queue, both claims, their leases, tries, purges and the provider's  *)
(* keys implement the mails a person is promised: only finished revisions  *)
(* go out, each once, and delivered is said of what went out.              *)
THEOREM ImplementsMailbox == Spec => MailboxSpec
  <1>1. Init => ChosenAreFinished /\ Box!Init
    BY DEF Init, ChosenAreFinished, ChosenAt, HeldAt, Idle, NoRow, Box!Init, Told
  <1>2. Types /\ ChosenAreFinished /\ [Next]_vars => ChosenAreFinished'
    BY ChosenStep
  <1>3. Types /\ SendInv /\ ChosenAreFinished /\ [Next]_vars => [Box!Next]_(Box!boxVars)
    BY MailboxStep
  <1> QED BY <1>1, <1>2, <1>3, TypesAlways, SendInvAlways, PTL DEF Spec, MailboxSpec, Box!Spec

====
