------------------------- MODULE TailorBatchProofs -------------------------
(***************************************************************************)
(* What holds of one job's claim for any number of requests and any        *)
(* durations with MaxDuration <= StaleClaim <= KeepDays.                   *)
(*                                                                         *)
(* The core is Alone: a request past its claim has the row running and as  *)
(* old as itself, so nothing can take the claim over, and nothing can      *)
(* purge it, while the request lives.  Everything else reads off the row   *)
(* knowing that the one live request is the only one that writes, up to    *)
(* the job a person is promised, which the row implements.                 *)
(***************************************************************************)
EXTENDS TailorBatch, TLAPS

USE TimesAssumption, BoundsAssumption

\* The row is the live request's own.
HolderHasRow ==
    \A w \in Requests : Live(w) => row.status = "running" /\ row.age = req[w].age
IdleIsBlank == \A w \in Requests : ~Live(w) => req[w] = Idle
EmptyRow == row.status = "none" => row = NoRow
Alone == TypeOK /\ HolderHasRow /\ IdleIsBlank /\ EmptyRow /\ OneRunner

\* A run that no fault has paid for is still at work or has been saved.
RunsAccounted ==
    \/ charges <= faults
    \/ /\ charges <= 1 + faults
       /\ \/ row.status = "saved"
          \/ \E w \in Requests : req[w].at \in {"save", "record"}

\* What a request that may yet generate knows is still so.
KnowsWell(w) ==
    /\ req[w].at \in {"find", "generate"} => ~req[w].paid
    /\ req[w].at \in {"find", "application", "generate"} /\ ~req[w].paid /\ row.pending
          => req[w].unread
    /\ req[w].at \in {"application", "generate"} /\ req[w].look = "none" => resumes = 0
    /\ req[w].at \in {"application", "generate"} /\ ~req[w].paid
          /\ req[w].look = "first" /\ purges = 0 => charges = 0
UnusedIsUnpaid == row.status = "none" /\ purges = 0 => charges = 0
KnowledgeHolds == UnusedIsUnpaid /\ \A w \in Requests : KnowsWell(w)

-----------------------------------------------------------------------------
(***************************************************************************)
(* Alone: while a request lives past its claim, the row is its own.        *)
(***************************************************************************)
\* A claim can be had, and a row purged, only while nobody is past it.
LEMMA ClaimableIsFree ==
    ASSUME Alone, Claimable \/ row.status = "none" \/ row.age > KeepDays
    PROVE  \A v \in Requests : ~Live(v)
BY DEF Alone, HolderHasRow, TypeOK, Claimable, Stale, Row, Request

LEMMA OthersAreIdle ==
    ASSUME Alone, NEW w \in Requests, Live(w)
    PROVE  \A v \in Requests : v # w => ~Live(v)
BY DEF Alone, OneRunner

\* What a take-over leaves on the row.
LEMMA TakenOverRow ==
    ASSUME row \in Row
    PROVE  /\ TakenOver \in Row
           /\ TakenOver.status = "running" /\ TakenOver.age = 0
           /\ TakenOver.pending = row.pending
<1> DEFINE n == IF row.attempts < MaxAttempts THEN row.attempts + 1 ELSE MaxAttempts
<1>1. n \in 0..MaxAttempts /\ 0 \in 0..KeepDays + 1
    BY DEF Row
<1> QED
    BY <1>1 DEF Row, TakenOver

\* The row a first claim inserts.
LEMMA FirstRowFits ==
    /\ FirstRow \in Row
    /\ FirstRow.status = "running" /\ FirstRow.age = 0 /\ FirstRow.pending = FALSE
<1>1. 1 \in 0..MaxAttempts /\ 0 \in 0..KeepDays + 1
    OBVIOUS
<1> QED
    BY <1>1 DEF Row, FirstRow

LEMMA IdleFits == Idle \in Request /\ Idle.at = "idle" /\ Idle.age = 0
BY DEF Idle, Request, Stages

\* A step of the one request at work keeps Alone if what it leaves fits the row.
LEMMA StepOfOne ==
    ASSUME Alone, NEW w \in Requests, \A v \in Requests : v # w => ~Live(v),
           NEW q \in Request, req' = [req EXCEPT ![w] = q],
           q.at = "idle" => q = Idle,
           q.at # "idle" => row'.status = "running" /\ row'.age = q.age,
           row' \in Row, row'.status = "none" => row' = NoRow,
           resumes' \in Nat, charges' \in Nat,
           faults' \in 0..MaxFaults, purges' \in 0..MaxPurges
    PROVE  Alone'
<1>1. req' \in [Requests -> Request] /\ req'[w] = q
         /\ \A v \in Requests : v # w => req'[v] = req[v] /\ ~Live(v) /\ ~Live(v)'
    BY DEF Alone, TypeOK, Live
<1>2. TypeOK'
    BY <1>1 DEF TypeOK
<1>3. HolderHasRow'
    BY <1>1 DEF HolderHasRow, Live
<1>4. IdleIsBlank'
    BY <1>1 DEF IdleIsBlank, Alone, Live
<1>5. OneRunner'
    BY <1>1 DEF OneRunner
<1> QED
    BY <1>2, <1>3, <1>4, <1>5 DEF Alone, EmptyRow

LEMMA AloneInit == Init => Alone
<1> SUFFICES ASSUME Init PROVE Alone
    OBVIOUS
<1>1. TypeOK
    BY DEF Init, TypeOK, NoRow, Row, Idle, Request, Stages
<1> QED
    BY <1>1 DEF Init, Alone, HolderHasRow, IdleIsBlank, EmptyRow, OneRunner, Live, Idle

LEMMA AloneStep == Alone /\ [Next]_vars => Alone'
<1> SUFFICES ASSUME Alone, [Next]_vars PROVE Alone'
    OBVIOUS
<1> USE DEF Fault, Goes, Ends
<1>t. TypeOK
    BY DEF Alone
<1>f. ASSUME Fault PROVE faults' \in 0..MaxFaults
    BY <1>t, <1>f DEF TypeOK
<1>1. ASSUME NEW w \in Requests, ClaimsNew(w) PROVE Alone'
    <2>1. \A v \in Requests : ~Live(v)
        BY <1>1, ClaimableIsFree DEF ClaimsNew
    <2>2. req[w] = Idle
        BY <2>1 DEF Alone, IdleIsBlank
    <2> DEFINE q == [req[w] EXCEPT !.at = "application"]
    <2>3. q \in Request /\ q.at = "application" /\ q.age = 0
        BY <2>2, IdleFits DEF Request, Stages
    <2>4. req' = [req EXCEPT ![w] = q] /\ row' = FirstRow
        BY <1>1, <1>t DEF ClaimsNew, TypeOK
    <2>5. /\ resumes' \in Nat /\ charges' \in Nat
          /\ faults' \in 0..MaxFaults /\ purges' \in 0..MaxPurges
        BY <1>1, <1>t DEF ClaimsNew, TypeOK
    <2>6. row' \in Row /\ row'.status = "running" /\ row'.age = 0
        BY <2>4, FirstRowFits
    <2> HIDE DEF q
    <2> QED
        BY <2>1, <2>3, <2>4, <2>5, <2>6, StepOfOne
<1>2. ASSUME NEW w \in Requests, TakesOver(w) PROVE Alone'
    <2>1. \A v \in Requests : ~Live(v)
        BY <1>2, ClaimableIsFree DEF TakesOver
    <2>2. req[w] = Idle
        BY <2>1 DEF Alone, IdleIsBlank
    <2>3. row' = TakenOver /\ row \in Row
        BY <1>2, <1>t DEF TakesOver, TypeOK
    <2>4. PICK q \in Request : /\ req' = [req EXCEPT ![w] = q]
                               /\ q.at # "idle" /\ q.age = 0
        <3>1. CASE req' = [req EXCEPT ![w].at = "application", ![w].paid = TRUE]
            <4> DEFINE q == [req[w] EXCEPT !.at = "application", !.paid = TRUE]
            <4>1. q \in Request /\ q.at # "idle" /\ q.age = 0
                BY <2>2, IdleFits DEF Request, Stages
            <4>2. req' = [req EXCEPT ![w] = q]
                BY <3>1, <1>t DEF TypeOK
            <4> QED
                BY <4>1, <4>2
        <3>2. CASE req' = [req EXCEPT ![w].at = "find", ![w].unread = TRUE]
            <4> DEFINE q == [req[w] EXCEPT !.at = "find", !.unread = TRUE]
            <4>1. q \in Request /\ q.at # "idle" /\ q.age = 0
                BY <2>2, IdleFits DEF Request, Stages
            <4>2. req' = [req EXCEPT ![w] = q]
                BY <3>2, <1>t DEF TypeOK
            <4> QED
                BY <4>1, <4>2
        <3>3. CASE req' = [req EXCEPT ![w].at = "find"]
            <4> DEFINE q == [req[w] EXCEPT !.at = "find"]
            <4>1. q \in Request /\ q.at # "idle" /\ q.age = 0
                BY <2>2, IdleFits DEF Request, Stages
            <4>2. req' = [req EXCEPT ![w] = q]
                BY <3>3, <1>t DEF TypeOK
            <4> QED
                BY <4>1, <4>2
        <3> QED
            BY <1>2, <3>1, <3>2, <3>3 DEF TakesOver
    <2>5. faults' \in 0..MaxFaults
        BY <1>2, <1>t, <1>f DEF TakesOver, TypeOK
    <2> QED
        BY <1>2, <1>t, <2>1, <2>3, <2>4, <2>5, StepOfOne, TakenOverRow DEF TakesOver, TypeOK
<1>3. ASSUME NEW w \in Requests, LosesClaim(w) PROVE Alone'
    <2>1. \A v \in Requests : ~Live(v)
        BY <1>3, ClaimableIsFree DEF LosesClaim
    <2>2. row' \in Row /\ row'.status = "running"
        <3>1. CASE row.status = "none" /\ row' = FirstRow
            BY <3>1, FirstRowFits
        <3>2. CASE row' = TakenOver
            BY <3>2, <1>t, TakenOverRow DEF TypeOK
        <3> QED
            BY <1>3, <3>1, <3>2 DEF LosesClaim
    <2>3. req[w] = Idle /\ req' = [req EXCEPT ![w] = Idle]
        BY <1>3, <1>t, <2>1 DEF LosesClaim, Alone, IdleIsBlank, TypeOK
    <2> QED
        BY <1>3, <1>t, <1>f, <2>1, <2>2, <2>3, StepOfOne, IdleFits DEF LosesClaim, TypeOK
<1>4. ASSUME NEW w \in Requests, Live(w), NEW q \in Request,
             req' = [req EXCEPT ![w] = q], q.at # "idle", q.age = req[w].age,
             row' = row, resumes' \in Nat, charges' \in Nat,
             faults' \in 0..MaxFaults, purges' = purges
      PROVE  Alone'
    BY <1>4, <1>t, OthersAreIdle, StepOfOne DEF Alone, HolderHasRow, EmptyRow, TypeOK
<1>5. ASSUME NEW w \in Requests, Live(w), Ends(w), row' \in Row,
             row'.status = "none" => row' = NoRow,
             resumes' \in Nat, charges' \in Nat,
             faults' \in 0..MaxFaults, purges' = purges
      PROVE  Alone'
    BY <1>5, <1>t, OthersAreIdle, StepOfOne, IdleFits DEF TypeOK
<1>6. ASSUME NEW w \in Requests, NEW s \in Stages \ {"idle"}
      PROVE  LET q == [req[w] EXCEPT !.at = s]
             IN  /\ q \in Request /\ q.at # "idle" /\ q.age = req[w].age
                 /\ [req EXCEPT ![w].at = s] = [req EXCEPT ![w] = q]
    BY <1>t DEF TypeOK, Request
<1>7. ASSUME NEW w \in Requests, Finds(w) PROVE Alone'
    <2>0. Live(w) /\ faults' \in 0..MaxFaults
        BY <1>7, <1>t, <1>f DEF Finds, Live, TypeOK
    <2>a. /\ row' = row /\ resumes' \in Nat /\ charges' \in Nat /\ purges' = purges
        BY <1>7, <1>t DEF Finds, TypeOK
    <2>1. CASE Goes(w, "record")
        BY <2>0, <2>a, <2>1, <1>4, <1>6 DEF Stages
    <2>2. CASE \E l \in {"none", "failed"} :
                   req' = [req EXCEPT ![w].at = "application", ![w].look = l]
        <3> PICK l \in {"none", "failed"} :
                req' = [req EXCEPT ![w].at = "application", ![w].look = l]
            BY <2>2
        <3> DEFINE q == [req[w] EXCEPT !.at = "application", !.look = l]
        <3>1. q \in Request /\ q.at # "idle" /\ q.age = req[w].age
            BY <1>t DEF TypeOK, Request, Stages
        <3>2. req' = [req EXCEPT ![w] = q]
            BY <1>t DEF TypeOK
        <3> HIDE DEF q
        <3> QED
            BY <1>7, <1>t, <2>0, <3>1, <3>2, <1>4 DEF Finds, TypeOK
    <2> QED
        BY <1>7, <2>1, <2>2 DEF Finds
<1>8. ASSUME NEW w \in Requests, SavesApplication(w) PROVE Alone'
    <2>1. Live(w) /\ faults' \in 0..MaxFaults
        BY <1>8, <1>t, <1>f DEF SavesApplication, Live, TypeOK
    <2>2. \E s \in {"save", "generate", "release"} : Goes(w, s)
        BY <1>8 DEF SavesApplication
    <2>3. /\ row' = row /\ resumes' \in Nat /\ charges' \in Nat /\ purges' = purges
        BY <1>8, <1>t DEF SavesApplication, TypeOK
    <2> QED
        BY <2>1, <2>2, <2>3, <1>4, <1>6 DEF Stages
<1>9. ASSUME NEW w \in Requests, Generates(w) PROVE Alone'
    <2> DEFINE q == [req[w] EXCEPT !.at = "save", !.paid = TRUE]
    <2>1. q \in Request /\ q.at # "idle" /\ q.age = req[w].age
        BY <1>t DEF TypeOK, Request, Stages
    <2>2. req' = [req EXCEPT ![w] = q]
        BY <1>9, <1>t DEF Generates, TypeOK
    <2>3. Live(w) /\ charges' \in Nat /\ resumes' \in Nat
        BY <1>9, <1>t DEF Generates, TypeOK, Live
    <2> HIDE DEF q
    <2> QED
        BY <1>9, <1>t, <2>1, <2>2, <2>3, <1>4 DEF Generates, TypeOK
<1>10. ASSUME NEW w \in Requests, GeneratesNothing(w) PROVE Alone'
    <2>1. Live(w) /\ faults' \in 0..MaxFaults
        BY <1>10, <1>t, <1>f DEF GeneratesNothing, Live, TypeOK
    <2> QED
        BY <1>10, <1>t, <2>1, <1>4, <1>6 DEF GeneratesNothing, TypeOK, Stages
<1>17. ASSUME NEW w \in Requests, LosesRun(w) PROVE Alone'
    <2>1. Live(w) /\ faults' \in 0..MaxFaults /\ charges' \in Nat
        BY <1>17, <1>t, <1>f DEF LosesRun, Live, TypeOK
    <2> QED
        BY <1>17, <1>t, <2>1, <1>4, <1>6 DEF LosesRun, TypeOK, Stages
<1>11. ASSUME NEW w \in Requests, SavesResume(w) PROVE Alone'
    <2>1. Live(w) /\ faults' \in 0..MaxFaults /\ resumes' \in Nat
        BY <1>11, <1>t, <1>f DEF SavesResume, Live, TypeOK
    <2>2. \E s \in {"record", "keep"} : Goes(w, s)
        BY <1>11 DEF SavesResume
    <2> QED
        BY <1>11, <1>t, <2>1, <2>2, <1>4, <1>6 DEF SavesResume, TypeOK, Stages
<1>12. ASSUME NEW w \in Requests, KeepsResult(w) \/ RecordsSaved(w) \/ Releases(w)
       PROVE  Alone'
    <2>1. Live(w) /\ Ends(w) /\ faults' \in 0..MaxFaults
        BY <1>12, <1>t, <1>f DEF KeepsResult, RecordsSaved, Releases, Live, TypeOK
    <2>2. row' \in Row /\ (row'.status = "none" => row' = NoRow)
        BY <1>12, <1>t DEF KeepsResult, RecordsSaved, Releases, Writes, TypeOK, Row, Alone, EmptyRow
    <2> QED
        BY <1>12, <1>t, <2>1, <2>2, <1>5 DEF KeepsResult, RecordsSaved, Releases, TypeOK
<1>13. ASSUME NEW w \in Requests, Crashes(w) PROVE Alone'
    BY <1>13, <1>t, <1>f, <1>5 DEF Crashes, Alone, EmptyRow, TypeOK
<1>14. CASE Tick
    <2>1. /\ row' \in Row /\ row'.status = row.status
          /\ row.age <= KeepDays => row'.age = row.age + 1
        BY <1>14, <1>t DEF Tick, TypeOK, Row
    <2>2. \A w \in Requests : req'[w] = Aged(req[w]) /\ req[w] \in Request
        BY <1>14, <1>t DEF Tick, TypeOK
    <2>3. \A w \in Requests : /\ Aged(req[w]) \in Request
                              /\ Aged(req[w]).at = "idle" => Aged(req[w]) = Idle
                              /\ Aged(req[w]).at # "idle" =>
                                    /\ Live(w) /\ req[w].age < MaxDuration
                                    /\ Aged(req[w]).age = req[w].age + 1
        BY <2>2, IdleFits DEF Aged, Request, Live
    <2>4. TypeOK'
        BY <1>14, <1>t, <1>f, <2>1, <2>2, <2>3 DEF Tick, TypeOK
    <2>5. HolderHasRow'
        BY <2>1, <2>2, <2>3 DEF HolderHasRow, Live, Alone, Request
    <2>6. IdleIsBlank' /\ OneRunner'
        BY <2>2, <2>3 DEF IdleIsBlank, OneRunner, Live, Alone
    <2>7. EmptyRow'
        BY <1>14, <2>1 DEF EmptyRow, Tick
    <2> QED
        BY <2>4, <2>5, <2>6, <2>7 DEF Alone
<1>15. CASE Purges
    <2>1. \A v \in Requests : ~Live(v)
        BY <1>15, ClaimableIsFree DEF Purges
    <2>2. row' = NoRow /\ NoRow \in Row
        BY <1>15 DEF Purges, NoRow, Row
    <2>3. TypeOK'
        BY <1>15, <1>t, <2>2 DEF Purges, TypeOK
    <2> QED
        BY <1>15, <2>1, <2>2, <2>3
        DEF Purges, Alone, HolderHasRow, IdleIsBlank, EmptyRow, OneRunner, Live
<1>16. CASE UNCHANGED vars
    BY <1>16 DEF vars, Alone, TypeOK, HolderHasRow, IdleIsBlank, EmptyRow, OneRunner, Live
<1> QED
    BY <1>1, <1>2, <1>3, <1>7, <1>8, <1>9, <1>10, <1>11, <1>12, <1>13, <1>14, <1>15, <1>16,
       <1>17
    DEF Next, Claims, Steps

(* Every row and every request keeps its shape.                            *)
THEOREM TailorTypeCorrect == Spec => []TypeOK
<1>1. Alone => TypeOK
    BY DEF Alone
<1> QED
    BY <1>1, AloneInit, AloneStep, PTL DEF Spec

(* "Two tabs cannot both charge" (tailor-batch-server.ts:9): because the   *)
(* platform ends a request before its claim is stale, and because a        *)
(* request writes its status last, two requests are never past the claim.  *)
THEOREM OneAtATime == Spec => []OneRunner
<1>1. Alone => OneRunner
    BY DEF Alone
<1> QED
    BY <1>1, AloneInit, AloneStep, PTL DEF Spec

-----------------------------------------------------------------------------
(***************************************************************************)
(* What one live request may rely on.                                      *)
(***************************************************************************)
\* Who is at work has the row running.
LEMMA LiveRuns ==
    ASSUME Alone, NEW w \in Requests, Live(w)
    PROVE  row.status = "running"
BY DEF Alone, HolderHasRow

(* A saved job stays saved: only a request past its claim writes the row,  *)
(* and it would have the row running.                                      *)
THEOREM SavedStaysSaved == Spec => SavedIsFinal
<1>1. Alone /\ [Next]_vars => [row.status = "saved" => row'.status = "saved"]_vars
    <2> SUFFICES ASSUME Alone, Next, row.status = "saved" PROVE row'.status = "saved"
        OBVIOUS
    <2>1. row \in Row
        BY DEF Alone, TypeOK
    <2>2. \A w \in Requests : ~Live(w)
        BY LiveRuns
    <2>3. ASSUME NEW w \in Requests PROVE ~Claims(w) /\ ~LosesClaim(w)
        BY DEF Claims, ClaimsNew, TakesOver, LosesClaim, Claimable
    <2>4. ASSUME NEW w \in Requests PROVE ~Steps(w) /\ ~Crashes(w)
        BY <2>2 DEF Steps, Crashes, Live, Finds, SavesApplication, Generates,
                    GeneratesNothing, LosesRun, SavesResume, KeepsResult, RecordsSaved,
                    Releases
    <2>5. CASE Tick
        BY <2>1, <2>5 DEF Tick, Row
    <2> QED
        BY <2>3, <2>4, <2>5 DEF Next, Purges
<1> QED
    BY <1>1, AloneInit, AloneStep, PTL DEF Spec, SavedIsFinal

-----------------------------------------------------------------------------
(***************************************************************************)
(* Runs of the generator and the faults that pay for them.                 *)
(***************************************************************************)
\* Before the generator runs again, every run so far has had its fault.
LEMMA AtWorkUnspent ==
    ASSUME Alone, RunsAccounted, NEW w \in Requests, Live(w),
           req[w].at \notin {"save", "record"}
    PROVE  charges <= faults
BY DEF Alone, RunsAccounted, OneRunner, HolderHasRow, Live

LEMMA AccountedInit == Init => RunsAccounted
BY DEF Init, RunsAccounted

LEMMA AccountedStep == Alone /\ RunsAccounted /\ [Next]_vars => RunsAccounted'
<1> SUFFICES ASSUME Alone, RunsAccounted, [Next]_vars PROVE RunsAccounted'
    OBVIOUS
<1> USE DEF Goes, Ends
<1>t. /\ row \in Row /\ req \in [Requests -> Request]
      /\ charges \in Nat /\ faults \in Nat
    BY DEF Alone, TypeOK
<1>f. charges <= 1 + faults
    BY <1>t DEF RunsAccounted
<1>1. ASSUME Fault, charges' = charges PROVE RunsAccounted'
    BY <1>1, <1>t, <1>f DEF Fault, RunsAccounted
<1>2. ASSUME charges <= faults, charges' = charges, faults' = faults PROVE RunsAccounted'
    BY <1>2 DEF RunsAccounted
<1>3. ASSUME \A v \in Requests : ~Live(v), row.status # "saved" PROVE charges <= faults
    BY <1>3 DEF RunsAccounted, Live
<1>4. ASSUME NEW w \in Requests, Claims(w) \/ LosesClaim(w) PROVE RunsAccounted'
    <2>1. Claimable \/ row.status = "none"
        BY <1>4 DEF Claims, ClaimsNew, TakesOver, LosesClaim
    <2>2. charges <= faults
        BY <2>1, <1>3, ClaimableIsFree DEF Claimable
    <2>3. charges' = charges /\ (faults' = faults \/ Fault)
        BY <1>4 DEF Claims, ClaimsNew, TakesOver, LosesClaim
    <2> QED
        BY <2>2, <2>3, <1>1, <1>2
<1>5. ASSUME NEW w \in Requests, Finds(w) \/ SavesApplication(w) \/ GeneratesNothing(w)
      PROVE  RunsAccounted'
    <2>1. charges <= faults
        BY <1>5, AtWorkUnspent DEF Finds, SavesApplication, GeneratesNothing, Live
    <2>2. charges' = charges /\ (faults' = faults \/ Fault)
        BY <1>5 DEF Finds, SavesApplication, GeneratesNothing
    <2> QED
        BY <2>1, <2>2, <1>1, <1>2
<1>6. ASSUME NEW w \in Requests, Generates(w) PROVE RunsAccounted'
    <2>1. charges <= faults
        BY <1>6, AtWorkUnspent DEF Generates, Live
    <2>2. req'[w].at = "save"
        BY <1>6, <1>t DEF Generates, Request
    <2> QED
        BY <1>6, <1>t, <2>1, <2>2 DEF Generates, RunsAccounted
<1>14. ASSUME NEW w \in Requests, LosesRun(w) PROVE RunsAccounted'
    <2>1. charges <= faults
        BY <1>14, AtWorkUnspent DEF LosesRun, Live
    <2>2. charges' = charges + 1 /\ faults' = faults + 1
        BY <1>14 DEF LosesRun, Fault
    <2> QED
        BY <1>t, <2>1, <2>2 DEF RunsAccounted
<1>7. ASSUME NEW w \in Requests, SavesResume(w) PROVE RunsAccounted'
    <2>1. CASE Fault
        BY <1>7, <2>1, <1>1 DEF SavesResume
    <2>2. CASE req' = [req EXCEPT ![w].at = "record"] /\ faults' = faults
        <3>1. req'[w].at = "record"
            BY <2>2, <1>t DEF Request
        <3> QED
            BY <1>7, <1>f, <2>2, <3>1 DEF SavesResume, RunsAccounted
    <2> QED
        BY <1>7, <2>1, <2>2 DEF SavesResume
<1>8. ASSUME NEW w \in Requests, KeepsResult(w) \/ Releases(w) PROVE RunsAccounted'
    <2>1. charges <= faults
        BY <1>8, AtWorkUnspent DEF KeepsResult, Releases, Live
    <2>2. charges' = charges /\ (faults' = faults \/ Fault)
        BY <1>8 DEF KeepsResult, Releases
    <2> QED
        BY <2>1, <2>2, <1>1, <1>2
<1>9. ASSUME NEW w \in Requests, RecordsSaved(w) PROVE RunsAccounted'
    <2>1. CASE Fault
        BY <1>9, <2>1, <1>1 DEF RecordsSaved
    <2>2. CASE Writes([row EXCEPT !.status = "saved", !.pending = FALSE]) /\ faults' = faults
        <3>1. row.status = "running"
            BY <1>9, LiveRuns DEF RecordsSaved, Live
        <3>2. row'.status = "saved"
            BY <2>2, <3>1, <1>t DEF Writes, Row
        <3> QED
            BY <1>9, <1>f, <2>2, <3>2 DEF RecordsSaved, RunsAccounted
    <2> QED
        BY <1>9, <2>1, <2>2 DEF RecordsSaved
<1>10. ASSUME NEW w \in Requests, Crashes(w) PROVE RunsAccounted'
    BY <1>10, <1>1 DEF Crashes
<1>11. CASE Tick
    <2>1. CASE Fault
        BY <1>11, <2>1, <1>1 DEF Tick
    <2>2. CASE faults' = faults /\ \A w \in Requests : ~Live(w)
        <3>1. row'.status = row.status
            BY <1>11, <1>t DEF Tick, Row
        <3> QED
            BY <1>11, <1>3, <1>f, <2>2, <3>1 DEF Tick, RunsAccounted
    <2> QED
        BY <1>11, <2>1, <2>2 DEF Tick
<1>12. CASE Purges
    <2>1. charges <= faults
        BY <1>12, <1>3, ClaimableIsFree DEF Purges
    <2> QED
        BY <1>12, <2>1, <1>2 DEF Purges
<1>13. CASE UNCHANGED vars
    BY <1>13 DEF vars, RunsAccounted
<1> QED
    BY <1>4, <1>5, <1>6, <1>7, <1>8, <1>9, <1>10, <1>11, <1>12, <1>13, <1>14
    DEF Next, Steps

(* Every counted run of the generator after the first has a fault of its   *)
(* own: without a crash, a slow request or a failed call there is one.     *)
THEOREM ExtraRunsArePaidByFaults == Spec => []ExtraRunsHaveFaults
<1>1. Alone /\ RunsAccounted => ExtraRunsHaveFaults
    BY DEF Alone, TypeOK, RunsAccounted, ExtraRunsHaveFaults
<1>2. Init => Alone /\ RunsAccounted
    BY AloneInit, AccountedInit
<1>3. Alone /\ RunsAccounted /\ [Next]_vars => (Alone /\ RunsAccounted)'
    BY AloneStep, AccountedStep
<1> QED
    BY <1>1, <1>2, <1>3, PTL DEF Spec

-----------------------------------------------------------------------------
(***************************************************************************)
(* What a request read before the generator is still so when it runs.      *)
(***************************************************************************)
LEMMA KnowledgeInit == Init => KnowledgeHolds
BY DEF Init, KnowledgeHolds, UnusedIsUnpaid, KnowsWell, Idle

LEMMA KnowledgeStep == Alone /\ KnowledgeHolds /\ [Next]_vars => KnowledgeHolds'
<1> SUFFICES ASSUME Alone, KnowledgeHolds, [Next]_vars PROVE KnowledgeHolds'
    OBVIOUS
<1> USE DEF Goes, Ends
<1>t. /\ row \in Row /\ req \in [Requests -> Request]
      /\ charges \in Nat /\ resumes \in Nat /\ purges \in Nat
    BY DEF Alone, TypeOK
\* The others are idle, and know nothing.
<1>1. ASSUME NEW w \in Requests, \A v \in Requests : v # w => ~Live(v),
             NEW q, req' = [req EXCEPT ![w] = q],
             KnowsWell(w)', UnusedIsUnpaid'
      PROVE  KnowledgeHolds'
    <2>1. ASSUME NEW v \in Requests, v # w PROVE KnowsWell(v)'
        <3>1. req'[v].at = "idle"
            BY <1>1, <1>t, <2>1 DEF Live
        <3> QED
            BY <3>1 DEF KnowsWell
    <2> QED
        BY <1>1, <2>1 DEF KnowledgeHolds
<1>2. ASSUME NEW w \in Requests, Live(w), NEW q, req' = [req EXCEPT ![w] = q],
             KnowsWell(w)', row' = row
      PROVE  KnowledgeHolds'
    <2>1. UnusedIsUnpaid'
        BY <1>2, LiveRuns DEF UnusedIsUnpaid
    <2> QED
        BY <1>2, <2>1, <1>1, OthersAreIdle
<1>3. ASSUME NEW w \in Requests, ClaimsNew(w) PROVE KnowledgeHolds'
    <2>1. \A v \in Requests : ~Live(v)
        BY <1>3, ClaimableIsFree DEF ClaimsNew
    <2>2. req[w] = Idle /\ (purges = 0 => charges = 0)
        BY <1>3, <2>1 DEF Alone, IdleIsBlank, KnowledgeHolds, UnusedIsUnpaid, ClaimsNew
    <2> DEFINE q == [req[w] EXCEPT !.at = "application"]
    <2>3. req' = [req EXCEPT ![w] = q] /\ row' = FirstRow
        BY <1>3, <1>t DEF ClaimsNew
    <2>4. /\ req'[w].at = "application" /\ req'[w].look = "first"
          /\ ~row'.pending /\ row'.status = "running"
        BY <2>2, <2>3, <1>t DEF Idle, FirstRow
    <2>5. KnowsWell(w)' /\ UnusedIsUnpaid'
        BY <1>3, <2>2, <2>4 DEF KnowsWell, UnusedIsUnpaid, ClaimsNew
    <2> QED
        BY <2>1, <2>3, <2>5, <1>1
<1>4. ASSUME NEW w \in Requests, TakesOver(w) PROVE KnowledgeHolds'
    <2>1. \A v \in Requests : ~Live(v)
        BY <1>4, ClaimableIsFree DEF TakesOver
    <2>2. req[w] = Idle
        BY <2>1 DEF Alone, IdleIsBlank
    <2>3. row'.status = "running" /\ row'.pending = row.pending
        BY <1>4, <1>t, TakenOverRow DEF TakesOver
    <2>4. UnusedIsUnpaid'
        BY <2>3 DEF UnusedIsUnpaid
    <2>5. CASE req' = [req EXCEPT ![w].at = "application", ![w].paid = TRUE]
        <3> DEFINE q == [req[w] EXCEPT !.at = "application", !.paid = TRUE]
        <3>1. req' = [req EXCEPT ![w] = q]
            BY <2>5, <1>t
        <3>2. req'[w].at = "application" /\ req'[w].paid /\ req'[w].look = "first"
            BY <2>2, <3>1, <1>t DEF Idle
        <3>3. KnowsWell(w)'
            BY <3>2 DEF KnowsWell
        <3> QED
            BY <2>1, <2>4, <3>1, <3>3, <1>1
    <2>6. CASE req' = [req EXCEPT ![w].at = "find", ![w].unread = TRUE]
        <3> DEFINE q == [req[w] EXCEPT !.at = "find", !.unread = TRUE]
        <3>1. req' = [req EXCEPT ![w] = q]
            BY <2>6, <1>t
        <3>2. req'[w].at = "find" /\ ~req'[w].paid /\ req'[w].unread
            BY <2>2, <3>1, <1>t DEF Idle
        <3>3. KnowsWell(w)'
            BY <3>2 DEF KnowsWell
        <3> QED
            BY <2>1, <2>4, <3>1, <3>3, <1>1
    <2>7. CASE ~row.pending /\ req' = [req EXCEPT ![w].at = "find"]
        <3> DEFINE q == [req[w] EXCEPT !.at = "find"]
        <3>1. req' = [req EXCEPT ![w] = q]
            BY <2>7, <1>t
        <3>2. req'[w].at = "find" /\ ~req'[w].paid
            BY <2>2, <3>1, <1>t DEF Idle
        <3>3. KnowsWell(w)'
            BY <2>3, <2>7, <3>2 DEF KnowsWell
        <3> QED
            BY <2>1, <2>4, <3>1, <3>3, <1>1
    <2> QED
        BY <1>4, <2>5, <2>6, <2>7 DEF TakesOver
<1>5. ASSUME NEW w \in Requests, LosesClaim(w) PROVE KnowledgeHolds'
    <2>1. row'.status = "running" /\ req' = req
        BY <1>5, <1>t, TakenOverRow, FirstRowFits DEF LosesClaim
    <2>2. \A v \in Requests : req'[v].at = "idle"
        BY <1>5, <2>1, ClaimableIsFree DEF LosesClaim, Live
    <2> QED
        BY <2>1, <2>2 DEF KnowledgeHolds, UnusedIsUnpaid, KnowsWell
<1>6. ASSUME NEW w \in Requests, Finds(w) PROVE KnowledgeHolds'
    <2>1. Live(w) /\ row' = row /\ resumes' = resumes /\ charges' = charges /\ purges' = purges
        BY <1>6 DEF Finds, Live
    <2>2. ~req[w].paid /\ (row.pending => req[w].unread) /\ req[w] \in Request
        BY <1>6, <1>t DEF Finds, KnowledgeHolds, KnowsWell
    <2>3. CASE req' = [req EXCEPT ![w].at = "record"]
        <3>1. req' = [req EXCEPT ![w] = [req[w] EXCEPT !.at = "record"]]
            BY <2>3, <1>t
        <3>2. KnowsWell(w)'
            BY <2>3, <1>t DEF KnowsWell
        <3> QED
            BY <2>1, <3>1, <3>2, <1>2
    <2>4. ASSUME NEW l \in {"none", "failed"}, l = "none" => resumes = 0,
                 req' = [req EXCEPT ![w].at = "application", ![w].look = l]
          PROVE  KnowledgeHolds'
        <3> DEFINE q == [req[w] EXCEPT !.at = "application", !.look = l]
        <3>1. req' = [req EXCEPT ![w] = q]
            BY <2>4, <1>t
        <3>2. /\ req'[w].at = "application" /\ req'[w].look = l
              /\ req'[w].paid = req[w].paid /\ req'[w].unread = req[w].unread
            BY <2>2, <3>1, <1>t DEF Request
        <3>3. KnowsWell(w)'
            BY <2>1, <2>2, <2>4, <3>2 DEF KnowsWell
        <3> QED
            BY <2>1, <3>1, <3>3, <1>2
    <2> QED
        BY <1>6, <2>3, <2>4 DEF Finds
<1>7. ASSUME NEW w \in Requests, SavesApplication(w) PROVE KnowledgeHolds'
    <2>1. Live(w) /\ row' = row /\ resumes' = resumes /\ charges' = charges /\ purges' = purges
        BY <1>7 DEF SavesApplication, Live
    <2>2. PICK s \in {"save", "generate", "release"} :
             /\ req' = [req EXCEPT ![w].at = s]
             /\ s = "generate" => ~req[w].paid
        BY <1>7 DEF SavesApplication
    <2>3. req' = [req EXCEPT ![w] = [req[w] EXCEPT !.at = s]]
        BY <2>2, <1>t
    <2>4. /\ req'[w].at = s /\ req'[w].look = req[w].look
          /\ req'[w].paid = req[w].paid /\ req'[w].unread = req[w].unread
        BY <2>3, <1>t DEF Request
    <2>5. req[w].at = "application" /\ KnowsWell(w)
        BY <1>7 DEF SavesApplication, KnowledgeHolds
    <2>6. KnowsWell(w)'
        BY <2>1, <2>2, <2>4, <2>5 DEF KnowsWell
    <2> QED
        BY <2>1, <2>3, <2>6, <1>2
<1>8. ASSUME NEW w \in Requests, Generates(w) PROVE KnowledgeHolds'
    <2> DEFINE q == [req[w] EXCEPT !.at = "save", !.paid = TRUE]
    <2>1. req' = [req EXCEPT ![w] = q]
        BY <1>8, <1>t DEF Generates
    <2>2. req'[w].at = "save"
        BY <2>1, <1>t DEF Request
    <2>3. KnowsWell(w)'
        BY <2>2 DEF KnowsWell
    <2>4. Live(w) /\ row' = row
        BY <1>8 DEF Generates, Live
    <2> QED
        BY <2>1, <2>3, <2>4, <1>2
<1>9. ASSUME NEW w \in Requests, GeneratesNothing(w) \/ LosesRun(w) \/ SavesResume(w)
      PROVE  KnowledgeHolds'
    <2>1. PICK s \in {"release", "record", "keep"} : req' = [req EXCEPT ![w].at = s]
        BY <1>9 DEF GeneratesNothing, LosesRun, SavesResume
    <2>2. req' = [req EXCEPT ![w] = [req[w] EXCEPT !.at = s]]
        BY <2>1, <1>t
    <2>3. req'[w].at = s
        BY <2>1, <1>t DEF Request
    <2>4. KnowsWell(w)'
        BY <2>3 DEF KnowsWell
    <2>5. Live(w) /\ row' = row
        BY <1>9 DEF GeneratesNothing, LosesRun, SavesResume, Live
    <2> QED
        BY <2>2, <2>4, <2>5, <1>2
<1>10. ASSUME NEW w \in Requests,
              KeepsResult(w) \/ RecordsSaved(w) \/ Releases(w) \/ Crashes(w)
       PROVE  KnowledgeHolds'
    <2>1. Live(w) /\ req' = [req EXCEPT ![w] = Idle]
        BY <1>10 DEF KeepsResult, RecordsSaved, Releases, Crashes, Live
    <2>2. KnowsWell(w)'
        BY <2>1, <1>t DEF KnowsWell, Idle
    <2>3. row'.status # "none"
        BY <1>10, <1>t, <2>1, LiveRuns
        DEF KeepsResult, RecordsSaved, Releases, Crashes, Writes, Row
    <2> QED
        BY <2>1, <2>2, <2>3, <1>1, OthersAreIdle DEF UnusedIsUnpaid
<1>11. CASE Tick
    <2>1. row'.status = row.status /\ row'.pending = row.pending /\ row.status # "none"
        BY <1>11, <1>t DEF Tick, Row
    <2>2. resumes' = resumes /\ charges' = charges /\ purges' = purges
        BY <1>11 DEF Tick
    <2>3. ASSUME NEW w \in Requests PROVE KnowsWell(w)'
        <3>1. req'[w] = Aged(req[w]) /\ req[w] \in Request
            BY <1>11, <1>t DEF Tick
        <3>2. \/ req'[w].at = "idle"
              \/ /\ req'[w].at = req[w].at /\ req'[w].look = req[w].look
                 /\ req'[w].paid = req[w].paid /\ req'[w].unread = req[w].unread
            BY <3>1, IdleFits DEF Aged, Request
        <3>3. KnowsWell(w)
            BY DEF KnowledgeHolds
        <3> QED
            BY <2>1, <2>2, <3>2, <3>3 DEF KnowsWell
    <2> QED
        BY <2>1, <2>3 DEF KnowledgeHolds, UnusedIsUnpaid
<1>12. CASE Purges
    <2>1. \A v \in Requests : req'[v].at = "idle"
        BY <1>12, ClaimableIsFree DEF Purges, Live
    <2>2. purges' # 0
        BY <1>12, <1>t DEF Purges
    <2> QED
        BY <2>1, <2>2 DEF KnowledgeHolds, UnusedIsUnpaid, KnowsWell
<1>13. CASE UNCHANGED vars
    BY <1>13 DEF vars, KnowledgeHolds, UnusedIsUnpaid, KnowsWell
<1> QED
    BY <1>3, <1>4, <1>5, <1>6, <1>7, <1>8, <1>9, <1>10, <1>11, <1>12, <1>13
    DEF Next, Claims, Steps

(* The generator never runs over kept work: not while a readable result    *)
(* waits on the row, not after a look that found no resume has become      *)
(* untrue, and on a key never purged the first claim follows no run.       *)
THEOREM KeptWorkIsUsed == Spec => RunsOnlyWhenNothingIsKept
<1> DEFINE OnlyThen ==
       \A w \in Requests : Generates(w) \/ LosesRun(w) =>
          /\ row.pending => req[w].unread
          /\ req[w].look = "none" => resumes = 0
          /\ req[w].look = "first" /\ purges = 0 => charges = 0
<1>1. KnowledgeHolds => OnlyThen
    BY DEF KnowledgeHolds, KnowsWell, Generates, LosesRun
<1>2. Alone /\ KnowledgeHolds /\ [Next]_vars => [OnlyThen]_vars
    BY <1>1
<1>3. Init => Alone /\ KnowledgeHolds
    BY AloneInit, KnowledgeInit
<1>4. Alone /\ KnowledgeHolds /\ [Next]_vars => (Alone /\ KnowledgeHolds)'
    BY AloneStep, KnowledgeStep
<1> QED
    BY <1>2, <1>3, <1>4, PTL DEF Spec, RunsOnlyWhenNothingIsKept

-----------------------------------------------------------------------------
(***************************************************************************)
(* The claim row implements the job a person is promised.                  *)
(***************************************************************************)
\* Behind every result is a run, and behind every record a resume.
Backed(w) ==
    /\ req[w].paid => charges > 0
    /\ req[w].at \in {"save", "keep"} => req[w].paid
    /\ req[w].at = "record" => resumes > 0
Grounded == (row.pending => charges > 0) /\ \A w \in Requests : Backed(w)

\* A request at a stage past its claim has a hand on the job.
LEMMA HandsOf ==
    ASSUME TypeOK, NEW w \in Requests
    PROVE  /\ Hands[w] = Hand(req[w])
           /\ Hands[w] = "none" <=> ~Live(w)
BY DEF Hands, Hand, Live

\* A step of one request moves one hand.
LEMMA OneHandMoves ==
    ASSUME TypeOK, NEW w \in Requests, NEW q, req' = [req EXCEPT ![w] = q]
    PROVE  Hands' = [Hands EXCEPT ![w] = Hand(q)]
BY DEF TypeOK, Hands

\* A step of one request keeps everyone backed if it is backed itself.
LEMMA StepOfOneKeepsBacking ==
    ASSUME TypeOK, Grounded, NEW w \in Requests, NEW q, req' = [req EXCEPT ![w] = q],
           charges' \in {charges, charges + 1}, resumes' \in {resumes, resumes + 1},
           row'.pending => charges' > 0, q.paid => charges' > 0,
           q.at \in {"save", "keep"} => q.paid, q.at = "record" => resumes' > 0
    PROVE  Grounded'
<1>1. req'[w] = q /\ \A v \in Requests : v # w => req'[v] = req[v]
    BY DEF TypeOK
<1>2. ASSUME NEW v \in Requests PROVE Backed(v)'
    BY <1>1 DEF TypeOK, Grounded, Backed
<1> QED
    BY <1>2 DEF Grounded

LEMMA GroundedInit == Init => Grounded
BY DEF Init, Grounded, Backed, NoRow, Idle

\* Every step is a step of the job, or none of its business, and stays backed.
LEMMA JobStep ==
    Alone /\ KnowledgeHolds /\ Grounded /\ [Next]_vars
        => Grounded' /\ [Job!Next]_(Job!jobVars)
<1> SUFFICES ASSUME Alone, KnowledgeHolds, Grounded, [Next]_vars
             PROVE  Grounded' /\ [Job!Next]_(Job!jobVars)
    OBVIOUS
<1> USE DEF Goes, Ends
<1>t. /\ TypeOK /\ row \in Row /\ req \in [Requests -> Request]
      /\ charges \in Nat /\ resumes \in Nat
    BY DEF Alone, TypeOK
<1>i. Idle.at = "idle" /\ ~Idle.paid /\ Hand(Idle) = "none"
    BY DEF Idle, Hand
\* Whoever takes the claim finds everybody's hands off the job.
<1>1. ASSUME NEW w \in Requests, \A v \in Requests : ~Live(v), row.status # "saved",
             NEW q, req' = [req EXCEPT ![w] = q], q.at \in {"application", "find"},
             q.paid => charges > 0, row'.status = "running", row'.pending => charges > 0,
             charges' = charges, resumes' = resumes
      PROVE  Grounded' /\ Job!Take(w)
    <2>1. Grounded'
        BY <1>1, <1>t, StepOfOneKeepsBacking
    <2>2. Hands' = [Hands EXCEPT ![w] = Hand(q)]
        BY <1>1, <1>t, OneHandMoves
    <2>3. Hand(q) = IF q.paid THEN "result" ELSE "empty"
        BY <1>1 DEF Hand
    <2>4. \A v \in Requests : Hands[v] = "none"
        BY <1>1, <1>t, HandsOf
    <2> QED
        BY <1>1, <2>1, <2>2, <2>3, <2>4, <1>t DEF Job!Take, Job!Holds
<1>2. ASSUME NEW w \in Requests, ClaimsNew(w) PROVE Grounded' /\ Job!Take(w)
    <2>1. \A v \in Requests : ~Live(v)
        BY <1>2, ClaimableIsFree DEF ClaimsNew
    <2>2. req[w] = Idle
        BY <2>1 DEF Alone, IdleIsBlank
    <2> DEFINE q == [req[w] EXCEPT !.at = "application"]
    <2>3. req' = [req EXCEPT ![w] = q]
        BY <1>2, <1>t DEF ClaimsNew
    <2>4. q.at = "application" /\ ~q.paid
        BY <2>2 DEF Idle
    <2>5. /\ row.status = "none" /\ charges' = charges /\ resumes' = resumes
          /\ row'.status = "running" /\ ~row'.pending
        BY <1>2, FirstRowFits DEF ClaimsNew
    <2> HIDE DEF q
    <2> QED
        BY <2>1, <2>3, <2>4, <2>5, <1>1
<1>3. ASSUME NEW w \in Requests, TakesOver(w) PROVE Grounded' /\ Job!Take(w)
    <2>1. \A v \in Requests : ~Live(v)
        BY <1>3, ClaimableIsFree DEF TakesOver
    <2>2. req[w] = Idle
        BY <2>1 DEF Alone, IdleIsBlank
    <2>3. /\ row.status # "saved" /\ charges' = charges /\ resumes' = resumes
          /\ row'.status = "running" /\ row'.pending = row.pending
          /\ row.pending => charges > 0
        BY <1>3, <1>t, TakenOverRow DEF TakesOver, Claimable, Grounded
    <2>4. PICK q : /\ req' = [req EXCEPT ![w] = q] /\ q.at \in {"application", "find"}
                   /\ q.paid => row.pending
        <3>1. CASE row.pending /\ req' = [req EXCEPT ![w].at = "application", ![w].paid = TRUE]
            <4> DEFINE q == [req[w] EXCEPT !.at = "application", !.paid = TRUE]
            <4>1. req' = [req EXCEPT ![w] = q] /\ q.at = "application"
                BY <3>1, <1>t, <2>2 DEF Idle
            <4> QED
                BY <3>1, <4>1
        <3>2. CASE req' = [req EXCEPT ![w].at = "find", ![w].unread = TRUE]
            <4> DEFINE q == [req[w] EXCEPT !.at = "find", !.unread = TRUE]
            <4>1. req' = [req EXCEPT ![w] = q] /\ q.at = "find" /\ ~q.paid
                BY <3>2, <1>t, <2>2 DEF Idle
            <4> QED
                BY <4>1
        <3>3. CASE req' = [req EXCEPT ![w].at = "find"]
            <4> DEFINE q == [req[w] EXCEPT !.at = "find"]
            <4>1. req' = [req EXCEPT ![w] = q] /\ q.at = "find" /\ ~q.paid
                BY <3>3, <1>t, <2>2 DEF Idle
            <4> QED
                BY <4>1
        <3> QED
            BY <1>3, <3>1, <3>2, <3>3 DEF TakesOver
    <2> QED
        BY <2>1, <2>3, <2>4, <1>1
\* A step of the one at work that changes its stage alone.
<1>4. ASSUME NEW w \in Requests, NEW s \in {"save", "generate", "release", "record", "keep"},
             req' = [req EXCEPT ![w].at = s], row' = row, charges' = charges,
             resumes' \in {resumes, resumes + 1},
             s \in {"save", "keep"} => req[w].paid, s = "record" => resumes' > 0
      PROVE  /\ Grounded'
             /\ Hands' = [Hands EXCEPT ![w] = IF s \in {"record", "keep"} THEN "spent" ELSE
                                              IF req[w].paid THEN "result" ELSE "empty"]
    <2> DEFINE q == [req[w] EXCEPT !.at = s]
    <2>1. req' = [req EXCEPT ![w] = q] /\ q.at = s /\ q.paid = req[w].paid
        BY <1>4, <1>t DEF Request
    <2>2. (row'.pending => charges' > 0) /\ (q.paid => charges' > 0)
        BY <1>4, <2>1 DEF Grounded, Backed
    <2>3. Hand(q) = IF s \in {"record", "keep"} THEN "spent" ELSE
                    IF req[w].paid THEN "result" ELSE "empty"
        BY <2>1 DEF Hand
    <2> HIDE DEF q
    <2>4. q.at \in {"save", "keep"} => q.paid
        BY <1>4, <2>1
    <2>5. q.at = "record" => resumes' > 0
        BY <1>4, <2>1
    <2>6. Grounded'
        BY <1>4, <1>t, <2>1, <2>2, <2>4, <2>5, StepOfOneKeepsBacking
    <2>7. Hands' = [Hands EXCEPT ![w] = Hand(q)]
        BY <1>t, <2>1, OneHandMoves
    <2> QED
        BY <2>3, <2>6, <2>7
<1>5. ASSUME NEW w \in Requests PROVE Hands[w] = Hand(req[w]) /\ Hands = [Hands EXCEPT ![w] = Hand(req[w])]
    BY DEF Hands
<1>6. ASSUME NEW w \in Requests, Finds(w)
      PROVE  Grounded' /\ (Job!Find(w) \/ UNCHANGED Job!jobVars)
    <2>1. /\ row' = row /\ charges' = charges /\ resumes' = resumes
          /\ ~req[w].paid /\ req[w] \in Request
        BY <1>6, <1>t DEF Finds, KnowledgeHolds, KnowsWell
    <2>2. Hands[w] = "empty"
        BY <1>6, <2>1, <1>5 DEF Finds, Hand
    <2>3. CASE resumes > 0 /\ Goes(w, "record")
        BY <2>1, <2>2, <2>3, <1>4 DEF Job!Find, Job!Holds
    <2>4. CASE \E l : req' = [req EXCEPT ![w].at = "application", ![w].look = l]
        <3> PICK l : req' = [req EXCEPT ![w].at = "application", ![w].look = l]
            BY <2>4
        <3> DEFINE q == [req[w] EXCEPT !.at = "application", !.look = l]
        <3>1. req' = [req EXCEPT ![w] = q] /\ q.at = "application" /\ ~q.paid
            BY <2>1, <1>t DEF Request
        <3>2. Hand(q) = "empty"
            BY <3>1 DEF Hand
        <3> HIDE DEF q
        <3>3. Grounded'
            BY <2>1, <3>1, <1>t, StepOfOneKeepsBacking DEF Grounded
        <3>4. Hands' = [Hands EXCEPT ![w] = Hand(q)]
            BY <3>1, <1>t, OneHandMoves
        <3>5. Hands' = Hands
            BY <2>2, <3>2, <3>4, <1>5
        <3> QED
            BY <2>1, <3>3, <3>5 DEF Job!jobVars
    <2> QED
        BY <1>6, <2>3, <2>4 DEF Finds
<1>7. ASSUME NEW w \in Requests, SavesApplication(w) \/ GeneratesNothing(w)
      PROVE  Grounded' /\ UNCHANGED Job!jobVars
    <2>1. row' = row /\ charges' = charges /\ resumes' = resumes
        BY <1>7 DEF SavesApplication, GeneratesNothing
    <2>2. PICK s \in {"save", "generate", "release"} :
             req' = [req EXCEPT ![w].at = s] /\ (s = "save" => req[w].paid)
        BY <1>7 DEF SavesApplication, GeneratesNothing
    <2>3. Hands[w] = IF req[w].paid THEN "result" ELSE "empty"
        BY <1>7, <1>5 DEF SavesApplication, GeneratesNothing, Hand
    <2>4. Grounded' /\ Hands' = [Hands EXCEPT ![w] = Hands[w]]
        BY <2>1, <2>2, <2>3, <1>4
    <2>5. Hands' = Hands
        BY <2>4, <1>5
    <2> QED
        BY <2>1, <2>4, <2>5 DEF Job!jobVars
<1>8. ASSUME NEW w \in Requests, Generates(w) PROVE Grounded' /\ Job!Run(w)
    <2> DEFINE q == [req[w] EXCEPT !.at = "save", !.paid = TRUE]
    <2>1. req' = [req EXCEPT ![w] = q] /\ q.at = "save" /\ q.paid
        BY <1>8, <1>t DEF Generates, Request
    <2>2. row' = row /\ charges' = charges + 1 /\ resumes' = resumes /\ ~req[w].paid
        BY <1>8 DEF Generates, KnowledgeHolds, KnowsWell
    <2>3. Hand(q) = "result" /\ Hands[w] = "empty"
        BY <1>8, <2>1, <2>2, <1>5 DEF Hand, Generates
    <2> HIDE DEF q
    <2>4. charges' > 0 /\ q.at # "record"
        BY <2>1, <2>2, <1>t
    <2>5. Grounded'
        BY <2>1, <2>2, <2>4, <1>t, StepOfOneKeepsBacking
    <2>6. Hands' = [Hands EXCEPT ![w] = Hand(q)]
        BY <2>1, <1>t, OneHandMoves
    <2> QED
        BY <2>2, <2>3, <2>5, <2>6 DEF Job!Run, Job!Holds
<1>17. ASSUME NEW w \in Requests, LosesRun(w) PROVE Grounded' /\ Job!Waste(w)
    <2> DEFINE q == [req[w] EXCEPT !.at = "release"]
    <2>1. req' = [req EXCEPT ![w] = q] /\ q.at = "release" /\ q.paid = req[w].paid
        BY <1>17, <1>t DEF LosesRun, Request
    <2>2. row' = row /\ charges' = charges + 1 /\ resumes' = resumes /\ ~req[w].paid
        BY <1>17 DEF LosesRun, KnowledgeHolds, KnowsWell
    <2>3. Hand(q) = "empty" /\ Hands[w] = "empty"
        BY <1>17, <2>1, <2>2, <1>5 DEF Hand, LosesRun
    <2> HIDE DEF q
    <2>4. charges' > 0 /\ q.at \notin {"record", "save", "keep"}
        BY <2>1, <2>2, <1>t
    <2>5. Grounded'
        BY <2>1, <2>2, <2>4, <1>t, StepOfOneKeepsBacking
    <2>6. Hands' = [Hands EXCEPT ![w] = Hand(q)]
        BY <2>1, <1>t, OneHandMoves
    <2> QED
        BY <2>2, <2>3, <2>5, <2>6, <1>5 DEF Job!Waste
<1>9. ASSUME NEW w \in Requests, SavesResume(w) PROVE Grounded' /\ Job!Store(w)
    <2>1. /\ row' = row /\ charges' = charges /\ resumes' \in {resumes, resumes + 1}
          /\ req[w].paid
        BY <1>9 DEF SavesResume, Grounded, Backed
    <2>2. Hands[w] = "result"
        BY <1>9, <2>1, <1>5 DEF SavesResume, Hand
    <2>3. PICK s \in {"record", "keep"} :
             req' = [req EXCEPT ![w].at = s] /\ (s = "record" => resumes' > 0)
        BY <1>9, <1>t DEF SavesResume
    <2> QED
        BY <2>1, <2>2, <2>3, <1>4 DEF Job!Store, Job!Holds
\* Whoever ends lets go, and only a recorded save closes the job.
<1>10. ASSUME NEW w \in Requests, Live(w), Ends(w), charges' = charges, resumes' = resumes,
              row'.pending => charges > 0
       PROVE  /\ Grounded' /\ Job!Holds(w, "none") /\ Hands[w] # "none"
              /\ row.status = "running"
    <2>1. Hands' = [Hands EXCEPT ![w] = "none"]
        BY <1>10, <1>t, <1>i, OneHandMoves
    <2>2. Grounded'
        BY <1>10, <1>t, <1>i, StepOfOneKeepsBacking
    <2> QED
        BY <1>10, <1>t, <2>1, <2>2, HandsOf, LiveRuns DEF Job!Holds
<1>11. ASSUME NEW w \in Requests, KeepsResult(w) \/ Releases(w) \/ Crashes(w)
       PROVE  Grounded' /\ Job!LetGo(w)
    <2>1. /\ Live(w) /\ Ends(w) /\ charges' = charges /\ resumes' = resumes
        BY <1>11 DEF KeepsResult, Releases, Crashes, Live
    <2>2. row'.pending => charges > 0
        BY <1>11, <1>t DEF KeepsResult, Releases, Crashes, Writes, Row, Grounded, Backed
    <2>3. row'.status # "saved"
        BY <1>11, <1>t, <2>1, LiveRuns DEF KeepsResult, Releases, Crashes, Writes, Row
    <2> QED
        BY <2>1, <2>2, <2>3, <1>10 DEF Job!LetGo
<1>12. ASSUME NEW w \in Requests, RecordsSaved(w)
       PROVE  Grounded' /\ (Job!Close(w) \/ Job!LetGo(w))
    <2>1. /\ Live(w) /\ Ends(w) /\ charges' = charges /\ resumes' = resumes /\ resumes > 0
          /\ req[w].at = "record"
        BY <1>12 DEF RecordsSaved, Live, Grounded, Backed
    <2>2. row'.pending => charges > 0
        BY <1>12, <1>t DEF RecordsSaved, Writes, Row, Grounded
    <2>3. Hands[w] = "spent"
        BY <2>1, <1>5 DEF Hand
    <2>4. row' = row \/ row'.status = "saved"
        BY <1>12, <1>t DEF RecordsSaved, Writes, Row
    <2> QED
        BY <2>1, <2>2, <2>3, <2>4, <1>10 DEF Job!LetGo, Job!Close
\* What nobody at work does leaves every hand where it is, or takes one off.
<1>13. ASSUME NEW w \in Requests, LosesClaim(w) PROVE Grounded' /\ UNCHANGED Job!jobVars
    <2>1. /\ req' = req /\ charges' = charges /\ resumes' = resumes
          /\ row'.status # "saved" /\ row.status # "saved"
          /\ row'.pending => row.pending
        BY <1>13, <1>t, TakenOverRow, FirstRowFits DEF LosesClaim, Claimable
    <2> QED
        BY <2>1 DEF Grounded, Backed, Job!jobVars, Hands
<1>14. CASE Purges
    <2>1. /\ req' = req /\ charges' = charges /\ resumes' = resumes
          /\ row'.status # "saved" /\ row.status # "saved" /\ ~row'.pending
        BY <1>14 DEF Purges, NoRow
    <2> QED
        BY <2>1 DEF Grounded, Backed, Job!jobVars, Hands
<1>15. CASE Tick
    <2>1. /\ charges' = charges /\ resumes' = resumes
          /\ row'.status = row.status /\ row'.pending = row.pending
        BY <1>15, <1>t DEF Tick, Row
    <2>2. ASSUME NEW w \in Requests
          PROVE  \/ req'[w] = Idle
                 \/ req'[w].at = req[w].at /\ req'[w].paid = req[w].paid
        BY <1>15, <1>t DEF Tick, Aged, Request
    <2>3. Grounded'
        BY <2>1, <2>2, <1>i DEF Grounded, Backed
    <2>4. \A w \in Requests : Hand(req'[w]) \in {Hand(req[w]), "none"}
        BY <2>2, <1>i DEF Hand
    <2>5. CASE \E w \in Requests : Live(w) /\ Hand(req'[w]) = "none"
        <3> PICK w \in Requests : Live(w) /\ Hand(req'[w]) = "none"
            BY <2>5
        <3>1. ASSUME NEW v \in Requests, v # w PROVE Hands[v] = "none"
            BY <3>1, <1>t, OthersAreIdle, HandsOf
        <3>2. \A v \in Requests : Hands'[v] = IF v = w THEN "none" ELSE Hands[v]
            BY <2>4, <3>1, <1>5 DEF Hands
        <3>3. Hands' = [Hands EXCEPT ![w] = "none"]
            BY <3>2 DEF Hands
        <3>4. Job!LetGo(w)
            BY <2>1, <3>3, <1>t, HandsOf DEF Job!LetGo, Job!Holds
        <3> QED
            BY <2>3, <3>4 DEF Job!Next
    <2>6. CASE \A w \in Requests : Live(w) => Hand(req'[w]) # "none"
        <3>1. \A w \in Requests : Hand(req'[w]) = Hand(req[w])
            BY <2>4, <2>6, <1>t, HandsOf
        <3>2. Hands' = Hands
            BY <3>1 DEF Hands
        <3> QED
            BY <2>1, <2>3, <3>2 DEF Job!jobVars
    <2> QED
        BY <2>5, <2>6
<1>16. CASE UNCHANGED vars
    BY <1>16 DEF vars, Grounded, Backed, Job!jobVars, Hands
<1> QED
    BY <1>2, <1>3, <1>6, <1>7, <1>8, <1>9, <1>11, <1>12, <1>13, <1>14, <1>15, <1>16, <1>17
    DEF Next, Claims, Steps, Job!Next

(* The claim row, its take-overs, releases and purges, and the requests    *)
(* that race for it, implement the job a person is promised: one hand on   *)
(* it at a time, nothing stored that was not run for, and saved for good.  *)
THEOREM ImplementsJob == Spec => JobSpec
<1> DEFINE Inv == Alone /\ KnowledgeHolds /\ Grounded
<1>1. Init => Inv /\ Job!Init
    <2> SUFFICES ASSUME Init PROVE Job!Init
        BY AloneInit, KnowledgeInit, GroundedInit
    <2> QED
        BY DEF Init, NoRow, Idle, Job!Init, Hands, Hand
<1>2. Inv /\ [Next]_vars => Inv'
    BY AloneStep, KnowledgeStep, JobStep
<1>3. Inv /\ [Next]_vars => [Job!Next]_(Job!jobVars)
    BY JobStep
<1> QED
    BY <1>1, <1>2, <1>3, PTL DEF Spec, JobSpec, Job!Spec

-----------------------------------------------------------------------------
(***************************************************************************)
(* Where a second resume of one job can come from.                         *)
(***************************************************************************)
\* A request that may yet save, on a key never purged, whose look for a
\* resume did not fail, and that took no result off the row.
SavesFirst(w) ==
    /\ req[w].at \in {"application", "generate", "save"} /\ purges = 0
    /\ req[w].look # "failed" /\ (req[w].look = "first" => ~row.pending)
Unsaved ==
    /\ row.status = "none" /\ purges = 0 => resumes = 0
    /\ \A w \in Requests : SavesFirst(w) => resumes = 0

\* A resume is saved beside another of its job only by a request whose look
\* for a landed resume failed (.catch(() => null), tailor-batch-server.ts:128),
\* or after a purge of the row, or while a result kept on the row waits.
SecondResumeHasACause ==
    [][\A w \in Requests : SavesResume(w) /\ resumes' > resumes =>
          resumes = 0 \/ req[w].look = "failed" \/ purges > 0 \/ row.pending]_vars

LEMMA UnsavedStep == Alone /\ Unsaved /\ [Next]_vars => Unsaved'
<1> SUFFICES ASSUME Alone, Unsaved, [Next]_vars PROVE Unsaved'
    OBVIOUS
<1> USE DEF Goes, Ends
<1>t. /\ row \in Row /\ req \in [Requests -> Request]
      /\ resumes \in Nat /\ purges \in Nat
    BY DEF Alone, TypeOK
<1>1. ASSUME NEW w \in Requests, \A v \in Requests : v # w => ~Live(v),
             NEW q, req' = [req EXCEPT ![w] = q], row'.status # "none", SavesFirst(w)' => resumes' = 0
      PROVE  Unsaved'
    <2>1. ASSUME NEW v \in Requests, v # w PROVE ~SavesFirst(v)'
        BY <1>1, <1>t, <2>1 DEF Live, SavesFirst
    <2> QED
        BY <1>1, <2>1 DEF Unsaved
\* A step of the one at work that changes its stage and look alone.
<1>2. ASSUME NEW w \in Requests, Live(w), NEW q, req' = [req EXCEPT ![w] = q],
             row' = row, SavesFirst(w)' => resumes' = 0
      PROVE  Unsaved'
    BY <1>1, <1>2, OthersAreIdle, LiveRuns
<1>3. ASSUME NEW w \in Requests, ClaimsNew(w) PROVE Unsaved'
    <2>1. \A v \in Requests : ~Live(v)
        BY <1>3, ClaimableIsFree DEF ClaimsNew
    <2>2. req' = [req EXCEPT ![w] = [req[w] EXCEPT !.at = "application"]]
        BY <1>3, <1>t DEF ClaimsNew
    <2>3. row'.status # "none" /\ (purges' = 0 => resumes' = 0)
        BY <1>3, FirstRowFits DEF ClaimsNew, Unsaved
    <2> QED
        BY <2>1, <2>2, <2>3, <1>1 DEF SavesFirst
<1>4. ASSUME NEW w \in Requests, TakesOver(w) PROVE Unsaved'
    <2>1. \A v \in Requests : ~Live(v)
        BY <1>4, ClaimableIsFree DEF TakesOver
    <2>2. req[w] = Idle
        BY <2>1 DEF Alone, IdleIsBlank
    <2>3. row'.status # "none" /\ row'.pending = row.pending
        BY <1>4, <1>t, TakenOverRow DEF TakesOver
    <2>4. CASE row.pending /\ req' = [req EXCEPT ![w].at = "application", ![w].paid = TRUE]
        <3> DEFINE q == [req[w] EXCEPT !.at = "application", !.paid = TRUE]
        <3>1. req' = [req EXCEPT ![w] = q] /\ q.look = "first"
            BY <2>2, <2>4, <1>t DEF Idle
        <3> HIDE DEF q
        <3>2. ~SavesFirst(w)'
            BY <2>3, <2>4, <3>1, <1>t DEF SavesFirst
        <3> QED
            BY <2>1, <2>3, <3>1, <3>2, <1>1
    <2>5. CASE req' = [req EXCEPT ![w].at = "find", ![w].unread = TRUE]
        <3> DEFINE q == [req[w] EXCEPT !.at = "find", !.unread = TRUE]
        <3>1. req' = [req EXCEPT ![w] = q] /\ q.at = "find"
            BY <2>2, <2>5, <1>t DEF Idle
        <3> HIDE DEF q
        <3>2. ~SavesFirst(w)'
            BY <3>1, <1>t DEF SavesFirst
        <3> QED
            BY <2>1, <2>3, <3>1, <3>2, <1>1
    <2>6. CASE req' = [req EXCEPT ![w].at = "find"]
        <3>1. req' = [req EXCEPT ![w] = [req[w] EXCEPT !.at = "find"]]
            BY <2>6, <1>t
        <3>2. ~SavesFirst(w)'
            BY <2>2, <3>1, <1>t DEF SavesFirst, Idle
        <3> QED
            BY <2>1, <2>3, <3>1, <3>2, <1>1
    <2> QED
        BY <1>4, <2>4, <2>5, <2>6 DEF TakesOver
<1>5. ASSUME NEW w \in Requests, LosesClaim(w) PROVE Unsaved'
    <2>1. row'.status = "running" /\ req' = req
        BY <1>5, <1>t, TakenOverRow, FirstRowFits DEF LosesClaim
    <2>2. \A v \in Requests : req'[v].at = "idle"
        BY <1>5, <2>1, ClaimableIsFree DEF LosesClaim, Live
    <2> QED
        BY <2>1, <2>2 DEF Unsaved, SavesFirst
<1>6. ASSUME NEW w \in Requests, Finds(w) PROVE Unsaved'
    <2>1. Live(w) /\ row' = row /\ resumes' = resumes
        BY <1>6 DEF Finds, Live
    <2>2. CASE Goes(w, "record")
        <3>1. req' = [req EXCEPT ![w] = [req[w] EXCEPT !.at = "record"]]
            BY <2>2, <1>t
        <3>2. ~SavesFirst(w)'
            BY <3>1, <1>t DEF SavesFirst, Request
        <3> QED
            BY <2>1, <3>1, <3>2, <1>2
    <2>3. ASSUME NEW l \in {"none", "failed"}, l = "none" => resumes = 0,
                 req' = [req EXCEPT ![w].at = "application", ![w].look = l]
          PROVE  Unsaved'
        <3> DEFINE q == [req[w] EXCEPT !.at = "application", !.look = l]
        <3>1. req' = [req EXCEPT ![w] = q] /\ q.look = l
            BY <2>3, <1>t DEF Request
        <3> HIDE DEF q
        <3>2. SavesFirst(w)' => resumes' = 0
            BY <2>1, <2>3, <3>1, <1>t DEF SavesFirst
        <3> QED
            BY <2>1, <3>1, <3>2, <1>2
    <2> QED
        BY <1>6, <2>2, <2>3 DEF Finds
<1>7. ASSUME NEW w \in Requests, SavesApplication(w) \/ Generates(w) PROVE Unsaved'
    <2>1. /\ Live(w) /\ row' = row /\ resumes' = resumes /\ purges' = purges
          /\ req[w].at \in {"application", "generate"}
        BY <1>7 DEF SavesApplication, Generates, Live
    <2>2. PICK q : req' = [req EXCEPT ![w] = q] /\ q.look = req[w].look
        <3>1. CASE Generates(w)
            <4> DEFINE q == [req[w] EXCEPT !.at = "save", !.paid = TRUE]
            <4>1. req' = [req EXCEPT ![w] = q] /\ q.look = req[w].look
                BY <3>1, <1>t DEF Generates, Request
            <4> QED
                BY <4>1
        <3>2. ASSUME NEW s, Goes(w, s) PROVE \E q : req' = [req EXCEPT ![w] = q] /\ q.look = req[w].look
            <4> DEFINE q == [req[w] EXCEPT !.at = s]
            <4>1. req' = [req EXCEPT ![w] = q] /\ q.look = req[w].look
                BY <3>2, <1>t DEF Request
            <4> QED
                BY <4>1
        <3> QED
            BY <1>7, <3>1, <3>2 DEF SavesApplication
    <2>3. SavesFirst(w)' => SavesFirst(w)
        BY <2>1, <2>2, <1>t DEF SavesFirst
    <2> QED
        BY <2>1, <2>2, <2>3, <1>2 DEF Unsaved
<1>8. ASSUME NEW w \in Requests, GeneratesNothing(w) \/ LosesRun(w) \/ SavesResume(w)
      PROVE  Unsaved'
    <2>1. PICK s \in {"release", "record", "keep"} : req' = [req EXCEPT ![w].at = s]
        BY <1>8 DEF GeneratesNothing, LosesRun, SavesResume
    <2>2. req' = [req EXCEPT ![w] = [req[w] EXCEPT !.at = s]]
        BY <2>1, <1>t
    <2>3. ~SavesFirst(w)'
        BY <2>2, <1>t DEF SavesFirst, Request
    <2> QED
        BY <1>8, <2>2, <2>3, <1>2 DEF GeneratesNothing, LosesRun, SavesResume, Live
<1>9. ASSUME NEW w \in Requests,
             KeepsResult(w) \/ RecordsSaved(w) \/ Releases(w) \/ Crashes(w)
      PROVE  Unsaved'
    <2>1. Live(w) /\ req' = [req EXCEPT ![w] = Idle]
        BY <1>9 DEF KeepsResult, RecordsSaved, Releases, Crashes, Live
    <2>2. ~SavesFirst(w)'
        BY <2>1, <1>t DEF SavesFirst, Idle
    <2>3. row'.status # "none"
        BY <1>9, <1>t, <2>1, LiveRuns
        DEF KeepsResult, RecordsSaved, Releases, Crashes, Writes, Row
    <2> QED
        BY <2>1, <2>2, <2>3, <1>1, OthersAreIdle
<1>10. CASE Tick
    <2>1. /\ row'.status = row.status /\ row'.pending = row.pending
          /\ resumes' = resumes /\ purges' = purges
        BY <1>10, <1>t DEF Tick, Row
    <2>2. ASSUME NEW w \in Requests
          PROVE  \/ req'[w].at = "idle"
                 \/ req'[w].at = req[w].at /\ req'[w].look = req[w].look
        BY <1>10, <1>t, IdleFits DEF Tick, Aged, Request
    <2> QED
        BY <2>1, <2>2 DEF Unsaved, SavesFirst
<1>11. CASE Purges
    <2>1. purges' # 0
        BY <1>11, <1>t DEF Purges
    <2> QED
        BY <2>1 DEF Unsaved, SavesFirst
<1>12. CASE UNCHANGED vars
    BY <1>12 DEF vars, Unsaved, SavesFirst
<1> QED
    BY <1>3, <1>4, <1>5, <1>6, <1>7, <1>8, <1>9, <1>10, <1>11, <1>12 DEF Next, Claims, Steps

(* What is true of "if its resume did land, finish the record, run         *)
(* nothing" (tailor-batch-server.ts:126): a resume is saved beside another *)
(* one only after a look that failed, after a purge, or while a kept       *)
(* result still waits on the row, which a take-over uses without looking.  *)
THEOREM OnlyKeptResultsSaveTwice == Spec => SecondResumeHasACause
<1>1. Alone /\ Unsaved /\ [Next]_vars =>
         [\A w \in Requests : SavesResume(w) /\ resumes' > resumes =>
            resumes = 0 \/ req[w].look = "failed" \/ purges > 0 \/ row.pending]_vars
    <2>1. ASSUME Alone, Unsaved, NEW w \in Requests, SavesResume(w)
          PROVE  resumes = 0 \/ req[w].look = "failed" \/ purges > 0 \/ row.pending
        BY <2>1 DEF Unsaved, SavesFirst, SavesResume, Alone, TypeOK
    <2> QED
        BY <2>1
<1>2. Init => Unsaved
    BY DEF Init, Unsaved, SavesFirst, Idle
<1> QED
    BY <1>1, <1>2, AloneInit, AloneStep, UnsavedStep, PTL DEF Spec, SecondResumeHasACause

=============================================================================
