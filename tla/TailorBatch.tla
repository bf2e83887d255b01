---------------------------- MODULE TailorBatch ----------------------------
(***************************************************************************)
(* One job of a tailoring batch: the claim row of its key                  *)
(* (packages/core/migrations/094_tailor_batch.sql), the requests that race *)
(* for it from several tabs and retries, and what they leave behind.       *)
(*                                                                         *)
(* A request takes the claim in one statement, then runs the steps of      *)
(* runBatchJob (apps/consumer/lib/tailor-batch-server.ts): one action per  *)
(* transaction or call.  The platform ends a request MaxDuration after it  *)
(* began; a claim older than StaleClaim may be taken over.  Keys share     *)
(* nothing, so one key stands for all of them.                             *)
(***************************************************************************)
EXTENDS Integers

CONSTANTS
    Requests,      \* tabs and retries that ask for this job
    MaxDuration,   \* maxDuration: the platform ends a request after it
    StaleClaim,    \* STALE_CLAIM: an older running claim may be taken over
    KeepDays,      \* purge_stale_tailor_claims: older unsaved rows go
    StartBudget,   \* GENERATOR_START_BUDGET_MS
    MaxAttempts,   \* where the attempts column stops counting (50)
    MaxFaults,     \* bound: failed calls, crashes, slow requests
    MaxPurges,     \* bound: purges
    CanLoseAnswer  \* may a call that worked be reported as failed?

ASSUME TimesAssumption ==
    /\ MaxDuration \in Nat /\ StaleClaim \in Nat /\ KeepDays \in Nat
    /\ StartBudget \in Nat
    /\ MaxDuration <= StaleClaim /\ StaleClaim <= KeepDays
ASSUME BoundsAssumption ==
    /\ MaxAttempts \in Nat \ {0, 1} /\ MaxFaults \in Nat /\ MaxPurges \in Nat
    /\ CanLoseAnswer \in BOOLEAN

VARIABLES
    row,       \* the claim row
    resumes,   \* resumes saved under this key
    charges,   \* runs of the generator that count against the allowance
    req,       \* what each request does next and holds in memory
    faults, purges
vars == <<row, resumes, charges, req, faults, purges>>

Stages == {"idle", "find", "application", "generate", "save", "keep", "record", "release"}
Row == [status : {"none", "running", "failed", "generated", "saved"},
        attempts : 0..MaxAttempts,
        pending : BOOLEAN,           \* a result waits on the row to be saved
        age : 0..KeepDays + 1]       \* since claimed_at
Request == [at : Stages,
            age : 0..MaxDuration,                  \* since the claim
            paid : BOOLEAN,                        \* it holds a generated result
            look : {"first", "none", "failed"},    \* what findSaved told it
            unread : BOOLEAN]                      \* it could not decrypt the row's result
NoRow == [status |-> "none", attempts |-> 0, pending |-> FALSE, age |-> 0]
Idle == [at |-> "idle", age |-> 0, paid |-> FALSE, look |-> "first", unread |-> FALSE]

Init ==
    /\ row = NoRow /\ resumes = 0 /\ charges = 0
    /\ req = [w \in Requests |-> Idle]
    /\ faults = 0 /\ purges = 0

Live(w) == req[w].at # "idle"
Fault == faults < MaxFaults /\ faults' = faults + 1
Goes(w, at) == req' = [req EXCEPT ![w].at = at]
Ends(w) == req' = [req EXCEPT ![w] = Idle]

-----------------------------------------------------------------------------
(***************************************************************************)
(* The claim: one statement.                                               *)
(***************************************************************************)
\* Mutated form: not older than, but as old as.
StaleTooSoon == row.age >= StaleClaim

Stale == row.age > StaleClaim

\* Mutated form: a running claim can be taken over at any age.
ClaimableAtAnyAge == row.status \in {"failed", "generated", "running"}

\* Mutated form: a saved job can be claimed again.
ClaimableUnlessRunning ==
    \/ row.status \in {"failed", "generated", "saved"}
    \/ row.status = "running" /\ Stale

\* Mutated form: nothing takes over a claim whose request is gone.
ClaimableNeverStale == row.status \in {"failed", "generated"}

Claimable ==
    \/ row.status \in {"failed", "generated"}
    \/ row.status = "running" /\ Stale

\* Mutated form: without LEAST.
TakenOverCounting ==
    [status |-> "running", attempts |-> row.attempts + 1, pending |-> row.pending, age |-> 0]

\* The row keeps the result that waits on it.
TakenOver ==
    [status |-> "running", pending |-> row.pending, age |-> 0,
     attempts |-> IF row.attempts < MaxAttempts THEN row.attempts + 1 ELSE MaxAttempts]

FirstRow == [status |-> "running", attempts |-> 1, pending |-> FALSE, age |-> 0]

ClaimsNew(w) ==
    /\ ~Live(w) /\ row.status = "none"
    /\ row' = FirstRow
    /\ Goes(w, "application")
    /\ UNCHANGED <<resumes, charges, faults, purges>>

\* Mutated form: the result on the row is not looked at.
TakesOverForgetful(w) ==
    /\ ~Live(w) /\ Claimable
    /\ row' = TakenOver
    /\ Goes(w, "find")
    /\ UNCHANGED <<resumes, charges, faults, purges>>

\* A result on the row is used; one that cannot be read is dropped.
TakesOver(w) ==
    /\ ~Live(w) /\ Claimable
    /\ row' = TakenOver
    /\ \/ /\ row.pending
          /\ req' = [req EXCEPT ![w].at = "application", ![w].paid = TRUE]
          /\ UNCHANGED faults
       \/ /\ row.pending /\ Fault
          /\ req' = [req EXCEPT ![w].at = "find", ![w].unread = TRUE]
       \/ /\ ~row.pending /\ Goes(w, "find")
          /\ UNCHANGED faults
    /\ UNCHANGED <<resumes, charges, purges>>

\* The claim is taken but its answer is lost: the request ends with an error
\* and nothing gives the claim back.
LosesClaim(w) ==
    /\ CanLoseAnswer /\ Fault
    /\ ~Live(w)
    /\ \/ row.status = "none" /\ row' = FirstRow
       \/ Claimable /\ row' = TakenOver
    /\ UNCHANGED <<resumes, charges, req, purges>>

-----------------------------------------------------------------------------
(***************************************************************************)
(* runBatchJob after the claim.                                            *)
(***************************************************************************)
\* findSaved: a resume that landed is recorded and nothing runs; a failed
\* look counts as none.
Finds(w) ==
    /\ req[w].at = "find"
    /\ \/ resumes > 0 /\ Goes(w, "record") /\ UNCHANGED faults
       \/ /\ resumes = 0 /\ UNCHANGED faults
          /\ req' = [req EXCEPT ![w].at = "application", ![w].look = "none"]
       \/ /\ Fault
          /\ req' = [req EXCEPT ![w].at = "application", ![w].look = "failed"]
    /\ UNCHANGED <<row, resumes, charges, purges>>

\* The job application row, before anything costs.
SavesApplication(w) ==
    /\ req[w].at = "application"
    /\ \/ Goes(w, IF req[w].paid THEN "save" ELSE "generate") /\ UNCHANGED faults
       \/ Fault /\ Goes(w, "release")
    /\ UNCHANGED <<row, resumes, charges, purges>>

Generates(w) ==
    /\ req[w].at = "generate" /\ req[w].age <= StartBudget
    /\ charges' = charges + 1
    /\ req' = [req EXCEPT ![w].at = "save", ![w].paid = TRUE]
    /\ UNCHANGED <<row, resumes, faults, purges>>

\* Out of time, or the generator refuses or fails: not counted.
GeneratesNothing(w) ==
    /\ req[w].at = "generate"
    /\ \/ req[w].age > StartBudget /\ UNCHANGED faults
       \/ Fault
    /\ Goes(w, "release")
    /\ UNCHANGED <<row, resumes, charges, purges>>

\* It ran and counted, and its answer is lost or has no resume in it.
LosesRun(w) ==
    /\ CanLoseAnswer /\ Fault
    /\ req[w].at = "generate" /\ req[w].age <= StartBudget
    /\ charges' = charges + 1
    /\ Goes(w, "release")
    /\ UNCHANGED <<row, resumes, purges>>

SavesResume(w) ==
    /\ req[w].at = "save"
    /\ \/ resumes' = resumes + 1 /\ Goes(w, "record") /\ UNCHANGED faults
       \/ Fault /\ UNCHANGED resumes /\ Goes(w, "keep")
       \/ CanLoseAnswer /\ Fault /\ resumes' = resumes + 1 /\ Goes(w, "keep")
    /\ UNCHANGED <<row, charges, purges>>

\* The three writes to the row: an UPDATE of a row that is gone does nothing.
Writes(r) == row' = IF row.status = "none" THEN row ELSE r

\* markGenerated has no guard on the status; it is the last thing the request does.
KeepsResult(w) ==
    /\ req[w].at = "keep"
    /\ \/ Writes([row EXCEPT !.status = "generated", !.pending = TRUE]) /\ UNCHANGED faults
       \/ Fault /\ UNCHANGED row
    /\ Ends(w)
    /\ UNCHANGED <<resumes, charges, purges>>

\* markSaved has none either, and its failure is not told to the person.
RecordsSaved(w) ==
    /\ req[w].at = "record"
    /\ \/ Writes([row EXCEPT !.status = "saved", !.pending = FALSE]) /\ UNCHANGED faults
       \/ Fault /\ UNCHANGED row
    /\ Ends(w)
    /\ UNCHANGED <<resumes, charges, purges>>

Releases(w) ==
    /\ req[w].at = "release"
    /\ \/ /\ row' = IF row.status = "running" THEN [row EXCEPT !.status = "failed"] ELSE row
          /\ UNCHANGED faults
       \/ Fault /\ UNCHANGED row
    /\ Ends(w)
    /\ UNCHANGED <<resumes, charges, purges>>

-----------------------------------------------------------------------------
(***************************************************************************)
(* Around the requests.                                                    *)
(***************************************************************************)
Crashes(w) ==
    /\ Live(w) /\ Fault
    /\ Ends(w)
    /\ UNCHANGED <<row, resumes, charges, purges>>

\* Time.  A request that lives to see it pass is slow, which is a fault; one
\* that has had its time is ended.
Aged(r) == IF r.at = "idle" \/ r.age = MaxDuration THEN Idle ELSE [r EXCEPT !.age = @ + 1]
Tick ==
    /\ IF \E w \in Requests : Live(w) THEN Fault ELSE UNCHANGED faults
    /\ row.status # "none"
    /\ row' = [row EXCEPT !.age = IF @ <= KeepDays THEN @ + 1 ELSE @]
    /\ req' = [w \in Requests |-> Aged(req[w])]
    /\ UNCHANGED <<resumes, charges, purges>>

Purges ==
    /\ purges < MaxPurges /\ purges' = purges + 1
    /\ row.status \notin {"none", "saved"} /\ row.age > KeepDays
    /\ row' = NoRow
    /\ UNCHANGED <<resumes, charges, req, faults>>

Claims(w) == ClaimsNew(w) \/ TakesOver(w)
Steps(w) ==
    \/ Finds(w) \/ SavesApplication(w)
    \/ Generates(w) \/ GeneratesNothing(w) \/ LosesRun(w)
    \/ SavesResume(w) \/ KeepsResult(w) \/ RecordsSaved(w) \/ Releases(w)

Next ==
    \/ \E w \in Requests : Claims(w) \/ LosesClaim(w) \/ Steps(w) \/ Crashes(w)
    \/ Tick \/ Purges

Spec == Init /\ [][Next]_vars

\* Requests that run go on, time passes, and the person retries.
FairSpec ==
    /\ Spec
    /\ \A w \in Requests : WF_vars(Steps(w)) /\ WF_vars(Claims(w))
    /\ WF_vars(Tick)

-----------------------------------------------------------------------------
TypeOK ==
    /\ row \in Row /\ req \in [Requests -> Request]
    /\ resumes \in Nat /\ charges \in Nat
    /\ faults \in 0..MaxFaults /\ purges \in 0..MaxPurges

(* "Two tabs cannot both charge" (tailor-batch-server.ts:9): at most one   *)
(* request is past the claim, whatever is released, kept or taken over.    *)
OneRunner == \A v, w \in Requests : Live(v) /\ Live(w) => v = w

(* "A retry, a second tab or a duplicated tab never runs (or charges) the  *)
(* generator twice for the same job" (094:1-3), as far as it holds: every  *)
(* counted run after the first has a fault of its own before it.           *)
ExtraRunsHaveFaults == charges <= 1 + faults

(* The generator never runs over work that is kept: a result on the row    *)
(* is used when it can be read, a look that found no resume is still true  *)
(* when the generator starts, and a first claim follows no run.            *)
RunsOnlyWhenNothingIsKept ==
    [][\A w \in Requests : Generates(w) \/ LosesRun(w) =>
          /\ row.pending => req[w].unread
          /\ req[w].look = "none" => resumes = 0
          /\ req[w].look = "first" /\ purges = 0 => charges = 0]_vars

(* A saved job stays saved (094:37-38 keeps it "as the batch's idempotency *)
(* record"), though markGenerated and markSaved write whatever the status. *)
SavedIsFinal == [][row.status = "saved" => row'.status = "saved"]_vars

(* As long as the person retries, the job is saved: no claim is stuck.     *)
JobGetsSaved == <>(row.status = "saved")

(* The claim row and its requests implement the job a person is promised:  *)
(* the row's ages, take-overs, releases and purges keep one hand on it,    *)
(* nothing is stored that was not run for, and saved means a resume is.    *)
Hand(r) ==
    CASE r.at = "idle" -> "none"
      [] r.at \in {"record", "keep"} -> "spent"
      [] OTHER -> IF r.paid THEN "result" ELSE "empty"
Hands == [w \in Requests |-> Hand(req[w])]
Job == INSTANCE TailorJob WITH
    hand <- Hands, runs <- charges, copies <- resumes, closed <- (row.status = "saved")
JobSpec == Job!Spec

(* "If its resume did land, finish the record, run nothing"                *)
(* (tailor-batch-server.ts:126): unless the look for it failed or the row  *)
(* was purged, a second resume is never saved for the job.                 *)
SavesOneResume ==
    [][\A w \in Requests : SavesResume(w) /\ resumes' > resumes =>
          resumes = 0 \/ req[w].look = "failed" \/ purges > 0]_vars
=============================================================================
