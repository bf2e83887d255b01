---------------------------- MODULE AiAllowance ----------------------------
(***************************************************************************)
(* Admission and accounting of one person's AI calls                       *)
(* (apps/consumer/lib/ai-operation-server.ts, migrations 087 and 092).     *)
(*                                                                         *)
(* A call reads the tool's policy, reads the person's progress allowance,  *)
(* opens a transaction, takes the person's advisory lock, judges the day's *)
(* rows and inserts its own row with a reservation.  Its handler then      *)
(* calls the provider, records each answer's usage, and finish settles the *)
(* row.  Every step is a transaction, or a provider call, of its own, so   *)
(* the calls of one person interleave in all of them.                      *)
(*                                                                         *)
(* Money is counted in provider calls: each costs one unit, owed from the  *)
(* moment it is sent, whatever the application comes to record of it.      *)
(***************************************************************************)
EXTENDS Integers, FiniteSets

CONSTANTS
    Calls,        \* the requests the person makes; each has its own row
    Workflows,    \* AI workflows
    Counted,      \* those that count for progression (PROGRESSION_AI)
    Policies,     \* the ai_tool_policy rows an administrator may save
    Base, StepUsd, StepReserve,   \* a new account's calls, daily_usd, reserve_usd
    BonusCalls,   \* bonus_calls of one grant
    Parallel,     \* does a handler run provider calls side by side?
    MaxSends,     \* bound: provider calls of one operation
    MaxEvents,    \* bound: grants, policy edits, loose usage, midnights
    MaxFaults,    \* bound: crashes, failed writes, lost answers
    NoLimit, Nobody   \* a NULL limit; nobody holds the lock

Limit == Nat \cup {NoLimit}
ToolPolicy == [disabled : BOOLEAN, calls : Limit, usd : Limit, reserve : Nat]

ASSUME NamesAssumption ==
    /\ IsFiniteSet(Calls) /\ Counted \subseteq Workflows
    /\ NoLimit \notin Nat /\ Nobody \notin Calls
ASSUME PolicyAssumption ==
    /\ Policies \subseteq ToolPolicy
    /\ \A p \in Policies : p.usd # NoLimit => p.reserve > 0
    /\ Parallel \in BOOLEAN /\ Base \in Nat /\ StepUsd \in Nat /\ StepReserve \in Nat \ {0}
ASSUME BoundsAssumption ==
    /\ BonusCalls \in Nat /\ MaxSends \in Nat /\ MaxEvents \in Nat /\ MaxFaults \in Nat

VARIABLES
    newAccount,   \* is the account new, and so held to the progress allowance?
    tool,     \* the policy row of each workflow
    grants,   \* bonus grants that expire tonight
    op,       \* the ai_operation row of each call
    loose,    \* usage rows that carry no operation
    holder,   \* who holds the person's advisory lock
    call,     \* what each request does next and has in memory
    day, faults, events
vars == <<newAccount, tool, grants, op, loose, holder, call, day, faults, events>>

Days == 0..MaxEvents
Stages == {"idle", "policy", "ready", "waits", "holds", "works", "ended"}

Operation == [st : {"none", "running", "succeeded", "failed"},
              day : Days,
              reserved : Nat,         \* reserved_usd
              cost : 0..MaxSends,     \* the usage rows' cost_usd
              unpriced : BOOLEAN,     \* some usage row is unpriced
              incomplete : BOOLEAN,   \* accounting_incomplete
              notCalled : BOOLEAN]    \* provider_not_called
Request == [at : Stages,
            wf : Workflows,
            over : BOOLEAN,           \* legacyOverage: past the daily counter
            seen : ToolPolicy,        \* the policy it read
            bonus : Nat,              \* the bonus calls it read
            day : Days,               \* the day its transaction began
            fits : BOOLEAN,           \* the insert's verdict
            sent : 0..MaxSends,       \* provider calls made
            flying : 0..MaxSends,     \* of those, not answered yet
            incomplete : BOOLEAN]     \* context.accountingIncomplete

Blank == [st |-> "none", day |-> 0, reserved |-> 0, cost |-> 0,
          unpriced |-> FALSE, incomplete |-> FALSE, notCalled |-> FALSE]
Open == [disabled |-> FALSE, calls |-> NoLimit, usd |-> NoLimit, reserve |-> 0]
Idle(w) == [at |-> "idle", wf |-> w, over |-> FALSE, seen |-> Open, bonus |-> 0, day |-> 0,
            fits |-> FALSE, sent |-> 0, flying |-> 0, incomplete |-> FALSE]

Init ==
    /\ newAccount \in BOOLEAN /\ tool \in [Workflows -> Policies]
    /\ grants = 0 /\ op = [c \in Calls |-> Blank] /\ loose = {}
    /\ holder = Nobody
    /\ \E w \in Workflows : call = [c \in Calls |-> Idle(w)]
    /\ day = 0 /\ faults = 0 /\ events = 0

-----------------------------------------------------------------------------
(***************************************************************************)
(* What the insert reads.                                                  *)
(***************************************************************************)
Bigger(m, n) == IF m >= n THEN m ELSE n
Smaller(m, n) == IF m <= n THEN m ELSE n

\* !!progress: the call counts for progression; newAccount: and is limited by it.
Counts(c) == call[c].wf \in Counted
Stepped(c) == newAccount /\ Counts(c)

\* What the call asks to reserve.
Reserve(c) == IF Stepped(c) THEN Bigger(call[c].seen.reserve, StepReserve)
              ELSE call[c].seen.reserve

\* The rows since the midnight before c's transaction began.
Since(c) == {o \in Calls : op[o].st # "none" /\ op[o].day >= call[c].day}
SameTool(c) == {o \in Since(c) : call[o].wf = call[c].wf}
SameSteps(c) == {o \in Since(c) : Counts(o)}
SameBonus(c) == {o \in Since(c) : call[o].over}

\* Failed calls give their place back.
NotFailed(O) == {o \in O : op[o].st # "failed"}

\* A sum of money over calls: the number of the units it is made of.
Total(f, O) == Cardinality(UNION {{o} \X (1..f[o]) : o \in O})

Charge(o) == Bigger(op[o].reserved, op[o].cost)
Charges(O) == Total([o \in Calls |-> Charge(o)], O)

\* An operation that reserved nothing and whose cost is not known.
Unknown(o) ==
    /\ ~op[o].notCalled /\ op[o].reserved = 0
    /\ \/ op[o].st = "running" \/ op[o].incomplete \/ op[o].unpriced
       \/ op[o].cost = 0

LooseSince(c) == {u \in loose : u.wf = call[c].wf /\ u.day >= call[c].day}
LooseCost(c) == Cardinality({u \in LooseSince(c) : ~u.unpriced})

ToolCallsLeft(c) ==
    \/ call[c].seen.calls = NoLimit
    \/ Cardinality(NotFailed(SameTool(c))) < call[c].seen.calls

\* Mutated form: the sum is compared without this call's own reservation.
ToolMoneyLeftWithoutOwn(c) ==
    \/ call[c].seen.usd = NoLimit
    \/ /\ \A u \in LooseSince(c) : ~u.unpriced
       /\ \A o \in SameTool(c) : ~Unknown(o)
       /\ Charges(SameTool(c)) + LooseCost(c) <= call[c].seen.usd

ToolMoneyLeft(c) ==
    \/ call[c].seen.usd = NoLimit
    \/ /\ \A u \in LooseSince(c) : ~u.unpriced
       /\ \A o \in SameTool(c) : ~Unknown(o)
       /\ Charges(SameTool(c)) + LooseCost(c) + Reserve(c) <= call[c].seen.usd

StepsLeft(c) ==
    \/ ~Stepped(c)
    \/ /\ Cardinality(NotFailed(SameSteps(c))) < Base + call[c].bonus
       /\ \A o \in SameSteps(c) : ~op[o].incomplete /\ ~op[o].unpriced
       /\ Charges(SameSteps(c)) + Reserve(c) <= StepUsd

BonusLeft(c) ==
    \/ ~call[c].over
    \/ Cardinality(NotFailed(SameBonus(c))) < call[c].bonus

Fits(c) == ToolCallsLeft(c) /\ ToolMoneyLeft(c) /\ StepsLeft(c) /\ BonusLeft(c)

-----------------------------------------------------------------------------
(***************************************************************************)
(* Admission: beginAiOperation.                                            *)
(***************************************************************************)
Fault == faults < MaxFaults /\ faults' = faults + 1
Event == events < MaxEvents /\ events' = events + 1
Goes(c, at) == call' = [call EXCEPT ![c].at = at]
Leaves(c) == call' = [call EXCEPT ![c] = [Idle(call[c].wf) EXCEPT !.at = "ended"]]

\* readToolPolicy: what the call knows of the policy from here on.
ReadsPolicy(c, w, over) ==
    /\ call[c].at = "idle"
    /\ over => w \in Counted   \* a bonus exists only for counted workflows
    /\ call' = [call EXCEPT ![c] =
         [Idle(w) EXCEPT !.at = "policy", !.over = over, !.seen = tool[w]]]
    /\ UNCHANGED <<newAccount, tool, grants, op, loose, holder, day, faults, events>>

\* progressionAllowance, then the refusals that write nothing: a paused tool;
\* a missing seat, a locked premium tool or a failed read may refuse as well.
ReadsAllowance(c) ==
    /\ call[c].at = "policy"
    /\ \/ /\ ~call[c].seen.disabled
          /\ call' = [call EXCEPT ![c].at = "ready",
                        ![c].bonus = IF Counts(c) THEN grants * BonusCalls ELSE 0]
       \/ Leaves(c)
    /\ UNCHANGED <<newAccount, tool, grants, op, loose, holder, day, faults, events>>

\* The transaction begins: its now() is taken here, before it waits.
Opens(c) ==
    /\ call[c].at = "ready"
    /\ call' = [call EXCEPT ![c].at = "waits", ![c].day = day]
    /\ UNCHANGED <<newAccount, tool, grants, op, loose, holder, day, faults, events>>

\* Mutated form: the lock is not taken.
LocksNothing(c) ==
    /\ call[c].at = "waits"
    /\ holder' = c
    /\ call' = [call EXCEPT ![c].at = "holds", ![c].fits = Fits(c)]
    /\ UNCHANGED <<newAccount, tool, grants, op, loose, day, faults, events>>

\* pg_advisory_xact_lock, then the insert's snapshot and its verdict.
Locks(c) ==
    /\ call[c].at = "waits" /\ holder = Nobody
    /\ holder' = c
    /\ call' = [call EXCEPT ![c].at = "holds", ![c].fits = Fits(c)]
    /\ UNCHANGED <<newAccount, tool, grants, op, loose, day, faults, events>>

Unlocked(c) == IF holder = c THEN Nobody ELSE holder

\* The commit.  Its answer may be lost: the caller is told 503 and the row
\* stays running, with nobody to finish it.
Commits(c) ==
    /\ call[c].at = "holds"
    /\ holder' = Unlocked(c)
    /\ IF call[c].fits
       THEN /\ op' = [op EXCEPT ![c] = [Blank EXCEPT !.st = "running", !.day = call[c].day,
                                                     !.reserved = Reserve(c)]]
            /\ \/ Goes(c, "works") /\ UNCHANGED faults
               \/ Goes(c, "ended") /\ Fault
       ELSE Leaves(c) /\ UNCHANGED <<op, faults>>
    /\ UNCHANGED <<newAccount, tool, grants, loose, day, events>>

-----------------------------------------------------------------------------
(***************************************************************************)
(* The handler and finish.                                                 *)
(***************************************************************************)
\* A provider call leaves; providerAttempted is set just before.
Sends(c) ==
    /\ call[c].at = "works" /\ call[c].sent < MaxSends
    /\ Parallel \/ call[c].flying = 0
    /\ call' = [call EXCEPT ![c].sent = @ + 1, ![c].flying = @ + 1]
    /\ UNCHANGED <<newAccount, tool, grants, op, loose, holder, day, faults, events>>

\* Mutated form: a provider that reported no usage is recorded as costing nothing.
RecordedFree(c, kind) ==
    [op EXCEPT ![c].cost = IF kind = "unpriced" THEN @ ELSE @ + 1]

\* Mutated form: the write of a usage row is retried and lands twice.
RecordedTwice(c, kind) ==
    [op EXCEPT ![c].cost = IF kind = "unpriced" THEN @ ELSE @ + 2,
               ![c].unpriced = @ \/ kind = "unpriced"]

\* The usage row: a price, or none (no usage reported, a failed call, an
\* unknown model).
Recorded(c, kind) ==
    [op EXCEPT ![c].cost = IF kind = "unpriced" THEN @ ELSE @ + 1,
               ![c].unpriced = @ \/ kind = "unpriced"]

\* The provider answers, or fails, and the write of its usage ends.  A
\* failed write marks the context.  An answer may come after the handler
\* gave up on it.
Answers(c) ==
    /\ call[c].at \in {"works", "ended"} /\ call[c].flying > 0
    /\ \/ /\ \E kind \in {"priced", "unpriced"} : op' = Recorded(c, kind)
          /\ call' = [call EXCEPT ![c].flying = @ - 1]
          /\ UNCHANGED faults
       \/ /\ Fault
          /\ call' = [call EXCEPT ![c].flying = @ - 1, ![c].incomplete = TRUE]
          /\ UNCHANGED op
    /\ UNCHANGED <<newAccount, tool, grants, loose, holder, day, events>>

\* finish gives the reservation back only when every usage row has a price.
Settled(c) ==
    /\ ~call[c].incomplete
    /\ op[c].cost > 0 /\ ~op[c].unpriced

NotCalled(c) == Counts(c) /\ call[c].sent = 0 /\ ~call[c].incomplete

Finished(c, status) ==
    [op EXCEPT ![c].st = status,
               ![c].incomplete = call[c].incomplete,
               ![c].notCalled = NotCalled(c),
               ![c].reserved = IF NotCalled(c) \/ Settled(c) THEN 0 ELSE @]

\* The handler's end.  Promise.all ends it at the first rejection (a failed
\* call, or an answer without JSON), its other provider calls still in flight.
HandlerEnds(c, status) ==
    \/ call[c].flying = 0
    \/ Parallel /\ status = "failed" /\ call[c].flying < call[c].sent

\* Mutated form: a handler that throws does not reach finish.
FinishesIfNothingThrew(c) ==
    /\ call[c].at = "works"
    /\ \E status \in {"succeeded", "failed"} :
         /\ HandlerEnds(c, status)
         /\ op' = IF status = "failed" THEN op ELSE Finished(c, status)
    /\ Goes(c, "ended")
    /\ UNCHANGED <<newAccount, tool, grants, loose, holder, day, faults, events>>

\* finish: marked done, then one update.  A failed update is only logged.
Finishes(c) ==
    /\ call[c].at = "works"
    /\ \E status \in {"succeeded", "failed"} :
         /\ HandlerEnds(c, status)
         /\ \/ op' = Finished(c, status) /\ UNCHANGED faults
            \/ Fault /\ UNCHANGED op
    /\ Goes(c, "ended")
    /\ UNCHANGED <<newAccount, tool, grants, loose, holder, day, events>>

\* The instance dies: a transaction under way is rolled back, answers are lost.
Crashes(c) ==
    /\ call[c].at \notin {"idle", "ended"} /\ Fault
    /\ IF call[c].at = "works"
       THEN call' = [call EXCEPT ![c].at = "ended", ![c].flying = 0]
       ELSE Leaves(c)
    /\ holder' = Unlocked(c)
    /\ UNCHANGED <<newAccount, tool, grants, op, loose, day, events>>

-----------------------------------------------------------------------------
(***************************************************************************)
(* The rest of the world.                                                  *)
(***************************************************************************)
\* PUT /api/admin/ai-policy.
EditsPolicy(w, p) ==
    /\ Event
    /\ tool' = [tool EXCEPT ![w] = p]
    /\ UNCHANGED <<newAccount, grants, op, loose, holder, call, day, faults>>

\* A bonus is granted; it expires at midnight UTC.
GrantsBonus ==
    /\ Event /\ grants' = grants + 1
    /\ UNCHANGED <<newAccount, tool, op, loose, holder, call, day, faults>>

\* Usage recorded outside any operation (an old voice session's estimate).
LooseUsage(w, unpriced) ==
    /\ Event
    /\ loose' = loose \cup {[wf |-> w, day |-> day, unpriced |-> unpriced]}
    /\ UNCHANGED <<newAccount, tool, grants, op, holder, call, day, faults>>

\* Midnight UTC: a new day's rows, and every bonus has expired.
Midnight ==
    /\ Event /\ day' = day + 1 /\ grants' = 0
    /\ UNCHANGED <<newAccount, tool, op, loose, holder, call, faults>>

Steps(c) ==
    \/ \E w \in Workflows, over \in BOOLEAN : ReadsPolicy(c, w, over)
    \/ ReadsAllowance(c) \/ Opens(c) \/ Locks(c) \/ Commits(c)
    \/ Sends(c) \/ Answers(c) \/ Finishes(c) \/ Crashes(c)

Next ==
    \/ \E c \in Calls : Steps(c)
    \/ \E w \in Workflows, p \in Policies : EditsPolicy(w, p)
    \/ GrantsBonus
    \/ \E w \in Workflows, unpriced \in BOOLEAN : LooseUsage(w, unpriced)
    \/ Midnight

Spec == Init /\ [][Next]_vars

-----------------------------------------------------------------------------
(***************************************************************************)
(* What must hold.                                                         *)
(***************************************************************************)
\* The rows, the requests and the lock keep their shape.
TypeOK ==
    /\ newAccount \in BOOLEAN /\ tool \in [Workflows -> Policies]
    /\ grants \in 0..events
    /\ op \in [Calls -> Operation]
    /\ loose \subseteq [wf : Workflows, day : Days, unpriced : BOOLEAN]
    /\ holder \in Calls \cup {Nobody}
    /\ call \in [Calls -> Request]
    /\ day \in 0..events /\ events \in 0..MaxEvents /\ faults \in 0..MaxFaults

Admitted(d) == {c \in Calls : op[c].st # "none" /\ op[c].day = d}
OfTool(w, d) == {c \in Admitted(d) : call[c].wf = w}
OfSteps(d) == {c \in Admitted(d) : Counts(c)}
OfBonus(d) == {c \in Admitted(d) : call[c].over}

\* At most as many calls of a day run or succeeded as the most generous limit
\* one of them had read, whatever races, an edit of the policy or midnight do:
\* for the tool's daily_calls, the progress allowance and the bonus.
CallsStayWithinLimits == \A d \in Days :
    /\ \A w \in Workflows :
         LET O == OfTool(w, d) IN
         \/ NotFailed(O) = {}
         \/ \E c \in O : \/ call[c].seen.calls = NoLimit
                         \/ Cardinality(NotFailed(O)) <= call[c].seen.calls
    /\ LET O == OfSteps(d) IN
         newAccount /\ NotFailed(O) # {} =>
           \E c \in O : Cardinality(NotFailed(O)) <= Base + call[c].bonus
    /\ LET O == OfBonus(d) IN
         NotFailed(O) # {} => \E c \in O : Cardinality(NotFailed(O)) <= call[c].bonus

\* What a call takes of the budget it was admitted under: its reservation
\* while that is held, then its real bill, up to the reservation.
Share(c) == IF op[c].reserved > 0 THEN Reserve(c) ELSE Smaller(call[c].sent, Reserve(c))
Shares(O) == Total([o \in Calls |-> Share(o)], O)

\* The day's real bills and reservations stay within the day's dollars.  Only
\* what one call cost above its own reservation can pass the limit.
BudgetIsKept == \A d \in Days :
    /\ \A w \in Workflows :
         LET O == OfTool(w, d) IN
         \/ O = {}
         \/ \E c \in O : \/ call[c].seen.usd = NoLimit
                         \/ Shares(O) <= call[c].seen.usd
    /\ newAccount => Shares(OfSteps(d)) <= StepUsd

\* A call that is let in under a dollar limit was measured against every
\* bill: each earlier call of the day still holds its reservation, or its
\* recorded cost is at least what its provider calls cost.
BillsAreCounted == \A c \in Calls :
    call[c].at = "holds" /\ call[c].fits /\ call[c].seen.usd # NoLimit =>
      \A o \in SameTool(c) : op[o].reserved > 0 \/ op[o].cost >= call[o].sent

\* An operation that runs for ever, and so keeps its place in the day's
\* count, has a fault of its own to blame: a crash (of the instance, or a
\* stream its client dropped), a lost answer, a failed update.
StuckRunsHaveFaults ==
    Cardinality({c \in Calls : op[c].st = "running" /\ call[c].at = "ended"}) <= faults
=============================================================================
