------------------------- MODULE AiAllowanceProofs -------------------------
(***************************************************************************)
(* What holds of the AI allowance for any number of calls, workflows,      *)
(* policies, bonuses, midnights and faults.                                *)
(*                                                                         *)
(* Shaped says which stage a call with a row is in, that the lock is held  *)
(* by exactly the call between its verdict and its commit, and that what   *)
(* is recorded never exceeds what was sent.  On it stand four arguments:   *)
(* a verdict stays true until its commit (the lock), a row that gave its   *)
(* reservation back has recorded all it owes (finish), every row left      *)
(* running cost a fault, and what a verdict compared is at least what the  *)
(* calls before it may cost, so the sum stays within the limit.            *)
(***************************************************************************)
EXTENDS AiAllowance, FiniteSetTheorems, TLAPS

USE NamesAssumption, PolicyAssumption, BoundsAssumption

Placed(c) ==
    /\ op[c].st # "none" => call[c].at \in {"works", "ended"}
    /\ call[c].at = "works" => op[c].st = "running"
    /\ call[c].at = "holds" <=> holder = c
    /\ op[c].cost + call[c].flying <= call[c].sent
    /\ op[c].st = "none" => op[c].cost = 0 /\ call[c].sent = 0
Shaped == TypeOK /\ \A c \in Calls : Placed(c)

-----------------------------------------------------------------------------
(***************************************************************************)
(* Shapes.                                                                 *)
(***************************************************************************)
LEMMA OpenFits == Open \in ToolPolicy
BY DEF Open, ToolPolicy, Limit

LEMMA DaysFit == 0 \in Days /\ \A d \in Days : d \in Nat
BY DEF Days

LEMMA IdleFits == ASSUME NEW w \in Workflows PROVE
    /\ Idle(w) \in Request
    /\ [Idle(w) EXCEPT !.at = "ended"] \in Request
    /\ Idle(w).sent = 0 /\ Idle(w).flying = 0
<1>1. 0 \in 0..MaxSends /\ 0 \in Nat /\ 0 \in Days /\ Open \in ToolPolicy
    BY OpenFits, DaysFit
<1>2. Idle(w) \in Request
    BY <1>1 DEF Idle, Request, Stages
<1>3. [Idle(w) EXCEPT !.at = "ended"] \in Request
    BY <1>2 DEF Request, Stages
<1> QED
    BY <1>2, <1>3 DEF Idle

LEMMA BlankFits == Blank \in Operation
BY DaysFit DEF Blank, Operation

LEMMA ReserveFits == ASSUME TypeOK, NEW c \in Calls PROVE Reserve(c) \in Nat
BY DEF TypeOK, Reserve, Request, ToolPolicy, Bigger

\* A step of one call keeps Shaped if what it leaves does.
LEMMA StepOfOne ==
    ASSUME Shaped, NEW c \in Calls, NEW q \in Request, NEW r \in Operation,
           call' = [call EXCEPT ![c] = q], op' = [op EXCEPT ![c] = r],
           r.st # "none" => q.at \in {"works", "ended"},
           q.at = "works" => r.st = "running",
           q.at = "holds" <=> holder' = c,
           r.cost + q.flying <= q.sent,
           r.st = "none" => r.cost = 0 /\ q.sent = 0,
           holder' = holder \/ (holder \in {c, Nobody} /\ holder' \in {c, Nobody}),
           faults' \in 0..MaxFaults,
           UNCHANGED <<newAccount, tool, grants, loose, day, events>>
    PROVE  Shaped'
<1>1. /\ call' \in [Calls -> Request] /\ op' \in [Calls -> Operation]
      /\ call'[c] = q /\ op'[c] = r
      /\ \A o \in Calls : o # c => call'[o] = call[o] /\ op'[o] = op[o]
    BY DEF Shaped, TypeOK
<1>2. TypeOK'
    BY <1>1 DEF Shaped, TypeOK
<1>3. ASSUME NEW o \in Calls PROVE Placed(o)'
    <2>1. CASE o = c
        BY <1>1, <2>1 DEF Placed
    <2>2. CASE o # c
        BY <1>1, <2>2 DEF Placed, Shaped
    <2> QED
        BY <2>1, <2>2
<1> QED
    BY <1>2, <1>3 DEF Shaped

\* The same when the step leaves every row alone.
LEMMA StepOfMemory ==
    ASSUME Shaped, NEW c \in Calls, NEW q \in Request,
           call' = [call EXCEPT ![c] = q], op' = op,
           op[c].st # "none" => q.at \in {"works", "ended"},
           q.at = "works" => op[c].st = "running",
           q.at = "holds" <=> holder' = c,
           op[c].cost + q.flying <= q.sent,
           op[c].st = "none" => q.sent = 0,
           holder' = holder \/ (holder \in {c, Nobody} /\ holder' \in {c, Nobody}),
           faults' \in 0..MaxFaults,
           UNCHANGED <<newAccount, tool, grants, loose, day, events>>
    PROVE  Shaped'
<1>1. /\ call' \in [Calls -> Request] /\ call'[c] = q
      /\ \A o \in Calls : o # c => call'[o] = call[o]
    BY DEF Shaped, TypeOK
<1>2. TypeOK'
    BY <1>1 DEF Shaped, TypeOK
<1>3. ASSUME NEW o \in Calls PROVE Placed(o)'
    <2>1. CASE o = c
        BY <1>1, <2>1 DEF Placed, Shaped
    <2>2. CASE o # c
        BY <1>1, <2>2 DEF Placed, Shaped
    <2> QED
        BY <2>1, <2>2
<1> QED
    BY <1>2, <1>3 DEF Shaped

\* The same for a call that has no row yet.
LEMMA StepOfNewcomer ==
    ASSUME Shaped, NEW c \in Calls, NEW q \in Request,
           call' = [call EXCEPT ![c] = q], op' = op, op[c].st = "none",
           q.at # "works", q.sent = 0, q.flying = 0,
           q.at = "holds" <=> holder' = c,
           holder' = holder \/ (holder \in {c, Nobody} /\ holder' \in {c, Nobody}),
           faults' \in 0..MaxFaults,
           UNCHANGED <<newAccount, tool, grants, loose, day, events>>
    PROVE  Shaped'
<1>1. op[c].cost = 0
    BY DEF Shaped, Placed
<1>2. op[c].cost + q.flying <= q.sent
    BY <1>1
<1> QED
    BY <1>2, StepOfMemory

\* A step of the world touches no call.
LEMMA StepOfWorld ==
    ASSUME Shaped, TypeOK', UNCHANGED <<op, holder, call>>
    PROVE  Shaped'
BY DEF Shaped, Placed

LEMMA ShapedInit == Init => Shaped
<1> SUFFICES ASSUME Init PROVE Shaped
    OBVIOUS
<1>1. PICK w \in Workflows : call = [c \in Calls |-> Idle(w)]
    BY DEF Init
<1>2. TypeOK
    <2>1. op \in [Calls -> Operation] /\ call \in [Calls -> Request]
        BY <1>1, IdleFits, BlankFits DEF Init
    <2> QED
        BY <2>1, DaysFit DEF Init, TypeOK
<1>3. ASSUME NEW c \in Calls PROVE Placed(c)
    BY <1>1 DEF Init, Placed, Idle, Blank
<1> QED
    BY <1>2, <1>3 DEF Shaped

LEMMA ShapedStep == Shaped /\ [Next]_vars => Shaped'
<1> SUFFICES ASSUME Shaped, [Next]_vars PROVE Shaped'
    OBVIOUS
<1>t. TypeOK /\ \A c \in Calls : Placed(c) /\ call[c] \in Request /\ op[c] \in Operation
    BY DEF Shaped, TypeOK
<1>f. ASSUME Fault PROVE faults' \in 0..MaxFaults
    BY <1>t, <1>f DEF TypeOK, Fault
<1>n. faults \in 0..MaxFaults
    BY <1>t DEF TypeOK
<1>1. ASSUME NEW c \in Calls, NEW w \in Workflows, NEW over \in BOOLEAN, ReadsPolicy(c, w, over)
      PROVE  Shaped'
    <2>f. /\ op[c] \in Operation /\ op[c].st = "none" /\ op[c].cost = 0 /\ call[c].sent = 0
          /\ call[c].flying = 0
          /\ faults' \in 0..MaxFaults /\ UNCHANGED <<newAccount, tool, grants, loose, day, events>>
        BY <1>1, <1>t, <1>n DEF ReadsPolicy, Placed, Operation, Request
    <2> DEFINE q == [Idle(w) EXCEPT !.at = "policy", !.over = over, !.seen = tool[w]]
    <2>1. tool[w] \in ToolPolicy
        BY <1>t DEF TypeOK
    <2>2. q \in Request /\ q.at = "policy" /\ q.sent = 0 /\ q.flying = 0
        BY <2>1, IdleFits DEF Request, Stages
    <2>3. call' = [call EXCEPT ![c] = q] /\ op' = op
        BY <1>1, <1>t DEF ReadsPolicy, TypeOK
    <2>4. op[c].st = "none" /\ holder # c
        BY <1>1, <1>t DEF ReadsPolicy, Placed
    <2>h. holder' = holder
        BY <1>1 DEF ReadsPolicy
    <2> HIDE DEF q
    <2> QED
        BY <2>2, <2>3, <2>4, <2>f, <2>h, StepOfNewcomer
<1>2. ASSUME NEW c \in Calls, ReadsAllowance(c) PROVE Shaped'
    <2>f. /\ op[c] \in Operation /\ op[c].st = "none" /\ op[c].cost = 0 /\ call[c].sent = 0
          /\ call[c].flying = 0
          /\ faults' \in 0..MaxFaults /\ UNCHANGED <<newAccount, tool, grants, loose, day, events>>
        BY <1>2, <1>t, <1>n DEF ReadsAllowance, Placed, Operation, Request
    <2>1. op[c].st = "none" /\ holder # c /\ call[c].at = "policy" /\ op' = op /\ holder' = holder
        BY <1>2, <1>t DEF ReadsAllowance, Placed, TypeOK
    <2>2. CASE Leaves(c)
        <3> DEFINE q == [Idle(call[c].wf) EXCEPT !.at = "ended"]
        <3>1. q \in Request /\ q.at = "ended" /\ q.sent = 0 /\ q.flying = 0
            BY <1>t, IdleFits DEF Request, Idle
        <3>2. call' = [call EXCEPT ![c] = q]
            BY <2>2 DEF Leaves
        <3> HIDE DEF q
        <3> QED
            BY <2>1, <2>f, <3>1, <3>2, StepOfNewcomer
    <2>3. CASE ~Leaves(c)
        <3> DEFINE b == IF Counts(c) THEN grants * BonusCalls ELSE 0
                   q == [call[c] EXCEPT !.at = "ready", !.bonus = b]
        <3>1. b \in Nat
            BY <1>t DEF TypeOK
        <3>2. /\ q \in Request /\ q.at = "ready"
              /\ q.sent = call[c].sent /\ q.flying = call[c].flying
            BY <1>t, <3>1 DEF Request, Stages
        <3>3. call' = [call EXCEPT ![c] = q]
            BY <1>2, <2>3, <1>t DEF ReadsAllowance, TypeOK
        <3> HIDE DEF q, b
        <3> QED
            BY <2>1, <2>f, <3>2, <3>3, StepOfNewcomer
    <2> QED
        BY <2>2, <2>3
<1>3. ASSUME NEW c \in Calls, Opens(c) PROVE Shaped'
    <2>f. /\ op[c] \in Operation /\ op[c].st = "none" /\ op[c].cost = 0 /\ call[c].sent = 0
          /\ call[c].flying = 0
          /\ faults' \in 0..MaxFaults /\ UNCHANGED <<newAccount, tool, grants, loose, day, events>>
        BY <1>3, <1>t, <1>n DEF Opens, Placed, Operation, Request
    <2> DEFINE q == [call[c] EXCEPT !.at = "waits", !.day = day]
    <2>1. q \in Request /\ q.at = "waits" /\ q.sent = call[c].sent /\ q.flying = call[c].flying
        <3>1. day \in Days
            BY <1>t DEF TypeOK, Days
        <3> QED
            BY <1>t, <3>1 DEF Request, Stages
    <2>2. /\ call' = [call EXCEPT ![c] = q] /\ op' = op
          /\ op[c].st = "none" /\ holder # c /\ holder' = holder
        BY <1>3, <1>t DEF Opens, TypeOK, Placed
    <2> HIDE DEF q
    <2> QED
        BY <2>1, <2>2, <2>f, StepOfNewcomer
<1>4. ASSUME NEW c \in Calls, Locks(c) PROVE Shaped'
    <2>f. /\ op[c] \in Operation /\ op[c].st = "none" /\ op[c].cost = 0 /\ call[c].sent = 0
          /\ call[c].flying = 0
          /\ faults' \in 0..MaxFaults /\ UNCHANGED <<newAccount, tool, grants, loose, day, events>>
        BY <1>4, <1>t, <1>n DEF Locks, Placed, Operation, Request
    <2> DEFINE q == [call[c] EXCEPT !.at = "holds", !.fits = Fits(c)]
    <2>1. Fits(c) \in BOOLEAN
        BY DEF Fits, ToolCallsLeft, ToolMoneyLeft, StepsLeft, BonusLeft
    <2>2. q \in Request /\ q.at = "holds" /\ q.sent = call[c].sent /\ q.flying = call[c].flying
        BY <1>t, <2>1 DEF Request, Stages
    <2>3. /\ call' = [call EXCEPT ![c] = q] /\ op' = op
          /\ op[c].st = "none" /\ holder = Nobody /\ holder' = c
        BY <1>4, <1>t DEF Locks, TypeOK, Placed
    <2> HIDE DEF q
    <2> QED
        BY <2>2, <2>3, <2>f, StepOfNewcomer
<1>5. ASSUME NEW c \in Calls, Commits(c) PROVE Shaped'
    <2>1. call[c].at = "holds" /\ holder = c /\ holder' = Nobody /\ op[c].st = "none" /\ c # Nobody
        BY <1>5, <1>t DEF Commits, Placed, Unlocked
    <2>2. CASE call[c].fits
        <3> DEFINE r == [Blank EXCEPT !.st = "running", !.day = call[c].day, !.reserved = Reserve(c)]
        <3>1. r \in Operation /\ r.st = "running" /\ r.cost = 0
            BY <1>t, ReserveFits, BlankFits DEF Operation, Request, Blank
        <3>2. op' = [op EXCEPT ![c] = r] /\ faults' \in 0..MaxFaults
              /\ UNCHANGED <<newAccount, tool, grants, loose, day, events>>
            BY <1>5, <2>2, <1>f, <1>n DEF Commits
        <3>3. PICK at \in {"works", "ended"} : Goes(c, at)
            BY <1>5, <2>2 DEF Commits
        <3> DEFINE q == [call[c] EXCEPT !.at = at]
        <3>4. q \in Request /\ q.at = at /\ q.sent = call[c].sent /\ q.flying = call[c].flying
            BY <1>t DEF Request, Stages
        <3>5. call' = [call EXCEPT ![c] = q]
            BY <3>3, <1>t DEF Goes, TypeOK
        <3>6. 0 + call[c].flying <= call[c].sent
            BY <1>t, <2>1 DEF Placed, Operation, Request
        <3> HIDE DEF q, r
        <3> QED
            BY <1>t, <2>1, <3>1, <3>2, <3>4, <3>5, <3>6, StepOfOne
    <2>3. CASE ~call[c].fits
        <3> DEFINE q == [Idle(call[c].wf) EXCEPT !.at = "ended"]
        <3>1. q \in Request /\ q.at = "ended" /\ q.sent = 0 /\ q.flying = 0
            BY <1>t, IdleFits DEF Request, Idle
        <3>2. /\ call' = [call EXCEPT ![c] = q] /\ op' = op
              /\ faults' = faults /\ UNCHANGED <<newAccount, tool, grants, loose, day, events>>
            BY <1>5, <2>3, <1>t DEF Commits, Leaves, TypeOK
        <3> HIDE DEF q
        <3> QED
            BY <1>n, <2>1, <3>1, <3>2, StepOfNewcomer
    <2> QED
        BY <2>2, <2>3
<1>6. ASSUME NEW c \in Calls, Sends(c) PROVE Shaped'
    <2> DEFINE n == call[c].sent + 1
               m == call[c].flying + 1
               q == [call[c] EXCEPT !.sent = n, !.flying = m]
    <2>1. call[c].at = "works" /\ op[c].st = "running" /\ holder # c /\ call[c].sent < MaxSends
        BY <1>6, <1>t DEF Sends, Placed
    <2>2. /\ call[c].sent \in 0..MaxSends /\ call[c].flying \in 0..MaxSends
          /\ op[c].cost \in 0..MaxSends /\ op[c].cost + call[c].flying <= call[c].sent
        BY <1>t DEF Request, Operation, Placed
    <2>3. /\ q \in Request /\ q.at = "works"
          /\ q.sent = call[c].sent + 1 /\ q.flying = call[c].flying + 1
        <3>1. n \in 0..MaxSends /\ m \in 0..MaxSends
            BY <2>1, <2>2
        <3> HIDE DEF n, m
        <3>2. q \in Request /\ q.at = call[c].at /\ q.sent = n /\ q.flying = m
            BY <1>t, <3>1 DEF Request
        <3> QED
            BY <3>2, <2>1 DEF n, m
    <2>4. call' = [call EXCEPT ![c] = q] /\ op' = op
        BY <1>6, <1>t DEF Sends, TypeOK
    <2>5. op[c].cost + q.flying <= q.sent
        BY <2>2, <2>3
    <2> HIDE DEF q
    <2> QED
        BY <1>6, <1>n, <2>1, <2>3, <2>4, <2>5, StepOfMemory DEF Sends
<1>7. ASSUME NEW c \in Calls, Answers(c) PROVE Shaped'
    <2>1. /\ call[c].at \in {"works", "ended"} /\ holder # c
          /\ call[c].sent \in 0..MaxSends /\ call[c].flying \in 1..MaxSends
          /\ op[c].cost \in 0..MaxSends /\ op[c].cost + call[c].flying <= call[c].sent
          /\ op[c].st # "none"
        BY <1>7, <1>t DEF Answers, Request, Operation, Placed
    <2>2. CASE \E kind \in {"priced", "unpriced"} :
                 op' = Recorded(c, kind) /\ call' = [call EXCEPT ![c].flying = @ - 1]
                 /\ UNCHANGED faults
        <3>1. PICK kind \in {"priced", "unpriced"} : op' = Recorded(c, kind)
            BY <2>2
        <3> DEFINE m == call[c].flying - 1
                   q == [call[c] EXCEPT !.flying = m]
                   k == IF kind = "unpriced" THEN op[c].cost ELSE op[c].cost + 1
                   r == [op[c] EXCEPT !.cost = k, !.unpriced = @ \/ kind = "unpriced"]
        <3>2. k \in 0..MaxSends /\ k + (call[c].flying - 1) <= call[c].sent
            BY <2>1
        <3>3. r \in Operation /\ r.st = op[c].st /\ r.cost = k
            BY <1>t, <3>2 DEF Operation
        <3>7. m \in 0..MaxSends
            BY <2>1
        <3>4. q \in Request /\ q.at = call[c].at /\ q.sent = call[c].sent /\ q.flying = m
            BY <1>t, <3>7 DEF Request
        <3>5. call' = [call EXCEPT ![c] = q] /\ op' = [op EXCEPT ![c] = r]
            BY <2>2, <3>1, <1>t DEF Recorded, TypeOK
        <3>6. r.cost + q.flying <= q.sent
            BY <3>2, <3>3, <3>4
        <3> HIDE DEF q, r, k
        <3> QED
            BY <1>7, <1>t, <1>n, <2>1, <2>2, <3>3, <3>4, <3>5, <3>6, StepOfOne DEF Answers, Placed
    <2>3. CASE Fault /\ UNCHANGED op
               /\ call' = [call EXCEPT ![c].flying = @ - 1, ![c].incomplete = TRUE]
        <3> DEFINE m == call[c].flying - 1
                   q == [call[c] EXCEPT !.flying = m, !.incomplete = TRUE]
        <3>4. m \in 0..MaxSends
            BY <2>1
        <3>1. q \in Request /\ q.at = call[c].at /\ q.sent = call[c].sent /\ q.flying = m
            BY <1>t, <3>4 DEF Request
        <3>2. call' = [call EXCEPT ![c] = q] /\ op' = op /\ faults' \in 0..MaxFaults
            BY <2>3, <1>t, <1>f DEF TypeOK
        <3>3. op[c].cost + q.flying <= q.sent
            BY <2>1, <3>1
        <3> HIDE DEF q
        <3> QED
            BY <1>7, <1>t, <2>1, <3>1, <3>2, <3>3, StepOfMemory DEF Answers, Placed
    <2> QED
        BY <1>7, <2>2, <2>3 DEF Answers
<1>8. ASSUME NEW c \in Calls, Finishes(c) PROVE Shaped'
    <2>1. call[c].at = "works" /\ op[c].st = "running" /\ holder # c /\ holder' = holder
        BY <1>8, <1>t DEF Finishes, Placed
    <2> DEFINE q == [call[c] EXCEPT !.at = "ended"]
    <2>2. /\ q \in Request /\ q.at = "ended" /\ q.sent = call[c].sent /\ q.flying = call[c].flying
          /\ call' = [call EXCEPT ![c] = q]
        BY <1>8, <1>t DEF Request, Stages, Finishes, Goes, TypeOK
    <2>3. \E r \in Operation : op' = [op EXCEPT ![c] = r] /\ r.st # "none" /\ r.cost = op[c].cost
        <3>1. PICK status \in {"succeeded", "failed"} : op' = Finished(c, status) \/ op' = op
            BY <1>8 DEF Finishes
        <3> DEFINE m == IF NotCalled(c) \/ Settled(c) THEN 0 ELSE op[c].reserved
                   r == [op[c] EXCEPT !.st = status, !.incomplete = call[c].incomplete,
                                      !.notCalled = NotCalled(c), !.reserved = m]
        <3>2. m \in Nat /\ NotCalled(c) \in BOOLEAN /\ call[c].incomplete \in BOOLEAN
            BY <1>t DEF Operation, Request, NotCalled
        <3>3. r \in Operation /\ r.st = status /\ r.cost = op[c].cost
            BY <1>t, <3>2 DEF Operation
        <3>4. CASE op' = Finished(c, status)
            <4>1. op' = [op EXCEPT ![c] = r]
                BY <3>4, <1>t DEF Finished, TypeOK
            <4> HIDE DEF r
            <4> QED
                BY <4>1, <3>3
        <3>5. CASE op' = op
            BY <3>5, <2>1, <1>t DEF TypeOK
        <3> QED
            BY <3>1, <3>4, <3>5
    <2>4. PICK r \in Operation : op' = [op EXCEPT ![c] = r] /\ r.st # "none" /\ r.cost = op[c].cost
        BY <2>3
    <2>5. faults' \in 0..MaxFaults /\ UNCHANGED <<newAccount, tool, grants, loose, day, events>>
        BY <1>8, <1>f, <1>n DEF Finishes
    <2>6. r.cost + q.flying <= q.sent
        BY <2>2, <2>4, <1>t DEF Placed
    <2> HIDE DEF q
    <2> QED
        BY <1>t, <2>1, <2>2, <2>4, <2>5, <2>6, StepOfOne
<1>9. ASSUME NEW c \in Calls, Crashes(c) PROVE Shaped'
    <2>1. /\ faults' \in 0..MaxFaults /\ UNCHANGED <<newAccount, tool, grants, loose, day, events>>
          /\ op' = op /\ holder' = Unlocked(c) /\ call[c].at \notin {"idle", "ended"}
        BY <1>9, <1>f, <1>t DEF Crashes, TypeOK
    <2>2. holder' # c /\ (holder' = holder \/ (holder = c /\ holder' = Nobody))
        BY <2>1 DEF Unlocked
    <2>3. CASE call[c].at = "works"
        <3> DEFINE q == [call[c] EXCEPT !.at = "ended", !.flying = 0]
        <3>4. 0 \in 0..MaxSends
            OBVIOUS
        <3>1. q \in Request /\ q.at = "ended" /\ q.sent = call[c].sent /\ q.flying = 0
            BY <1>t, <3>4 DEF Request, Stages
        <3>2. call' = [call EXCEPT ![c] = q]
            BY <1>9, <2>3, <1>t DEF Crashes, TypeOK
        <3>3. op[c].cost + q.flying <= q.sent /\ op[c].st # "none"
            BY <3>1, <1>t, <2>3 DEF Placed, Operation, Request
        <3> HIDE DEF q
        <3> QED
            BY <1>t, <2>1, <2>2, <3>1, <3>2, <3>3, StepOfMemory
    <2>4. CASE call[c].at # "works"
        <3> DEFINE q == [Idle(call[c].wf) EXCEPT !.at = "ended"]
        <3>1. q \in Request /\ q.at = "ended" /\ q.sent = 0 /\ q.flying = 0
            BY <1>t, IdleFits DEF Request, Idle
        <3>2. call' = [call EXCEPT ![c] = q] /\ op[c].st = "none"
            BY <1>9, <2>4, <2>1, <1>t DEF Crashes, Leaves, Placed
        <3> HIDE DEF q
        <3> QED
            BY <2>1, <2>2, <3>1, <3>2, StepOfNewcomer
    <2> QED
        BY <2>3, <2>4
<1>10. ASSUME Event PROVE events' \in 0..MaxEvents /\ events < MaxEvents
    BY <1>10, <1>t DEF Event, TypeOK
<1>11. ASSUME NEW w \in Workflows, NEW p \in Policies, EditsPolicy(w, p) PROVE Shaped'
    <2>1. events' = events + 1 /\ events' \in 0..MaxEvents /\ grants \in 0..events' /\ day \in 0..events'
        BY <1>11, <1>t, <1>10 DEF EditsPolicy, TypeOK, Event
    <2> QED
        BY <1>11, <1>t, <2>1, StepOfWorld DEF EditsPolicy, TypeOK
<1>12. ASSUME GrantsBonus PROVE Shaped'
    <2>1. events' = events + 1 /\ events' \in 0..MaxEvents /\ grants' \in 0..events' /\ day \in 0..events'
        BY <1>12, <1>t, <1>10 DEF GrantsBonus, TypeOK, Event
    <2> QED
        BY <1>12, <1>t, <2>1, StepOfWorld DEF GrantsBonus, TypeOK
<1>13. ASSUME NEW w \in Workflows, NEW unpriced \in BOOLEAN, LooseUsage(w, unpriced) PROVE Shaped'
    <2>1. events' = events + 1 /\ events' \in 0..MaxEvents /\ grants \in 0..events' /\ day \in 0..events'
        BY <1>13, <1>t, <1>10 DEF LooseUsage, TypeOK, Event
    <2>2. [wf |-> w, day |-> day, unpriced |-> unpriced]
             \in [wf : Workflows, day : Days, unpriced : BOOLEAN]
        BY <1>t DEF TypeOK, Days
    <2> QED
        BY <1>13, <1>t, <2>1, <2>2, StepOfWorld DEF LooseUsage, TypeOK
<1>14. ASSUME Midnight PROVE Shaped'
    <2>1. events' = events + 1 /\ events' \in 0..MaxEvents /\ 0 \in 0..events' /\ day' \in 0..events'
        BY <1>14, <1>t, <1>10 DEF Midnight, TypeOK, Event
    <2> QED
        BY <1>14, <1>t, <2>1, StepOfWorld DEF Midnight, TypeOK
<1>15. ASSUME UNCHANGED vars PROVE Shaped'
    BY <1>15, <1>t DEF vars, Shaped, TypeOK, Placed
<1> QED
    BY <1>1, <1>2, <1>3, <1>4, <1>5, <1>6, <1>7, <1>8, <1>9, <1>11, <1>12, <1>13, <1>14, <1>15
       DEF Next, Steps

\* The rows, the requests and the lock keep their shape for any number of
\* calls, midnights and faults.
THEOREM AiTypeCorrect == Spec => []TypeOK
<1>1. Shaped => TypeOK
    BY DEF Shaped
<1> QED
    BY <1>1, ShapedInit, ShapedStep, PTL DEF Spec

-----------------------------------------------------------------------------
(***************************************************************************)
(* Counts: a verdict stays true until its commit.                          *)
(***************************************************************************)
\* A step that opens no row and takes no row's place back.
Steady ==
    /\ newAccount' = newAccount
    /\ \A o \in Calls :
         /\ op'[o].st = "none" <=> op[o].st = "none"
         /\ op'[o].st # "failed" => op[o].st # "failed"
         /\ op[o].st # "none" =>
              /\ op'[o].day = op[o].day /\ call'[o].wf = call[o].wf
              /\ call'[o].over = call[o].over /\ call'[o].bonus = call[o].bonus
              /\ call'[o].seen = call[o].seen
         /\ call'[o].at = "holds" => call'[o] = call[o] \/ Locks(o)

LEMMA StepKinds == ASSUME Shaped, [Next]_vars PROVE
    Steady \/ \E c \in Calls : Commits(c) /\ call[c].fits
<1>t. /\ op \in [Calls -> Operation] /\ call \in [Calls -> Request]
      /\ \A o \in Calls : Placed(o)
    BY DEF Shaped, TypeOK
<1>1. ASSUME NEW c \in Calls, NEW w \in Workflows, NEW over \in BOOLEAN, ReadsPolicy(c, w, over)
      PROVE  Steady
    BY <1>1, <1>t DEF ReadsPolicy, Steady, Placed
<1>2. ASSUME NEW c \in Calls, ReadsAllowance(c) PROVE Steady
    <2>1. op[c].st = "none"
        BY <1>2, <1>t DEF ReadsAllowance, Placed
    <2>3. /\ op' = op /\ newAccount' = newAccount /\ \A o \in Calls : o # c => call'[o] = call[o]
          /\ call'[c].at # "holds"
        BY <1>2, <1>t DEF ReadsAllowance, Leaves, Idle, Request
    <2> QED
        BY <2>1, <2>3 DEF Steady
<1>3. ASSUME NEW c \in Calls, Opens(c) \/ Locks(c) PROVE Steady
    <2>1. op[c].st = "none"
        BY <1>3, <1>t DEF Opens, Locks, Placed
    <2>2. /\ op' = op /\ newAccount' = newAccount /\ \A o \in Calls : o # c => call'[o] = call[o]
          /\ call'[c].at = "holds" => Locks(c)
        BY <1>3, <1>t DEF Opens, Locks, Request
    <2> QED
        BY <2>1, <2>2 DEF Steady
<1>4. ASSUME NEW c \in Calls, Commits(c), ~call[c].fits PROVE Steady
    <2>1. op[c].st = "none"
        BY <1>4, <1>t DEF Commits, Placed
    <2>2. /\ op' = op /\ newAccount' = newAccount /\ \A o \in Calls : o # c => call'[o] = call[o]
          /\ call'[c].at # "holds"
        BY <1>4, <1>t DEF Commits, Leaves, Idle, Request
    <2> QED
        BY <2>1, <2>2 DEF Steady
<1>5. ASSUME NEW c \in Calls, Sends(c) PROVE Steady
    <2>1. /\ op' = op /\ newAccount' = newAccount /\ \A o \in Calls : o # c => call'[o] = call[o]
          /\ call'[c].at = "works" /\ call'[c].wf = call[c].wf /\ call'[c].over = call[c].over
          /\ call'[c].bonus = call[c].bonus /\ call'[c].seen = call[c].seen
        BY <1>5, <1>t DEF Sends, Request
    <2> QED
        BY <2>1 DEF Steady
<1>6. ASSUME NEW c \in Calls, Answers(c) PROVE Steady
    <2>1. /\ newAccount' = newAccount
          /\ \A o \in Calls : o # c => call'[o] = call[o] /\ op'[o] = op[o]
          /\ call'[c].at = call[c].at /\ call[c].at # "holds" /\ call'[c].wf = call[c].wf
          /\ call'[c].over = call[c].over
          /\ call'[c].bonus = call[c].bonus /\ call'[c].seen = call[c].seen
        BY <1>6, <1>t DEF Answers, Recorded, Request, Operation
    <2>2. op'[c].st = op[c].st /\ op'[c].day = op[c].day
        BY <1>6, <1>t DEF Answers, Recorded, Request, Operation
    <2> QED
        BY <2>1, <2>2 DEF Steady
<1>7. ASSUME NEW c \in Calls, Finishes(c) PROVE Steady
    <2>1. /\ newAccount' = newAccount /\ op[c].st = "running"
          /\ \A o \in Calls : o # c => call'[o] = call[o] /\ op'[o] = op[o]
          /\ call'[c].at = "ended" /\ call'[c].wf = call[c].wf
          /\ call'[c].over = call[c].over
          /\ call'[c].bonus = call[c].bonus /\ call'[c].seen = call[c].seen
        BY <1>7, <1>t DEF Finishes, Finished, Goes, Request, Operation, Placed
    <2>2. op'[c].st # "none" /\ op'[c].day = op[c].day
        BY <1>7, <2>1, <1>t DEF Finishes, Finished, Operation
    <2> QED
        BY <2>1, <2>2 DEF Steady
<1>8. ASSUME NEW c \in Calls, Crashes(c) PROVE Steady
    <2>1. op' = op /\ newAccount' = newAccount /\ \A o \in Calls : o # c => call'[o] = call[o]
        BY <1>8, <1>t DEF Crashes, Leaves
    <2>2. CASE call[c].at = "works"
        <3>1. /\ call'[c].at = "ended" /\ call'[c].wf = call[c].wf /\ call'[c].over = call[c].over
              /\ call'[c].bonus = call[c].bonus /\ call'[c].seen = call[c].seen
            BY <1>8, <2>2, <1>t DEF Crashes, Request
        <3> QED
            BY <2>1, <3>1 DEF Steady
    <2>3. CASE call[c].at # "works"
        <3>1. op[c].st = "none" /\ call'[c].at = "ended"
            BY <1>8, <2>3, <1>t DEF Crashes, Leaves, Idle, Placed
        <3> QED
            BY <2>1, <3>1 DEF Steady
    <2> QED
        BY <2>2, <2>3
<1>9. ASSUME \/ \E w \in Workflows, p \in Policies : EditsPolicy(w, p)
             \/ GrantsBonus
             \/ \E w \in Workflows, unpriced \in BOOLEAN : LooseUsage(w, unpriced)
             \/ Midnight \/ UNCHANGED vars
      PROVE  Steady
    <2>1. UNCHANGED <<newAccount, op, call>>
        BY <1>9 DEF EditsPolicy, GrantsBonus, LooseUsage, Midnight, vars
    <2> QED
        BY <2>1 DEF Steady
<1> QED
    BY <1>1, <1>2, <1>3, <1>4, <1>5, <1>6, <1>7, <1>8, <1>9 DEF Next, Steps

LEMMA PartsAreFinite == ASSUME NEW S \in SUBSET Calls PROVE
    IsFiniteSet(NotFailed(S)) /\ Cardinality(NotFailed(S)) \in Nat
<1>1. NotFailed(S) \subseteq Calls
    BY DEF NotFailed
<1> QED
    BY <1>1, FS_Subset, FS_CardinalityType

\* Fewer rows, a smaller count.
LEMMA FewerRows == ASSUME NEW A, NEW B, IsFiniteSet(B), A \subseteq B PROVE
    IsFiniteSet(A) /\ Cardinality(A) \in Nat /\ Cardinality(A) <= Cardinality(B)
BY FS_Subset, FS_CardinalityType

\* One more row, one more.
LEMMA OneMoreRow == ASSUME NEW A, NEW B, NEW c, NEW n, IsFiniteSet(B), A \subseteq B \cup {c},
                           n \in Nat, Cardinality(B) < n
                    PROVE  Cardinality(A) <= n
<1>1. /\ IsFiniteSet(B \cup {c}) /\ Cardinality(B) \in Nat
      /\ Cardinality(B \cup {c}) = Cardinality(B) \/ Cardinality(B \cup {c}) = Cardinality(B) + 1
    BY FS_AddElement, FS_CardinalityType
<1>2. Cardinality(A) \in Nat /\ Cardinality(A) <= Cardinality(B \cup {c})
    BY <1>1, FewerRows
<1>3. Cardinality(A) <= Cardinality(B) + 1
    BY <1>1, <1>2
<1> QED
    BY <1>1, <1>2, <1>3

\* The counts a verdict compares; its money is not among them.
CountsLeft(c) ==
    /\ ToolCallsLeft(c)
    /\ Stepped(c) => Cardinality(NotFailed(SameSteps(c))) < Base + call[c].bonus
    /\ BonusLeft(c)

\* A call that holds the lock with a yes could still be told yes.
VerdictsStand == \A c \in Calls : call[c].at = "holds" /\ call[c].fits => CountsLeft(c)

LEMMA SteadyVerdicts == ASSUME Shaped, Shaped', VerdictsStand, Steady PROVE VerdictsStand'
<1> SUFFICES ASSUME NEW c \in Calls, call'[c].at = "holds", call'[c].fits PROVE CountsLeft(c)'
    BY DEF VerdictsStand
<1>t. /\ op \in [Calls -> Operation] /\ call \in [Calls -> Request]
      /\ op' \in [Calls -> Operation] /\ call' \in [Calls -> Request]
    BY DEF Shaped, TypeOK
<1>1. CountsLeft(c) /\ call'[c].wf = call[c].wf /\ call'[c].over = call[c].over
      /\ call'[c].bonus = call[c].bonus /\ call'[c].seen = call[c].seen /\ call'[c].day = call[c].day
    <2>1. CASE call'[c] = call[c]
        BY <2>1 DEF VerdictsStand
    <2>2. CASE Locks(c)
        <3>1. /\ call'[c].fits = Fits(c)
              /\ call'[c].wf = call[c].wf /\ call'[c].over = call[c].over
              /\ call'[c].bonus = call[c].bonus /\ call'[c].seen = call[c].seen
              /\ call'[c].day = call[c].day
            BY <2>2, <1>t DEF Locks, Request
        <3> QED
            BY <3>1 DEF Fits, StepsLeft, CountsLeft
    <2> QED
        BY <2>1, <2>2 DEF Steady
<1>2. /\ Since(c)' = Since(c) /\ Since(c) \subseteq Calls
      /\ \A o \in Since(c) : /\ op[o].st # "none"
                             /\ call'[o].wf = call[o].wf /\ call'[o].over = call[o].over
    BY <1>1 DEF Steady, Since
<1>3. /\ SameTool(c)' = SameTool(c) /\ SameSteps(c)' = SameSteps(c) /\ SameBonus(c)' = SameBonus(c)
    BY <1>1, <1>2 DEF SameTool, SameSteps, SameBonus, Counts
<1>4. ASSUME NEW S \in SUBSET Calls PROVE
        /\ NotFailed(S)' \in SUBSET NotFailed(S)
        /\ Cardinality(NotFailed(S)') \in Nat /\ Cardinality(NotFailed(S)) \in Nat
        /\ Cardinality(NotFailed(S)') <= Cardinality(NotFailed(S))
    <2>1. NotFailed(S)' \subseteq NotFailed(S)
        BY DEF Steady, NotFailed
    <2> QED
        BY <2>1, PartsAreFinite, FewerRows
<1>5. SameTool(c) \in SUBSET Calls /\ SameSteps(c) \in SUBSET Calls /\ SameBonus(c) \in SUBSET Calls
    BY DEF SameTool, SameSteps, SameBonus, Since
<1>6. call[c].bonus \in Nat /\ call[c].seen.calls \in Limit
    BY <1>t DEF Request, ToolPolicy
<1>7. ToolCallsLeft(c)'
    <2>1. CASE call[c].seen.calls = NoLimit
        BY <1>1, <2>1 DEF ToolCallsLeft
    <2>2. CASE call[c].seen.calls # NoLimit
        <3>1. call[c].seen.calls \in Nat /\ Cardinality(NotFailed(SameTool(c))) < call[c].seen.calls
            BY <2>2, <1>1, <1>6 DEF CountsLeft, ToolCallsLeft, Limit
        <3>2. Cardinality(NotFailed(SameTool(c))') < call[c].seen.calls
            BY <1>4, <1>5, <3>1, <1>3
        <3> QED
            BY <3>2, <1>1 DEF ToolCallsLeft
    <2> QED
        BY <2>1, <2>2
<1>8. (Stepped(c) => Cardinality(NotFailed(SameSteps(c))) < Base + call[c].bonus)'
    <2> SUFFICES ASSUME Stepped(c)' PROVE (Cardinality(NotFailed(SameSteps(c))) < Base + call[c].bonus)'
        OBVIOUS
    <2>1. Stepped(c)
        BY <1>1 DEF Stepped, Counts, Steady
    <2>2. Cardinality(NotFailed(SameSteps(c))) < Base + call[c].bonus
        BY <2>1, <1>1 DEF CountsLeft
    <2>3. Cardinality(NotFailed(SameSteps(c))') < Base + call[c].bonus
        BY <1>4, <1>5, <2>2, <1>3, <1>6
    <2> QED
        BY <2>3, <1>1
<1>9. BonusLeft(c)'
    <2>1. CASE ~call[c].over
        BY <2>1, <1>1 DEF BonusLeft
    <2>2. CASE call[c].over
        <3>1. Cardinality(NotFailed(SameBonus(c))) < call[c].bonus
            BY <2>2, <1>1 DEF CountsLeft, BonusLeft
        <3>2. Cardinality(NotFailed(SameBonus(c))') < call[c].bonus
            BY <1>4, <1>5, <3>1, <1>3, <1>6
        <3> QED
            BY <3>2, <1>1 DEF BonusLeft
    <2> QED
        BY <2>1, <2>2
<1> QED
    BY <1>7, <1>8, <1>9 DEF CountsLeft

\* Only the holder commits, so nobody else is left with a verdict.
LEMMA CommitVerdicts ==
    ASSUME Shaped, Shaped', NEW c \in Calls, Commits(c) PROVE VerdictsStand'
<1>1. holder' = Nobody
    BY DEF Commits, Unlocked, Shaped, Placed
<1>2. \A o \in Calls : call'[o].at # "holds"
    BY <1>1 DEF Shaped, Placed
<1> QED
    BY <1>2 DEF VerdictsStand

LEMMA SteadyLimits == ASSUME Shaped, Shaped', CallsStayWithinLimits, Steady
                      PROVE CallsStayWithinLimits'
<1>t. /\ op \in [Calls -> Operation] /\ call \in [Calls -> Request]
    BY DEF Shaped, TypeOK
<1>1. ASSUME NEW d \in Days PROVE
      /\ Admitted(d)' = Admitted(d) /\ OfSteps(d)' = OfSteps(d) /\ OfBonus(d)' = OfBonus(d)
      /\ \A w \in Workflows : OfTool(w, d)' = OfTool(w, d) /\ OfTool(w, d) \subseteq Admitted(d)
      /\ OfSteps(d) \subseteq Admitted(d) /\ OfBonus(d) \subseteq Admitted(d)
    <2>1. Admitted(d)' = Admitted(d) /\ \A o \in Admitted(d) : o \in Calls /\ op[o].st # "none"
        BY DEF Steady, Admitted
    <2>2. \A o \in Admitted(d) : call'[o].wf = call[o].wf /\ call'[o].over = call[o].over
        BY <2>1 DEF Steady
    <2> QED
        BY <2>1, <2>2 DEF OfSteps, OfBonus, OfTool, Counts
<1>2. ASSUME NEW d \in Days, NEW S \in SUBSET Admitted(d) PROVE
        /\ NotFailed(S)' \subseteq NotFailed(S)
        /\ Cardinality(NotFailed(S)') \in Nat /\ Cardinality(NotFailed(S)) \in Nat
        /\ Cardinality(NotFailed(S)') <= Cardinality(NotFailed(S))
        /\ \A o \in S : /\ o \in Calls
                        /\ call'[o].seen = call[o].seen /\ call'[o].bonus = call[o].bonus
                        /\ call[o].bonus \in Nat /\ call[o].seen.calls \in Limit
    <2>1. NotFailed(S)' \subseteq NotFailed(S) /\ S \in SUBSET Calls
        BY DEF Steady, NotFailed, Admitted
    <2>2. \A o \in S : /\ o \in Calls
                       /\ call'[o].seen = call[o].seen /\ call'[o].bonus = call[o].bonus
        BY DEF Steady, Admitted
    <2>3. \A o \in S : call[o].bonus \in Nat /\ call[o].seen.calls \in Limit
        BY <2>2, <1>t DEF Request, ToolPolicy
    <2> QED
        BY <2>1, <2>2, <2>3, PartsAreFinite, FewerRows
<1> SUFFICES ASSUME NEW d \in Days PROVE
      /\ \A w \in Workflows :
           \/ (NotFailed(OfTool(w, d)) = {})'
           \/ \E c \in OfTool(w, d)' : \/ call'[c].seen.calls = NoLimit
                                       \/ Cardinality(NotFailed(OfTool(w, d))') <= call'[c].seen.calls
      /\ newAccount' /\ NotFailed(OfSteps(d))' # {} =>
           \E c \in OfSteps(d)' : Cardinality(NotFailed(OfSteps(d))') <= Base + call'[c].bonus
      /\ NotFailed(OfBonus(d))' # {} =>
           \E c \in OfBonus(d)' : Cardinality(NotFailed(OfBonus(d))') <= call'[c].bonus
    BY DEF CallsStayWithinLimits
<1>3. ASSUME NEW w \in Workflows, (NotFailed(OfTool(w, d)) # {})' PROVE
        \E c \in OfTool(w, d)' : \/ call'[c].seen.calls = NoLimit
                                 \/ Cardinality(NotFailed(OfTool(w, d))') <= call'[c].seen.calls
    <2> DEFINE S == OfTool(w, d)
    <2>1. S' = S /\ S \in SUBSET Admitted(d)
        BY <1>1
    <2>2. NotFailed(S) # {}
        BY <1>2, <1>3, <2>1
    <2>3. PICK c \in S : call[c].seen.calls = NoLimit \/ Cardinality(NotFailed(S)) <= call[c].seen.calls
        BY <2>2 DEF CallsStayWithinLimits
    <2>4. call'[c].seen.calls = NoLimit \/ Cardinality(NotFailed(S)') <= call'[c].seen.calls
        BY <2>1, <2>3, <1>2 DEF Limit
    <2> QED
        BY <2>1, <2>4
<1>4. ASSUME newAccount', NotFailed(OfSteps(d))' # {} PROVE
        \E c \in OfSteps(d)' : Cardinality(NotFailed(OfSteps(d))') <= Base + call'[c].bonus
    <2> DEFINE S == OfSteps(d)
    <2>1. S' = S /\ S \in SUBSET Admitted(d)
        BY <1>1
    <2>2. NotFailed(S) # {} /\ newAccount
        BY <1>2, <1>4, <2>1 DEF Steady
    <2>3. PICK c \in S : Cardinality(NotFailed(S)) <= Base + call[c].bonus
        BY <2>2 DEF CallsStayWithinLimits
    <2>4. Cardinality(NotFailed(S)') <= Base + call'[c].bonus
        BY <2>1, <2>3, <1>2
    <2> QED
        BY <2>1, <2>4
<1>5. ASSUME NotFailed(OfBonus(d))' # {} PROVE
        \E c \in OfBonus(d)' : Cardinality(NotFailed(OfBonus(d))') <= call'[c].bonus
    <2> DEFINE S == OfBonus(d)
    <2>1. S' = S /\ S \in SUBSET Admitted(d)
        BY <1>1
    <2>2. NotFailed(S) # {}
        BY <1>2, <1>5, <2>1
    <2>3. PICK c \in S : Cardinality(NotFailed(S)) <= call[c].bonus
        BY <2>2 DEF CallsStayWithinLimits
    <2>4. Cardinality(NotFailed(S)') <= call'[c].bonus
        BY <2>1, <2>3, <1>2
    <2> QED
        BY <2>1, <2>4
<1> QED
    BY <1>3, <1>4, <1>5

LEMMA CommitLimits ==
    ASSUME Shaped, Shaped', CallsStayWithinLimits, VerdictsStand,
           NEW c \in Calls, Commits(c), call[c].fits
    PROVE  CallsStayWithinLimits'
<1>t. /\ op \in [Calls -> Operation] /\ call \in [Calls -> Request] /\ call'[c] \in Request
      /\ call[c].bonus \in Nat /\ call[c].seen.calls \in Limit /\ newAccount' = newAccount
    BY DEF Shaped, TypeOK, Request, ToolPolicy, Commits
<1>1. /\ op[c].st = "none" /\ op'[c].st = "running" /\ op'[c].day = call[c].day
      /\ \A o \in Calls : o # c => op'[o] = op[o] /\ call'[o] = call[o]
      /\ call'[c].wf = call[c].wf /\ call'[c].over = call[c].over
      /\ call'[c].bonus = call[c].bonus /\ call'[c].seen = call[c].seen
    <2>1. /\ call[c].at = "holds"
          /\ op' = [op EXCEPT ![c] = [Blank EXCEPT !.st = "running", !.day = call[c].day,
                                                   !.reserved = Reserve(c)]]
          /\ \E at \in {"works", "ended"} : Goes(c, at)
        BY DEF Commits
    <2>2. op[c].st = "none"
        BY <2>1 DEF Shaped, Placed
    <2>3. op'[c].st = "running" /\ op'[c].day = call[c].day
        BY <2>1, <1>t DEF Blank
    <2>4. /\ call'[c].wf = call[c].wf /\ call'[c].over = call[c].over
          /\ call'[c].bonus = call[c].bonus /\ call'[c].seen = call[c].seen
          /\ \A o \in Calls : o # c => op'[o] = op[o] /\ call'[o] = call[o]
        BY <2>1, <1>t DEF Goes, Request
    <2> QED
        BY <2>2, <2>3, <2>4
<1>2. CountsLeft(c)
    BY DEF VerdictsStand, Commits
<1>3. ASSUME NEW d \in Days, d # call[c].day PROVE
      /\ OfSteps(d)' = OfSteps(d) /\ OfBonus(d)' = OfBonus(d)
      /\ \A w \in Workflows : OfTool(w, d)' = OfTool(w, d) /\ c \notin OfTool(w, d)
      /\ c \notin OfSteps(d) /\ c \notin OfBonus(d)
    <2>1. Admitted(d)' = Admitted(d) /\ c \notin Admitted(d)
        BY <1>1, <1>3 DEF Admitted
    <2> QED
        BY <2>1, <1>1 DEF OfSteps, OfBonus, OfTool, Counts, Admitted
<1>4. \A S \in SUBSET Calls : c \notin S => NotFailed(S)' = NotFailed(S)
    BY <1>1 DEF NotFailed
<1>5. ASSUME NEW d \in Days PROVE
      /\ OfSteps(d) \in SUBSET Calls /\ OfBonus(d) \in SUBSET Calls
      /\ \A w \in Workflows : OfTool(w, d) \in SUBSET Calls
    BY DEF OfSteps, OfBonus, OfTool, Admitted
\* The rows of its day, after it, were all in the snapshot it was judged by.
<1>6. ASSUME NEW d \in Days, d = call[c].day PROVE
      /\ \A w \in Workflows : w = call[c].wf =>
           NotFailed(OfTool(w, d))' \subseteq NotFailed(SameTool(c)) \cup {c}
      /\ NotFailed(OfSteps(d))' \subseteq NotFailed(SameSteps(c)) \cup {c}
      /\ NotFailed(OfBonus(d))' \subseteq NotFailed(SameBonus(c)) \cup {c}
    <2>1. d \in Nat
        BY DaysFit
    <2>2. \A o \in Admitted(d)' : o = c \/ o \in Since(c)
        BY <1>1, <2>1, <1>6 DEF Admitted, Since
    <2>3. \A o \in Calls : o # c => op'[o].st = op[o].st /\ call'[o].wf = call[o].wf
                                    /\ call'[o].over = call[o].over
        BY <1>1
    <2> QED
        BY <2>2, <2>3, <1>1 DEF NotFailed, OfTool, OfSteps, OfBonus, SameTool, SameSteps, SameBonus,
              Counts, Admitted
<1>7. /\ SameTool(c) \in SUBSET Calls /\ SameSteps(c) \in SUBSET Calls /\ SameBonus(c) \in SUBSET Calls
    BY DEF SameTool, SameSteps, SameBonus, Since
<1>8. \A S \in SUBSET Calls : IsFiniteSet(NotFailed(S)) /\ Cardinality(NotFailed(S)) \in Nat
    BY PartsAreFinite
<1>9. \A d \in Days : d = call[c].day => c \in Admitted(d)'
    BY <1>1 DEF Admitted
<1>10. ASSUME NEW d \in Days, NEW w \in Workflows, (NotFailed(OfTool(w, d)) # {})' PROVE
        \E o \in OfTool(w, d)' : \/ call'[o].seen.calls = NoLimit
                                 \/ Cardinality(NotFailed(OfTool(w, d))') <= call'[o].seen.calls
    <2>1. CASE d = call[c].day /\ w = call[c].wf
        <3>1. c \in OfTool(w, d)'
            BY <1>1, <1>9, <2>1 DEF OfTool
        <3>2. CASE call[c].seen.calls = NoLimit
            BY <3>1, <3>2, <1>1
        <3>3. CASE call[c].seen.calls # NoLimit
            <4>1. call[c].seen.calls \in Nat /\ Cardinality(NotFailed(SameTool(c))) < call[c].seen.calls
                BY <3>3, <1>2, <1>t DEF CountsLeft, ToolCallsLeft, Limit
            <4>2. Cardinality(NotFailed(OfTool(w, d))') <= call[c].seen.calls
                BY <4>1, <1>6, <1>7, <1>8, <2>1, OneMoreRow
            <4> QED
                BY <3>1, <4>2, <1>1
        <3> QED
            BY <3>2, <3>3
    <2>2. CASE d # call[c].day \/ w # call[c].wf
        <3>1. OfTool(w, d)' = OfTool(w, d) /\ c \notin OfTool(w, d)
            <4>1. CASE d # call[c].day
                BY <4>1, <1>3
            <4>2. CASE w # call[c].wf
                BY <4>2, <1>1 DEF OfTool, Admitted
            <4> QED
                BY <4>1, <4>2, <2>2
        <3>2. NotFailed(OfTool(w, d))' = NotFailed(OfTool(w, d))
            BY <3>1, <1>4, <1>5
        <3>3. PICK o \in OfTool(w, d) :
                  call[o].seen.calls = NoLimit \/ Cardinality(NotFailed(OfTool(w, d))) <= call[o].seen.calls
            BY <3>2, <1>10 DEF CallsStayWithinLimits
        <3>4. call'[o] = call[o]
            BY <3>1, <1>1, <1>5
        <3> QED
            BY <3>1, <3>2, <3>3, <3>4
    <2> QED
        BY <2>1, <2>2
<1>11. ASSUME NEW d \in Days, newAccount', NotFailed(OfSteps(d))' # {} PROVE
        \E o \in OfSteps(d)' : Cardinality(NotFailed(OfSteps(d))') <= Base + call'[o].bonus
    <2>1. CASE d = call[c].day /\ Counts(c)
        <3>1. c \in OfSteps(d)'
            BY <1>1, <1>9, <2>1 DEF OfSteps, Counts
        <3>2. Cardinality(NotFailed(SameSteps(c))) < Base + call[c].bonus
            BY <2>1, <1>2, <1>11, <1>t DEF CountsLeft, Stepped
        <3>3. Base + call[c].bonus \in Nat
            BY <1>t
        <3>5. /\ IsFiniteSet(NotFailed(SameSteps(c)))
              /\ NotFailed(OfSteps(d))' \subseteq NotFailed(SameSteps(c)) \cup {c}
            BY <1>6, <1>7, <1>8, <2>1
        <3> DEFINE n == Base + call[c].bonus
                   A == NotFailed(OfSteps(d))'
                   B == NotFailed(SameSteps(c))
        <3>4. Cardinality(NotFailed(OfSteps(d))') <= Base + call[c].bonus
            <4>1. n \in Nat /\ Cardinality(B) < n /\ IsFiniteSet(B) /\ A \subseteq B \cup {c}
                BY <3>2, <3>3, <3>5
            <4> HIDE DEF n, A, B
            <4>2. Cardinality(A) <= n
                BY <4>1, OneMoreRow
            <4> QED
                BY <4>2 DEF n, A
        <3> QED
            BY <3>1, <3>4, <1>1
    <2>2. CASE d # call[c].day \/ ~Counts(c)
        <3>1. OfSteps(d)' = OfSteps(d) /\ c \notin OfSteps(d)
            <4>1. CASE d # call[c].day
                BY <4>1, <1>3
            <4>2. CASE ~Counts(c)
                BY <4>2, <1>1 DEF OfSteps, Admitted, Counts
            <4> QED
                BY <4>1, <4>2, <2>2
        <3>2. NotFailed(OfSteps(d))' = NotFailed(OfSteps(d))
            BY <3>1, <1>4, <1>5
        <3>3. PICK o \in OfSteps(d) : Cardinality(NotFailed(OfSteps(d))) <= Base + call[o].bonus
            BY <3>2, <1>11, <1>t DEF CallsStayWithinLimits
        <3>4. call'[o] = call[o]
            BY <3>1, <1>1, <1>5
        <3> QED
            BY <3>1, <3>2, <3>3, <3>4
    <2> QED
        BY <2>1, <2>2
<1>12. ASSUME NEW d \in Days, NotFailed(OfBonus(d))' # {} PROVE
        \E o \in OfBonus(d)' : Cardinality(NotFailed(OfBonus(d))') <= call'[o].bonus
    <2>1. CASE d = call[c].day /\ call[c].over
        <3>1. c \in OfBonus(d)'
            BY <1>1, <1>9, <2>1 DEF OfBonus
        <3>2. Cardinality(NotFailed(SameBonus(c))) < call[c].bonus
            BY <2>1, <1>2 DEF CountsLeft, BonusLeft
        <3>4. /\ IsFiniteSet(NotFailed(SameBonus(c)))
              /\ NotFailed(OfBonus(d))' \subseteq NotFailed(SameBonus(c)) \cup {c}
            BY <1>6, <1>7, <1>8, <2>1
        <3>3. Cardinality(NotFailed(OfBonus(d))') <= call[c].bonus
            BY <3>2, <3>4, <1>t, OneMoreRow
        <3> QED
            BY <3>1, <3>3, <1>1
    <2>2. CASE d # call[c].day \/ ~call[c].over
        <3>1. OfBonus(d)' = OfBonus(d) /\ c \notin OfBonus(d)
            <4>1. CASE d # call[c].day
                BY <4>1, <1>3
            <4>2. CASE ~call[c].over
                BY <4>2, <1>1 DEF OfBonus, Admitted
            <4> QED
                BY <4>1, <4>2, <2>2
        <3>2. NotFailed(OfBonus(d))' = NotFailed(OfBonus(d))
            BY <3>1, <1>4, <1>5
        <3>3. PICK o \in OfBonus(d) : Cardinality(NotFailed(OfBonus(d))) <= call[o].bonus
            BY <3>2, <1>12 DEF CallsStayWithinLimits
        <3>4. call'[o] = call[o]
            BY <3>1, <1>1, <1>5
        <3> QED
            BY <3>1, <3>2, <3>3, <3>4
    <2> QED
        BY <2>1, <2>2
<1> QED
    BY <1>10, <1>11, <1>12 DEF CallsStayWithinLimits

\* No day has more calls, running or succeeded, than the most generous limit
\* one of them had read: the tool's, the progress allowance's and the
\* bonus's, for any number of calls, policy edits, bonuses and crashes.
THEOREM CallsAlwaysWithinLimits == Spec => []CallsStayWithinLimits
<1> DEFINE I == Shaped /\ VerdictsStand /\ CallsStayWithinLimits
<1>1. Init => I
    <2> SUFFICES ASSUME Init PROVE I
        OBVIOUS
    <2>1. Shaped
        BY ShapedInit
    <2>2. \A c \in Calls : op[c].st = "none" /\ holder = Nobody
        BY DEF Init, Blank
    <2>3. VerdictsStand
        BY <2>1, <2>2 DEF VerdictsStand, Shaped, Placed
    <2>4. \A d \in Days : Admitted(d) = {}
        BY <2>2 DEF Admitted
    <2>5. CallsStayWithinLimits
        BY <2>4 DEF CallsStayWithinLimits, OfTool, OfSteps, OfBonus, NotFailed
    <2> QED
        BY <2>1, <2>3, <2>5
<1>2. I /\ [Next]_vars => I'
    <2> SUFFICES ASSUME I, [Next]_vars PROVE I'
        OBVIOUS
    <2>1. Shaped'
        BY ShapedStep
    <2>2. CASE Steady
        BY <2>1, <2>2, SteadyVerdicts, SteadyLimits
    <2>3. ASSUME NEW c \in Calls, Commits(c), call[c].fits PROVE I'
        BY <2>1, <2>3, CommitVerdicts, CommitLimits
    <2> QED
        BY <2>2, <2>3, StepKinds
<1>3. I => CallsStayWithinLimits
    OBVIOUS
<1> QED
    BY <1>1, <1>2, <1>3, PTL DEF Spec

-----------------------------------------------------------------------------
(***************************************************************************)
(* Stuck rows: every one cost a fault.                                     *)
(***************************************************************************)
Stuck == {c \in Calls : op[c].st = "running" /\ call[c].at = "ended"}

LEMMA StuckSteps == ASSUME Shaped, [Next]_vars PROVE
    \/ Stuck' \subseteq Stuck /\ faults' >= faults
    \/ \E c \in Calls : Stuck' \subseteq Stuck \cup {c} /\ faults' = faults + 1
<1>t. /\ op \in [Calls -> Operation] /\ call \in [Calls -> Request]
      /\ \A o \in Calls : Placed(o)
      /\ faults \in Nat
    BY DEF Shaped, TypeOK
<1>1. ASSUME NEW c \in Calls, Steps(c), faults' = faults + 1 PROVE
        Stuck' \subseteq Stuck \cup {c}
    <2>1. \A o \in Calls : o # c => op'[o] = op[o] /\ call'[o] = call[o]
        BY <1>1, <1>t DEF Steps, ReadsPolicy, ReadsAllowance, Opens, Locks, Commits, Sends, Answers,
              Recorded, Finishes, Finished, Crashes, Leaves, Goes
    <2> QED
        BY <2>1 DEF Stuck
<1>2. ASSUME NEW c \in Calls, Steps(c), faults' = faults PROVE Stuck' \subseteq Stuck
    <2>1. \A o \in Calls : o # c => op'[o] = op[o] /\ call'[o] = call[o]
        BY <1>2, <1>t DEF Steps, ReadsPolicy, ReadsAllowance, Opens, Locks, Commits, Sends, Answers,
              Recorded, Finishes, Finished, Crashes, Leaves, Goes
    <2>2. c \in Stuck' => c \in Stuck
        <3>1. CASE (\E w \in Workflows, over \in BOOLEAN : ReadsPolicy(c, w, over))
                   \/ ReadsAllowance(c) \/ Opens(c) \/ Locks(c)
            BY <3>1, <1>t DEF ReadsPolicy, ReadsAllowance, Opens, Locks, Placed, Stuck
        <3>2. CASE Commits(c)
            <4>1. CASE call[c].fits
                <5>1. Goes(c, "works")
                    BY <1>2, <3>2, <4>1, <1>t DEF Commits, Fault
                <5> QED
                    BY <5>1, <1>t DEF Goes, Stuck
            <4>2. CASE ~call[c].fits
                BY <3>2, <4>2, <1>t DEF Commits, Placed, Stuck
            <4> QED
                BY <4>1, <4>2
        <3>3. CASE Sends(c)
            BY <3>3, <1>t DEF Sends, Stuck, Request
        <3>4. CASE Answers(c)
            <4>1. op'[c].st = op[c].st /\ call'[c].at = call[c].at
                BY <3>4, <1>t DEF Answers, Recorded, Request, Operation
            <4> QED
                BY <4>1 DEF Stuck
        <3>5. CASE Finishes(c)
            <4>1. PICK status \in {"succeeded", "failed"} : op' = Finished(c, status)
                BY <1>2, <3>5, <1>t DEF Finishes, Fault
            <4>2. op'[c].st = status
                BY <4>1, <1>t DEF Finished, Operation
            <4> QED
                BY <4>2 DEF Stuck
        <3>6. CASE Crashes(c)
            BY <1>2, <3>6, <1>t DEF Crashes, Fault
        <3> QED
            BY <1>2, <3>1, <3>2, <3>3, <3>4, <3>5, <3>6 DEF Steps
    <2> QED
        BY <2>1, <2>2 DEF Stuck
<1>3. ASSUME NEW c \in Calls, Steps(c) PROVE faults' = faults \/ faults' = faults + 1
    BY <1>3 DEF Steps, ReadsPolicy, ReadsAllowance, Opens, Locks, Commits, Sends, Answers,
          Finishes, Crashes, Fault
<1>4. ASSUME ~\E c \in Calls : Steps(c) PROVE Stuck' = Stuck /\ faults' = faults
    <2>1. UNCHANGED <<op, call, faults>>
        BY <1>4 DEF Next, EditsPolicy, GrantsBonus, LooseUsage, Midnight, vars
    <2> QED
        BY <2>1 DEF Stuck
<1> QED
    BY <1>1, <1>2, <1>3, <1>4, <1>t

\* A row left running for ever had a crash, a lost answer or a failed update
\* of its own, for any number of calls and faults.
THEOREM StuckAlwaysPaid == Spec => []StuckRunsHaveFaults
<1> DEFINE I == Shaped /\ Cardinality(Stuck) <= faults
<1>1. Init => I
    <2> SUFFICES ASSUME Init PROVE I
        OBVIOUS
    <2>1. Stuck = {} /\ faults = 0
        BY DEF Init, Stuck, Blank
    <2> QED
        BY <2>1, ShapedInit, FS_EmptySet
<1>2. I /\ [Next]_vars => I'
    <2> SUFFICES ASSUME I, [Next]_vars PROVE I'
        OBVIOUS
    <2>1. Shaped' /\ faults \in Nat /\ faults' \in Nat
        <3>1. Shaped'
            BY ShapedStep
        <3> QED
            BY <3>1 DEF Shaped, TypeOK
    <2>2. IsFiniteSet(Stuck) /\ IsFiniteSet(Stuck') /\ Cardinality(Stuck) \in Nat
        <3>1. Stuck \subseteq Calls /\ Stuck' \subseteq Calls
            BY DEF Stuck
        <3> QED
            BY <3>1, FS_Subset, FS_CardinalityType
    <2>3. CASE Stuck' \subseteq Stuck /\ faults' >= faults
        <3>1. Cardinality(Stuck') \in Nat /\ Cardinality(Stuck') <= Cardinality(Stuck)
            BY <2>2, <2>3, FewerRows
        <3> QED
            BY <3>1, <2>1, <2>2, <2>3
    <2>4. ASSUME NEW c \in Calls, Stuck' \subseteq Stuck \cup {c}, faults' = faults + 1 PROVE I'
        <3>1. Cardinality(Stuck) < faults' /\ faults' \in Nat
            BY <2>1, <2>2, <2>4
        <3>2. Cardinality(Stuck') <= faults'
            BY <3>1, <2>2, <2>4, OneMoreRow
        <3> QED
            BY <3>2, <2>1
    <2> QED
        BY <2>3, <2>4, StuckSteps
<1>3. I => StuckRunsHaveFaults
    BY DEF StuckRunsHaveFaults, Stuck
<1> QED
    BY <1>1, <1>2, <1>3, PTL DEF Spec

-----------------------------------------------------------------------------
(***************************************************************************)
(* Bills: what gave its reservation back has recorded all it owes.         *)
(***************************************************************************)
Done(o) == op[o].st \in {"succeeded", "failed"}

\* What finish knew when it settled the row stays so: nothing of it is in flight.
Honest(o) ==
    /\ Done(o) => call[o].at = "ended" /\ op[o].incomplete = call[o].incomplete
    /\ Done(o) => call[o].flying = 0
    /\ op[o].notCalled => Done(o) /\ call[o].sent = 0
    /\ (Done(o) \/ call[o].at = "works") /\ ~call[o].incomplete /\ ~op[o].unpriced =>
         op[o].cost + call[o].flying = call[o].sent

Paid(o) == op[o].reserved > 0 \/ (Done(o) /\ op[o].cost >= call[o].sent)
Measured(c) ==
    call[c].at = "holds" /\ call[c].fits /\ call[c].seen.usd # NoLimit =>
      \A o \in SameTool(c) : Paid(o)

\* A row that is not unknown either holds a reservation or has all of its bill.
LEMMA KnownIsPaid == ASSUME Shaped, NEW o \in Calls, Honest(o), op[o].st # "none", ~Unknown(o)
                     PROVE  Paid(o)
<1>1. op[o] \in Operation /\ call[o] \in Request
    BY DEF Shaped, TypeOK
<1>2. CASE op[o].reserved > 0
    BY <1>2 DEF Paid
<1>3. CASE op[o].notCalled
    BY <1>1, <1>3 DEF Paid, Honest, Operation, Request
<1>4. CASE op[o].reserved = 0 /\ ~op[o].notCalled
    <2>1. Done(o) /\ ~op[o].incomplete /\ ~op[o].unpriced
        BY <1>1, <1>4 DEF Unknown, Done, Operation
    <2>2. op[o].cost = call[o].sent
        BY <2>1, <1>1 DEF Honest, Operation, Request
    <2> QED
        BY <2>1, <2>2, <1>1 DEF Paid, Operation
<1> QED
    BY <1>1, <1>2, <1>3, <1>4 DEF Operation

\* A row, and a bill that is settled, stays settled.
StaysPaid(o) == op[o].st # "none" /\ Paid(o) => Paid(o)'

LEMMA HonestStep == ASSUME ~Parallel, Shaped, Shaped', \A o \in Calls : Honest(o), [Next]_vars
                    PROVE  \A o \in Calls : Honest(o)' /\ StaysPaid(o)
<1>t. /\ op \in [Calls -> Operation] /\ call \in [Calls -> Request]
      /\ \A o \in Calls : Placed(o) /\ Honest(o)
    BY DEF Shaped, TypeOK
<1> SUFFICES ASSUME NEW o \in Calls PROVE Honest(o)' /\ StaysPaid(o)
    OBVIOUS
<1>q. op[o] \in Operation /\ call[o] \in Request /\ Placed(o) /\ Honest(o)
    BY <1>t
<1>1. ASSUME op'[o] = op[o], call'[o] = call[o] PROVE Honest(o)' /\ StaysPaid(o)
    BY <1>1, <1>q DEF Honest, Paid, Done, StaysPaid
\* Its steps without a row: it stays without one.
<1>2. ASSUME op[o].st = "none", op'[o] = op[o], call'[o].at # "works"
      PROVE  Honest(o)' /\ StaysPaid(o)
    <2>1. ~Done(o) /\ ~Done(o)' /\ ~op[o].notCalled
        BY <1>2, <1>q DEF Done, Honest
    <2> QED
        BY <1>2, <2>1 DEF Honest, StaysPaid
<1>3. ASSUME Commits(o), call[o].fits PROVE Honest(o)' /\ StaysPaid(o)
    <2> DEFINE r == [Blank EXCEPT !.st = "running", !.day = call[o].day, !.reserved = Reserve(o)]
    <2>a. op'[o] = r
        BY <1>3, <1>t DEF Commits
    <2>b. r.st = "running" /\ r.cost = 0 /\ ~r.notCalled
        BY DEF Blank
    <2>1. op'[o].st = "running" /\ op'[o].cost = 0 /\ ~op'[o].notCalled
        BY <2>a, <2>b
    <2>2. call'[o].sent = call[o].sent /\ call'[o].flying = call[o].flying
        BY <1>3, <1>t DEF Commits, Goes, Request
    <2>3. op[o].st = "none" /\ call[o].sent = 0 /\ call[o].flying = 0
        BY <1>3, <1>q DEF Commits, Placed, Operation, Request
    <2>4. ~Done(o)'
        BY <2>1 DEF Done
    <2> QED
        BY <2>1, <2>2, <2>3, <2>4 DEF Honest, StaysPaid
<1>4. ASSUME Sends(o) PROVE Honest(o)' /\ StaysPaid(o)
    <2>1. op'[o] = op[o] /\ op[o].st = "running" /\ ~Done(o) /\ ~Done(o)' /\ ~op[o].notCalled
        BY <1>4, <1>q DEF Sends, Placed, Done, Honest
    <2>2. /\ call'[o].sent = call[o].sent + 1 /\ call'[o].flying = call[o].flying + 1
          /\ call'[o].incomplete = call[o].incomplete /\ call[o].at = "works"
        BY <1>4, <1>t DEF Sends, Request
    <2>3. ~call[o].incomplete /\ ~op[o].unpriced => op[o].cost + call'[o].flying = call'[o].sent
        BY <2>2, <1>q DEF Honest, Operation, Request
    <2> QED
        BY <2>1, <2>2, <2>3 DEF Honest, StaysPaid, Paid
<1>5. ASSUME Answers(o) PROVE Honest(o)' /\ StaysPaid(o)
    <2>1. call[o].flying \in 1..MaxSends /\ ~Done(o) /\ ~op[o].notCalled
        BY <1>5, <1>q DEF Answers, Honest, Request
    <2>2. CASE \E kind \in {"priced", "unpriced"} :
                 op' = Recorded(o, kind) /\ call' = [call EXCEPT ![o].flying = @ - 1]
        <3>1. PICK kind \in {"priced", "unpriced"} :
                 op' = Recorded(o, kind) /\ call' = [call EXCEPT ![o].flying = @ - 1]
            BY <2>2
        <3>2. /\ call'[o].flying = call[o].flying - 1 /\ call'[o].sent = call[o].sent
              /\ call'[o].at = call[o].at /\ call'[o].incomplete = call[o].incomplete
            BY <3>1, <1>t DEF Request
        <3>3. /\ op'[o].st = op[o].st /\ op'[o].reserved = op[o].reserved
              /\ op'[o].notCalled = op[o].notCalled
              /\ op'[o].cost = IF kind = "unpriced" THEN op[o].cost ELSE op[o].cost + 1
              /\ ~op'[o].unpriced => ~op[o].unpriced /\ kind # "unpriced"
            BY <3>1, <1>t DEF Recorded, Operation
        <3>4. ~Done(o)'
            BY <2>1, <3>3 DEF Done
        <3>5. call'[o].at = "works" /\ ~call'[o].incomplete /\ ~op'[o].unpriced =>
                op'[o].cost + call'[o].flying = call'[o].sent
            BY <2>1, <3>2, <3>3, <1>q DEF Honest, Operation, Request
        <3> QED
            BY <2>1, <3>2, <3>3, <3>4, <3>5 DEF Honest, StaysPaid, Paid
    <2>3. CASE op' = op /\ call' = [call EXCEPT ![o].flying = @ - 1, ![o].incomplete = TRUE]
        <3>1. call'[o].incomplete
            BY <2>3, <1>t DEF Request
        <3>2. ~Done(o)' /\ op'[o] = op[o]
            BY <2>1, <2>3 DEF Done
        <3> QED
            BY <2>1, <3>1, <3>2 DEF Honest, StaysPaid, Paid
    <2> QED
        BY <1>5, <2>2, <2>3 DEF Answers
<1>6. ASSUME Finishes(o) PROVE Honest(o)' /\ StaysPaid(o)
    <2>1. call[o].at = "works" /\ op[o].st = "running" /\ ~Done(o) /\ ~op[o].notCalled
        BY <1>6, <1>q DEF Finishes, Placed, Done, Honest
    <2>2. /\ call'[o].at = "ended" /\ call'[o].flying = call[o].flying
          /\ call'[o].sent = call[o].sent /\ call'[o].incomplete = call[o].incomplete
        BY <1>6, <1>t DEF Finishes, Goes, Request
    <2>3. CASE op' = op
        BY <2>1, <2>2, <2>3 DEF Honest, StaysPaid, Paid, Done
    <2>4. ASSUME NEW status \in {"succeeded", "failed"}, op' = Finished(o, status),
                 HandlerEnds(o, status)
          PROVE  Honest(o)' /\ StaysPaid(o)
        <3>1. call[o].flying = 0
            BY <2>4 DEF HandlerEnds
        <3>2. /\ op'[o].st = status /\ op'[o].cost = op[o].cost /\ op'[o].unpriced = op[o].unpriced
              /\ op'[o].incomplete = call[o].incomplete /\ op'[o].notCalled = NotCalled(o)
              /\ op'[o].reserved = IF NotCalled(o) \/ Settled(o) THEN 0 ELSE op[o].reserved
            BY <2>4, <1>t DEF Finished, Operation
        <3>3. Done(o)'
            BY <3>2 DEF Done
        <3>4. NotCalled(o) => call[o].sent = 0
            BY DEF NotCalled
        <3>5. ~call[o].incomplete /\ ~op[o].unpriced => op[o].cost = call[o].sent
            BY <3>1, <2>1, <1>q DEF Honest, Operation, Request
        <3>6. Honest(o)'
            BY <2>2, <3>1, <3>2, <3>3, <3>4, <3>5, <1>q DEF Honest, Operation, Request
        <3>7. Paid(o) => Paid(o)'
            <4>1. CASE NotCalled(o)
                BY <4>1, <2>2, <3>2, <3>3, <3>4, <1>q DEF Paid, Operation
            <4>2. CASE Settled(o)
                BY <4>2, <2>2, <3>2, <3>3, <3>5, <1>q DEF Paid, Settled, Operation
            <4>3. CASE ~NotCalled(o) /\ ~Settled(o)
                BY <4>3, <2>1, <3>2 DEF Paid
            <4> QED
                BY <4>1, <4>2, <4>3
        <3> QED
            BY <3>6, <3>7 DEF StaysPaid
    <2> QED
        BY <1>6, <2>3, <2>4 DEF Finishes
<1>7. ASSUME Crashes(o) PROVE Honest(o)' /\ StaysPaid(o)
    <2>1. op' = op /\ ~Done(o) /\ ~Done(o)' /\ ~op[o].notCalled
        BY <1>7, <1>q DEF Crashes, Placed, Done, Honest
    <2>2. call'[o].at = "ended"
        BY <1>7, <1>t DEF Crashes, Leaves, Idle, Request
    <2> QED
        BY <2>1, <2>2 DEF Honest, StaysPaid, Paid
<1>8. ASSUME (\E w \in Workflows, over \in BOOLEAN : ReadsPolicy(o, w, over))
             \/ ReadsAllowance(o) \/ Opens(o) \/ Locks(o) \/ (Commits(o) /\ ~call[o].fits)
      PROVE  Honest(o)' /\ StaysPaid(o)
    <2>1. op'[o] = op[o] /\ op[o].st = "none"
        BY <1>8, <1>q DEF ReadsPolicy, ReadsAllowance, Opens, Locks, Commits, Placed
    <2>2. call'[o].at # "works"
        <3>1. CASE \E w \in Workflows, over \in BOOLEAN : ReadsPolicy(o, w, over)
            BY <3>1, <1>t DEF ReadsPolicy, Idle
        <3>2. CASE Leaves(o)
            BY <3>2, <1>t DEF Leaves, Idle
        <3>3. CASE ReadsAllowance(o) /\ ~Leaves(o)
            BY <3>3, <1>t DEF ReadsAllowance, Request
        <3>4. CASE Opens(o) \/ Locks(o)
            BY <3>4, <1>t DEF Opens, Locks, Request
        <3> QED
            BY <1>8, <3>1, <3>2, <3>3, <3>4 DEF Commits
    <2> QED
        BY <2>1, <2>2, <1>2
<1>9. ASSUME ~Steps(o) PROVE Honest(o)' /\ StaysPaid(o)
    <2>1. ASSUME NEW c \in Calls, c # o, Steps(c) PROVE op'[o] = op[o] /\ call'[o] = call[o]
        BY <2>1, <1>t DEF Steps, ReadsPolicy, ReadsAllowance, Opens, Locks, Commits, Sends, Answers,
              Recorded, Finishes, Finished, Crashes, Leaves, Goes
    <2>2. ASSUME \A c \in Calls : ~Steps(c) PROVE op'[o] = op[o] /\ call'[o] = call[o]
        BY <2>2 DEF Next, EditsPolicy, GrantsBonus, LooseUsage, Midnight, vars
    <2> QED
        BY <1>1, <1>9, <2>1, <2>2
<1> QED
    BY <1>3, <1>4, <1>5, <1>6, <1>7, <1>8, <1>9 DEF Steps

LEMMA MeasuredStep ==
    ASSUME Shaped, Shaped', Steady, \A o \in Calls : Honest(o), \A o \in Calls : StaysPaid(o),
           \A c \in Calls : Measured(c)
    PROVE  \A c \in Calls : Measured(c)'
<1> SUFFICES ASSUME NEW c \in Calls, call'[c].at = "holds", call'[c].fits,
                    call'[c].seen.usd # NoLimit, NEW o \in SameTool(c)'
             PROVE  Paid(o)'
    BY DEF Measured
<1>t. /\ op \in [Calls -> Operation] /\ call \in [Calls -> Request]
    BY DEF Shaped, TypeOK
<1>1. /\ call'[c].day = call[c].day /\ call'[c].wf = call[c].wf /\ call'[c].seen = call[c].seen
    <2>1. CASE Locks(c)
        BY <2>1, <1>t DEF Locks, Request
    <2> QED
        BY <2>1 DEF Steady
<1>2. o \in SameTool(c) /\ o \in Calls /\ op[o].st # "none"
    BY <1>1 DEF SameTool, Since, Steady
<1>3. Paid(o)
    <2>1. CASE call'[c] = call[c]
        BY <2>1, <1>2 DEF Measured
    <2>2. CASE Locks(c)
        <3>1. Fits(c)
            BY <2>2, <1>t DEF Locks, Request
        <3>2. ~Unknown(o)
            BY <3>1, <1>1, <1>2 DEF Fits, ToolMoneyLeft
        <3> QED
            BY <3>2, <1>2, KnownIsPaid
    <2> QED
        BY <2>1, <2>2 DEF Steady
<1> QED
    BY <1>2, <1>3 DEF StaysPaid

\* Where a handler runs its provider calls one after another, a call let in
\* under a dollar limit was measured against every bill of its tool's day:
\* the reservation each earlier call still holds, or all it cost.
THEOREM BillsAlwaysCounted == ASSUME ~Parallel PROVE Spec => []BillsAreCounted
<1> DEFINE I == Shaped /\ \A o \in Calls : Honest(o) /\ Measured(o)
<1>1. Init => I
    <2> SUFFICES ASSUME Init PROVE I
        OBVIOUS
    <2>1. Shaped
        BY ShapedInit
    <2>2. \A c \in Calls : op[c].st = "none" /\ ~op[c].notCalled /\ holder = Nobody /\ call[c].at = "idle"
        BY DEF Init, Blank, Idle
    <2> QED
        BY <2>1, <2>2 DEF Honest, Measured, Done
<1>2. I /\ [Next]_vars => I'
    <2> SUFFICES ASSUME I, [Next]_vars PROVE I'
        OBVIOUS
    <2>1. Shaped' /\ \A o \in Calls : Honest(o)' /\ StaysPaid(o)
        BY ShapedStep, HonestStep
    <2>2. CASE Steady
        BY <2>1, <2>2, MeasuredStep
    <2>3. ASSUME NEW c \in Calls, Commits(c) PROVE \A o \in Calls : Measured(o)'
        <3>1. holder' = Nobody
            BY <2>3 DEF Commits, Unlocked, Shaped, Placed
        <3> QED
            BY <3>1, <2>1 DEF Measured, Shaped, Placed
    <2> QED
        BY <2>1, <2>2, <2>3, StepKinds
<1>3. I => BillsAreCounted
    <2> SUFFICES ASSUME I, NEW c \in Calls, call[c].at = "holds", call[c].fits,
                        call[c].seen.usd # NoLimit, NEW o \in SameTool(c)
                 PROVE  op[o].reserved > 0 \/ op[o].cost >= call[o].sent
        BY DEF BillsAreCounted
    <2> QED
        BY DEF Measured, Paid
<1> QED
    BY <1>1, <1>2, <1>3, PTL DEF Spec
-----------------------------------------------------------------------------
(***************************************************************************)
(* Money: the day's shares stay within the day's dollars.                  *)
(*                                                                         *)
(* A verdict compares charges; what must stay within the limit are shares. *)
(* A row that is paid charges at least its share, so a verdict bounds the  *)
(* shares too, and unlike a charge a share never grows afterwards.         *)
(***************************************************************************)
\* A running row holds all it reserved; a settled one that, or nothing.
Kept(o) ==
    /\ op[o].st = "running" => op[o].reserved = Reserve(o)
    /\ Done(o) => op[o].reserved \in {0, Reserve(o)}

\* The dollars a verdict compared still have room for the call's reservation.
MoneyLeft(c) ==
    /\ call[c].seen.usd # NoLimit => Shares(SameTool(c)) + Reserve(c) <= call[c].seen.usd
    /\ Stepped(c) => Shares(SameSteps(c)) + Reserve(c) <= StepUsd
MoneyStands == \A c \in Calls : call[c].at = "holds" /\ call[c].fits => MoneyLeft(c)

\* Every call's terms are natural numbers.
LEMMA TermsFit == ASSUME TypeOK PROVE
    /\ [o \in Calls |-> Charge(o)] \in [Calls -> Nat]
    /\ [o \in Calls |-> Share(o)] \in [Calls -> Nat]
<1> SUFFICES ASSUME NEW o \in Calls PROVE Charge(o) \in Nat /\ Share(o) \in Nat
    OBVIOUS
<1>1. /\ op[o].reserved \in Nat /\ op[o].cost \in Nat /\ call[o].sent \in Nat
      /\ Reserve(o) \in Nat
    BY ReserveFits DEF TypeOK, Operation, Request
<1> QED
    BY <1>1 DEF Charge, Share, Bigger, Smaller

\* The units of a sum over calls are finitely many.
LEMMA TotalFits == ASSUME NEW f \in [Calls -> Nat], NEW A \in SUBSET Calls PROVE
    /\ IsFiniteSet(UNION {{o} \X (1..f[o]) : o \in A})
    /\ Total(f, A) \in Nat
<1> DEFINE Rows == {{o} \X (1..f[o]) : o \in A}
<1>1. IsFiniteSet(A)
    BY FS_Subset
<1>2. IsFiniteSet(Rows)
    <2> DEFINE row == [o \in A |-> {o} \X (1..f[o])]
    <2>1. row \in [A -> Rows] /\ \A R \in Rows : \E o \in A : row[o] = R
        OBVIOUS
    <2> HIDE DEF row, Rows
    <2>2. row \in Surjection(A, Rows)
        BY <2>1 DEF Surjection
    <2> QED
        BY <1>1, <2>2, FS_Surjection
<1>3. ASSUME NEW R \in Rows PROVE IsFiniteSet(R)
    <2>1. PICK o \in A : R = {o} \X (1..f[o])
        OBVIOUS
    <2>2. IsFiniteSet({o}) /\ IsFiniteSet(1..f[o])
        <3>1. f[o] \in Int /\ 1 \in Int
            OBVIOUS
        <3>2. IsFiniteSet(1..f[o])
            BY <3>1, FS_Interval
        <3>3. IsFiniteSet({o})
            BY FS_Singleton
        <3> QED
            BY <3>2, <3>3
    <2> QED
        BY <2>1, <2>2, FS_Product
<1> HIDE DEF Rows
<1>4. IsFiniteSet(UNION Rows)
    BY <1>2, <1>3, FS_UNION
<1>5. Cardinality(UNION Rows) \in Nat
    BY <1>4, FS_CardinalityType
<1> QED
    BY <1>4, <1>5 DEF Total, Rows

\* Fewer calls with smaller terms make a smaller sum.
LEMMA TotalGrows ==
    ASSUME NEW f \in [Calls -> Nat], NEW g \in [Calls -> Nat],
           NEW B \in SUBSET Calls, NEW A \in SUBSET B, \A o \in A : f[o] <= g[o]
    PROVE  Total(f, A) <= Total(g, B)
<1> DEFINE U == UNION {{o} \X (1..f[o]) : o \in A}
           V == UNION {{o} \X (1..g[o]) : o \in B}
<1>1. U \subseteq V
    <2> SUFFICES ASSUME NEW o \in A, NEW n \in 1..f[o] PROVE <<o, n>> \in {o} \X (1..g[o])
        OBVIOUS
    <2>1. n \in 1..g[o]
        OBVIOUS
    <2> QED
        BY <2>1
<1>2. IsFiniteSet(V)
    BY TotalFits
<1> HIDE DEF U, V
<1>3. Cardinality(U) <= Cardinality(V)
    BY <1>1, <1>2, FS_Subset
<1> QED
    BY <1>3 DEF U, V, Total

\* One more call adds its own term.
LEMMA TotalOneMore ==
    ASSUME NEW f \in [Calls -> Nat], NEW g \in [Calls -> Nat], NEW c \in Calls,
           NEW B \in SUBSET Calls, NEW A \in SUBSET (B \cup {c}),
           \A o \in A : o # c => f[o] <= g[o]
    PROVE  Total(f, A) <= Total(g, B) + f[c]
<1> DEFINE U == UNION {{o} \X (1..f[o]) : o \in A}
           V == UNION {{o} \X (1..g[o]) : o \in B}
           W == {c} \X (1..f[c])
<1>1. U \subseteq V \cup W
    <2> SUFFICES ASSUME NEW o \in A, NEW n \in 1..f[o] PROVE <<o, n>> \in V \cup W
        OBVIOUS
    <2>1. CASE o = c
        BY <2>1
    <2>2. CASE o # c
        <3>1. o \in B /\ n \in 1..g[o]
            BY <2>2
        <3> QED
            BY <3>1
    <2> QED
        BY <2>1, <2>2
<1>2. IsFiniteSet(V) /\ Cardinality(V) \in Nat
    BY TotalFits, FS_CardinalityType
<1>3. IsFiniteSet(W) /\ Cardinality(W) = f[c]
    <2>1. /\ IsFiniteSet({c}) /\ Cardinality({c}) = 1
          /\ IsFiniteSet(1..f[c]) /\ Cardinality(1..f[c]) = f[c]
        <3>1. f[c] \in Nat /\ f[c] \in Int /\ 1 \in Int
            OBVIOUS
        <3>2. IsFiniteSet(1..f[c]) /\ Cardinality(1..f[c]) = IF 1 > f[c] THEN 0 ELSE f[c] - 1 + 1
            BY <3>1, FS_Interval
        <3>3. Cardinality(1..f[c]) = f[c]
            BY <3>1, <3>2
        <3>4. IsFiniteSet({c}) /\ Cardinality({c}) = 1
            BY FS_Singleton
        <3> QED
            BY <3>2, <3>3, <3>4
    <2>2. IsFiniteSet(W) /\ Cardinality(W) = 1 * f[c]
        BY <2>1, FS_Product
    <2>3. 1 * f[c] = f[c]
        OBVIOUS
    <2> QED
        BY <2>2, <2>3
<1>f. f[c] \in Nat
    OBVIOUS
<1> HIDE DEF U, V, W
<1>4. /\ IsFiniteSet(V \cup W)
      /\ Cardinality(V \cup W) = Cardinality(V) + Cardinality(W) - Cardinality(V \cap W)
      /\ Cardinality(V \cap W) \in Nat
    BY <1>2, <1>3, FS_Union, FS_Intersection, FS_CardinalityType
<1>5. /\ Cardinality(U) \in Nat /\ Cardinality(U) <= Cardinality(V \cup W)
    BY <1>1, <1>4, FS_Subset, FS_CardinalityType
<1>6. Cardinality(U) <= Cardinality(V) + f[c]
    BY <1>2, <1>3, <1>4, <1>5, <1>f
<1> QED
    BY <1>6 DEF U, V, Total

\* No call, no money.
LEMMA TotalOfNone == ASSUME NEW f PROVE Total(f, {}) = 0
BY FS_EmptySet DEF Total

-----------------------------------------------------------------------------
\* What a row that had been opened keeps for good.
LEMMA KeptStep == ASSUME ~Parallel, Shaped, Shaped', \A o \in Calls : Honest(o), \A o \in Calls : Kept(o),
                         [Next]_vars
                  PROVE  \A o \in Calls :
                           /\ Kept(o)'
                           /\ op[o].st # "none" => Reserve(o)' = Reserve(o) /\ Share(o)' <= Share(o)
<1>t. /\ op \in [Calls -> Operation] /\ call \in [Calls -> Request]
      /\ \A o \in Calls : Placed(o) /\ Honest(o) /\ Kept(o)
    BY DEF Shaped, TypeOK
<1> SUFFICES ASSUME NEW o \in Calls PROVE
        Kept(o)' /\ (op[o].st # "none" => Reserve(o)' = Reserve(o) /\ Share(o)' <= Share(o))
    OBVIOUS
<1>q. /\ op[o] \in Operation /\ call[o] \in Request /\ Placed(o) /\ Honest(o) /\ Kept(o)
      /\ Reserve(o) \in Nat /\ call[o].sent \in Nat /\ op[o].reserved \in Nat
      /\ call'[o].sent \in Nat /\ op'[o].reserved \in Nat
    BY <1>t, ReserveFits DEF Shaped, TypeOK, Request, Operation
<1>1. ASSUME op[o].st = "none", op'[o] = op[o] PROVE Kept(o)'
    BY <1>1 DEF Kept, Done
<1>2. ASSUME Commits(o), call[o].fits PROVE Kept(o)' /\ op[o].st = "none"
    <2> DEFINE r == [Blank EXCEPT !.st = "running", !.day = call[o].day, !.reserved = Reserve(o)]
    <2>1. op'[o] = r
        BY <1>2, <1>t DEF Commits
    <2>2. r.st = "running" /\ r.reserved = Reserve(o)
        BY DEF Blank
    <2>3. op'[o].st = "running" /\ op'[o].reserved = Reserve(o)
        BY <2>1, <2>2
    <2>4. call'[o].wf = call[o].wf /\ call'[o].seen = call[o].seen /\ newAccount' = newAccount
        BY <1>2, <1>t DEF Commits, Goes, Request
    <2>5. Reserve(o)' = Reserve(o)
        BY <2>4 DEF Reserve, Stepped, Counts
    <2>6. op[o].st = "none"
        BY <1>2, <1>q DEF Commits, Placed
    <2> QED
        BY <2>3, <2>5, <2>6 DEF Kept, Done
\* A row's policy stays what its call read.
<1>3. ASSUME Steady, op[o].st # "none" PROVE Reserve(o)' = Reserve(o)
    BY <1>3 DEF Steady, Reserve, Stepped, Counts
\* A step on a row that holds its reservation, or reserved nothing.
<1>4. ASSUME Reserve(o)' = Reserve(o), op[o].reserved = Reserve(o), op'[o].reserved \in {0, Reserve(o)}
      PROVE  Share(o)' <= Share(o)
    BY <1>4, <1>q DEF Share, Smaller
\* A step that sends nothing and gives back nothing.
<1>5. ASSUME Reserve(o)' = Reserve(o), op'[o].reserved = op[o].reserved, call'[o].sent = call[o].sent
      PROVE  Share(o)' <= Share(o)
    BY <1>5, <1>q DEF Share, Smaller
<1>6. ASSUME Steady, op[o].st # "none", op'[o].st = op[o].st, op'[o].reserved = op[o].reserved,
             call'[o].sent = call[o].sent
      PROVE  Kept(o)' /\ Share(o)' <= Share(o)
    <2>1. Kept(o)'
        BY <1>3, <1>6, <1>q DEF Kept, Done
    <2> QED
        BY <2>1, <1>3, <1>5, <1>6
<1>7. ASSUME Steady, Sends(o) PROVE Kept(o)' /\ Share(o)' <= Share(o)
    <2>1. op' = op /\ op[o].st = "running" /\ op[o].reserved = Reserve(o)
        BY <1>7, <1>q DEF Sends, Placed, Kept
    <2>2. Kept(o)'
        BY <1>3, <1>7, <2>1 DEF Kept, Done
    <2> QED
        BY <2>1, <2>2, <1>3, <1>4, <1>7
<1>8. ASSUME Steady, Answers(o), op[o].st # "none" PROVE Kept(o)' /\ Share(o)' <= Share(o)
    <2>1. /\ op'[o].st = op[o].st /\ op'[o].reserved = op[o].reserved
          /\ call'[o].sent = call[o].sent
        BY <1>8, <1>t DEF Answers, Recorded, Request, Operation
    <2> QED
        BY <1>6, <1>8, <2>1
<1>9. ASSUME Steady, Finishes(o) PROVE Kept(o)' /\ Share(o)' <= Share(o)
    <2>1. op[o].st = "running" /\ op[o].reserved = Reserve(o) /\ op[o].st # "none"
        BY <1>9, <1>q DEF Finishes, Placed, Kept
    <2>2. CASE op' = op
        <3>1. Kept(o)'
            BY <1>3, <1>9, <2>1, <2>2 DEF Kept, Done
        <3> QED
            BY <3>1, <2>1, <2>2, <1>3, <1>4, <1>9
    <2>3. ASSUME NEW status \in {"succeeded", "failed"}, op' = Finished(o, status)
          PROVE  Kept(o)' /\ Share(o)' <= Share(o)
        <3>1. op'[o].st = status /\ op'[o].reserved \in {0, Reserve(o)}
            BY <2>1, <2>3, <1>t DEF Finished, Operation
        <3>2. Kept(o)'
            BY <1>3, <1>9, <2>1, <3>1 DEF Kept
        <3> QED
            BY <3>1, <3>2, <2>1, <1>3, <1>4, <1>9
    <2> QED
        BY <1>9, <2>2, <2>3 DEF Finishes
<1>10. ASSUME Steady, Crashes(o), op[o].st # "none" PROVE Kept(o)' /\ Share(o)' <= Share(o)
    <2>1. call[o].at = "works"
        BY <1>10, <1>q DEF Crashes, Placed
    <2>2. op' = op /\ call'[o].sent = call[o].sent
        BY <1>10, <2>1, <1>t DEF Crashes, Request
    <2> QED
        BY <1>6, <1>10, <2>2
<1>11. ASSUME (\E w \in Workflows, over \in BOOLEAN : ReadsPolicy(o, w, over))
              \/ ReadsAllowance(o) \/ Opens(o) \/ Locks(o) \/ (Commits(o) /\ ~call[o].fits)
              \/ (Crashes(o) /\ op[o].st = "none")
       PROVE  op'[o] = op[o] /\ op[o].st = "none"
    BY <1>11, <1>q DEF ReadsPolicy, ReadsAllowance, Opens, Locks, Commits, Crashes, Placed
<1>12. ASSUME ~Steps(o) PROVE op'[o] = op[o] /\ call'[o] = call[o]
    <2>1. ASSUME NEW c \in Calls, c # o, Steps(c) PROVE op'[o] = op[o] /\ call'[o] = call[o]
        BY <2>1, <1>t DEF Steps, ReadsPolicy, ReadsAllowance, Opens, Locks, Commits, Sends, Answers,
              Recorded, Finishes, Finished, Crashes, Leaves, Goes
    <2>2. ASSUME \A c \in Calls : ~Steps(c) PROVE op'[o] = op[o] /\ call'[o] = call[o]
        BY <2>2 DEF Next, EditsPolicy, GrantsBonus, LooseUsage, Midnight, vars
    <2> QED
        BY <1>12, <2>1, <2>2
<1>13. newAccount' = newAccount
    BY DEF Next, Steps, ReadsPolicy, ReadsAllowance, Opens, Locks, Commits, Sends, Answers, Finishes,
          Crashes, EditsPolicy, GrantsBonus, LooseUsage, Midnight, vars
<1>14. ASSUME ~Steps(o)
       PROVE  Kept(o)' /\ Reserve(o)' = Reserve(o) /\ Share(o)' <= Share(o)
    <2>1. Reserve(o)' = Reserve(o)
        BY <1>12, <1>13, <1>14 DEF Reserve, Stepped, Counts
    <2>2. Kept(o)'
        BY <2>1, <1>12, <1>14, <1>q DEF Kept, Done
    <2> QED
        BY <2>1, <2>2, <1>5, <1>12, <1>14
<1>15. ASSUME Steps(o), op[o].st # "none" PROVE Steady
    <2>1. \A c \in Calls : Commits(c) /\ call[c].fits => c # o
        BY <1>15, <1>2
    <2>2. ASSUME NEW c \in Calls, Commits(c), c # o PROVE FALSE
        <3>1. call'[c].at # call[c].at /\ call[c].at = "holds"
            BY <2>2, <1>t DEF Commits, Goes, Leaves, Idle, Request
        <3>2. call'[c] = call[c]
            BY <1>15, <2>2, <1>t DEF Steps, ReadsPolicy, ReadsAllowance, Opens, Locks, Commits, Sends,
                  Answers, Finishes, Crashes, Leaves, Goes
        <3> QED
            BY <3>1, <3>2
    <2> QED
        BY <2>1, <2>2, StepKinds
<1>16. CASE Steps(o) /\ op[o].st = "none"
    <2>1. Kept(o)'
        BY <1>1, <1>2, <1>11, <1>16, <1>q DEF Steps, Sends, Answers, Finishes, Placed, Operation, Request
    <2> QED
        BY <2>1, <1>16
<1>17. CASE Steps(o) /\ op[o].st # "none"
    <2>1. Steady /\ Reserve(o)' = Reserve(o)
        BY <1>3, <1>15, <1>17
    <2>2. Kept(o)' /\ Share(o)' <= Share(o)
        BY <2>1, <1>2, <1>7, <1>8, <1>9, <1>10, <1>11, <1>17 DEF Steps
    <2> QED
        BY <2>1, <2>2
<1> QED
    BY <1>14, <1>16, <1>17
\* A verdict on money bounds the shares of the rows it judged.
LEMMA VerdictCoversShares ==
    ASSUME Shaped, IsFiniteSet(loose), \A o \in Calls : Honest(o), \A o \in Calls : Kept(o),
           NEW c \in Calls, Fits(c)
    PROVE  MoneyLeft(c)
<1>t. /\ TypeOK /\ op \in [Calls -> Operation] /\ call \in [Calls -> Request]
      /\ Reserve(c) \in Nat /\ call[c].seen.usd \in Limit
    BY ReserveFits DEF Shaped, TypeOK, Request, ToolPolicy
<1>s. SameTool(c) \in SUBSET Calls /\ SameSteps(c) \in SUBSET Calls
      /\ \A o \in SameTool(c) \cup SameSteps(c) : op[o].st # "none"
    BY DEF SameTool, SameSteps, Since
\* A paid row charges at least its share.
<1>1. ASSUME NEW o \in Calls, op[o].st # "none", Paid(o) PROVE Share(o) <= Charge(o)
    <2>1. /\ op[o].reserved \in Nat /\ op[o].cost \in Nat /\ call[o].sent \in Nat
          /\ Reserve(o) \in Nat /\ op[o].st \in {"running", "succeeded", "failed"}
        BY <1>t, <1>1, ReserveFits DEF Request, Operation
    <2>2. CASE op[o].reserved > 0
        <3>1. op[o].reserved = Reserve(o)
            BY <2>1, <2>2 DEF Kept, Done
        <3> QED
            BY <2>1, <2>2, <3>1 DEF Share, Charge, Bigger
    <2>3. CASE op[o].reserved = 0
        <3>1. op[o].cost >= call[o].sent
            BY <1>1, <2>3 DEF Paid
        <3> QED
            BY <2>1, <2>3, <3>1 DEF Share, Charge, Bigger, Smaller
    <2> QED
        BY <2>1, <2>2, <2>3
<1>2. ASSUME NEW O \in SUBSET Calls, \A o \in O : op[o].st # "none" /\ Paid(o) PROVE
        Shares(O) \in Nat /\ Charges(O) \in Nat /\ Shares(O) <= Charges(O)
    <2> DEFINE f == [o \in Calls |-> Share(o)]
               g == [o \in Calls |-> Charge(o)]
    <2>1. f \in [Calls -> Nat] /\ g \in [Calls -> Nat] /\ \A o \in O : f[o] <= g[o]
        BY <1>1, <1>2, <1>t, TermsFit
    <2> HIDE DEF f, g
    <2>2. Total(f, O) <= Total(g, O) /\ Total(f, O) \in Nat /\ Total(g, O) \in Nat
        BY <2>1, TotalGrows, TotalFits
    <2> QED
        BY <2>2 DEF Shares, Charges, f, g
<1>3. ASSUME call[c].seen.usd # NoLimit
      PROVE  Shares(SameTool(c)) + Reserve(c) <= call[c].seen.usd
    <2>1. /\ \A o \in SameTool(c) : ~Unknown(o)
          /\ Charges(SameTool(c)) + LooseCost(c) + Reserve(c) <= call[c].seen.usd
        BY <1>3 DEF Fits, ToolMoneyLeft
    <2>2. \A o \in SameTool(c) : Paid(o)
        BY <2>1, <1>s, KnownIsPaid
    <2>3. LooseCost(c) \in Nat
        <3>2. IsFiniteSet({u \in LooseSince(c) : ~u.unpriced})
            BY FS_Subset DEF LooseSince
        <3> QED
            BY <3>2, FS_CardinalityType DEF LooseCost
    <2>4. /\ Shares(SameTool(c)) \in Nat /\ Charges(SameTool(c)) \in Nat
          /\ Shares(SameTool(c)) <= Charges(SameTool(c))
        BY <1>2, <1>s, <2>2
    <2>5. call[c].seen.usd \in Nat
        BY <1>t, <1>3 DEF Limit
    <2> QED
        BY <1>t, <2>1, <2>3, <2>4, <2>5
<1>4. ASSUME Stepped(c) PROVE Shares(SameSteps(c)) + Reserve(c) <= StepUsd
    <2>1. /\ \A o \in SameSteps(c) : ~op[o].incomplete /\ ~op[o].unpriced
          /\ Charges(SameSteps(c)) + Reserve(c) <= StepUsd
        BY <1>4 DEF Fits, StepsLeft
    \* A row of the allowance reserved something, so one without a reservation is settled.
    <2>2. ASSUME NEW o \in SameSteps(c) PROVE Paid(o)
        <3>1. o \in Calls /\ op[o].st # "none" /\ Stepped(o)
            BY <1>4, <1>s DEF SameSteps, Stepped
        <3>2. Reserve(o) > 0
            <4>1. call[o].seen.reserve \in Nat
                BY <1>t, <3>1 DEF Request, ToolPolicy
            <4> QED
                BY <3>1, <4>1 DEF Reserve, Bigger
        <3>3. CASE op[o].st = "running"
            BY <3>1, <3>2, <3>3 DEF Kept, Paid
        <3>4. CASE op[o].st # "running"
            <4>1. Done(o)
                BY <3>1, <3>4, <1>t DEF Done, Operation
            <4>2. op[o].cost + call[o].flying = call[o].sent /\ call[o].flying = 0
                BY <2>1, <3>1, <4>1 DEF Honest
            <4>3. op[o].cost \in Nat /\ call[o].sent \in Nat
                BY <1>t, <3>1 DEF Operation, Request
            <4> QED
                BY <4>1, <4>2, <4>3 DEF Paid
        <3> QED
            BY <3>3, <3>4
    <2>3. /\ Shares(SameSteps(c)) \in Nat /\ Charges(SameSteps(c)) \in Nat
          /\ Shares(SameSteps(c)) <= Charges(SameSteps(c))
        BY <1>2, <1>s, <2>2
    <2> QED
        BY <1>t, <2>1, <2>3
<1> QED
    BY <1>3, <1>4 DEF MoneyLeft

\* Shares never grow, so a set of rows never comes to cost more.
LEMMA SharesShrink ==
    ASSUME Shaped, Shaped', NEW O \in SUBSET Calls, \A o \in O : Share(o)' <= Share(o)
    PROVE  /\ Shares(O) \in Nat /\ Shares(O)' \in Nat
           /\ Shares(O)' <= Shares(O)
<1> DEFINE f == [o \in Calls |-> Share(o)]
           g == [o \in Calls |-> Share(o)']
<1>1. f \in [Calls -> Nat]
    BY TermsFit DEF Shaped
<1>2. g \in [Calls -> Nat]
    <2> SUFFICES ASSUME NEW o \in Calls PROVE Share(o)' \in Nat
        OBVIOUS
    <2>1. /\ op'[o].reserved \in Nat /\ call'[o].sent \in Nat /\ Reserve(o)' \in Nat
        BY DEF Shaped, TypeOK, Operation, Request, Reserve, ToolPolicy, Bigger
    <2> QED
        BY <2>1 DEF Share, Smaller
<1>3. \A o \in O : g[o] <= f[o]
    OBVIOUS
<1>4. Shares(O) = Total(f, O) /\ Shares(O)' = Total(g, O)
    BY DEF Shares, Total
<1> HIDE DEF f, g
<1>5. Total(g, O) <= Total(f, O) /\ Total(f, O) \in Nat /\ Total(g, O) \in Nat
    BY <1>1, <1>2, <1>3, TotalGrows, TotalFits
<1> QED
    BY <1>4, <1>5

LEMMA SteadyMoney ==
    ASSUME Shaped, Shaped', IsFiniteSet(loose), \A o \in Calls : Honest(o), \A o \in Calls : Kept(o),
           \A o \in Calls : op[o].st # "none" => Reserve(o)' = Reserve(o) /\ Share(o)' <= Share(o),
           MoneyStands, Steady
    PROVE  MoneyStands'
<1> SUFFICES ASSUME NEW c \in Calls, call'[c].at = "holds", call'[c].fits PROVE MoneyLeft(c)'
    BY DEF MoneyStands
<1>t. /\ op \in [Calls -> Operation] /\ call \in [Calls -> Request]
      /\ Reserve(c) \in Nat /\ call[c].seen.usd \in Limit
    BY ReserveFits DEF Shaped, TypeOK, Request, ToolPolicy
<1>1. MoneyLeft(c) /\ call'[c].wf = call[c].wf /\ call'[c].seen = call[c].seen /\ call'[c].day = call[c].day
    <2>1. CASE call'[c] = call[c]
        BY <2>1 DEF MoneyStands
    <2>2. CASE Locks(c)
        <3>1. /\ call'[c].fits = Fits(c) /\ call'[c].wf = call[c].wf /\ call'[c].seen = call[c].seen
              /\ call'[c].day = call[c].day
            BY <2>2, <1>t DEF Locks, Request
        <3> QED
            BY <3>1, VerdictCoversShares
    <2> QED
        BY <2>1, <2>2 DEF Steady
<1>2. Reserve(c)' = Reserve(c) /\ (Stepped(c)' <=> Stepped(c))
    BY <1>1 DEF Reserve, Stepped, Counts, Steady
<1>3. /\ Since(c)' = Since(c) /\ Since(c) \subseteq Calls
      /\ \A o \in Since(c) : op[o].st # "none" /\ call'[o].wf = call[o].wf
    BY <1>1 DEF Steady, Since
<1>4. SameTool(c)' = SameTool(c) /\ SameSteps(c)' = SameSteps(c)
    BY <1>1, <1>3 DEF SameTool, SameSteps, Counts
<1>5. /\ SameTool(c) \in SUBSET Calls /\ SameSteps(c) \in SUBSET Calls
      /\ \A o \in SameTool(c) \cup SameSteps(c) : op[o].st # "none"
    BY DEF SameTool, SameSteps, Since
<1>6. ASSUME NEW O \in SUBSET Calls, \A o \in O : op[o].st # "none" PROVE
        Shares(O) \in Nat /\ Shares(O)' \in Nat /\ Shares(O)' <= Shares(O)
    <2>1. \A o \in O : Share(o)' <= Share(o)
        BY <1>6
    <2> QED
        BY <2>1, SharesShrink
<1>7. ASSUME (call[c].seen.usd # NoLimit)'
      PROVE  (Shares(SameTool(c)) + Reserve(c) <= call[c].seen.usd)'
    BY <1>1, <1>2, <1>4, <1>5, <1>6, <1>7, <1>t DEF MoneyLeft, Limit
<1>8. ASSUME Stepped(c)' PROVE (Shares(SameSteps(c)) + Reserve(c) <= StepUsd)'
    BY <1>1, <1>2, <1>4, <1>5, <1>6, <1>8, <1>t DEF MoneyLeft
<1> QED
    BY <1>7, <1>8 DEF MoneyLeft

\* Only the holder commits, so nobody else is left with a verdict.
LEMMA CommitMoney == ASSUME Shaped, Shaped', NEW c \in Calls, Commits(c) PROVE MoneyStands'
<1>1. holder' = Nobody
    BY DEF Commits, Unlocked, Shaped, Placed
<1>2. \A o \in Calls : call'[o].at # "holds"
    BY <1>1 DEF Shaped, Placed
<1> QED
    BY <1>2 DEF MoneyStands

LEMMA SteadyBudget ==
    ASSUME Shaped, Shaped', BudgetIsKept, Steady,
           \A o \in Calls : op[o].st # "none" => Share(o)' <= Share(o)
    PROVE  BudgetIsKept'
<1>t. /\ op \in [Calls -> Operation] /\ call \in [Calls -> Request]
    BY DEF Shaped, TypeOK
<1>1. ASSUME NEW d \in Days PROVE
      /\ OfSteps(d)' = OfSteps(d) /\ OfSteps(d) \in SUBSET Admitted(d)
      /\ \A w \in Workflows : OfTool(w, d)' = OfTool(w, d) /\ OfTool(w, d) \in SUBSET Admitted(d)
    <2>1. Admitted(d)' = Admitted(d) /\ \A o \in Admitted(d) : o \in Calls /\ op[o].st # "none"
        BY DEF Steady, Admitted
    <2>2. \A o \in Admitted(d) : call'[o].wf = call[o].wf
        BY <2>1 DEF Steady
    <2> QED
        BY <2>1, <2>2 DEF OfSteps, OfTool, Counts
<1>2. ASSUME NEW d \in Days, NEW O \in SUBSET Admitted(d) PROVE
      /\ Shares(O) \in Nat /\ Shares(O)' \in Nat /\ Shares(O)' <= Shares(O)
      /\ \A o \in O : /\ o \in Calls /\ call'[o].seen = call[o].seen /\ call[o].seen.usd \in Limit
    <2>1. O \in SUBSET Calls /\ \A o \in O : op[o].st # "none"
        BY DEF Admitted
    <2>2. \A o \in O : Share(o)' <= Share(o)
        BY <2>1
    <2>3. Shares(O) \in Nat /\ Shares(O)' \in Nat /\ Shares(O)' <= Shares(O)
        BY <2>1, <2>2, SharesShrink
    <2>4. \A o \in O : o \in Calls /\ call'[o].seen = call[o].seen
        BY <2>1 DEF Steady
    <2>5. \A o \in O : call[o].seen.usd \in Limit
        BY <2>1, <1>t DEF Request, ToolPolicy
    <2> QED
        BY <2>3, <2>4, <2>5
<1>3. ASSUME NEW d \in Days, NEW w \in Workflows, OfTool(w, d)' # {} PROVE
        \E o \in OfTool(w, d)' : \/ call'[o].seen.usd = NoLimit
                                 \/ Shares(OfTool(w, d))' <= call'[o].seen.usd
    <2>1. OfTool(w, d)' = OfTool(w, d) /\ OfTool(w, d) \in SUBSET Admitted(d)
        BY <1>1
    <2>2. PICK o \in OfTool(w, d) : call[o].seen.usd = NoLimit
                                    \/ Shares(OfTool(w, d)) <= call[o].seen.usd
        BY <1>3, <2>1 DEF BudgetIsKept
    <2>3. /\ call'[o].seen = call[o].seen /\ call[o].seen.usd \in Limit
          /\ Shares(OfTool(w, d)) \in Nat
        BY <1>2, <2>1
    <2>4. Shares(OfTool(w, d))' \in Nat /\ Shares(OfTool(w, d))' <= Shares(OfTool(w, d))
        BY <1>2, <2>1
    <2>5. call'[o].seen.usd = NoLimit \/ Shares(OfTool(w, d))' <= call'[o].seen.usd
        BY <2>2, <2>3, <2>4 DEF Limit
    <2> QED
        BY <2>1, <2>5
<1>4. ASSUME NEW d \in Days, newAccount' PROVE Shares(OfSteps(d))' <= StepUsd
    <2>1. newAccount /\ OfSteps(d)' = OfSteps(d) /\ OfSteps(d) \in SUBSET Admitted(d)
        BY <1>1, <1>4 DEF Steady
    <2>2. Shares(OfSteps(d)) <= StepUsd
        BY <2>1 DEF BudgetIsKept
    <2>3. Shares(OfSteps(d))' <= Shares(OfSteps(d)) /\ Shares(OfSteps(d))' \in Nat
          /\ Shares(OfSteps(d)) \in Nat
        BY <1>2, <2>1
    <2> QED
        BY <2>2, <2>3
<1> QED
    BY <1>3, <1>4 DEF BudgetIsKept

LEMMA CommitBudget ==
    ASSUME Shaped, Shaped', BudgetIsKept, MoneyStands, NEW c \in Calls, Commits(c), call[c].fits
    PROVE  BudgetIsKept'
<1>t. /\ op \in [Calls -> Operation] /\ call \in [Calls -> Request] /\ newAccount' = newAccount
      /\ call[c].seen.usd \in Limit /\ Reserve(c) \in Nat
    BY ReserveFits DEF Shaped, TypeOK, Request, ToolPolicy, Commits
<1>1. /\ op[c].st = "none" /\ op'[c].st = "running" /\ op'[c].day = call[c].day
      /\ op'[c].reserved = Reserve(c)
      /\ \A o \in Calls : o # c => op'[o] = op[o] /\ call'[o] = call[o]
      /\ call'[c].wf = call[c].wf /\ call'[c].seen = call[c].seen /\ call'[c].sent = call[c].sent
    <2>1. /\ call[c].at = "holds"
          /\ op' = [op EXCEPT ![c] = [Blank EXCEPT !.st = "running", !.day = call[c].day,
                                                   !.reserved = Reserve(c)]]
          /\ \E at \in {"works", "ended"} : Goes(c, at)
        BY DEF Commits
    <2>2. op[c].st = "none"
        BY <2>1 DEF Shaped, Placed
    <2>3. op'[c].st = "running" /\ op'[c].day = call[c].day /\ op'[c].reserved = Reserve(c)
        BY <2>1, <1>t DEF Blank
    <2>4. /\ call'[c].wf = call[c].wf /\ call'[c].seen = call[c].seen /\ call'[c].sent = call[c].sent
          /\ \A o \in Calls : o # c => op'[o] = op[o] /\ call'[o] = call[o]
        BY <2>1, <1>t DEF Goes, Request
    <2> QED
        BY <2>2, <2>3, <2>4
<1>2. MoneyLeft(c)
    BY DEF MoneyStands, Commits
\* The new row's share is its reservation; every other share is as it was.
<1>3. /\ Share(c)' = Reserve(c)
      /\ \A o \in Calls : o # c => Share(o)' = Share(o)
    <2>1. \A o \in Calls : Reserve(o)' = Reserve(o)
        BY <1>1, <1>t DEF Reserve, Stepped, Counts
    <2>2. call'[c].sent \in Nat
        BY DEF Shaped, TypeOK, Request
    <2>3. Share(c)' = Reserve(c)
        BY <1>1, <1>t, <2>1, <2>2 DEF Share, Smaller
    <2> QED
        BY <1>1, <2>1, <2>3 DEF Share
<1>4. ASSUME NEW d \in Days PROVE
      /\ OfSteps(d) \in SUBSET Calls /\ OfSteps(d)' \in SUBSET Calls
      /\ \A w \in Workflows : OfTool(w, d) \in SUBSET Calls /\ OfTool(w, d)' \in SUBSET Calls
    BY DEF OfSteps, OfTool, Admitted
\* Rows the commit did not add have the shares they had.
<1>5. ASSUME NEW O \in SUBSET Calls, c \notin O PROVE
        Shares(O) \in Nat /\ Shares(O)' \in Nat /\ Shares(O)' <= Shares(O)
    <2>1. \A o \in O : Share(o) \in Nat /\ Share(o)' = Share(o)
        <3>1. \A o \in O : op[o].reserved \in Nat /\ call[o].sent \in Nat /\ Reserve(o) \in Nat
            BY ReserveFits, <1>t DEF Operation, Request, Shaped
        <3> QED
            BY <1>3, <1>5, <3>1 DEF Share, Smaller
    <2>2. \A o \in O : Share(o)' <= Share(o)
        BY <2>1
    <2> QED
        BY <2>2, SharesShrink
\* Together with the new row they have its reservation more, at most.
<1>6. ASSUME NEW B \in SUBSET Calls, NEW A \in SUBSET (B \cup {c}) PROVE
        /\ Shares(B) \in Nat /\ Shares(A)' \in Nat
        /\ Shares(A)' <= Shares(B) + Reserve(c)
    <2> DEFINE f == [o \in Calls |-> Share(o)']
               g == [o \in Calls |-> Share(o)]
    <2>1. g \in [Calls -> Nat]
        BY TermsFit DEF Shaped
    <2>2. f \in [Calls -> Nat] /\ f[c] = Reserve(c)
        BY <1>3, <1>t, <2>1
    <2>3. \A o \in A : o # c => f[o] <= g[o]
        <3>1. \A o \in Calls : o # c => f[o] = g[o] /\ g[o] \in Nat
            BY <1>3, <2>1
        <3> QED
            BY <3>1
    <2>4. Shares(A)' = Total(f, A) /\ Shares(B) = Total(g, B)
        BY DEF Shares, Total
    <2>5. A \in SUBSET Calls
        OBVIOUS
    <2> HIDE DEF f, g
    <2>6. Total(f, A) <= Total(g, B) + f[c]
        BY <2>1, <2>2, <2>3, TotalOneMore
    <2>7. Total(f, A) \in Nat /\ Total(g, B) \in Nat
        BY <2>1, <2>2, <2>5, TotalFits
    <2> QED
        BY <2>2, <2>4, <2>6, <2>7
<1>7. ASSUME NEW d \in Days, d # call[c].day PROVE
      /\ OfSteps(d)' = OfSteps(d) /\ c \notin OfSteps(d)
      /\ \A w \in Workflows : OfTool(w, d)' = OfTool(w, d) /\ c \notin OfTool(w, d)
    <2>1. Admitted(d)' = Admitted(d) /\ c \notin Admitted(d)
        BY <1>1, <1>7 DEF Admitted
    <2> QED
        BY <2>1, <1>1 DEF OfSteps, OfTool, Counts, Admitted
\* The rows of its day, after it, were all in the snapshot it was judged by.
<1>8. ASSUME NEW d \in Days, d = call[c].day PROVE
      /\ \A w \in Workflows : w = call[c].wf => OfTool(w, d)' \in SUBSET (SameTool(c) \cup {c})
      /\ OfSteps(d)' \in SUBSET (SameSteps(c) \cup {c})
      /\ c \in Admitted(d)'
    <2>1. d \in Nat
        BY DaysFit
    <2>2. \A o \in Admitted(d)' : o = c \/ o \in Since(c)
        BY <1>1, <2>1, <1>8 DEF Admitted, Since
    <2>3. \A o \in Calls : call'[o].wf = call[o].wf
        BY <1>1
    <2>4. c \in Admitted(d)'
        BY <1>1, <1>8 DEF Admitted
    <2> QED
        BY <2>2, <2>3, <2>4, <1>1 DEF OfTool, OfSteps, SameTool, SameSteps, Counts, Admitted
<1>9. SameTool(c) \in SUBSET Calls /\ SameSteps(c) \in SUBSET Calls
    BY DEF SameTool, SameSteps, Since
<1>10. ASSUME NEW d \in Days, NEW w \in Workflows, OfTool(w, d)' # {} PROVE
        \E o \in OfTool(w, d)' : \/ call'[o].seen.usd = NoLimit
                                 \/ Shares(OfTool(w, d))' <= call'[o].seen.usd
    <2>1. CASE d = call[c].day /\ w = call[c].wf
        <3>1. c \in OfTool(w, d)' /\ OfTool(w, d)' \in SUBSET (SameTool(c) \cup {c})
            BY <1>1, <1>8, <2>1 DEF OfTool
        <3>2. CASE call[c].seen.usd = NoLimit
            BY <3>1, <3>2, <1>1
        <3>3. CASE call[c].seen.usd # NoLimit
            <4>1. Shares(SameTool(c)) + Reserve(c) <= call[c].seen.usd /\ call[c].seen.usd \in Nat
                BY <3>3, <1>2, <1>t DEF MoneyLeft, Limit
            <4>2. /\ Shares(SameTool(c)) \in Nat /\ Shares(OfTool(w, d))' \in Nat
                  /\ Shares(OfTool(w, d))' <= Shares(SameTool(c)) + Reserve(c)
                <5> DEFINE A == OfTool(w, d)'
                <5>1. Shares(OfTool(w, d))' = Total([o \in Calls |-> Share(o)'], A)
                    BY DEF Shares, Total
                <5>2. A \in SUBSET (SameTool(c) \cup {c})
                    BY <3>1
                <5> HIDE DEF A
                <5>3. /\ Shares(SameTool(c)) \in Nat /\ Total([o \in Calls |-> Share(o)'], A) \in Nat
                      /\ Total([o \in Calls |-> Share(o)'], A) <= Shares(SameTool(c)) + Reserve(c)
                    BY <1>6, <1>9, <5>2 DEF Shares, Total
                <5> QED
                    BY <5>1, <5>3
            <4>3. Shares(OfTool(w, d))' <= call[c].seen.usd
                BY <4>1, <4>2, <1>t
            <4> QED
                BY <3>1, <4>3, <1>1
        <3> QED
            BY <3>2, <3>3
    <2>2. CASE d # call[c].day \/ w # call[c].wf
        <3>1. OfTool(w, d)' = OfTool(w, d) /\ c \notin OfTool(w, d)
            <4>1. CASE d # call[c].day
                BY <4>1, <1>7
            <4>2. CASE w # call[c].wf
                BY <4>2, <1>1 DEF OfTool, Admitted
            <4> QED
                BY <4>1, <4>2, <2>2
        <3>2. PICK o \in OfTool(w, d) : call[o].seen.usd = NoLimit
                                        \/ Shares(OfTool(w, d)) <= call[o].seen.usd
            BY <3>1, <1>10 DEF BudgetIsKept
        <3>3. call'[o] = call[o] /\ call[o].seen.usd \in Limit
            BY <3>1, <1>1, <1>4, <1>t DEF Request, ToolPolicy
        <3>4. /\ Shares(OfTool(w, d)) \in Nat /\ Shares(OfTool(w, d))' \in Nat
              /\ Shares(OfTool(w, d))' <= Shares(OfTool(w, d))
            BY <3>1, <1>4, <1>5
        <3>5. call'[o].seen.usd = NoLimit \/ Shares(OfTool(w, d))' <= call'[o].seen.usd
            BY <3>2, <3>3, <3>4 DEF Limit
        <3> QED
            BY <3>1, <3>5
    <2> QED
        BY <2>1, <2>2
<1>11. ASSUME NEW d \in Days, newAccount' PROVE Shares(OfSteps(d))' <= StepUsd
    <2>1. CASE d = call[c].day /\ Counts(c)
        <3>1. Shares(SameSteps(c)) + Reserve(c) <= StepUsd
            BY <2>1, <1>2, <1>11, <1>t DEF MoneyLeft, Stepped
        <3>2. OfSteps(d)' \in SUBSET (SameSteps(c) \cup {c})
            BY <1>8, <2>1
        <3>3. /\ Shares(SameSteps(c)) \in Nat /\ Shares(OfSteps(d))' \in Nat
              /\ Shares(OfSteps(d))' <= Shares(SameSteps(c)) + Reserve(c)
            <4> DEFINE A == OfSteps(d)'
            <4>1. Shares(OfSteps(d))' = Total([o \in Calls |-> Share(o)'], A)
                BY DEF Shares, Total
            <4>2. A \in SUBSET (SameSteps(c) \cup {c})
                BY <3>2
            <4> HIDE DEF A
            <4>3. /\ Shares(SameSteps(c)) \in Nat /\ Total([o \in Calls |-> Share(o)'], A) \in Nat
                  /\ Total([o \in Calls |-> Share(o)'], A) <= Shares(SameSteps(c)) + Reserve(c)
                BY <1>6, <1>9, <4>2 DEF Shares, Total
            <4> QED
                BY <4>1, <4>3
        <3> QED
            BY <3>1, <3>3, <1>t
    <2>2. CASE d # call[c].day \/ ~Counts(c)
        <3>1. OfSteps(d)' = OfSteps(d) /\ c \notin OfSteps(d)
            <4>1. CASE d # call[c].day
                BY <4>1, <1>7
            <4>2. CASE ~Counts(c)
                BY <4>2, <1>1 DEF OfSteps, Admitted, Counts
            <4> QED
                BY <4>1, <4>2, <2>2
        <3>2. Shares(OfSteps(d)) <= StepUsd
            BY <1>11, <1>t DEF BudgetIsKept
        <3>3. /\ Shares(OfSteps(d)) \in Nat /\ Shares(OfSteps(d))' \in Nat
              /\ Shares(OfSteps(d))' <= Shares(OfSteps(d))
            BY <3>1, <1>4, <1>5
        <3> QED
            BY <3>2, <3>3
    <2> QED
        BY <2>1, <2>2
<1> QED
    BY <1>10, <1>11 DEF BudgetIsKept

\* Rows of usage without an operation are finitely many.
LEMMA LooseStaysFinite == IsFiniteSet(loose) /\ [Next]_vars => IsFiniteSet(loose')
<1> SUFFICES ASSUME IsFiniteSet(loose), [Next]_vars PROVE IsFiniteSet(loose')
    OBVIOUS
<1>1. loose' = loose \/ \E u : loose' = loose \cup {u}
    BY DEF Next, Steps, ReadsPolicy, ReadsAllowance, Opens, Locks, Commits, Sends, Answers, Finishes,
          Crashes, EditsPolicy, GrantsBonus, LooseUsage, Midnight, vars
<1> QED
    BY <1>1, FS_AddElement

\* Where a handler runs its provider calls one after another, the real bills
\* and the reservations of a day stay within the dollars of the most generous
\* limit one of its calls had read, and within the progress allowance: only
\* what a call cost above its own reservation can pass them.
THEOREM BudgetAlwaysKept == ASSUME ~Parallel PROVE Spec => []BudgetIsKept
<1> DEFINE I == /\ Shaped /\ IsFiniteSet(loose) /\ \A o \in Calls : Honest(o)
                /\ \A o \in Calls : Kept(o)
                /\ MoneyStands /\ BudgetIsKept
<1>1. Init => I
    <2> SUFFICES ASSUME Init PROVE I
        OBVIOUS
    <2>1. Shaped /\ IsFiniteSet(loose)
        BY ShapedInit, FS_EmptySet DEF Init
    <2>2. \A c \in Calls : op[c].st = "none" /\ ~op[c].notCalled /\ holder = Nobody /\ call[c].at = "idle"
        BY DEF Init, Blank, Idle
    <2>3. \A o \in Calls : Honest(o) /\ Kept(o)
        BY <2>2 DEF Honest, Kept, Done
    <2>4. MoneyStands
        BY <2>2 DEF MoneyStands
    <2>5. BudgetIsKept
        <3>1. \A d \in Days : OfSteps(d) = {} /\ \A w \in Workflows : OfTool(w, d) = {}
            BY <2>2 DEF OfSteps, OfTool, Admitted
        <3>2. Shares({}) = 0
            BY TotalOfNone DEF Shares
        <3>3. 0 <= StepUsd
            OBVIOUS
        <3> QED
            BY <3>1, <3>2, <3>3 DEF BudgetIsKept
    <2> QED
        BY <2>1, <2>3, <2>4, <2>5
<1>2. I /\ [Next]_vars => I'
    <2> SUFFICES ASSUME I, [Next]_vars PROVE I'
        OBVIOUS
    <2>1. /\ Shaped' /\ IsFiniteSet(loose') /\ \A o \in Calls : Honest(o)'
        BY ShapedStep, HonestStep, LooseStaysFinite
    <2>2. \A o \in Calls : /\ Kept(o)'
                           /\ op[o].st # "none" => Reserve(o)' = Reserve(o) /\ Share(o)' <= Share(o)
        BY <2>1, KeptStep
    <2>3. CASE Steady
        <3>1. MoneyStands'
            BY <2>1, <2>2, <2>3, SteadyMoney
        <3>2. BudgetIsKept'
            BY <2>1, <2>2, <2>3, SteadyBudget
        <3> QED
            BY <2>1, <2>2, <3>1, <3>2
    <2>4. ASSUME NEW c \in Calls, Commits(c), call[c].fits PROVE I'
        <3>1. MoneyStands' /\ BudgetIsKept'
            BY <2>1, <2>4, CommitMoney, CommitBudget
        <3> QED
            BY <2>1, <2>2, <3>1
    <2> QED
        BY <2>3, <2>4, StepKinds
<1>3. I => BudgetIsKept
    OBVIOUS
<1> QED
    BY <1>1, <1>2, <1>3, PTL DEF Spec
=============================================================================
