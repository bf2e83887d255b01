----------------------------- MODULE TailorJob -----------------------------
(***************************************************************************)
(* What a person is promised about one tailoring job, without the claim    *)
(* row, its age and its take-overs: one hand on the job at a time, a       *)
(* resume stored only from a result somebody ran for, and a job that is    *)
(* closed only over a stored resume and never opened again.                *)
(***************************************************************************)
EXTENDS Naturals

CONSTANT Requests

VARIABLES
    hand,    \* what each request brings to the job, "none" when it is not at it
    runs,    \* runs made
    copies,  \* resumes stored
    closed   \* the job is over

jobVars == <<hand, runs, copies, closed>>

Init ==
    /\ hand = [w \in Requests |-> "none"]
    /\ runs = 0 /\ copies = 0 /\ closed = FALSE

Holds(w, h) == hand' = [hand EXCEPT ![w] = h]

\* A result made before may be at hand again.
Take(w) ==
    /\ ~closed /\ \A v \in Requests : hand[v] = "none"
    /\ Holds(w, "empty") \/ (runs > 0 /\ Holds(w, "result"))
    /\ UNCHANGED <<runs, copies, closed>>

Run(w) ==
    /\ hand[w] = "empty" /\ Holds(w, "result")
    /\ runs' = runs + 1
    /\ UNCHANGED <<copies, closed>>

\* A run whose result never arrives.
Waste(w) ==
    /\ hand[w] = "empty"
    /\ runs' = runs + 1
    /\ UNCHANGED <<hand, copies, closed>>

\* The resume is there already: nothing is run for it.
Find(w) ==
    /\ hand[w] = "empty" /\ copies > 0 /\ Holds(w, "spent")
    /\ UNCHANGED <<runs, copies, closed>>

\* The store may fail.
Store(w) ==
    /\ hand[w] = "result" /\ Holds(w, "spent")
    /\ copies' \in {copies, copies + 1}
    /\ UNCHANGED <<runs, closed>>

LetGo(w) ==
    /\ hand[w] # "none" /\ Holds(w, "none")
    /\ UNCHANGED <<runs, copies, closed>>

Close(w) ==
    /\ hand[w] = "spent" /\ copies > 0 /\ Holds(w, "none")
    /\ closed' = TRUE
    /\ UNCHANGED <<runs, copies>>

Next == \E w \in Requests :
            \/ Take(w) \/ Run(w) \/ Waste(w) \/ Find(w)
            \/ Store(w) \/ LetGo(w) \/ Close(w)

Spec == Init /\ [][Next]_jobVars

=============================================================================
