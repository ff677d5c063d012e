-------------------------------- MODULE Quiz ----------------------------------
(***************************************************************************)
(* What the check-question service promises the learner and the ledger: at *)
(* most one batch is open, its questions are settled in order, each answer *)
(* is graded exactly once, and a fully resolved batch is reacted to at     *)
(* most once.  No requests, no row, no locks: one atomic step per promise. *)
(***************************************************************************)
EXTENDS Naturals

CONSTANTS NItems, MaxBatches

Items    == 0 .. NItems - 1
BatchIds == 1 .. MaxBatches

VARIABLES
    open,      \* the open batch, 0 when there is none
    posed,     \* batches posed so far
    cur,       \* next question of the open batch
    graded,    \* times each question was graded
    verdict,   \* and its verdict
    due,       \* resolved batches whose reaction has not run
    reacted    \* times the tutor reacted to each batch

vars == <<open, posed, cur, graded, verdict, due, reacted>>

Init == /\ open = 0
        /\ posed = 0
        /\ cur = 0
        /\ graded = [b \in BatchIds |-> [i \in Items |-> 0]]
        /\ verdict = [b \in BatchIds |-> [i \in Items |-> "none"]]
        /\ due = {}
        /\ reacted = [b \in BatchIds |-> 0]

Pose == /\ open = 0
        /\ posed < MaxBatches
        /\ posed' = posed + 1
        /\ open' = posed + 1
        /\ UNCHANGED <<cur, graded, verdict, due, reacted>>

Grade(outcome) ==
    /\ open # 0
    /\ cur < NItems
    /\ graded[open][cur] = 0
    /\ graded' = [graded EXCEPT ![open][cur] = 1]
    /\ verdict' = [verdict EXCEPT ![open][cur] = outcome]
    /\ cur' = cur + 1
    /\ UNCHANGED <<open, posed, due, reacted>>

Pass == /\ open # 0
        /\ cur < NItems
        /\ cur' = cur + 1
        /\ UNCHANGED <<open, posed, graded, verdict, due, reacted>>

Complete == /\ open # 0
            /\ cur = NItems
            /\ due' = due \cup {open}
            /\ open' = 0
            /\ cur' = 0
            /\ UNCHANGED <<posed, graded, verdict, reacted>>

Abandon == /\ open # 0
           /\ open' = 0
           /\ cur' = 0
           /\ UNCHANGED <<posed, graded, verdict, due, reacted>>

React(b) == /\ b \in due
            /\ reacted[b] = 0
            /\ reacted' = [reacted EXCEPT ![b] = 1]
            /\ due' = due \ {b}
            /\ UNCHANGED <<open, posed, cur, graded, verdict>>

\* the daily cap or a restart: the reaction never comes
Forget(b) == /\ b \in due
             /\ due' = due \ {b}
             /\ UNCHANGED <<open, posed, cur, graded, verdict, reacted>>

Next == \/ Pose \/ Pass \/ Complete \/ Abandon
        \/ \E outcome \in {"right", "wrong"} : Grade(outcome)
        \/ \E b \in BatchIds : React(b) \/ Forget(b)

Spec == Init /\ [][Next]_vars
=============================================================================
