------------------------------ MODULE CheckHistory ------------------------------
(***************************************************************************)
(* What a learner finds when the session of CheckBatch is opened again: the *)
(* message that asked a batch carries a recap of it, from the column that   *)
(* the requests publish or, if a crash kept the batch from being linked to  *)
(* its message, put together from the recorded tool call and the log of     *)
(* answers.                                                                 *)
(*                                                                         *)
(* Nothing here changes the state of CheckBatch; two history variables hold *)
(* what the time stamps of messages and answers tell.  No two batches ask   *)
(* the same question about the same gap: reconstruct_check_batch would take *)
(* the answer to the later one for an answer to both, and says so.          *)
(***************************************************************************)
EXTENDS CheckBatch

(* They follow a batch while it is the newest one and its message has no    *)
(* recap: that bounds the runs, and leaves out only what stands already.    *)
VARIABLES
    told,     \* messages stored with their ask_check_questions call
    early     \* answers older than the message that asked them

hvars == <<vars, told, early>>

-----------------------------------------------------------------------------
(* A turn whose batch is registered but whose message is not stored yet.    *)
Asking == {t \in Turns : turn[t].at = "asked"}
Unstored == {turn[t].batch : t \in Asking}

(* The message takes the recorded tool calls along.  A call during which    *)
(* the client left is drained but never recorded.                           *)
Recorded == {turn[t].batch : t \in {u \in Asking : turn'[u].at = "attach"}}

(* Events are stamped when they are flushed, as messages are.               *)
Hasty == {e \in Unstored \X Items : graded'[e[1]][e[2]] # graded[e[1]][e[2]]}

HInit == Init /\ told = {} /\ early = {}
HNext == /\ Next
         /\ told'  = {b \in told \cup Recorded : b = minted' /\ recap'[b] = NoRecap}
         /\ early' = {e \in early \cup Hasty : e[1] \in told' \cup Unstored'}
HSpec == HInit /\ [][HNext]_hvars

-----------------------------------------------------------------------------
(* GET /sessions/{id}                                                       *)

ReconstructedFromBefore(b) ==                                             \* slip
    [i \in Items |-> IF graded[b][i] > 0 /\ <<b, i>> \in early
                     THEN verdict[b][i] ELSE "skipped"]
\* reconstruct_check_batch: the first answer at or after the message counts
Reconstructed(b) ==
    [i \in Items |-> IF graded[b][i] > 0 /\ <<b, i>> \notin early
                     THEN verdict[b][i] ELSE "skipped"]

\* load_check_batch: the column first; without the call there is no recap
RecapOf(b) == IF recap[b] # NoRecap THEN recap[b]
              ELSE IF b \in told THEN Reconstructed(b) ELSE NoRecap

\* _load_messages: the live card owns the open batch, if it is linked
OpenMessage == IF row.pc = NoBatch THEN 0 ELSE row.pc.link
Shown(b) == IF b = OpenMessage THEN NoRecap ELSE RecapOf(b)

-----------------------------------------------------------------------------
(* Honest history: once its batch is completed or abandoned, the message    *)
(* that asked it shows every question resolved, with the verdict the        *)
(* learning events hold, wherever a crash cut the chain of commits.  Only   *)
(* an answer older than its message is missed, and only by a reconstruction.*)
Gone(b) == row.pc = NoBatch \/ row.pc.id # b
Matched(b) == recap[b] = NoRecap => \A i \in Items : <<b, i>> \notin early

RecapHonest == \A b \in BatchIds :
    LET shown == Shown(b)
    IN  Gone(b) /\ shown # NoRecap /\ Matched(b) =>
        \A i \in Items :
            shown[i] = IF graded[b][i] = 0 THEN "skipped" ELSE verdict[b][i]
=============================================================================
