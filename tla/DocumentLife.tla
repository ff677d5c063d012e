----------------------------- MODULE DocumentLife ------------------------------
(***************************************************************************)
(* What the ingestion pipeline promises the user of one uploaded document: *)
(* it is queued, then it settles once, as ready with ALL of its text       *)
(* searchable or as failed with none of it, and it stays so until it is    *)
(* deleted.  No workers, no batches, no claims.                            *)
(***************************************************************************)
CONSTANTS Docs, Text       \* Text[d]: the chunks the document consists of

VARIABLES state,           \* of each document
          served           \* chunks of it that retrieval can return

vars == <<state, served>>

Init == /\ state = [d \in Docs |-> "absent"]
        /\ served = [d \in Docs |-> {}]

Submit(d) == /\ state[d] = "absent"
             /\ state' = [state EXCEPT ![d] = "queued"]
             /\ UNCHANGED served

\* storage failed at upload: the document is listed, as failed
Lose(d) == /\ state[d] = "absent"
           /\ state' = [state EXCEPT ![d] = "failed"]
           /\ UNCHANGED served

Settle(d) == /\ state[d] = "queued"
             /\ \/ /\ state' = [state EXCEPT ![d] = "ready"]
                   /\ served' = [served EXCEPT ![d] = Text[d]]
                \/ /\ state' = [state EXCEPT ![d] = "failed"]
                   /\ UNCHANGED served

Remove(d) == /\ state[d] \in {"queued", "ready", "failed"}
             /\ state' = [state EXCEPT ![d] = "gone"]
             /\ served' = [served EXCEPT ![d] = {}]

Next == \E d \in Docs : Submit(d) \/ Lose(d) \/ Settle(d) \/ Remove(d)

Spec == Init /\ [][Next]_vars

\* every queued document settles, unless it is deleted first
FairSpec == Spec /\ \A d \in Docs : WF_vars(Settle(d))
=============================================================================
