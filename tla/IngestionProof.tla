----------------------------- MODULE IngestionProof ----------------------------
(***************************************************************************)
(* Proofs about Ingestion for any documents, workers, sizes and caps, with  *)
(* slow runs and crashes: what retrieval may serve is complete, and the     *)
(* overshoot of the cap bounded.  Without slow runs: nothing is paid twice, *)
(* and the pipeline takes the steps of DocumentLife.                        *)
(***************************************************************************)
EXTENDS Ingestion, FiniteSetTheorems, WellFoundedInduction, TLAPS

(* A run knows its document, and what it still has to do covers everything  *)
(* that is missing, whoever else stores chunks meanwhile.                   *)
Busy(w) == worker[w].at \notin {"idle", "dead"}

Held ==
    \A w \in Workers :
        /\ Busy(w) => DocOf(w) \in Docs
        /\ worker[w].at \in {"gate", "calling", "paid"} => worker[w].todo \subseteq Text[DocOf(w)]

Progress ==
    \A w \in Workers :
        Alive(DocOf(w)) =>
            /\ worker[w].at \in {"gate", "calling", "paid"} =>
                  Text[DocOf(w)] \subseteq chunks[DocOf(w)] \cup worker[w].todo
            /\ worker[w].at \in {"merge", "merged"} => Text[DocOf(w)] \subseteq chunks[DocOf(w)]

(* Whoever is between the merge and its commit holds the row, so the index  *)
(* it read is still the committed one.                                      *)
IndexHeld ==
    /\ \A w \in Workers : worker[w].at = "merged" <=> rowLock = w
    /\ rowLock # Nobody => kwSeen = kw

Typed == TypeOK /\ Held
ServeInv == Typed /\ Progress /\ ReadyComplete
IndexInv == Typed /\ IndexHeld /\ KeywordsComplete

-----------------------------------------------------------------------------
LEMMA SliceType ==
    ASSUME NEW todo PROVE Slice(todo) \subseteq todo
  BY DEF Slice

LEMMA TextType ==
    \A d \in Docs : Text[d] = 0 .. Size[d] - 1 /\ Text[d] \subseteq Chunks /\ IsFiniteSet(Text[d])
  <1> SUFFICES ASSUME NEW d \in Docs
               PROVE  Text[d] = 0 .. Size[d] - 1 /\ Text[d] \subseteq Chunks /\ IsFiniteSet(Text[d])
    OBVIOUS
  <1>1. Text[d] = 0 .. Size[d] - 1 /\ Text[d] \subseteq Chunks
    BY DEF Text, Chunks
  <1>2. 0 \in Int /\ Size[d] - 1 \in Int
    BY SizesOK
  <1>3. QED
    BY <1>1, <1>2, FS_Interval

LEMMA InitTyped == Init => Typed
  <1> SUFFICES ASSUME Init PROVE Typed
    OBVIOUS
  <1>1. Free \in Worker
    BY SizesOK DEF Free, Worker
  <1>2. QED
    BY <1>1, SizesOK DEF Init, Typed, TypeOK, Held, Busy, Statuses, Listed, InFlight, Free

(* A loop that moves on keeps its document.                                 *)
LEMMA MoveType ==
    ASSUME Typed, NEW w \in Workers,
           NEW where \in {"opening", "extract", "gate", "calling", "paid", "merge", "merged", "failing",
                       "marking"},
           Busy(w),
           where \in {"gate", "calling", "paid"} => worker[w].todo \subseteq Text[DocOf(w)],
           Goto(w, where)
    PROVE  worker' \in [Workers -> Worker] /\ Held'
  <1>1. [worker[w] EXCEPT !.at = where] \in Worker
    BY SMTT(30) DEF Typed, TypeOK, Worker
  <1>2. worker' \in [Workers -> Worker]
    BY <1>1 DEF Goto, Typed, TypeOK
  <1>3. Held'
    BY DEF Goto, Typed, TypeOK, Held, Busy, DocOf
  <1>4. QED
    BY <1>2, <1>3

LEMMA RestType ==
    ASSUME Typed, NEW w \in Workers,
           Rest(w) \/ worker' = [worker EXCEPT ![w] = [Free EXCEPT !.at = "dead"]]
    PROVE  worker' \in [Workers -> Worker] /\ Held'
  <1>1. Free \in Worker /\ [Free EXCEPT !.at = "dead"] \in Worker
    BY SizesOK DEF Free, Worker
  <1>2. worker' \in [Workers -> Worker]
    BY <1>1 DEF Rest, Typed, TypeOK
  <1>3. worker'[w].at \in {"idle", "dead"} /\ \A v \in Workers : v # w => worker'[v] = worker[v]
    BY DEF Rest, Free, Typed, TypeOK
  <1>4. Held'
    BY <1>3 DEF Typed, Held, Busy, DocOf
  <1>5. QED
    BY <1>2, <1>4

LEMMA UserTyped ==
    ASSUME Typed, NEW d \in Docs, User(d) \/ Age(d)
    PROVE  Typed'
  <1>1. status' \in [Docs -> Statuses]
    BY DEF User, UploadPut, StoreBlob, UploadFails, UploadCommit, Delete, DropBlob, Age, Set,
           Typed, TypeOK, Statuses, Listed, InFlight
  <1>2. /\ claimed' \in [Docs -> {"never", "fresh", "stale"}]
        /\ blob' \subseteq Docs
    BY DEF User, UploadPut, StoreBlob, UploadFails, UploadCommit, Delete, DropBlob, Age,
           Typed, TypeOK
  <1>3. /\ chunks' \in [Docs -> SUBSET Chunks]
        /\ \A e \in Docs : chunks'[e] \subseteq Text[e]
    BY DEF User, UploadPut, UploadFails, UploadCommit, Delete, DropBlob, Age, Typed, TypeOK
  <1>4. UNCHANGED <<kw, kwSeen, rowLock, worker, paid, spent, crashes>>
    BY DEF User, UploadPut, UploadFails, UploadCommit, Delete, DropBlob, Age, index, money
  <1>5. QED
    BY <1>1, <1>2, <1>3, <1>4 DEF Typed, TypeOK, Held, Busy, DocOf

LEMMA QueueTyped ==
    ASSUME Typed, NEW w \in Workers,
           Claim(w) \/ ClaimReturns(w) \/ Recover(w) \/ Crash(w) \/ Restart(w)
    PROVE  Typed'
  <1>1. CASE Claim(w)
    <2>1. PICK d \in Docs :
            /\ Set(d, "processing")
            /\ claimed' = [claimed EXCEPT ![d] = "fresh"]
            /\ worker' = [worker EXCEPT ![w] = [at |-> "claimed", doc |-> d, todo |-> {}]]
            /\ UNCHANGED <<blob, chunks, index, money, crashes>>
      BY <1>1 DEF Claim
    <2>2. [at |-> "claimed", doc |-> d, todo |-> {}] \in Worker
      BY SizesOK DEF Worker, Docs
    <2>3. worker' \in [Workers -> Worker] /\ Held'
      BY <2>1, <2>2 DEF Typed, TypeOK, Held, Busy, DocOf
    <2>4. QED
      BY <2>1, <2>3 DEF Set, Statuses, Listed, InFlight, index, money, Typed, TypeOK
  <1>2. CASE ClaimReturns(w)
    <2>1. worker' \in [Workers -> Worker] /\ Held'
      BY <1>2, MoveType, RestType DEF ClaimReturns, Busy
    <2>2. QED
      BY <1>2, <2>1 DEF ClaimReturns, index, money, Typed, TypeOK
  <1>3. ASSUME status' = Recovered, claimed' = Unclaimed
        PROVE  /\ status' \in [Docs -> Statuses]
               /\ claimed' \in [Docs -> {"never", "fresh", "stale"}]
    BY <1>3 DEF Recovered, Unclaimed, Statuses, Listed, InFlight, Typed, TypeOK
  <1>4. CASE Recover(w)
    BY <1>3, <1>4 DEF Recover, index, money, Typed, TypeOK, Held, Busy, DocOf
  <1>5. CASE Crash(w)
    <2>1. worker' \in [Workers -> Worker] /\ Held'
      BY <1>5, RestType DEF Crash
    <2>2. crashes' \in 0 .. MaxCrashes
      BY <1>5, SizesOK DEF Crash, Typed, TypeOK
    <2>3. QED
      BY <1>5, <2>1, <2>2 DEF Crash, money, Typed, TypeOK
  <1>6. CASE Restart(w)
    <2>1. worker' \in [Workers -> Worker] /\ Held'
      BY <1>6, RestType DEF Restart
    <2>2. QED
      BY <1>3, <1>6, <2>1 DEF Restart, index, money, Typed, TypeOK
  <1>7. QED
    BY <1>1, <1>2, <1>4, <1>5, <1>6

LEMMA RunTyped ==
    ASSUME Typed, NEW w \in Workers, Run(w)
    PROVE  Typed'
  <1> DEFINE d == DocOf(w)
             slice == Slice(worker[w].todo)
  <1>1. CASE ClaimReturns(w)
    BY <1>1, QueueTyped
  <1>2. CASE Open(w) \/ MarkFailed(w)
    <2>1. worker' \in [Workers -> Worker] /\ Held'
      BY <1>2, MoveType, RestType DEF Open, MarkFailed, Busy
    <2>2. QED
      BY <1>2, <2>1 DEF Open, MarkFailed, index, money, Typed, TypeOK
  <1>3. CASE ExtractFails(w) \/ CallFails(w)
    <2>1. worker' \in [Workers -> Worker] /\ Held'
      BY <1>3, MoveType DEF ExtractFails, CallFails, Busy
    <2>2. QED
      BY <1>3, <2>1 DEF ExtractFails, CallFails, index, money, Typed, TypeOK
  <1>4. CASE ExtractSettles(w) \/ CommitFailed(w)
    <2>1. worker' \in [Workers -> Worker] /\ Held'
      BY <1>4, RestType DEF ExtractSettles, CommitFailed
    <2>2. status' \in [Docs -> Statuses]
      BY <1>4 DEF ExtractSettles, CommitFailed, FailedFor, Set, Statuses, Listed, Typed, TypeOK
    <2>3. QED
      BY <1>4, <2>1, <2>2 DEF ExtractSettles, CommitFailed, index, money, Typed, TypeOK
  <1>5. CASE Extract(w)
    <2>1. d \in Docs /\ Todo(d) \subseteq Text[d] /\ Todo(d) \in SUBSET Chunks
      BY <1>5, TextType DEF Extract, Typed, Held, Busy, Todo
    <2>2. worker' = [worker EXCEPT ![w] = [worker[w] EXCEPT !.at = "gate", !.todo = Todo(d)]]
      BY <1>5 DEF Extract, Typed, TypeOK
    <2>3. UNCHANGED <<status, claimed, blob, chunks, kw, kwSeen, rowLock, paid, spent, crashes>>
      BY <1>5 DEF Extract, index, money
    <2> DEFINE td == Todo(d)
    <2> HIDE DEF td
    <2>4. [worker[w] EXCEPT !.at = "gate", !.todo = td] \in Worker
      BY <2>1, ZenonT(40) DEF td, Typed, TypeOK, Worker
    <2>5. /\ worker'[w].todo = td /\ worker'[w].doc = d
          /\ \A v \in Workers : v # w => worker'[v] = worker[v]
      BY <2>2 DEF td, Typed, TypeOK, Worker, DocOf
    <2>6. worker' \in [Workers -> Worker] /\ Held'
      BY <2>1, <2>2, <2>4, <2>5 DEF td, Typed, TypeOK, Held, Busy, DocOf
    <2>7. QED
      BY <2>3, <2>6 DEF Typed, TypeOK
  <1>6. CASE Gate(w)
    <2>1. worker' \in [Workers -> Worker] /\ Held'
      BY <1>6, MoveType DEF Gate, Busy, Typed, Held
    <2>2. QED
      BY <1>6, <2>1 DEF Gate, index, money, Typed, TypeOK
  <1>7. CASE Call(w)
    <2>1. worker' \in [Workers -> Worker] /\ Held'
      BY <1>7, MoveType DEF Call, Busy, Typed, Held
    <2>2. paid' \in [Docs -> [Chunks -> 0 .. MaxPaid]]
      <3> DEFINE p == [c \in Chunks |-> IF c \in slice /\ paid[d][c] < MaxPaid
                                          THEN paid[d][c] + 1 ELSE paid[d][c]]
      <3>1. d \in Docs
        BY <1>7 DEF Call, Typed, Held, Busy
      <3>2. paid' = [paid EXCEPT ![d] = p]
        BY <1>7, <3>1 DEF Call, Typed, TypeOK
      <3>3. p \in [Chunks -> 0 .. MaxPaid]
        BY <3>1, SizesOK DEF Typed, TypeOK
      <3>4. QED
        BY <3>2, <3>3 DEF Typed, TypeOK
    <2>3. QED
      BY <1>7, <2>1, <2>2 DEF Call, index, Typed, TypeOK
  <1>8. CASE Store(w)
    <2>1. d \in Docs /\ worker[w].todo \subseteq Text[d] /\ slice \subseteq Text[d]
      BY <1>8, SliceType DEF Store, Inserted, Typed, Held, Busy
    <2>2. Cardinality(slice) \in Nat /\ spent' = spent + Cardinality(slice)
      BY <1>8, <2>1, TextType, FS_Subset, FS_CardinalityType DEF Store, Inserted
    <2>3. /\ chunks' \in [Docs -> SUBSET Chunks]
          /\ \A e \in Docs : chunks'[e] \subseteq Text[e]
      BY <1>8, <2>1, TextType DEF Store, Inserted, Typed, TypeOK
    <2>4. worker' = [worker EXCEPT ![w] = [worker[w] EXCEPT !.at = "gate",
                                             !.todo = worker[w].todo \ slice]]
      BY <1>8 DEF Store, Inserted, Typed, TypeOK
    <2>5. UNCHANGED <<status, claimed, blob, kw, kwSeen, rowLock, paid, crashes>>
      BY <1>8 DEF Store, Inserted, index
    <2> DEFINE td == worker[w].todo \ slice
    <2> HIDE DEF td
    <2>6. [worker[w] EXCEPT !.at = "gate", !.todo = td] \in Worker
      BY DEF td, Typed, TypeOK, Worker
    <2>7. /\ worker'[w].todo = td /\ worker'[w].doc = d
          /\ \A v \in Workers : v # w => worker'[v] = worker[v]
      BY <2>4 DEF td, Typed, TypeOK, Worker, DocOf
    <2>8. worker' \in [Workers -> Worker] /\ Held'
      BY <2>1, <2>4, <2>6, <2>7 DEF td, Typed, TypeOK, Held, Busy, DocOf
    <2>9. QED
      BY <2>2, <2>3, <2>5, <2>8 DEF Typed, TypeOK
  <1>9. CASE Merge(w)
    <2>1. worker' \in [Workers -> Worker] /\ Held'
      BY <1>9, MoveType DEF Merge, Busy
    <2>2. QED
      BY <1>9, <2>1 DEF Merge, money, Typed, TypeOK
  <1>10. CASE Finish(w)
    <2>1. worker' \in [Workers -> Worker] /\ Held' /\ d \in Docs
      BY <1>10, RestType DEF Finish, Typed, Held, Busy
    <2>2. QED
      BY <1>10, <2>1 DEF Finish, Set, money, Statuses, Listed, Typed, TypeOK
  <1>11. CASE Vanished(w)
    <2>1. worker' \in [Workers -> Worker] /\ Held'
      BY <1>11, MoveType DEF Vanished, Busy
    <2>2. QED
      BY <1>11, <2>1 DEF Vanished, money, Typed, TypeOK
  <1>12. QED
    BY <1>1, <1>2, <1>3, <1>4, <1>5, <1>6, <1>7, <1>8, <1>9, <1>10, <1>11 DEF Run

LEMMA TypedStep == Typed /\ [Next]_vars => Typed'
  <1> SUFFICES ASSUME Typed, [Next]_vars PROVE Typed'
    OBVIOUS
  <1>1. CASE UNCHANGED vars
    BY <1>1 DEF vars, Typed, TypeOK, Held, Busy, DocOf
  <1>2. CASE Next
    BY <1>2, UserTyped, QueueTyped, RunTyped DEF Next
  <1>3. QED
    BY <1>1, <1>2

\* Every variable keeps its type for any documents, workers and sizes: in
\* particular no document is ever given a chunk that its text does not have.
THEOREM TypeCorrect == Spec => []TypeOK
  <1>1. Typed => TypeOK
    BY DEF Typed
  <1>2. QED
    BY <1>1, InitTyped, TypedStep, PTL DEF Spec

(* Where a step that only moves the loop leaves it.                         *)
LEMMA WhereTo ==
    ASSUME Typed, NEW w \in Workers
    PROVE  /\ \A where : Goto(w, where) => worker'[w].at = where
           /\ Rest(w) => worker'[w].at = "idle"
           /\ worker' = [worker EXCEPT ![w] = [Free EXCEPT !.at = "dead"]] => worker'[w].at = "dead"
  <1>1. ASSUME NEW where, Goto(w, where) PROVE worker'[w].at = where
    BY <1>1 DEF Goto, Typed, TypeOK
  <1>2. ASSUME Rest(w) PROVE worker'[w].at = "idle"
    BY <1>2 DEF Rest, Free, Typed, TypeOK
  <1>3. ASSUME worker' = [worker EXCEPT ![w] = [Free EXCEPT !.at = "dead"]]
        PROVE  worker'[w].at = "dead"
    BY <1>3 DEF Free, Typed, TypeOK
  <1>4. QED
    BY <1>1, <1>2, <1>3

-----------------------------------------------------------------------------
(* ReadyComplete.  What the proof rests on: rows of a document only grow,   *)
(* until it is deleted, and a deleted document never comes back.            *)

LEMMA ServeInit == Init => Progress /\ ReadyComplete
  BY DEF Init, Progress, ReadyComplete, Free, DocOf

(* Steps that leave the runs alone.                                         *)
LEMMA ServeByUser ==
    ASSUME ServeInv, NEW d \in Docs, User(d) \/ Age(d)
    PROVE  Progress' /\ ReadyComplete'
  <1>1. worker' = worker
    BY DEF User, UploadPut, UploadFails, UploadCommit, Delete, DropBlob, Age
  <1>2. CASE Delete(d)
    <2>1. /\ status' = [status EXCEPT ![d] = "deleted"]
          /\ chunks' = [chunks EXCEPT ![d] = {}]
      BY <1>2 DEF Delete, Set
    <2>2. \A e \in Docs : e # d => chunks'[e] = chunks[e] /\ status'[e] = status[e]
      BY <2>1 DEF ServeInv, Typed, TypeOK
    <2>3. status'[d] = "deleted"
      BY <2>1 DEF ServeInv, Typed, TypeOK
    <2>4. Progress'
      <3> SUFFICES ASSUME NEW w \in Workers, Alive(DocOf(w))'
                   PROVE /\ worker[w].at \in {"gate", "calling", "paid"} =>
                               Text[DocOf(w)] \subseteq chunks'[DocOf(w)] \cup worker[w].todo
                         /\ worker[w].at \in {"merge", "merged"} =>
                               Text[DocOf(w)] \subseteq chunks'[DocOf(w)]
        BY <1>1 DEF Progress, DocOf
      <3>1. CASE DocOf(w) \in Docs
        <4>1. DocOf(w) # d
          BY <1>1, <2>3 DEF Alive, DocOf
        <4>2. QED
          BY <1>1, <2>2, <3>1, <4>1 DEF ServeInv, Progress, Alive, DocOf
      <3>2. CASE DocOf(w) \notin Docs
        BY <3>2 DEF ServeInv, Typed, Held, Busy
      <3>3. QED
        BY <3>1, <3>2
    <2>5. QED
      BY <2>2, <2>3, <2>4 DEF ServeInv, ReadyComplete
  <1>3. CASE ~Delete(d)
    <2>1. chunks' = chunks
      BY <1>3 DEF User, UploadPut, UploadFails, UploadCommit, DropBlob, Age
    <2>2. \A e \in Docs : /\ status'[e] = "ready" => status[e] = "ready"
                          /\ status[e] = "deleted" => status'[e] = "deleted"
      BY <1>3 DEF User, UploadPut, StoreBlob, UploadFails, UploadCommit, DropBlob, Age, Set,
                  ServeInv, Typed, TypeOK
    <2>3. \A w \in Workers : Busy(w) => (Alive(DocOf(w))' => Alive(DocOf(w)))
      BY <1>1, <2>2 DEF ServeInv, Typed, Held, Alive, DocOf
    <2>4. Progress'
      BY <1>1, <2>1, <2>3 DEF ServeInv, Progress, DocOf, Busy
    <2>5. QED
      BY <2>1, <2>2, <2>4 DEF ServeInv, ReadyComplete
  <1>4. QED
    BY <1>2, <1>3

(* The other runs survive a step of w if no row is lost and nothing is      *)
(* brought back.                                                            *)
LEMMA OthersServe ==
    ASSUME ServeInv, NEW w \in Workers,
           \A v \in Workers : v # w => worker'[v] = worker[v],
           \A e \in Docs : status[e] = "deleted" => status'[e] = "deleted",
           \A e \in Docs : chunks[e] \subseteq chunks'[e]
    PROVE  \A v \in Workers : v # w /\ Alive(DocOf(v))' =>
             /\ worker'[v].at \in {"gate", "calling", "paid"} =>
                  Text[DocOf(v)'] \subseteq chunks'[DocOf(v)'] \cup worker'[v].todo
             /\ worker'[v].at \in {"merge", "merged"} => Text[DocOf(v)'] \subseteq chunks'[DocOf(v)']
  <1> SUFFICES ASSUME NEW v \in Workers, v # w, Alive(DocOf(v))', Busy(v)
               PROVE /\ worker[v].at \in {"gate", "calling", "paid"} =>
                           Text[DocOf(v)] \subseteq chunks'[DocOf(v)] \cup worker[v].todo
                     /\ worker[v].at \in {"merge", "merged"} =>
                           Text[DocOf(v)] \subseteq chunks'[DocOf(v)]
    BY DEF DocOf, Busy
  <1>1. DocOf(v) \in Docs /\ DocOf(v)' = DocOf(v)
    BY DEF ServeInv, Typed, Held, DocOf
  <1>2. Alive(DocOf(v)) /\ chunks[DocOf(v)] \subseteq chunks'[DocOf(v)]
    BY <1>1 DEF Alive
  <1>3. QED
    BY <1>2 DEF ServeInv, Progress

(* The loop's own steps, outside a run.                                     *)
LEMMA ServeByQueue ==
    ASSUME ServeInv, NEW w \in Workers, Claim(w) \/ Recover(w) \/ Crash(w) \/ Restart(w)
    PROVE  Progress' /\ ReadyComplete'
  <1>1. /\ chunks' = chunks
        /\ \A v \in Workers : v # w => worker'[v] = worker[v]
        /\ worker'[w].at \in {"claimed", "idle", "dead"}
    BY DEF Claim, Recover, Crash, Restart, Rest, Free, ServeInv, Typed, TypeOK
  <1>2. \A e \in Docs : /\ status[e] = "deleted" => status'[e] = "deleted"
                        /\ status'[e] = "ready" => status[e] = "ready"
    BY DEF Claim, Recover, Crash, Restart, Recovered, Stuck, Set, ServeInv, Typed, TypeOK
  <1>3. Progress'
    BY <1>1, <1>2, OthersServe DEF Progress
  <1>4. QED
    BY <1>1, <1>2, <1>3 DEF ServeInv, ReadyComplete

LEMMA ServeByRun ==
    ASSUME ServeInv, NEW w \in Workers, Run(w)
    PROVE  Progress' /\ ReadyComplete'
  <1> DEFINE d == DocOf(w)
             slice == Slice(worker[w].todo)
  <1>1. d \in Docs /\ \A v \in Workers : v # w => worker'[v] = worker[v]
    BY DEF Run, ClaimReturns, Open, ExtractFails, ExtractSettles, Extract, Gate, CallFails,
           Call, Store, Inserted, Merge, Finish, Vanished, MarkFailed, CommitFailed, Goto, Rest,
           ServeInv, Typed, TypeOK, Held, Busy
  <1>2. \A e \in Docs : chunks[e] \subseteq chunks'[e]
    BY <1>1 DEF Run, ClaimReturns, Open, ExtractFails, ExtractSettles, Extract, Gate, CallFails,
           Call, Store, Inserted, Merge, Finish, Vanished, MarkFailed, CommitFailed, ServeInv, Typed, TypeOK
  <1>3. \A e \in Docs : status[e] = "deleted" => status'[e] = "deleted"
    BY <1>1 DEF Run, ClaimReturns, Open, ExtractFails, ExtractSettles, Extract, Gate, CallFails,
           Call, Store, Inserted, Merge, Finish, Vanished, MarkFailed, CommitFailed, Set, Alive, ServeInv, Typed, TypeOK
  <1>4. \A v \in Workers : v # w /\ Alive(DocOf(v))' =>
             /\ worker'[v].at \in {"gate", "calling", "paid"} =>
                  Text[DocOf(v)'] \subseteq chunks'[DocOf(v)'] \cup worker'[v].todo
             /\ worker'[v].at \in {"merge", "merged"} => Text[DocOf(v)'] \subseteq chunks'[DocOf(v)']
    BY <1>1, <1>2, <1>3, OthersServe
  <1>5. ReadyComplete'
    <2>1. \A e \in Docs : status'[e] = "ready" => status[e] = "ready" \/ (e = d /\ Text[d] \subseteq chunks[d])
      <3>1. CASE Finish(w)
        BY <1>1, <3>1 DEF Finish, Set, ServeInv, Progress, Typed, TypeOK
      <3>2. CASE ExtractSettles(w)
        <4>1. Size[d] = 0 => Text[d] = {}
          BY <1>1, TextType
        <4>2. QED
          BY <1>1, <3>2, <4>1 DEF ExtractSettles, Set, ServeInv, Typed, TypeOK
      <3>3. CASE ~Finish(w) /\ ~ExtractSettles(w)
        BY <1>1, <3>3 DEF Run, ClaimReturns, Open, ExtractFails, Extract, Gate, CallFails,
             Call, Store, Inserted, Merge, Vanished, MarkFailed, CommitFailed, FailedFor, Set, ServeInv, Typed, TypeOK
      <3>4. QED
        BY <3>1, <3>2, <3>3
    <2>2. \A e \in Docs : chunks'[e] \subseteq Text[e]
      BY TypedStep DEF ServeInv, Typed, TypeOK, Next
    <2>3. QED
      BY <1>1, <1>2, <2>1, <2>2 DEF ServeInv, ReadyComplete
  <1>6. Progress'
    <2> SUFFICES Alive(DocOf(w))' =>
             /\ worker'[w].at \in {"gate", "calling", "paid"} =>
                  Text[DocOf(w)'] \subseteq chunks'[DocOf(w)'] \cup worker'[w].todo
             /\ worker'[w].at \in {"merge", "merged"} => Text[DocOf(w)'] \subseteq chunks'[DocOf(w)']
      BY <1>4 DEF Progress
    <2>1. CASE Extract(w)
      <3>1. worker'[w].at = "gate" /\ worker'[w].doc = d /\ worker'[w].todo = Todo(d) /\ chunks' = chunks
        BY <2>1 DEF Extract, ServeInv, Typed, TypeOK, Worker, DocOf
      <3>2. QED
        BY <3>1 DEF Todo, DocOf
    <2>2. CASE Gate(w)
      <3>1. /\ chunks' = chunks /\ status' = status
            /\ worker'[w].doc = d /\ worker'[w].todo = worker[w].todo
            /\ worker'[w].at \in {"merge", "calling", "failing"}
            /\ worker'[w].at = "merge" => worker[w].todo = {}
            /\ worker[w].at = "gate"
        BY <2>2 DEF Gate, Goto, ServeInv, Typed, TypeOK, Worker, DocOf
      <3>2. QED
        BY <3>1 DEF ServeInv, Progress, Alive, DocOf
    <2>3. CASE Call(w)
      <3>1. /\ chunks' = chunks /\ status' = status
            /\ worker'[w].doc = d /\ worker'[w].todo = worker[w].todo
            /\ worker'[w].at = "paid" /\ worker[w].at = "calling"
        BY <2>3 DEF Call, Goto, ServeInv, Typed, TypeOK, Worker, DocOf
      <3>2. QED
        BY <3>1 DEF ServeInv, Progress, Alive, DocOf
    <2>4. CASE Store(w)
      <3>1. /\ chunks'[d] = chunks[d] \cup slice /\ status' = status
            /\ worker'[w].doc = d /\ worker'[w].todo = worker[w].todo \ slice
            /\ worker'[w].at = "gate" /\ worker[w].at = "paid"
        BY <1>1, <2>4 DEF Store, Inserted, ServeInv, Typed, TypeOK, Worker, DocOf
      <3>2. QED
        BY <1>1, <3>1 DEF ServeInv, Progress, Alive, DocOf
    <2>5. CASE Merge(w)
      <3>1. /\ chunks' = chunks /\ status' = status /\ worker'[w].doc = d
            /\ worker'[w].at = "merged" /\ worker[w].at = "merge"
        BY <2>5 DEF Merge, Goto, ServeInv, Typed, TypeOK, Worker, DocOf
      <3>2. QED
        BY <3>1 DEF ServeInv, Progress, Alive, DocOf
    <2>6. CASE ~(Extract(w) \/ Gate(w) \/ Call(w) \/ Store(w) \/ Merge(w))
      <3>1. worker'[w].at \in {"opening", "extract", "failing", "marking", "idle", "dead"}
        <4>1. CASE ClaimReturns(w)
          BY <4>1, WhereTo DEF ClaimReturns, ServeInv
        <4>2. CASE Open(w) \/ MarkFailed(w)
          BY <4>2, WhereTo DEF Open, MarkFailed, ServeInv
        <4>3. CASE ExtractFails(w) \/ CallFails(w) \/ Vanished(w)
          BY <4>3, WhereTo DEF ExtractFails, CallFails, Vanished, ServeInv
        <4>4. CASE ExtractSettles(w) \/ Finish(w) \/ CommitFailed(w)
          BY <4>4, WhereTo DEF ExtractSettles, Finish, CommitFailed, ServeInv
        <4>5. QED
          BY <2>6, <4>1, <4>2, <4>3, <4>4 DEF Run
      <3>2. QED
        BY <3>1
    <2>7. QED
      BY <2>1, <2>2, <2>3, <2>4, <2>5, <2>6
  <1>7. QED
    BY <1>5, <1>6

LEMMA ServeStep == ServeInv /\ [Next]_vars => ServeInv'
  <1> SUFFICES ASSUME ServeInv, [Next]_vars PROVE ServeInv'
    OBVIOUS
  <1>1. Typed'
    BY TypedStep DEF ServeInv
  <1>2. CASE UNCHANGED vars
    BY <1>1, <1>2 DEF vars, ServeInv, Progress, ReadyComplete, Alive, DocOf
  <1>3. CASE Next
    BY <1>1, <1>3, ServeByUser, ServeByQueue, ServeByRun DEF Next, ServeInv
  <1>4. QED
    BY <1>2, <1>3

\* A ready document has all of its chunks stored, whatever crashed or slow runs
\* worked on it, two at a time or not, before one of them finished.
THEOREM ReadyIsComplete == Spec => []ReadyComplete
  <1>1. Init => ServeInv
    BY InitTyped, ServeInit DEF ServeInv
  <1>2. ServeInv => ReadyComplete
    BY DEF ServeInv
  <1>3. QED
    BY <1>1, <1>2, ServeStep, PTL DEF Spec

-----------------------------------------------------------------------------
(* KeywordsComplete.  The row lock makes read-union-write one step.         *)

LEMMA IndexStep == IndexInv /\ [Next]_vars => IndexInv'
  <1> SUFFICES ASSUME IndexInv, [Next]_vars PROVE IndexInv'
    OBVIOUS
  <1>1. Typed'
    BY TypedStep DEF IndexInv
  <1>2. CASE UNCHANGED vars
    BY <1>1, <1>2 DEF vars, IndexInv, IndexHeld, KeywordsComplete
  <1>3. ASSUME UNCHANGED <<worker, kw, kwSeen, rowLock>>,
               \A e \in Docs : status'[e] = "ready" => status[e] = "ready"
        PROVE  IndexHeld' /\ KeywordsComplete'
    BY <1>3 DEF IndexInv, IndexHeld, KeywordsComplete
  <1>4. ASSUME NEW d \in Docs, User(d) \/ Age(d)
        PROVE  IndexHeld' /\ KeywordsComplete'
    <2>1. UNCHANGED <<worker, kw, kwSeen, rowLock>>
      BY <1>4 DEF User, UploadPut, UploadFails, UploadCommit, Delete, DropBlob, Age, index
    <2>2. \A e \in Docs : status'[e] = "ready" => status[e] = "ready"
      BY <1>4 DEF User, UploadPut, StoreBlob, UploadFails, UploadCommit, Delete, DropBlob, Age, Set,
                  IndexInv, Typed, TypeOK
    <2>3. QED
      BY <1>3, <2>1, <2>2
  <1>5. ASSUME NEW w \in Workers, Recover(w)
        PROVE  IndexHeld' /\ KeywordsComplete'
    BY <1>3, <1>5 DEF Recover, Recovered, Stuck, index
  <1>6. ASSUME NEW w \in Workers, Merge(w)
        PROVE  IndexHeld' /\ KeywordsComplete'
    <2>1. /\ rowLock = Nobody /\ rowLock' = w /\ kwSeen' = kw
          /\ UNCHANGED <<kw, status>>
          /\ worker'[w].at = "merged"
          /\ \A v \in Workers : v # w => worker'[v] = worker[v]
      BY <1>6 DEF Merge, RowFree, Goto, IndexInv, Typed, TypeOK
    <2>2. QED
      BY <2>1, SizesOK DEF IndexInv, IndexHeld, KeywordsComplete
  <1>7. ASSUME NEW w \in Workers, Finish(w)
        PROVE  IndexHeld' /\ KeywordsComplete'
    <2>1. /\ DocOf(w) \in Docs
          /\ rowLock = w /\ rowLock' = Nobody
          /\ kw' = kw \cup {DocOf(w)}
          /\ worker'[w].at = "idle"
          /\ \A v \in Workers : v # w => worker'[v] = worker[v]
          /\ status' = [status EXCEPT ![DocOf(w)] = "ready"]
      BY <1>7, SizesOK DEF Finish, Set, Rest, Free, IndexInv, IndexHeld, Typed, TypeOK, Held, Busy
    <2>2. IndexHeld'
      BY <2>1, SizesOK DEF IndexInv, IndexHeld
    <2>3. KeywordsComplete'
      BY <2>1 DEF IndexInv, KeywordsComplete, Typed, TypeOK
    <2>4. QED
      BY <2>2, <2>3
  <1>8. ASSUME NEW w \in Workers, Vanished(w) \/ Crash(w)
        PROVE  IndexHeld' /\ KeywordsComplete'
    <2>1. /\ status' = status /\ kw' = kw
          /\ worker'[w].at \in {"failing", "dead"}
          /\ \A v \in Workers : v # w => worker'[v] = worker[v]
          /\ IF rowLock = w THEN rowLock' = Nobody ELSE rowLock' = rowLock /\ kwSeen' = kwSeen
      <3>1. CASE Vanished(w)
        BY <1>8, <3>1 DEF Vanished, Goto, IndexInv, IndexHeld, Typed, TypeOK
      <3>2. CASE Crash(w)
        BY <1>8, <3>2 DEF Crash, Free, IndexInv, IndexHeld, Typed, TypeOK
      <3>3. QED
        BY <1>8, <3>1, <3>2
    <2>2. QED
      BY <2>1, SizesOK DEF IndexInv, IndexHeld, KeywordsComplete
  <1>9. ASSUME NEW w \in Workers,
               Claim(w) \/ Restart(w) \/ (Run(w) /\ ~Merge(w) /\ ~Finish(w) /\ ~Vanished(w))
        PROVE  IndexHeld' /\ KeywordsComplete'
    <2>1. UNCHANGED <<kw, kwSeen, rowLock>>
      BY <1>9 DEF Claim, Restart, Run, ClaimReturns, Open, ExtractFails, ExtractSettles, Extract,
                  Gate, CallFails, Call, Store, Inserted, MarkFailed, CommitFailed, index
    <2>2. \A v \in Workers : v # w => worker'[v] = worker[v]
      BY <1>9 DEF Claim, Restart, Run, ClaimReturns, Open, ExtractFails, ExtractSettles, Extract,
                  Gate, CallFails, Call, Store, Inserted, MarkFailed, CommitFailed, Goto, Rest, IndexInv, Typed, TypeOK
    <2>3. worker[w].at # "merged"
      BY <1>9 DEF Claim, Restart, Run, ClaimReturns, Open, ExtractFails, ExtractSettles, Extract,
                  Gate, CallFails, Call, Store, Inserted, MarkFailed, CommitFailed
    <2>4. worker'[w].at # "merged"
      <3>1. ASSUME NEW where, Goto(w, where), where # "merged"
            PROVE  worker'[w].at # "merged"
        BY <3>1 DEF Goto, IndexInv, Typed, TypeOK
      <3>2. CASE Open(w) \/ ExtractFails(w) \/ Gate(w) \/ CallFails(w) \/ Call(w)
        BY <3>1, <3>2 DEF Open, Rest, Free, ExtractFails, Gate, CallFails, Call,
                          IndexInv, Typed, TypeOK
      <3>3. CASE ClaimReturns(w) \/ MarkFailed(w)
        BY <3>1, <3>3 DEF ClaimReturns, MarkFailed, Rest, Free, IndexInv, Typed, TypeOK
      <3>4. CASE Extract(w) \/ Store(w)
        <4>1. ASSUME NEW td, worker' = [worker EXCEPT ![w].at = "gate", ![w].todo = td]
              PROVE  worker'[w].at = "gate"
          BY <4>1 DEF IndexInv, Typed, TypeOK
        <4>2. CASE Extract(w)
          BY <4>1, <4>2 DEF Extract
        <4>3. CASE Store(w)
          BY <4>1, <4>3 DEF Store, Inserted
        <4>4. QED
          BY <3>4, <4>2, <4>3
      <3>5. CASE Claim(w) \/ Restart(w) \/ ExtractSettles(w) \/ CommitFailed(w)
        BY <3>5 DEF Claim, Restart, ExtractSettles, CommitFailed, Rest, Free, IndexInv, Typed, TypeOK
      <3>6. QED
        BY <1>9, <3>2, <3>3, <3>4, <3>5 DEF Run
    <2>5. \A e \in Docs : status'[e] = "ready" => status[e] = "ready" \/ Size[e] = 0
      <3>1. CASE ExtractSettles(w)
        BY <3>1 DEF ExtractSettles, Set, IndexInv, Typed, TypeOK
      <3>2. CASE Claim(w) \/ Restart(w)
        BY <3>2 DEF Claim, Restart, Recovered, Stuck, Set, IndexInv, Typed, TypeOK
      <3>3. CASE CommitFailed(w)
        BY <3>3 DEF CommitFailed, FailedFor, Set, IndexInv, Typed, TypeOK
      <3>4. CASE Run(w) /\ ~Merge(w) /\ ~Finish(w) /\ ~Vanished(w) /\ ~ExtractSettles(w) /\ ~CommitFailed(w)
        BY <3>4 DEF Run, ClaimReturns, Open, ExtractFails, Extract, Gate, CallFails, Call, Store, Inserted,
                    MarkFailed
      <3>5. QED
        BY <1>9, <3>1, <3>2, <3>3, <3>4
    <2>6. IndexHeld'
      BY <2>1, <2>2, <2>3, <2>4 DEF IndexInv, IndexHeld
    <2>7. KeywordsComplete'
      BY <2>1, <2>5 DEF IndexInv, KeywordsComplete
    <2>8. QED
      BY <2>6, <2>7
  <1>10. CASE Next
    BY <1>1, <1>4, <1>5, <1>6, <1>7, <1>8, <1>9, <1>10 DEF Next, IndexInv
  <1>11. QED
    BY <1>2, <1>10

\* No document's keywords are lost from the session index, however many workers
\* finish documents of one session together.
THEOREM KeywordsAreComplete == Spec => []KeywordsComplete
  <1>1. Init => IndexInv
    <2>1. Init => IndexHeld /\ KeywordsComplete
      BY SizesOK DEF Init, IndexHeld, KeywordsComplete, Free
    <2>2. QED
      BY <2>1, InitTyped DEF IndexInv
  <1>2. IndexInv => KeywordsComplete
    BY DEF IndexInv
  <1>3. QED
    BY <1>1, <1>2, IndexStep, PTL DEF Spec

-----------------------------------------------------------------------------
\* A deleted document has no chunks, for any runs under it: the run that holds it
\* cannot store another slice, and nothing brings the document back (F-28).
THEOREM NoOrphans == Spec => []NoOrphanChunks
  <1>1. Init => NoOrphanChunks
    BY DEF Init, NoOrphanChunks
  <1>2. ASSUME Typed, NoOrphanChunks, [Next]_vars
        PROVE  NoOrphanChunks'
    <2>1. ASSUME NEW d \in Docs, Delete(d)
          PROVE  NoOrphanChunks'
      BY <1>2, <2>1 DEF Delete, Set, NoOrphanChunks, Typed, TypeOK
    <2>2. ASSUME NEW d \in Docs, (User(d) /\ ~Delete(d)) \/ Age(d)
          PROVE  NoOrphanChunks'
      <3>1. \A e \in Docs : status'[e] = "deleted" => status[e] = "deleted"
        BY <1>2, <2>2 DEF User, UploadPut, StoreBlob, UploadFails, UploadCommit, DropBlob, Age,
                          Set, Typed, TypeOK
      <3>2. chunks' = chunks
        BY <2>2 DEF User, UploadPut, UploadFails, UploadCommit, DropBlob, Age
      <3>3. QED
        BY <1>2, <3>1, <3>2 DEF NoOrphanChunks
    <2>3. ASSUME NEW w \in Workers, Store(w)
          PROVE  NoOrphanChunks'
      <3>1. status[DocOf(w)] # "deleted" /\ status' = status
        BY <2>3 DEF Store, Alive
      <3>2. \A e \in Docs : e # DocOf(w) => chunks'[e] = chunks[e]
        BY <1>2, <2>3 DEF Store, Inserted, Typed, TypeOK
      <3>3. QED
        BY <1>2, <3>1, <3>2 DEF NoOrphanChunks
    <2>4. ASSUME NEW w \in Workers,
                 Claim(w) \/ Recover(w) \/ Crash(w) \/ Restart(w) \/ (Run(w) /\ ~Store(w))
          PROVE  NoOrphanChunks'
      <3>1. chunks' = chunks
        BY <2>4 DEF Claim, Recover, Crash, Restart, Run, ClaimReturns, Open, ExtractFails,
                    ExtractSettles, Extract, Gate, CallFails, Call, Merge, Finish, Vanished, MarkFailed, CommitFailed
      <3>2. \A e \in Docs : status'[e] = "deleted" => status[e] = "deleted"
        BY <1>2, <2>4
        DEF Claim, Recover, Recovered, Crash, Restart, Run, ClaimReturns, Open, ExtractFails,
            ExtractSettles, Extract, Gate, CallFails, Call, Merge, Finish, Vanished, MarkFailed, CommitFailed,
            FailedFor, Set, Typed, TypeOK
      <3>3. QED
        BY <1>2, <3>1, <3>2 DEF NoOrphanChunks
    <2>5. CASE UNCHANGED vars
      BY <1>2, <2>5 DEF vars, NoOrphanChunks
    <2>6. QED
      BY <1>2, <2>1, <2>2, <2>3, <2>4, <2>5 DEF Next
  <1>3. QED
    BY <1>1, <1>2, InitTyped, TypedStep, PTL DEF Spec

-----------------------------------------------------------------------------
(* CapOvershoot.  A slice is at most EmbedBatch chunks, and no more slices  *)
(* are under way past the gate than there are loops.                        *)

(* A nonempty set of naturals has a least element, by the well-foundedness  *)
(* of < : the form of induction a first-order prover can use.               *)
LEMMA Least ==
    ASSUME NEW S \in SUBSET Nat, S # {}
    PROVE  \E n \in S : \A m \in S : n <= m
  <1> DEFINE R == OpToRel(<, Nat)
  <1>1. IsWellFoundedOn(R, Nat)
    BY NatLessThanWellFounded
  <1>2. \A x, y \in Nat : x < y => <<x, y>> \in R
    BY DEF OpToRel
  <1> HIDE DEF R
  <1>3. \E x \in S : \A y \in S : ~ (<<y, x>> \in R)
    BY <1>1, WFMin
  <1>4. PICK n \in S : \A y \in S : ~ (<<y, n>> \in R)
    BY <1>3
  <1>5. ASSUME NEW m \in S PROVE n <= m
    <2>1. n \in Nat /\ m \in Nat /\ ~(m < n)
      BY <1>2, <1>4
    <2>2. QED
      BY <2>1
  <1>6. QED
    BY <1>5

LEMMA Greatest ==
    ASSUME NEW n \in Nat, NEW S \in SUBSET (0 .. n), S # {}
    PROVE  \E m \in S : \A c \in S : c <= m
  <1> DEFINE R == {n - c : c \in S}
  <1>1. R \in SUBSET Nat /\ R # {}
    <2>1. \A c \in S : n - c \in Nat
      OBVIOUS
    <2>2. QED
      BY <2>1
  <1>2. PICK k \in R : \A j \in R : k <= j
    BY <1>1, Least
  <1>3. PICK m \in S : k = n - m
    BY <1>2
  <1>4. ASSUME NEW c \in S PROVE c <= m
    <2>1. k <= n - c
      BY <1>2
    <2>2. QED
      BY <1>3, <2>1
  <1>5. QED
    BY <1>4

LEMMA SliceSize ==
    ASSUME NEW d \in Docs, NEW todo \in SUBSET Text[d]
    PROVE  /\ IsFiniteSet(Slice(todo))
           /\ Cardinality(Slice(todo)) \in Nat
           /\ Cardinality(Slice(todo)) <= EmbedBatch
  <1> DEFINE S == Slice(todo)
  <1>1. IsFiniteSet(todo) /\ S \subseteq todo /\ Size[d] \in Nat /\ todo \subseteq 0 .. Size[d]
    BY TextType, SliceType, FS_Subset, SizesOK
  <1>2. IsFiniteSet(S) /\ Cardinality(S) \in Nat
    BY <1>1, FS_Subset, FS_CardinalityType
  <1>3. S \subseteq Int
    <2>1. 0 .. Size[d] \subseteq Int
      BY <1>1
    <2>2. QED
      BY <1>1, <2>1
  <1>4. CASE S = {}
    BY <1>2, <1>4, FS_EmptySet, SizesOK
  <1>5. CASE S # {}
    <2>1. PICK m \in S : \A c \in S : c <= m
      BY <1>1, <1>5, Greatest
    <2> DEFINE B == {e \in todo : e < m}
    <2>2. Cardinality(B) < EmbedBatch
      BY DEF Slice
    <2>3. S \subseteq B \cup {m}
      <3>1. ASSUME NEW c \in S, c # m PROVE c < m
        <4>1. c <= m
          BY <2>1
        <4>2. c \in Int /\ m \in Int
          BY <1>3
        <4>3. QED
          BY <3>1, <4>1, <4>2
      <3>2. QED
        BY <1>1, <3>1
    <2>4. IsFiniteSet(B) /\ Cardinality(B) \in Nat /\ m \notin B
      <3>1. B \subseteq todo /\ m \in Int
        BY <1>1
      <3>2. IsFiniteSet(B)
        BY <1>1, <3>1, FS_Subset
      <3>3. QED
        BY <3>1, <3>2, FS_CardinalityType
    <2>5. IsFiniteSet(B \cup {m}) /\ Cardinality(B \cup {m}) = Cardinality(B) + 1
      BY <2>4, FS_AddElement
    <2>6. Cardinality(S) <= Cardinality(B \cup {m})
      BY <2>3, <2>5, FS_Subset
    <2> HIDE DEF S, B
    <2>7. QED
      BY <1>2, <2>2, <2>4, <2>5, <2>6, SizesOK DEF S
  <1>6. QED
    BY <1>2, <1>4, <1>5

(* Every loop past the gate may still put a slice on the ledger.            *)
Paying  == {w \in Workers : worker[w].at \in {"calling", "paid"}}
Bounded == spent + Cardinality(Paying) * EmbedBatch < Cap + Cardinality(Workers) * EmbedBatch

LEMMA PayingFinite ==
    ASSUME NEW P \in SUBSET Workers
    PROVE  /\ IsFiniteSet(P) /\ Cardinality(P) \in Nat
           /\ Cardinality(Workers) \in Nat /\ Cardinality(P) <= Cardinality(Workers)
           /\ \A w \in P : Cardinality(P \ {w}) = Cardinality(P) - 1
           /\ \A w \in Workers \ P : Cardinality(P) + 1 <= Cardinality(Workers)
  <1>1. /\ IsFiniteSet(P) /\ Cardinality(P) \in Nat
        /\ Cardinality(Workers) \in Nat /\ Cardinality(P) <= Cardinality(Workers)
    BY SizesOK, FS_Subset, FS_CardinalityType
  <1>2. ASSUME NEW w \in P PROVE Cardinality(P \ {w}) = Cardinality(P) - 1
    BY <1>1, FS_RemoveElement
  <1>3. ASSUME NEW w \in Workers \ P PROVE Cardinality(P) + 1 <= Cardinality(Workers)
    <2>1. Cardinality(P \cup {w}) = Cardinality(P) + 1
      BY <1>1, FS_AddElement
    <2>2. P \cup {w} \in SUBSET Workers
      OBVIOUS
    <2>3. Cardinality(P \cup {w}) <= Cardinality(Workers)
      BY <2>2, SizesOK, FS_Subset
    <2>4. QED
      BY <2>1, <2>3
  <1>4. QED
    BY <1>1, <1>2, <1>3

LEMMA TimesMonotone ==
    ASSUME NEW a \in Nat, NEW b \in Nat, a <= b
    PROVE  /\ a * EmbedBatch <= b * EmbedBatch
           /\ (a + 1) * EmbedBatch = a * EmbedBatch + EmbedBatch
           /\ a * EmbedBatch \in Nat
  BY SizesOK

LEMMA BoundedStep ==
    ASSUME Typed, Bounded, [Next]_vars
    PROVE  Bounded'
  <1>1. /\ Paying \in SUBSET Workers /\ Paying' \in SUBSET Workers
        /\ spent \in Nat /\ Cap \in Nat
    BY SizesOK DEF Paying, Typed, TypeOK
  <1> DEFINE p == Cardinality(Paying)
             q == Cardinality(Paying')
             n == Cardinality(Workers)
  <1>2. p \in Nat /\ q \in Nat /\ n \in Nat /\ EmbedBatch \in Nat
    BY <1>1, PayingFinite, SizesOK
  <1>3. ASSUME spent' = spent, Paying' \subseteq Paying
        PROVE  Bounded'
    <2>1. q <= p
      BY <1>1, <1>3, PayingFinite, FS_Subset
    <2>2. q * EmbedBatch <= p * EmbedBatch /\ q * EmbedBatch \in Nat /\ p * EmbedBatch \in Nat
          /\ n * EmbedBatch \in Nat
      BY <1>2, <2>1, TimesMonotone
    <2> HIDE DEF p, q, n
    <2>3. QED
      BY <1>1, <1>3, <2>2 DEF Bounded, p, q, n
  <1>4. ASSUME NEW w \in Workers, Gate(w)
        PROVE  Bounded'
    <2>1. /\ worker[w].at = "gate" /\ spent' = spent
          /\ \A v \in Workers : v # w => worker'[v] = worker[v]
      BY <1>4 DEF Gate, Goto, money, Typed, TypeOK
    <2>2. worker'[w].at \in {"merge", "failing"} \/ (worker'[w].at = "calling" /\ WithinCaps)
      BY <1>4, WhereTo DEF Gate
    <2>3. CASE worker'[w].at \in {"merge", "failing"}
      BY <1>3, <2>1, <2>3 DEF Paying
    <2>4. CASE worker'[w].at = "calling" /\ WithinCaps
      <3>1. w \in Workers \ Paying /\ Paying' = Paying \cup {w}
        BY <2>1, <2>4 DEF Paying
      <3>2. q = p + 1 /\ p + 1 <= n
        BY <1>1, <3>1, PayingFinite, FS_AddElement
      <3>3. q * EmbedBatch <= n * EmbedBatch /\ q * EmbedBatch \in Nat /\ n * EmbedBatch \in Nat
        BY <1>2, <3>2, TimesMonotone
      <3>4. spent < Cap
        BY <2>4 DEF WithinCaps
      <3> HIDE DEF p, q, n
      <3>5. QED
        BY <1>1, <2>1, <3>3, <3>4 DEF Bounded, p, q, n
    <2>5. QED
      BY <2>2, <2>3, <2>4
  <1>5. ASSUME NEW w \in Workers, Store(w)
        PROVE  Bounded'
    <2> DEFINE s == Cardinality(Slice(worker[w].todo))
    <2>1. DocOf(w) \in Docs /\ worker[w].todo \in SUBSET Text[DocOf(w)]
      BY <1>5 DEF Store, Typed, Held, Busy
    <2>2. s \in Nat /\ s <= EmbedBatch
      BY <2>1, SliceSize
    <2>3. /\ worker[w].at = "paid" /\ spent' = spent + s
          /\ \A v \in Workers : v # w => worker'[v] = worker[v]
          /\ worker'[w].at = "gate"
      <3>1. ASSUME NEW td, worker' = [worker EXCEPT ![w].at = "gate", ![w].todo = td]
            PROVE  worker'[w].at = "gate" /\ \A v \in Workers : v # w => worker'[v] = worker[v]
        BY <3>1 DEF Typed, TypeOK
      <3>2. QED
        BY <1>5, <3>1 DEF Store
    <2>4. w \in Paying /\ Paying' = Paying \ {w}
      BY <2>3 DEF Paying
    <2>5. q = p - 1
      BY <1>1, <2>4, PayingFinite
    <2>6. q * EmbedBatch + EmbedBatch = p * EmbedBatch /\ q * EmbedBatch \in Nat
      <3>1. (q + 1) * EmbedBatch = q * EmbedBatch + EmbedBatch /\ q * EmbedBatch \in Nat
        BY <1>2, TimesMonotone
      <3>2. q + 1 = p
        BY <1>2, <2>5
      <3>3. QED
        BY <3>1, <3>2
    <2>7. n * EmbedBatch \in Nat /\ p * EmbedBatch \in Nat
      BY <1>2, TimesMonotone
    <2> HIDE DEF p, q, n, s
    <2>8. QED
      BY <1>1, <1>2, <2>2, <2>3, <2>6, <2>7 DEF Bounded, p, q, n
  <1>6. ASSUME NEW w \in Workers, Call(w)
        PROVE  Bounded'
    <2>1. /\ worker[w].at = "calling" /\ spent' = spent
          /\ \A v \in Workers : v # w => worker'[v] = worker[v]
      BY <1>6 DEF Call, Goto, Typed, TypeOK
    <2>2. QED
      BY <1>3, <2>1 DEF Paying
  <1>7. ASSUME NEW w \in Workers,
               \/ Claim(w) \/ Recover(w) \/ Crash(w) \/ Restart(w)
               \/ (Run(w) /\ ~Gate(w) /\ ~Store(w) /\ ~Call(w))
        PROVE  Bounded'
    <2>1. /\ spent' = spent
          /\ \A v \in Workers : v # w => worker'[v] = worker[v]
      BY <1>7 DEF Claim, Recover, Crash, Restart, Run, ClaimReturns, Open, ExtractFails,
                  ExtractSettles, Extract, CallFails, Merge, Finish, Vanished, MarkFailed, CommitFailed,
                  Goto, Rest, money, Typed, TypeOK
    <2>2. worker'[w].at \notin {"calling", "paid"}
      <3>1. CASE Recover(w)
        BY <3>1 DEF Recover
      <3>2. CASE Claim(w) \/ Crash(w)
        BY <3>2 DEF Claim, Crash, Free, Typed, TypeOK
      <3>3. CASE Restart(w) \/ ExtractSettles(w) \/ Finish(w) \/ CommitFailed(w)
        BY <3>3, WhereTo DEF Restart, ExtractSettles, Finish, CommitFailed
      <3>4. CASE ClaimReturns(w) \/ Open(w) \/ MarkFailed(w)
        BY <3>4, WhereTo DEF ClaimReturns, Open, MarkFailed
      <3>5. CASE ExtractFails(w) \/ CallFails(w) \/ Vanished(w) \/ Merge(w)
        BY <3>5, WhereTo DEF ExtractFails, CallFails, Vanished, Merge
      <3>6. CASE Extract(w)
        <4>1. ASSUME NEW td, worker' = [worker EXCEPT ![w].at = "gate", ![w].todo = td]
              PROVE  worker'[w].at = "gate"
          BY <4>1 DEF Typed, TypeOK
        <4>2. QED
          BY <3>6, <4>1 DEF Extract
      <3>7. QED
        BY <1>7, <3>1, <3>2, <3>3, <3>4, <3>5, <3>6 DEF Run
    <2>3. QED
      BY <1>3, <2>1, <2>2 DEF Paying
  <1>8. ASSUME NEW d \in Docs, User(d) \/ Age(d)
        PROVE  Bounded'
    <2>1. worker' = worker /\ spent' = spent
      BY <1>8 DEF User, UploadPut, UploadFails, UploadCommit, Delete, DropBlob, Age, money
    <2>2. QED
      BY <1>3, <2>1 DEF Paying
  <1>9. CASE UNCHANGED vars
    BY <1>3, <1>9 DEF vars, Paying
  <1>10. QED
    BY <1>4, <1>5, <1>6, <1>7, <1>8, <1>9 DEF Next

\* The gate is read before the paid call and the ledger written after it, so the
\* cap can be overshot: by less than one slice per loop, for any number of loops,
\* any cap and any slice size, with slow runs and crashes (B-01).
THEOREM OvershootBounded ==
    ASSUME Workers # {}
    PROVE  Spec => []CapOvershoot
  <1>1. Init => Bounded
    <2> SUFFICES ASSUME Init PROVE Bounded
      OBVIOUS
    <2>1. Paying = {} /\ spent = 0
      BY DEF Init, Free, Paying
    <2>2. Cardinality(Workers) \in Nat /\ Cardinality(Workers) # 0
      BY SizesOK, FS_EmptySet, FS_CardinalityType
    <2>3. Cardinality(Workers) * EmbedBatch > 0
      BY <2>2, SizesOK
    <2>4. Cardinality(Paying) = 0
      BY <2>1, FS_EmptySet
    <2>5. Cardinality(Paying) * EmbedBatch = 0
      BY <2>4, SizesOK
    <2>6. QED
      BY <2>1, <2>2, <2>3, <2>5, SizesOK DEF Bounded
  <1>2. Typed /\ Bounded => CapOvershoot
    <2> SUFFICES ASSUME Typed, Bounded PROVE CapOvershoot
      OBVIOUS
    <2>1. Paying \in SUBSET Workers /\ spent \in Nat
      BY DEF Paying, Typed, TypeOK
    <2>2. Cardinality(Paying) \in Nat /\ Cardinality(Workers) \in Nat
      BY <2>1, PayingFinite
    <2>3. Cardinality(Paying) * EmbedBatch \in Nat /\ Cardinality(Workers) * EmbedBatch \in Nat
      BY <2>2, TimesMonotone
    <2>4. QED
      BY <2>1, <2>3, SizesOK DEF Bounded, CapOvershoot
  <1>3. QED
    BY <1>1, <1>2, BoundedStep, InitTyped, TypedStep, PTL DEF Spec

-----------------------------------------------------------------------------
(* One runner per document.  While a live run is never taken for a stuck    *)
(* one (~SlowRuns), the claim under SKIP LOCKED gives a document to one run *)
(* at a time, and nothing but a delete changes its status under that run.   *)
(* With SlowRuns recover_stuck hands it to a second one.                    *)
SoleAt(w) ==
    Busy(w) =>
        /\ claimed[DocOf(w)] = "fresh"
        /\ status[DocOf(w)] \in {"processing", "deleted"}
        /\ worker[w].at \in {"gate", "calling", "paid"} => worker[w].todo \cap chunks[DocOf(w)] = {}

Distinct == \A v, w \in Workers : Busy(v) /\ Busy(w) /\ DocOf(v) = DocOf(w) => v = w

SoleRuns == Distinct /\ \A w \in Workers : SoleAt(w)

LEMMA SoleInit == Init => SoleRuns
  BY DEF Init, SoleRuns, SoleAt, Distinct, Busy, Free

(* A run that a step does not concern.                                      *)
LEMMA SoleOther ==
    ASSUME SoleRuns, NEW v \in Workers, worker'[v] = worker[v],
           Busy(v) => /\ claimed'[DocOf(v)] = "fresh"
                      /\ status'[DocOf(v)] \in {"processing", "deleted"}
                      /\ chunks'[DocOf(v)] \subseteq chunks[DocOf(v)]
    PROVE  SoleAt(v)'
  BY DEF SoleRuns, SoleAt, Busy, DocOf

LEMMA SoleByUser ==
    ASSUME Typed, SoleRuns, ~SlowRuns, NEW d \in Docs, User(d) \/ Age(d)
    PROVE  SoleRuns'
  <1>1. worker' = worker
    BY DEF User, UploadPut, UploadFails, UploadCommit, Delete, DropBlob, Age
  <1>2. ASSUME NEW v \in Workers
        PROVE  SoleAt(v)'
    <2>1. Busy(v) => /\ DocOf(v) \in Docs
                     /\ claimed[DocOf(v)] = "fresh"
                     /\ status[DocOf(v)] \in {"processing", "deleted"}
      BY DEF Typed, Held, SoleRuns, SoleAt
    <2>2. Busy(v) => claimed'[DocOf(v)] = "fresh"
      BY <2>1 DEF User, UploadPut, UploadFails, UploadCommit, Delete, DropBlob, Age, Typed, TypeOK
    <2>3. Busy(v) => status'[DocOf(v)] \in {"processing", "deleted"}
      BY <2>1 DEF User, UploadPut, StoreBlob, UploadFails, UploadCommit, Delete, DropBlob, Age, Set,
                  Typed, TypeOK
    <2>4. Busy(v) => chunks'[DocOf(v)] \subseteq chunks[DocOf(v)]
      BY <2>1 DEF User, UploadPut, UploadFails, UploadCommit, Delete, DropBlob, Age, Typed, TypeOK
    <2>5. QED
      BY <1>1, <2>2, <2>3, <2>4, SoleOther
  <1>3. Distinct'
    BY <1>1 DEF SoleRuns, Distinct, Busy, DocOf
  <1>4. QED
    BY <1>2, <1>3 DEF SoleRuns

LEMMA SoleByQueue ==
    ASSUME Typed, SoleRuns, NEW w \in Workers, Claim(w) \/ Recover(w) \/ Crash(w) \/ Restart(w)
    PROVE  SoleRuns'
  <1>1. ASSUME NEW v \in Workers, Busy(v)
        PROVE  /\ DocOf(v) \in Docs
               /\ claimed[DocOf(v)] = "fresh"
               /\ status[DocOf(v)] \in {"processing", "deleted"}
    BY <1>1 DEF Typed, Held, SoleRuns, SoleAt
  <1>2. CASE Claim(w)
    <2>1. PICK d \in Docs :
            /\ status[d] = "pending"
            /\ status' = [status EXCEPT ![d] = "processing"]
            /\ claimed' = [claimed EXCEPT ![d] = "fresh"]
            /\ worker' = [worker EXCEPT ![w] = [at |-> "claimed", doc |-> d, todo |-> {}]]
            /\ chunks' = chunks
      BY <1>2 DEF Claim, Set
    <2>2. \A v \in Workers : v # w => worker'[v] = worker[v]
      BY <2>1 DEF Typed, TypeOK
    <2>3. worker'[w].at = "claimed" /\ worker'[w].doc = d
      BY <2>1 DEF Typed, TypeOK
    <2>4. SoleAt(w)'
      BY <2>1, <2>3 DEF SoleAt, DocOf, Typed, TypeOK
    <2>5. ASSUME NEW v \in Workers, v # w
          PROVE  SoleAt(v)' /\ (Busy(v)' => DocOf(v)' # d)
      <3>1. Busy(v) => DocOf(v) # d
        BY <1>1, <2>1
      <3>2. SoleAt(v)'
        BY <1>1, <2>1, <2>2, <2>5, <3>1, SoleOther DEF Typed, TypeOK
      <3>3. QED
        BY <2>2, <2>5, <3>1, <3>2 DEF Busy, DocOf
    <2>6. Distinct'
      BY <2>2, <2>3, <2>5 DEF SoleRuns, Distinct, Busy, DocOf
    <2>7. QED
      BY <2>4, <2>5, <2>6 DEF SoleRuns
  <1>3. CASE Recover(w) \/ Crash(w) \/ Restart(w)
    <2>1. /\ chunks' = chunks
          /\ \A v \in Workers : v # w => worker'[v] = worker[v]
      BY <1>3 DEF Recover, Crash, Restart, Rest, Typed, TypeOK
    <2>2. worker'[w].at \in {"idle", "dead"}
      <3>1. CASE Recover(w)
        BY <3>1 DEF Recover
      <3>2. CASE Crash(w)
        BY <3>2, WhereTo DEF Crash
      <3>3. CASE Restart(w)
        BY <3>3, WhereTo DEF Restart
      <3>4. QED
        BY <1>3, <3>1, <3>2, <3>3
    <2>3. \A d \in Docs : claimed[d] = "fresh" => claimed'[d] = "fresh" /\ status'[d] = status[d]
      BY <1>3 DEF Recover, Crash, Restart, Recovered, Unclaimed, Stuck, Typed, TypeOK
    <2>4. ASSUME NEW v \in Workers, v # w
          PROVE  SoleAt(v)'
      BY <1>1, <2>1, <2>3, <2>4, SoleOther
    <2>5. SoleAt(w)'
      BY <2>2 DEF SoleAt, Busy
    <2>6. Distinct'
      BY <2>1, <2>2 DEF SoleRuns, Distinct, Busy, DocOf
    <2>7. QED
      BY <2>4, <2>5, <2>6 DEF SoleRuns
  <1>4. QED
    BY <1>2, <1>3

(* A run touches its own document only, and keeps it until it rests.        *)
LEMMA RunTouches ==
    ASSUME Typed, NEW w \in Workers, Run(w)
    PROVE  /\ claimed' = claimed
           /\ DocOf(w) \in Docs
           /\ \A e \in Docs : e # DocOf(w) => status'[e] = status[e] /\ chunks'[e] = chunks[e]
           /\ \A v \in Workers : v # w => worker'[v] = worker[v]
           /\ Busy(w) /\ (Busy(w)' => DocOf(w)' = DocOf(w) /\ status' = status)
  <1>1. /\ Busy(w) /\ DocOf(w) \in Docs
        /\ claimed' = claimed
        /\ \A v \in Workers : v # w => worker'[v] = worker[v]
    BY DEF Run, ClaimReturns, Open, ExtractFails, ExtractSettles, Extract, Gate, CallFails,
           Call, Store, Merge, Finish, Vanished, MarkFailed, CommitFailed, Goto, Rest, Typed, TypeOK, Held, Busy
  <1>2. \A e \in Docs : e # DocOf(w) => status'[e] = status[e] /\ chunks'[e] = chunks[e]
    BY <1>1 DEF Run, ClaimReturns, Open, ExtractFails, ExtractSettles, Extract, Gate, CallFails,
           Call, Store, Inserted, Merge, Finish, Vanished, MarkFailed, CommitFailed, Set, Typed, TypeOK
  <1>3. CASE ExtractSettles(w) \/ Finish(w) \/ CommitFailed(w)
    <2>1. worker'[w].at \in {"idle", "dead"}
      BY <1>3, WhereTo DEF ExtractSettles, Finish, CommitFailed
    <2>2. QED
      BY <1>1, <1>2, <2>1 DEF Busy
  <1>4. CASE ~(ExtractSettles(w) \/ Finish(w) \/ CommitFailed(w))
    <2>1. status' = status
      BY <1>4 DEF Run, ClaimReturns, Open, ExtractFails, Extract, Gate, CallFails, Call, Store,
                  Merge, Vanished, MarkFailed
    <2>2. Busy(w)' => worker'[w].doc = worker[w].doc
      <3>1. ASSUME NEW where, Goto(w, where)
            PROVE  worker'[w].doc = worker[w].doc
        BY <3>1 DEF Goto, Typed, TypeOK, Worker
      <3>2. ASSUME NEW td, worker' = [worker EXCEPT ![w].at = "gate", ![w].todo = td]
            PROVE  worker'[w].doc = worker[w].doc
        BY <3>2 DEF Typed, TypeOK, Worker
      <3>3. ASSUME Rest(w) \/ worker' = [worker EXCEPT ![w] = [Free EXCEPT !.at = "dead"]]
            PROVE  ~Busy(w)'
        BY <3>3, WhereTo DEF Busy
      <3>4. CASE ClaimReturns(w) \/ Open(w) \/ MarkFailed(w)
        BY <3>1, <3>3, <3>4 DEF ClaimReturns, Open, MarkFailed
      <3>5. CASE ExtractFails(w) \/ Gate(w) \/ CallFails(w) \/ Call(w) \/ Merge(w) \/ Vanished(w)
        BY <3>1, <3>5 DEF ExtractFails, Gate, CallFails, Call, Merge, Vanished
      <3>6. CASE Extract(w) \/ Store(w)
        BY <3>2, <3>6 DEF Extract, Store
      <3>7. QED
        BY <1>4, <3>4, <3>5, <3>6 DEF Run
    <2>3. QED
      BY <1>1, <1>2, <2>1, <2>2 DEF DocOf
  <1>5. QED
    BY <1>3, <1>4

LEMMA SoleByRun ==
    ASSUME Typed, SoleRuns, NEW w \in Workers, Run(w)
    PROVE  SoleRuns'
  <1> DEFINE d == DocOf(w)
             slice == Slice(worker[w].todo)
  <1>1. /\ Busy(w) /\ d \in Docs /\ claimed' = claimed
        /\ \A e \in Docs : e # d => status'[e] = status[e] /\ chunks'[e] = chunks[e]
        /\ \A v \in Workers : v # w => worker'[v] = worker[v]
        /\ Busy(w)' => DocOf(w)' = d /\ status' = status
    BY RunTouches
  <1>2. ASSUME NEW v \in Workers, v # w
        PROVE  SoleAt(v)'
    <2>1. Busy(v) => /\ DocOf(v) \in Docs /\ DocOf(v) # d
                     /\ claimed[DocOf(v)] = "fresh"
                     /\ status[DocOf(v)] \in {"processing", "deleted"}
      BY <1>1, <1>2 DEF Typed, Held, SoleRuns, SoleAt, Distinct
    <2>2. QED
      BY <1>1, <1>2, <2>1, SoleOther
  <1>3. Distinct'
    BY <1>1 DEF SoleRuns, Distinct, Busy, DocOf
  <1>4. SoleAt(w)'
    <2>1. worker'[w].at \in {"gate", "calling", "paid"} => worker'[w].todo \cap chunks'[d] = {}
      <3>1. CASE Extract(w)
        <4>1. worker'[w].todo = Todo(d) /\ chunks' = chunks
          BY <3>1 DEF Extract, Typed, TypeOK, Worker
        <4>2. QED
          BY <4>1 DEF Todo
      <3>2. CASE Gate(w) \/ Call(w)
        <4>1. ASSUME NEW where, Goto(w, where)
              PROVE  worker'[w].todo = worker[w].todo
          BY <4>1 DEF Goto, Typed, TypeOK, Worker
        <4>2. worker'[w].todo = worker[w].todo /\ chunks' = chunks
              /\ worker[w].at \in {"gate", "calling"}
          BY <3>2, <4>1 DEF Gate, Call
        <4>3. QED
          BY <1>1, <4>2 DEF SoleRuns, SoleAt
      <3>3. CASE Store(w)
        <4>1. /\ worker'[w].todo = worker[w].todo \ slice
              /\ chunks'[d] = chunks[d] \cup slice
              /\ worker[w].at = "paid"
          BY <1>1, <3>3 DEF Store, Inserted, Typed, TypeOK, Worker
        <4>2. QED
          BY <1>1, <4>1 DEF SoleRuns, SoleAt
      <3>4. CASE ~(Extract(w) \/ Gate(w) \/ Call(w) \/ Store(w))
        <4>1. worker'[w].at \notin {"gate", "calling", "paid"}
          <5>1. CASE ClaimReturns(w) \/ Open(w) \/ MarkFailed(w)
            BY <5>1, WhereTo DEF ClaimReturns, Open, MarkFailed
          <5>2. CASE ExtractFails(w) \/ CallFails(w) \/ Vanished(w) \/ Merge(w)
            BY <5>2, WhereTo DEF ExtractFails, CallFails, Vanished, Merge
          <5>3. CASE ExtractSettles(w) \/ Finish(w) \/ CommitFailed(w)
            BY <5>3, WhereTo DEF ExtractSettles, Finish, CommitFailed
          <5>4. QED
            BY <3>4, <5>1, <5>2, <5>3 DEF Run
        <4>2. QED
          BY <4>1
      <3>5. QED
        BY <3>1, <3>2, <3>3, <3>4
    <2>2. claimed[d] = "fresh" /\ status[d] \in {"processing", "deleted"}
      BY <1>1 DEF SoleRuns, SoleAt
    <2>3. QED
      BY <1>1, <2>1, <2>2 DEF SoleAt
  <1>5. QED
    BY <1>2, <1>3, <1>4 DEF SoleRuns

LEMMA SoleStep ==
    ASSUME Typed, SoleRuns, ~SlowRuns, [Next]_vars
    PROVE  SoleRuns'
  <1>1. CASE UNCHANGED vars
    BY <1>1 DEF vars, SoleRuns, SoleAt, Distinct, Busy, DocOf
  <1>2. CASE Next
    BY <1>2, SoleByUser, SoleByQueue, SoleByRun DEF Next
  <1>3. QED
    BY <1>1, <1>2

LEMMA SoleAlways ==
    ASSUME ~SlowRuns
    PROVE  Spec => [](ServeInv /\ SoleRuns)
  <1>1. Init => ServeInv /\ SoleRuns
    BY InitTyped, ServeInit, SoleInit DEF ServeInv
  <1>2. ServeInv /\ SoleRuns /\ [Next]_vars => ServeInv' /\ SoleRuns'
    BY ServeStep, SoleStep DEF ServeInv
  <1>3. QED
    BY <1>1, <1>2, PTL DEF Spec

\* A re-run "never re-pays for chunks it already bought and stored", for any sizes
\* and wherever the earlier runs crashed, as long as no live run is taken for a
\* stuck one: then the skip-set of a run is still exact when it calls.
THEOREM NeverPaysTwice ==
    ASSUME ~SlowRuns
    PROVE  Spec => NeverRepays
  <1> DEFINE Unpaid == \A d \in Docs, c \in Chunks : c \in chunks[d] => paid'[d][c] = paid[d][c]
  <1>1. ASSUME ServeInv, SoleRuns, [Next]_vars
        PROVE  Unpaid
    <2>1. ASSUME NEW w \in Workers, Call(w)
          PROVE  Unpaid
      <3>1. /\ DocOf(w) \in Docs
            /\ worker[w].todo \cap chunks[DocOf(w)] = {}
        BY <1>1, <2>1 DEF Call, ServeInv, Typed, Held, Busy, SoleRuns, SoleAt
      <3>2. \A c \in chunks[DocOf(w)] : c \notin Slice(worker[w].todo)
        BY <3>1, SliceType
      <3>3. ASSUME NEW d \in Docs, NEW c \in Chunks, c \in chunks[d]
            PROVE  paid'[d][c] = paid[d][c]
        <4>1. CASE d # DocOf(w)
          BY <1>1, <2>1, <4>1 DEF Call, ServeInv, Typed, TypeOK
        <4>2. CASE d = DocOf(w)
          <5>1. paid'[d] = [e \in Chunks |-> IF e \in Slice(worker[w].todo) /\ paid[d][e] < MaxPaid
                                               THEN paid[d][e] + 1 ELSE paid[d][e]]
            BY <1>1, <2>1, <3>1, <4>2 DEF Call, ServeInv, Typed, TypeOK
          <5>2. c \notin Slice(worker[w].todo)
            BY <3>2, <3>3, <4>2
          <5>3. QED
            BY <5>1, <5>2
        <4>3. QED
          BY <4>1, <4>2
      <3>4. QED
        BY <3>3
    <2>2. CASE ~(\E w \in Workers : Call(w))
      <3>1. paid' = paid
        BY <1>1, <2>2
        DEF Next, vars, User, UploadPut, UploadFails, UploadCommit, Delete, DropBlob, Age,
            Claim, Recover, Crash, Restart, Run, ClaimReturns, Open, ExtractFails, ExtractSettles,
            Extract, Gate, CallFails, Store, Merge, Finish, Vanished, MarkFailed, CommitFailed, money
      <3>2. QED
        BY <3>1
    <2>3. QED
      BY <2>1, <2>2
  <1>2. ServeInv /\ SoleRuns /\ [Next]_vars => [Unpaid]_vars
    BY <1>1
  <1>3. QED
    BY <1>2, SoleAlways, PTL DEF Spec, NeverRepays

-----------------------------------------------------------------------------
(* Refinement of DocumentLife, step by step.                                *)

State == [d \in Docs |->
            CASE status[d] \in {"none", "stored"} -> "absent"
              [] status[d] \in InFlight -> "queued"
              [] status[d] = "deleted" -> "gone"
              [] OTHER -> status[d]]
Serving == [d \in Docs |-> Served(d)]

StateOf(st) == CASE st \in {"none", "stored"} -> "absent"
                 [] st \in InFlight -> "queued"
                 [] st = "deleted" -> "gone"
                 [] OTHER -> st

LEMMA StateIs ==
    /\ \A d \in Docs : State[d] = StateOf(status[d]) /\ State'[d] = StateOf(status'[d])
    /\ StateOf("none") = "absent" /\ StateOf("stored") = "absent"
    /\ StateOf("pending") = "queued" /\ StateOf("processing") = "queued"
    /\ StateOf("deleted") = "gone" /\ StateOf("ready") = "ready" /\ StateOf("failed") = "failed"
  BY DEF State, StateOf, InFlight

(* A step that changes what the user sees of one document.                  *)
LEMMA OneDocument ==
    ASSUME NEW d \in Docs,
           \A e \in Docs : e # d => status'[e] = status[e] /\ chunks'[e] = chunks[e]
    PROVE  /\ State' = [State EXCEPT ![d] = StateOf(status'[d])]
           /\ Serving' = [Serving EXCEPT ![d] = IF status'[d] = "ready" THEN chunks'[d] ELSE {}]
  <1>1. \A e \in Docs : e # d => State'[e] = State[e] /\ Serving'[e] = Serving[e]
    BY DEF State, Serving, Served
  <1>2. /\ State'[d] = StateOf(status'[d])
        /\ Serving'[d] = IF status'[d] = "ready" THEN chunks'[d] ELSE {}
    BY StateIs DEF Serving, Served
  <1>3. State' = [e \in Docs |-> State'[e]] /\ Serving' = [e \in Docs |-> Serving'[e]]
    BY DEF State, Serving
  <1>4. State = [e \in Docs |-> State[e]] /\ Serving = [e \in Docs |-> Serving[e]]
    BY DEF State, Serving
  <1> HIDE DEF State, Serving
  <1>5. QED
    BY <1>1, <1>2, <1>3, <1>4

(* A step that changes nothing the user sees.                               *)
LEMMA LifeStill ==
    ASSUME \A d \in Docs : /\ StateOf(status'[d]) = StateOf(status[d])
                           /\ Served(d)' = Served(d)
    PROVE  UNCHANGED Life!vars
  <1>1. State' = State
    BY DEF State, StateOf
  <1>2. Serving' = Serving
    BY DEF Serving
  <1>3. QED
    BY <1>1, <1>2 DEF Life!vars, State, Serving

LEMMA LifeByUser ==
    ASSUME ServeInv, NEW d \in Docs, User(d) \/ Age(d)
    PROVE  Life!Next \/ UNCHANGED Life!vars
  <1>1. CASE UploadPut(d) \/ DropBlob(d) \/ Age(d)
    <2>1. chunks' = chunks /\ (status' = status \/ (status[d] = "none" /\ Set(d, "stored")))
      BY <1>1 DEF UploadPut, StoreBlob, DropBlob, Age
    <2>2. QED
      BY <2>1, StateIs, LifeStill DEF Set, Served, ServeInv, Typed, TypeOK
  <1>2. ASSUME NEW st, status' = [status EXCEPT ![d] = st]
        PROVE  status'[d] = st /\ \A e \in Docs : e # d => status'[e] = status[e]
    BY <1>2 DEF ServeInv, Typed, TypeOK
  <1>3. CASE UploadCommit(d) \/ UploadFails(d)
    <2>1. /\ chunks' = chunks
          /\ \/ status[d] = "stored" /\ status' = [status EXCEPT ![d] = "pending"]
             \/ status[d] = "none" /\ status' = [status EXCEPT ![d] = "failed"]
      BY <1>3 DEF UploadCommit, UploadFails, Set
    <2>2. Serving' = Serving
      BY <1>2, <2>1 DEF Serving, Served
    <2>3. /\ State[d] = "absent"
          /\ \/ State' = [State EXCEPT ![d] = "queued"]
             \/ State' = [State EXCEPT ![d] = "failed"]
      BY <1>2, <2>1, StateIs, OneDocument
    <2>4. Life!Submit(d) \/ Life!Lose(d)
      BY <2>2, <2>3 DEF Life!Submit, Life!Lose, State, Serving
    <2>5. QED
      BY <2>4 DEF Life!Next
  <1>4. CASE Delete(d)
    <2>1. /\ status[d] \in Listed
          /\ status' = [status EXCEPT ![d] = "deleted"]
          /\ \A e \in Docs : e # d => chunks'[e] = chunks[e]
      BY <1>4 DEF Delete, Set, ServeInv, Typed, TypeOK
    <2>2. /\ status'[d] = "deleted"
          /\ \A e \in Docs : e # d => status'[e] = status[e] /\ chunks'[e] = chunks[e]
      BY <1>2, <2>1
    <2>3. /\ State' = [State EXCEPT ![d] = StateOf(status'[d])]
          /\ Serving' = [Serving EXCEPT ![d] = IF status'[d] = "ready" THEN chunks'[d] ELSE {}]
      BY <2>2, OneDocument
    <2>4. State' = [State EXCEPT ![d] = "gone"] /\ Serving' = [Serving EXCEPT ![d] = {}]
      BY <2>2, <2>3, StateIs
    <2>5. State[d] \in {"queued", "ready", "failed"}
      BY <2>1, StateIs DEF Listed, InFlight
    <2>6. Life!Remove(d)
      BY <2>4, <2>5 DEF Life!Remove, State, Serving
    <2>7. QED
      BY <2>6 DEF Life!Next
  <1>5. QED
    BY <1>1, <1>3, <1>4 DEF User

LEMMA LifeByQueue ==
    ASSUME ServeInv, NEW w \in Workers, Claim(w) \/ Recover(w) \/ Crash(w) \/ Restart(w)
    PROVE  UNCHANGED Life!vars
  <1>1. chunks' = chunks
    BY DEF Claim, Recover, Crash, Restart
  <1>2. \A d \in Docs : status'[d] = status[d] \/ (status[d] \in InFlight /\ status'[d] \in InFlight)
    BY DEF Claim, Recover, Crash, Restart, Recovered, Stuck, InFlight, Set, ServeInv, Typed, TypeOK
  <1>3. QED
    BY <1>1, <1>2, StateIs, LifeStill DEF InFlight, Served

LEMMA LifeByRun ==
    ASSUME ServeInv, SoleRuns, NEW w \in Workers, Run(w)
    PROVE  Life!Next \/ UNCHANGED Life!vars
  <1>0. PICK d \in Docs : d = DocOf(w)
    BY RunTouches DEF ServeInv
  <1>1. /\ Busy(w)
        /\ \A e \in Docs : e # d => status'[e] = status[e] /\ chunks'[e] = chunks[e]
    BY <1>0, RunTouches DEF ServeInv
  <1>2. status[d] \in {"processing", "deleted"}
    BY <1>0, <1>1 DEF SoleRuns, SoleAt
  <1>3. CASE status' = status
    <2>1. \A e \in Docs : Served(e)' = Served(e)
      BY <1>1, <1>2, <1>3 DEF Served
    <2>2. QED
      BY <1>3, <2>1, LifeStill
  <1>4. CASE status' # status
    <2>1. /\ ExtractSettles(w) \/ Finish(w) \/ CommitFailed(w)
          /\ status[d] # "deleted"
          /\ chunks' = chunks
      BY <1>0, <1>4 DEF Run, ClaimReturns, Open, ExtractFails, Extract, Gate, CallFails, Call, Store,
                  Merge, Vanished, ExtractSettles, Finish, MarkFailed, CommitFailed, Alive
    <2>2. status[d] = "processing" /\ State[d] = "queued" /\ Served(d) = {}
      BY <1>1, <1>2, <2>1, StateIs DEF Served
    <2>3. \/ status'[d] = "ready" /\ chunks[d] = Text[d]
          \/ status'[d] = "failed"
      <3>1. CASE ExtractSettles(w)
        <4>1. chunks[d] \subseteq Text[d] /\ (Size[d] = 0 => Text[d] = {})
          BY <1>1, TextType DEF ServeInv, Typed, TypeOK
        <4>2. QED
          BY <1>0, <3>1, <4>1 DEF ExtractSettles, Set, ServeInv, Typed, TypeOK
      <3>2. CASE Finish(w)
        <4>1. chunks[d] = Text[d]
          BY <1>0, <3>2 DEF Finish, ServeInv, Progress, Typed, TypeOK
        <4>2. QED
          BY <1>0, <3>2, <4>1 DEF Finish, Set, ServeInv, Typed, TypeOK
      <3>3. CASE CommitFailed(w)
        BY <1>0, <1>4, <3>3 DEF CommitFailed, FailedFor, Set, ServeInv, Typed, TypeOK
      <3>4. QED
        BY <2>1, <3>1, <3>2, <3>3
    <2>4. CASE status'[d] = "ready" /\ chunks[d] = Text[d]
      <3>1. State' = [State EXCEPT ![d] = "ready"] /\ Serving' = [Serving EXCEPT ![d] = Text[d]]
        BY <1>1, <2>1, <2>4, StateIs, OneDocument
      <3>2. Life!Settle(d)
        BY <2>2, <3>1 DEF Life!Settle, State, Serving
      <3>3. QED
        BY <3>2 DEF Life!Next
    <2>5. CASE status'[d] = "failed"
      <3>1. State' = [State EXCEPT ![d] = "failed"]
        BY <1>1, <2>1, <2>5, StateIs, OneDocument
      <3>2. Serving' = Serving
        <4>1. \A e \in Docs : Served(e)' = Served(e)
          BY <1>1, <2>2, <2>5 DEF Served
        <4>2. QED
          BY <4>1 DEF Serving
      <3>3. Life!Settle(d)
        BY <2>2, <3>1, <3>2 DEF Life!Settle, State, Serving
      <3>4. QED
        BY <3>3 DEF Life!Next
    <2>6. QED
      BY <2>3, <2>4, <2>5
  <1>5. QED
    BY <1>3, <1>4

\* With one run per document at a time the pipeline keeps its promise to the user
\* of a document: queued, then settled once, as ready with all of its text
\* searchable or as failed with none of it, until it is deleted; for any documents,
\* workers, crashes and deletes under a run.  That a queued document does settle
\* is the liveness part of ImplementsLife, which the run checks.
THEOREM ImplementsDocumentLife ==
    ASSUME ~SlowRuns
    PROVE  Spec => Life!Spec
  <1>1. Init => Life!Init
    <2> SUFFICES ASSUME Init PROVE Life!Init
      OBVIOUS
    <2>1. \A d \in Docs : State[d] = "absent" /\ Served(d) = {}
      BY StateIs DEF Init, Served
    <2>2. State = [d \in Docs |-> "absent"] /\ Serving = [d \in Docs |-> {}]
      BY <2>1 DEF State, Serving
    <2>3. QED
      BY <2>2 DEF Life!Init, State, Serving
  <1>2. ASSUME ServeInv, SoleRuns, [Next]_vars
        PROVE  Life!Next \/ UNCHANGED Life!vars
    <2>1. CASE UNCHANGED vars
      BY <2>1, LifeStill DEF vars, Served
    <2>2. CASE Next
      BY <1>2, <2>2, LifeByUser, LifeByQueue, LifeByRun DEF Next
    <2>3. QED
      BY <1>2, <2>1, <2>2
  <1>3. ServeInv /\ SoleRuns /\ [Next]_vars => [Life!Next]_(Life!vars)
    BY <1>2
  <1>4. QED
    BY <1>1, <1>3, SoleAlways, PTL DEF Spec, Life!Spec

=============================================================================
