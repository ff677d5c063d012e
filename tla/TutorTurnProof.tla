---------------------------- MODULE TutorTurnProof ----------------------------
(***************************************************************************)
(* Theorems about TutorTurn: type correctness, that no transaction is open *)
(* across a model call, that no ending bills twice, that what was streamed *)
(* is stored and nothing follows an ask, and, when the model speaks before *)
(* it calls tools, that no spend is lost and the cap bounds all turns.  A  *)
(* turn that ended in a transaction the database had aborted is excepted   *)
(* where the code cannot save it.                                          *)
(***************************************************************************)
EXTENDS TutorTurn, SequenceTheorems, FiniteSetTheorems, TLAPS

(* The accounts of one turn at every place of the loop.  iter counts the    *)
(* calls; all but the one in flight are billed; what is billed is booked or *)
(* in the turn's transaction until an ending settles it.                    *)
Metered == {"top", "final", "tools", "tool", "drain", "finish"}
Before  == {"idle", "ready"} \cup Metered \cup {"call", "bill", "cancel", "error", "rebill"}

Fresh(t) == At(t) \in {"idle", "ready"} =>
    /\ made[t] = 0 /\ billed[t] = 0 /\ pend[t] = 0 /\ booked[t] = 0 /\ turn[t].iter = 0
    /\ t \notin row /\ t \notin flushed /\ t \notin dropped /\ t \notin aborted
Counted(t) == At(t) \in Before \cup {"attach", "over", "summary"} => made[t] = turn[t].iter
Booked(t) == At(t) \in Metered => billed[t] = made[t]
                                  /\ (t \notin aborted => booked[t] + pend[t] = made[t])
InFlight(t) == At(t) \in {"call", "bill"} =>
    /\ made[t] >= 1 /\ billed[t] = made[t] - 1 /\ booked[t] = made[t] - 1
    /\ pend[t] = 0 /\ t \notin flushed /\ (At(t) = "call" => t \notin row)
Attaching(t) == At(t) = "attach" => booked[t] = made[t] /\ pend[t] = 0 /\ t \notin flushed
Leaving(t) == At(t) = "cancel" => made[t] - 1 <= billed[t] /\ billed[t] <= made[t]
                                  /\ (t \notin aborted => booked[t] + pend[t] = billed[t])
Failing(t) ==
    /\ At(t) \in {"error", "rebill"} => booked[t] + pend[t] <= made[t]
    /\ At(t) = "rebill" => pend[t] = 0 /\ t \notin flushed
(* An aborted transaction has lost one increment at most, its summary's one *)
(* more.                                                                    *)
Lost(t) == t \in aborted =>
    /\ At(t) \notin {"call", "bill", "final", "attach", "rebill"}
    /\ At(t) \in {"meter", "store", "closed"} => made[t] <= booked[t] + 2
    /\ At(t) \notin {"meter", "store", "closed"} => made[t] <= booked[t] + 1
Ended(t) ==
    /\ At(t) \in {"meter", "store"} => made[t] >= 1
    /\ t \notin aborted =>
          /\ At(t) \in {"over", "summary"} => booked[t] + pend[t] >= made[t]
          /\ At(t) \in {"meter", "store"} => booked[t] + pend[t] >= made[t] - 1
          /\ ~Silent /\ Over(t) => pend[t] = 0 /\ t \notin flushed
          /\ ~Silent /\ ~Blank /\ At(t) = "closed" => booked[t] >= made[t]
          /\ ~Silent /\ t \in dropped => At(t) = "rebill" \/ ending[t] = "error"
Bounded(t) ==
    /\ At(t) \in {"meter", "store"} =>
          /\ booked[t] + pend[t] <= 2 * made[t] - 2
          /\ ending[t] # "error" => booked[t] + pend[t] <= made[t] - 1
    /\ At(t) \notin {"meter", "store"} =>
          /\ booked[t] + pend[t] <= 2 * made[t]
          /\ ending[t] # "error" => booked[t] + pend[t] <= made[t]
Quiet(t) ==
    /\ At(t) \in Before \cup {"attach"} => ending[t] = "none"
    /\ At(t) \in Before => messages[t] = 0
    /\ turn[t].thread \in {"busy", "locking", "metering"} =>
          At(t) \in {"tool", "drain"} /\ turn[t].todo # <<>>
    /\ At(t) = "tool" => turn[t].todo # <<>>
Spoken(t) == ~Silent => turn[t].said
    \/ /\ t \notin flushed
       /\ ~(At(t) \in {"tools", "tool", "drain"} \/ (At(t) = "top" /\ turn[t].iter > 0)
            \/ (At(t) = "bill" /\ turn[t].todo # <<>>))

Books(t) == Fresh(t) /\ Counted(t) /\ Booked(t) /\ InFlight(t) /\ Attaching(t) /\ Leaving(t)
            /\ Failing(t) /\ Lost(t) /\ Ended(t) /\ Bounded(t) /\ Quiet(t) /\ Spoken(t)

Inv == TypeOK /\ \A t \in Turns : Books(t)

(* What a step of one turn leaves to the others.                            *)
Same(t) == \A u \in Turns \ {t} :
    /\ turn'[u] = turn[u] /\ made'[u] = made[u] /\ billed'[u] = billed[u]
    /\ pend'[u] = pend[u] /\ booked'[u] = booked[u] /\ (u \in row' <=> u \in row)
    /\ (u \in flushed' <=> u \in flushed) /\ (u \in dropped' <=> u \in dropped)
    /\ (u \in aborted' <=> u \in aborted)
    /\ ending'[u] = ending[u] /\ messages'[u] = messages[u]

(* What a turn has told its client, and the asks it still has to dispatch.  *)
AskLast(todo) == \A i \in 1 .. Len(todo) : todo[i] = "ask" => i = Len(todo)
Script(t) ==
    /\ At(t) \in {"idle", "ready"} => ~turn[t].said
    /\ At(t) = "attach" => messages[t] = 1
    /\ Over(t) /\ t \notin aborted =>
          (messages[t] = 1 <=> turn[t].said
                               \/ ending[t] \in {"complete", "cancelled", "error"})
Asking(t) ==
    /\ AskLast(turn[t].todo)
    /\ turn[t].asked => turn[t].todo = <<>> /\ (Over(t) \/ At(t) \in {"tools", "finish", "attach"})
    /\ turn[t].asked => Over(t) \/ t \notin aborted
    /\ At(t) = "finish" => turn[t].asked
    /\ turn[t].thread \in {"locking", "metering"} => t \notin aborted
    /\ turn[t].thread = "ok" => turn[t].todo # <<>>
          /\ (Over(t) \/ (At(t) \in {"tool", "drain", "cancel"} /\ t \notin aborted))

Told == \A t \in Turns : Script(t) /\ Asking(t)

-----------------------------------------------------------------------------
LEMMA FinitePart ==
    ASSUME NEW n \in Nat, NEW S \in SUBSET (1 .. n)
    PROVE  IsFiniteSet(S) /\ Cardinality(S) \in Nat
  <1>1. IsFiniteSet(1 .. n)
    BY FS_Interval
  <1>2. IsFiniteSet(S)
    BY <1>1, FS_Subset
  <1>3. QED
    BY <1>2, FS_CardinalityType

(* The ranks of the members of a finite set of naturals are its counting.   *)
LEMMA NthIsIn ==
    ASSUME NEW n \in Nat, NEW S \in SUBSET (1 .. n), NEW k \in 1 .. Cardinality(S)
    PROVE  Nth(S, k) \in S
  <1> DEFINE UpTo(i) == {j \in S : j <= i}
             f == [i \in S |-> Rank(S, i)]
  <1>1. IsFiniteSet(S) /\ Cardinality(S) \in Nat
    BY FinitePart
  <1>2. ASSUME NEW i \in S
        PROVE  /\ IsFiniteSet(UpTo(i)) /\ Rank(S, i) = Cardinality(UpTo(i))
               /\ Rank(S, i) \in 1 .. Cardinality(S)
    <2>0. UpTo(i) \in SUBSET S /\ i \in UpTo(i)
      OBVIOUS
    <2> HIDE DEF UpTo
    <2>1. IsFiniteSet(UpTo(i)) /\ Cardinality(UpTo(i)) <= Cardinality(S)
      BY <1>1, <2>0, FS_Subset
    <2>2. Cardinality(UpTo(i)) \in Nat /\ Cardinality(UpTo(i)) # 0
      BY <2>0, <2>1, FS_CardinalityType, FS_EmptySet
    <2>3. Rank(S, i) = Cardinality(UpTo(i))
      BY DEF Rank, UpTo
    <2>4. QED
      BY <1>1, <2>1, <2>2, <2>3
  <1>3. ASSUME NEW i \in S, NEW j \in S, i < j
        PROVE  Rank(S, i) # Rank(S, j)
    <2>0. /\ i \in Nat /\ j \in Nat /\ S \subseteq Nat
          /\ \A x \in Nat : x <= i => x <= j
      BY <1>3
    <2>1. UpTo(i) \in SUBSET UpTo(j) /\ j \in UpTo(j) /\ j \notin UpTo(i)
      <3>1. \A x \in S : x <= i => x <= j
        BY <2>0
      <3>2. UpTo(i) \in SUBSET UpTo(j)
        BY <3>1
      <3>3. j <= j /\ ~(j <= i)
        BY <1>3, <2>0
      <3>4. QED
        BY <3>2, <3>3
    <2>2. IsFiniteSet(UpTo(j)) /\ Rank(S, i) = Cardinality(UpTo(i))
          /\ Rank(S, j) = Cardinality(UpTo(j))
      BY <1>2
    <2> HIDE DEF UpTo
    <2>3. QED
      BY <2>1, <2>2, FS_Subset
  <1>4. f \in Injection(S, 1 .. Cardinality(S))
    <2>1. f \in [S -> 1 .. Cardinality(S)]
      BY <1>2
    <2>2. ASSUME NEW i \in S, NEW j \in S, f[i] = f[j]
          PROVE  i = j
      BY <1>3, <2>2
    <2>3. IsInjective(f)
      BY <2>2 DEF IsInjective
    <2>4. QED
      BY <2>1, <2>3 DEF Injection
  <1>5. IsFiniteSet(1 .. Cardinality(S)) /\ Cardinality(1 .. Cardinality(S)) = Cardinality(S)
    BY <1>1, FS_Interval
  <1>6. f \in Surjection(S, 1 .. Cardinality(S))
    BY <1>4, <1>5, FS_Injection
  <1>7. PICK i \in S : f[i] = k
    BY <1>6 DEF Surjection
  <1>8. QED
    BY <1>7 DEF Nth

(* Reordered, a bundle holds at most one ask, as its last call.             *)
LEMMA FrontThenAsk ==
    ASSUME NEW front \in Seq(Tools), \A k \in 1 .. Len(front) : front[k] # "ask",
           NEW back \in Seq(Tools), back \in {<<>>, <<"ask">>}
    PROVE  front \o back \in Seq(Tools) /\ AskLast(front \o back)
  <1>1. /\ front \o back \in Seq(Tools)
        /\ Len(front \o back) = Len(front) + Len(back)
        /\ \A i \in 1 .. Len(front) + Len(back) :
              (front \o back)[i] = IF i <= Len(front) THEN front[i] ELSE back[i - Len(front)]
    BY ConcatProperties
  <1>2. Len(front) \in Nat /\ Len(back) \in {0, 1}
    OBVIOUS
  <1>3. ASSUME NEW i \in 1 .. Len(front) + Len(back), (front \o back)[i] = "ask"
        PROVE  i = Len(front) + Len(back)
    <2>1. ~(i <= Len(front))
      BY <1>1, <1>2, <1>3
    <2>2. CASE Len(back) = 0
      BY <1>2, <2>1, <2>2
    <2>3. CASE Len(back) = 1
      BY <1>2, <2>1, <2>3
    <2>4. QED
      BY <1>2, <2>2, <2>3
  <1>4. QED
    BY <1>1, <1>3 DEF AskLast

LEMMA OrderedCalls ==
    ASSUME NEW plan \in Plans
    PROVE  Ordered(plan) \in Seq(Tools) /\ AskLast(Ordered(plan))
  <1>1. plan \in Seq(Tools) /\ Len(plan) \in Nat /\ DOMAIN plan = 1 .. Len(plan)
    BY SizesOK
  <1>2. PICK n \in Nat, S \in SUBSET (1 .. Len(plan)) : S = Others(plan) /\ n = Cardinality(S)
    <2>1. Others(plan) \in SUBSET (1 .. Len(plan))
      BY <1>1 DEF Others
    <2>2. QED
      BY <1>1, <2>1, FinitePart
  <1>3. \A k \in 1 .. n : plan[Nth(S, k)] \in Tools /\ plan[Nth(S, k)] # "ask"
    <2>1. \A k \in 1 .. n : Nth(S, k) \in S
      BY <1>1, <1>2, NthIsIn
    <2>2. \A i \in S : plan[i] \in Tools /\ plan[i] # "ask"
      BY <1>1, <1>2 DEF Others
    <2>3. QED
      BY <2>1, <2>2
  <1> DEFINE front == [k \in 1 .. n |-> plan[Nth(S, k)]]
             back == IF S = DOMAIN plan THEN <<>> ELSE <<"ask">>
  <1>4. front \in Seq(Tools) /\ Len(front) = n
    <2>1. front \in [1 .. n -> Tools]
      BY <1>3
    <2>2. QED
      BY <2>1
  <1>5. \A k \in 1 .. Len(front) : front[k] # "ask"
    BY <1>3, <1>4
  <1>6. back \in Seq(Tools) /\ back \in {<<>>, <<"ask">>}
    <2>1. <<>> \in Seq(Tools)
      BY EmptySeq
    <2>2. "ask" \in Tools
      BY DEF Tools
    <2>3. <<"ask">> \in Seq(Tools)
      BY <2>2
    <2>4. QED
      BY <2>1, <2>3
  <1>7. Ordered(plan) = front \o back
    BY <1>2 DEF Ordered
  <1> HIDE DEF front, back
  <1>8. QED
    BY <1>4, <1>5, <1>6, <1>7, FrontThenAsk

-----------------------------------------------------------------------------
LEMMA UntouchedBooks ==
    ASSUME Inv, NEW t \in Turns, Same(t), NEW u \in Turns \ {t}
    PROVE  Books(u)'
  BY DEF Inv, Same, Books, Fresh, Counted, Booked, InFlight, Attaching, Leaving,
         Failing, Lost, Ended, Bounded, Quiet, Spoken, At, Over

(* The sizes of what a turn counts, as TypeOK gives them.                   *)
Sized(t) ==
    /\ turn[t] \in Turn /\ turn[t].todo \in Seq(Tools)
    /\ turn[t].said \in BOOLEAN /\ turn[t].asked \in BOOLEAN /\ ending[t] \in Endings
    /\ MaxIters \in Nat \ {0} /\ turn[t].iter \in 0 .. MaxIters
    /\ made[t] \in 0 .. MaxIters + 1 /\ billed[t] \in 0 .. MaxIters /\ pend[t] \in 0 .. 1
    /\ booked[t] \in 0 .. 2 * MaxIters + 1 /\ messages[t] \in 0 .. 1

LEMMA Values ==
    ASSUME Inv, NEW t \in Turns
    PROVE  Sized(t) /\ Books(t)
  BY SizesOK DEF Inv, TypeOK, Turn, Sized

(* A step that only moves the coroutine.                                    *)
LEMMA TurnOnly ==
    ASSUME Inv, NEW t \in Turns, NEW r \in Turn, turn' = [turn EXCEPT ![t] = r],
           UNCHANGED <<ledger, row, open, ending, messages>>
    PROVE  /\ TypeOK' /\ Same(t) /\ turn'[t] = r
           /\ UNCHANGED <<made, billed, pend, booked, flushed, dropped, aborted, row, ending,
                        messages>>
  BY DEF Inv, TypeOK, Same, ledger

LEMMA MoveStep ==
    ASSUME Inv, NEW t \in Turns,
           Begin(t) \/ Speak(t) \/ StreamEnds(t) \/ StreamFails(t) \/ Garbled(t)
           \/ Dispatch(t) \/ ToolReturns(t) \/ Resume(t) \/ ToolsDone(t)
           \/ Drained(t) \/ SummaryCall(t) \/ SummaryMeters(t) \/ CheckFails(t)
    PROVE  TypeOK' /\ Books(t)' /\ Same(t)
  <1>0. Sized(t) /\ Books(t)
    BY Values
  <1>1. CASE Begin(t)
    <2> DEFINE r == [turn[t] EXCEPT !.at = "top"]
    <2>2. turn' = [turn EXCEPT ![t] = r] /\ UNCHANGED <<ledger, row, open, ending, messages>>
      BY <1>1 DEF Begin, Goto, Returns
    <2>4. r \in Turn /\ r.at = "top" /\ r.iter = turn[t].iter /\ r.thread = turn[t].thread
          /\ r.said = turn[t].said
      BY <1>1, <1>0 DEF Sized, Begin, Turn, Await, OnLoop, At
    <2> HIDE DEF r
    <2>5. /\ TypeOK' /\ Same(t) /\ turn'[t] = r
          /\ UNCHANGED <<made, billed, pend, booked, flushed, dropped, aborted, row, ending,
                        messages>>
      BY <2>2, <2>4, TurnOnly
    <2>3. /\ turn[t].iter = 0 /\ made[t] = 0 /\ billed[t] = 0 /\ pend[t] = 0 /\ booked[t] = 0
          /\ t \notin flushed /\ t \notin dropped /\ t \notin aborted
          /\ ending[t] = "none" /\ messages[t] = 0 /\ turn[t].thread \notin {"busy", "locking", "metering"}
      BY <1>1, <1>0 DEF Begin, Books, Fresh, Quiet, Before, At
    <2>6. Books(t)'
      BY <1>0, <2>3, <2>4, <2>5
         DEF Sized, Before, Books, Fresh, Counted, Booked, InFlight, Attaching,
             Leaving, Failing, Lost, Ended, Bounded, Quiet, Spoken, At, Over, Metered
    <2>7. QED
      BY <2>5, <2>6
  <1>2. CASE Speak(t)
    <2> DEFINE r == [turn[t] EXCEPT !.said = TRUE]
    <2>2. turn' = [turn EXCEPT ![t] = r] /\ UNCHANGED <<ledger, row, open, ending, messages>>
      BY <1>2 DEF Speak, Goto, Returns
    <2>4. r \in Turn /\ r.at = "call" /\ r.said /\ r.iter = turn[t].iter
          /\ r.thread = turn[t].thread
      BY <1>2, <1>0 DEF Sized, Speak, Turn, Await, OnLoop, At
    <2> HIDE DEF r
    <2>5. /\ TypeOK' /\ Same(t) /\ turn'[t] = r
          /\ UNCHANGED <<made, billed, pend, booked, flushed, dropped, aborted, row, ending,
                        messages>>
      BY <2>2, <2>4, TurnOnly
    <2>6. Books(t)'
      BY <1>2, <2>4, <2>5, <1>0
         DEF Sized, Speak, ToolRunning, Books, Fresh, Counted, Booked, InFlight, Attaching,
             Leaving, Failing, Lost, Ended, Bounded, Quiet, Spoken, At, Over, Metered, Before
    <2>7. QED
      BY <2>5, <2>6
  <1>3. CASE StreamEnds(t)
    <2>0. PICK plan \in Plans :
               /\ Silent \/ turn[t].said \/ Ordered(plan) = <<>>
               /\ turn' = [turn EXCEPT ![t].at = "bill", ![t].todo = Ordered(plan)]
      BY <1>3 DEF StreamEnds
    <2> DEFINE todo == Ordered(plan)
               r == [turn[t] EXCEPT !.at = "bill", !.todo = todo]
    <2>1. todo \in Seq(Tools) /\ (Silent \/ turn[t].said \/ todo = <<>>)
      BY <2>0, OrderedCalls
    <2>2. turn' = [turn EXCEPT ![t] = r] /\ UNCHANGED <<ledger, row, open, ending, messages>>
      BY <2>0, <1>3 DEF StreamEnds, Goto, Returns
    <2> HIDE DEF todo
    <2>4. r \in Turn /\ r.at = "bill" /\ r.todo = todo /\ r.iter = turn[t].iter
          /\ r.thread = turn[t].thread /\ r.said = turn[t].said
      BY <2>0, <2>1, <1>3, <1>0 DEF Sized, StreamEnds, Turn, Await, OnLoop, At
    <2> HIDE DEF r
    <2>5. /\ TypeOK' /\ Same(t) /\ turn'[t] = r
          /\ UNCHANGED <<made, billed, pend, booked, flushed, dropped, aborted, row, ending,
                        messages>>
      BY <2>2, <2>4, TurnOnly
    <2>6. Books(t)'
      BY <2>0, <2>1, <1>3, <2>4, <2>5, <1>0
         DEF Sized, StreamEnds, ToolRunning, Books, Fresh, Counted, Booked, InFlight, Attaching,
             Leaving, Failing, Lost, Ended, Bounded, Quiet, Spoken, At, Over, Metered, Before
    <2>7. QED
      BY <2>5, <2>6
  <1>4. CASE StreamFails(t)
    <2> DEFINE r == [turn[t] EXCEPT !.at = "error"]
    <2>2. turn' = [turn EXCEPT ![t] = r] /\ UNCHANGED <<ledger, row, open, ending, messages>>
      BY <1>4 DEF StreamFails, Goto, Returns
    <2>4. r \in Turn /\ r.at = "error" /\ r.iter = turn[t].iter /\ r.thread = turn[t].thread
          /\ r.said = turn[t].said
      BY <1>4, <1>0 DEF Sized, StreamFails, Turn, Await, OnLoop, At
    <2> HIDE DEF r
    <2>5. /\ TypeOK' /\ Same(t) /\ turn'[t] = r
          /\ UNCHANGED <<made, billed, pend, booked, flushed, dropped, aborted, row, ending,
                        messages>>
      BY <2>2, <2>4, TurnOnly
    <2>6. Books(t)'
      BY <1>4, <2>4, <2>5, <1>0
         DEF Sized, StreamFails, ToolRunning, Books, Fresh, Counted, Booked, InFlight, Attaching,
             Leaving, Failing, Lost, Ended, Bounded, Quiet, Spoken, At, Over, Metered, Before
    <2>7. QED
      BY <2>5, <2>6
  <1>5. CASE Garbled(t)
    <2> DEFINE r == [turn[t] EXCEPT !.todo = Tail(@)]
    <2>1. turn[t].todo # <<>> /\ Tail(turn[t].todo) \in Seq(Tools)
      BY <1>5, <1>0, HeadTailProperties DEF Sized, Garbled, Books, Quiet
    <2>2. turn' = [turn EXCEPT ![t] = r] /\ UNCHANGED <<ledger, row, open, ending, messages>>
      BY <1>5 DEF Garbled, Goto, Returns
    <2>4. r \in Turn /\ r.at = "tools" /\ r.iter = turn[t].iter /\ r.thread = turn[t].thread
          /\ r.said = turn[t].said
      BY <2>1, <1>5, <1>0 DEF Sized, Garbled, Turn, Await, OnLoop, At
    <2> HIDE DEF r
    <2>5. /\ TypeOK' /\ Same(t) /\ turn'[t] = r
          /\ UNCHANGED <<made, billed, pend, booked, flushed, dropped, aborted, row, ending,
                        messages>>
      BY <2>2, <2>4, TurnOnly
    <2>6. Books(t)'
      BY <2>1, <1>5, <2>4, <2>5, <1>0
         DEF Sized, Garbled, ToolRunning, Books, Fresh, Counted, Booked, InFlight, Attaching,
             Leaving, Failing, Lost, Ended, Bounded, Quiet, Spoken, At, Over, Metered, Before
    <2>7. QED
      BY <2>5, <2>6
  <1>6. CASE Dispatch(t)
    <2>0. PICK how \in {"busy", "locking", "metering"} :
               turn' = [turn EXCEPT ![t].at = "tool", ![t].thread = how]
      BY <1>6 DEF Dispatch
    <2> DEFINE r == [turn[t] EXCEPT !.at = "tool", !.thread = how]
    <2>2. turn' = [turn EXCEPT ![t] = r] /\ UNCHANGED <<ledger, row, open, ending, messages>>
      BY <2>0, <1>6 DEF Dispatch, Goto, Returns
    <2>4. r \in Turn /\ r.at = "tool" /\ r.iter = turn[t].iter /\ r.said = turn[t].said
          /\ r.todo = turn[t].todo
      BY <2>0, <1>6, <1>0 DEF Sized, Dispatch, Turn, Await, OnLoop, At
    <2> HIDE DEF r
    <2>5. /\ TypeOK' /\ Same(t) /\ turn'[t] = r
          /\ UNCHANGED <<made, billed, pend, booked, flushed, dropped, aborted, row, ending,
                        messages>>
      BY <2>2, <2>4, TurnOnly
    <2>6. Books(t)'
      BY <1>6, <2>4, <2>5, <1>0
         DEF Sized, Dispatch, ToolRunning, Books, Fresh, Counted, Booked, InFlight, Attaching,
             Leaving, Failing, Lost, Ended, Bounded, Quiet, Spoken, At, Over, Metered, Before
    <2>7. QED
      BY <2>5, <2>6
  <1>7. CASE ToolReturns(t)
    <2>0. PICK how \in {"ok", "failed", "crashed"} : Returns(t, how)
      BY <1>7 DEF ToolReturns
    <2> DEFINE r == [turn[t] EXCEPT !.thread = how]
    <2>2. turn' = [turn EXCEPT ![t] = r] /\ UNCHANGED <<ledger, row, open, ending, messages>>
      BY <2>0, <1>7 DEF ToolReturns, Goto, Returns
    <2>4. r \in Turn /\ r.thread \notin {"busy", "locking", "metering"} /\ r.at = turn[t].at
          /\ r.iter = turn[t].iter /\ r.said = turn[t].said /\ r.todo = turn[t].todo
      BY <2>0, <1>7, <1>0 DEF Sized, ToolReturns, Turn, Await, OnLoop, At
    <2> HIDE DEF r
    <2>5. /\ TypeOK' /\ Same(t) /\ turn'[t] = r
          /\ UNCHANGED <<made, billed, pend, booked, flushed, dropped, aborted, row, ending,
                        messages>>
      BY <2>2, <2>4, TurnOnly
    <2>6. Books(t)'
      BY <2>0, <1>7, <2>4, <2>5, <1>0
         DEF Sized, ToolReturns, ToolRunning, Books, Fresh, Counted, Booked, InFlight, Attaching,
             Leaving, Failing, Lost, Ended, Bounded, Quiet, Spoken, At, Over, Metered, Before
    <2>7. QED
      BY <2>5, <2>6
  <1>8. CASE Resume(t)
    <2> DEFINE where == IF turn[t].thread = "crashed" THEN "error" ELSE "tools"
               asked == turn[t].asked
                        \/ (turn[t].thread = "ok" /\ Head(turn[t].todo) = "ask")
               r == [turn[t] EXCEPT !.at = where, !.thread = "none",
                                    !.todo = Tail(@), !.asked = asked]
    <2>1. turn[t].todo # <<>> /\ Tail(turn[t].todo) \in Seq(Tools)
      BY <1>8, <1>0, HeadTailProperties DEF Sized, Resume, Books, Quiet
    <2>2. turn' = [turn EXCEPT ![t] = r] /\ UNCHANGED <<ledger, row, open, ending, messages>>
      BY <1>8 DEF Resume, Goto, Returns
    <2>3. where \in Await \cup OnLoop /\ asked \in BOOLEAN /\ where \in {"error", "tools"}
      BY <1>0 DEF Sized, Await, OnLoop
    <2> HIDE DEF where, asked
    <2>4. r \in Turn /\ r.at = where /\ r.thread = "none" /\ r.iter = turn[t].iter
          /\ r.said = turn[t].said
      BY <2>1, <2>3, <1>8, <1>0 DEF Sized, Resume, Turn, Await, OnLoop, At
    <2> HIDE DEF r
    <2>5. /\ TypeOK' /\ Same(t) /\ turn'[t] = r
          /\ UNCHANGED <<made, billed, pend, booked, flushed, dropped, aborted, row, ending,
                        messages>>
      BY <2>2, <2>4, TurnOnly
    <2>6. Books(t)'
      BY <2>1, <2>3, <1>8, <2>4, <2>5, <1>0
         DEF Sized, Resume, ToolRunning, Books, Fresh, Counted, Booked, InFlight, Attaching,
             Leaving, Failing, Lost, Ended, Bounded, Quiet, Spoken, At, Over, Metered, Before
    <2>7. QED
      BY <2>5, <2>6
  <1>9. CASE ToolsDone(t)
    <2> DEFINE where == IF turn[t].asked THEN "finish" ELSE "top"
               r == [turn[t] EXCEPT !.at = where]
    <2>2. turn' = [turn EXCEPT ![t] = r] /\ UNCHANGED <<ledger, row, open, ending, messages>>
      BY <1>9 DEF ToolsDone, Goto, Returns
    <2>3. where \in Await \cup OnLoop /\ where \in {"finish", "top"}
      BY <1>0 DEF Sized, Await, OnLoop
    <2> HIDE DEF where
    <2>4. r \in Turn /\ r.at = where /\ r.iter = turn[t].iter /\ r.thread = turn[t].thread
          /\ r.said = turn[t].said
      BY <2>3, <1>9, <1>0 DEF Sized, ToolsDone, Turn, Await, OnLoop, At
    <2> HIDE DEF r
    <2>5. /\ TypeOK' /\ Same(t) /\ turn'[t] = r
          /\ UNCHANGED <<made, billed, pend, booked, flushed, dropped, aborted, row, ending,
                        messages>>
      BY <2>2, <2>4, TurnOnly
    <2>6. Books(t)'
      BY <2>3, <1>9, <2>4, <2>5, <1>0
         DEF Sized, ToolsDone, ToolRunning, Books, Fresh, Counted, Booked, InFlight, Attaching,
             Leaving, Failing, Lost, Ended, Bounded, Quiet, Spoken, At, Over, Metered, Before
    <2>7. QED
      BY <2>5, <2>6
  <1>10. CASE Drained(t)
    <2> DEFINE r == [turn[t] EXCEPT !.at = "cancel"]
    <2>2. turn' = [turn EXCEPT ![t] = r] /\ UNCHANGED <<ledger, row, open, ending, messages>>
      BY <1>10 DEF Drained, Goto, Returns
    <2>4. r \in Turn /\ r.at = "cancel" /\ r.iter = turn[t].iter /\ r.thread = turn[t].thread
          /\ r.said = turn[t].said
      BY <1>10, <1>0 DEF Sized, Drained, Turn, Await, OnLoop, At
    <2> HIDE DEF r
    <2>5. /\ TypeOK' /\ Same(t) /\ turn'[t] = r
          /\ UNCHANGED <<made, billed, pend, booked, flushed, dropped, aborted, row, ending,
                        messages>>
      BY <2>2, <2>4, TurnOnly
    <2>6. Books(t)'
      <3>1. Lost(t)' /\ Ended(t)'
        BY <1>10, <2>4, <2>5, <1>0
           DEF Sized, Drained, ToolRunning, Books, Counted, Booked, Quiet, Bounded, Lost, Ended, At, Over,
               Metered, Before
      <3>2. Bounded(t)' /\ Failing(t)'
        BY <1>10, <2>4, <2>5, <1>0
           DEF Sized, Drained, ToolRunning, Books, Booked, InFlight, Failing, Bounded, Quiet, At, Metered,
               Before
      <3>3. Spoken(t)' /\ Quiet(t)'
        BY <1>10, <2>4, <2>5, <1>0
           DEF Sized, Drained, ToolRunning, Books, Ended, Quiet, Spoken, At, Over, Metered, Before
      <3>4. QED
        BY <1>10, <2>4, <2>5, <1>0, <3>1, <3>2, <3>3
           DEF Sized, Drained, ToolRunning, Books, Fresh, Counted, Booked, InFlight, Attaching, Leaving,
               At, Metered, Before
    <2>7. QED
      BY <2>5, <2>6
  <1>11. CASE SummaryCall(t)
    <2> DEFINE r == [turn[t] EXCEPT !.at = "summary"]
    <2>2. turn' = [turn EXCEPT ![t] = r] /\ UNCHANGED <<ledger, row, open, ending, messages>>
      BY <1>11 DEF SummaryCall, Goto, Returns
    <2>4. r \in Turn /\ r.at = "summary" /\ r.iter = turn[t].iter /\ r.thread = turn[t].thread
          /\ r.said = turn[t].said
      BY <1>11, <1>0 DEF Sized, SummaryCall, Turn, Await, OnLoop, At
    <2> HIDE DEF r
    <2>5. /\ TypeOK' /\ Same(t) /\ turn'[t] = r
          /\ UNCHANGED <<made, billed, pend, booked, flushed, dropped, aborted, row, ending,
                        messages>>
      BY <2>2, <2>4, TurnOnly
    <2>6. Books(t)'
      <3>1. Lost(t)' /\ Ended(t)'
        BY <1>11, <2>4, <2>5, <1>0
           DEF Sized, SummaryCall, ToolRunning, Books, Counted, Booked, Quiet, Bounded, Lost, Ended, At, Over,
               Metered, Before
      <3>2. Bounded(t)' /\ Failing(t)'
        BY <1>11, <2>4, <2>5, <1>0
           DEF Sized, SummaryCall, ToolRunning, Books, Booked, InFlight, Failing, Bounded, Quiet, At, Metered,
               Before
      <3>3. Spoken(t)' /\ Quiet(t)'
        BY <1>11, <2>4, <2>5, <1>0
           DEF Sized, SummaryCall, ToolRunning, Books, Ended, Quiet, Spoken, At, Over, Metered, Before
      <3>4. QED
        BY <1>11, <2>4, <2>5, <1>0, <3>1, <3>2, <3>3
           DEF Sized, SummaryCall, ToolRunning, Books, Fresh, Counted, Booked, InFlight, Attaching, Leaving,
               At, Metered, Before
    <2>7. QED
      BY <2>5, <2>6
  <1>12. CASE SummaryMeters(t)
    <2> DEFINE r == [turn[t] EXCEPT !.at = "store"]
    <2>2. turn' = [turn EXCEPT ![t] = r] /\ UNCHANGED <<ledger, row, open, ending, messages>>
      BY <1>12 DEF SummaryMeters, Goto, Returns
    <2>4. r \in Turn /\ r.at = "store" /\ r.iter = turn[t].iter /\ r.thread = turn[t].thread
          /\ r.said = turn[t].said
      BY <1>12, <1>0 DEF Sized, SummaryMeters, Turn, Await, OnLoop, At
    <2> HIDE DEF r
    <2>5. /\ TypeOK' /\ Same(t) /\ turn'[t] = r
          /\ UNCHANGED <<made, billed, pend, booked, flushed, dropped, aborted, row, ending,
                        messages>>
      BY <2>2, <2>4, TurnOnly
    <2>6. Books(t)'
      <3>1. Lost(t)' /\ Ended(t)'
        BY <1>12, <2>4, <2>5, <1>0
           DEF Sized, SummaryMeters, ToolRunning, Books, Counted, Booked, Quiet, Bounded, Lost, Ended, At, Over,
               Metered, Before
      <3>2. Bounded(t)' /\ Failing(t)'
        BY <1>12, <2>4, <2>5, <1>0
           DEF Sized, SummaryMeters, ToolRunning, Books, Booked, InFlight, Failing, Bounded, Quiet, At, Metered,
               Before
      <3>3. Spoken(t)' /\ Quiet(t)'
        BY <1>12, <2>4, <2>5, <1>0
           DEF Sized, SummaryMeters, ToolRunning, Books, Ended, Quiet, Spoken, At, Over, Metered, Before
      <3>4. QED
        BY <1>12, <2>4, <2>5, <1>0, <3>1, <3>2, <3>3
           DEF Sized, SummaryMeters, ToolRunning, Books, Fresh, Counted, Booked, InFlight, Attaching, Leaving,
               At, Metered, Before
    <2>7. QED
      BY <2>5, <2>6
  <1>14. CASE CheckFails(t)
    <2> DEFINE r == [turn[t] EXCEPT !.at = "error"]
    <2>2. turn' = [turn EXCEPT ![t] = r] /\ UNCHANGED <<ledger, row, open, ending, messages>>
      BY <1>14 DEF CheckFails, Goto, Returns
    <2>4. r \in Turn /\ r.at = "error" /\ r.iter = turn[t].iter /\ r.thread = turn[t].thread
          /\ r.said = turn[t].said
      BY <1>14, <1>0 DEF Sized, CheckFails, Turn, Await, OnLoop, At
    <2> HIDE DEF r
    <2>5. /\ TypeOK' /\ Same(t) /\ turn'[t] = r
          /\ UNCHANGED <<made, billed, pend, booked, flushed, dropped, aborted, row, ending,
                        messages>>
      BY <2>2, <2>4, TurnOnly
    <2>6. Books(t)'
      <3>1. Lost(t)' /\ Ended(t)'
        BY <1>14, <2>4, <2>5, <1>0
           DEF Sized, CheckFails, ToolRunning, Books, Counted, Booked, Quiet, Bounded, Lost, Ended, At, Over,
               Metered, Before
      <3>2. Bounded(t)' /\ Failing(t)'
        BY <1>14, <2>4, <2>5, <1>0
           DEF Sized, CheckFails, ToolRunning, Books, Booked, InFlight, Failing, Bounded, Quiet, At, Metered,
               Before
      <3>3. Spoken(t)' /\ Quiet(t)'
        BY <1>14, <2>4, <2>5, <1>0
           DEF Sized, CheckFails, ToolRunning, Books, Ended, Quiet, Spoken, At, Over, Metered, Before
      <3>4. QED
        BY <1>14, <2>4, <2>5, <1>0, <3>1, <3>2, <3>3
           DEF Sized, CheckFails, ToolRunning, Books, Fresh, Counted, Booked, InFlight, Attaching, Leaving,
               At, Metered, Before
    <2>7. QED
      BY <2>5, <2>6
  <1>13. QED
    BY <1>1, <1>2, <1>3, <1>4, <1>5, <1>6, <1>7, <1>8, <1>9, <1>10, <1>11, <1>12, <1>14

LEMMA CallStep ==
    ASSUME Inv, NEW t \in Turns, Call(t)
    PROVE  TypeOK' /\ Books(t)' /\ Same(t)
  <1> DEFINE r == [turn[t] EXCEPT !.at = "call", !.iter = @ + 1]
             m == made[t] + 1  b == billed[t]  p == 0
             k == booked[t] + pend[t]  e == ending[t]  g == messages[t]
  <1>1. At(t) = "top" /\ Sized(t) /\ Books(t) /\ t \notin aborted
    BY Values DEF Call
  <1>0. turn[t].iter + 1 \in 0 .. MaxIters
    <2>1. turn[t].iter \in 0 .. MaxIters /\ MaxIters \in Nat
      BY <1>1 DEF Sized
    <2>2. turn[t].iter # MaxIters
      BY DEF Call, Exhausted
    <2>3. QED
      BY <2>1, <2>2
  <1>2. r \in Turn /\ r.at = "call" /\ r.iter = turn[t].iter + 1 /\ r.thread = turn[t].thread
          /\ r.said = turn[t].said
    BY <1>1, <1>0 DEF Sized, Turn, Await, OnLoop
  <1>3. /\ m \in 0 .. MaxIters + 1 /\ b \in 0 .. MaxIters /\ p \in 0 .. 1
        /\ k \in 0 .. 2 * MaxIters + 1 /\ e \in Endings /\ g \in 0 .. 1
    BY <1>1, <1>0, <1>2, SMTT(30) DEF Sized, Endings, Books, Counted, Booked, InFlight, Attaching,
       Leaving, Failing, Lost, Ended, Bounded, Quiet, At, Metered, Before
  <1>4. /\ turn' = [turn EXCEPT ![t] = r] /\ made' = [made EXCEPT ![t] = m]
        /\ billed' = [billed EXCEPT ![t] = b] /\ pend' = [pend EXCEPT ![t] = p]
        /\ booked' = [booked EXCEPT ![t] = k] /\ ending' = [ending EXCEPT ![t] = e]
        /\ messages' = [messages EXCEPT ![t] = g]
        /\ row' \in {row, row \ {t}, row \cup {t}} /\ open' \subseteq Turns
    BY DEF Call, CloseTransaction, Commit, Exhausted, Inv, TypeOK
  <1>8. flushed' = flushed \ {t} /\ dropped' = dropped /\ aborted' = aborted
    BY DEF Call, CloseTransaction, Commit
  <1> HIDE DEF r, m, b, p, k, e, g
  <1>5. /\ TypeOK' /\ Same(t) /\ turn'[t] = r
        /\ made'[t] = m /\ billed'[t] = b /\ pend'[t] = p
        /\ booked'[t] = k /\ ending'[t] = e /\ messages'[t] = g
    BY <1>2, <1>3, <1>4, <1>8 DEF Inv, TypeOK, Same
  <1>6. Books(t)'
    <2> USE DEF m, b, p, k, e, g
    <2>1. Ended(t)'
      BY <1>1, <1>2, <1>3, <1>5, <1>8 DEF Sized, Books, Counted, Booked, InFlight, Attaching,
         Leaving, Failing, Lost, Ended, At, Over, Metered, Before
    <2>2. Bounded(t)'
      BY <1>1, <1>2, <1>5, <1>8, SMTT(30) DEF Sized, Books, Counted, Booked, InFlight, Attaching, Leaving,
         Failing, Lost, Bounded, At, Metered, Before
    <2>3. InFlight(t)'
      <3>1. billed[t] = made[t] /\ booked[t] + pend[t] = made[t] /\ made[t] \in Nat
        BY <1>1 DEF Sized, Books, Booked, Metered
      <3>2. t \notin row'
        BY DEF Call, CloseTransaction, Commit
      <3>3. QED
        BY <1>1, <1>2, <1>5, <1>8, <3>1, <3>2 DEF InFlight, At
    <2>4. made[t] + 1 = turn[t].iter + 1
      BY <1>1 DEF Books, Counted, Before, Metered
    <2>5. QED
      BY <1>1, <1>2, <1>5, <1>8, <2>1, <2>2, <2>3, <2>4
         DEF Sized, Books, Fresh, Counted, Booked, Attaching, Leaving,
             Failing, Lost, Quiet, Spoken, At, Metered, Before
  <1>7. QED
    BY <1>5, <1>6

LEMMA BillStep ==
    ASSUME Inv, NEW t \in Turns, Bill(t)
    PROVE  TypeOK' /\ Books(t)' /\ Same(t)
  <1> DEFINE next == IF turn[t].todo = <<>> THEN "final" ELSE "tools"
             r == [turn[t] EXCEPT !.at = next]
             m == made[t]  b == made[t]  p == pend[t] + 1
             k == booked[t]  e == ending[t]  g == messages[t]
  <1>1. At(t) = "bill" /\ Sized(t) /\ Books(t)
    BY Values DEF Bill
  <1>2. r \in Turn /\ r.at = next /\ r.iter = turn[t].iter /\ r.thread = turn[t].thread
          /\ r.said = turn[t].said /\ r.todo = turn[t].todo
    BY <1>1 DEF Sized, Turn, Await, OnLoop
  <1>3. /\ m \in 0 .. MaxIters + 1 /\ b \in 0 .. MaxIters /\ p \in 0 .. 1
        /\ k \in 0 .. 2 * MaxIters + 1 /\ e \in Endings /\ g \in 0 .. 1
    BY <1>1, <1>2 DEF Sized, Endings, Books, Counted, Booked, InFlight, Attaching,
       Leaving, Failing, Lost, Ended, Bounded, Quiet, At, Metered, Before
  <1>4. /\ turn' = [turn EXCEPT ![t] = r] /\ made' = [made EXCEPT ![t] = m]
        /\ billed' = [billed EXCEPT ![t] = b] /\ pend' = [pend EXCEPT ![t] = p]
        /\ booked' = [booked EXCEPT ![t] = k] /\ ending' = [ending EXCEPT ![t] = e]
        /\ messages' = [messages EXCEPT ![t] = g]
        /\ row' \in {row, row \ {t}, row \cup {t}} /\ open' \subseteq Turns
    BY DEF Bill, Record, Inv, TypeOK
  <1>8. flushed' = flushed /\ dropped' = dropped /\ aborted' = aborted
    BY DEF Bill
  <1> HIDE DEF r, m, b, p, k, e, g
  <1>5. /\ TypeOK' /\ Same(t) /\ turn'[t] = r
        /\ made'[t] = m /\ billed'[t] = b /\ pend'[t] = p
        /\ booked'[t] = k /\ ending'[t] = e /\ messages'[t] = g
    BY <1>2, <1>3, <1>4, <1>8 DEF Inv, TypeOK, Same
  <1>6. Books(t)'
    <2> USE DEF m, b, p, k, e, g
    <2>1. Ended(t)'
      BY <1>1, <1>2, <1>3, <1>5, <1>8 DEF Sized, Books, Counted, Booked, InFlight, Attaching,
         Leaving, Failing, Lost, Ended, At, Over, Metered, Before
    <2>2. Bounded(t)'
      BY <1>1, <1>2, <1>5, <1>8, SMTT(30) DEF Sized, Books, Counted, Booked, InFlight, Attaching, Leaving,
         Failing, Lost, Bounded, At, Metered, Before
    <2>3. QED
      BY <1>1, <1>2, <1>5, <1>8, <2>1, <2>2
         DEF Sized, Books, Fresh, Counted, Booked, InFlight, Attaching, Leaving,
             Failing, Lost, Quiet, Spoken, At, Metered, Before
  <1>7. QED
    BY <1>5, <1>6

LEMMA FinalStep ==
    ASSUME Inv, NEW t \in Turns, Final(t)
    PROVE  TypeOK' /\ Books(t)' /\ Same(t)
  <1> DEFINE r == [turn[t] EXCEPT !.at = "over"]
             m == made[t]  b == billed[t]  p == 0
             k == booked[t] + pend[t]  e == "complete"  g == messages[t] + 1
  <1>1. At(t) = "final" /\ Sized(t) /\ Books(t)
    BY Values DEF Final
  <1>2. r \in Turn /\ r.at = "over" /\ r.iter = turn[t].iter /\ r.thread = turn[t].thread
          /\ r.said = turn[t].said
    BY <1>1 DEF Sized, Turn, Await, OnLoop
  <1>3. /\ m \in 0 .. MaxIters + 1 /\ b \in 0 .. MaxIters /\ p \in 0 .. 1
        /\ k \in 0 .. 2 * MaxIters + 1 /\ e \in Endings /\ g \in 0 .. 1
    BY <1>1, <1>2 DEF Sized, Endings, Books, Counted, Booked, InFlight, Attaching,
       Leaving, Failing, Lost, Ended, Bounded, Quiet, At, Metered, Before
  <1>4. /\ turn' = [turn EXCEPT ![t] = r] /\ made' = [made EXCEPT ![t] = m]
        /\ billed' = [billed EXCEPT ![t] = b] /\ pend' = [pend EXCEPT ![t] = p]
        /\ booked' = [booked EXCEPT ![t] = k] /\ ending' = [ending EXCEPT ![t] = e]
        /\ messages' = [messages EXCEPT ![t] = g]
        /\ row' \in {row, row \ {t}, row \cup {t}} /\ open' \subseteq Turns
    BY DEF Final, Commit, Keep, End, Goto, Inv, TypeOK
  <1>8. flushed' = flushed \ {t} /\ dropped' = dropped /\ aborted' = aborted
    BY DEF Final, Commit
  <1> HIDE DEF r, m, b, p, k, e, g
  <1>5. /\ TypeOK' /\ Same(t) /\ turn'[t] = r
        /\ made'[t] = m /\ billed'[t] = b /\ pend'[t] = p
        /\ booked'[t] = k /\ ending'[t] = e /\ messages'[t] = g
    BY <1>2, <1>3, <1>4, <1>8 DEF Inv, TypeOK, Same
  <1>6. Books(t)'
    <2> USE DEF m, b, p, k, e, g
    <2>1. Ended(t)'
      BY <1>1, <1>2, <1>3, <1>5, <1>8 DEF Sized, Books, Counted, Booked, InFlight, Attaching,
         Leaving, Failing, Lost, Ended, Quiet, At, Over, Metered, Before
    <2>2. Bounded(t)'
      BY <1>1, <1>2, <1>5, <1>8 DEF Sized, Books, Counted, Booked, InFlight, Attaching, Leaving,
         Failing, Lost, Bounded, At, Metered, Before
    <2>3. Lost(t)' /\ Spoken(t)' /\ Quiet(t)'
      BY <1>1, <1>2, <1>5, <1>8 DEF Sized, Books, Lost, Spoken, Quiet, At, Metered, Before
    <2>4. QED
      BY <1>1, <1>2, <1>5, <1>8, <2>1, <2>2, <2>3
         DEF Sized, Books, Fresh, Counted, Booked, InFlight, Attaching, Leaving, Failing, At, Metered,
             Before
  <1>7. QED
    BY <1>5, <1>6

LEMMA FinishStep ==
    ASSUME Inv, Told, NEW t \in Turns, Finish(t)
    PROVE  TypeOK' /\ Books(t)' /\ Same(t)
  <1> DEFINE r == [turn[t] EXCEPT !.at = "attach"]
             m == made[t]  b == billed[t]  p == 0
             k == booked[t] + pend[t]  e == ending[t]  g == messages[t] + 1
  <1>1. At(t) = "finish" /\ Sized(t) /\ Books(t) /\ t \notin aborted
    BY Values DEF Finish, Told, Asking, Over
  <1>2. r \in Turn /\ r.at = "attach" /\ r.iter = turn[t].iter /\ r.thread = turn[t].thread
          /\ r.said = turn[t].said
    BY <1>1 DEF Sized, Turn, Await, OnLoop
  <1>3. /\ m \in 0 .. MaxIters + 1 /\ b \in 0 .. MaxIters /\ p \in 0 .. 1
        /\ k \in 0 .. 2 * MaxIters + 1 /\ e \in Endings /\ g \in 0 .. 1
    BY <1>1, <1>2 DEF Sized, Endings, Books, Counted, Booked, InFlight, Attaching,
       Leaving, Failing, Lost, Ended, Bounded, Quiet, At, Metered, Before
  <1>4. /\ turn' = [turn EXCEPT ![t] = r] /\ made' = [made EXCEPT ![t] = m]
        /\ billed' = [billed EXCEPT ![t] = b] /\ pend' = [pend EXCEPT ![t] = p]
        /\ booked' = [booked EXCEPT ![t] = k] /\ ending' = [ending EXCEPT ![t] = e]
        /\ messages' = [messages EXCEPT ![t] = g]
        /\ row' \in {row, row \ {t}, row \cup {t}} /\ open' \subseteq Turns
    BY DEF Finish, Commit, Keep, Goto, Inv, TypeOK
  <1>8. flushed' = flushed \ {t} /\ dropped' = dropped /\ aborted' = aborted
    BY DEF Finish, Commit
  <1> HIDE DEF r, m, b, p, k, e, g
  <1>5. /\ TypeOK' /\ Same(t) /\ turn'[t] = r
        /\ made'[t] = m /\ billed'[t] = b /\ pend'[t] = p
        /\ booked'[t] = k /\ ending'[t] = e /\ messages'[t] = g
    BY <1>2, <1>3, <1>4, <1>8 DEF Inv, TypeOK, Same
  <1>6. Books(t)'
    <2> USE DEF m, b, p, k, e, g
    <2>1. Ended(t)'
      BY <1>1, <1>2, <1>3, <1>5, <1>8 DEF Sized, Books, Counted, Booked, InFlight, Attaching,
         Leaving, Failing, Lost, Ended, At, Over, Metered, Before
    <2>2. Bounded(t)'
      BY <1>1, <1>2, <1>5, <1>8 DEF Sized, Books, Counted, Booked, InFlight, Attaching, Leaving,
         Failing, Lost, Bounded, At, Metered, Before
    <2>3. QED
      BY <1>1, <1>2, <1>5, <1>8, <2>1, <2>2
         DEF Sized, Books, Fresh, Counted, Booked, InFlight, Attaching, Leaving,
             Failing, Lost, Quiet, Spoken, At, Metered, Before
  <1>7. QED
    BY <1>5, <1>6

LEMMA AttachStep ==
    ASSUME Inv, NEW t \in Turns, Attach(t)
    PROVE  TypeOK' /\ Books(t)' /\ Same(t)
  <1> DEFINE r == [turn[t] EXCEPT !.at = "over"]
             m == made[t]  b == billed[t]  p == pend[t]
             k == booked[t]  e == "complete"  g == messages[t]
  <1>1. At(t) = "attach" /\ Sized(t) /\ Books(t)
    BY Values DEF Attach
  <1>2. r \in Turn /\ r.at = "over" /\ r.iter = turn[t].iter /\ r.thread = turn[t].thread
          /\ r.said = turn[t].said
    BY <1>1 DEF Sized, Turn, Await, OnLoop
  <1>3. /\ m \in 0 .. MaxIters + 1 /\ b \in 0 .. MaxIters /\ p \in 0 .. 1
        /\ k \in 0 .. 2 * MaxIters + 1 /\ e \in Endings /\ g \in 0 .. 1
    BY <1>1, <1>2 DEF Sized, Endings, Books, Counted, Booked, InFlight, Attaching,
       Leaving, Failing, Lost, Ended, Bounded, Quiet, At, Metered, Before
  <1>4. /\ turn' = [turn EXCEPT ![t] = r] /\ made' = [made EXCEPT ![t] = m]
        /\ billed' = [billed EXCEPT ![t] = b] /\ pend' = [pend EXCEPT ![t] = p]
        /\ booked' = [booked EXCEPT ![t] = k] /\ ending' = [ending EXCEPT ![t] = e]
        /\ messages' = [messages EXCEPT ![t] = g]
        /\ row' \in {row, row \ {t}, row \cup {t}} /\ open' \subseteq Turns
    BY DEF Attach, End, Goto, RowAfterAttach, ledger, Inv, TypeOK
  <1>8. flushed' = flushed /\ dropped' = dropped /\ aborted' = aborted
    BY DEF Attach, ledger
  <1> HIDE DEF r, m, b, p, k, e, g
  <1>5. /\ TypeOK' /\ Same(t) /\ turn'[t] = r
        /\ made'[t] = m /\ billed'[t] = b /\ pend'[t] = p
        /\ booked'[t] = k /\ ending'[t] = e /\ messages'[t] = g
    BY <1>2, <1>3, <1>4, <1>8 DEF Inv, TypeOK, Same
  <1>6. Books(t)'
    <2> USE DEF m, b, p, k, e, g
    <2>1. Ended(t)'
      BY <1>1, <1>2, <1>3, <1>5, <1>8 DEF Sized, Books, Counted, Booked, InFlight, Attaching,
         Leaving, Failing, Lost, Ended, Quiet, At, Over, Metered, Before
    <2>2. Bounded(t)'
      BY <1>1, <1>2, <1>5, <1>8 DEF Sized, Books, Counted, Booked, InFlight, Attaching, Leaving,
         Failing, Lost, Bounded, At, Metered, Before
    <2>3. Lost(t)' /\ Spoken(t)' /\ Quiet(t)'
      BY <1>1, <1>2, <1>5, <1>8 DEF Sized, Books, Lost, Spoken, Quiet, At, Metered, Before
    <2>4. QED
      BY <1>1, <1>2, <1>5, <1>8, <2>1, <2>2, <2>3
         DEF Sized, Books, Fresh, Counted, Booked, InFlight, Attaching, Leaving, Failing, At, Metered,
             Before
  <1>7. QED
    BY <1>5, <1>6

LEMMA GotoType ==
    ASSUME Inv, NEW t \in Turns, NEW where \in Await \cup OnLoop, Goto(t, where)
    PROVE  /\ turn' \in [Turns -> Turn] /\ turn'[t].at = where
           /\ turn'[t].todo = turn[t].todo /\ turn'[t].thread = turn[t].thread
           /\ turn'[t].iter = turn[t].iter /\ turn'[t].said = turn[t].said
           /\ \A u \in Turns \ {t} : turn'[u] = turn[u]
  BY ZenonT(40) DEF Goto, Inv, TypeOK, Turn

LEMMA CancelArmStep ==
    ASSUME Inv, NEW t \in Turns, CancelArm(t)
    PROVE  TypeOK' /\ Books(t)' /\ Same(t)
  <1>1. /\ At(t) = "cancel" /\ Goto(t, "over")
        /\ UNCHANGED <<made, billed, dropped, aborted, open>>
        /\ ending' = [ending EXCEPT ![t] = "cancelled"]
    BY DEF CancelArm, End
  <1>2. turn' \in [Turns -> Turn] /\ turn'[t].at = "over"
        /\ turn'[t].todo = turn[t].todo /\ turn'[t].thread = turn[t].thread
        /\ turn'[t].iter = turn[t].iter /\ turn'[t].said = turn[t].said
        /\ \A u \in Turns \ {t} : turn'[u] = turn[u]
    BY <1>1, GotoType DEF Await
  <1>3. Sized(t) /\ Books(t)
    BY Values
  <1>4. CASE t \notin aborted
    <2> DEFINE k == booked[t] + pend[t] + Unbilled(t)  g == messages[t] + 1
    <2>1. /\ booked' = [booked EXCEPT ![t] = k] /\ pend' = [pend EXCEPT ![t] = 0]
          /\ messages' = [messages EXCEPT ![t] = g] /\ row' = row \ {t}
          /\ flushed' = flushed \ {t}
      BY <1>4 DEF CancelArm, GiveUp, Keep
    <2>2. k = made[t]
      <3>1. /\ booked[t] \in Nat /\ pend[t] \in Nat /\ made[t] \in Nat /\ billed[t] \in Nat
            /\ booked[t] + pend[t] = billed[t]
        BY <1>1, <1>3, <1>4 DEF Sized, Books, Leaving
      <3>2. QED
        BY <3>1 DEF Unbilled
    <2>3. k \in 0 .. 2 * MaxIters + 1 /\ g \in 0 .. 1 /\ made[t] = turn[t].iter
      BY <1>1, <1>3, <2>2 DEF Sized, Books, Counted, Quiet, Before
    <2> HIDE DEF k, g
    <2>4. TypeOK' /\ Same(t) /\ booked'[t] = k /\ pend'[t] = 0 /\ ending'[t] = "cancelled"
      BY <1>1, <1>2, <2>1, <2>3 DEF Inv, TypeOK, Same, Endings
    <2>5. Books(t)'
      BY <1>1, <1>2, <1>3, <1>4, <2>1, <2>2, <2>3, <2>4 DEF Sized, Books, Counted, Booked,
         InFlight, Attaching, Leaving, Failing, Lost, Ended, Bounded, Quiet, Spoken, Fresh, At, Over,
         Metered, Before
    <2>6. QED
      BY <2>4, <2>5
  <1>5. CASE t \in aborted
    <2>1. UNCHANGED <<booked, pend, flushed, row, messages>>
      BY <1>5 DEF CancelArm, Unsaved
    <2>2. TypeOK' /\ Same(t) /\ ending'[t] = "cancelled"
      BY <1>1, <1>2, <2>1 DEF Inv, TypeOK, Same, Endings
    <2>3. Books(t)'
      BY <1>1, <1>2, <1>3, <1>5, <2>1, <2>2 DEF Sized, Books, Counted, Booked,
         InFlight, Attaching, Leaving, Failing, Lost, Ended, Bounded, Quiet, Spoken, Fresh, At, Over,
         Metered, Before
    <2>4. QED
      BY <2>2, <2>3
  <1>6. QED
    BY <1>4, <1>5

LEMMA RollbackStep ==
    ASSUME Inv, NEW t \in Turns, Rollback(t)
    PROVE  TypeOK' /\ Books(t)' /\ Same(t)
  <1> DEFINE r == [turn[t] EXCEPT !.at = "rebill"]
             m == made[t]  b == billed[t]  p == 0
             k == booked[t]  e == ending[t]  g == messages[t]
  <1>1. At(t) = "error" /\ Sized(t) /\ Books(t)
    BY Values DEF Rollback
  <1>2. r \in Turn /\ r.at = "rebill" /\ r.iter = turn[t].iter /\ r.thread = turn[t].thread
          /\ r.said = turn[t].said
    BY <1>1 DEF Sized, Turn, Await, OnLoop
  <1>3. /\ m \in 0 .. MaxIters + 1 /\ b \in 0 .. MaxIters /\ p \in 0 .. 1
        /\ k \in 0 .. 2 * MaxIters + 1 /\ e \in Endings /\ g \in 0 .. 1
    BY <1>1, <1>2 DEF Sized, Endings, Books, Counted, Booked, InFlight, Attaching,
       Leaving, Failing, Lost, Ended, Bounded, Quiet, At, Metered, Before
  <1>4. /\ turn' = [turn EXCEPT ![t] = r] /\ made' = [made EXCEPT ![t] = m]
        /\ billed' = [billed EXCEPT ![t] = b] /\ pend' = [pend EXCEPT ![t] = p]
        /\ booked' = [booked EXCEPT ![t] = k] /\ ending' = [ending EXCEPT ![t] = e]
        /\ messages' = [messages EXCEPT ![t] = g]
        /\ row' \in {row, row \ {t}, row \cup {t}} /\ open' \subseteq Turns
    BY DEF Rollback, GiveUp, Goto, Inv, TypeOK
  <1>8. flushed' = flushed \ {t} /\ dropped' = dropped \cup (flushed \cap {t}) /\ aborted' = aborted \ {t}
    BY DEF Rollback, GiveUp
  <1> HIDE DEF r, m, b, p, k, e, g
  <1>5. /\ TypeOK' /\ Same(t) /\ turn'[t] = r
        /\ made'[t] = m /\ billed'[t] = b /\ pend'[t] = p
        /\ booked'[t] = k /\ ending'[t] = e /\ messages'[t] = g
    BY <1>2, <1>3, <1>4, <1>8 DEF Inv, TypeOK, Same
  <1>6. Books(t)'
    <2> USE DEF m, b, p, k, e, g
    <2>1. Ended(t)'
      BY <1>1, <1>2, <1>3, <1>5, <1>8 DEF Sized, Books, Counted, Booked, InFlight, Attaching,
         Leaving, Failing, Lost, Ended, At, Over, Metered, Before
    <2>2. Bounded(t)'
      BY <1>1, <1>2, <1>5, <1>8, SMTT(30) DEF Sized, Books, Counted, Booked, InFlight, Attaching, Leaving,
         Failing, Lost, Bounded, At, Metered, Before
    <2>3. QED
      BY <1>1, <1>2, <1>5, <1>8, <2>1, <2>2
         DEF Sized, Books, Fresh, Counted, Booked, InFlight, Attaching, Leaving,
             Failing, Lost, Quiet, Spoken, At, Metered, Before
  <1>7. QED
    BY <1>5, <1>6

LEMMA ErrorArmStep ==
    ASSUME Inv, NEW t \in Turns, ErrorArm(t)
    PROVE  TypeOK' /\ Books(t)' /\ Same(t)
  <1> DEFINE r == [turn[t] EXCEPT !.at = "over"]
             m == made[t]  b == billed[t]  p == pend[t]
             k == booked[t] + made[t]  e == "error"  g == messages[t] + 1
  <1>1. At(t) = "rebill" /\ Sized(t) /\ Books(t)
    BY Values DEF ErrorArm
  <1>2. r \in Turn /\ r.at = "over" /\ r.iter = turn[t].iter /\ r.thread = turn[t].thread
          /\ r.said = turn[t].said
    BY <1>1 DEF Sized, Turn, Await, OnLoop
  <1>3. /\ m \in 0 .. MaxIters + 1 /\ b \in 0 .. MaxIters /\ p \in 0 .. 1
        /\ k \in 0 .. 2 * MaxIters + 1 /\ e \in Endings /\ g \in 0 .. 1
    BY <1>1, <1>2 DEF Sized, Endings, Books, Counted, Booked, InFlight, Attaching,
       Leaving, Failing, Lost, Ended, Bounded, Quiet, At, Metered, Before
  <1>4. /\ turn' = [turn EXCEPT ![t] = r] /\ made' = [made EXCEPT ![t] = m]
        /\ billed' = [billed EXCEPT ![t] = b] /\ pend' = [pend EXCEPT ![t] = p]
        /\ booked' = [booked EXCEPT ![t] = k] /\ ending' = [ending EXCEPT ![t] = e]
        /\ messages' = [messages EXCEPT ![t] = g]
        /\ row' \in {row, row \ {t}, row \cup {t}} /\ open' \subseteq Turns
    BY DEF ErrorArm, Rebilled, Keep, End, Goto, Inv, TypeOK
  <1>8. flushed' = flushed /\ dropped' = dropped /\ aborted' = aborted
    BY DEF ErrorArm
  <1> HIDE DEF r, m, b, p, k, e, g
  <1>5. /\ TypeOK' /\ Same(t) /\ turn'[t] = r
        /\ made'[t] = m /\ billed'[t] = b /\ pend'[t] = p
        /\ booked'[t] = k /\ ending'[t] = e /\ messages'[t] = g
    BY <1>2, <1>3, <1>4, <1>8 DEF Inv, TypeOK, Same
  <1>6. Books(t)'
    <2> USE DEF m, b, p, k, e, g
    <2>1. Ended(t)'
      BY <1>1, <1>2, <1>3, <1>5, <1>8 DEF Sized, Books, Counted, Booked, InFlight, Attaching,
         Leaving, Failing, Lost, Ended, Quiet, At, Over, Metered, Before
    <2>2. Bounded(t)'
      BY <1>1, <1>2, <1>5, <1>8 DEF Sized, Books, Counted, Booked, InFlight, Attaching, Leaving,
         Failing, Lost, Bounded, At, Metered, Before
    <2>3. Lost(t)' /\ Spoken(t)' /\ Quiet(t)'
      BY <1>1, <1>2, <1>5, <1>8 DEF Sized, Books, Lost, Spoken, Quiet, At, Metered, Before
    <2>4. QED
      BY <1>1, <1>2, <1>5, <1>8, <2>1, <2>2, <2>3
         DEF Sized, Books, Fresh, Counted, Booked, InFlight, Attaching, Leaving, Failing, At, Metered,
             Before
  <1>7. QED
    BY <1>5, <1>6

LEMMA SummaryReturnsStep ==
    ASSUME Inv, NEW t \in Turns, SummaryReturns(t)
    PROVE  TypeOK' /\ Books(t)' /\ Same(t)
  <1> DEFINE r == [turn[t] EXCEPT !.at = "meter"]
             m == made[t] + 1  b == billed[t]  p == pend[t]
             k == booked[t]  e == ending[t]  g == messages[t]
  <1>1. At(t) = "summary" /\ Sized(t) /\ Books(t)
    BY Values DEF SummaryReturns
  <1>2. r \in Turn /\ r.at = "meter" /\ r.iter = turn[t].iter /\ r.thread = turn[t].thread
          /\ r.said = turn[t].said
    BY <1>1 DEF Sized, Turn, Await, OnLoop
  <1>3. /\ m \in 0 .. MaxIters + 1 /\ b \in 0 .. MaxIters /\ p \in 0 .. 1
        /\ k \in 0 .. 2 * MaxIters + 1 /\ e \in Endings /\ g \in 0 .. 1
    BY <1>1, <1>2 DEF Sized, Endings, Books, Counted, Booked, InFlight, Attaching,
       Leaving, Failing, Lost, Ended, Bounded, Quiet, At, Metered, Before
  <1>4. /\ turn' = [turn EXCEPT ![t] = r] /\ made' = [made EXCEPT ![t] = m]
        /\ billed' = [billed EXCEPT ![t] = b] /\ pend' = [pend EXCEPT ![t] = p]
        /\ booked' = [booked EXCEPT ![t] = k] /\ ending' = [ending EXCEPT ![t] = e]
        /\ messages' = [messages EXCEPT ![t] = g]
        /\ row' \in {row, row \ {t}, row \cup {t}} /\ open' \subseteq Turns
    BY DEF SummaryReturns, Goto, Inv, TypeOK
  <1>8. flushed' = flushed /\ dropped' = dropped /\ aborted' = aborted
    BY DEF SummaryReturns
  <1> HIDE DEF r, m, b, p, k, e, g
  <1>5. /\ TypeOK' /\ Same(t) /\ turn'[t] = r
        /\ made'[t] = m /\ billed'[t] = b /\ pend'[t] = p
        /\ booked'[t] = k /\ ending'[t] = e /\ messages'[t] = g
    BY <1>2, <1>3, <1>4, <1>8 DEF Inv, TypeOK, Same
  <1>6. Books(t)'
    <2> USE DEF m, b, p, k, e, g
    <2>1. Ended(t)'
      BY <1>1, <1>2, <1>3, <1>5, <1>8 DEF Sized, Books, Counted, Booked, InFlight, Attaching,
         Leaving, Failing, Lost, Ended, At, Over, Metered, Before
    <2>2. Bounded(t)'
      BY <1>1, <1>2, <1>5, <1>8, SMTT(30) DEF Sized, Books, Counted, Booked, InFlight, Attaching, Leaving,
         Failing, Lost, Bounded, At, Metered, Before
    <2>3. QED
      BY <1>1, <1>2, <1>5, <1>8, <2>1, <2>2
         DEF Sized, Books, Fresh, Counted, Booked, InFlight, Attaching, Leaving,
             Failing, Lost, Quiet, Spoken, At, Metered, Before
  <1>7. QED
    BY <1>5, <1>6

LEMMA SummaryStoredStep ==
    ASSUME Inv, NEW t \in Turns, SummaryStored(t)
    PROVE  TypeOK' /\ Books(t)' /\ Same(t)
  <1> DEFINE r == [turn[t] EXCEPT !.at = "closed"]
             m == made[t]  b == billed[t]  p == pend[t]
             k == booked[t] + 1  e == ending[t]  g == messages[t]
  <1>1. At(t) = "store" /\ Sized(t) /\ Books(t)
    BY Values DEF SummaryStored
  <1>2. r \in Turn /\ r.at = "closed" /\ r.iter = turn[t].iter /\ r.thread = turn[t].thread
          /\ r.said = turn[t].said
    BY <1>1 DEF Sized, Turn, Await, OnLoop
  <1>3. /\ m \in 0 .. MaxIters + 1 /\ b \in 0 .. MaxIters /\ p \in 0 .. 1
        /\ k \in 0 .. 2 * MaxIters + 1 /\ e \in Endings /\ g \in 0 .. 1
    BY <1>1, <1>2, SMTT(30) DEF Sized, Endings, Books, Counted, Booked, InFlight, Attaching,
       Leaving, Failing, Lost, Ended, Bounded, Quiet, At, Metered, Before
  <1>4. /\ turn' = [turn EXCEPT ![t] = r] /\ made' = [made EXCEPT ![t] = m]
        /\ billed' = [billed EXCEPT ![t] = b] /\ pend' = [pend EXCEPT ![t] = p]
        /\ booked' = [booked EXCEPT ![t] = k] /\ ending' = [ending EXCEPT ![t] = e]
        /\ messages' = [messages EXCEPT ![t] = g]
        /\ row' \in {row, row \ {t}, row \cup {t}} /\ open' \subseteq Turns
    BY DEF SummaryStored, Goto, Inv, TypeOK
  <1>8. flushed' = flushed /\ dropped' = dropped /\ aborted' = aborted
    BY DEF SummaryStored
  <1> HIDE DEF r, m, b, p, k, e, g
  <1>5. /\ TypeOK' /\ Same(t) /\ turn'[t] = r
        /\ made'[t] = m /\ billed'[t] = b /\ pend'[t] = p
        /\ booked'[t] = k /\ ending'[t] = e /\ messages'[t] = g
    BY <1>2, <1>3, <1>4, <1>8 DEF Inv, TypeOK, Same
  <1>6. Books(t)'
    <2> USE DEF m, b, p, k, e, g
    <2>1. Ended(t)'
      BY <1>1, <1>2, <1>3, <1>5, <1>8 DEF Sized, Books, Counted, Booked, InFlight, Attaching,
         Leaving, Failing, Lost, Ended, At, Over, Metered, Before
    <2>2. Bounded(t)'
      <3>1. made[t] \in Nat /\ pend[t] \in Nat /\ booked[t] \in Nat
        BY <1>1 DEF Sized
      <3>2. /\ booked[t] + pend[t] <= 2 * made[t] - 2
            /\ ending[t] # "error" => booked[t] + pend[t] <= made[t] - 1
        BY <1>1 DEF Books, Bounded
      <3>3. QED
        BY <1>2, <1>5, <1>8, <3>1, <3>2 DEF Bounded, At
    <2>3. QED
      BY <1>1, <1>2, <1>5, <1>8, <2>1, <2>2
         DEF Sized, Books, Fresh, Counted, Booked, InFlight, Attaching, Leaving,
             Failing, Lost, Quiet, Spoken, At, Metered, Before
  <1>7. QED
    BY <1>5, <1>6

LEMMA CloseStep ==
    ASSUME Inv, NEW t \in Turns, Close(t)
    PROVE  TypeOK' /\ Books(t)' /\ Same(t)
  <1> DEFINE r == [turn[t] EXCEPT !.at = "closed"]
             m == made[t]  b == billed[t]  p == 0
             k == booked[t]  e == ending[t]  g == messages[t]
  <1>1. (At(t) \in {"over", "summary"} \/ (Blank /\ At(t) = "store")) /\ Sized(t) /\ Books(t)
    BY Values DEF Close
  <1>2. r \in Turn /\ r.at = "closed" /\ r.iter = turn[t].iter /\ r.thread = turn[t].thread
          /\ r.said = turn[t].said
    BY <1>1 DEF Sized, Turn, Await, OnLoop
  <1>3. /\ m \in 0 .. MaxIters + 1 /\ b \in 0 .. MaxIters /\ p \in 0 .. 1
        /\ k \in 0 .. 2 * MaxIters + 1 /\ e \in Endings /\ g \in 0 .. 1
    BY <1>1, <1>2 DEF Sized, Endings, Books, Counted, Booked, InFlight, Attaching,
       Leaving, Failing, Lost, Ended, Bounded, Quiet, At, Metered, Before
  <1>4. /\ turn' = [turn EXCEPT ![t] = r] /\ made' = [made EXCEPT ![t] = m]
        /\ billed' = [billed EXCEPT ![t] = b] /\ pend' = [pend EXCEPT ![t] = p]
        /\ booked' = [booked EXCEPT ![t] = k] /\ ending' = [ending EXCEPT ![t] = e]
        /\ messages' = [messages EXCEPT ![t] = g]
        /\ row' \in {row, row \ {t}, row \cup {t}} /\ open' \subseteq Turns
    BY DEF Close, GiveUp, Goto, Inv, TypeOK
  <1>8. flushed' = flushed \ {t} /\ dropped' = dropped \cup (flushed \cap {t}) /\ aborted' = aborted
    BY DEF Close, GiveUp
  <1> HIDE DEF r, m, b, p, k, e, g
  <1>5. /\ TypeOK' /\ Same(t) /\ turn'[t] = r
        /\ made'[t] = m /\ billed'[t] = b /\ pend'[t] = p
        /\ booked'[t] = k /\ ending'[t] = e /\ messages'[t] = g
    BY <1>2, <1>3, <1>4, <1>8 DEF Inv, TypeOK, Same
  <1>6. Books(t)'
    <2> USE DEF m, b, p, k, e, g
    <2>1. Ended(t)'
      BY <1>1, <1>2, <1>3, <1>5, <1>8 DEF Sized, Books, Counted, Booked, InFlight, Attaching,
         Leaving, Failing, Lost, Ended, At, Over, Metered, Before
    <2>2. Bounded(t)'
      <3>1. made[t] \in Nat /\ pend[t] \in Nat /\ booked[t] \in Nat
        BY <1>1 DEF Sized
      <3>2. /\ booked[t] <= 2 * made[t]
            /\ ending[t] # "error" => booked[t] <= made[t]
        BY <1>1, <3>1 DEF Books, Bounded
      <3>3. QED
        BY <1>2, <1>5, <1>8, <3>1, <3>2 DEF Bounded, At
    <2>3. QED
      BY <1>1, <1>2, <1>5, <1>8, <2>1, <2>2
         DEF Sized, Books, Fresh, Counted, Booked, InFlight, Attaching, Leaving,
             Failing, Lost, Quiet, Spoken, At, Metered, Before
  <1>7. QED
    BY <1>5, <1>6

LEMMA PrepareStep ==
    ASSUME Inv, NEW t \in Turns, Prepare(t)
    PROVE  TypeOK' /\ Books(t)' /\ Same(t)
  <1>1. PICK where \in {"ready", "closed"} :
            Goto(t, where) /\ (where = "ready" => UNCHANGED ending)
            /\ (where = "closed" => ending' = [ending EXCEPT ![t] = "refused"])
    BY DEF Prepare, Goto
  <1>2. UNCHANGED <<made, billed, pend, booked, flushed, dropped, aborted, row, open, messages>> /\ At(t) = "idle"
    BY DEF Prepare, ledger
  <1>3. turn' \in [Turns -> Turn] /\ turn'[t].at = where
        /\ turn'[t].todo = turn[t].todo /\ turn'[t].thread = turn[t].thread
        /\ turn'[t].iter = turn[t].iter /\ turn'[t].said = turn[t].said
        /\ \A u \in Turns \ {t} : turn'[u] = turn[u]
    BY <1>1, GotoType DEF Await
  <1>4. /\ ending' \in [Turns -> Endings] /\ \A u \in Turns \ {t} : ending'[u] = ending[u]
        /\ where = "ready" => ending'[t] = ending[t]
    BY <1>1 DEF Inv, TypeOK, Endings
  <1>5. TypeOK' /\ Same(t)
    BY <1>2, <1>3, <1>4 DEF Inv, TypeOK, Same
  <1>6. Sized(t) /\ Books(t)
    BY Values
  <1>7. Books(t)'
    BY <1>2, <1>3, <1>4, <1>6 DEF Sized, Books, Counted, Booked,
         InFlight, Attaching, Leaving, Failing, Lost, Ended, Bounded, Quiet, Spoken, Fresh, At, Over,
         Metered, Before
  <1>8. QED
    BY <1>5, <1>7

LEMMA DisconnectStep ==
    ASSUME Inv, NEW t \in Turns, Disconnect(t)
    PROVE  TypeOK' /\ Books(t)' /\ Same(t)
  <1>1. PICK where \in {"over", "drain", "cancel"} :
            /\ Goto(t, where)
            /\ where = "over" => At(t) = "ready" /\ ending' = [ending EXCEPT ![t] = "unstarted"]
            /\ where = "drain" => At(t) = "tool" /\ UNCHANGED ending
            /\ where = "cancel" => At(t) \in {"call", "tool"} /\ UNCHANGED ending
                                   /\ turn[t].thread \notin {"busy", "locking", "metering"}
    <2>1. CASE At(t) = "ready"
      BY <2>1 DEF Disconnect, End
    <2>2. CASE At(t) = "call"
      <3>1. turn[t].thread \notin {"busy", "locking", "metering"}
        BY <2>2, Values DEF Books, Quiet
      <3>2. QED
        BY <2>2, <3>1 DEF Disconnect
    <2>3. CASE At(t) = "tool" /\ ToolRunning(t)
      BY <2>3 DEF Disconnect
    <2>4. CASE At(t) = "tool" /\ ~ToolRunning(t)
      BY <2>4 DEF Disconnect, ToolRunning
    <2>5. QED
      BY <2>1, <2>2, <2>3, <2>4 DEF Disconnect
  <1>2. UNCHANGED <<made, billed, pend, booked, flushed, dropped, aborted, row, open, messages>>
    BY DEF Disconnect, ledger
  <1>3. turn' \in [Turns -> Turn] /\ turn'[t].at = where
        /\ turn'[t].todo = turn[t].todo /\ turn'[t].thread = turn[t].thread
        /\ turn'[t].iter = turn[t].iter /\ turn'[t].said = turn[t].said
        /\ \A u \in Turns \ {t} : turn'[u] = turn[u]
    BY <1>1, GotoType DEF Await, OnLoop
  <1>4. /\ ending' \in [Turns -> Endings] /\ \A u \in Turns \ {t} : ending'[u] = ending[u]
        /\ where # "over" => ending'[t] = ending[t]
        /\ where = "over" => ending'[t] = "unstarted"
    BY <1>1 DEF Inv, TypeOK, Endings
  <1>5. TypeOK' /\ Same(t)
    BY <1>2, <1>3, <1>4 DEF Inv, TypeOK, Same
  <1>6. Sized(t) /\ Books(t)
    BY Values
  <1>7. Books(t)'
    <2>1. CASE where = "over"
      BY <1>1, <1>2, <1>3, <1>4, <1>6, <2>1 DEF Sized, Books, Counted, Booked,
         InFlight, Attaching, Leaving, Failing, Lost, Ended, Bounded, Quiet, Spoken, Fresh, At, Over,
         Metered, Before
    <2>2. CASE where = "drain"
      BY <1>1, <1>2, <1>3, <1>4, <1>6, <2>2 DEF Sized, Books, Counted, Booked,
         InFlight, Attaching, Leaving, Failing, Lost, Ended, Bounded, Quiet, Spoken, Fresh, At, Over,
         Metered, Before
    <2>3. CASE where = "cancel"
      BY <1>1, <1>2, <1>3, <1>4, <1>6, <2>3 DEF Sized, Books, Counted, Booked,
         InFlight, Attaching, Leaving, Failing, Lost, Ended, Bounded, Quiet, Spoken, Fresh, At, Over,
         Metered, Before
    <2>4. QED
      BY <1>1, <2>1, <2>2, <2>3
  <1>8. QED
    BY <1>5, <1>7

LEMMA AbortStep ==
    ASSUME Inv, NEW t \in Turns, Abort(t)
    PROVE  TypeOK' /\ Books(t)' /\ Same(t)
  <1>1. At(t) = "top" /\ Goto(t, "over") /\ UNCHANGED <<made, billed, dropped, aborted, open>>
    BY DEF Abort, End
  <1>2. turn' \in [Turns -> Turn] /\ turn'[t].at = "over"
        /\ turn'[t].todo = turn[t].todo /\ turn'[t].thread = turn[t].thread
        /\ turn'[t].iter = turn[t].iter /\ turn'[t].said = turn[t].said
        /\ \A u \in Turns \ {t} : turn'[u] = turn[u]
    BY <1>1, GotoType DEF Await
  <1>3. Sized(t) /\ Books(t)
    BY Values
  <1>4. CASE turn[t].said /\ t \notin aborted
    <2> DEFINE k == booked[t] + pend[t]  g == messages[t] + 1
    <2>1. /\ booked' = [booked EXCEPT ![t] = k] /\ pend' = [pend EXCEPT ![t] = 0]
          /\ messages' = [messages EXCEPT ![t] = g] /\ row' = row \ {t}
          /\ flushed' = flushed \ {t} /\ ending' = [ending EXCEPT ![t] = "partial"]
      BY <1>4 DEF Abort, HasText, Commit, Keep, End
    <2>2. k \in 0 .. 2 * MaxIters + 1 /\ g \in 0 .. 1 /\ k = made[t] /\ made[t] = turn[t].iter
      BY <1>1, <1>3, <1>4 DEF Sized, Books, Counted, Booked, Quiet, Metered, Before
    <2> HIDE DEF k, g
    <2>3. TypeOK' /\ Same(t) /\ booked'[t] = k /\ pend'[t] = 0 /\ ending'[t] = "partial"
      BY <1>1, <1>2, <2>1, <2>2 DEF Inv, TypeOK, Same, Endings
    <2>4. Books(t)'
      BY <1>1, <1>2, <1>3, <1>4, <2>1, <2>2, <2>3 DEF Sized, Books, Counted, Booked,
         InFlight, Attaching, Leaving, Failing, Lost, Ended, Bounded, Quiet, Spoken, Fresh, At, Over,
         Metered, Before
    <2>5. QED
      BY <2>3, <2>4
  <1>5. CASE ~(turn[t].said /\ t \notin aborted)
    <2>1. /\ UNCHANGED <<pend, booked, flushed, row, messages>>
          /\ \E how \in {"partial", "cut"} : ending' = [ending EXCEPT ![t] = how]
      BY <1>5 DEF Abort, HasText, End, Unsaved
    <2>2. t \notin aborted => /\ booked[t] + pend[t] = made[t] /\ made[t] = turn[t].iter
                              /\ ~Silent => pend[t] = 0 /\ t \notin flushed
      <3> SUFFICES ASSUME t \notin aborted
                   PROVE  /\ booked[t] + pend[t] = made[t] /\ made[t] = turn[t].iter
                          /\ ~Silent => pend[t] = 0 /\ t \notin flushed
        OBVIOUS
      <3>1. booked[t] + pend[t] = made[t] /\ made[t] = turn[t].iter
        BY <1>1, <1>3 DEF Sized, Books, Counted, Booked, Metered, Before
      <3>2. ~Silent => turn[t].iter = 0 /\ t \notin flushed
        BY <1>1, <1>3, <1>5 DEF Sized, Books, Spoken
      <3>3. QED
        BY <1>3, <3>1, <3>2 DEF Sized
    <2>3. TypeOK' /\ Same(t) /\ ending'[t] \in {"partial", "cut"}
      BY <1>1, <1>2, <2>1 DEF Inv, TypeOK, Same, Endings
    <2>4. Books(t)'
      BY <1>1, <1>2, <1>3, <2>1, <2>2, <2>3 DEF Sized, Books, Counted, Booked,
         InFlight, Attaching, Leaving, Failing, Lost, Ended, Bounded, Quiet, Spoken, Fresh, At, Over,
         Metered, Before
    <2>5. QED
      BY <2>3, <2>4
  <1>6. QED
    BY <1>4, <1>5

(* The tool's thread locks a row, commits, meters its embedding or is        *)
(* aborted.                                                                 *)
LEMMA LockingToolStep ==
    ASSUME Inv, Told, NEW t \in Turns,
           ToolCommits(t) \/ ToolKeepsRow(t) \/ ToolMeters(t) \/ ToolAborted(t)
    PROVE  TypeOK' /\ Books(t)' /\ Same(t)
  <1>1. PICK how \in {"ok", "failed"} : turn' = [turn EXCEPT ![t].thread = how]
    BY DEF ToolCommits, ToolKeepsRow, ToolMeters, ToolAborted, Returns
  <1>2. /\ turn' \in [Turns -> Turn] /\ turn'[t].at = turn[t].at
        /\ turn'[t].thread = how /\ turn'[t].iter = turn[t].iter
        /\ turn'[t].todo = turn[t].todo /\ turn'[t].said = turn[t].said
        /\ \A u \in Turns \ {t} : turn'[u] = turn[u]
    BY <1>1, ZenonT(40) DEF Inv, TypeOK, Turn
  <1>3. Sized(t) /\ Books(t)
    BY Values
  <1>4. /\ At(t) \in {"tool", "drain"} /\ turn[t].todo # <<>>
        /\ UNCHANGED <<made, billed, ending, messages>>
    BY <1>3 DEF ToolCommits, ToolKeepsRow, ToolMeters, ToolAborted, ToolRunning, Books, Quiet, ledger
  <1>5. booked[t] + pend[t] \in 0 .. 2 * MaxIters + 1 /\ made[t] = turn[t].iter
    BY <1>3, <1>4 DEF Sized, Books, Bounded, Counted, Before, Metered, Quiet
  <1>6. CASE ToolCommits(t)
    <2> DEFINE k == booked[t] + pend[t]
    <2>1. /\ booked' = [booked EXCEPT ![t] = k] /\ pend' = [pend EXCEPT ![t] = 0]
          /\ row' = row \ {t} /\ flushed' = flushed \ {t} /\ UNCHANGED <<dropped, aborted>>
          /\ open' \in {open, open \cup {t}}
      BY <1>6 DEF ToolCommits, Commit
    <2> HIDE DEF k
    <2>2. TypeOK' /\ Same(t) /\ booked'[t] = k /\ pend'[t] = 0
      BY <1>2, <1>4, <1>5, <2>1 DEF Inv, TypeOK, Same, k
    <2>3. t \notin aborted
      BY <1>6 DEF Told, Asking, ToolCommits
    <2>4. Books(t)'
      BY <1>2, <1>3, <1>4, <1>5, <2>1, <2>2, <2>3 DEF Sized, Books, Counted, Booked,
         InFlight, Attaching, Leaving, Failing, Lost, Ended, Bounded, Quiet, Spoken, Fresh, At, Over,
         Metered, Before, k
    <2>5. QED
      BY <2>2, <2>4
  <1>7. CASE ToolKeepsRow(t)
    <2>1. UNCHANGED <<pend, booked, flushed, dropped, aborted, open>> /\ row' = row \cup {t}
      BY <1>7 DEF ToolKeepsRow, ledger
    <2>2. TypeOK' /\ Same(t)
      BY <1>2, <1>4, <2>1 DEF Inv, TypeOK, Same
    <2>3. Books(t)'
      BY <1>2, <1>3, <1>4, <2>1 DEF Sized, Books, Counted, Booked,
         InFlight, Attaching, Leaving, Failing, Lost, Ended, Bounded, Quiet, Spoken, Fresh, At, Over,
         Metered, Before
    <2>4. QED
      BY <2>2, <2>3
  <1>8. CASE ToolMeters(t)
    <2>1. UNCHANGED <<pend, booked, dropped, aborted, row, open>> /\ flushed' = flushed \cup {t}
      BY <1>8 DEF ToolMeters
    <2>2. TypeOK' /\ Same(t)
      BY <1>2, <1>4, <2>1 DEF Inv, TypeOK, Same
    <2>3. Books(t)'
      BY <1>2, <1>3, <1>4, <2>1 DEF Sized, Books, Counted, Booked,
         InFlight, Attaching, Leaving, Failing, Lost, Ended, Bounded, Quiet, Spoken, Fresh, At, Over,
         Metered, Before
    <2>4. QED
      BY <2>2, <2>3
  <1>9. CASE ToolAborted(t)
    <2>1. /\ pend' = [pend EXCEPT ![t] = 0] /\ row' = row \ {t} /\ flushed' = flushed \ {t}
          /\ dropped' \in {dropped, dropped \cup {t}} /\ aborted' = aborted \cup {t}
          /\ UNCHANGED <<booked, open>>
      BY <1>9 DEF ToolAborted, GiveUp
    <2>2. TypeOK' /\ Same(t) /\ pend'[t] = 0
      BY <1>2, <1>4, <2>1 DEF Inv, TypeOK, Same
    <2>3. made[t] <= booked[t] + 1
      BY <1>3, <1>4 DEF Sized, Books, Booked, Lost, Metered
    <2>4. Books(t)'
      BY <1>2, <1>3, <1>4, <1>5, <2>1, <2>2, <2>3 DEF Sized, Books, Counted, Booked,
         InFlight, Attaching, Leaving, Failing, Lost, Ended, Bounded, Quiet, Spoken, Fresh, At, Over,
         Metered, Before
    <2>5. QED
      BY <2>2, <2>4
  <1>10. QED
    BY <1>6, <1>7, <1>8, <1>9

(* The database aborts the summary's transaction.                           *)
LEMMA SummaryAbortedStep ==
    ASSUME Inv, NEW t \in Turns, SummaryAborted(t)
    PROVE  TypeOK' /\ Books(t)' /\ Same(t)
  <1>1. /\ At(t) = "store" /\ Goto(t, "closed") /\ row' = row \ {t} /\ aborted' = aborted \cup {t}
        /\ UNCHANGED <<made, billed, pend, booked, flushed, dropped, open, ending, messages>>
    BY DEF SummaryAborted
  <1>2. turn' \in [Turns -> Turn] /\ turn'[t].at = "closed"
        /\ turn'[t].todo = turn[t].todo /\ turn'[t].thread = turn[t].thread
        /\ turn'[t].iter = turn[t].iter /\ turn'[t].said = turn[t].said
        /\ \A u \in Turns \ {t} : turn'[u] = turn[u]
    BY <1>1, GotoType DEF Await
  <1>3. Sized(t) /\ Books(t)
    BY Values
  <1>4. TypeOK' /\ Same(t)
    BY <1>1, <1>2 DEF Inv, TypeOK, Same
  <1>5. Books(t)'
    BY <1>1, <1>2, <1>3 DEF Sized, Books, Counted, Booked,
         InFlight, Attaching, Leaving, Failing, Lost, Ended, Bounded, Quiet, Spoken, Fresh, At, Over,
         Metered, Before
  <1>6. QED
    BY <1>4, <1>5

LEMMA InitInv == Init => Inv
  <1> SUFFICES ASSUME Init PROVE Inv
    OBVIOUS
  <1>1. TypeOK
    <2>1. Unborn \in Turn
      BY SizesOK, EmptySeq DEF Unborn, Turn, Await
    <2>2. QED
      BY <2>1, SizesOK DEF Init, TypeOK, Endings
  <1>2. ASSUME NEW t \in Turns PROVE Books(t)
    BY <1>1, <1>2 DEF Init, Unborn, Books, Counted, Booked, InFlight, Attaching, Leaving,
             Failing, Lost, Ended, Bounded, Quiet, Spoken, Fresh, At, Over, Metered, Before
  <1>3. QED
    BY <1>1, <1>2 DEF Inv

(* What a step of t leaves: types, the accounts of t, and the other turns.   *)
LEMMA StepKeeps ==
    ASSUME Inv, Told, NEW t \in Turns, Prepare(t) \/ Speak(t) \/ Disconnect(t) \/ Step(t)
    PROVE  TypeOK' /\ Books(t)' /\ Same(t)
  BY PrepareStep, MoveStep, DisconnectStep, AbortStep, LockingToolStep, CallStep,
     BillStep, FinalStep, FinishStep, AttachStep, CancelArmStep, RollbackStep, ErrorArmStep,
     SummaryReturnsStep, SummaryStoredStep, SummaryAbortedStep, CloseStep
     DEF Step, Stream, Tool, Loop, Arms, Summary

LEMMA InvStep == Inv /\ Told /\ [Next]_vars => Inv'
  <1> SUFFICES ASSUME Inv, Told, [Next]_vars PROVE Inv'
    OBVIOUS
  <1>1. ASSUME NEW t \in Turns, Settle(t) PROVE Inv'
    <2>1. TypeOK'
      BY <1>1 DEF Settle, Inv, TypeOK, ledger
    <2>2. ASSUME NEW u \in Turns PROVE Books(u)'
      BY <1>1, <2>2 DEF Settle, Inv, ledger, Books, Counted, Booked, InFlight, Attaching, Leaving,
             Failing, Lost, Ended, Bounded, Quiet, Spoken, Fresh, At, Over, Metered, Before
    <2>3. QED
      BY <2>1, <2>2 DEF Inv
  <1>3. ASSUME NEW t \in Turns, Prepare(t) \/ Speak(t) \/ Disconnect(t) \/ Step(t)
        PROVE  Inv'
    <2>1. TypeOK' /\ Books(t)' /\ Same(t)
      BY <1>3, StepKeeps
    <2>2. \A u \in Turns \ {t} : Books(u)'
      BY <2>1, UntouchedBooks
    <2>3. QED
      BY <2>1, <2>2 DEF Inv
  <1>4. CASE UNCHANGED vars
    BY <1>4 DEF vars, ledger, Inv, TypeOK, Books, Counted, Booked, InFlight, Attaching, Leaving,
             Failing, Lost, Ended, Bounded, Quiet, Spoken, Fresh, At, Over, Metered, Before
  <1>5. QED
    BY <1>1, <1>3, <1>4 DEF Next

-----------------------------------------------------------------------------
LEMMA InitTold == Init => Told
  <1> SUFFICES ASSUME Init, NEW t \in Turns PROVE Script(t) /\ Asking(t)
    BY DEF Told
  <1>1. turn[t] = Unborn /\ messages[t] = 0
    BY DEF Init
  <1>2. QED
    BY <1>1 DEF Script, Asking, AskLast, Unborn, At, Over

LEMMA OthersTold ==
    ASSUME Told, NEW t \in Turns, Same(t), NEW u \in Turns \ {t}
    PROVE  Script(u)' /\ Asking(u)'
  BY DEF Told, Same, Script, Asking, AskLast, At, Over

LEMMA GotoKeeps ==
    ASSUME Inv, NEW t \in Turns, NEW where, Goto(t, where)
    PROVE  /\ turn'[t].at = where /\ turn'[t].todo = turn[t].todo
           /\ turn'[t].asked = turn[t].asked /\ turn'[t].said = turn[t].said
           /\ turn'[t].thread = turn[t].thread
  BY DEF Inv, TypeOK, Turn, Goto

LEMMA EndSays ==
    ASSUME Inv, NEW t \in Turns, NEW how, End(t, how)
    PROVE  ending'[t] = how /\ Goto(t, "over")
  BY DEF Inv, TypeOK, End

LEMMA KeepStores ==
    ASSUME Inv, NEW t \in Turns, Keep(t)
    PROVE  messages'[t] = messages[t] + 1
  BY DEF Inv, TypeOK, Keep

(* The coroutine moves, and neither stores a message nor ends its turn.     *)
LEMMA MoveTold ==
    ASSUME Inv, Told, NEW t \in Turns,
           Begin(t) \/ StreamFails(t) \/ CheckFails(t) \/ Bill(t) \/ ToolsDone(t) \/ Drained(t)
           \/ Rollback(t) \/ SummaryCall(t) \/ SummaryReturns(t) \/ SummaryMeters(t)
           \/ SummaryStored(t) \/ SummaryAborted(t) \/ Close(t)
    PROVE  Script(t)' /\ Asking(t)'
  <1>0. Script(t) /\ Asking(t) /\ Quiet(t)
    BY DEF Told, Inv, Books
  <1>1. UNCHANGED <<ending, messages>>
    BY DEF Begin, StreamFails, CheckFails, Bill, ToolsDone, Drained, Rollback, SummaryCall,
           SummaryReturns, SummaryMeters, SummaryStored, SummaryAborted, Close
  <1>2. PICK where \in Await \cup OnLoop :
            /\ Goto(t, where)
            /\ \/ /\ Over(t) /\ where \in {"summary", "meter", "store", "closed"}
                  /\ t \in aborted => t \in aborted'
               \/ /\ ~Over(t) /\ At(t) # "attach" /\ (t \in aborted' => t \in aborted)
                  /\ where \in {"top", "error", "final", "tools", "finish", "cancel", "rebill"}
                  /\ turn[t].asked <=> where = "finish"
                  /\ turn[t].thread = "ok" => where = "cancel"
    <2>1. CASE SummaryCall(t) \/ SummaryReturns(t) \/ SummaryMeters(t) \/ SummaryStored(t)
               \/ SummaryAborted(t) \/ Close(t)
      BY <2>1 DEF SummaryCall, SummaryReturns, SummaryMeters, SummaryStored, SummaryAborted, Close,
                  Over, Await, OnLoop, ledger
    <2>2. CASE Begin(t) \/ StreamFails(t) \/ CheckFails(t) \/ Drained(t) \/ Rollback(t)
      BY <1>0, <2>2 DEF Begin, StreamFails, CheckFails, Drained, Rollback, Asking, Over, Await, OnLoop,
                        ledger
    <2>3. CASE Bill(t)
      <3>1. /\ ~Over(t) /\ At(t) # "attach" /\ aborted' = aborted
            /\ ~turn[t].asked /\ turn[t].thread # "ok"
        BY <1>0, <2>3 DEF Bill, Asking, Over
      <3>2. Goto(t, "final") \/ Goto(t, "tools")
        BY <2>3 DEF Bill, Goto
      <3>3. QED
        BY <3>1, <3>2 DEF Await, OnLoop
    <2>4. CASE ToolsDone(t)
      BY <1>0, <2>4 DEF ToolsDone, Asking, Over, Await, OnLoop, ledger
    <2>5. QED
      BY <2>1, <2>2, <2>3, <2>4
  <1>3. /\ turn'[t].at = where /\ turn'[t].todo = turn[t].todo /\ turn'[t].thread = turn[t].thread
        /\ turn'[t].asked = turn[t].asked /\ turn'[t].said = turn[t].said
    BY <1>2, GotoKeeps
  <1>4. CASE Over(t)
    <2>1. where \in {"summary", "meter", "store", "closed"} /\ (t \in aborted => t \in aborted')
      BY <1>2, <1>4
    <2>2. turn[t].thread \notin {"locking", "metering"}
      BY <1>0, <1>4 DEF Quiet, Over
    <2>3. QED
      BY <1>0, <1>1, <1>3, <1>4, <2>1, <2>2 DEF Script, Asking, AskLast, At, Over
  <1>5. CASE ~Over(t)
    <2>1. /\ At(t) # "attach" /\ (t \in aborted' => t \in aborted)
          /\ where \in {"top", "error", "final", "tools", "finish", "cancel", "rebill"}
          /\ turn[t].asked <=> where = "finish"
          /\ turn[t].thread = "ok" => where = "cancel"
      BY <1>2, <1>5
    <2>2. QED
      BY <1>0, <1>1, <1>3, <1>5, <2>1 DEF Script, Asking, AskLast, At, Over
  <1>6. QED
    BY <1>4, <1>5

LEMMA EndTold ==
    ASSUME Inv, Told, NEW t \in Turns,
           Prepare(t) \/ Disconnect(t) \/ Abort(t) \/ Final(t) \/ Finish(t) \/ Attach(t)
           \/ CancelArm(t) \/ ErrorArm(t)
    PROVE  Script(t)' /\ Asking(t)'
  <1>0. Script(t) /\ Asking(t) /\ Books(t)
    BY DEF Told, Inv
  <1>7. aborted' = aborted
    BY DEF Prepare, Disconnect, Abort, Final, Finish, Attach, CancelArm, ErrorArm, ledger
  <1>1. CASE Prepare(t)
    <2>1. /\ At(t) = "idle" /\ messages' = messages
          /\ \/ Goto(t, "ready")
             \/ Goto(t, "closed") /\ ending' = [ending EXCEPT ![t] = "refused"]
      BY <1>1 DEF Prepare, Goto
    <2>2. ~turn[t].said /\ messages[t] = 0 /\ ~turn[t].asked /\ turn[t].thread # "ok"
      BY <1>0, <2>1 DEF Script, Asking, Over, Books, Quiet, Before
    <2>3. CASE Goto(t, "ready")
      <3>1. /\ turn'[t].at = "ready" /\ turn'[t].todo = turn[t].todo
            /\ turn'[t].asked = turn[t].asked /\ turn'[t].said = turn[t].said
            /\ turn'[t].thread = turn[t].thread
        BY <2>3, GotoKeeps
      <3>2. QED
        BY <1>0, <1>7, <2>1, <2>2, <3>1 DEF Script, Asking, AskLast, At, Over
    <2>4. CASE Goto(t, "closed") /\ ending' = [ending EXCEPT ![t] = "refused"]
      <3>1. /\ turn'[t].at = "closed" /\ turn'[t].todo = turn[t].todo
            /\ turn'[t].asked = turn[t].asked /\ turn'[t].said = turn[t].said
            /\ turn'[t].thread = turn[t].thread
        BY <2>4, GotoKeeps
      <3>2. ending'[t] = "refused"
        BY <2>4 DEF Inv, TypeOK
      <3>3. QED
        BY <1>0, <1>7, <2>1, <2>2, <3>1, <3>2 DEF Script, Asking, AskLast, At, Over
    <2>5. QED
      BY <2>1, <2>3, <2>4
  <1>2. CASE Disconnect(t)
    <2>1. /\ messages' = messages /\ ~Over(t)
          /\ \/ At(t) = "ready" /\ End(t, "unstarted")
             \/ /\ At(t) \in {"call", "tool"} /\ ending' = ending
                /\ Goto(t, "drain") \/ Goto(t, "cancel")
      BY <1>2 DEF Disconnect, Over
    <2>2. CASE At(t) = "ready" /\ End(t, "unstarted")
      <3>1. ~turn[t].said /\ messages[t] = 0 /\ ~turn[t].asked /\ turn[t].thread # "ok"
        BY <1>0, <2>2 DEF Script, Asking, Over, Books, Quiet, Before
      <3>2. ending'[t] = "unstarted" /\ Goto(t, "over")
        BY <2>2, EndSays
      <3>3. /\ turn'[t].at = "over" /\ turn'[t].todo = turn[t].todo
            /\ turn'[t].asked = turn[t].asked /\ turn'[t].said = turn[t].said
            /\ turn'[t].thread = turn[t].thread
        BY <3>2, GotoKeeps
      <3>4. QED
        BY <1>0, <1>7, <2>1, <3>1, <3>2, <3>3 DEF Script, Asking, AskLast, At, Over
    <2>3. CASE /\ At(t) \in {"call", "tool"} /\ ending' = ending
               /\ Goto(t, "drain") \/ Goto(t, "cancel")
      <3>1. PICK where \in {"drain", "cancel"} : Goto(t, where)
        BY <2>3
      <3>2. ~turn[t].asked
        BY <1>0, <2>3 DEF Asking, Over
      <3>3. /\ turn'[t].at = where /\ turn'[t].todo = turn[t].todo
            /\ turn'[t].asked = turn[t].asked /\ turn'[t].said = turn[t].said
            /\ turn'[t].thread = turn[t].thread
        BY <3>1, GotoKeeps
      <3>4. QED
        BY <1>0, <1>7, <2>1, <2>3, <3>2, <3>3 DEF Script, Asking, AskLast, At, Over
    <2>4. QED
      BY <2>1, <2>2, <2>3
  <1>3. CASE Abort(t) \/ Final(t) \/ CancelArm(t) \/ ErrorArm(t)
    <2>1. /\ At(t) \in {"top", "final", "cancel", "rebill"}
          /\ \/ Keep(t) /\ \E how \in {"complete", "cancelled", "error"} : End(t, how)
             \/ Keep(t) /\ End(t, "partial") /\ turn[t].said
             \/ messages' = messages /\ End(t, "cut") /\ ~turn[t].said
             \/ t \in aborted /\ \E how \in {"partial", "cancelled"} : End(t, how)
      BY <1>3 DEF Abort, HasText, Final, CancelArm, ErrorArm, Unsaved
    <2>2. messages[t] = 0 /\ ~turn[t].asked
      BY <1>0, <2>1 DEF Asking, Over, Books, Quiet, Before, Metered
    <2>3. PICK how :
               /\ End(t, how)
               /\ \/ t \in aborted
                  \/ /\ how \in {"complete", "cancelled", "error"} => Keep(t)
                     /\ how = "partial" => Keep(t) /\ turn[t].said
                     /\ how = "cut" => messages' = messages /\ ~turn[t].said
                     /\ how \in {"complete", "cancelled", "error", "partial", "cut"}
      BY <2>1
    <2>4. ending'[t] = how /\ Goto(t, "over")
      BY <2>3, EndSays
    <2>5. /\ turn'[t].at = "over" /\ turn'[t].todo = turn[t].todo
          /\ turn'[t].asked = turn[t].asked /\ turn'[t].said = turn[t].said
          /\ turn'[t].thread = turn[t].thread
      BY <2>4, GotoKeeps
    <2>6. Keep(t) => messages'[t] = 1
      BY <2>2, KeepStores
    <2>7. Script(t)'
      BY <1>7, <2>2, <2>3, <2>4, <2>5, <2>6 DEF Script, At, Over
    <2>8. Asking(t)'
      BY <1>0, <1>7, <2>1, <2>2, <2>5 DEF Asking, AskLast, At, Over
    <2>9. QED
      BY <2>7, <2>8
  <1>4. CASE Finish(t)
    <2>1. At(t) = "finish" /\ Keep(t) /\ Goto(t, "attach")
      BY <1>4 DEF Finish
    <2>2. messages'[t] = 1
      BY <1>0, <2>1, KeepStores DEF Books, Quiet, Before, Metered
    <2>3. /\ turn'[t].at = "attach" /\ turn'[t].todo = turn[t].todo
          /\ turn'[t].asked = turn[t].asked /\ turn'[t].said = turn[t].said
            /\ turn'[t].thread = turn[t].thread
      BY <2>1, GotoKeeps
    <2>4. QED
      BY <1>0, <1>7, <2>1, <2>2, <2>3 DEF Script, Asking, AskLast, At, Over
  <1>5. CASE Attach(t)
    <2>1. At(t) = "attach" /\ messages' = messages /\ End(t, "complete")
      BY <1>5 DEF Attach
    <2>2. ending'[t] = "complete" /\ Goto(t, "over")
      BY <2>1, EndSays
    <2>3. /\ turn'[t].at = "over" /\ turn'[t].todo = turn[t].todo
          /\ turn'[t].asked = turn[t].asked /\ turn'[t].said = turn[t].said
            /\ turn'[t].thread = turn[t].thread
      BY <2>2, GotoKeeps
    <2>4. QED
      BY <1>0, <1>7, <2>1, <2>2, <2>3 DEF Script, Asking, AskLast, At, Over
  <1>6. QED
    BY <1>1, <1>2, <1>3, <1>4, <1>5

LEMMA TailAsksLast ==
    ASSUME NEW todo \in Seq(Tools), todo # <<>>, AskLast(todo)
    PROVE  AskLast(Tail(todo)) /\ (Head(todo) = "ask" => Tail(todo) = <<>>)
  <1>1. PICK rest \in Seq(Tools) :
            /\ rest = Tail(todo) /\ Len(rest) = Len(todo) - 1
            /\ \A i \in 1 .. Len(rest) : rest[i] = todo[i + 1]
    BY HeadTailProperties
  <1>2. Len(todo) \in Nat /\ Len(todo) >= 1 /\ Len(rest) \in Nat /\ Head(todo) = todo[1]
    OBVIOUS
  <1>3. ASSUME NEW i \in 1 .. Len(rest), rest[i] = "ask"
        PROVE  i = Len(rest)
    <2>1. i + 1 \in 1 .. Len(todo) /\ todo[i + 1] = "ask"
      BY <1>1, <1>2, <1>3
    <2>2. i + 1 = Len(todo)
      BY <2>1 DEF AskLast
    <2>3. Len(rest) = Len(todo) - 1
      BY <1>1
    <2>4. QED
      BY <1>2, <2>2, <2>3
  <1>4. ASSUME Head(todo) = "ask" PROVE rest = <<>>
    <2>1. 1 \in 1 .. Len(todo) /\ todo[1] = "ask"
      BY <1>2, <1>4
    <2>2. Len(todo) = 1
      BY <2>1 DEF AskLast
    <2>3. Len(rest) = 0
      BY <1>1, <1>2, <2>2
    <2>4. QED
      BY <2>3, EmptySeq
  <1>5. QED
    BY <1>1, <1>3, <1>4 DEF AskLast

(* The model answers, and the calls of its answer are dispatched.           *)
LEMMA ToolTold ==
    ASSUME Inv, Told, NEW t \in Turns,
           Call(t) \/ Speak(t) \/ StreamEnds(t) \/ Garbled(t) \/ Dispatch(t) \/ Tool(t) \/ Resume(t)
    PROVE  Script(t)' /\ Asking(t)'
  <1>0. Script(t) /\ Asking(t) /\ Books(t) /\ Sized(t)
    BY Values DEF Told
  <1>1. UNCHANGED <<ending, messages>>
    BY DEF Call, Speak, StreamEnds, Garbled, Dispatch, Tool, ToolCommits, ToolKeepsRow, ToolMeters,
           ToolAborted, ToolReturns, Resume
  <1>8. ToolAborted(t) \/ aborted' = aborted
    BY DEF Call, Speak, StreamEnds, Garbled, Dispatch, Tool, ToolCommits, ToolKeepsRow, ToolMeters,
           ToolReturns, Resume, ledger
  <1>2. CASE Call(t) \/ Speak(t) \/ Dispatch(t)
    <2>1. ~turn[t].asked /\ ~Over(t) /\ At(t) \notin {"attach", "tool", "drain", "cancel"}
          /\ turn[t].thread # "ok" /\ aborted' = aborted
      BY <1>0, <1>2 DEF Call, Speak, Dispatch, Asking, Over, ledger
    <2>2. /\ turn'[t].at \in {"call", "tool"} /\ turn'[t].todo = turn[t].todo
          /\ turn'[t].asked = turn[t].asked
      BY <1>2 DEF Call, Speak, Dispatch, Inv, TypeOK, Turn, At
    <2>3. \/ turn'[t].thread = turn[t].thread
          \/ turn'[t].thread \in {"busy", "locking", "metering"}
             /\ (turn'[t].thread \in {"locking", "metering"} => t \notin aborted)
      <3>1. CASE Call(t) \/ Speak(t)
        BY <3>1 DEF Call, Speak, Inv, TypeOK, Turn
      <3>2. CASE Dispatch(t)
        BY <3>2 DEF Dispatch, Inv, TypeOK, Turn
      <3>3. QED
        BY <1>2, <3>1, <3>2
    <2>4. QED
      BY <1>0, <2>1, <2>2, <2>3 DEF Script, Asking, AskLast, At, Over
  <1>3. CASE StreamEnds(t)
    <2>1. PICK plan \in Plans : turn' = [turn EXCEPT ![t].at = "bill", ![t].todo = Ordered(plan)]
      BY <1>3 DEF StreamEnds
    <2>2. ~turn[t].asked /\ turn[t].thread # "ok" /\ aborted' = aborted
      BY <1>0, <1>3 DEF StreamEnds, Asking, Over, ledger
    <2>3. /\ turn'[t].at = "bill" /\ turn'[t].todo = Ordered(plan)
          /\ turn'[t].asked = turn[t].asked /\ turn'[t].thread = turn[t].thread
      BY <2>1 DEF Inv, TypeOK, Turn
    <2>4. AskLast(Ordered(plan))
      BY OrderedCalls
    <2>5. QED
      BY <1>0, <2>2, <2>3, <2>4 DEF Script, Asking, AskLast, At, Over
  <1>4. CASE Garbled(t)
    <2>1. ~turn[t].asked /\ turn[t].todo # <<>> /\ At(t) = "tools" /\ turn[t].thread # "ok"
          /\ aborted' = aborted
      BY <1>0, <1>4 DEF Garbled, Asking, Over, ledger
    <2>2. turn'[t].at = "tools" /\ turn'[t].todo = Tail(turn[t].todo)
          /\ turn'[t].asked = turn[t].asked /\ turn'[t].thread = turn[t].thread
      BY <1>4, <2>1 DEF Garbled, Inv, TypeOK, Turn, At
    <2>3. AskLast(Tail(turn[t].todo))
      BY <1>0, <2>1, TailAsksLast DEF Asking, Sized
    <2>4. QED
      BY <1>0, <2>1, <2>2, <2>3 DEF Script, Asking, AskLast, At, Over
  <1>5. CASE Tool(t)
    <2>1. PICK how \in {"ok", "failed", "crashed"} :
               /\ turn' = [turn EXCEPT ![t].thread = how]
               /\ how = "ok" => ~ToolAborted(t) /\ t \notin aborted
      <3>1. CASE ToolCommits(t) \/ ToolKeepsRow(t) \/ ToolMeters(t)
        <4>1. turn[t].thread \in {"locking", "metering"} /\ t \notin aborted
          BY <1>0, <3>1 DEF ToolCommits, ToolKeepsRow, ToolMeters, Asking
        <4>2. PICK how \in {"ok", "failed"} : turn' = [turn EXCEPT ![t].thread = how]
          BY <3>1 DEF ToolCommits, ToolKeepsRow, ToolMeters, Returns
        <4>3. t \notin aborted'
          BY <3>1, <4>1 DEF ToolCommits, ToolKeepsRow, ToolMeters, ledger
        <4>4. ~ToolAborted(t)
          BY <4>3 DEF ToolAborted
        <4>5. QED
          BY <4>1, <4>2, <4>4
      <3>2. CASE ToolAborted(t)
        BY <3>2 DEF ToolAborted, Returns
      <3>3. CASE ToolReturns(t)
        <4>1. CASE Returns(t, "ok") /\ t \notin aborted
          <5>1. ~ToolAborted(t)
            BY <3>3, <4>1 DEF ToolReturns, ToolAborted, ledger
          <5>2. QED
            BY <4>1, <5>1 DEF Returns
        <4>2. CASE Returns(t, "failed") \/ Returns(t, "crashed")
          BY <4>2 DEF Returns
        <4>3. QED
          BY <3>3, <4>1, <4>2 DEF ToolReturns
      <3>4. QED
        BY <1>5, <3>1, <3>2, <3>3 DEF Tool
    <2>2. /\ turn'[t].at = turn[t].at /\ turn'[t].todo = turn[t].todo /\ turn'[t].thread = how
          /\ turn'[t].asked = turn[t].asked /\ turn'[t].said = turn[t].said
      BY <2>1 DEF Inv, TypeOK, Turn
    <2>3. At(t) \in {"tool", "drain"} /\ ~Over(t) /\ turn[t].todo # <<>> /\ ~turn[t].asked
      <3>1. turn[t].thread \in {"busy", "locking", "metering"}
        BY <1>5 DEF Tool, ToolCommits, ToolKeepsRow, ToolMeters, ToolAborted, ToolReturns, ToolRunning
      <3>2. QED
        BY <1>0, <3>1 DEF Books, Quiet, Asking, Over
    <2>4. how = "ok" => t \notin aborted'
      BY <1>8, <2>1
    <2>5. QED
      BY <1>0, <1>1, <2>1, <2>2, <2>3, <2>4 DEF Script, Asking, AskLast, At, Over
  <1>6. CASE Resume(t)
    <2>1. ~turn[t].asked /\ turn[t].todo # <<>> /\ At(t) = "tool" /\ aborted' = aborted
          /\ (turn[t].thread = "ok" => t \notin aborted)
      BY <1>0, <1>6 DEF Resume, Asking, Over, Books, Quiet, ledger
    <2>2. /\ turn'[t].at = (IF turn[t].thread = "crashed" THEN "error" ELSE "tools")
          /\ turn'[t].todo = Tail(turn[t].todo)
          /\ turn'[t].asked => turn[t].asked
                                \/ (turn[t].thread = "ok" /\ Head(turn[t].todo) = "ask")
          /\ turn'[t].thread = "none"
      <3> DEFINE where == IF turn[t].thread = "crashed" THEN "error" ELSE "tools"
                 left == Tail(turn[t].todo)
                 asked == turn[t].asked \/ (turn[t].thread = "ok" /\ Head(turn[t].todo) = "ask")
      <3>1. turn' = [turn EXCEPT ![t].at = where, ![t].thread = "none",
                                 ![t].todo = left, ![t].asked = asked]
        BY <1>6 DEF Resume
      <3> HIDE DEF where, left, asked
      <3>2. turn'[t].at = where /\ turn'[t].todo = left /\ turn'[t].asked = asked
            /\ turn'[t].thread = "none"
        BY <3>1 DEF Inv, TypeOK, Turn
      <3>3. QED
        BY <3>2 DEF where, left, asked
    <2>3. AskLast(Tail(turn[t].todo)) /\ (Head(turn[t].todo) = "ask" => Tail(turn[t].todo) = <<>>)
      BY <1>0, <2>1, TailAsksLast DEF Asking, Sized
    <2>4. Script(t)'
      <3>1. turn'[t].at \in {"error", "tools"}
        BY <2>2
      <3>2. QED
        BY <3>1 DEF Script, At, Over
    <2>5. AskLast(turn'[t].todo)
      BY <2>2, <2>3
    <2>6. ASSUME turn'[t].asked
          PROVE  turn'[t].todo = <<>> /\ turn'[t].at = "tools" /\ t \notin aborted'
      BY <2>1, <2>2, <2>3, <2>6
    <2>7. QED
      BY <2>2, <2>4, <2>5, <2>6 DEF Asking, AskLast, At
  <1>7. QED
    BY <1>2, <1>3, <1>4, <1>5, <1>6

LEMMA ToldStep == Inv /\ Told /\ [Next]_vars => Told'
  <1> SUFFICES ASSUME Inv, Told, [Next]_vars PROVE Told'
    OBVIOUS
  <1>1. ASSUME NEW t \in Turns, Prepare(t) \/ Speak(t) \/ Disconnect(t) \/ Step(t)
        PROVE  Told'
    <2>1. Same(t)
      BY <1>1, StepKeeps
    <2>2. Script(t)' /\ Asking(t)'
      BY <1>1, MoveTold, EndTold, ToolTold DEF Step, Stream, Loop, Arms, Summary
    <2>3. \A u \in Turns \ {t} : Script(u)' /\ Asking(u)'
      BY <2>1, OthersTold
    <2>4. QED
      BY <2>2, <2>3 DEF Told
  <1>2. CASE (\E t \in Turns : Settle(t)) \/ UNCHANGED vars
    <2>1. UNCHANGED <<turn, aborted, ending, messages>>
      BY <1>2 DEF Settle, vars, ledger
    <2>2. QED
      BY <2>1 DEF Told, Script, Asking, AskLast, At, Over
  <1>3. QED
    BY <1>1, <1>2 DEF Next

(* Inv and Told together are an inductive invariant of the loop.            *)
THEOREM InvAlways == Spec => [](Inv /\ Told)
  <1>1. Init => Inv /\ Told
    BY InitInv, InitTold
  <1>2. (Inv /\ Told) /\ [Next]_vars => (Inv /\ Told)'
    BY InvStep, ToldStep
  <1>3. QED
    BY <1>1, <1>2, PTL DEF Spec

(* Every variable keeps its type, whatever number of turns, of iterations   *)
(* and whatever plans the model's answers hold.                             *)
THEOREM TypeCorrect == Spec => []TypeOK
  <1>1. Inv => TypeOK
    BY DEF Inv
  <1>2. QED
    BY <1>1, InvAlways, PTL

(* B-10: while the model streams, nothing of the turn is uncommitted and no *)
(* session row is locked by it.                                             *)
THEOREM NothingOpenAcrossCall == Spec => []NoLockAcrossCall
  <1>1. Inv => NoLockAcrossCall
    BY DEF Inv, Books, InFlight, NoLockAcrossCall
  <1>2. QED
    BY <1>1, InvAlways, PTL

(* No ending of a turn bills a call twice, and the error arm bills none     *)
(* more than twice.                                                         *)
THEOREM NoDoubleBill == Spec => []BilledOnce
  <1>1. Inv => BilledOnce
    <2> SUFFICES ASSUME Inv, NEW t \in Turns
                 PROVE  booked[t] + pend[t] <= IF ending[t] = "error" THEN 2 * made[t]
                                                                      ELSE made[t]
      BY DEF BilledOnce
    <2>1. made[t] \in Nat /\ booked[t] \in Nat /\ pend[t] \in Nat /\ Bounded(t)
      BY Values, SMTT(30) DEF Sized, Books
    <2>2. QED
      BY <2>1 DEF Bounded
  <1>2. QED
    BY <1>1, InvAlways, PTL

(* Where the model streams text before it calls tools and no summary comes  *)
(* back empty, every model call of a closed turn is on the ledger, however  *)
(* the turn ended: finished, capped, cancelled at any await, or failed.  An *)
(* embedding is lost by the error arm alone, as tutor.py:597-600 says.  A   *)
(* turn that ended in an aborted transaction is excepted.                   *)
THEOREM NoSpendLost ==
    ASSUME ~Silent, ~Blank
    PROVE  Spec => []SpendKept
  <1>1. Inv => SpendKept
    BY DEF Inv, Books, Ended, SpendKept
  <1>2. QED
    BY <1>1, InvAlways, PTL

(* F-14: whatever cuts a turn short, the text it streamed is stored, once.  *)
(* A turn that streamed none stores an (empty) message if it completed or   *)
(* ran its cancel or its error arm, and nothing if it was refused, capped   *)
(* or left before it started.  Turns ended in an aborted transaction are    *)
(* excepted.                                                                *)
THEOREM StreamedTextStored == Spec => []StreamedTextKept
  <1>1. Told => StreamedTextKept
    BY DEF Told, Script, StreamedTextKept
  <1>2. QED
    BY <1>1, InvAlways, PTL

(* From the commit that registers an ask's batch on, no tool and no model   *)
(* call follows in that turn, it is neither rolled back nor billed by the   *)
(* error arm, and the cancel arm runs only if the client left before the    *)
(* coroutine learnt of the batch; for every bundle of calls.                *)
THEOREM AskIsTheLastCall == Spec => []AskEndsTurn
  <1>1. Inv /\ Told => AskEndsTurn
    <2> SUFFICES ASSUME Inv, Told, NEW t \in Turns, Registered(t)
                 PROVE  /\ turn[t].todo \in {<<>>, <<"ask">>}
                        /\ At(t) \notin {"top", "call", "bill", "final", "error", "rebill"}
                        /\ turn[t].asked => At(t) \notin {"drain", "cancel"}
                        /\ t \notin aborted \/ Over(t)
      BY DEF AskEndsTurn
    <2>1. Asking(t) /\ turn[t].todo \in Seq(Tools)
      BY Values DEF Told, Sized
    <2>2. CASE turn[t].asked
      BY <2>1, <2>2 DEF Asking, Over
    <2>3. CASE turn[t].thread = "ok" /\ Head(turn[t].todo) = "ask"
      <3>1. turn[t].todo # <<>> /\ AskLast(turn[t].todo)
        BY <2>1, <2>3 DEF Asking
      <3>2. Tail(turn[t].todo) = <<>>
        BY <2>1, <2>3, <3>1, TailAsksLast
      <3>3. Len(turn[t].todo) = 1 /\ turn[t].todo[1] = "ask"
        <4>1. Len(Tail(turn[t].todo)) = Len(turn[t].todo) - 1
          BY <2>1, <3>1, HeadTailProperties
        <4>2. Len(turn[t].todo) \in Nat
          BY <2>1, LenProperties
        <4>3. Len(Tail(turn[t].todo)) = 0
          <5>1. PICK rest : rest = Tail(turn[t].todo)
            OBVIOUS
          <5>2. rest = <<>>
            BY <3>2, <5>1, Zenon
          <5>3. Len(rest) = 0
            BY <5>2
          <5>4. QED
            BY <5>1, <5>3, Zenon
        <4>4. Len(turn[t].todo) = 1
          BY <4>1, <4>2, <4>3
        <4>5. Head(turn[t].todo) = turn[t].todo[1]
          BY <2>1, <3>1
        <4>6. QED
          BY <2>3, <4>4, <4>5
      <3>4. turn[t].todo = <<"ask">>
        BY <2>1, <3>3
      <3>5. At(t) \in {"tool", "drain", "cancel"} \/ Over(t)
        BY <2>1, <2>3 DEF Asking
      <3>6. ~(turn[t].asked /\ At(t) \in {"drain", "cancel"})
        BY <2>1 DEF Asking, Over
      <3>7. QED
        BY <2>1, <2>3, <3>4, <3>5, <3>6 DEF Asking, Over
    <2>4. QED
      BY <2>2, <2>3 DEF Registered
  <1>2. QED
    BY <1>1, InvAlways, PTL

-----------------------------------------------------------------------------
(* Sums over the turns, counted unit by unit.                               *)
Most == 2 * MaxIters + 1

LEMMA UnitsFinite ==
    ASSUME NEW f
    PROVE  IsFiniteSet(Units(f)) /\ Total(f) \in Nat /\ Cardinality(Turns) \in Nat
  <1>1. IsFiniteSet(Turns) /\ IsFiniteSet(1 .. Most)
    BY SizesOK, FS_Interval DEF Most
  <1>2. IsFiniteSet(Turns \X (1 .. Most))
    BY <1>1, FS_Product
  <1>3. Units(f) \in SUBSET (Turns \X (1 .. Most))
    BY DEF Units, Most
  <1>4. IsFiniteSet(Units(f))
    BY <1>2, <1>3, FS_Subset
  <1>5. QED
    BY <1>1, <1>4, FS_CardinalityType DEF Total

LEMMA TotalMonotone ==
    ASSUME NEW f \in [Turns -> Int], NEW g \in [Turns -> Int], \A t \in Turns : f[t] <= g[t]
    PROVE  Total(f) <= Total(g)
  <1>1. ASSUME NEW u \in Units(f) PROVE u \in Units(g)
    <2>1. u \in Turns \X (1 .. Most) /\ u[1] \in Turns /\ u[2] \in Int /\ u[2] <= f[u[1]]
      BY <1>1 DEF Units, Most
    <2>2. f[u[1]] \in Int /\ g[u[1]] \in Int /\ f[u[1]] <= g[u[1]]
      BY <2>1
    <2>3. u[2] <= g[u[1]]
      BY <2>1, <2>2
    <2>4. QED
      BY <2>1, <2>3 DEF Units, Most
  <1>2. Units(f) \in SUBSET Units(g)
    BY <1>1
  <1>3. QED
    BY <1>2, UnitsFinite, FS_Subset DEF Total

(* One unit more of each turn of M adds at most the number of them.         *)
LEMMA TotalOneMore ==
    ASSUME NEW f \in [Turns -> Int], NEW g \in [Turns -> Int], NEW M \in SUBSET Turns,
           \A t \in Turns : g[t] <= f[t] + (IF t \in M THEN 1 ELSE 0)
    PROVE  Total(g) <= Total(f) + Cardinality(M)
  <1>0. IsFiniteSet(M) /\ Cardinality(M) \in Nat
    BY SizesOK, FS_Subset, FS_CardinalityType
  <1> DEFINE top == [t \in M |-> <<t, f[t] + 1>>]
             Tops == {top[t] : t \in M}
  <1>1. ASSUME NEW u \in Units(g) PROVE u \in Units(f) \cup Tops
    <2>1. /\ u \in Turns \X (1 .. Most) /\ u[1] \in Turns /\ u[2] \in Int
          /\ u[2] <= g[u[1]] /\ u = <<u[1], u[2]>>
      BY <1>1 DEF Units, Most
    <2>2. f[u[1]] \in Int /\ g[u[1]] \in Int /\ g[u[1]] <= f[u[1]] + (IF u[1] \in M THEN 1 ELSE 0)
      BY <2>1
    <2>3. u[2] <= f[u[1]] \/ (u[1] \in M /\ u[2] = f[u[1]] + 1)
      BY <2>1, <2>2
    <2>4. CASE u[2] <= f[u[1]]
      BY <2>1, <2>4 DEF Units, Most
    <2>5. CASE u[1] \in M /\ u[2] = f[u[1]] + 1
      <3>1. u = top[u[1]]
        BY <2>1, <2>5
      <3>2. QED
        BY <2>1, <2>5, <3>1
    <2>6. QED
      BY <2>3, <2>4, <2>5
  <1>2. IsFiniteSet(Tops) /\ Cardinality(Tops) \in Nat /\ Cardinality(Tops) <= Cardinality(M)
    <2>1. top \in Surjection(M, Tops)
      BY DEF Surjection
    <2> HIDE DEF top, Tops
    <2>2. IsFiniteSet(Tops) /\ Cardinality(Tops) <= Cardinality(M)
      BY <1>0, <2>1, FS_Surjection
    <2>3. QED
      BY <2>2, FS_CardinalityType
  <1> HIDE DEF top, Tops
  <1>3. Units(g) \in SUBSET (Units(f) \cup Tops)
    BY <1>1
  <1>4. IsFiniteSet(Units(f)) /\ Total(f) \in Nat /\ Total(g) \in Nat 
    BY UnitsFinite
  <1>5. /\ IsFiniteSet(Units(f) \cup Tops) /\ IsFiniteSet(Units(f) \cap Tops)
        /\ Cardinality(Units(f) \cup Tops)
             = Cardinality(Units(f)) + Cardinality(Tops) - Cardinality(Units(f) \cap Tops)
    <2>1. Units(f) \cap Tops \in SUBSET Tops
      OBVIOUS
    <2>2. QED
      BY <1>2, <1>4, <2>1, FS_Union, FS_Subset
  <1>6. Cardinality(Units(f) \cap Tops) \in Nat
    BY <1>5, FS_CardinalityType
  <1>7. Cardinality(Units(g)) <= Cardinality(Units(f) \cup Tops)
    BY <1>3, <1>5, FS_Subset
  <1>8. QED
    BY <1>0, <1>2, <1>4, <1>5, <1>6, <1>7 DEF Total

LEMMA TotalSettled ==
    ASSUME NEW f \in [Turns -> Nat], NEW t \in Turns, NEW p \in 0 .. 1
    PROVE  Total([f EXCEPT ![t] = @ + p]) <= Total(f) + p
  <1> DEFINE g == [f EXCEPT ![t] = @ + p]
             new == <<t, f[t] + 1>>
  <1>1. CASE p = 0
    <2>1. g = f
      BY <1>1
    <2> HIDE DEF g
    <2>2. Total(g) <= Total(f) + p
      BY <1>1, <2>1, UnitsFinite
    <2>3. QED
      BY <2>2 DEF g
  <1>2. CASE p = 1
    <2>0. \A u \in Turns : g[u] = IF u = t THEN f[t] + 1 ELSE f[u]
      BY <1>2
    <2>1. ASSUME NEW u \in Units(g) PROVE u \in Units(f) \cup {new}
      <3>1. /\ u \in Turns \X (1 .. Most) /\ u[1] \in Turns /\ u[2] \in Int
            /\ u[2] <= g[u[1]] /\ u = <<u[1], u[2]>>
        BY <2>1 DEF Units, Most
      <3>2. CASE u[2] <= f[u[1]]
        BY <3>1, <3>2 DEF Units, Most
      <3>3. CASE ~(u[2] <= f[u[1]])
        <4>1. u[1] = t /\ u[2] <= f[t] + 1 /\ ~(u[2] <= f[t])
          BY <2>0, <3>1, <3>3
        <4>2. u[2] = f[t] + 1
          BY <3>1, <4>1
        <4>3. QED
          BY <3>1, <4>1, <4>2
      <3>4. QED
        BY <3>2, <3>3
    <2> HIDE DEF g, new
    <2>2. Units(g) \in SUBSET (Units(f) \cup {new})
      BY <2>1
    <2>3. IsFiniteSet(Units(f)) /\ Total(f) \in Nat /\ Total(g) \in Nat
      BY UnitsFinite
    <2>4. /\ IsFiniteSet(Units(f) \cup {new})
          /\ Cardinality(Units(f) \cup {new}) \in {Total(f), Total(f) + 1}
      BY <2>3, FS_AddElement DEF Total
    <2>5. Cardinality(Units(g)) <= Cardinality(Units(f) \cup {new})
      BY <2>2, <2>4, FS_Subset
    <2>6. Total(g) <= Total(f) + 1
      BY <2>3, <2>4, <2>5 DEF Total
    <2>7. QED
      BY <1>2, <2>6 DEF g
  <1>3. QED
    BY <1>1, <1>2

-----------------------------------------------------------------------------
(* What a turn costs the user in the end, its summary in flight included,   *)
(* and the largest sum of it that check_cap lets through.                   *)
Due(t)  == IF At(t) = "summary" THEN made[t] + 1 ELSE made[t]
Dues    == [t \in Turns |-> Due(t)]
Ceiling == Max({0, Cap - 1 + Cardinality(Turns) + Cardinality(Unpaid)})

OneAhead == \A t \in Turns : Due(t) <= booked[t] + 1 + (IF t \in Unpaid THEN 1 ELSE 0)
Capped   == OneAhead /\ Total(Dues) <= Ceiling

LEMMA LaterTotals == Total(Dues)' = Total(Dues')
  BY DEF Total, Units

LEMMA UnpaidFinite ==
    ASSUME aborted \subseteq Turns
    PROVE  Unpaid \in SUBSET Turns /\ IsFiniteSet(Unpaid) /\ Cardinality(Unpaid) \in Nat
  <1>1. Unpaid \in SUBSET Turns
    BY DEF Unpaid
  <1>2. QED
    BY <1>1, SizesOK, FS_Subset, FS_CardinalityType

LEMMA AtLeastZero ==
    ASSUME NEW i \in Int
    PROVE  Max({0, i}) \in Nat /\ i <= Max({0, i}) /\ \A n \in Nat : i <= n => Max({0, i}) <= n
  <1>1. Max({0, i}) = IF i <= 0 THEN 0 ELSE i
    BY DEF Max
  <1>2. QED
    BY <1>1

LEMMA DuesTyped ==
    ASSUME Inv
    PROVE  /\ Dues \in [Turns -> Int] /\ booked \in [Turns -> Nat] /\ made \in [Turns -> Int]
           /\ \A t \in Turns : /\ Due(t) \in Nat /\ made[t] \in Nat /\ booked[t] \in Nat
                               /\ pend[t] \in 0 .. 1 /\ made[t] <= Due(t)
  <1>1. \A t \in Turns : /\ made[t] \in Nat /\ booked[t] \in Nat /\ pend[t] \in 0 .. 1
    BY SizesOK DEF Inv, TypeOK
  <1>2. \A t \in Turns : Due(t) \in Nat /\ made[t] <= Due(t)
    BY <1>1 DEF Due
  <1>3. Dues \in [Turns -> Int]
    BY <1>2 DEF Dues
  <1>4. made = [t \in Turns |-> made[t]] /\ booked = [t \in Turns |-> booked[t]]
    BY DEF Inv, TypeOK
  <1>5. QED
    BY <1>1, <1>2, <1>3, <1>4

LEMMA DuesTypedLater ==
    ASSUME Inv'
    PROVE  /\ Dues' \in [Turns -> Int] /\ booked' \in [Turns -> Int]
           /\ \A t \in Turns : Due(t)' \in Nat /\ booked'[t] \in Nat
  <1>1. \A t \in Turns : made'[t] \in Nat /\ booked'[t] \in Nat
    BY SizesOK DEF Inv, TypeOK
  <1>2. \A t \in Turns : Due(t)' \in Nat
    BY <1>1 DEF Due
  <1>3. Dues' \in [Turns -> Int]
    BY <1>2 DEF Dues
  <1>4. booked' = [t \in Turns |-> booked'[t]]
    BY DEF Inv, TypeOK
  <1>5. QED
    BY <1>1, <1>2, <1>3, <1>4

(* No other step starts a call, or takes one off the ledger.                *)
LEMMA NoCallStarts ==
    ASSUME Inv, Inv', Capped, \A t \in Turns : Due(t)' <= Due(t) /\ booked[t] <= booked'[t],
           Unpaid \subseteq Unpaid'
    PROVE  Capped'
  <1>1. /\ Dues \in [Turns -> Int] /\ Dues' \in [Turns -> Int]
        /\ \A t \in Turns : /\ Due(t) \in Nat /\ booked[t] \in Nat
                            /\ Due(t)' \in Nat /\ booked'[t] \in Nat
    BY DuesTyped, DuesTypedLater
  <1>2. ASSUME NEW t \in Turns
        PROVE  Due(t)' <= booked'[t] + 1 + (IF t \in Unpaid' THEN 1 ELSE 0)
    <2>1. Due(t) <= booked[t] + 1 + (IF t \in Unpaid THEN 1 ELSE 0)
      BY DEF Capped, OneAhead
    <2>2. t \in Unpaid => t \in Unpaid'
      OBVIOUS
    <2>3. QED
      BY <1>1, <2>1, <2>2
  <1>3. \A t \in Turns : Dues'[t] <= Dues[t]
    BY DEF Dues
  <1>4. Total(Dues') <= Total(Dues) /\ Total(Dues) \in Nat /\ Total(Dues') \in Nat
    BY <1>1, <1>3, TotalMonotone, UnitsFinite
  <1>5. Ceiling \in Nat /\ Ceiling' \in Nat /\ Ceiling <= Ceiling'
    <2>1. aborted \subseteq Turns /\ aborted' \subseteq Turns
      BY DEF Inv, TypeOK
    <2>2. PICK c \in Nat : c = Cardinality(Unpaid)
      BY <2>1, UnpaidFinite
    <2>3. PICK S : S = Unpaid'
      OBVIOUS
    <2>4. S \in SUBSET Turns /\ Unpaid \in SUBSET S
      BY <2>1, <2>3 DEF Unpaid
    <2>5. IsFiniteSet(S) /\ Cardinality(S) \in Nat /\ c <= Cardinality(S)
      BY <2>2, <2>4, SizesOK, FS_Subset, FS_CardinalityType
    <2>6. Cap \in Nat /\ Cardinality(Turns) \in Nat
      BY SizesOK, UnitsFinite
    <2>7. Ceiling' = Max({0, Cap - 1 + Cardinality(Turns) + Cardinality(S)})
      BY <2>3 DEF Ceiling
    <2>8. Ceiling = Max({0, Cap - 1 + Cardinality(Turns) + c})
      BY <2>2 DEF Ceiling
    <2>9. /\ Cap - 1 + Cardinality(Turns) + c \in Int
          /\ Cap - 1 + Cardinality(Turns) + Cardinality(S) \in Int
          /\ Cap - 1 + Cardinality(Turns) + c <= Cap - 1 + Cardinality(Turns) + Cardinality(S)
      BY <2>5, <2>6
    <2>10. Ceiling \in Nat /\ Ceiling' \in Nat
      BY <2>7, <2>8, <2>9, AtLeastZero
    <2>11. Cap - 1 + Cardinality(Turns) + Cardinality(S) <= Ceiling'
      BY <2>7, <2>9, AtLeastZero
    <2>12. Cap - 1 + Cardinality(Turns) + c <= Ceiling'
      BY <2>5, <2>6, <2>10, <2>11
    <2>13. QED
      BY <2>8, <2>9, <2>10, <2>12, AtLeastZero
  <1>6. Total(Dues') <= Ceiling'
    BY <1>4, <1>5 DEF Capped
  <1>7. OneAhead'
    BY <1>2 DEF OneAhead
  <1>8. QED
    BY <1>6, <1>7, LaterTotals DEF Capped


(* A call starts where less than the cap is on the ledger: each turn is one *)
(* ahead of what it has booked at most, or two if its transaction was       *)
(* aborted, so the sum stays under the ceiling.                             *)
LEMMA CallStarts ==
    ASSUME Inv, Inv', OneAhead', Total(booked') < Cap
    PROVE  Capped'
  <1>1. /\ Dues' \in [Turns -> Int] /\ booked' \in [Turns -> Int]
        /\ \A t \in Turns : Due(t)' \in Nat /\ booked'[t] \in Nat
    BY DuesTypedLater
  <1>2. PICK M : M = Unpaid'
    OBVIOUS
  <1>3. M \in SUBSET Turns
    BY <1>2 DEF Unpaid, Inv, TypeOK
  <1> DEFINE h == [t \in Turns |-> booked'[t] + 1]
  <1>4. h \in [Turns -> Int]
    BY <1>1
  <1>5. \A t \in Turns : h[t] <= booked'[t] + (IF t \in Turns THEN 1 ELSE 0)
    BY <1>1
  <1>6. \A t \in Turns : Dues'[t] <= h[t] + (IF t \in M THEN 1 ELSE 0)
    BY <1>2 DEF Dues, OneAhead
  <1> HIDE DEF h
  <1>7. Total(h) <= Total(booked') + Cardinality(Turns)
    BY <1>1, <1>4, <1>5, TotalOneMore
  <1>8. Total(Dues') <= Total(h) + Cardinality(M)
    BY <1>1, <1>3, <1>4, <1>6, TotalOneMore
  <1>9. /\ Total(Dues') \in Nat /\ Total(booked') \in Nat /\ Total(h) \in Nat
        /\ Cardinality(Turns) \in Nat /\ Cap \in Nat
    BY SizesOK, UnitsFinite
  <1>10. Cardinality(M) \in Nat
    BY <1>3, SizesOK, FS_Subset, FS_CardinalityType
  <1>11. Ceiling' = Max({0, Cap - 1 + Cardinality(Turns) + Cardinality(M)})
    BY <1>2 DEF Ceiling
  <1>12. Total(Dues') <= Cap - 1 + Cardinality(Turns) + Cardinality(M)
    BY <1>7, <1>8, <1>9, <1>10
  <1>13. Cap - 1 + Cardinality(Turns) + Cardinality(M) \in Int
    BY <1>9, <1>10
  <1>14. Ceiling' \in Nat /\ Cap - 1 + Cardinality(Turns) + Cardinality(M) <= Ceiling'
    BY <1>11, <1>13, AtLeastZero
  <1>15. Total(Dues') <= Ceiling'
    BY <1>9, <1>12, <1>13, <1>14
  <1>16. QED
    BY <1>15, LaterTotals DEF Capped

(* What each step does to one turn's due and to its bookings.               *)
LEMMA OtherSteps ==
    ASSUME Inv, NEW t \in Turns, Prepare(t) \/ Speak(t) \/ Disconnect(t) \/ Settle(t) \/ Step(t),
           ~Call(t), ~SummaryCall(t), NEW u \in Turns
    PROVE  Due(u)' <= Due(u) /\ booked[u] <= booked'[u]
  <1>0. /\ \A v \in Turns : /\ made[v] \in Nat /\ booked[v] \in Nat /\ pend[v] \in 0 .. 1
                            /\ Due(v) \in Nat
        /\ billed[t] \in Nat /\ Unbilled(t) \in Int
    <2>1. \A v \in Turns : made[v] \in Nat /\ booked[v] \in Nat /\ pend[v] \in 0 .. 1
      BY SizesOK DEF Inv, TypeOK
    <2>2. \A v \in Turns : Due(v) \in Nat
      BY DuesTyped
    <2>3. billed[t] \in Nat
      BY SizesOK DEF Inv, TypeOK
    <2>4. Unbilled(t) \in Int
      BY <2>1, <2>3 DEF Unbilled
    <2>5. QED
      BY <2>1, <2>2, <2>3, <2>4
  <1>1. CASE SummaryReturns(t)
    <2>1. /\ booked' = booked /\ made' = [made EXCEPT ![t] = @ + 1]
          /\ At(t) = "summary" /\ Goto(t, "meter")
      BY <1>1 DEF SummaryReturns
    <2>2. /\ turn'[t].at = "meter" /\ made'[t] = made[t] + 1
          /\ u # t => turn'[u] = turn[u] /\ made'[u] = made[u]
      BY <2>1 DEF Goto, Inv, TypeOK, Turn
    <2>3. Due(u)' <= Due(u)
      BY <1>0, <2>1, <2>2 DEF Due, At
    <2>4. QED
      BY <1>0, <2>1, <2>3
  <1>2. CASE ~SummaryReturns(t)
    <2>1. made' = made
      BY <1>2 DEF Step, Stream, Tool, Loop, Arms, Summary, Prepare, Speak, Disconnect, Settle, Begin,
             StreamEnds, StreamFails, ToolCommits, ToolKeepsRow, ToolMeters, ToolAborted, ToolReturns, CheckFails, Unsaved, Abort, Bill, Final,
             Garbled, Dispatch, Resume, ToolsDone, Finish, Attach, Drained, CancelArm, Rollback,
             ErrorArm, SummaryMeters, SummaryStored, SummaryAborted, Close, ledger
    <2>2. (At(u) # "summary") => At(u)' # "summary"
      <3>1. \/ turn' = turn
            \/ \E where \in (Await \cup OnLoop) \ {"summary"} : Goto(t, where)
            \/ turn'[t].at # "summary" /\ \A v \in Turns \ {t} : turn'[v] = turn[v]
            \/ \E how : Returns(t, how)
        <4>1. CASE Prepare(t) \/ Disconnect(t) \/ Settle(t)
          BY <4>1 DEF Prepare, Disconnect, Settle, Goto, End, Await, OnLoop
        <4>2. CASE Speak(t) \/ StreamEnds(t) \/ Garbled(t) \/ Dispatch(t) \/ Resume(t)
          <5>0. turn \in [Turns -> Turn]
            BY DEF Inv, TypeOK
          <5>1. CASE Speak(t) \/ Garbled(t)
            BY <4>2, <5>0, <5>1 DEF Speak, Garbled, At, Turn
          <5>2. CASE StreamEnds(t) \/ Dispatch(t)
            BY <4>2, <5>0, <5>2 DEF StreamEnds, Dispatch, At, Turn
          <5>3. CASE Resume(t)
            <6> DEFINE where == IF turn[t].thread = "crashed" THEN "error" ELSE "tools"
                       left == Tail(turn[t].todo)
                       asked == turn[t].asked \/ (turn[t].thread = "ok" /\ Head(turn[t].todo) = "ask")
            <6>1. turn' = [turn EXCEPT ![t].at = where, ![t].thread = "none",
                                       ![t].todo = left, ![t].asked = asked]
              BY <5>3 DEF Resume
            <6>2. where # "summary"
              OBVIOUS
            <6> HIDE DEF where, left, asked
            <6>3. QED
              BY <5>0, <6>1, <6>2 DEF Turn
          <5>4. QED
            BY <4>2, <5>1, <5>2, <5>3
        <4>3. CASE Tool(t)
          BY <4>3 DEF Tool, ToolCommits, ToolKeepsRow, ToolMeters, ToolAborted, ToolReturns
        <4>4. CASE Begin(t) \/ StreamFails(t) \/ CheckFails(t) \/ Abort(t) \/ Final(t) \/ ToolsDone(t) \/ Finish(t)
                   \/ Attach(t)
          BY <4>4 DEF Begin, StreamFails, CheckFails, Abort, Final, ToolsDone, Finish, Attach, End, Await, OnLoop
        <4>5. CASE Bill(t)
          BY <4>5 DEF Bill, Goto, Await, OnLoop
        <4>6. CASE Arms(t) \/ SummaryMeters(t) \/ SummaryStored(t) \/ SummaryAborted(t)
                   \/ Close(t)
          <5>1. CASE Drained(t) \/ CancelArm(t)
            BY <5>1 DEF Drained, CancelArm, End, Await, OnLoop
          <5>2. CASE Rollback(t) \/ ErrorArm(t)
            BY <5>2 DEF Rollback, ErrorArm, End, Await, OnLoop
          <5>3. CASE SummaryMeters(t) \/ SummaryStored(t)
            BY <5>3 DEF SummaryMeters, SummaryStored, Await, OnLoop
          <5>4. CASE SummaryAborted(t) \/ Close(t)
            BY <5>4 DEF SummaryAborted, Close, Await, OnLoop
          <5>5. QED
            BY <4>6, <5>1, <5>2, <5>3, <5>4 DEF Arms
        <4>7. QED
          BY <1>2, <4>1, <4>2, <4>3, <4>4, <4>5, <4>6 DEF Step, Stream, Loop, Summary
      <3>2. QED
        <4>1. ASSUME NEW where \in (Await \cup OnLoop) \ {"summary"}, Goto(t, where)
              PROVE  (At(u) # "summary") => At(u)' # "summary"
          BY <4>1 DEF Goto, At, Inv, TypeOK, Turn
        <4>2. ASSUME NEW how, Returns(t, how)
              PROVE  (At(u) # "summary") => At(u)' # "summary"
          BY <4>2 DEF Returns, At, Inv, TypeOK, Turn
        <4>3. QED
          BY <3>1, <4>1, <4>2 DEF At
    <2>3. Due(u)' <= Due(u)
      BY <1>0, <2>1, <2>2 DEF Due
    <2>4. \/ booked' = booked
          \/ \E n \in Nat : booked' = [booked EXCEPT ![t] = @ + n]
      <3>1. CASE CancelArm(t)
        <4>1. CASE t \in aborted
          BY <3>1, <4>1 DEF CancelArm, Unsaved
        <4>2. CASE t \notin aborted
          <5>1. booked' = [booked EXCEPT ![t] = booked[t] + pend[t] + Unbilled(t)]
            BY <3>1, <4>2 DEF CancelArm
          <5>2. Leaving(t) /\ At(t) = "cancel"
            BY <3>1, Values DEF CancelArm, Books
          <5>3. made[t] - billed[t] \in Nat
            BY <1>0, <5>2 DEF Leaving
          <5>4. pend[t] + Unbilled(t) \in Nat
            BY <1>0, <5>3 DEF Unbilled
          <5>5. booked[t] + pend[t] + Unbilled(t) = booked[t] + (pend[t] + Unbilled(t))
            BY <1>0
          <5>6. booked' = [booked EXCEPT ![t] = @ + (pend[t] + Unbilled(t))]
            BY <5>1, <5>5
          <5>7. QED
            BY <5>4, <5>6
        <4>3. QED
          BY <4>1, <4>2
      <3>2. CASE ErrorArm(t)
        <4>1. booked' = [booked EXCEPT ![t] = @ + made[t]]
          BY <3>2 DEF ErrorArm, Rebilled
        <4>2. made[t] \in Nat
          BY <1>0
        <4>3. QED
          BY <4>1, <4>2
      <3>3. CASE SummaryStored(t)
        BY <3>3 DEF SummaryStored
      <3>4. CASE booked' = [booked EXCEPT ![t] = @ + pend[t]]
        <4>1. pend[t] \in Nat
          BY <1>0
        <4>2. QED
          BY <3>4, <4>1
      <3>5. CASE ~(CancelArm(t) \/ ErrorArm(t) \/ SummaryStored(t))
        <4>1. booked' = booked \/ booked' = [booked EXCEPT ![t] = @ + pend[t]]
          BY <3>5 DEF Step, Stream, Tool, Loop, Arms, Summary, Prepare, Speak, Disconnect, Settle,
             Begin, StreamEnds, StreamFails, ToolCommits, ToolKeepsRow, ToolMeters, ToolAborted, ToolReturns, CheckFails, Unsaved, Abort, Bill,
             Final, Garbled, Dispatch, Resume, ToolsDone, Finish, Attach, Drained, Rollback,
             SummaryReturns, SummaryMeters, SummaryAborted, Close, Commit, ledger
        <4>2. QED
          BY <3>4, <4>1
      <3>6. QED
        BY <3>1, <3>2, <3>3, <3>5
    <2>5. booked[u] <= booked'[u]
      BY <1>0, <2>4 DEF Inv, TypeOK
    <2>6. QED
      BY <2>3, <2>5
  <1>3. QED
    BY <1>1, <1>2

(* A turn that ended in an aborted transaction stays one.                   *)
LEMMA UnpaidStays ==
    ASSUME Inv, NEW t \in Turns, Prepare(t) \/ Speak(t) \/ Disconnect(t) \/ Settle(t) \/ Step(t),
           Same(t) \/ Settle(t), NEW u \in Unpaid
    PROVE  u \in Unpaid'
  <1>0. u \in Turns /\ u \in aborted /\ Over(u)
    BY DEF Inv, TypeOK, Unpaid
  <1>1. CASE Settle(t)
    BY <1>0, <1>1 DEF Settle, ledger, Unpaid, Over, At
  <1>2. CASE Same(t) /\ u # t
    BY <1>0, <1>2 DEF Same, Unpaid, Over, At
  <1>3. CASE u = t
    <2>1. turn[t].thread \notin {"busy", "locking", "metering"}
      BY <1>0, <1>3, Values DEF Books, Quiet, Over
    <2>2. \/ Settle(t)
          \/ SummaryCall(t) \/ SummaryReturns(t) \/ SummaryMeters(t) \/ SummaryStored(t)
          \/ SummaryAborted(t) \/ Close(t)
      <3>1. ~(Prepare(t) \/ Speak(t) \/ Disconnect(t) \/ Begin(t) \/ Stream(t) \/ Arms(t))
        BY <1>0, <1>3 DEF Prepare, Speak, Disconnect, Begin, Stream, StreamEnds, StreamFails, Arms,
           Drained, CancelArm, Rollback, ErrorArm, Over
      <3>2. ~Loop(t)
        BY <1>0, <1>3 DEF Loop, Call, CheckFails, Abort, Bill, Final, Garbled, Dispatch, Resume,
           ToolsDone, Finish, Attach, Over
      <3>3. ~Tool(t)
        BY <2>1 DEF Tool, ToolCommits, ToolKeepsRow, ToolMeters, ToolAborted, ToolReturns, ToolRunning
      <3>4. QED
        BY <3>1, <3>2, <3>3 DEF Step, Summary
    <2>3. aborted' \in {aborted, aborted \cup {t}}
      BY <2>2 DEF Settle, SummaryCall, SummaryReturns, SummaryMeters, SummaryStored, SummaryAborted,
         Close, ledger
    <2>4. CASE Settle(t)
      BY <1>0, <1>3, <2>4 DEF Settle, ledger, Unpaid, Over, At
    <2>5. CASE ~Settle(t)
      <3>1. PICK where \in {"summary", "meter", "store", "closed"} : Goto(t, where)
        BY <2>2, <2>5 DEF SummaryCall, SummaryReturns, SummaryMeters, SummaryStored, SummaryAborted,
           Close
      <3>2. turn'[t].at = where
        BY <3>1, GotoKeeps
      <3>3. QED
        BY <1>0, <1>3, <2>3, <3>2 DEF Unpaid, Over, At
    <2>6. QED
      BY <2>4, <2>5
  <1>4. QED
    BY <1>1, <1>2, <1>3

LEMMA CappedStep ==
    ASSUME ~Silent, Inv, Told, Inv', Capped, [Next]_vars
    PROVE  Capped'
  <1>1. CASE UNCHANGED vars
    <2>1. turn' = turn /\ made' = made /\ booked' = booked /\ aborted' = aborted
      BY <1>1 DEF vars, ledger
    <2>2. \A t \in Turns : Due(t)' <= Due(t) /\ booked[t] <= booked'[t]
      BY <2>1, DuesTyped DEF Due, At
    <2>3. Unpaid \subseteq Unpaid'
      BY <2>1 DEF Unpaid, Over, At
    <2>4. QED
      BY <2>2, <2>3, NoCallStarts
  <1>2. ASSUME NEW t \in Turns, Call(t) PROVE Capped'
    <2>0. /\ \A v \in Turns : made[v] \in Nat /\ booked[v] \in Nat /\ pend[v] \in 0 .. 1
          /\ At(t) = "top" /\ t \notin aborted /\ made[t] = booked[t] + pend[t]
      BY <1>2, Values, DuesTyped DEF Call, Books, Booked, Metered
    <2>1. /\ booked' = [booked EXCEPT ![t] = @ + pend[t]] /\ made' = [made EXCEPT ![t] = @ + 1]
          /\ turn' = [turn EXCEPT ![t].at = "call", ![t].iter = @ + 1]
          /\ Total(booked) + pend[t] < Cap
      BY <1>2 DEF Call, CloseTransaction, Commit, Allowed, SpendSeenBy, Committed
    <2>2. Total(booked') < Cap
      <3>1. Total(booked') <= Total(booked) + pend[t]
        BY <2>0, <2>1, DuesTyped, TotalSettled
      <3>2. Total(booked') \in Nat /\ Total(booked) \in Nat
        BY UnitsFinite
      <3>3. QED
        BY <2>0, <2>1, <3>1, <3>2, SizesOK
    <2>3. /\ booked'[t] = booked[t] + pend[t] /\ made'[t] = made[t] + 1 /\ turn'[t].at = "call"
          /\ \A u \in Turns \ {t} : booked'[u] = booked[u] /\ made'[u] = made[u] /\ turn'[u] = turn[u]
      BY <2>1 DEF Inv, TypeOK, Turn
    <2>4. OneAhead'
      <3>1. aborted' = aborted /\ Same(t)
        BY <1>2, StepKeeps DEF Call, Step, Loop
      <3>2. \A u \in Turns \ {t} : u \in Unpaid => u \in Unpaid'
        BY <2>3, <3>1 DEF Unpaid, Over, At
      <3>3. ASSUME NEW u \in Turns \ {t}
            PROVE  Due(u)' <= booked'[u] + 1 + (IF u \in Unpaid' THEN 1 ELSE 0)
        <4>1. Due(u)' = Due(u) /\ booked'[u] = booked[u] /\ Due(u) \in Nat /\ booked[u] \in Nat
          BY <2>3, DuesTyped DEF Due, At
        <4>2. Due(u) <= booked[u] + 1 + (IF u \in Unpaid THEN 1 ELSE 0)
          BY DEF Capped, OneAhead
        <4>3. QED
          BY <3>2, <4>1, <4>2
      <3>4. Due(t)' <= booked'[t] + 1 + (IF t \in Unpaid' THEN 1 ELSE 0)
        <4>1. Due(t)' = made[t] + 1 /\ booked'[t] + 1 = made[t] + 1 /\ made[t] \in Nat
          BY <2>0, <2>3 DEF Due, At
        <4>2. QED
          BY <2>0, <2>3, <4>1
      <3>5. QED
        BY <3>3, <3>4 DEF OneAhead
    <2>5. QED
      BY <2>2, <2>4, CallStarts
  <1>3. ASSUME NEW t \in Turns, SummaryCall(t) PROVE Capped'
    <2>0. /\ \A v \in Turns : made[v] \in Nat /\ booked[v] \in Nat /\ pend[v] \in 0 .. 1
          /\ At(t) = "over" /\ (t \notin aborted => made[t] <= booked[t])
          /\ (t \in aborted => made[t] <= booked[t] + 1)
      BY <1>3, Values, DuesTyped DEF SummaryCall, Books, Ended, Lost, Over
    <2>1. /\ booked' = booked /\ made' = made /\ aborted' = aborted
          /\ Total(booked) < Cap /\ Goto(t, "summary")
      BY <1>3 DEF SummaryCall, ledger, Committed
    <2>2. turn'[t].at = "summary" /\ \A u \in Turns \ {t} : turn'[u] = turn[u]
      BY <2>1 DEF Goto, Inv, TypeOK, Turn
    <2>3. OneAhead'
      <3>1. \A u \in Turns \ {t} : u \in Unpaid => u \in Unpaid'
        BY <2>1, <2>2 DEF Unpaid, Over, At
      <3>2. ASSUME NEW u \in Turns \ {t}
            PROVE  Due(u)' <= booked'[u] + 1 + (IF u \in Unpaid' THEN 1 ELSE 0)
        <4>1. Due(u)' = Due(u) /\ booked'[u] = booked[u] /\ Due(u) \in Nat /\ booked[u] \in Nat
          BY <2>1, <2>2, DuesTyped DEF Due, At
        <4>2. Due(u) <= booked[u] + 1 + (IF u \in Unpaid THEN 1 ELSE 0)
          BY DEF Capped, OneAhead
        <4>3. QED
          BY <3>1, <4>1, <4>2
      <3>3. Due(t)' <= booked'[t] + 1 + (IF t \in Unpaid' THEN 1 ELSE 0)
        <4>1. Due(t)' = made[t] + 1 /\ booked'[t] = booked[t]
          BY <2>1, <2>2 DEF Due, At
        <4>2. t \in Unpaid' <=> t \in aborted
          BY <2>1, <2>2 DEF Unpaid, Over, At
        <4>3. QED
          BY <2>0, <4>1, <4>2
      <3>4. QED
        BY <3>2, <3>3 DEF OneAhead
    <2>4. QED
      BY <2>1, <2>3, CallStarts
  <1>4. ASSUME NEW t \in Turns, Prepare(t) \/ Speak(t) \/ Disconnect(t) \/ Settle(t) \/ Step(t),
               ~Call(t), ~SummaryCall(t)
        PROVE  Capped'
    <2>1. Same(t) \/ Settle(t)
      BY <1>4, StepKeeps
    <2>2. Unpaid \subseteq Unpaid'
      BY <1>4, <2>1, UnpaidStays
    <2>3. QED
      BY <1>4, <2>2, OtherSteps, NoCallStarts
  <1>5. QED
    BY <1>1, <1>2, <1>3, <1>4 DEF Next

(* However many turns of the user pass check_cap at the same time, with all *)
(* their tool iterations and rolling summaries, the calls they make exceed  *)
(* the daily cap by one per turn, less one, at most, and by one more for    *)
(* each turn that ended in a transaction the database had aborted; for any  *)
(* number of turns, any cap and any model answers that stream text before   *)
(* they call tools.                                                         *)
THEOREM CapBoundsTheTurns ==
    ASSUME ~Silent
    PROVE  Spec => []CapHolds
  <1>1. Init => Capped
    <2> SUFFICES ASSUME Init PROVE Capped
      OBVIOUS
    <2>1. \A t \in Turns : booked[t] = 0 /\ made[t] = 0 /\ Due(t) = 0
      BY DEF Init, Due, At, Unborn
    <2>2. Units(Dues) = {}
      BY <2>1 DEF Units, Dues
    <2>3. Total(Dues) = 0
      BY <2>2, FS_EmptySet DEF Total
    <2>4. PICK c \in Nat : c = Cardinality(Unpaid)
      BY UnpaidFinite DEF Init
    <2>5. Cap \in Nat /\ Cardinality(Turns) \in Nat
      BY SizesOK, UnitsFinite
    <2>6. Cap - 1 + Cardinality(Turns) + c \in Int
      BY <2>5
    <2>7. Ceiling \in Nat
      BY <2>4, <2>6, AtLeastZero DEF Ceiling
    <2>8. QED
      BY <2>1, <2>3, <2>7 DEF Capped, OneAhead
  <1>2. (Inv /\ Told) /\ (Inv /\ Told)' /\ Capped /\ [Next]_vars => Capped'
    BY CappedStep
  <1>3. (Inv /\ Told) /\ Capped => CapHolds
    <2> SUFFICES ASSUME Inv, Capped PROVE CapHolds
      OBVIOUS
    <2>1. \A t \in Turns : made[t] <= Dues[t]
      BY DuesTyped DEF Dues
    <2>2. Total(made) <= Total(Dues) /\ Total(made) \in Nat /\ Total(Dues) \in Nat
      BY <2>1, DuesTyped, TotalMonotone, UnitsFinite
    <2>3. Ceiling \in Nat
      <3>1. PICK c \in Nat : c = Cardinality(Unpaid)
        BY UnpaidFinite DEF Inv, TypeOK
      <3>2. Cap - 1 + Cardinality(Turns) + c \in Int
        BY SizesOK, UnitsFinite
      <3>3. QED
        BY <3>1, <3>2, AtLeastZero DEF Ceiling
    <2>4. Total(made) <= Ceiling
      BY <2>2, <2>3 DEF Capped
    <2>5. QED
      BY <2>4 DEF CapHolds, Ceiling
  <1>4. QED
    BY <1>1, <1>2, <1>3, InvAlways, PTL DEF Spec
=============================================================================
