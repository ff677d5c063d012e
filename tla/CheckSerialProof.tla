---------------------------- MODULE CheckSerialProof ---------------------------
(***************************************************************************)
(* Proofs about CheckBatch when requests on the session come one at a time *)
(* (~Overlap), for any number of turns, questions and batches: each        *)
(* question graded at most once, one follow-up per batch, no batch         *)
(* displaced, no save over a newer grade, the refinement of Quiz, and,     *)
(* with one turn at a time, the honest history of CheckHistory.  The run   *)
(* check_double_grade shows that the hypothesis is needed.                 *)
(***************************************************************************)
EXTENDS CheckBatchProof, CheckHistory

(* At most one request is in flight; the tutor turns still interleave.      *)
Solo == \A r, q \in Requests :
            req[r].at # "idle" /\ req[q].at # "idle" => r = q

(* So the batch a request is about to settle is still the open one, at the  *)
(* same question: a turn can at most have linked it meanwhile.              *)
CopyFresh ==
    \A r \in Requests :
        (req[r].at = "loaded" /\ req[r].copy.pc # NoBatch) =>
            /\ row.pc # NoBatch
            /\ row.pc.id = req[r].copy.pc.id
            /\ row.pc.cur = req[r].copy.pc.cur

(* Nothing is graded before its turn comes.                                 *)
Ungraded ==
    /\ \A b \in BatchIds, i \in Items : b > minted => graded[b][i] = 0
    /\ row.pc # NoBatch =>
          /\ row.pc.id <= minted
          /\ \A i \in Items : i >= row.pc.cur => graded[row.pc.id][i] = 0

(* Nothing is reacted to before it is cleared, and a request that completes *)
(* a batch holds the open one until it clears it.                           *)
Unreacted ==
    /\ \A b \in BatchIds : b > minted => followups[b] = 0
    /\ row.pc # NoBatch => followups[row.pc.id] = 0

Completing ==
    \A r \in Requests :
        /\ req[r].at \in {"resolved", "clear"} =>
              row.pc # NoBatch /\ row.pc.id = req[r].held.id
        /\ req[r].at = "followup" =>
              /\ followups[req[r].held.id] = 0
              /\ req[r].held.id <= minted
              /\ row.pc # NoBatch => row.pc.id # req[r].held.id

Counted == Ungraded /\ Unreacted /\ GradedOnce /\ FollowupOnce
SerialInv == Typed /\ Solo /\ CopyFresh /\ Completing /\ Counted

-----------------------------------------------------------------------------
(* A step of the in-flight request is a step of the only one.               *)

LEMMA SerialInit == Init => SerialInv
  <1> SUFFICES ASSUME Init PROVE SerialInv
    OBVIOUS
  <1>1. row.pc = NoBatch /\ \A r \in Requests : req[r].at = "idle"
    BY DEF Init, Idle
  <1>2. Solo /\ CopyFresh /\ Completing
    BY <1>1 DEF Solo, CopyFresh, Completing
  <1>3. Counted
    BY <1>1, SizesOK DEF Init, Counted, Ungraded, Unreacted, GradedOnce, FollowupOnce
  <1>4. QED
    BY <1>2, <1>3, InitTyped DEF SerialInv

(* A request may only start when none is in flight.                         *)
LEMMA SerialStart ==
    ASSUME SerialInv, ~Overlap, NEW r \in Requests, Submit(r)
    PROVE  Solo' /\ CopyFresh' /\ Completing' /\ Counted'
  <1>1. /\ \A q \in Requests : req[q].at = "idle"
        /\ \A q \in Requests : q # r => req'[q] = req[q]
        /\ row'.pc = row.pc
        /\ UNCHANGED <<minted, graded, followups>>
    BY DEF Submit, Load, ClaimEnd, Goto, Quiet, SerialInv, Typed, TypeOK, ledger, Row
  <1>2. Solo' /\ Counted'
    BY <1>1 DEF Solo, Counted, Ungraded, Unreacted, GradedOnce, FollowupOnce, SerialInv
  <1>3. \/ req'[r].at = "loaded" /\ req'[r].copy = row
        \/ req'[r].at = "claimed"
    <2>1. ASSUME NEW op, NEW i, NEW right, Load(r, op, i, right)
          PROVE  req'[r].at = "loaded" /\ req'[r].copy = row
      BY <2>1 DEF Load, SerialInv, Typed, TypeOK, Idle
    <2>2. ASSUME ClaimEnd(r)
          PROVE  req'[r].at = "claimed"
      BY <2>2 DEF ClaimEnd, Goto, SerialInv, Typed, TypeOK
    <2>3. QED
      BY <2>1, <2>2 DEF Submit
  <1>4. QED
    BY <1>1, <1>2, <1>3 DEF CopyFresh, Completing

(* Answer and skip move the batch they settle, and only it, by one question.*)
LEMMA SerialSettle ==
    ASSUME SerialInv, NEW r \in Requests, Answer(r) \/ Skip(r)
    PROVE  Solo' /\ CopyFresh' /\ Completing' /\ Counted'
  <1> DEFINE b == req[r].copy.pc
  <1>1. /\ req[r].at = "loaded" /\ req[r].copy \in Row
        /\ b \in Batch /\ b.cur < NItems
        /\ row.pc # NoBatch /\ row.pc.id = b.id /\ row.pc.cur = b.cur
    BY DEF Answer, Skip, Accepts, SerialInv, Typed, CopyHeld, CopyFresh, Row
  <1>2. /\ row'.pc \in Batch
        /\ row'.pc.id = b.id
        /\ row'.pc.cur = b.cur + 1
    <2>1. CASE Answer(r)
      <3> DEFINE o == IF req[r].right THEN "right" ELSE "wrong"
      <3>1. o \in Statuses /\ row'.pc = Settle(b, o)
        BY <2>1 DEF Answer, Statuses, SerialInv, Typed, TypeOK, Row
      <3>2. QED
        BY <1>1, <3>1, SettleType
    <2>2. CASE Skip(r)
      <3>1. "skipped" \in Statuses /\ row'.pc = Settle(b, "skipped")
        BY <2>2 DEF Skip, Statuses, SerialInv, Typed, TypeOK, Row
      <3>2. QED
        BY <1>1, <3>1, SettleType
    <2>3. QED
      BY <2>1, <2>2
  <1>3. /\ req'[r].at = "settled"
        /\ \A q \in Requests : q # r => req'[q] = req[q] /\ req[q].at = "idle"
        /\ UNCHANGED <<minted, followups>>
    <2>1. /\ req' = [req EXCEPT ![r].at = "settled", ![r].copy = Expired]
          /\ UNCHANGED <<minted, followups>>
      BY DEF Answer, Skip
    <2>2. \A q \in Requests : q # r => req[q].at = "idle"
      BY <1>1 DEF SerialInv, Solo
    <2>3. QED
      BY <2>1, <2>2 DEF SerialInv, Typed, TypeOK
  <1>4. Solo' /\ CopyFresh' /\ Completing'
    BY <1>3 DEF Solo, CopyFresh, Completing
  <1>5. /\ b.id \in BatchIds /\ b.cur \in Items /\ minted \in Nat
        /\ row'.pc # NoBatch
    <2>1. minted \in Nat
      BY SizesOK DEF SerialInv, Typed, TypeOK
    <2>2. b.id \in BatchIds /\ b.cur \in 0 .. NItems
      BY <1>1 DEF Batch
    <2>3. b.cur \in Items
      BY <1>1, <2>2, SizesOK DEF Items
    <2>4. QED
      BY <1>2, <2>1, <2>2, <2>3, NullsOK
  <1>6. /\ \A c \in BatchIds, i \in Items :
              graded'[c][i] # graded[c][i] => c = b.id /\ i = b.cur /\ graded'[c][i] <= 1
    <2>1. CASE Answer(r)
      <3>1. graded' = [graded EXCEPT ![b.id][b.cur] = Bump(@)]
        BY <2>1 DEF Answer
      <3>2. graded[b.id][b.cur] = 0 /\ Bump(0) <= 1
        BY <1>1, <1>5, SizesOK DEF SerialInv, Counted, Ungraded, Bump, Items
      <3>3. QED
        BY <1>5, <3>1, <3>2 DEF SerialInv, Typed, TypeOK
    <2>2. CASE Skip(r)
      BY <2>2 DEF Skip, ledger
    <2>3. QED
      BY <2>1, <2>2
  <1>7. Ungraded'
    <2>1. \A c \in BatchIds, i \in Items : c > minted => graded'[c][i] = 0
      BY <1>1, <1>5, <1>6 DEF SerialInv, Counted, Ungraded, BatchIds
    <2>2. \A i \in Items : i >= b.cur + 1 => graded'[b.id][i] = 0
      BY <1>1, <1>5, <1>6 DEF SerialInv, Counted, Ungraded, Items
    <2>3. QED
      BY <1>1, <1>2, <1>3, <2>1, <2>2 DEF SerialInv, Counted, Ungraded
  <1>8. GradedOnce'
    BY <1>6 DEF SerialInv, Counted, GradedOnce
  <1>9. Unreacted' /\ FollowupOnce'
    BY <1>1, <1>2, <1>3 DEF SerialInv, Counted, Unreacted, FollowupOnce
  <1>10. QED
    BY <1>4, <1>7, <1>8, <1>9 DEF Counted

(* The steps that neither move the open batch nor change a count.           *)
LEMMA SerialIdleStep ==
    ASSUME SerialInv, NEW r \in Requests,
           \/ Refuse(r) \/ Reload(r) \/ WriteRecap(r) \/ GradeLoad(r)
           \/ GradeLevel(r) \/ CompleteRecap(r) \/ SummaryLoad(r)
    PROVE  Solo' /\ CopyFresh' /\ Completing' /\ Counted'
  <1>1. /\ row'.pc = row.pc
        /\ UNCHANGED <<minted, graded, followups>>
    BY DEF Refuse, Reload, WriteRecap, GradeLoad, GradeLevel, CompleteRecap, SummaryLoad,
           ledger, SerialInv, Typed, TypeOK, Row
  <1>2. /\ req[r].at # "idle"
        /\ \A q \in Requests : q # r => req'[q] = req[q]
    BY DEF Refuse, Reload, WriteRecap, GradeLoad, GradeLevel, CompleteRecap, SummaryLoad,
           Finish, Goto, SerialInv, Typed, TypeOK
  <1>3. /\ req'[r].at \in {"idle", "recap", "grade", "level", "clear", "summary"}
        /\ req'[r].at = "clear" => req[r].at = "resolved" /\ req'[r].held = req[r].held
    <2>1. CASE Refuse(r) \/ GradeLevel(r)
      BY <2>1 DEF Refuse, GradeLevel, Finish, Idle, SerialInv, Typed, TypeOK
    <2>2. CASE GradeLoad(r)
      <3> DEFINE c == Seen(r)
      <3>1. \/ req' = [req EXCEPT ![r] = Idle]
            \/ req' = [req EXCEPT ![r].at = "level", ![r].copy = c]
        BY <2>2 DEF GradeLoad, Finish
      <3> HIDE DEF c
      <3>2. ASSUME req' = [req EXCEPT ![r] = Idle]
            PROVE  req'[r].at = "idle"
        BY <3>2 DEF Idle, SerialInv, Typed, TypeOK
      <3>3. ASSUME req' = [req EXCEPT ![r].at = "level", ![r].copy = c]
            PROVE  req'[r].at = "level"
        BY <3>3 DEF SerialInv, Typed, TypeOK
      <3>4. QED
        BY <3>1, <3>2, <3>3
    <2>3. CASE CompleteRecap(r)
      BY <2>3 DEF CompleteRecap, Goto, SerialInv, Typed, TypeOK
    <2>4. CASE Reload(r) \/ WriteRecap(r) \/ SummaryLoad(r)
      <3>1. ASSUME NEW where, NEW c, req' = [req EXCEPT ![r].at = where, ![r].copy = c]
            PROVE  req'[r].at = where
        BY <3>1 DEF SerialInv, Typed, TypeOK
      <3>2. CASE Reload(r)
        BY <3>1, <3>2 DEF Reload
      <3>3. CASE WriteRecap(r)
        BY <3>1, <3>3 DEF WriteRecap
      <3>4. CASE SummaryLoad(r)
        BY <3>1, <3>4 DEF SummaryLoad
      <3>5. QED
        BY <2>4, <3>2, <3>3, <3>4
    <2>5. QED
      BY <2>1, <2>2, <2>3, <2>4
  <1>4. \A q \in Requests : q # r => req'[q].at = "idle"
    BY <1>2 DEF SerialInv, Solo
  <1>5. Solo' /\ CopyFresh' /\ Completing'
    BY <1>1, <1>3, <1>4 DEF SerialInv, Solo, CopyFresh, Completing
  <1>6. Counted'
    BY <1>1 DEF SerialInv, Counted, Ungraded, Unreacted, GradedOnce, FollowupOnce
  <1>7. QED
    BY <1>5, <1>6

(* Completing: claim, clear, react; and the summary's abandon.              *)
LEMMA SerialComplete ==
    ASSUME SerialInv, NEW r \in Requests,
           CompleteClaim(r) \/ CompleteClear(r) \/ Followup(r) \/ SummaryPersist(r)
    PROVE  Solo' /\ CopyFresh' /\ Completing' /\ Counted'
  <1>1. /\ req[r].at # "idle"
        /\ \A q \in Requests : q # r => req'[q] = req[q]
    BY DEF CompleteClaim, CompleteClear, Followup, SummaryPersist, Finish,
           SerialInv, Typed, TypeOK
  <1>2. \A q \in Requests : q # r => req'[q].at = "idle"
    BY <1>1 DEF SerialInv, Solo
  <1>3. CASE CompleteClaim(r)
    <2>1. /\ row'.pc = row.pc
          /\ UNCHANGED <<minted, graded, followups>>
      BY <1>3 DEF CompleteClaim, ledger, SerialInv, Typed, TypeOK, Row
    <2>2. req'[r].at = "resolved" /\ req'[r].held = req[r].copy.pc
      BY <1>3 DEF CompleteClaim, SerialInv, Typed, TypeOK
    <2>3. row.pc # NoBatch /\ row.pc.id = req[r].copy.pc.id
      BY <1>3 DEF CompleteClaim, Accepts, SerialInv, CopyFresh
    <2>4. Solo' /\ CopyFresh' /\ Completing'
      BY <1>2, <2>1, <2>2, <2>3 DEF Solo, CopyFresh, Completing
    <2>5. QED
      BY <2>1, <2>4 DEF SerialInv, Counted, Ungraded, Unreacted, GradedOnce, FollowupOnce
  <1>4. CASE CompleteClear(r)
    <2>1. /\ row'.pc = NoBatch
          /\ UNCHANGED <<minted, graded, followups>>
      BY <1>4 DEF CompleteClear, Cleared, ledger, SerialInv, Typed, TypeOK, Row
    <2>2. req'[r].at = "followup" /\ req'[r].held = req[r].held /\ req[r].at = "clear"
      BY <1>4 DEF CompleteClear, SerialInv, Typed, TypeOK
    <2>3. followups[req[r].held.id] = 0 /\ req[r].held.id <= minted
      BY <2>2 DEF SerialInv, Completing, Counted, Unreacted, Ungraded
    <2>4. Solo' /\ CopyFresh' /\ Completing'
      BY <1>2, <2>1, <2>2, <2>3 DEF Solo, CopyFresh, Completing
    <2>5. QED
      BY <2>1, <2>4 DEF SerialInv, Counted, Ungraded, Unreacted, GradedOnce, FollowupOnce
  <1>5. CASE Followup(r)
    <2> DEFINE b == req[r].held.id
    <2>1. /\ b \in BatchIds /\ followups[b] = 0 /\ b <= minted
          /\ row.pc # NoBatch => row.pc.id # b
      BY <1>5 DEF Followup, SerialInv, Typed, CopyHeld, Completing, Batch
    <2>2. /\ followups' = [followups EXCEPT ![b] = Bump(@)] \/ followups' = followups
          /\ req'[r] = Idle
          /\ UNCHANGED <<row, minted, graded>>
      BY <1>5 DEF Followup, Finish, ledger, SerialInv, Typed, TypeOK
    <2>3. Bump(0) <= 1
      BY SizesOK DEF Bump
    <2>4. \A c \in BatchIds : followups'[c] = followups[c] \/ (c = b /\ followups'[c] <= 1)
      BY <2>1, <2>2, <2>3 DEF SerialInv, Typed, TypeOK
    <2>5. minted \in Nat /\ (row.pc # NoBatch => row.pc.id \in BatchIds)
      BY SizesOK DEF SerialInv, Typed, TypeOK, Row, Batch
    <2>6. Unreacted' /\ FollowupOnce'
      BY <2>1, <2>2, <2>4, <2>5
      DEF SerialInv, Counted, Unreacted, FollowupOnce, BatchIds
    <2>7. Solo' /\ CopyFresh' /\ Completing'
      BY <1>2, <2>2 DEF Solo, CopyFresh, Completing, Idle
    <2>8. QED
      BY <2>2, <2>6, <2>7 DEF SerialInv, Counted, Ungraded, GradedOnce
  <1>6. CASE SummaryPersist(r)
    <2>1. /\ row'.pc = row.pc \/ row'.pc = NoBatch
          /\ UNCHANGED <<minted, graded, followups>>
          /\ req'[r] = Idle
      BY <1>6 DEF SummaryPersist, Finish, ledger, SerialInv, Typed, TypeOK, Row
    <2>2. Solo' /\ CopyFresh' /\ Completing'
      BY <1>2, <2>1 DEF Solo, CopyFresh, Completing, Idle
    <2>3. QED
      BY <2>1, <2>2 DEF SerialInv, Counted, Ungraded, Unreacted, GradedOnce, FollowupOnce
  <1>7. QED
    BY <1>3, <1>4, <1>5, <1>6

(* A turn poses a batch nobody has graded or reacted to, or links the open  *)
(* one; it touches nothing else of what the requests rely on.               *)
LEMMA SerialTurn ==
    ASSUME SerialInv, NEW t \in Turns,
           Stream(t) \/ \E review \in BOOLEAN : TurnStart(t, review)
    PROVE  Solo' /\ CopyFresh' /\ Completing' /\ Counted'
  <1>1. UNCHANGED <<req, graded, followups>>
    BY DEF Stream, TurnStart, TurnReply, TutorPatch, Register, ToolRefused, NextIteration,
           PersistAsk, CancelledAsk, Attach, TurnClose, ledger
  <1>2. CASE Register(t)
    <2>1. /\ row.pc = NoBatch
          /\ row'.pc = NewBatch(t)
          /\ minted' = minted + 1
          /\ minted < MaxBatches
      BY <1>2 DEF Register, MayRegister, SerialInv, Typed, TypeOK, Row
    <2>2. /\ NewBatch(t).id = minted + 1
          /\ minted \in Nat /\ minted + 1 \in BatchIds
      BY <2>1, NewBatchType, SizesOK DEF SerialInv, Typed, TypeOK, BatchIds
    <2>3. Ungraded' /\ Unreacted'
      BY <1>1, <2>1, <2>2 DEF SerialInv, Counted, Ungraded, Unreacted, BatchIds
    <2>4. Solo' /\ CopyFresh'
      BY <1>1, <2>1 DEF SerialInv, Solo, CopyFresh
    <2>5. Completing'
      <3>1. \A r \in Requests : req[r].at = "followup" => req[r].held.id \in BatchIds
        BY DEF SerialInv, Typed, CopyHeld, Batch
      <3>2. QED
        BY <1>1, <2>1, <2>2, <3>1 DEF SerialInv, Completing, BatchIds
    <2>6. QED
      BY <1>1, <2>3, <2>4, <2>5 DEF SerialInv, Counted, GradedOnce, FollowupOnce
  <1>3. CASE ~Register(t)
    <2>1. /\ minted' = minted
          /\ row.pc = NoBatch => row'.pc = NoBatch
          /\ row.pc # NoBatch => /\ row'.pc # NoBatch
                                 /\ row'.pc.id = row.pc.id
                                 /\ row'.pc.cur = row.pc.cur
      <3>1. CASE Attach(t) /\ row.pc # NoBatch
        <4>1. row.pc \in Batch /\ turn[t].batch \in 0 .. MaxBatches
          BY <3>1 DEF SerialInv, Typed, TypeOK, Row, Turn
        <4>2. /\ row'.pc = [row.pc EXCEPT !.link = turn[t].batch]
              /\ minted' = minted
          BY <3>1 DEF Attach, SerialInv, Typed, TypeOK, Row
        <4>3. row'.pc \in Batch
          BY <4>1, <4>2 DEF Batch
        <4>4. QED
          BY <3>1, <4>1, <4>2, <4>3, NullsOK DEF Batch
      <3>2. CASE ~(Attach(t) /\ row.pc # NoBatch)
        BY <1>3, <3>2, TurnStill DEF SerialInv
      <3>3. QED
        BY <3>1, <3>2
    <2>2. Solo' /\ CopyFresh' /\ Completing'
      BY <1>1, <2>1 DEF SerialInv, Solo, CopyFresh, Completing
    <2>3. QED
      BY <1>1, <2>1, <2>2
      DEF SerialInv, Counted, Ungraded, Unreacted, GradedOnce, FollowupOnce
  <1>4. QED
    BY <1>2, <1>3

LEMMA SerialRest ==
    ASSUME SerialInv, ~Overlap, PatchProfile \/ Reopen \/ Crash \/ UNCHANGED vars
    PROVE  Solo' /\ CopyFresh' /\ Completing' /\ Counted'
  <1>1. /\ row'.pc = row.pc
        /\ UNCHANGED <<minted, graded, followups>>
    BY RestStill DEF SerialInv
  <1>2. req' = req \/ \A r \in Requests : req'[r].at = "idle"
    BY RestStill DEF Crash, Idle, SerialInv
  <1>3. QED
    BY <1>1, <1>2 DEF SerialInv, Solo, CopyFresh, Completing, Counted, Ungraded,
                      Unreacted, GradedOnce, FollowupOnce

LEMMA SerialStep ==
    ASSUME SerialInv, ~Overlap, [Next]_vars
    PROVE  SerialInv'
  <1>1. Typed'
    BY TypedStep DEF SerialInv
  <1>2. Solo' /\ CopyFresh' /\ Completing' /\ Counted'
    <2>1. CASE \E r \in Requests : Submit(r) \/ Proceed(r)
      BY <2>1, SerialStart, SerialSettle, SerialIdleStep, SerialComplete DEF Proceed
    <2>2. CASE \/ \E t \in Turns, review \in BOOLEAN : TurnStart(t, review)
               \/ \E t \in Turns : Stream(t)
      BY <2>2, SerialTurn
    <2>3. CASE PatchProfile \/ Reopen \/ Crash \/ UNCHANGED vars
      BY <2>3, SerialRest
    <2>4. QED
      BY <2>1, <2>2, <2>3 DEF Next
  <1>3. QED
    BY <1>1, <1>2 DEF SerialInv

LEMMA SerialAlways ==
    ASSUME ~Overlap
    PROVE  Spec => []SerialInv
  <1>1. SerialInv /\ [Next]_vars => SerialInv'
    BY SerialStep
  <1>2. QED
    BY <1>1, SerialInit, PTL DEF Spec

-----------------------------------------------------------------------------
\* answer() grades a question at most once as long as requests on the session
\* do not overlap, whatever tutor turns and restarts come between (F-24).
THEOREM SerialGradedOnce ==
    ASSUME ~Overlap
    PROVE  Spec => []GradedOnce
  <1>1. SerialInv => GradedOnce
    BY DEF SerialInv, Counted
  <1>2. QED
    BY <1>1, SerialAlways, PTL

\* complete_check reacts to a batch at most once under the same hypothesis (B-02).
THEOREM SerialFollowupOnce ==
    ASSUME ~Overlap
    PROVE  Spec => []FollowupOnce
  <1>1. SerialInv => FollowupOnce
    BY DEF SerialInv, Counted
  <1>2. QED
    BY <1>1, SerialAlways, PTL

\* Nothing replaces an open batch by another one, under the same hypothesis: a
\* tutor turn cannot pose over it, and a request never writes back an older one.
THEOREM SerialNoBatchDisplaced ==
    ASSUME ~Overlap
    PROVE  Spec => NoBatchDisplaced
  <1> DEFINE Undisplaced == row.pc # NoBatch /\ row'.pc # NoBatch => row'.pc.id = row.pc.id
  <1>1. ASSUME SerialInv, [Next]_vars
        PROVE  Undisplaced
    <2>1. ASSUME NEW r \in Requests, Answer(r) \/ Skip(r)
          PROVE  Undisplaced
      <3> DEFINE b == req[r].copy.pc
      <3>1. b \in Batch /\ b.cur < NItems /\ row.pc.id = b.id
        BY <1>1, <2>1 DEF Answer, Skip, Accepts, SerialInv, Typed, CopyHeld, CopyFresh, Row
      <3>2. \E o \in Statuses : row'.pc = Settle(b, o)
        BY <1>1, <2>1 DEF Answer, Skip, Statuses, SerialInv, Typed, TypeOK, Row
      <3>3. QED
        BY <3>1, <3>2, SettleType
    <2>2. ASSUME NEW r \in Requests, Submit(r) \/ Proceed(r), ~Answer(r), ~Skip(r)
          PROVE  Undisplaced
      <3>1. row'.pc \in {row.pc, NoBatch}
        BY <1>1, <2>2 DEF Submit, Load, ClaimEnd, Proceed, Refuse, Reload, WriteRecap, GradeLoad,
                    GradeLevel, CompleteClaim, CompleteRecap, CompleteClear, Cleared,
                    Followup, SummaryLoad, SummaryPersist, SerialInv, Typed, TypeOK, Row
      <3>2. QED
        BY <3>1
    <2>3. ASSUME NEW t \in Turns, Stream(t) \/ \E review \in BOOLEAN : TurnStart(t, review)
          PROVE  Undisplaced
      <3>1. CASE Register(t)
        BY <3>1 DEF Register, MayRegister
      <3>2. CASE Attach(t) /\ row.pc # NoBatch
        <4>1. row'.pc = [row.pc EXCEPT !.link = turn[t].batch] /\ row.pc \in Batch
          BY <1>1, <3>2 DEF Attach, SerialInv, Typed, TypeOK, Row
        <4>2. QED
          BY <4>1 DEF Batch
      <3>3. CASE ~Register(t) /\ ~(Attach(t) /\ row.pc # NoBatch)
        BY <1>1, <2>3, <3>3, TurnStill DEF SerialInv
      <3>4. QED
        BY <3>1, <3>2, <3>3
    <2>4. ASSUME PatchProfile \/ Reopen \/ Crash \/ UNCHANGED vars
          PROVE  Undisplaced
      <3>1. row'.pc = row.pc
        BY <1>1, <2>4, RestStill DEF SerialInv
      <3>2. QED
        BY <3>1
    <2>5. QED
      BY <1>1, <2>1, <2>2, <2>3, <2>4 DEF Next
  <1>2. SerialInv /\ [Next]_vars => [Undisplaced]_vars
    BY <1>1
  <1>3. QED
    BY <1>2, SerialAlways, PTL DEF Spec, NoBatchDisplaced

-----------------------------------------------------------------------------
(* What a request believes of the row and may rely on when it acts: the     *)
(* verdict on the gap it copied stands unless tutor or learner have moved   *)
(* it since, a level it has seen is still some level, and the batch it      *)
(* settles or completes is the open one but for the link a turn may have    *)
(* stamped on it.                                                           *)

Linked(b, c) == c # NoBatch /\ c = [b EXCEPT !.link = c.link]

(* A diagnostic with evidence is graded before the request that clears it   *)
(* lets the batch go, and a summary is only written for an ended session.   *)
Trusted(prof) ==
    /\ newest # "told" => prof.mark = row.prof.mark
    /\ prof.level # "none" => row.prof.level # "none"

FreshCopy(r) ==
    /\ req[r].at = "idle" => req[r].copy = Expired
    /\ req[r].copy # Expired => Trusted(req[r].copy.prof)
    /\ (req[r].at = "loaded" /\ req[r].copy.pc # NoBatch) => Linked(req[r].copy.pc, row.pc)
    /\ req[r].at \in {"resolved", "clear"} =>
          /\ Linked(req[r].held, row.pc)
          /\ IsDone(row.pc)
          /\ Gradable(row.pc) => row.prof.level # "none"
    /\ req[r].at \in {"claimed", "summary"} => row.ended

Fresh == MasteryFollowsNewest /\ \A r \in Requests : FreshCopy(r)

(* A link changes nothing the guards look at.                               *)
LEMMA LinkedSame ==
    ASSUME NEW b \in Batch, NEW c \in Batch, Linked(b, c)
    PROVE  /\ c.id = b.id /\ c.cur = b.cur /\ c.status = b.status /\ c.purpose = b.purpose
           /\ Gradable(c) <=> Gradable(b)
           /\ \A n \in 0 .. MaxBatches : Linked(b, [c EXCEPT !.link = n])
  <1>1. /\ c.id = b.id /\ c.cur = b.cur
        /\ c.status = b.status /\ c.purpose = b.purpose
    BY DEF Linked, Batch
  <1>2. Gradable(c) <=> Gradable(b)
    BY <1>1, NullsOK DEF Gradable, IsDone
  <1>3. ASSUME NEW n \in 0 .. MaxBatches
        PROVE  Linked(b, [c EXCEPT !.link = n])
    <2>1. [c EXCEPT !.link = n] \in Batch
      BY DEF Batch
    <2>2. [c EXCEPT !.link = n] = [b EXCEPT !.link = n]
      BY <1>1 DEF Batch
    <2>3. [c EXCEPT !.link = n].link = n
      BY DEF Batch
    <2>4. QED
      BY <2>1, <2>2, <2>3, NullsOK DEF Linked
  <1>4. QED
    BY <1>1, <1>2, <1>3

LEMMA FreshInit == Init => Fresh
  BY DEF Init, Idle, Fresh, FreshCopy, MasteryFollowsNewest

(* The requests that do not take the step are idle and believe nothing.     *)
LEMMA OthersFresh ==
    ASSUME SerialInv, Fresh, NEW r \in Requests, req[r].at # "idle",
           \A q \in Requests : q # r => req'[q] = req[q]
    PROVE  \A q \in Requests : q # r => FreshCopy(q)'
  <1> SUFFICES ASSUME NEW q \in Requests, q # r PROVE FreshCopy(q)'
    OBVIOUS
  <1>1. req[q].at = "idle" /\ req[q].copy = Expired
    BY DEF SerialInv, Solo, Fresh, FreshCopy
  <1>2. req'[q].at = "idle" /\ req'[q].copy = Expired
    BY <1>1
  <1>3. QED
    BY <1>2 DEF FreshCopy

LEMMA FreshStart ==
    ASSUME SerialInv, Fresh, ~Overlap, NEW r \in Requests, Submit(r)
    PROVE  Fresh'
  <1>1. /\ \A q \in Requests : req[q].at = "idle"
        /\ \A q \in Requests : q # r => req'[q] = req[q]
        /\ row'.pc = row.pc /\ row'.prof = row.prof
        /\ newest' = newest
    BY DEF Submit, Load, ClaimEnd, Goto, Quiet, SerialInv, Typed, TypeOK, ledger, Row
  <1>2. ASSUME NEW q \in Requests, q # r
        PROVE  FreshCopy(q)'
    BY <1>1, <1>2 DEF Fresh, FreshCopy
  <1>3. FreshCopy(r)'
    <2>1. ASSUME NEW op, NEW i, NEW right, Load(r, op, i, right)
          PROVE  FreshCopy(r)'
      <3>1. req'[r].at = "loaded" /\ req'[r].copy = row /\ row' = row
        BY <2>1 DEF Load, SerialInv, Typed, TypeOK, Idle
      <3>2. row.pc # NoBatch => Linked(row.pc, row.pc)
        BY DEF Linked, SerialInv, Typed, TypeOK, Row, Batch
      <3>3. QED
        BY <3>1, <3>2 DEF FreshCopy, Trusted
    <2>2. ASSUME ClaimEnd(r)
          PROVE  FreshCopy(r)'
      <3>1. req'[r].at = "claimed" /\ req'[r].copy = Expired /\ row'.ended
        BY <2>2 DEF ClaimEnd, Goto, SerialInv, Typed, TypeOK, Row, Fresh, FreshCopy
      <3>2. QED
        BY <3>1 DEF FreshCopy
    <2>3. QED
      BY <2>1, <2>2 DEF Submit
  <1>4. QED
    BY <1>1, <1>2, <1>3 DEF Fresh, MasteryFollowsNewest

(* Settling a question: the effect on the gap is the newest event's.        *)
LEMMA FreshSettle ==
    ASSUME SerialInv, Fresh, NEW r \in Requests, Answer(r) \/ Skip(r)
    PROVE  Fresh'
  <1>1. /\ req[r].at = "loaded" /\ req[r].copy \in Row /\ row \in Row
        /\ req[r].right \in BOOLEAN
    BY NullsOK DEF Answer, Skip, SerialInv, Typed, TypeOK, CopyHeld, Request, Fresh, FreshCopy
  <1>2. /\ req'[r].at = "settled" /\ req'[r].copy = Expired
        /\ \A q \in Requests : q # r => req'[q] = req[q]
    <2>1. req' = [req EXCEPT ![r].at = "settled", ![r].copy = Expired]
      BY DEF Answer, Skip
    <2>2. QED
      BY <2>1 DEF SerialInv, Typed, TypeOK
  <1>3. \A q \in Requests : FreshCopy(q)'
    BY <1>1, <1>2, OthersFresh DEF FreshCopy
  <1>4. \/ row'.prof = row.prof /\ newest' = newest
        \/ /\ row'.prof = Effect(req[r].copy.prof, req[r].right)
           /\ newest' = IF req[r].right THEN "mastered" ELSE "gap"
    <2>1. CASE Answer(r) /\ req[r].copy.pc.purpose = "diagnostic"
      BY <1>1, <2>1 DEF Answer, Row
    <2>2. CASE Answer(r) /\ req[r].copy.pc.purpose # "diagnostic"
      <3>1. row' = [row EXCEPT !.pc = row'.pc, !.prof = Effect(req[r].copy.prof, req[r].right)]
        BY <1>1, <2>2 DEF Answer, Row
      <3>2. newest' = IF req[r].right THEN "mastered" ELSE "gap"
        BY <2>2 DEF Answer
      <3>3. QED
        BY <1>1, <3>1, <3>2 DEF Row
    <2>3. CASE Skip(r)
      BY <1>1, <2>3 DEF Skip, ledger, Row
    <2>4. QED
      BY <2>1, <2>2, <2>3
  <1>5. MasteryFollowsNewest'
    BY <1>1, <1>4 DEF Effect, Row, Profile, Fresh, MasteryFollowsNewest
  <1>6. QED
    BY <1>3, <1>5 DEF Fresh

(* The steps on the way from a settled question to its recap and level.     *)
LEMMA FreshGrade ==
    ASSUME SerialInv, Fresh, NEW r \in Requests,
           \/ Refuse(r) \/ Reload(r) \/ WriteRecap(r) \/ GradeLoad(r)
           \/ GradeLevel(r) \/ SummaryLoad(r)
    PROVE  Fresh'
  <1>1. /\ row \in Row
        /\ req[r].copy \in Row \cup {Expired}
        /\ Expired \notin Row
    BY NullsOK DEF SerialInv, Typed, TypeOK, Request
  <1>2. /\ req[r].at # "idle"
        /\ \A q \in Requests : q # r => req'[q] = req[q]
        /\ newest' = newest
    BY DEF Refuse, Reload, WriteRecap, GradeLoad, GradeLevel, SummaryLoad,
           Finish, ledger, SerialInv, Typed, TypeOK
  <1>3. newest # "told" => row'.prof.mark = row.prof.mark
    <2>1. CASE GradeLevel(r)
      <3>1. req[r].copy \in Row /\ Trusted(req[r].copy.prof)
        BY <1>1, <2>1 DEF GradeLevel, SerialInv, Typed, CopyHeld, Fresh, FreshCopy
      <3>2. QED
        BY <1>1, <2>1, <3>1 DEF GradeLevel, Row, Profile, Trusted
    <2>2. CASE ~GradeLevel(r)
      BY <2>2 DEF Refuse, Reload, WriteRecap, GradeLoad, SummaryLoad
    <2>3. QED
      BY <2>1, <2>2
  <1>4. FreshCopy(r)'
    <2>1. ASSUME req'[r] = Idle
          PROVE  FreshCopy(r)'
      BY <2>1 DEF FreshCopy, Idle
    <2>2. ASSUME NEW where \in {"recap", "grade", "level"}, NEW c \in Row \cup {Expired},
                 req'[r].at = where, req'[r].copy = c, row' = row,
                 c # Expired => Trusted(c.prof)
          PROVE  FreshCopy(r)'
      BY <1>2, <2>2 DEF FreshCopy, Trusted
    <2>3. CASE Refuse(r) \/ GradeLevel(r)
      <3>1. req'[r] = Idle
        BY <2>3 DEF Refuse, GradeLevel, Finish, SerialInv, Typed, TypeOK
      <3>2. QED
        BY <2>1, <3>1
    <2>4. CASE Reload(r)
      <3>1. req'[r].at = "recap" /\ req'[r].copy = row /\ row' = row
        BY <2>4 DEF Reload, SerialInv, Typed, TypeOK
      <3>2. QED
        BY <1>1, <2>2, <3>1 DEF Trusted
    <2>5. CASE WriteRecap(r)
      <3>1. /\ req'[r].at = "grade" /\ req'[r].copy \in {req[r].copy, Expired}
            /\ row' = row
        BY <2>5 DEF WriteRecap, SerialInv, Typed, TypeOK
      <3>2. QED
        BY <1>1, <2>2, <3>1 DEF Fresh, FreshCopy
    <2>6. CASE GradeLoad(r)
      <3> DEFINE c == Seen(r)
      <3>1. c \in Row /\ Trusted(c.prof)
        BY <1>1 DEF Seen, Fresh, FreshCopy, Trusted
      <3>2. /\ \/ req' = [req EXCEPT ![r] = Idle]
               \/ req' = [req EXCEPT ![r].at = "level", ![r].copy = c]
            /\ row' = row
        BY <2>6 DEF GradeLoad, Finish
      <3> HIDE DEF c
      <3>3. ASSUME req' = [req EXCEPT ![r] = Idle]
            PROVE  req'[r] = Idle
        BY <3>3 DEF SerialInv, Typed, TypeOK
      <3>4. ASSUME req' = [req EXCEPT ![r].at = "level", ![r].copy = c]
            PROVE  req'[r].at = "level" /\ req'[r].copy = c
        BY <3>4 DEF SerialInv, Typed, TypeOK
      <3>5. QED
        BY <2>1, <2>2, <3>1, <3>2, <3>3, <3>4
    <2>7. CASE SummaryLoad(r)
      <3>1. /\ req[r].at = "claimed"
            /\ req'[r].at = "summary" /\ req'[r].copy = row /\ row' = row
        BY <2>7 DEF SummaryLoad, SerialInv, Typed, TypeOK
      <3>2. QED
        BY <3>1 DEF Fresh, FreshCopy, Trusted
    <2>8. QED
      BY <2>3, <2>4, <2>5, <2>6, <2>7
  <1>5. QED
    BY <1>2, <1>3, <1>4, OthersFresh DEF Fresh, MasteryFollowsNewest

(* Completing: the backstop leaves a graded level behind, and the batch it  *)
(* looked at is the open one.                                               *)
LEMMA FreshClaim ==
    ASSUME SerialInv, Fresh, NEW r \in Requests, CompleteClaim(r)
    PROVE  Fresh'
  <1> DEFINE b == req[r].copy.pc
  <1>1. /\ req[r].copy \in Row /\ row \in Row /\ Expired \notin Row
        /\ b \in Batch /\ IsDone(b)
        /\ row.pc \in Batch /\ Linked(b, row.pc)
        /\ Trusted(req[r].copy.prof)
    BY NullsOK DEF CompleteClaim, Accepts, SerialInv, Typed, TypeOK, CopyHeld, Row, Fresh,
                   FreshCopy, Linked
  <1>2. /\ req'[r].at = "resolved" /\ req'[r].held = b
        /\ req'[r].copy = IF Backstop(r) THEN Expired ELSE req[r].copy
        /\ \A q \in Requests : q # r => req'[q] = req[q]
        /\ newest' = newest
    BY DEF CompleteClaim, ledger, SerialInv, Typed, TypeOK
  <1>3. /\ row'.pc = row.pc
        /\ row'.prof = IF Backstop(r) THEN [req[r].copy.prof EXCEPT !.level = "graded"]
                                      ELSE row.prof
    BY <1>1 DEF CompleteClaim, Row
  <1>4. /\ newest # "told" => row'.prof.mark = row.prof.mark
        /\ Gradable(row.pc) => row'.prof.level # "none"
    <2>1. Gradable(row.pc) <=> Gradable(b)
      BY <1>1, LinkedSame
    <2>2. req[r].copy.prof \in Profile
      BY <1>1 DEF Row
    <2>3. QED
      BY <1>1, <1>3, <2>1, <2>2 DEF Backstop, LevelOpen, Profile, Trusted
  <1>5. IsDone(row.pc)
    BY <1>1, LinkedSame DEF IsDone
  <1>6. FreshCopy(r)'
    BY <1>1, <1>2, <1>3, <1>4, <1>5 DEF FreshCopy, Trusted, Linked, IsDone, Gradable
  <1>7. \A q \in Requests : FreshCopy(q)'
    <2>1. req[r].at # "idle"
      BY DEF CompleteClaim
    <2>2. QED
      BY <1>2, <1>6, <2>1, OthersFresh
  <1>8. QED
    BY <1>2, <1>4, <1>7 DEF Fresh, MasteryFollowsNewest

LEMMA FreshComplete ==
    ASSUME SerialInv, Fresh, NEW r \in Requests,
           CompleteRecap(r) \/ CompleteClear(r) \/ Followup(r) \/ SummaryPersist(r)
    PROVE  Fresh'
  <1>1. /\ req[r].at # "idle"
        /\ \A q \in Requests : q # r => req'[q] = req[q]
        /\ newest' = newest
        /\ row \in Row /\ Expired \notin Row
    BY NullsOK DEF CompleteRecap, CompleteClear, Followup, SummaryPersist, Finish, Goto,
           ledger, SerialInv, Typed, TypeOK
  <1>2. newest # "told" => row'.prof.mark = row.prof.mark
    <2>1. CASE SummaryPersist(r)
      <3>1. req[r].copy \in Row /\ Trusted(req[r].copy.prof)
        BY <1>1, <2>1 DEF SummaryPersist, SerialInv, Typed, CopyHeld, Fresh, FreshCopy
      <3>2. QED
        BY <1>1, <2>1, <3>1 DEF SummaryPersist, Row, Trusted
    <2>2. CASE ~SummaryPersist(r)
      BY <1>1, <2>2 DEF CompleteRecap, CompleteClear, Cleared, Followup, Row
    <2>3. QED
      BY <2>1, <2>2
  <1>3. FreshCopy(r)'
    <2>1. CASE CompleteRecap(r)
      <3>1. /\ req'[r].at = "clear" /\ req[r].at = "resolved"
            /\ req'[r].held = req[r].held /\ req'[r].copy = req[r].copy
            /\ row' = row
        BY <2>1 DEF CompleteRecap, Goto, SerialInv, Typed, TypeOK
      <3>2. QED
        BY <1>1, <3>1 DEF Fresh, FreshCopy, Trusted
    <2>2. CASE CompleteClear(r)
      <3>1. req'[r].at = "followup" /\ req'[r].copy = Expired
        BY <2>2 DEF CompleteClear, SerialInv, Typed, TypeOK
      <3>2. QED
        BY <3>1 DEF FreshCopy
    <2>3. CASE Followup(r) \/ SummaryPersist(r)
      <3>1. req'[r].at = "idle" /\ req'[r].copy = Expired
        BY <2>3 DEF Followup, SummaryPersist, Finish, Idle, SerialInv, Typed, TypeOK
      <3>2. QED
        BY <3>1 DEF FreshCopy
    <2>4. QED
      BY <2>1, <2>2, <2>3
  <1>4. QED
    BY <1>1, <1>2, <1>3, OthersFresh DEF Fresh, MasteryFollowsNewest

(* A turn links the open batch or poses one where none was open, so no      *)
(* request can hold it yet; its patch declares a level or tells the gap.    *)
LEMMA FreshTurn ==
    ASSUME SerialInv, Fresh, NEW t \in Turns,
           Stream(t) \/ \E review \in BOOLEAN : TurnStart(t, review)
    PROVE  Fresh'
  <1>1. UNCHANGED req /\ row \in Row
    BY DEF Stream, TurnStart, TurnReply, TutorPatch, Register, ToolRefused, NextIteration,
           PersistAsk, CancelledAsk, Attach, TurnClose, SerialInv, Typed, TypeOK
  <1>2. /\ row'.ended = row.ended
        /\ newest' \in {newest, "told"}
        /\ newest' # "told" => row'.prof.mark = row.prof.mark
        /\ row'.prof.level \in {row.prof.level, "declared"}
    <2>1. CASE Register(t) \/ Attach(t)
      BY <1>1, <2>1 DEF Register, Attach, Row, ledger
    <2>2. CASE ~Register(t) /\ ~Attach(t)
      BY <2>2, TurnStill DEF Patched, SerialInv
    <2>3. QED
      BY <2>1, <2>2
  <1>3. \/ row'.pc = row.pc
        \/ row.pc = NoBatch
        \/ row.pc # NoBatch /\ \E n \in 0 .. MaxBatches : row'.pc = [row.pc EXCEPT !.link = n]
    <2>1. CASE Attach(t) /\ row.pc # NoBatch
      <3>1. turn[t].batch \in 0 .. MaxBatches
        BY DEF SerialInv, Typed, TypeOK, Turn
      <3>2. QED
        BY <1>1, <2>1, <3>1 DEF Attach, Row
    <2>2. CASE ~(Attach(t) /\ row.pc # NoBatch)
      BY <2>2, TurnStill DEF Register, MayRegister, SerialInv
    <2>3. QED
      BY <2>1, <2>2
  <1>4. ASSUME NEW b \in Batch, Linked(b, row.pc)
        PROVE  /\ Linked(b, row'.pc)
               /\ IsDone(row'.pc) <=> IsDone(row.pc)
               /\ Gradable(row'.pc) <=> Gradable(row.pc)
    <2>1. row.pc \in Batch /\ row.pc # NoBatch
      BY <1>1, <1>4 DEF Linked, Row
    <2>2. CASE row'.pc = row.pc
      BY <1>4, <2>2
    <2>3. ASSUME NEW n \in 0 .. MaxBatches, row'.pc = [row.pc EXCEPT !.link = n]
          PROVE  /\ Linked(b, row'.pc)
                 /\ IsDone(row'.pc) <=> IsDone(row.pc)
                 /\ Gradable(row'.pc) <=> Gradable(row.pc)
      <3>1. row'.pc \in Batch /\ Linked(row.pc, row'.pc)
        BY <2>1, <2>3, NullsOK DEF Linked, Batch
      <3>2. Linked(b, row'.pc)
        BY <1>4, <2>1, <2>3, LinkedSame
      <3>3. Gradable(row'.pc) <=> Gradable(row.pc)
        BY <2>1, <3>1, LinkedSame
      <3>4. row'.pc.cur = row.pc.cur
        BY <2>1, <3>1, LinkedSame
      <3>5. QED
        BY <3>2, <3>3, <3>4 DEF IsDone
    <2>4. QED
      BY <1>3, <2>1, <2>2, <2>3
  <1>5. ASSUME NEW r \in Requests
        PROVE  FreshCopy(r)'
    <2>1. /\ req[r].at = "loaded" => req[r].copy.pc \in Batch \cup {NoBatch}
          /\ req[r].at \in {"resolved", "clear"} => req[r].held \in Batch
      BY DEF SerialInv, Typed, CopyHeld, Row
    <2>2. FreshCopy(r)
      BY DEF Fresh
    <2>3. (req'[r].at = "loaded" /\ req'[r].copy.pc # NoBatch) => Linked(req'[r].copy.pc, row'.pc)
      BY <1>1, <1>4, <2>1, <2>2 DEF FreshCopy
    <2>4. req'[r].at \in {"resolved", "clear"} =>
              /\ Linked(req'[r].held, row'.pc)
              /\ IsDone(row'.pc)
              /\ Gradable(row'.pc) => row'.prof.level # "none"
      BY <1>1, <1>2, <1>4, <2>1, <2>2 DEF FreshCopy
    <2>5. req'[r].copy # Expired =>
              /\ newest' # "told" => req'[r].copy.prof.mark = row'.prof.mark
              /\ req'[r].copy.prof.level # "none" => row'.prof.level # "none"
      BY <1>1, <1>2, <2>2 DEF FreshCopy, Trusted
    <2>6. /\ req'[r].at = "idle" => req'[r].copy = Expired
          /\ req'[r].at \in {"claimed", "summary"} => row'.ended
      BY <1>1, <1>2, <2>2 DEF FreshCopy
    <2>7. QED
      BY <2>3, <2>4, <2>5, <2>6 DEF FreshCopy, Trusted
  <1>6. QED
    BY <1>1, <1>2, <1>5 DEF Fresh, MasteryFollowsNewest

LEMMA FreshRest ==
    ASSUME SerialInv, Fresh, ~Overlap, PatchProfile \/ Reopen \/ Crash \/ UNCHANGED vars
    PROVE  Fresh'
  <1>1. row \in Row
    BY DEF SerialInv, Typed, TypeOK
  <1>2. /\ newest' \in {newest, "told"}
        /\ newest' # "told" => row'.prof.mark = row.prof.mark
    <2>1. CASE PatchProfile
      BY <2>1, LearnerPatches DEF Patched, SerialInv
    <2>2. CASE ~PatchProfile
      BY <1>1, <2>2 DEF Reopen, Crash, vars, ledger, Row
    <2>3. QED
      BY <2>1, <2>2
  <1>3. CASE PatchProfile \/ Reopen
    <2>1. req' = req /\ \A r \in Requests : req[r].at = "idle"
      BY <1>3, LearnerPatches DEF Patched, Reopen, Quiet, SerialInv
    <2>2. \A r \in Requests : FreshCopy(r)'
      BY <2>1 DEF Fresh, FreshCopy
    <2>3. QED
      BY <1>2, <2>2 DEF Fresh, MasteryFollowsNewest
  <1>4. CASE Crash
    <2>1. \A r \in Requests : req'[r] = Idle
      BY <1>4 DEF Crash
    <2>2. \A r \in Requests : FreshCopy(r)'
      BY <2>1 DEF FreshCopy, Idle
    <2>3. QED
      BY <1>2, <2>2 DEF Fresh, MasteryFollowsNewest
  <1>5. CASE UNCHANGED vars
    BY <1>5 DEF vars, Fresh, FreshCopy, Trusted, MasteryFollowsNewest
  <1>6. QED
    BY <1>3, <1>4, <1>5

LEMMA FreshStep ==
    ASSUME SerialInv, Fresh, ~Overlap, [Next]_vars
    PROVE  Fresh'
  <1>1. CASE \E r \in Requests : Submit(r) \/ Proceed(r)
    BY <1>1, FreshStart, FreshSettle, FreshGrade, FreshClaim, FreshComplete DEF Proceed
  <1>2. CASE \/ \E t \in Turns, review \in BOOLEAN : TurnStart(t, review)
             \/ \E t \in Turns : Stream(t)
    BY <1>2, FreshTurn
  <1>3. CASE PatchProfile \/ Reopen \/ Crash \/ UNCHANGED vars
    BY <1>3, FreshRest
  <1>4. QED
    BY <1>1, <1>2, <1>3 DEF Next

LEMMA FreshAlways ==
    ASSUME ~Overlap
    PROVE  Spec => [](SerialInv /\ Fresh)
  <1>1. SerialInv /\ Fresh /\ [Next]_vars => Fresh'
    BY FreshStep
  <1>2. QED
    BY <1>1, FreshInit, SerialAlways, PTL DEF Spec

-----------------------------------------------------------------------------
\* Until the tutor or the learner moves it, the gap carries the verdict of the
\* newest graded check answer: no save of the whole profile blob (PATCH, diagnostic
\* level, summary, the tutor's own patch) undoes record_from_answer's effect while
\* requests on the session do not overlap (F-12).
THEOREM SerialMastery ==
    ASSUME ~Overlap
    PROVE  Spec => []MasteryFollowsNewest
  <1>1. SerialInv /\ Fresh => MasteryFollowsNewest
    BY DEF Fresh
  <1>2. QED
    BY <1>1, FreshAlways, PTL

(* The steps that take an open batch away.                                  *)
LEMMA BatchClosers ==
    ASSUME SerialInv, [Next]_vars, row.pc # NoBatch, row'.pc = NoBatch
    PROVE  \E r \in Requests : CompleteClear(r) \/ SummaryPersist(r)
  <1>0. row \in Row
    BY DEF SerialInv, Typed, TypeOK
  <1>1. ASSUME NEW r \in Requests, Answer(r) \/ Skip(r)
        PROVE  FALSE
    <2>1. req[r].copy.pc \in Batch /\ req[r].copy.pc.cur < NItems
      BY <1>1 DEF Answer, Skip, Accepts, SerialInv, Typed, CopyHeld, Row
    <2>2. \E o \in Statuses : row'.pc = Settle(req[r].copy.pc, o)
      BY <1>0, <1>1 DEF Answer, Skip, Statuses, Row
    <2>3. QED
      BY <2>1, <2>2, SettleType, NullsOK
  <1>2. ASSUME NEW r \in Requests, Submit(r) \/ Proceed(r), ~Answer(r), ~Skip(r),
               ~CompleteClear(r), ~SummaryPersist(r)
        PROVE  FALSE
    BY <1>0, <1>2 DEF Submit, Load, ClaimEnd, Proceed, Refuse, Reload, WriteRecap, GradeLoad,
                      GradeLevel, CompleteClaim, CompleteRecap, Followup, SummaryLoad, Row
  <1>3. ASSUME NEW t \in Turns, Stream(t) \/ \E review \in BOOLEAN : TurnStart(t, review)
        PROVE  FALSE
    <2>1. CASE Attach(t)
      <3>1. row'.pc = [row.pc EXCEPT !.link = turn[t].batch] /\ row.pc \in Batch
        BY <1>0, <2>1 DEF Attach, Row
      <3>2. turn[t].batch \in 0 .. MaxBatches
        BY DEF SerialInv, Typed, TypeOK, Turn
      <3>3. row'.pc \in Batch
        BY <3>1, <3>2 DEF Batch
      <3>4. QED
        BY <3>3, NullsOK
    <2>2. CASE ~Attach(t)
      BY <1>3, <2>2, TurnStill DEF Register, MayRegister, SerialInv
    <2>3. QED
      BY <2>1, <2>2
  <1>4. CASE PatchProfile \/ Reopen \/ Crash \/ UNCHANGED vars
    BY <1>4, RestStill DEF SerialInv
  <1>5. QED
    BY <1>1, <1>2, <1>3, <1>4 DEF Next

\* A resolved diagnostic with evidence leaves a session in progress only with a
\* level graded or declared, wherever a restart cut the answers' own grading: the
\* backstop of complete_check makes up for it (F-24).
THEOREM SerialDiagnosticNotLost ==
    ASSUME ~Overlap
    PROVE  Spec => DiagnosticNotLost
  <1> DEFINE Graded == Gradable(row.pc) /\ row'.pc = NoBatch /\ ~row.ended
                          => row.prof.level # "none"
  <1>1. ASSUME SerialInv, Fresh, [Next]_vars, Gradable(row.pc), row'.pc = NoBatch, ~row.ended
        PROVE  row.prof.level # "none"
    <2>1. PICK r \in Requests : CompleteClear(r) \/ SummaryPersist(r)
      BY <1>1, BatchClosers DEF Gradable
    <2>2. req[r].at \in {"clear", "summary"}
      BY <2>1 DEF CompleteClear, SummaryPersist
    <2>3. QED
      BY <1>1, <2>2 DEF Fresh, FreshCopy
  <1>2. SerialInv /\ Fresh /\ [Next]_vars => [Graded]_vars
    BY <1>1
  <1>3. QED
    BY <1>2, FreshAlways, PTL DEF Spec, DiagnosticNotLost

-----------------------------------------------------------------------------
(* Refinement of the quiz, step by step.  due is the batch of the request   *)
(* at its follow-up: there is at most one.                                  *)

Open == IF row.pc = NoBatch THEN 0 ELSE row.pc.id
Cur  == IF row.pc = NoBatch THEN 0 ELSE row.pc.cur
Due  == {req[r].held.id : r \in {q \in Requests : req[q].at = "followup"}}

LEMMA QuizInit == Init => Promise!Init
  <1> SUFFICES ASSUME Init PROVE Promise!Init
    OBVIOUS
  <1>1. row.pc = NoBatch
    BY DEF Init
  <1>2. Due = {}
    BY DEF Init, Idle, Due
  <1>3. QED
    BY <1>1, <1>2 DEF Init, Due, Promise!Init, Promise!BatchIds, Promise!Items,
                      BatchIds, Items

(* With one request in flight, its follow-up is the only one due.           *)
LEMMA DueOne ==
    ASSUME SerialInv, NEW r \in Requests, req[r].at # "idle"
    PROVE  Due = IF req[r].at = "followup" THEN {req[r].held.id} ELSE {}
  <1>1. \A q \in Requests : req[q].at = "followup" => q = r
    BY DEF SerialInv, Solo
  <1>2. QED
    BY <1>1 DEF Due

LEMMA DueKept ==
    ASSUME \A q \in Requests :
              /\ (req'[q].at = "followup") <=> (req[q].at = "followup")
              /\ req[q].at = "followup" => req'[q].held = req[q].held
    PROVE  Due' = Due
  <1>1. \A q \in Requests : req'[q].at = "followup" => req'[q].held = req[q].held
    OBVIOUS
  <1>2. QED
    BY <1>1 DEF Due

LEMMA QuizSettle ==
    ASSUME SerialInv, Fresh, NEW r \in Requests, Answer(r) \/ Skip(r)
    PROVE  Promise!Next
  <1> DEFINE b == req[r].copy.pc
  <1>1. /\ req[r].at = "loaded" /\ req[r].copy \in Row /\ row \in Row
        /\ b \in Batch /\ b.cur < NItems
        /\ row.pc # NoBatch /\ row.pc.id = b.id /\ row.pc.cur = b.cur
    BY DEF Answer, Skip, Accepts, SerialInv, Typed, TypeOK, CopyHeld, CopyFresh, Row
  <1>2. \E o \in Statuses : row'.pc = Settle(b, o)
    BY <1>1 DEF Answer, Skip, Statuses, Row
  <1>3. row'.pc # NoBatch /\ row'.pc.id = b.id /\ row'.pc.cur = b.cur + 1
    BY <1>1, <1>2, SettleType, NullsOK
  <1>4. /\ b.id \in BatchIds /\ b.id # 0 /\ b.cur \in Items
        /\ graded[b.id][b.cur] = 0
    <2>1. b.id \in BatchIds /\ b.cur \in 0 .. NItems
      BY <1>1 DEF Batch
    <2>2. b.cur \in Items
      BY <1>1, <2>1, SizesOK DEF Items
    <2>3. QED
      BY <1>1, <2>1, <2>2 DEF SerialInv, Counted, Ungraded, Items, BatchIds
  <1>5. /\ Open = b.id /\ Open' = b.id
        /\ Cur = b.cur /\ Cur' = b.cur + 1
    BY <1>1, <1>3 DEF Open, Cur
  <1>6. Due' = Due
    <2>1. req' = [req EXCEPT ![r].at = "settled", ![r].copy = Expired]
      BY DEF Answer, Skip
    <2>2. req'[r].at = "settled" /\ \A q \in Requests : q # r => req'[q] = req[q]
      BY <2>1 DEF SerialInv, Typed, TypeOK
    <2>3. QED
      BY <1>1, <2>2, DueKept
  <1>7. CASE Answer(r)
    <2> DEFINE o == IF req[r].right THEN "right" ELSE "wrong"
    <2>1. /\ graded' = [graded EXCEPT ![b.id][b.cur] = Bump(@)]
          /\ verdict' = [verdict EXCEPT ![b.id][b.cur] = o]
          /\ UNCHANGED <<minted, followups>>
      BY <1>7 DEF Answer
    <2>2. Bump(0) = 1
      BY SizesOK DEF Bump
    <2>3. graded' = [graded EXCEPT ![b.id][b.cur] = 1]
      BY <1>4, <2>1, <2>2
    <2> HIDE DEF b, o
    <2>4. Promise!Grade(o)
      BY <1>1, <1>4, <1>5, <1>6, <2>1, <2>3 DEF Promise!Grade, Open, Cur, Due
    <2>5. o \in {"right", "wrong"}
      BY DEF o
    <2>6. QED
      BY <2>4, <2>5 DEF Promise!Next
  <1>8. CASE Skip(r)
    <2>1. UNCHANGED <<minted, graded, verdict, followups>>
      BY <1>8 DEF Skip, ledger
    <2> HIDE DEF b
    <2>2. Promise!Pass
      BY <1>1, <1>4, <1>5, <1>6, <2>1 DEF Promise!Pass, Open, Cur, Due
    <2>3. QED
      BY <2>2 DEF Promise!Next
  <1>9. QED
    BY <1>7, <1>8

LEMMA QuizClear ==
    ASSUME SerialInv, Fresh, NEW r \in Requests, CompleteClear(r)
    PROVE  Promise!Next
  <1> DEFINE b == row.pc
  <1>1. /\ req[r].at = "clear" /\ row \in Row
        /\ b \in Batch /\ b # NoBatch /\ b.id = req[r].held.id
        /\ b.cur = NItems
    <2>1. req[r].at = "clear" /\ row \in Row
      BY DEF CompleteClear, SerialInv, Typed, TypeOK
    <2>2. b # NoBatch /\ b.id = req[r].held.id /\ IsDone(b)
      BY <2>1 DEF SerialInv, Completing, Fresh, FreshCopy
    <2>3. b \in Batch
      BY <2>1, <2>2 DEF Row
    <2>4. QED
      BY <2>1, <2>2, <2>3, SizesOK DEF IsDone, Batch
  <1>2. /\ row'.pc = NoBatch
        /\ UNCHANGED <<minted, graded, verdict, followups>>
    BY <1>1 DEF CompleteClear, Cleared, ledger, Row
  <1>3. /\ req'[r].at = "followup" /\ req'[r].held = req[r].held
        /\ \A q \in Requests : q # r => req'[q].at = "idle"
    BY <1>1 DEF CompleteClear, SerialInv, Typed, TypeOK, Solo
  <1>4. Due = {} /\ Due' = {b.id}
    BY <1>1, <1>3, DueOne DEF Due
  <1>5. Open = b.id /\ Open' = 0 /\ Cur = NItems /\ Cur' = 0 /\ b.id # 0
    BY <1>1, <1>2 DEF Open, Cur, Batch, BatchIds
  <1> HIDE DEF b
  <1>6. Promise!Complete
    BY <1>2, <1>4, <1>5 DEF Promise!Complete, Open, Cur, Due
  <1>7. QED
    BY <1>6 DEF Promise!Next

LEMMA QuizReaction ==
    ASSUME NEW e \in Promise!BatchIds, Promise!React(e) \/ Promise!Forget(e)
    PROVE  Promise!Next
  BY DEF Promise!Next

LEMMA QuizReact ==
    ASSUME SerialInv, NEW r \in Requests, Followup(r)
    PROVE  Promise!Next
  <1>0. PICK b \in BatchIds : b = req[r].held.id
    BY DEF Followup, SerialInv, Typed, CopyHeld, Batch
  <1>1. /\ req[r].at = "followup"
        /\ followups[b] = 0
    BY <1>0 DEF Followup, SerialInv, Typed, CopyHeld, Completing, Batch
  <1>2. /\ \/ followups' = [followups EXCEPT ![b] = Bump(@)]
           \/ followups' = followups
        /\ UNCHANGED <<row, minted, graded, verdict>>
        /\ \A q \in Requests : req'[q].at = "idle"
    BY <1>0 DEF Followup, Finish, Idle, ledger, SerialInv, Typed, TypeOK, Solo
  <1>3. Due = {b} /\ Due' = {}
    BY <1>0, <1>1, <1>2, DueOne DEF Due
  <1>4. Open' = Open /\ Cur' = Cur
    BY <1>2 DEF Open, Cur
  <1>5. b \in Promise!BatchIds
    BY DEF BatchIds, Promise!BatchIds
  <1>6. followups' = [followups EXCEPT ![b] = 1] \/ followups' = followups
    <2>1. Bump(0) = 1
      BY SizesOK DEF Bump
    <2>2. QED
      BY <1>1, <1>2, <2>1
  <1>7. b \in Due /\ Due' = Due \ {b}
    BY <1>3
  <1>8. CASE followups' = [followups EXCEPT ![b] = 1]
    <2>1. Promise!React(b)
      BY <1>1, <1>2, <1>4, <1>7, <1>8 DEF Promise!React, Open, Cur, Due
    <2>2. QED
      BY <1>5, <2>1, QuizReaction
  <1>9. CASE followups' = followups
    <2>1. Promise!Forget(b)
      BY <1>2, <1>4, <1>7, <1>9 DEF Promise!Forget, Open, Cur, Due
    <2>2. QED
      BY <1>5, <2>1, QuizReaction
  <1>10. QED
    BY <1>6, <1>8, <1>9

(* The steps the quiz does not see.                                         *)
LEMMA QuizStill ==
    ASSUME Open' = Open, Cur' = Cur, Due' = Due,
           UNCHANGED <<minted, graded, verdict, followups>>
    PROVE  UNCHANGED Promise!vars
  BY DEF Promise!vars, Open, Cur, Due

LEMMA QuizUnseen ==
    ASSUME SerialInv, NEW r \in Requests,
           \/ Submit(r) \/ Refuse(r) \/ Reload(r) \/ WriteRecap(r) \/ GradeLoad(r)
           \/ GradeLevel(r) \/ CompleteClaim(r) \/ CompleteRecap(r) \/ SummaryLoad(r)
    PROVE  UNCHANGED Promise!vars
  <1>1. /\ row'.pc = row.pc
        /\ UNCHANGED <<minted, graded, verdict, followups>>
    BY DEF Submit, Load, ClaimEnd, Goto, Refuse, Reload, WriteRecap, GradeLoad, GradeLevel,
           CompleteClaim, CompleteRecap, SummaryLoad, ledger, SerialInv, Typed, TypeOK, Row
  <1>2. req[r].at # "followup" /\ \A q \in Requests : q # r => req'[q] = req[q]
    BY DEF Submit, Load, ClaimEnd, Goto, Finish, Refuse, Reload, WriteRecap, GradeLoad,
           GradeLevel, CompleteClaim, CompleteRecap, SummaryLoad, SerialInv, Typed, TypeOK
  <1>3. req'[r].at # "followup"
    <2>1. ASSUME NEW where, NEW h, NEW c, where # "followup",
                 req' = [req EXCEPT ![r].at = where, ![r].held = h, ![r].copy = c]
          PROVE  req'[r].at # "followup"
      BY <2>1 DEF SerialInv, Typed, TypeOK
    <2>2. ASSUME NEW where, NEW c, where # "followup",
                 req' = [req EXCEPT ![r].at = where, ![r].copy = c]
          PROVE  req'[r].at # "followup"
      BY <2>2 DEF SerialInv, Typed, TypeOK
    <2>3. ASSUME NEW where, where # "followup", req' = [req EXCEPT ![r].at = where]
          PROVE  req'[r].at # "followup"
      BY <2>3 DEF SerialInv, Typed, TypeOK
    <2>4. ASSUME req' = [req EXCEPT ![r] = Idle]
          PROVE  req'[r].at # "followup"
      BY <2>4 DEF SerialInv, Typed, TypeOK, Idle
    <2>5. ASSUME NEW op, NEW i, NEW right, Load(r, op, i, right)
          PROVE  req'[r].at # "followup"
      BY <2>5 DEF Load, SerialInv, Typed, TypeOK, Idle
    <2>6. CASE Submit(r)
      BY <2>3, <2>5, <2>6 DEF Submit, ClaimEnd, Goto
    <2>7. CASE CompleteClaim(r)
      BY <2>1, <2>7 DEF CompleteClaim
    <2>8. CASE CompleteRecap(r)
      BY <2>3, <2>8 DEF CompleteRecap, Goto
    <2>9. CASE Refuse(r) \/ GradeLevel(r)
      BY <2>4, <2>9 DEF Refuse, GradeLevel, Finish
    <2>10. CASE Reload(r) \/ SummaryLoad(r)
      BY <2>2, <2>10 DEF Reload, SummaryLoad
    <2>11. CASE WriteRecap(r)
      BY <2>2, <2>11 DEF WriteRecap
    <2>12. CASE GradeLoad(r)
      BY <2>2, <2>4, <2>12 DEF GradeLoad, Finish
    <2>13. QED
      BY <2>6, <2>7, <2>8, <2>9, <2>10, <2>11, <2>12
  <1>4. Due' = Due
    BY <1>2, <1>3, DueKept
  <1>5. Open' = Open /\ Cur' = Cur
    BY <1>1 DEF Open, Cur
  <1>6. QED
    BY <1>1, <1>4, <1>5, QuizStill

(* The end-of-session summary abandons the batch, if one is open.           *)
LEMMA QuizAbandon ==
    ASSUME SerialInv, Fresh, NEW r \in Requests, SummaryPersist(r)
    PROVE  Promise!Next \/ UNCHANGED Promise!vars
  <1>1. /\ req[r].at = "summary" /\ row \in Row
        /\ \/ row'.pc = row.pc
           \/ row'.pc = NoBatch
        /\ UNCHANGED <<minted, graded, verdict, followups>>
    BY DEF SummaryPersist, ledger, SerialInv, Typed, TypeOK, Row
  <1>2. Due' = Due
    <2>1. req'[r].at = "idle" /\ \A q \in Requests : q # r => req'[q] = req[q]
      BY DEF SummaryPersist, Finish, Idle, SerialInv, Typed, TypeOK
    <2>2. QED
      BY <1>1, <2>1, DueKept
  <1>3. CASE row.pc # NoBatch /\ row'.pc = NoBatch
    <2>1. Open # 0 /\ Open' = 0 /\ Cur' = 0
      BY <1>1, <1>3 DEF Open, Cur, Row, Batch, BatchIds
    <2>2. Promise!Abandon
      BY <1>1, <1>2, <2>1 DEF Promise!Abandon, Open, Cur, Due
    <2>3. QED
      BY <2>2 DEF Promise!Next
  <1>4. CASE row'.pc = row.pc
    <2>1. Open' = Open /\ Cur' = Cur
      BY <1>4 DEF Open, Cur
    <2>2. QED
      BY <1>1, <1>2, <2>1, QuizStill
  <1>5. QED
    BY <1>1, <1>3, <1>4

LEMMA QuizTurn ==
    ASSUME SerialInv, NEW t \in Turns,
           Stream(t) \/ \E review \in BOOLEAN : TurnStart(t, review)
    PROVE  Promise!Next \/ UNCHANGED Promise!vars
  <1>1. UNCHANGED <<req, graded, verdict, followups>> /\ row \in Row
    BY DEF Stream, TurnStart, TurnReply, TutorPatch, Register, ToolRefused, NextIteration,
           PersistAsk, CancelledAsk, Attach, TurnClose, ledger, SerialInv, Typed, TypeOK
  <1>2. Due' = Due
    BY <1>1, DueKept
  <1>3. CASE Register(t)
    <2>1. /\ row.pc = NoBatch
          /\ row'.pc = NewBatch(t)
          /\ minted' = minted + 1
          /\ minted < MaxBatches
      BY <1>1, <1>3 DEF Register, MayRegister, Row
    <2>2. NewBatch(t) \in Batch /\ NewBatch(t).id = minted + 1 /\ NewBatch(t).cur = 0
      BY <2>1, NewBatchType DEF SerialInv
    <2>3. Open = 0 /\ Open' = minted + 1 /\ Cur = 0 /\ Cur' = 0
      BY <2>1, <2>2, NullsOK DEF Open, Cur
    <2>4. Promise!Pose
      BY <1>1, <1>2, <2>1, <2>3 DEF Promise!Pose, Open, Cur, Due
    <2>5. QED
      BY <2>4 DEF Promise!Next
  <1>4. CASE ~Register(t)
    <2>1. minted' = minted /\ Open' = Open /\ Cur' = Cur
      <3>1. CASE Attach(t) /\ row.pc # NoBatch
        <4>1. row.pc \in Batch /\ turn[t].batch \in 0 .. MaxBatches
          BY <1>1, <3>1 DEF SerialInv, Typed, TypeOK, Row, Turn
        <4>2. row'.pc = [row.pc EXCEPT !.link = turn[t].batch] /\ minted' = minted
          BY <1>1, <3>1 DEF Attach, Row
        <4>3. row'.pc \in Batch /\ row'.pc.id = row.pc.id /\ row'.pc.cur = row.pc.cur
          BY <4>1, <4>2 DEF Batch
        <4>4. QED
          BY <3>1, <4>2, <4>3, NullsOK DEF Open, Cur
      <3>2. CASE ~(Attach(t) /\ row.pc # NoBatch)
        <4>1. minted' = minted /\ row'.pc = row.pc
          BY <1>4, <3>2, TurnStill DEF SerialInv
        <4>2. QED
          BY <4>1 DEF Open, Cur
      <3>3. QED
        BY <3>1, <3>2
    <2>2. QED
      BY <1>1, <1>2, <2>1, QuizStill
  <1>5. QED
    BY <1>3, <1>4

(* A restart forgets the reaction that was due, if one was.                 *)
LEMMA QuizRest ==
    ASSUME SerialInv, PatchProfile \/ Reopen \/ Crash \/ UNCHANGED vars
    PROVE  Promise!Next \/ UNCHANGED Promise!vars
  <1>1. /\ row'.pc = row.pc
        /\ UNCHANGED <<minted, graded, verdict, followups>>
    BY RestStill DEF SerialInv
  <1>2. Open' = Open /\ Cur' = Cur
    BY <1>1 DEF Open, Cur
  <1>3. CASE Crash /\ \E r \in Requests : req[r].at = "followup"
    <2>1. PICK r \in Requests : req[r].at = "followup"
      BY <1>3
    <2>0. PICK b \in BatchIds : b = req[r].held.id
      BY <2>1 DEF SerialInv, Typed, CopyHeld, Batch
    <2>2. Due = {b} /\ b \in Promise!BatchIds
      BY <2>0, <2>1, DueOne DEF BatchIds, Promise!BatchIds
    <2>3. Due' = {}
      BY <1>3 DEF Crash, Idle, Due
    <2>4. b \in Due /\ Due' = Due \ {b}
      BY <2>2, <2>3
    <2>5. Promise!Forget(b)
      BY <1>1, <1>2, <2>4 DEF Promise!Forget, Open, Cur, Due
    <2>6. QED
      BY <2>2, <2>5, QuizReaction
  <1>4. CASE ~(Crash /\ \E r \in Requests : req[r].at = "followup")
    <2>1. \A q \in Requests :
              /\ (req'[q].at = "followup") <=> (req[q].at = "followup")
              /\ req[q].at = "followup" => req'[q].held = req[q].held
      BY <1>4, RestStill DEF Crash, Idle, SerialInv
    <2>2. QED
      BY <1>1, <1>2, <2>1, DueKept, QuizStill
  <1>5. QED
    BY <1>3, <1>4

\* Without overlapping requests the service is the quiz it promises: at most one
\* open batch, its questions settled in order, each answer graded exactly once,
\* and a resolved batch reacted to at most once, for any number of turns,
\* batches and questions, and wherever the process restarts.
THEOREM SerialImplementsQuiz ==
    ASSUME ~Overlap
    PROVE  Spec => ImplementsQuiz
  <1>1. ASSUME SerialInv, Fresh, [Next]_vars
        PROVE  Promise!Next \/ UNCHANGED Promise!vars
    <2>1. CASE \E r \in Requests : Submit(r) \/ Proceed(r)
      BY <1>1, <2>1, QuizUnseen, QuizSettle, QuizClear, QuizReact, QuizAbandon DEF Proceed
    <2>2. CASE \/ \E t \in Turns, review \in BOOLEAN : TurnStart(t, review)
               \/ \E t \in Turns : Stream(t)
      BY <1>1, <2>2, QuizTurn
    <2>3. CASE PatchProfile \/ Reopen \/ Crash \/ UNCHANGED vars
      BY <1>1, <2>3, QuizRest
    <2>4. QED
      BY <1>1, <2>1, <2>2, <2>3 DEF Next
  <1>2. SerialInv /\ Fresh /\ [Next]_vars => [Promise!Next]_(Promise!vars)
    BY <1>1
  <1>3. QED
    BY <1>2, QuizInit, FreshAlways, PTL DEF Spec, ImplementsQuiz, Promise!Spec

-----------------------------------------------------------------------------
(* The recaps.  The client starts no stream while one is live: turns follow *)
(* each other, so no message is stamped on a batch that another one asked.  *)

OneTurn == \A t, u \in Turns : t = u

Outcome(b, i) == IF graded[b][i] = 0 THEN "skipped" ELSE verdict[b][i]
Outcomes(b) == [i \in Items |-> Outcome(b, i)]

(* The open batch is the newest; a turn that still has to link its batch    *)
(* posed that one.                                                          *)
Posed ==
    /\ \A t \in Turns : turn[t].at \in {"asked", "attach"} => turn[t].batch = minted
    /\ \A b \in BatchIds : b > minted => recap[b] = NoRecap

(* It says what the events say up to its question, and has nothing          *)
(* published before it is linked.                                           *)
OpenTrue == row.pc # NoBatch =>
    /\ row.pc.id = minted
    /\ row.pc.link \in {0, row.pc.id}
    /\ row.pc.link = 0 => recap[row.pc.id] = NoRecap
    /\ \A i \in Items : row.pc.status[i] = IF i < row.pc.cur THEN Outcome(row.pc.id, i)
                                                             ELSE "pending"

(* What is published of a batch that is gone says what the events say.      *)
ClosedTrue == \A b \in BatchIds : Gone(b) /\ recap[b] # NoRecap => recap[b] = Outcomes(b)

(* A copy of the open batch that knows of a link, or of which nothing has   *)
(* been published.                                                          *)
Kept(b) ==
    /\ Linked(b, row.pc)
    /\ b.link \in {0, b.id}
    /\ b.link = 0 => recap[b.id] = NoRecap
    /\ b.link # 0 => row.pc.link = b.link

Publishes(r) ==
    /\ req[r].at \in {"loaded", "recap", "summary"} /\ req[r].copy.pc # NoBatch =>
          Kept(req[r].copy.pc)
    /\ req[r].at \in {"resolved", "clear"} => Kept(req[r].held)
    /\ req[r].at = "clear" /\ req[r].held.link # 0 =>
          recap[req[r].held.id] = req[r].held.status

Recaps == Posed /\ OpenTrue /\ ClosedTrue /\ \A r \in Requests : Publishes(r)

LEMMA BatchIs ==
    ASSUME NEW b \in Batch
    PROVE  /\ b # NoBatch /\ b.id \in BatchIds /\ b.id \in Nat /\ b.id # 0
           /\ b.cur \in 0 .. NItems /\ b.cur \in Nat
           /\ b.status \in [Items -> Statuses]
  <1>1. b # NoBatch
    BY NullsOK
  <1>2. b.id \in BatchIds /\ b.cur \in 0 .. NItems /\ b.status \in [Items -> Statuses]
    BY DEF Batch
  <1>3. b.id \in Nat /\ b.id # 0 /\ b.cur \in Nat
    BY <1>2, SizesOK DEF BatchIds
  <1>4. QED
    BY <1>1, <1>2, <1>3

LEMMA RowIs ==
    ASSUME SerialInv
    PROVE  /\ row \in Row /\ row.pc \in Batch \cup {NoBatch} /\ minted \in Nat
           /\ recap \in [BatchIds -> [Items -> Statuses] \cup {NoRecap}]
           /\ req \in [Requests -> Request]
  <1>1. row \in Row /\ minted \in 0 .. MaxBatches
        /\ recap \in [BatchIds -> [Items -> Statuses] \cup {NoRecap}]
        /\ req \in [Requests -> Request]
    BY DEF SerialInv, Typed, TypeOK
  <1>2. minted \in Nat
    BY <1>1, SizesOK
  <1>3. row.pc \in Batch \cup {NoBatch}
    BY <1>1 DEF Row
  <1>4. QED
    BY <1>1, <1>2, <1>3

LEMMA RecapsInit == Init => Recaps
  BY DEF Init, Idle, NoTurn, Recaps, Posed, OpenTrue, ClosedTrue, Publishes

LEMMA OthersPublish ==
    ASSUME SerialInv, NEW r \in Requests, req[r].at # "idle",
           \A q \in Requests : q # r => req'[q] = req[q]
    PROVE  \A q \in Requests : q # r => Publishes(q)'
  <1> SUFFICES ASSUME NEW q \in Requests, q # r PROVE Publishes(q)'
    OBVIOUS
  <1>1. req'[q].at = "idle"
    BY DEF SerialInv, Solo
  <1>2. QED
    BY <1>1 DEF Publishes

(* The open batch as such is a copy of that kind.                           *)
LEMMA OpenKept ==
    ASSUME SerialInv, Recaps, row.pc # NoBatch
    PROVE  Kept(row.pc)
  <1>1. row.pc \in Batch
    BY RowIs
  <1>2. Linked(row.pc, row.pc)
    BY <1>1 DEF Linked, Batch
  <1>3. QED
    BY <1>2 DEF Recaps, OpenTrue, Kept

(* Nothing happens to the batch, its events or the recaps.                  *)
BatchStays == /\ row'.pc = row.pc
              /\ UNCHANGED <<recap, graded, verdict, minted>>

LEMMA StaysTrue ==
    ASSUME Recaps, BatchStays, turn' = turn
    PROVE  Posed' /\ OpenTrue' /\ ClosedTrue' /\ \A b : Kept(b)' = Kept(b)
  <1>1. OpenTrue'
    BY DEF Recaps, OpenTrue, BatchStays, Outcome
  <1>2. ClosedTrue'
    BY DEF Recaps, ClosedTrue, BatchStays, Outcomes, Outcome, Gone
  <1>3. Posed' /\ \A b : Kept(b)' = Kept(b)
    BY DEF Recaps, Posed, BatchStays, Kept
  <1>4. QED
    BY <1>1, <1>2, <1>3

LEMMA OpenStays ==
    ASSUME SerialInv, Recaps, BatchStays, turn' = turn, NEW b, b = row.pc, b # NoBatch
    PROVE  Kept(b)'
  <1>1. Kept(b)
    BY OpenKept
  <1>2. QED
    BY <1>1, StaysTrue

LEMMA PublishesCopy ==
    ASSUME NEW r \in Requests, NEW b, req'[r].copy.pc = b,
           req'[r].at \in {"loaded", "recap", "summary"}, b # NoBatch => Kept(b)'
    PROVE  Publishes(r)'
  BY DEF Publishes

LEMMA RecapsStart ==
    ASSUME SerialInv, Recaps, ~Overlap, NEW r \in Requests, Submit(r)
    PROVE  Recaps'
  <1>1. /\ \A q \in Requests : req[q].at = "idle"
        /\ \A q \in Requests : q # r => req'[q] = req[q]
        /\ BatchStays /\ turn' = turn
    BY DEF Submit, Load, ClaimEnd, Goto, Quiet, SerialInv, Typed, TypeOK, ledger, Row, BatchStays
  <1>2. \A q \in Requests : q # r => Publishes(q)'
    BY <1>1 DEF Publishes
  <1>3. Publishes(r)'
    <2>1. ASSUME NEW op, NEW i, NEW right, Load(r, op, i, right)
          PROVE  Publishes(r)'
      <3>1. req'[r].at = "loaded" /\ req'[r].copy = row
        BY <2>1 DEF Load, SerialInv, Typed, TypeOK, Idle
      <3>2. PICK b : b = row.pc
        OBVIOUS
      <3>3. b # NoBatch => Kept(b)'
        BY <1>1, <3>2, OpenStays
      <3>4. QED
        BY <3>1, <3>2, <3>3, PublishesCopy
    <2>2. ASSUME ClaimEnd(r)
          PROVE  Publishes(r)'
      <3>1. req'[r].at = "claimed"
        BY <2>2 DEF ClaimEnd, Goto, SerialInv, Typed, TypeOK
      <3>2. QED
        BY <3>1 DEF Publishes
    <2>3. QED
      BY <2>1, <2>2 DEF Submit
  <1>4. QED
    BY <1>1, <1>2, <1>3, StaysTrue DEF Recaps

(* The steps of a request that leave the batch and the recaps alone.        *)
LEMMA RecapsQuiet ==
    ASSUME SerialInv, Recaps, NEW r \in Requests,
           \/ Refuse(r) \/ Reload(r) \/ GradeLoad(r) \/ GradeLevel(r)
           \/ SummaryLoad(r) \/ CompleteClaim(r) \/ Followup(r)
    PROVE  Recaps'
  <1>1. BatchStays /\ turn' = turn
    BY DEF Refuse, Reload, GradeLoad, GradeLevel, SummaryLoad, CompleteClaim, Followup,
           ledger, SerialInv, Typed, TypeOK, Row, BatchStays
  <1>2. /\ req[r].at # "idle"
        /\ \A q \in Requests : q # r => req'[q] = req[q]
    BY DEF Refuse, Reload, GradeLoad, GradeLevel, SummaryLoad, CompleteClaim, Followup,
           Finish, SerialInv, Typed, TypeOK
  <1>3. Posed' /\ OpenTrue' /\ ClosedTrue' /\ \A b : Kept(b)' = Kept(b)
    BY <1>1, StaysTrue
  <1>4. Publishes(r)'
    <2>1. CASE Refuse(r) \/ GradeLevel(r) \/ Followup(r)
      <3>1. req'[r] = Idle
        BY <2>1 DEF Refuse, GradeLevel, Followup, Finish, SerialInv, Typed, TypeOK
      <3>2. QED
        BY <3>1 DEF Publishes, Idle
    <2>2. CASE Reload(r) \/ SummaryLoad(r)
      <3>1. req'[r].at \in {"recap", "summary"} /\ req'[r].copy = row
        <4>1. CASE Reload(r)
          BY <4>1 DEF Reload, SerialInv, Typed, TypeOK
        <4>2. CASE SummaryLoad(r)
          BY <4>2 DEF SummaryLoad, SerialInv, Typed, TypeOK
        <4>3. QED
          BY <2>2, <4>1, <4>2
      <3>2. PICK b : b = row.pc
        OBVIOUS
      <3>3. b # NoBatch => Kept(b)'
        BY <1>1, <3>2, OpenStays
      <3>4. QED
        BY <3>1, <3>2, <3>3, PublishesCopy
    <2>3. CASE GradeLoad(r)
      <3> DEFINE c == Seen(r)
      <3>1. \/ req' = [req EXCEPT ![r] = Idle]
            \/ req' = [req EXCEPT ![r].at = "level", ![r].copy = c]
        BY <2>3 DEF GradeLoad, Finish
      <3> HIDE DEF c
      <3>2. ASSUME req' = [req EXCEPT ![r] = Idle]
            PROVE  req'[r].at = "idle"
        BY <3>2 DEF Idle, SerialInv, Typed, TypeOK
      <3>3. ASSUME req' = [req EXCEPT ![r].at = "level", ![r].copy = c]
            PROVE  req'[r].at = "level"
        BY <3>3 DEF SerialInv, Typed, TypeOK
      <3>4. QED
        BY <3>1, <3>2, <3>3 DEF Publishes
    <2>4. CASE CompleteClaim(r)
      <3>1. PICK b : b = req[r].copy.pc
        OBVIOUS
      <3>2. req[r].at = "loaded" /\ b # NoBatch
        BY <2>4, <3>1 DEF CompleteClaim, Accepts
      <3>3. req'[r].at = "resolved" /\ req'[r].held = b
        BY <2>4, <3>1 DEF CompleteClaim, SerialInv, Typed, TypeOK
      <3>4. Kept(b)'
        BY <1>3, <3>1, <3>2 DEF Recaps, Publishes
      <3>5. QED
        BY <3>3, <3>4 DEF Publishes
    <2>5. QED
      BY <2>1, <2>2, <2>3, <2>4
  <1>5. QED
    BY <1>2, <1>3, <1>4, OthersPublish DEF Recaps
(* A recap of the open, linked batch is published.                          *)
LEMMA PublishKeeps ==
    ASSUME SerialInv, Recaps, NEW b \in Batch, Kept(b), b.link # 0,
           recap' = [recap EXCEPT ![b.id] = b.status],
           row' = row, turn' = turn, UNCHANGED <<graded, verdict, minted>>
    PROVE  /\ Posed' /\ OpenTrue' /\ ClosedTrue'
           /\ Kept(b)' /\ recap'[b.id] = b.status
  <1>1. /\ row.pc \in Batch /\ row.pc # NoBatch
        /\ row.pc.id = b.id /\ row.pc.link = b.link
        /\ b.id \in BatchIds /\ b.id \in Nat
    <2>1. row.pc \in Batch
      BY RowIs DEF Kept, Linked
    <2>2. row.pc.id = b.id
      BY <2>1, LinkedSame DEF Kept
    <2>3. QED
      BY <2>1, <2>2, BatchIs DEF Kept
  <1>2. /\ recap'[b.id] = b.status
        /\ \A c \in BatchIds : c # b.id => recap'[c] = recap[c]
    BY <1>1, RowIs
  <1>3. b.id = minted /\ minted \in Nat
    BY <1>1, RowIs DEF Recaps, OpenTrue
  <1>4. Posed'
    <2>1. \A c \in BatchIds : c > minted => c # b.id
      BY <1>3
    <2>2. QED
      BY <1>2, <2>1 DEF Recaps, Posed
  <1>5. OpenTrue'
    BY <1>1 DEF Recaps, OpenTrue, Outcome
  <1>6. ClosedTrue'
    <2>1. \A c \in BatchIds : Gone(c)' => Gone(c) /\ c # b.id
      BY <1>1 DEF Gone
    <2>2. QED
      BY <1>2, <2>1 DEF Recaps, ClosedTrue, Outcomes, Outcome
  <1>7. Kept(b)'
    BY DEF Kept
  <1>8. QED
    BY <1>2, <1>4, <1>5, <1>6, <1>7

LEMMA RecapsPublish ==
    ASSUME SerialInv, Recaps, NEW r \in Requests, WriteRecap(r) \/ CompleteRecap(r)
    PROVE  Recaps'
  <1>1. /\ req[r].at # "idle" /\ row' = row /\ turn' = turn
        /\ UNCHANGED <<graded, verdict, minted>>
        /\ \A q \in Requests : q # r => req'[q] = req[q]
    BY DEF WriteRecap, CompleteRecap, Goto, ledger, SerialInv, Typed, TypeOK
  <1>2. \A q \in Requests : q # r => Publishes(q)'
    BY <1>1, OthersPublish
  <1>3. CASE recap' = recap
    <2>1. BatchStays
      BY <1>1, <1>3 DEF BatchStays
    <2>2. Posed' /\ OpenTrue' /\ ClosedTrue' /\ \A b : Kept(b)' = Kept(b)
      BY <1>1, <2>1, StaysTrue
    <2>3. CASE WriteRecap(r)
      <3>1. req'[r].at = "grade"
        BY <2>3 DEF WriteRecap, SerialInv, Typed, TypeOK
      <3>2. QED
        BY <1>2, <2>2, <3>1 DEF Recaps, Publishes
    <2>4. CASE CompleteRecap(r)
      <3>1. PICK b : b = req[r].held
        OBVIOUS
      <3>2. /\ req[r].at = "resolved" /\ req'[r].at = "clear" /\ req'[r].held = b
            /\ b \in Batch
        BY <2>4, <3>1 DEF CompleteRecap, Goto, SerialInv, Typed, TypeOK, CopyHeld
      <3>3. Kept(b)'
        BY <2>2, <3>1, <3>2 DEF Recaps, Publishes
      <3>4. b.link # 0 => recap'[b.id] = b.status
        <4>1. Kept(b)
          BY <3>1, <3>2 DEF Recaps, Publishes
        <4>2. b.link # 0 => recap' = [recap EXCEPT ![b.id] = b.status] /\ b.id \in BatchIds
          BY <2>4, <3>1, <3>2, <4>1, BatchIs DEF CompleteRecap, Publish, Kept
        <4>3. QED
          BY <4>2, RowIs
      <3>5. QED
        BY <1>2, <2>2, <3>2, <3>3, <3>4 DEF Recaps, Publishes
    <2>5. QED
      BY <2>3, <2>4
  <1>4. CASE recap' # recap
    <2>1. CASE WriteRecap(r)
      <3>1. PICK b : b = req[r].copy.pc
        OBVIOUS
      <3>2. req[r].at = "recap" /\ b # NoBatch
        BY <1>4, <2>1, <3>1 DEF WriteRecap
      <3>3. b \in Batch
        BY <3>1, <3>2 DEF SerialInv, Typed, CopyHeld, Row
      <3>4. Kept(b)
        BY <3>1, <3>2 DEF Recaps, Publishes
      <3>5. b.link # 0 /\ recap' = [recap EXCEPT ![b.id] = b.status]
        BY <1>4, <2>1, <3>1, <3>2, <3>4 DEF WriteRecap, Publish, Kept
      <3>6. Posed' /\ OpenTrue' /\ ClosedTrue'
        BY <1>1, <3>3, <3>4, <3>5, PublishKeeps
      <3>7. req'[r].at = "grade"
        BY <2>1 DEF WriteRecap, SerialInv, Typed, TypeOK
      <3>8. QED
        BY <1>2, <3>6, <3>7 DEF Recaps, Publishes
    <2>2. CASE CompleteRecap(r)
      <3>1. PICK b : b = req[r].held
        OBVIOUS
      <3>2. /\ req[r].at = "resolved" /\ req'[r].at = "clear" /\ req'[r].held = b
            /\ b \in Batch
        BY <2>2, <3>1 DEF CompleteRecap, Goto, SerialInv, Typed, TypeOK, CopyHeld
      <3>3. Kept(b)
        BY <3>1, <3>2 DEF Recaps, Publishes
      <3>4. b.link # 0 /\ recap' = [recap EXCEPT ![b.id] = b.status]
        BY <1>4, <2>2, <3>1, <3>3 DEF CompleteRecap, Publish, Kept
      <3>5. Posed' /\ OpenTrue' /\ ClosedTrue' /\ Kept(b)' /\ recap'[b.id] = b.status
        BY <1>1, <3>2, <3>3, <3>4, PublishKeeps
      <3>6. QED
        BY <1>2, <3>2, <3>5 DEF Recaps, Publishes
    <2>3. QED
      BY <2>1, <2>2
  <1>5. QED
    BY <1>3, <1>4

LEMMA SettleIs ==
    ASSUME NEW b \in Batch, b.cur < NItems, NEW o \in Statuses
    PROVE  /\ Settle(b, o).link = b.link
           /\ b.cur \in Items
           /\ \A i \in Items : Settle(b, o).status[i] = IF i = b.cur THEN o ELSE b.status[i]
  <1> DEFINE f == [b.status EXCEPT ![b.cur] = o]
  <1>1. b.cur \in Items /\ b.status \in [Items -> Statuses]
    BY SizesOK DEF Batch, Items
  <1>2. \A i \in Items : f[i] = IF i = b.cur THEN o ELSE b.status[i]
    BY <1>1
  <1>3. Settle(b, o) = [b EXCEPT !.status = f, !.cur = b.cur + 1]
    BY DEF Settle
  <1> HIDE DEF f
  <1>4. Settle(b, o).link = b.link /\ Settle(b, o).status = f
    BY <1>3 DEF Batch
  <1>5. QED
    BY <1>1, <1>2, <1>4

(* A question is settled as its event says.                                 *)
LEMMA RecapsSettle ==
    ASSUME SerialInv, Recaps, NEW r \in Requests, Answer(r) \/ Skip(r)
    PROVE  Recaps'
  <1>1. PICK b : b = req[r].copy.pc
    OBVIOUS
  <1>2. /\ req[r].at = "loaded" /\ b # NoBatch /\ b.cur < NItems /\ b \in Batch
        /\ Kept(b)
    BY <1>1 DEF Answer, Skip, Accepts, SerialInv, Typed, CopyHeld, Row, Recaps, Publishes
  <1>3. /\ row.pc \in Batch /\ row.pc # NoBatch
        /\ row.pc.id = b.id /\ row.pc.cur = b.cur /\ row.pc.status = b.status
        /\ b.id \in BatchIds /\ b.cur \in Items /\ b.cur \in Nat
    <2>1. row.pc \in Batch
      BY <1>2, RowIs DEF Kept, Linked
    <2>2. row.pc.id = b.id /\ row.pc.cur = b.cur /\ row.pc.status = b.status
      BY <1>2, <2>1, LinkedSame DEF Kept
    <2>3. b.cur \in Items
      BY <1>2, SizesOK DEF Batch, Items
    <2>4. QED
      BY <1>2, <2>1, <2>2, <2>3, BatchIs
  <1>4. PICK o \in Statuses :
              /\ row'.pc = Settle(b, o)
              /\ o = Outcome(b.id, b.cur)'
              /\ \A c \in BatchIds, i \in Items : c # b.id \/ i # b.cur =>
                     graded'[c][i] = graded[c][i] /\ verdict'[c][i] = verdict[c][i]
    <2>1. CASE Answer(r)
      <3>1. PICK o : o = IF req[r].right THEN "right" ELSE "wrong"
        OBVIOUS
      <3>2. o \in Statuses /\ row'.pc = Settle(b, o)
        BY <1>1, <2>1, <3>1 DEF Answer, Statuses, SerialInv, Typed, TypeOK, Row
      <3>3. /\ graded' = [graded EXCEPT ![b.id][b.cur] = Bump(@)]
            /\ verdict' = [verdict EXCEPT ![b.id][b.cur] = o]
        BY <1>1, <2>1, <3>1 DEF Answer
      <3>4. /\ graded \in [BatchIds -> [Items -> 0 .. MaxGrades]]
            /\ verdict \in [BatchIds -> [Items -> {"none", "right", "wrong"}]]
        BY DEF SerialInv, Typed, TypeOK
      <3>5. /\ graded'[b.id][b.cur] = Bump(graded[b.id][b.cur])
            /\ verdict'[b.id][b.cur] = o
            /\ \A c \in BatchIds, i \in Items : c # b.id \/ i # b.cur =>
                     graded'[c][i] = graded[c][i] /\ verdict'[c][i] = verdict[c][i]
        BY <1>3, <3>3, <3>4
      <3>6. Bump(graded[b.id][b.cur]) # 0
        BY <1>3, <3>4, SizesOK DEF Bump
      <3>7. QED
        BY <3>2, <3>5, <3>6 DEF Outcome
    <2>2. CASE Skip(r)
      <3>1. /\ row'.pc = Settle(b, "skipped") /\ "skipped" \in Statuses
            /\ graded' = graded /\ verdict' = verdict
        BY <1>1, <2>2 DEF Skip, ledger, Statuses, SerialInv, Typed, TypeOK, Row
      <3>2. graded[b.id][b.cur] = 0
        BY <1>3 DEF SerialInv, Counted, Ungraded
      <3>3. QED
        BY <3>1, <3>2 DEF Outcome
    <2>3. QED
      BY <2>1, <2>2
  <1>5. /\ row'.pc \in Batch /\ row'.pc # NoBatch
        /\ row'.pc.id = b.id /\ row'.pc.cur = b.cur + 1 /\ row'.pc.link = b.link
        /\ \A i \in Items : row'.pc.status[i] = IF i = b.cur THEN o ELSE b.status[i]
    BY <1>2, <1>4, SettleType, SettleIs, BatchIs
  <1>6. recap' = recap /\ minted' = minted /\ turn' = turn
    BY DEF Answer, Skip
  <1>7. OpenTrue'
    <2>1. b.id = minted
      BY <1>3 DEF Recaps, OpenTrue
    <2>2. ASSUME NEW i \in Items
          PROVE  row'.pc.status[i] = IF i < b.cur + 1 THEN Outcome(b.id, i)' ELSE "pending"
      <3>1. i \in Nat
        BY SizesOK DEF Items
      <3>2. b.status[i] = IF i < b.cur THEN Outcome(b.id, i) ELSE "pending"
        BY <1>3 DEF Recaps, OpenTrue
      <3>3. i # b.cur => Outcome(b.id, i)' = Outcome(b.id, i)
        BY <1>3, <1>4 DEF Outcome
      <3>4. CASE i = b.cur
        BY <1>3, <1>4, <1>5, <3>4
      <3>5. CASE i < b.cur
        BY <1>3, <1>5, <3>1, <3>2, <3>3, <3>5
      <3>6. CASE i > b.cur
        BY <1>3, <1>5, <3>1, <3>2, <3>6
      <3>7. QED
        BY <1>3, <3>1, <3>4, <3>5, <3>6
    <2>3. QED
      BY <1>2, <1>5, <1>6, <2>1, <2>2 DEF OpenTrue, Kept, Outcome
  <1>8. ClosedTrue'
    <2>1. \A c \in BatchIds : Gone(c)' => Gone(c) /\ c # b.id
      BY <1>3, <1>5 DEF Gone
    <2>2. \A c \in BatchIds : c # b.id => Outcomes(c)' = Outcomes(c)
      BY <1>4 DEF Outcomes, Outcome
    <2>3. QED
      BY <1>6, <2>1, <2>2 DEF Recaps, ClosedTrue
  <1>9. \A q \in Requests : Publishes(q)'
    <2>1. req'[r].at = "settled" /\ \A q \in Requests : q # r => req'[q] = req[q]
      <3>1. req' = [req EXCEPT ![r].at = "settled", ![r].copy = Expired]
        BY DEF Answer, Skip
      <3>2. QED
        BY <3>1, RowIs DEF Request
    <2>2. \A q \in Requests : q # r => Publishes(q)'
      BY <1>2, <2>1, OthersPublish
    <2>3. Publishes(r)'
      BY <2>1 DEF Publishes
    <2>4. QED
      BY <2>2, <2>3
  <1>10. QED
    BY <1>6, <1>7, <1>8, <1>9 DEF Recaps, Posed
(* The open batch is let go: what has been published of it is the outcome.  *)
LEMMA CloseTrue ==
    ASSUME SerialInv, Recaps, row.pc # NoBatch, row'.pc = NoBatch,
           turn' = turn, UNCHANGED <<graded, verdict, minted>>,
           NEW b \in BatchIds, b = row.pc.id,
           recap'[b] \in {NoRecap, Outcomes(b)},
           \A c \in BatchIds : c # b => recap'[c] = recap[c]
    PROVE  Posed' /\ OpenTrue' /\ ClosedTrue'
  <1>1. b = minted /\ minted \in Nat
    BY RowIs DEF Recaps, OpenTrue
  <1>2. Posed'
    <2>1. \A c \in BatchIds : c > minted => c # b
      BY <1>1
    <2>2. QED
      BY <2>1 DEF Recaps, Posed
  <1>3. OpenTrue'
    BY DEF OpenTrue
  <1>4. ClosedTrue'
    <2>1. \A c \in BatchIds : Outcomes(c)' = Outcomes(c)
      BY DEF Outcomes, Outcome
    <2>2. \A c \in BatchIds : c # b => Gone(c)
      BY DEF Gone
    <2>3. \A c \in BatchIds : c # b /\ recap'[c] # NoRecap => recap'[c] = Outcomes(c)'
      BY <2>1, <2>2 DEF Recaps, ClosedTrue
    <2>4. recap'[b] # NoRecap => recap'[b] = Outcomes(b)'
      BY <2>1
    <2>5. QED
      BY <2>3, <2>4 DEF ClosedTrue
  <1>5. QED
    BY <1>2, <1>3, <1>4

(* What the open batch says of its questions, those still to come skipped.  *)
LEMMA SkipRestTells ==
    ASSUME SerialInv, Recaps, NEW b \in Batch, Kept(b)
    PROVE  /\ b.id \in BatchIds /\ row.pc \in Batch /\ b.id = row.pc.id
           /\ IsDone(row.pc) => b.status = Outcomes(b.id)
           /\ SkipRest(b) = Outcomes(b.id)
  <1>1. /\ row.pc \in Batch /\ row.pc # NoBatch
        /\ row.pc.id = b.id /\ row.pc.cur = b.cur /\ row.pc.status = b.status
        /\ b.id \in BatchIds /\ b.cur \in Nat
    <2>1. row.pc \in Batch
      BY RowIs DEF Kept, Linked
    <2>2. row.pc.id = b.id /\ row.pc.cur = b.cur /\ row.pc.status = b.status
      BY <2>1, LinkedSame DEF Kept
    <2>3. QED
      BY <2>1, <2>2, BatchIs
  <1>2. \A i \in Items : b.status[i] = IF i < b.cur THEN Outcome(b.id, i) ELSE "pending"
    BY <1>1 DEF Recaps, OpenTrue
  <1>3. \A i \in Items : i \in Nat /\ i < NItems
    BY SizesOK DEF Items
  <1>4. \A i \in Items : Outcome(b.id, i) # "pending"
    BY <1>1 DEF Outcome, SerialInv, Typed, TypeOK
  <1>5. \A i \in Items : ~(i < b.cur) => Outcome(b.id, i) = "skipped"
    <2>1. \A i \in Items : i >= b.cur => graded[b.id][i] = 0
      BY <1>1 DEF SerialInv, Counted, Ungraded
    <2>2. QED
      BY <1>1, <1>3, <2>1 DEF Outcome
  <1>6. b.status \in [Items -> Statuses]
    BY BatchIs
  <1>7. ASSUME IsDone(row.pc)
        PROVE  b.status = Outcomes(b.id)
    <2>1. \A i \in Items : i < b.cur
      BY <1>1, <1>3, <1>7, SizesOK DEF IsDone
    <2>2. QED
      BY <1>2, <1>6, <2>1 DEF Outcomes
  <1>8. \A i \in Items :
            (IF b.status[i] = "pending" THEN "skipped" ELSE b.status[i]) = Outcome(b.id, i)
    BY <1>2, <1>4, <1>5
  <1>9. SkipRest(b) = Outcomes(b.id)
    BY <1>8 DEF SkipRest, Outcomes
  <1>10. QED
    BY <1>1, <1>7, <1>9

LEMMA RecapsClear ==
    ASSUME SerialInv, Fresh, Recaps, NEW r \in Requests, CompleteClear(r)
    PROVE  Recaps'
  <1>1. PICK b : b = req[r].held
    OBVIOUS
  <1>2. /\ req[r].at = "clear" /\ b \in Batch /\ Kept(b) /\ IsDone(row.pc)
        /\ b.link # 0 => recap[b.id] = b.status
    BY <1>1 DEF CompleteClear, SerialInv, Typed, CopyHeld, Recaps, Publishes, Fresh, FreshCopy
  <1>3. /\ b.id \in BatchIds /\ row.pc \in Batch /\ b.id = row.pc.id
        /\ b.status = Outcomes(b.id)
    BY <1>2, SkipRestTells
  <1>4. /\ row'.pc = NoBatch /\ turn' = turn
        /\ UNCHANGED <<graded, verdict, minted, recap>>
    BY RowIs DEF CompleteClear, Cleared, ledger, Row
  <1>5. recap'[b.id] \in {NoRecap, Outcomes(b.id)}
    BY <1>2, <1>3, <1>4 DEF Kept
  <1>6. Posed' /\ OpenTrue' /\ ClosedTrue'
    BY <1>3, <1>4, <1>5, NullsOK, CloseTrue
  <1>7. \A q \in Requests : Publishes(q)'
    <2>1. req'[r].at = "followup" /\ \A q \in Requests : q # r => req'[q] = req[q]
      BY RowIs DEF CompleteClear, Request
    <2>2. \A q \in Requests : q # r => Publishes(q)'
      BY <1>2, <2>1, OthersPublish
    <2>3. Publishes(r)'
      BY <2>1 DEF Publishes
    <2>4. QED
      BY <2>2, <2>3
  <1>8. QED
    BY <1>6, <1>7 DEF Recaps

LEMMA RecapsAbandon ==
    ASSUME SerialInv, Recaps, NEW r \in Requests, SummaryPersist(r)
    PROVE  Recaps'
  <1>1. PICK b : b = req[r].copy.pc
    OBVIOUS
  <1>2. /\ req[r].at = "summary" /\ turn' = turn
        /\ UNCHANGED <<graded, verdict, minted>>
    BY DEF SummaryPersist, ledger
  <1>3. \A q \in Requests : Publishes(q)'
    <2>1. req' = [req EXCEPT ![r] = Idle]
      BY DEF SummaryPersist, Finish
    <2>2. req'[r].at = "idle" /\ \A q \in Requests : q # r => req'[q] = req[q]
      BY <2>1, RowIs DEF Idle
    <2>3. \A q \in Requests : q # r => Publishes(q)'
      BY <1>2, <2>2, OthersPublish
    <2>4. Publishes(r)'
      BY <2>2 DEF Publishes
    <2>5. QED
      BY <2>3, <2>4
  <1>4. CASE b = NoBatch
    <2>1. row' = [row EXCEPT !.prof = req[r].copy.prof] /\ recap' = recap
      BY <1>1, <1>4 DEF SummaryPersist
    <2>2. row'.pc = row.pc
      BY <2>1, RowIs DEF Row
    <2>3. BatchStays
      BY <1>2, <2>1, <2>2 DEF BatchStays
    <2>4. QED
      BY <1>2, <1>3, <2>3, StaysTrue DEF Recaps
  <1>5. CASE b # NoBatch
    <2>1. b \in Batch /\ Kept(b)
      BY <1>1, <1>2, <1>5 DEF SerialInv, Typed, CopyHeld, Row, Recaps, Publishes
    <2>2. /\ b.id \in BatchIds /\ row.pc \in Batch /\ b.id = row.pc.id
          /\ SkipRest(b) = Outcomes(b.id)
      BY <2>1, SkipRestTells
    <2>3. row' = [row EXCEPT !.pc = NoBatch, !.prof = req[r].copy.prof]
          /\ recap' = IF b.link = 0 THEN recap ELSE [recap EXCEPT ![b.link] = SkipRest(b)]
      BY <1>1, <1>5 DEF SummaryPersist, Publish
    <2>4. row'.pc = NoBatch
      BY <2>3, RowIs DEF Row
    <2>5. \A c \in BatchIds : c # b.id => recap'[c] = recap[c]
      BY <2>1, <2>2, <2>3, RowIs DEF Kept
    <2>6. recap'[b.id] \in {NoRecap, Outcomes(b.id)}
      BY <2>1, <2>2, <2>3, RowIs DEF Kept
    <2>7. Posed' /\ OpenTrue' /\ ClosedTrue'
      BY <1>2, <2>2, <2>4, <2>5, <2>6, NullsOK, CloseTrue
    <2>8. QED
      BY <1>3, <2>7 DEF Recaps
  <1>6. QED
    BY <1>4, <1>5
(* A new batch is posed when none is open, so no request holds one.         *)
LEMMA RecapsPose ==
    ASSUME SerialInv, Recaps, OneTurn, NEW t \in Turns, Register(t)
    PROVE  Recaps'
  <1>1. /\ row.pc = NoBatch /\ row'.pc = NewBatch(t)
        /\ minted' = minted + 1 /\ minted < MaxBatches /\ minted \in Nat
        /\ UNCHANGED <<req, graded, verdict, recap>>
    BY RowIs DEF Register, MayRegister, Row, ledger
  <1>2. PICK n : n = NewBatch(t)
    OBVIOUS
  <1>3. /\ n.id = minted + 1 /\ n.cur = 0 /\ n.link = 0
        /\ \A i \in Items : n.status[i] = "pending" /\ ~(i < n.cur)
    BY <1>2, SizesOK DEF NewBatch, Items
  <1>4. \A u \in Turns : turn'[u].batch = minted + 1
    <2>1. turn' = [turn EXCEPT ![t].at = "asked", ![t].batch = minted + 1]
          /\ turn \in [Turns -> Turn]
      BY DEF Register, SerialInv, Typed, TypeOK
    <2>2. turn'[t].batch = minted + 1
      BY <2>1 DEF Turn
    <2>3. QED
      BY <2>2 DEF OneTurn
  <1>5. \A c \in BatchIds : c > minted => recap[c] = NoRecap
    BY DEF Recaps, Posed
  <1>6. Posed'
    <2>1. \A c \in BatchIds : c > minted + 1 => c > minted
      BY <1>1, SizesOK DEF BatchIds
    <2>2. QED
      BY <1>1, <1>4, <1>5, <2>1 DEF Posed
  <1>7. minted + 1 \in BatchIds /\ recap[minted + 1] = NoRecap
    BY <1>1, <1>5, SizesOK DEF BatchIds
  <1>8. OpenTrue'
    BY <1>1, <1>2, <1>3, <1>7 DEF OpenTrue
  <1>9. ClosedTrue'
    <2>1. \A c \in BatchIds : Gone(c) /\ Outcomes(c)' = Outcomes(c)
      BY <1>1 DEF Gone, Outcomes, Outcome
    <2>2. QED
      BY <1>1, <2>1 DEF Recaps, ClosedTrue
  <1>10. \A q \in Requests : Publishes(q)'
    <2>1. \A b : ~Kept(b)
      BY <1>1 DEF Kept, Linked
    <2>2. QED
      BY <1>1, <2>1 DEF Recaps, Publishes
  <1>11. QED
    BY <1>6, <1>8, <1>9, <1>10 DEF Recaps

(* The only turn stamps the batch it posed.                                 *)
LEMMA RecapsAttach ==
    ASSUME SerialInv, Recaps, OneTurn, NEW t \in Turns, Attach(t), row.pc # NoBatch
    PROVE  Recaps'
  <1>1. PICK b : b = row.pc
    OBVIOUS
  <1>2. b \in Batch /\ b.id = minted /\ b.id \in BatchIds
    BY <1>1, RowIs, BatchIs DEF Recaps, OpenTrue
  <1>3. turn[t].batch = b.id
    BY <1>2 DEF Attach, Recaps, Posed
  <1>4. /\ row'.pc = [b EXCEPT !.link = b.id]
        /\ UNCHANGED <<req, graded, verdict, recap, minted>>
    BY <1>1, <1>3, RowIs DEF Attach, Row, ledger
  <1>5. PICK n : n = [b EXCEPT !.link = b.id]
    OBVIOUS
  <1>6. /\ n.id = b.id /\ n.cur = b.cur /\ n.status = b.status /\ n.link = b.id
        /\ n # NoBatch /\ b.id # 0
    <2>1. n \in Batch
      BY <1>2, <1>5, SizesOK DEF Batch, BatchIds
    <2>2. QED
      BY <1>2, <1>5, <2>1, BatchIs DEF Batch
  <1>7. Posed'
    <2>1. turn'[t].at = "idle"
      BY DEF Attach, NoTurn, SerialInv, Typed, TypeOK
    <2>2. QED
      BY <1>4, <2>1 DEF Recaps, Posed, OneTurn
  <1>8. OpenTrue'
    BY <1>1, <1>2, <1>4, <1>5, <1>6 DEF Recaps, OpenTrue, Outcome
  <1>9. ClosedTrue'
    <2>1. \A c \in BatchIds : Gone(c)' => Gone(c)
      BY <1>1, <1>4, <1>5, <1>6 DEF Gone
    <2>2. \A c \in BatchIds : Outcomes(c)' = Outcomes(c)
      BY <1>4 DEF Outcomes, Outcome
    <2>3. QED
      BY <1>4, <2>1, <2>2 DEF Recaps, ClosedTrue
  <1>10. ASSUME NEW c \in Batch, Kept(c)
         PROVE  Kept(c)'
    <2>1. Linked(c, b) /\ b.id = c.id
      BY <1>1, <1>2, <1>10, LinkedSame DEF Kept
    <2>2. Linked(c, n)
      <3>1. b.id \in 0 .. MaxBatches
        BY <1>2, SizesOK DEF BatchIds
      <3>2. QED
        BY <1>2, <1>5, <2>1, <3>1, LinkedSame
    <2>3. QED
      BY <1>4, <1>5, <1>6, <1>10, <2>1, <2>2 DEF Kept
  <1>11. \A q \in Requests : Publishes(q)'
    <2>1. ASSUME NEW q \in Requests
          PROVE  Publishes(q)'
      <3>1. PICK c : c = req[q].copy.pc
        OBVIOUS
      <3>2. PICK h : h = req[q].held
        OBVIOUS
      <3>3. /\ req[q].at \in {"loaded", "recap", "summary"} /\ c # NoBatch => c \in Batch
            /\ req[q].at \in {"resolved", "clear"} => h \in Batch
        BY <3>1, <3>2 DEF SerialInv, Typed, CopyHeld, Row
      <3>4. /\ req[q].at \in {"loaded", "recap", "summary"} /\ c # NoBatch => Kept(c)'
            /\ req[q].at \in {"resolved", "clear"} => Kept(h)'
        BY <1>10, <3>1, <3>2, <3>3 DEF Recaps, Publishes
      <3>5. req[q].at = "clear" /\ h.link # 0 => recap'[h.id] = h.status
        BY <1>4, <3>2 DEF Recaps, Publishes
      <3>6. QED
        BY <1>4, <3>1, <3>2, <3>4, <3>5 DEF Publishes
    <2>2. QED
      BY <2>1
  <1>12. QED
    BY <1>7, <1>8, <1>9, <1>11 DEF Recaps

LEMMA RecapsTurn ==
    ASSUME SerialInv, Recaps, OneTurn, NEW t \in Turns,
           Stream(t) \/ \E review \in BOOLEAN : TurnStart(t, review)
    PROVE  Recaps'
  <1>1. CASE Register(t)
    BY <1>1, RecapsPose
  <1>2. CASE Attach(t) /\ row.pc # NoBatch
    BY <1>2, RecapsAttach
  <1>3. CASE ~Register(t) /\ ~(Attach(t) /\ row.pc # NoBatch)
    <2>1. row'.pc = row.pc /\ UNCHANGED <<req, recap, graded, verdict, minted>>
      BY <1>3, TurnStill DEF SerialInv
    <2>2. OpenTrue' /\ ClosedTrue' /\ \A q \in Requests : Publishes(q)'
      BY <2>1 DEF Recaps, OpenTrue, ClosedTrue, Publishes, Gone, Outcomes, Outcome, Kept
    <2>3. turn'[t].at \in {"asked", "attach"} =>
              turn[t].at \in {"asked", "attach"} /\ turn'[t].batch = turn[t].batch
      <3>0. turn \in [Turns -> Turn]
        BY DEF SerialInv, Typed, TypeOK
      <3>1. CASE PersistAsk(t)
        BY <3>0, <3>1 DEF PersistAsk, Turn
      <3>2. CASE TurnReply(t) \/ CancelledAsk(t) \/ TurnClose(t)
        BY <3>0, <3>2 DEF TurnReply, CancelledAsk, TurnClose, NoTurn
      <3>3. CASE TutorPatch(t) \/ ToolRefused(t)
        BY <3>0, <3>3 DEF TutorPatch, ToolRefused, Turn
      <3>4. CASE NextIteration(t)
        BY <3>0, <3>4 DEF NextIteration, Turn
      <3>5. CASE Attach(t)
        BY <1>3, <3>0, <3>5 DEF Attach, Turn
      <3>6. ASSUME NEW review \in BOOLEAN, TurnStart(t, review)
            PROVE  turn'[t].at = "llm"
        BY <3>0, <3>6 DEF TurnStart
      <3>7. QED
        BY <1>3, <3>1, <3>2, <3>3, <3>4, <3>5, <3>6 DEF Stream
    <2>4. Posed'
      BY <2>1, <2>3 DEF Recaps, Posed, OneTurn
    <2>5. QED
      BY <2>2, <2>4 DEF Recaps
  <1>4. QED
    BY <1>1, <1>2, <1>3

LEMMA RecapsRest ==
    ASSUME SerialInv, Recaps, PatchProfile \/ Reopen \/ Crash \/ UNCHANGED vars
    PROVE  Recaps'
  <1>1. BatchStays
    BY RestStill DEF SerialInv, BatchStays
  <1>2. CASE Crash
    <2>1. \A q \in Requests : Publishes(q)'
      BY <1>2 DEF Crash, Idle, Publishes
    <2>2. OpenTrue'
      BY <1>1 DEF Recaps, OpenTrue, BatchStays, Outcome
    <2>3. ClosedTrue'
      BY <1>1 DEF Recaps, ClosedTrue, BatchStays, Outcomes, Outcome, Gone
    <2>4. Posed'
      BY <1>1, <1>2 DEF Crash, NoTurn, Recaps, Posed, BatchStays
    <2>5. QED
      BY <2>1, <2>2, <2>3, <2>4 DEF Recaps
  <1>3. CASE ~Crash
    <2>1. req' = req /\ turn' = turn
      BY <1>3, RestStill DEF SerialInv
    <2>2. Posed' /\ OpenTrue' /\ ClosedTrue' /\ \A b : Kept(b)' = Kept(b)
      BY <1>1, <2>1, StaysTrue
    <2>3. \A q \in Requests : Publishes(q)'
      BY <1>1, <2>1, <2>2 DEF Recaps, Publishes, BatchStays
    <2>4. QED
      BY <2>2, <2>3 DEF Recaps
  <1>4. QED
    BY <1>2, <1>3

LEMMA RecapsStep ==
    ASSUME ~Overlap, OneTurn
    PROVE  SerialInv /\ Fresh /\ Recaps /\ [Next]_vars => Recaps'
  <1> SUFFICES ASSUME SerialInv, Fresh, Recaps, [Next]_vars PROVE Recaps'
    OBVIOUS
  <1>1. CASE \E r \in Requests : Submit(r) \/ Proceed(r)
    BY <1>1, RecapsStart, RecapsQuiet, RecapsPublish, RecapsSettle, RecapsClear,
       RecapsAbandon DEF Proceed
  <1>2. CASE \/ \E t \in Turns, review \in BOOLEAN : TurnStart(t, review)
             \/ \E t \in Turns : Stream(t)
    BY <1>2, RecapsTurn
  <1>3. CASE PatchProfile \/ Reopen \/ Crash \/ UNCHANGED vars
    BY <1>3, RecapsRest
  <1>4. QED
    BY <1>1, <1>2, <1>3 DEF Next

(* A recap that is put together from the log differs from the outcome only  *)
(* where an answer is older than the message.                               *)
LEMMA RecapsHonest == TypeOK /\ Recaps => RecapHonest
  <1> SUFFICES ASSUME TypeOK, Recaps, NEW b \in BatchIds, Gone(b), Shown(b) # NoRecap,
                      Matched(b), NEW i \in Items
               PROVE  Shown(b)[i] = Outcome(b, i)
    BY DEF RecapHonest, Outcome
  <1>1. b # OpenMessage
    BY DEF Shown
  <1>2. Shown(b) = RecapOf(b)
    BY <1>1 DEF Shown
  <1>3. CASE recap[b] # NoRecap
    <2>1. Shown(b) = Outcomes(b)
      BY <1>2, <1>3 DEF RecapOf, Recaps, ClosedTrue
    <2>2. QED
      BY <2>1 DEF Outcomes
  <1>4. CASE recap[b] = NoRecap
    <2>1. Shown(b) = Reconstructed(b)
      BY <1>2, <1>4 DEF RecapOf
    <2>2. <<b, i>> \notin early
      BY <1>4 DEF Matched
    <2>3. graded[b][i] \in Nat
      BY SizesOK DEF TypeOK
    <2>4. QED
      BY <2>1, <2>2, <2>3 DEF Reconstructed, Outcome
  <1>5. QED
    BY <1>3, <1>4

\* When requests come one at a time and the client streams one turn at a time,
\* a batch that was completed or abandoned is shown with the verdicts the
\* learning events hold, wherever a restart cut the chain of commits.
THEOREM SerialRecapHonest ==
    ASSUME ~Overlap, OneTurn
    PROVE  HSpec => []RecapHonest
  <1>1. HSpec => Spec
    <2>1. HInit => Init
      BY DEF HInit
    <2>2. [HNext]_hvars => [Next]_vars
      BY DEF HNext, hvars, vars
    <2>3. QED
      BY <2>1, <2>2, PTL DEF HSpec, Spec
  <1>2. Spec => [](SerialInv /\ Fresh /\ Recaps)
    <2>1. SerialInv /\ Fresh /\ Recaps /\ [Next]_vars => Recaps'
      BY RecapsStep
    <2>2. QED
      BY <2>1, RecapsInit, FreshAlways, PTL DEF Spec
  <1>3. SerialInv /\ Fresh /\ Recaps => RecapHonest
    BY RecapsHonest DEF SerialInv, Typed
  <1>4. QED
    BY <1>1, <1>2, <1>3, PTL
=============================================================================
