--------------------------- MODULE CheckBatchProof ----------------------------
(***************************************************************************)
(* Proofs about CheckBatch for every number of questions, batches,         *)
(* requests and turns.                                                     *)
(***************************************************************************)
EXTENDS CheckBatch, TLAPS

(* TypeOK is not inductive: a request that is about to use its copy of the  *)
(* row, or the batch it holds, must have one, and a turn that asked must    *)
(* know the batch it asked.                                                 *)
CopyHeld ==
    \A r \in Requests :
        /\ req[r].at \in {"loaded", "recap", "level", "summary"} => req[r].copy \in Row
        /\ req[r].at \in {"resolved", "clear", "followup"} => req[r].held \in Batch

BatchKnown ==
    \A t \in Turns : turn[t].at \in {"asked", "attach"} => turn[t].batch \in BatchIds

Typed == TypeOK /\ CopyHeld /\ BatchKnown

-----------------------------------------------------------------------------
(* The operators the actions are built from stay within their types.        *)

LEMMA SettleType ==
    ASSUME NEW b \in Batch, b.cur < NItems, NEW o \in Statuses
    PROVE  /\ Settle(b, o) \in Batch
           /\ Settle(b, o).id = b.id
           /\ Settle(b, o).cur = b.cur + 1
  <1> DEFINE f == [b.status EXCEPT ![b.cur] = o]
  <1>1. f \in [Items -> Statuses] /\ b.cur + 1 \in 0 .. NItems
    BY SizesOK DEF Batch, Items
  <1>2. Settle(b, o) = [b EXCEPT !.status = f, !.cur = b.cur + 1]
    BY DEF Settle
  <1> HIDE DEF f
  <1>3. QED
    BY <1>1, <1>2 DEF Batch

LEMMA SkipRestType ==
    ASSUME NEW b \in Batch
    PROVE  SkipRest(b) \in [Items -> Statuses]
  BY DEF SkipRest, Batch, Statuses

LEMMA IdleType == Idle \in Request /\ NoTurn \in Turn
  BY SizesOK DEF Idle, Request, Stages, Ops, NoTurn, Turn

LEMMA BumpType == \A n \in 0 .. MaxGrades : Bump(n) \in 0 .. MaxGrades
  BY SizesOK DEF Bump

LEMMA InitTyped == Init => Typed
  <1> SUFFICES ASSUME Init PROVE Typed
    OBVIOUS
  <1>1. row \in Row
    BY DEF Init, Row, Profile
  <1>2. TypeOK
    BY <1>1, SizesOK, IdleType DEF Init, TypeOK
  <1>3. CopyHeld /\ BatchKnown
    BY DEF Init, CopyHeld, BatchKnown, Idle, NoTurn
  <1>4. QED
    BY <1>2, <1>3 DEF Typed

LEMMA NewBatchType ==
    ASSUME Typed, NEW t \in Turns, minted < MaxBatches
    PROVE  /\ NewBatch(t) \in Batch
           /\ NewBatch(t).id = minted + 1
           /\ NewBatch(t).cur = 0
  BY SizesOK DEF Typed, TypeOK, NewBatch, Batch, BatchIds, Purposes, Statuses

-----------------------------------------------------------------------------
(* Every step preserves Typed, one lemma per group of actions.              *)

LEMMA MoveType ==
    ASSUME Typed, NEW r \in Requests, NEW where \in Stages, NEW c \in Row \cup {Expired}
    PROVE  /\ [req EXCEPT ![r].at = where, ![r].copy = c] \in [Requests -> Request]
           /\ [req EXCEPT ![r].at = where] \in [Requests -> Request]
           /\ [req EXCEPT ![r] = Idle] \in [Requests -> Request]
  <1>1. /\ [req[r] EXCEPT !.at = where, !.copy = c] \in Request
        /\ [req[r] EXCEPT !.at = where] \in Request
    BY DEF Typed, TypeOK, Request
  <1>2. [req EXCEPT ![r].at = where, ![r].copy = c]
          = [req EXCEPT ![r] = [req[r] EXCEPT !.at = where, !.copy = c]]
    BY DEF Typed, TypeOK
  <1>3. QED
    BY <1>1, <1>2, IdleType DEF Typed, TypeOK

LEMMA LoadTyped ==
    ASSUME Typed, NEW r \in Requests, NEW op \in Ops, NEW i \in 0 .. NItems,
           NEW right \in BOOLEAN, Load(r, op, i, right)
    PROVE  Typed'
  <1>1. [Idle EXCEPT !.at = "loaded", !.op = op, !.item = i, !.right = right,
                     !.copy = row] \in Request
    BY DEF Typed, TypeOK, Idle, Request, Stages
  <1>2. req' \in [Requests -> Request]
    BY <1>1 DEF Load, Typed, TypeOK
  <1>3. CopyHeld'
    BY DEF Load, Typed, TypeOK, CopyHeld, Idle
  <1>4. QED
    BY <1>2, <1>3 DEF Load, Typed, TypeOK, BatchKnown, ledger

LEMMA AnswerTyped ==
    ASSUME Typed, NEW r \in Requests, Answer(r)
    PROVE  Typed'
  <1> DEFINE b == req[r].copy.pc
             o == IF req[r].right THEN "right" ELSE "wrong"
  <1>1. req[r].copy \in Row /\ b \in Batch /\ b.cur < NItems /\ req[r].op = "answer"
    BY DEF Answer, Accepts, Typed, CopyHeld, Row
  <1>2. o \in Statuses
    BY DEF Statuses
  <1>3. Settle(b, o) \in Batch
    BY <1>1, <1>2, SettleType
  <1>4. Effect(req[r].copy.prof, req[r].right) \in Profile
    BY <1>1 DEF Effect, Row, Profile
  <1>5. row' \in Row
    BY <1>1, <1>3, <1>4 DEF Answer, Typed, TypeOK, Row
  <1>6. b.id \in BatchIds /\ b.cur \in Items
    BY <1>1, SizesOK DEF Batch, Items
  <1>7. graded' \in [BatchIds -> [Items -> 0 .. MaxGrades]]
    <2>1. graded' = [graded EXCEPT ![b.id] = [graded[b.id] EXCEPT ![b.cur] = Bump(@)]]
      BY DEF Answer
    <2>2. graded \in [BatchIds -> [Items -> 0 .. MaxGrades]]
      BY DEF Typed, TypeOK
    <2>3. QED
      BY <1>6, <2>1, <2>2, BumpType
  <1>8. verdict' \in [BatchIds -> [Items -> {"none", "right", "wrong"}]]
    BY <1>6 DEF Answer, Typed, TypeOK
  <1>9. req' \in [Requests -> Request] /\ newest' \in {"none", "mastered", "gap", "told"}
    BY MoveType DEF Answer, Typed, TypeOK, Stages
  <1>10. CopyHeld'
    <2>1. req' = [req EXCEPT ![r].at = "settled", ![r].copy = Expired]
      BY DEF Answer
    <2>2. QED
      BY <2>1 DEF Typed, TypeOK, CopyHeld
  <1>11. QED
    BY <1>5, <1>7, <1>8, <1>9, <1>10 DEF Answer, Typed, TypeOK, BatchKnown

LEMMA SkipTyped ==
    ASSUME Typed, NEW r \in Requests, Skip(r)
    PROVE  Typed'
  <1>1. /\ req[r].copy.pc \in Batch
        /\ req[r].copy.pc.cur < NItems
    BY DEF Skip, Accepts, Typed, CopyHeld, Row
  <1>2. Settle(req[r].copy.pc, "skipped") \in Batch
    BY <1>1, SettleType DEF Statuses
  <1>3. row' \in Row
    BY <1>2 DEF Skip, Typed, TypeOK, Row
  <1>4. req' \in [Requests -> Request]
    BY MoveType DEF Skip, Stages
  <1>5. CopyHeld'
    BY DEF Skip, Typed, TypeOK, CopyHeld
  <1>6. QED
    BY <1>3, <1>4, <1>5 DEF Skip, Typed, TypeOK, BatchKnown, ledger

(* Publishing a typed view keeps the recaps typed.                          *)
LEMMA PublishType ==
    ASSUME Typed, NEW link \in 0 .. MaxBatches, NEW st \in [Items -> Statuses],
           Publish(link, st)
    PROVE  recap' \in [BatchIds -> [Items -> Statuses] \cup {NoRecap}]
  BY SizesOK DEF Publish, Typed, TypeOK, BatchIds

LEMMA GradeTyped ==
    ASSUME Typed, NEW r \in Requests,
           Refuse(r) \/ Reload(r) \/ WriteRecap(r) \/ GradeLoad(r) \/ GradeLevel(r)
    PROVE  Typed'
  <1>1. CASE Refuse(r)
    BY <1>1, IdleType DEF Refuse, Finish, Typed, TypeOK, CopyHeld, BatchKnown, ledger, Idle
  <1>2. CASE Reload(r)
    <2>1. req' \in [Requests -> Request]
      BY <1>2, MoveType DEF Reload, Typed, TypeOK, Stages
    <2>2. QED
      BY <1>2, <2>1 DEF Reload, Typed, TypeOK, CopyHeld, BatchKnown, ledger
  <1>3. CASE WriteRecap(r)
    <2>1. req[r].copy \in Row
      BY <1>3 DEF WriteRecap, Typed, CopyHeld
    <2>2. recap' \in [BatchIds -> [Items -> Statuses] \cup {NoRecap}]
      <3>1. CASE req[r].copy.pc = NoBatch
        BY <1>3, <3>1 DEF WriteRecap, Typed, TypeOK
      <3>2. CASE req[r].copy.pc # NoBatch
        BY <1>3, <2>1, <3>2, PublishType DEF WriteRecap, Row, Batch
      <3>3. QED
        BY <3>1, <3>2
    <2>3. req' \in [Requests -> Request]
      BY <1>3, <2>1, MoveType DEF WriteRecap, Stages
    <2>4. CopyHeld'
      BY <1>3 DEF WriteRecap, Typed, TypeOK, CopyHeld
    <2>5. QED
      BY <1>3, <2>2, <2>3, <2>4 DEF WriteRecap, Typed, TypeOK, BatchKnown, ledger
  <1>4. CASE GradeLoad(r)
    <2>1. req[r].copy \in Row \cup {Expired} /\ Seen(r) \in Row
      BY DEF Typed, TypeOK, Request, Seen
    <2> DEFINE c == Seen(r)
    <2>2. CASE Gradable(c.pc)
      <3>1. req' = [req EXCEPT ![r].at = "level", ![r].copy = c]
        BY <1>4, <2>2 DEF GradeLoad
      <3> HIDE DEF c
      <3>2. c \in Row /\ c \in Row \cup {Expired} /\ "level" \in Stages
        BY <2>1 DEF c, Stages
      <3>3. req' \in [Requests -> Request]
        BY <3>1, <3>2, MoveType
      <3>4. CopyHeld'
        BY <3>1, <3>2 DEF Typed, TypeOK, CopyHeld
      <3>5. QED
        BY <1>4, <3>3, <3>4 DEF GradeLoad, Typed, TypeOK, BatchKnown, ledger
    <2>3. CASE ~Gradable(c.pc)
      <3>1. req' = [req EXCEPT ![r] = Idle]
        BY <1>4, <2>3 DEF GradeLoad, Finish
      <3>2. req' \in [Requests -> Request] /\ CopyHeld'
        BY <3>1, IdleType DEF Typed, TypeOK, CopyHeld, Idle
      <3>3. QED
        BY <1>4, <3>2 DEF GradeLoad, Typed, TypeOK, BatchKnown, ledger
    <2>4. QED
      BY <2>2, <2>3
  <1>5. CASE GradeLevel(r)
    <2>1. req[r].copy \in Row
      BY <1>5 DEF GradeLevel, Typed, CopyHeld
    <2>2. row' \in Row
      BY <1>5, <2>1 DEF GradeLevel, Typed, TypeOK, Row, Profile
    <2>3. QED
      BY <1>5, <2>2, IdleType DEF GradeLevel, Finish, Typed, TypeOK, CopyHeld, BatchKnown, ledger, Idle
  <1>6. QED
    BY <1>1, <1>2, <1>3, <1>4, <1>5

LEMMA ResolvedType ==
    ASSUME NEW q \in Request, NEW where \in Stages,
           NEW h \in Batch \cup {NoBatch}, NEW c \in Row \cup {Expired}
    PROVE  [q EXCEPT !.at = where, !.held = h, !.copy = c] \in Request
  BY DEF Request

LEMMA CompleteTyped ==
    ASSUME Typed, NEW r \in Requests,
           CompleteClaim(r) \/ CompleteRecap(r) \/ CompleteClear(r) \/ Followup(r)
    PROVE  Typed'
  <1>1. CASE CompleteClaim(r)
    <2> DEFINE h == req[r].copy.pc
               c == IF Backstop(r) THEN Expired ELSE req[r].copy
    <2>1. req[r].copy \in Row /\ h \in Batch /\ c \in Row \cup {Expired}
      BY <1>1 DEF CompleteClaim, Accepts, Typed, CopyHeld, Row
    <2>2. row' \in Row
      BY <1>1, <2>1 DEF CompleteClaim, Typed, TypeOK, Row, Profile
    <2>3. req' = [req EXCEPT ![r] = [req[r] EXCEPT !.at = "resolved", !.held = h, !.copy = c]]
      BY <1>1 DEF CompleteClaim, Typed, TypeOK
    <2>4. UNCHANGED <<turn, minted, graded, verdict, newest, recap, followups>>
          /\ lock' \in Requests \cup Turns \cup {Nobody}
      BY <1>1 DEF CompleteClaim, ledger
    <2> HIDE DEF h, c
    <2>5. [req[r] EXCEPT !.at = "resolved", !.held = h, !.copy = c] \in Request
      <3>1. req[r] \in Request /\ "resolved" \in Stages
        BY DEF Typed, TypeOK, Stages
      <3>2. h \in Batch \cup {NoBatch} /\ c \in Row \cup {Expired}
        BY <2>1
      <3>3. QED
        BY <3>1, <3>2, ResolvedType
    <2>6. req' \in [Requests -> Request] /\ CopyHeld'
      BY <2>1, <2>3, <2>5 DEF Typed, TypeOK, CopyHeld, Request
    <2>7. QED
      BY <2>2, <2>4, <2>6 DEF Typed, TypeOK, BatchKnown
  <1>2. CASE CompleteRecap(r)
    <2>1. req[r].held \in Batch
      BY <1>2 DEF CompleteRecap, Typed, CopyHeld
    <2>2. recap' \in [BatchIds -> [Items -> Statuses] \cup {NoRecap}]
      BY <1>2, <2>1, PublishType DEF CompleteRecap, Batch
    <2>3. req' \in [Requests -> Request]
      BY <1>2, MoveType DEF CompleteRecap, Goto, Stages
    <2>4. CopyHeld'
      BY <1>2, <2>1 DEF CompleteRecap, Goto, Typed, TypeOK, CopyHeld
    <2>5. QED
      BY <1>2, <2>2, <2>3, <2>4 DEF CompleteRecap, Typed, TypeOK, BatchKnown, ledger
  <1>3. CASE CompleteClear(r)
    <2>1. req' \in [Requests -> Request] /\ row' \in Row
      BY <1>3, MoveType DEF CompleteClear, Cleared, Typed, TypeOK, Row, Stages
    <2>2. CopyHeld'
      BY <1>3 DEF CompleteClear, Typed, TypeOK, CopyHeld
    <2>3. QED
      BY <1>3, <2>1, <2>2 DEF CompleteClear, Typed, TypeOK, BatchKnown, ledger
  <1>4. CASE Followup(r)
    <2>1. req[r].held.id \in BatchIds
      BY <1>4 DEF Followup, Typed, CopyHeld, Batch
    <2>2. followups' \in [BatchIds -> 0 .. MaxGrades]
      BY <1>4, <2>1, BumpType, SMTT(30) DEF Followup, Typed, TypeOK
    <2>3. QED
      BY <1>4, <2>2, IdleType DEF Followup, Finish, Typed, TypeOK, CopyHeld, BatchKnown, ledger, Idle
  <1>5. QED
    BY <1>1, <1>2, <1>3, <1>4

LEMMA EndTyped ==
    ASSUME Typed, NEW r \in Requests, ClaimEnd(r) \/ SummaryLoad(r) \/ SummaryPersist(r)
    PROVE  Typed'
  <1>1. CASE ClaimEnd(r)
    <2>1. req' \in [Requests -> Request] /\ row' \in Row
      BY <1>1, MoveType DEF ClaimEnd, Goto, Typed, TypeOK, Row, Stages
    <2>2. QED
      BY <1>1, <2>1 DEF ClaimEnd, Goto, Typed, TypeOK, CopyHeld, BatchKnown, ledger
  <1>2. CASE SummaryLoad(r)
    <2>1. req' \in [Requests -> Request]
      BY <1>2, MoveType DEF SummaryLoad, Typed, TypeOK, Stages
    <2>2. QED
      BY <1>2, <2>1 DEF SummaryLoad, Typed, TypeOK, CopyHeld, BatchKnown, ledger
  <1>3. CASE SummaryPersist(r)
    <2>1. req[r].copy \in Row
      BY <1>3 DEF SummaryPersist, Typed, CopyHeld
    <2>2. row' \in Row
      BY <1>3, <2>1, ZenonT(40) DEF SummaryPersist, Typed, TypeOK, Row
    <2>3. recap' \in [BatchIds -> [Items -> Statuses] \cup {NoRecap}]
      <3>1. CASE req[r].copy.pc = NoBatch
        BY <1>3, <3>1 DEF SummaryPersist, Typed, TypeOK
      <3>2. CASE req[r].copy.pc # NoBatch
        <4>1. req[r].copy.pc \in Batch
          BY <2>1, <3>2 DEF Row
        <4>2. Publish(req[r].copy.pc.link, SkipRest(req[r].copy.pc))
          BY <1>3, <3>2 DEF SummaryPersist
        <4>3. QED
          BY <4>1, <4>2, SkipRestType, PublishType DEF Batch
      <3>3. QED
        BY <3>1, <3>2
    <2>4. QED
      BY <1>3, <2>2, <2>3, IdleType
      DEF SummaryPersist, Finish, Typed, TypeOK, CopyHeld, BatchKnown, ledger, Idle
  <1>4. QED
    BY <1>1, <1>2, <1>3

(* A patch by the tutor or the learner: the rest of the row stands, the      *)
(* level is kept or declared, and a verdict on the gap is kept or told over. *)
Patched ==
    /\ row' \in Row /\ row'.pc = row.pc /\ row'.ended = row.ended
    /\ row'.prof \in Profile /\ row'.prof.level \in {row.prof.level, "declared"}
    /\ newest' \in {newest, "told"}
    /\ newest' # "told" => row'.prof.mark = row.prof.mark
    /\ UNCHANGED <<req, minted, graded, verdict, recap, followups>>

LEMMA TellPatches ==
    ASSUME Typed, NEW prof \in Edited(row.prof), Tell(prof),
           UNCHANGED <<req, minted, graded, verdict, recap, followups>>
    PROVE  Patched
  <1>1. row \in Row /\ row.prof \in Profile
    BY DEF Typed, TypeOK, Row
  <1>2. prof \in Profile /\ prof.level \in {row.prof.level, "declared"}
    BY <1>1, SizesOK DEF Edited, Profile
  <1>3. row' = [row EXCEPT !.prof = prof]
    BY DEF Tell
  <1>4. /\ row' \in Row /\ row'.pc = row.pc /\ row'.ended = row.ended
        /\ row'.prof = prof
    BY <1>1, <1>2, <1>3 DEF Row
  <1>5. newest' \in {newest, "told"} /\ (newest' # "told" => prof.mark = row.prof.mark)
    BY DEF Tell
  <1>6. QED
    BY <1>2, <1>4, <1>5 DEF Patched

LEMMA TutorPatches ==
    ASSUME Typed, NEW t \in Turns, TutorPatch(t)
    PROVE  /\ Patched
           /\ lock' = Nobody
           /\ turn' = [turn EXCEPT ![t].at = "llm"]
  <1>1. PICK prof \in Told(row.prof) : Tell(prof)
    BY DEF TutorPatch
  <1>2. prof \in Edited(row.prof)
    BY <1>1 DEF Told
  <1>3. QED
    BY <1>1, <1>2, TellPatches DEF TutorPatch

LEMMA LearnerPatches ==
    ASSUME Typed, PatchProfile
    PROVE  /\ Patched
           /\ UNCHANGED <<lock, turn>>
           /\ Quiet
  <1>1. PICK prof \in Edited(row.prof) : Tell(prof)
    BY DEF PatchProfile
  <1>2. QED
    BY <1>1, TellPatches DEF PatchProfile

(* A turn that moves on keeps what it knows; only PersistAsk takes a turn   *)
(* to a stage that needs the batch, from one that has it.                   *)
LEMMA TurnMoveType ==
    ASSUME Typed, NEW t \in Turns
    PROVE  /\ [turn EXCEPT ![t] = NoTurn] \in [Turns -> Turn]
           /\ \A where \in {"llm", "refused", "attach", "closing"} :
                  [turn EXCEPT ![t].at = where] \in [Turns -> Turn]
  <1>1. [turn EXCEPT ![t] = NoTurn] \in [Turns -> Turn]
    BY IdleType DEF Typed, TypeOK
  <1>2. ASSUME NEW where \in {"llm", "refused", "attach", "closing"}
        PROVE  [turn EXCEPT ![t].at = where] \in [Turns -> Turn]
    <2>1. [turn[t] EXCEPT !.at = where] \in Turn
      BY DEF Typed, TypeOK, Turn
    <2>2. QED
      BY <2>1 DEF Typed, TypeOK
  <1>3. QED
    BY <1>1, <1>2

LEMMA TurnTyped ==
    ASSUME Typed, NEW t \in Turns,
           Stream(t) \/ \E review \in BOOLEAN : TurnStart(t, review)
    PROVE  Typed'
  <1>1. CASE \E review \in BOOLEAN : TurnStart(t, review)
    <2>1. PICK review \in BOOLEAN : TurnStart(t, review)
      BY <1>1
    <2> DEFINE d == row.prof.level = "none" /\ ~review
    <2>2. [at |-> "llm", batch |-> 0, diag |-> d] \in Turn
      BY SizesOK, d \in BOOLEAN DEF Turn
    <2>3. QED
      BY <2>1, <2>2 DEF TurnStart, Typed, TypeOK, CopyHeld, BatchKnown, ledger
  <1>2. CASE TurnReply(t) \/ CancelledAsk(t) \/ TurnClose(t)
    <2>1. /\ turn' = [turn EXCEPT ![t] = NoTurn]
          /\ UNCHANGED <<row, req, minted, graded, verdict, newest, recap, followups>>
          /\ lock' \in {lock, Nobody}
      BY <1>2 DEF TurnReply, CancelledAsk, TurnClose, ledger
    <2>2. turn' \in [Turns -> Turn] /\ BatchKnown'
      BY <2>1, TurnMoveType DEF NoTurn, Typed, TypeOK, BatchKnown
    <2>3. QED
      BY <2>1, <2>2 DEF Typed, TypeOK, CopyHeld
  <1>3. CASE ToolRefused(t) \/ NextIteration(t) \/ PersistAsk(t)
    <2>1. /\ \E where \in {"llm", "refused", "attach"} :
                /\ turn' = [turn EXCEPT ![t].at = where]
                /\ where = "attach" => turn[t].at = "asked"
          /\ UNCHANGED <<row, req, minted, graded, verdict, newest, recap, followups>>
          /\ lock' \in {lock, Nobody, t}
      BY <1>3 DEF ToolRefused, NextIteration, PersistAsk, ledger
    <2>0. PICK where \in {"llm", "refused", "attach"} :
                /\ turn' = [turn EXCEPT ![t].at = where]
                /\ where = "attach" => turn[t].at = "asked"
      BY <2>1
    <2>2. turn' \in [Turns -> Turn]
      <3>1. [turn EXCEPT ![t].at = where] \in [Turns -> Turn]
        BY TurnMoveType
      <3>2. QED
        BY <3>1, <2>0
    <2>3. BatchKnown'
      BY <2>0 DEF Typed, TypeOK, BatchKnown
    <2>4. QED
      BY <2>1, <2>2, <2>3 DEF Typed, TypeOK, CopyHeld
  <1>4. CASE Register(t)
    <2> DEFINE n == minted + 1
    <2>1. NewBatch(t) \in Batch /\ n \in 0 .. MaxBatches /\ n \in BatchIds
      BY <1>4, NewBatchType, SizesOK DEF Register, Typed, TypeOK, BatchIds
    <2>2. row' \in Row
      BY <1>4, <2>1 DEF Register, Typed, TypeOK, Row
    <2>3. turn' = [turn EXCEPT ![t] = [turn[t] EXCEPT !.at = "asked", !.batch = n]]
      BY <1>4 DEF Register, Typed, TypeOK
    <2>4. /\ minted' = n
          /\ lock' = Nobody
          /\ UNCHANGED <<req, graded, verdict, newest, recap, followups>>
      BY <1>4 DEF Register, ledger
    <2> HIDE DEF n
    <2>5. [turn[t] EXCEPT !.at = "asked", !.batch = n] \in Turn
      BY <2>1 DEF Typed, TypeOK, Turn
    <2>6. turn' \in [Turns -> Turn] /\ BatchKnown'
      BY <2>1, <2>3, <2>5 DEF Typed, TypeOK, BatchKnown, Turn
    <2>7. QED
      BY <2>1, <2>2, <2>4, <2>6 DEF Typed, TypeOK, CopyHeld
  <1>5. CASE Attach(t)
    <2>1. turn[t].batch \in 0 .. MaxBatches
      BY DEF Typed, TypeOK, Turn
    <2>2. row' \in Row
      <3>1. CASE row.pc = NoBatch
        BY <1>5, <3>1 DEF Attach, Typed, TypeOK
      <3>2. CASE row.pc # NoBatch
        <4>1. [row.pc EXCEPT !.link = turn[t].batch] \in Batch
          BY <2>1, <3>2 DEF Typed, TypeOK, Row, Batch
        <4>2. row' = [row EXCEPT !.pc = [row.pc EXCEPT !.link = turn[t].batch]]
          BY <1>5, <3>2 DEF Attach, Typed, TypeOK, Row
        <4>3. QED
          BY <4>1, <4>2 DEF Typed, TypeOK, Row
      <3>3. QED
        BY <3>1, <3>2
    <2>3. /\ \/ turn' = [turn EXCEPT ![t] = NoTurn]
             \/ turn' = [turn EXCEPT ![t].at = "closing"]
          /\ UNCHANGED <<req, minted, graded, verdict, newest, recap, followups>>
          /\ lock' \in {lock, t}
      BY <1>5 DEF Attach, ledger
    <2>4. turn' \in [Turns -> Turn]
      BY <2>3, TurnMoveType
    <2>5. BatchKnown'
      <3>1. CASE turn' = [turn EXCEPT ![t] = NoTurn]
        BY <3>1 DEF Typed, TypeOK, BatchKnown, NoTurn
      <3>2. CASE turn' = [turn EXCEPT ![t].at = "closing"]
        BY <3>2 DEF Typed, TypeOK, BatchKnown
      <3>3. QED
        BY <2>3, <3>1, <3>2
    <2>6. QED
      BY <2>2, <2>3, <2>4, <2>5 DEF Typed, TypeOK, CopyHeld
  <1>6. CASE TutorPatch(t)
    <2>1. Patched /\ lock' = Nobody /\ turn' = [turn EXCEPT ![t].at = "llm"]
      BY <1>6, TutorPatches
    <2>2. turn' \in [Turns -> Turn]
      BY <2>1, TurnMoveType
    <2>3. BatchKnown'
      BY <2>1 DEF Patched, Typed, TypeOK, BatchKnown
    <2>4. QED
      BY <2>1, <2>2, <2>3 DEF Patched, Typed, TypeOK, CopyHeld
  <1>7. QED
    BY <1>1, <1>2, <1>3, <1>4, <1>5, <1>6 DEF Stream

(* Two steps of a turn change the batch; one other writes the row at all.   *)
LEMMA TurnStill ==
    ASSUME Typed, NEW t \in Turns,
           Stream(t) \/ \E review \in BOOLEAN : TurnStart(t, review),
           ~Register(t), ~(Attach(t) /\ row.pc # NoBatch)
    PROVE  /\ row'.pc = row.pc /\ row'.ended = row.ended
           /\ UNCHANGED <<req, minted, graded, verdict, recap, followups>>
           /\ (TutorPatch(t) /\ Patched) \/ UNCHANGED <<row, newest>>
  <1>1. CASE TutorPatch(t)
    BY <1>1, TutorPatches DEF Patched
  <1>2. CASE ~TutorPatch(t)
    BY <1>2 DEF Stream, TurnStart, TurnReply, ToolRefused, NextIteration,
                PersistAsk, CancelledAsk, Attach, TurnClose, ledger
  <1>3. QED
    BY <1>1, <1>2

(* The learner's other requests and a restart leave the batch alone.        *)
LEMMA RestStill ==
    ASSUME Typed, PatchProfile \/ Reopen \/ Crash \/ UNCHANGED vars
    PROVE  /\ row'.pc = row.pc
           /\ UNCHANGED <<minted, graded, verdict, recap, followups>>
           /\ UNCHANGED <<req, turn>> \/ Crash
  <1>1. CASE PatchProfile
    BY <1>1, LearnerPatches DEF Patched
  <1>2. CASE Reopen \/ Crash \/ UNCHANGED vars
    BY <1>2 DEF Reopen, Crash, vars, ledger, Typed, TypeOK, Row
  <1>3. QED
    BY <1>1, <1>2

LEMMA RowTyped ==
    ASSUME Typed, PatchProfile \/ Reopen \/ Crash
    PROVE  Typed'
  <1>1. CASE PatchProfile
    BY <1>1, LearnerPatches DEF Patched, Typed, TypeOK, CopyHeld, BatchKnown
  <1>2. CASE Reopen
    <2>1. row' \in Row
      BY <1>2 DEF Reopen, Typed, TypeOK, Row
    <2>2. QED
      BY <1>2, <2>1 DEF Reopen, Typed, TypeOK, CopyHeld, BatchKnown, ledger
  <1>3. CASE Crash
    <2>1. req' \in [Requests -> Request] /\ turn' \in [Turns -> Turn]
      BY <1>3, IdleType DEF Crash
    <2>2. CopyHeld' /\ BatchKnown'
      BY <1>3 DEF Crash, CopyHeld, BatchKnown, Idle, NoTurn
    <2>3. QED
      BY <1>3, <2>1, <2>2 DEF Crash, Typed, TypeOK, ledger
  <1>4. QED
    BY <1>1, <1>2, <1>3

LEMMA SubmitTyped ==
    ASSUME Typed, NEW r \in Requests, Submit(r)
    PROVE  Typed'
  <1>1. CASE \E i \in Items, right \in BOOLEAN : Load(r, "answer", i, right)
    <2>1. PICK i \in Items, right \in BOOLEAN : Load(r, "answer", i, right)
      BY <1>1
    <2>2. i \in 0 .. NItems /\ "answer" \in Ops
      BY SizesOK DEF Items, Ops
    <2>3. QED
      BY <2>1, <2>2, LoadTyped
  <1>2. CASE \E i \in Items : Load(r, "skip", i, FALSE)
    <2>1. PICK i \in Items : Load(r, "skip", i, FALSE)
      BY <1>2
    <2>2. i \in 0 .. NItems /\ "skip" \in Ops
      BY SizesOK DEF Items, Ops
    <2>3. QED
      BY <2>1, <2>2, LoadTyped
  <1>3. CASE Load(r, "complete", 0, FALSE)
    <2>1. 0 \in 0 .. NItems /\ "complete" \in Ops
      BY SizesOK DEF Ops
    <2>2. QED
      BY <1>3, <2>1, LoadTyped
  <1>4. QED
    BY <1>1, <1>2, <1>3, EndTyped DEF Submit

LEMMA TypedStep == Typed /\ [Next]_vars => Typed'
  <1> SUFFICES ASSUME Typed, [Next]_vars PROVE Typed'
    OBVIOUS
  <1>1. CASE \E r \in Requests : Submit(r) \/ Proceed(r)
    BY <1>1, SubmitTyped, AnswerTyped, SkipTyped, GradeTyped, CompleteTyped, EndTyped
    DEF Proceed
  <1>2. CASE \E t \in Turns, review \in BOOLEAN : TurnStart(t, review)
    BY <1>2, TurnTyped
  <1>3. CASE \E t \in Turns : Stream(t)
    BY <1>3, TurnTyped
  <1>4. CASE PatchProfile \/ Reopen \/ Crash
    BY <1>4, RowTyped
  <1>5. CASE UNCHANGED vars
    BY <1>5 DEF vars, Typed, TypeOK, CopyHeld, BatchKnown
  <1>6. QED
    BY <1>1, <1>2, <1>3, <1>4, <1>5 DEF Next

LEMMA TypedAlways == Spec => []Typed
  BY InitTyped, TypedStep, PTL DEF Spec

\* Whatever the number of requests and turns, overlapping or not, and however
\* often the process restarts, every variable keeps its type: no request uses a
\* row, and no turn a batch, that it does not have.
THEOREM TypeCorrect == Spec => []TypeOK
  <1>1. Typed => TypeOK
    BY DEF Typed
  <1>2. QED
    BY <1>1, TypedAlways, PTL

-----------------------------------------------------------------------------
(* The row lock.  Who holds it sits in one of the few stages between the    *)
(* statement that took it and the commit that lets it go.                   *)
LockKept ==
    /\ \A t \in Turns : lock = t => turn[t].at \in {"refused", "closing"}
    /\ \A r \in Requests : lock = r => req[r].at \in {"resolved", "clear"}

LEMMA LockByRequest ==
    ASSUME Typed, LockKept, NEW r \in Requests, Submit(r) \/ Proceed(r)
    PROVE  LockKept'
  <1>1. turn' = turn
    BY DEF Submit, Load, ClaimEnd, Proceed, Refuse, Answer, Skip, Reload, WriteRecap,
           GradeLoad, GradeLevel, CompleteClaim, CompleteRecap, CompleteClear,
           Followup, SummaryLoad, SummaryPersist
  <1>2. CASE Submit(r)
    BY <1>1, <1>2 DEF Submit, Load, ClaimEnd, Goto, Typed, TypeOK, LockKept
  <1>3. CASE Refuse(r) \/ Answer(r) \/ Skip(r) \/ Reload(r) \/ WriteRecap(r)
    BY <1>1, <1>3 DEF Refuse, Finish, Answer, Skip, Reload, WriteRecap, Typed, TypeOK, LockKept
  <1>4. CASE GradeLoad(r) \/ GradeLevel(r) \/ Followup(r) \/ SummaryLoad(r) \/ SummaryPersist(r)
    BY <1>1, <1>4 DEF GradeLoad, GradeLevel, Followup, SummaryLoad, SummaryPersist, Finish,
                      Typed, TypeOK, LockKept
  <1>5. CASE CompleteClaim(r)
    <2>1. /\ lock' \in {Nobody, r}
          /\ req'[r].at = "resolved"
      BY <1>5 DEF CompleteClaim, Typed, TypeOK
    <2>2. QED
      BY <1>1, <2>1, NullsOK DEF LockKept
  <1>6. CASE CompleteRecap(r)
    BY <1>1, <1>6, NullsOK DEF CompleteRecap, Goto, Typed, TypeOK, LockKept
  <1>7. CASE CompleteClear(r)
    BY <1>1, <1>7, NullsOK DEF CompleteClear, LockKept
  <1>8. QED
    BY <1>2, <1>3, <1>4, <1>5, <1>6, <1>7 DEF Proceed

LEMMA LockByTurn ==
    ASSUME Typed, LockKept, NEW t \in Turns,
           Stream(t) \/ \E review \in BOOLEAN : TurnStart(t, review)
    PROVE  LockKept'
  <1>1. req' = req
    BY DEF Stream, TurnStart, TurnReply, TutorPatch, Register, ToolRefused, NextIteration,
           PersistAsk, CancelledAsk, Attach, TurnClose
  <1>2. CASE \/ \E review \in BOOLEAN : TurnStart(t, review)
             \/ TurnReply(t) \/ PersistAsk(t) \/ CancelledAsk(t)
    BY <1>1, <1>2 DEF TurnStart, TurnReply, PersistAsk, CancelledAsk,
                      Typed, TypeOK, LockKept
  <1>3. CASE ToolRefused(t) \/ Attach(t)
    <2>1. CASE lock' = lock /\ lock = Nobody
      BY <1>1, <2>1, NullsOK DEF LockKept
    <2>2. CASE lock' = t /\ turn'[t].at \in {"refused", "closing"}
      BY <1>1, <2>2, NullsOK DEF LockKept
    <2>3. CASE ToolRefused(t)
      <3>1. lock' = t /\ turn'[t].at = "refused"
        BY <2>3 DEF ToolRefused, Typed, TypeOK
      <3>2. QED
        BY <2>2, <3>1
    <2>4. CASE Attach(t) /\ row.pc = NoBatch
      <3>1. lock' = t /\ turn' = [turn EXCEPT ![t].at = "closing"]
        BY <2>4 DEF Attach
      <3>2. turn'[t].at = "closing"
        BY <3>1 DEF Typed, TypeOK
      <3>3. QED
        BY <2>2, <3>1, <3>2
    <2>5. CASE Attach(t) /\ row.pc # NoBatch
      BY <2>1, <2>5 DEF Attach
    <2>6. QED
      BY <1>3, <2>3, <2>4, <2>5
  <1>4. CASE TutorPatch(t) \/ Register(t) \/ NextIteration(t) \/ TurnClose(t)
    <2>1. lock' = Nobody
      BY <1>4 DEF TutorPatch, Register, NextIteration, TurnClose
    <2>2. QED
      BY <2>1, NullsOK DEF LockKept
  <1>5. QED
    BY <1>2, <1>3, <1>4 DEF Stream

LEMMA LockStep == Typed /\ LockKept /\ [Next]_vars => LockKept'
  <1> SUFFICES ASSUME Typed, LockKept, [Next]_vars PROVE LockKept'
    OBVIOUS
  <1>1. CASE \E r \in Requests : Submit(r) \/ Proceed(r)
    BY <1>1, LockByRequest
  <1>2. CASE \/ \E t \in Turns, review \in BOOLEAN : TurnStart(t, review)
             \/ \E t \in Turns : Stream(t)
    BY <1>2, LockByTurn
  <1>3. CASE PatchProfile \/ Reopen \/ Crash
    BY <1>3, NullsOK DEF PatchProfile, Reopen, Crash, LockKept
  <1>4. CASE UNCHANGED vars
    BY <1>4 DEF vars, LockKept
  <1>5. QED
    BY <1>1, <1>2, <1>3, <1>4 DEF Next

\* lock_session_row's rule, "must NEVER hold it across an LLM await", holds for
\* any number of turns and requests: no turn waits for the model, and no request
\* for the summary or the follow-up, with the row lock in hand.
THEOREM LockReleasedBeforeLLM == Spec => []LockNotHeldAcrossLLM
  <1>1. Init => LockKept
    BY NullsOK DEF Init, LockKept
  <1>2. LockKept => LockNotHeldAcrossLLM
    BY DEF LockKept, LockNotHeldAcrossLLM
  <1>3. QED
    BY <1>1, <1>2, LockStep, TypedAlways, PTL DEF Spec

-----------------------------------------------------------------------------
(* A declared level and the copies that were taken of it.                   *)
LEMMA LevelByRequest ==
    ASSUME Typed, Undisputed, NEW r \in Requests, Submit(r) \/ Proceed(r)
    PROVE  Undisputed'
  <1>1. /\ row \in Row /\ row.prof \in Profile /\ row.prof.level = "declared"
        /\ req[r].copy \in Row \cup {Expired} /\ Expired \notin Row
        /\ req[r].copy # Expired => req[r].copy.prof.level = "declared"
        /\ req[r].copy # Expired => req[r].copy.prof \in Profile
    BY NullsOK DEF Typed, TypeOK, Request, Undisputed, Row
  <1>2. row'.prof.level = "declared"
    <2>1. CASE Answer(r)
      <3>1. req[r].copy \in Row
        BY <2>1 DEF Answer, Typed, CopyHeld
      <3>2. Effect(req[r].copy.prof, req[r].right).level = "declared"
        BY <1>1, <3>1 DEF Effect, Profile
      <3>3. QED
        BY <1>1, <2>1, <3>2 DEF Answer, Row
    <2>2. CASE GradeLevel(r) \/ CompleteClaim(r)
      <3>1. req[r].copy \in Row
        BY <2>2 DEF GradeLevel, CompleteClaim, Typed, CopyHeld
      <3>2. row' = row
        BY <1>1, <2>2, <3>1 DEF GradeLevel, CompleteClaim, LevelOpen, Backstop
      <3>3. QED
        BY <1>1, <3>2
    <2>3. CASE SummaryPersist(r)
      <3>1. req[r].copy \in Row
        BY <2>3 DEF SummaryPersist, Typed, CopyHeld
      <3>2. QED
        BY <1>1, <2>3, <3>1 DEF SummaryPersist, Row
    <2>4. CASE Skip(r) \/ CompleteClear(r)
      BY <1>1, <2>4 DEF Skip, CompleteClear, Cleared, Row
    <2>5. CASE Submit(r) \/ CompleteRecap(r) \/ Followup(r) \/ SummaryLoad(r)
      BY <1>1, <2>5 DEF Submit, Load, ClaimEnd, CompleteRecap, Followup, SummaryLoad, Row
    <2>6. CASE Refuse(r) \/ Reload(r) \/ WriteRecap(r) \/ GradeLoad(r)
      BY <1>1, <2>6 DEF Refuse, Reload, WriteRecap, GradeLoad
    <2>7. QED
      BY <2>1, <2>2, <2>3, <2>4, <2>5, <2>6 DEF Proceed
  <1>3. \A q \in Requests : q # r => req'[q] = req[q]
    BY DEF Submit, Load, ClaimEnd, Proceed, Refuse, Answer, Skip, Reload, WriteRecap,
           GradeLoad, GradeLevel, CompleteClaim, CompleteRecap, CompleteClear,
           Followup, SummaryLoad, SummaryPersist, Finish, Goto, Typed, TypeOK
  <1>4. req'[r].copy \in {Expired, row, req[r].copy}
    <2>1. req \in [Requests -> Request]
      BY DEF Typed, TypeOK
    <2>2. ASSUME Finish(r)
          PROVE  req'[r].copy = Expired
      BY <2>1, <2>2 DEF Finish, Idle
    <2>3. ASSUME NEW op, NEW i, NEW right, Load(r, op, i, right)
          PROVE  req'[r].copy = row
      <3>1. req'[r] = [Idle EXCEPT !.at = "loaded", !.op = op, !.item = i,
                                   !.right = right, !.copy = row]
        BY <2>1, <2>3 DEF Load
      <3>2. QED
        BY <3>1 DEF Idle
    <2>4. CASE ClaimEnd(r) \/ CompleteRecap(r)
      <3>1. \/ req' = [req EXCEPT ![r].at = "claimed"]
            \/ req' = [req EXCEPT ![r].at = "clear"]
        BY <2>4 DEF ClaimEnd, CompleteRecap, Goto
      <3>2. QED
        BY <2>1, <3>1 DEF Request
    <2>5. CASE Answer(r) \/ Skip(r)
      <3>1. req' = [req EXCEPT ![r].at = "settled", ![r].copy = Expired]
        BY <2>5 DEF Answer, Skip
      <3>2. QED
        BY <2>1, <3>1 DEF Request
    <2>6. CASE Reload(r) \/ SummaryLoad(r)
      BY <2>1, <2>6 DEF Reload, SummaryLoad, Request
    <2>7. CASE WriteRecap(r)
      BY <2>1, <2>7 DEF WriteRecap, Request
    <2>8. CASE GradeLoad(r)
      <3>1. Seen(r) \in {row, req[r].copy}
        BY DEF Seen
      <3>2. CASE req' = [req EXCEPT ![r].at = "level", ![r].copy = Seen(r)]
        <4>1. req'[r].copy = Seen(r)
          BY <2>1, <3>2 DEF Request
        <4>2. QED
          BY <3>1, <4>1
      <3>3. QED
        BY <2>2, <2>8, <3>2 DEF GradeLoad
    <2>9. CASE CompleteClaim(r)
      BY <2>1, <2>9 DEF CompleteClaim, Request
    <2>10. CASE CompleteClear(r)
      BY <2>1, <2>10 DEF CompleteClear, Request
    <2>11. CASE Refuse(r) \/ GradeLevel(r) \/ Followup(r) \/ SummaryPersist(r)
      BY <2>2, <2>11 DEF Refuse, GradeLevel, Followup, SummaryPersist
    <2>12. QED
      BY <2>3, <2>4, <2>5, <2>6, <2>7, <2>8, <2>9, <2>10, <2>11 DEF Submit, Proceed
  <1>5. QED
    BY <1>1, <1>2, <1>3, <1>4 DEF Undisputed

LEMMA LevelStep == Typed /\ Undisputed /\ [Next]_vars => Undisputed'
  <1> SUFFICES ASSUME Typed, Undisputed, [Next]_vars PROVE Undisputed'
    OBVIOUS
  <1>1. CASE \E r \in Requests : Submit(r) \/ Proceed(r)
    BY <1>1, LevelByRequest
  <1>2. ASSUME NEW t \in Turns, Stream(t) \/ \E review \in BOOLEAN : TurnStart(t, review)
        PROVE  Undisputed'
    <2>1. CASE Register(t) \/ Attach(t)
      BY <2>1 DEF Register, Attach, Undisputed, Typed, TypeOK, Row
    <2>2. CASE ~Register(t) /\ ~Attach(t)
      BY <1>2, <2>2, TurnStill DEF Patched, Undisputed
    <2>3. QED
      BY <2>1, <2>2
  <1>3. CASE PatchProfile
    BY <1>3, LearnerPatches DEF Patched, Undisputed
  <1>4. CASE Reopen
    BY <1>4 DEF Reopen, Undisputed, Typed, TypeOK, Row
  <1>5. CASE Crash
    BY <1>5 DEF Crash, Undisputed, Idle
  <1>6. CASE UNCHANGED vars
    BY <1>6 DEF vars, Undisputed
  <1>7. QED
    BY <1>1, <1>2, <1>3, <1>4, <1>5, <1>6 DEF Next

\* A level declared through the tutor's tool or by the learner's PATCH stands for
\* good once no request holds an older copy of the profile, however requests,
\* turns and restarts overlap: the diagnostic grades from None only (F-39), and
\* every save of the whole blob carries on the level it has read (F-11).
THEOREM DeclaredLevelKept == Spec => DeclaredLevelStands
  <1>1. Typed /\ [Next]_vars => [Undisputed => Undisputed']_vars
    BY LevelStep
  <1>2. QED
    BY <1>1, TypedAlways, PTL DEF Spec, DeclaredLevelStands
=============================================================================
