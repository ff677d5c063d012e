------------------------------ MODULE CheckBatch ------------------------------
(***************************************************************************)
(* The pending check-question batch of ONE tutoring session: the tutor     *)
(* turn that poses it, the HTTP requests that answer, skip, complete or    *)
(* abandon it, the profile blob that shares its database row and that the  *)
(* turn's own tool patches, and the recap persisted on the asking message. *)
(*                                                                         *)
(* The row is read and written through an ORM session per request.  Three  *)
(* facts about that layer carry the model:                                 *)
(*   - an attribute that was loaded once is served from the session's copy *)
(*     until the next commit of that session expires it;                   *)
(*   - lock_session_row blocks until the row lock is free, but a row that  *)
(*     is already loaded is not read again;                                *)
(*   - a commit writes only the columns the request assigned (ended_at,    *)
(*     pending_check_json, topic_profile_json are separate columns, each   *)
(*     written whole) and releases the lock.                               *)
(* So copy is what a request believes the row to be, row what is committed.*)
(***************************************************************************)
EXTENDS Naturals

CONSTANTS
    Requests,     \* HTTP requests on this session that can be in flight
    Turns,        \* streaming tutor turns on this session
    NItems,       \* questions per batch
    MaxBatches,   \* bound: batches ever posed, and no turn starts after the last
    MaxGrades,    \* bound: where the counts of grades and follow-ups saturate
    Moves,        \* bound: places a patch by tutor or learner moves the gap to
    Overlap,      \* TRUE: requests overlap (two tabs, a double click)
    CanCrash,     \* TRUE: the process may restart between two commits
    NoBatch,      \* pending_check_json IS NULL
    Expired,      \* the ORM session holds no loaded copy of the row
    NoRecap,      \* check_batch_json IS NULL
    Nobody        \* nobody holds the row lock

Items    == 0 .. NItems - 1
BatchIds == 1 .. MaxBatches
Statuses == {"pending", "right", "wrong", "skipped"}
Purposes == {"check", "diagnostic"}

(* link is the message_id of the batch: 0 before attach_message_id.  The    *)
(* message that asked batch b is called b.                                  *)
Batch == [id: BatchIds, purpose: Purposes, cur: 0 .. NItems,
          status: [Items -> Statuses], link: 0 .. MaxBatches]

(* The parts of topic_profile_json the batch touches: knowledge_level and   *)
(* the place of the quizzed gap among the concept lists.                    *)
Profile == [level: {"none", "graded", "declared"},
            mark: {"none", "mastered", "gap"}]

Row == [ended: BOOLEAN, pc: Batch \cup {NoBatch}, prof: Profile]

Ops == {"none", "answer", "skip", "complete"}
Stages == {"idle", "loaded", "settled", "recap", "grade", "level",
           "resolved", "clear", "followup", "claimed", "summary"}
Request == [at: Stages, op: Ops, item: 0 .. NItems, right: BOOLEAN,
            copy: Row \cup {Expired}, held: Batch \cup {NoBatch}]
Turn == [at: {"idle", "llm", "refused", "asked", "attach", "closing"},
         diag: BOOLEAN, batch: 0 .. MaxBatches]

Idle    == [at |-> "idle", op |-> "none", item |-> 0, right |-> FALSE,
            copy |-> Expired, held |-> NoBatch]
NoTurn  == [at |-> "idle", diag |-> FALSE, batch |-> 0]

ASSUME SizesOK == /\ NItems \in Nat \ {0}
                  /\ MaxBatches \in Nat \ {0}
                  /\ MaxGrades \in Nat \ {0}
                  /\ Moves \subseteq {"none", "mastered", "gap"}
                  /\ Overlap \in BOOLEAN
                  /\ CanCrash \in BOOLEAN
ASSUME NullsOK == /\ NoBatch \notin Batch
                  /\ Expired \notin Row
                  /\ NoRecap \notin [Items -> Statuses]
                  /\ Nobody \notin Requests \cup Turns
                  /\ Requests \cap Turns = {}

VARIABLES
    row,        \* the committed sessions row
    lock,       \* holder of its FOR UPDATE lock
    req,        \* per request: where it is, its arguments, its copy of the row
    turn,       \* per tutor turn: where it is
    minted,     \* batches posed so far
    graded,     \* learning_events rows per batch and item
    verdict,    \* verdict of the newest learning event per batch and item
    newest,     \* what the newest event of purpose "check" made of the gap,
                \* or "told" when the tutor or the learner moved it since
    recap,      \* check_batch_json per asking message
    followups   \* follow-up turns fired per batch

vars == <<row, lock, req, turn, minted, graded, verdict, newest, recap, followups>>
ledger == <<graded, verdict, newest>>

TypeOK ==
    /\ row \in Row
    /\ lock \in Requests \cup Turns \cup {Nobody}
    /\ req \in [Requests -> Request]
    /\ turn \in [Turns -> Turn]
    /\ minted \in 0 .. MaxBatches
    /\ graded \in [BatchIds -> [Items -> 0 .. MaxGrades]]
    /\ verdict \in [BatchIds -> [Items -> {"none", "right", "wrong"}]]
    /\ newest \in {"none", "mastered", "gap", "told"}
    /\ recap \in [BatchIds -> [Items -> Statuses] \cup {NoRecap}]
    /\ followups \in [BatchIds -> 0 .. MaxGrades]

Init ==
    /\ row \in [ended: {FALSE}, pc: {NoBatch},
                prof: [level: {"none", "declared"}, mark: {"none"}]]
    /\ lock = Nobody
    /\ req = [r \in Requests |-> Idle]
    /\ turn = [t \in Turns |-> NoTurn]
    /\ minted = 0
    /\ graded = [b \in BatchIds |-> [i \in Items |-> 0]]
    /\ verdict = [b \in BatchIds |-> [i \in Items |-> "none"]]
    /\ newest = "none"
    /\ recap = [b \in BatchIds |-> NoRecap]
    /\ followups = [b \in BatchIds |-> 0]

-----------------------------------------------------------------------------
(* Helpers of check_question_service and diagnostic_service.                *)

(* An operator marked "slip" is a plausible wrong version of the definition *)
(* below it; no action uses it.                                             *)

Bump(n) == IF n < MaxGrades THEN n + 1 ELSE n      \* a counter, saturating

IsDoneEarly(b) == b.cur >= NItems - 1                                  \* slip
IsDone(b) == b.cur >= NItems

\* is_done, purpose and the all-skip guard of grade_if_diagnostic
Gradable(b) == /\ b # NoBatch
               /\ b.purpose = "diagnostic"
               /\ IsDone(b)
               /\ \E i \in Items : b.status[i] \in {"right", "wrong"}

LevelAlwaysOpen(prof) == TRUE                                          \* slip
\* the level is only ever written from None
LevelOpen(prof) == prof.level = "none"

SettleByAnyName(b, outcome) ==                                         \* slip
    [b EXCEPT !.status[b.cur] = "correct", !.cur = b.cur + 1]
\* mark the current item and advance current_index
Settle(b, outcome) == [b EXCEPT !.status[b.cur] = outcome, !.cur = b.cur + 1]

\* abandon_open_batch: what was not answered is skipped
SkipRest(b) == [i \in Items |-> IF b.status[i] = "pending" THEN "skipped"
                                                           ELSE b.status[i]]

PromoteOnly(prof, right) ==                                            \* slip
    IF right THEN [prof EXCEPT !.mark = "mastered"] ELSE prof
\* record_from_answer: promote to mastered, or demote to confirmed gap
Effect(prof, right) == [prof EXCEPT !.mark = IF right THEN "mastered" ELSE "gap"]

\* write_check_batch: publish the view of a batch on its message, if linked
Publish(link, status) ==
    recap' = IF link = 0 THEN recap ELSE [recap EXCEPT ![link] = status]

\* what the learner's edits may leave: a level declared, the gap moved or removed
Edited(prof) == [level: {prof.level, "declared"}, mark: {prof.mark} \cup Moves]
\* the tutor's tool only adds
Told(prof) == {p \in Edited(prof) : p.mark = "none" => prof.mark = "none"}

\* a patched profile is saved, and whose word on the gap is the newest
Tell(prof) == /\ row' = [row EXCEPT !.prof = prof]
              /\ newest' = IF prof.mark = row.prof.mark THEN newest ELSE "told"

\* what an attribute access sees: the loaded copy, or a fresh read
Seen(r) == IF req[r].copy = Expired THEN row ELSE req[r].copy

Quiet == Overlap \/ \A q \in Requests : req[q].at = "idle"

Goto(r, where) == req' = [req EXCEPT ![r].at = where]
Finish(r) == req' = [req EXCEPT ![r] = Idle]

-----------------------------------------------------------------------------
(* Answer, skip and complete start alike: db.get loads the row, and the     *)
(* ended_at guard reads it, before any lock is taken.  The route keeps the  *)
(* row object, so this copy survives until the request's first commit.      *)
Load(r, op, i, right) ==
    /\ req[r].at = "idle"
    /\ Quiet
    /\ ~row.ended
    /\ req' = [req EXCEPT ![r] = [Idle EXCEPT !.at = "loaded", !.op = op,
                                    !.item = i, !.right = right, !.copy = row]]
    /\ UNCHANGED <<row, lock, turn, minted, ledger, recap, followups>>

\* the guards of answer() and skip(), on the copy; complete_check's is_done
Accepts(r) ==
    /\ req[r].copy.pc # NoBatch
    /\ IF req[r].op = "complete"
         THEN IsDone(req[r].copy.pc)
         ELSE /\ req[r].item = req[r].copy.pc.cur
              /\ req[r].copy.pc.cur < NItems

(* CheckStateError or no_resolved_batch: 409, the ORM session closes and    *)
(* rolls back.                                                              *)
Refuse(r) ==
    /\ req[r].at = "loaded"
    /\ lock = Nobody
    /\ ~Accepts(r)
    /\ Finish(r)
    /\ UNCHANGED <<row, lock, turn, minted, ledger, recap, followups>>

(* answer(): event, profile effect and advanced batch in one commit.        *)
Answer(r) ==
    LET b       == req[r].copy.pc
        right   == req[r].right
        outcome == IF right THEN "right" ELSE "wrong"
    IN  /\ req[r].at = "loaded"
        /\ req[r].op = "answer"
        /\ lock = Nobody
        /\ Accepts(r)
        /\ graded' = [graded EXCEPT ![b.id][b.cur] = Bump(@)]
        /\ verdict' = [verdict EXCEPT ![b.id][b.cur] = outcome]
        /\ IF b.purpose = "diagnostic"
             THEN /\ row' = [row EXCEPT !.pc = Settle(b, outcome)]
                  /\ newest' = newest
             ELSE /\ row' = [row EXCEPT !.pc = Settle(b, outcome),
                                        !.prof = Effect(req[r].copy.prof, right)]
                  /\ newest' = IF right THEN "mastered" ELSE "gap"
        /\ req' = [req EXCEPT ![r].at = "settled", ![r].copy = Expired]
        /\ UNCHANGED <<lock, turn, minted, recap, followups>>

Skip(r) ==
    /\ req[r].at = "loaded"
    /\ req[r].op = "skip"
    /\ lock = Nobody
    /\ Accepts(r)
    /\ row' = [row EXCEPT !.pc = Settle(req[r].copy.pc, "skipped")]
    /\ req' = [req EXCEPT ![r].at = "settled", ![r].copy = Expired]
    /\ UNCHANGED <<lock, turn, minted, ledger, recap, followups>>

(* The route re-reads the batch after the commit ...                        *)
Reload(r) ==
    /\ req[r].at = "settled"
    /\ req' = [req EXCEPT ![r].at = "recap", ![r].copy = row]
    /\ UNCHANGED <<row, lock, turn, minted, ledger, recap, followups>>

(* ... publishes its view on the asking message; only a real write commits  *)
(* and so expires the copy ...                                              *)
WriteRecap(r) ==
    LET b    == req[r].copy.pc
        link == IF b = NoBatch THEN 0 ELSE b.link
    IN  /\ req[r].at = "recap"
        /\ IF b = NoBatch THEN UNCHANGED recap ELSE Publish(link, b.status)
        /\ req' = [req EXCEPT ![r].at = "grade",
                              ![r].copy = IF link = 0 THEN @ ELSE Expired]
        /\ UNCHANGED <<row, lock, turn, minted, ledger, followups>>

(* ... and grades a resolved diagnostic: first the unlocked reads ...       *)
GradeLoad(r) ==
    /\ req[r].at = "grade"
    /\ IF Gradable(Seen(r).pc)
         THEN req' = [req EXCEPT ![r].at = "level", ![r].copy = Seen(r)]
         ELSE Finish(r)
    /\ UNCHANGED <<row, lock, turn, minted, ledger, recap, followups>>

(* ... then the locked write, from None only.                               *)
GradeLevel(r) ==
    /\ req[r].at = "level"
    /\ lock = Nobody
    /\ row' = IF LevelOpen(req[r].copy.prof)
                THEN [row EXCEPT !.prof = [req[r].copy.prof EXCEPT !.level = "graded"]]
                ELSE row
    /\ Finish(r)
    /\ UNCHANGED <<lock, turn, minted, ledger, recap, followups>>

-----------------------------------------------------------------------------
(* complete_check.  The lock is released by the first commit after it: the  *)
(* level's, else the recap's, else the one that clears the batch.  It runs  *)
(* on the event loop without an await, so two of them interleave between    *)
(* API processes only; requests run in threads interleave with it anywhere. *)
NoBackstop(r) == FALSE                                                 \* slip
\* its diagnostic grading, for a batch whose own request never graded it
Backstop(r) == Gradable(req[r].copy.pc) /\ LevelOpen(req[r].copy.prof)

CompleteClaim(r) ==
    LET was    == req[r].copy
        grades == Backstop(r)
    IN  /\ req[r].at = "loaded"
        /\ req[r].op = "complete"
        /\ lock = Nobody
        /\ Accepts(r)
        /\ row' = IF grades THEN [row EXCEPT !.prof = [was.prof EXCEPT !.level = "graded"]]
                            ELSE row
        /\ lock' = IF grades THEN Nobody ELSE r
        /\ req' = [req EXCEPT ![r].at = "resolved", ![r].held = was.pc,
                              ![r].copy = IF grades THEN Expired ELSE @]
        /\ UNCHANGED <<turn, minted, ledger, recap, followups>>

CompleteRecap(r) ==
    LET b == req[r].held
    IN  /\ req[r].at = "resolved"
        /\ Publish(b.link, b.status)
        /\ lock' = IF lock = r /\ b.link # 0 THEN Nobody ELSE lock
        /\ Goto(r, "clear")
        /\ UNCHANGED <<row, turn, minted, ledger, followups>>

NotCleared == row                                                      \* slip
\* clear_pending_check
Cleared == [row EXCEPT !.pc = NoBatch]

CompleteClear(r) ==
    /\ req[r].at = "clear"
    /\ lock \in {Nobody, r}
    /\ row' = Cleared
    /\ lock' = Nobody
    /\ req' = [req EXCEPT ![r].at = "followup", ![r].copy = Expired]
    /\ UNCHANGED <<turn, minted, ledger, recap, followups>>

(* The follow-up turn is a paid LLM turn, skipped at the daily cap.         *)
Followup(r) ==
    LET b == req[r].held.id
    IN  /\ req[r].at = "followup"
        /\ \/ followups' = [followups EXCEPT ![b] = Bump(@)]
           \/ UNCHANGED followups
        /\ Finish(r)
        /\ UNCHANGED <<row, lock, turn, minted, ledger, recap>>

-----------------------------------------------------------------------------
(* PATCH of the profile and DELETE of one of its items: the learner declares *)
(* a level, moves the gap or removes it.  The ownership check drops its row  *)
(* object, so the locked read is a fresh one.                                *)
PatchProfile ==
    /\ Quiet
    /\ lock = Nobody
    /\ \E prof \in Edited(row.prof) : Tell(prof)
    /\ UNCHANGED <<lock, req, turn, minted, graded, verdict, recap, followups>>

(* _claim_end: a conditional UPDATE, committed at once.  A caller that      *)
(* loses replays the stored summary and changes nothing.                    *)
ClaimEnd(r) ==
    /\ req[r].at = "idle"
    /\ Quiet
    /\ lock = Nobody
    /\ ~row.ended
    /\ row' = [row EXCEPT !.ended = TRUE]
    /\ Goto(r, "claimed")
    /\ UNCHANGED <<lock, turn, minted, ledger, recap, followups>>

(* generate_and_persist reads the session and its profile for the prompt,   *)
(* then awaits the summary LLM call for seconds.                            *)
SummaryLoad(r) ==
    /\ req[r].at = "claimed"
    /\ req' = [req EXCEPT ![r].at = "summary", ![r].copy = row]
    /\ UNCHANGED <<row, lock, turn, minted, ledger, recap, followups>>

(* Its single write window: abandon the batch and save the profile.         *)
SummaryPersist(r) ==
    LET was == req[r].copy
    IN  /\ req[r].at = "summary"
        /\ lock = Nobody
        /\ IF was.pc = NoBatch
             THEN /\ row' = [row EXCEPT !.prof = was.prof]
                  /\ UNCHANGED recap
             ELSE /\ row' = [row EXCEPT !.pc = NoBatch, !.prof = was.prof]
                  /\ Publish(was.pc.link, SkipRest(was.pc))
        /\ Finish(r)
        /\ UNCHANGED <<lock, turn, minted, ledger, followups>>

Reopen ==
    /\ Quiet
    /\ lock = Nobody
    /\ row.ended
    /\ row' = [row EXCEPT !.ended = FALSE]
    /\ UNCHANGED <<lock, req, turn, minted, ledger, recap, followups>>

-----------------------------------------------------------------------------
(* A streaming tutor turn.  Every await of the model is preceded by a       *)
(* commit, so the row is read afresh under the lock when a tool runs.       *)
TurnStart(t, review) ==
    /\ turn[t].at = "idle"
    /\ ~row.ended
    /\ minted < MaxBatches                  \* bound: no turn follows the last batch
    /\ turn' = [turn EXCEPT ![t] = [at |-> "llm", batch |-> 0,
                                    diag |-> row.prof.level = "none" /\ ~review]]
    /\ UNCHANGED <<row, lock, req, minted, ledger, recap, followups>>

TurnReply(t) ==
    /\ turn[t].at = "llm"
    /\ turn' = [turn EXCEPT ![t] = NoTurn]
    /\ UNCHANGED <<row, lock, req, minted, ledger, recap, followups>>

AlwaysRegister == TRUE                                                 \* slip
\* the open-batch guard of register
MayRegister == row.pc = NoBatch

NewBatch(t) ==
    [id |-> minted + 1, cur |-> 0, link |-> 0,
     purpose |-> IF turn[t].diag THEN "diagnostic" ELSE "check",
     status |-> [i \in Items |-> "pending"]]

(* The tools of one model answer run in turn, each under the row lock: a     *)
(* refused one may have left it with the turn.                              *)
ToolRuns(t) == turn[t].at \in {"llm", "refused"} /\ lock \in {Nobody, t}

(* update_topic_profile: the lock, a fresh read and the commit, in whatever  *)
(* request's span it falls.                                                 *)
TutorPatch(t) ==
    /\ ToolRuns(t)
    /\ \E prof \in Told(row.prof) : Tell(prof)
    /\ lock' = Nobody
    /\ turn' = [turn EXCEPT ![t].at = "llm"]
    /\ UNCHANGED <<req, minted, graded, verdict, recap, followups>>

(* register: the open-batch guard and the write under one lock.             *)
Register(t) ==
    /\ ToolRuns(t)
    /\ MayRegister
    /\ minted < MaxBatches
    /\ row' = [row EXCEPT !.pc = NewBatch(t)]
    /\ minted' = minted + 1
    /\ lock' = Nobody
    /\ turn' = [turn EXCEPT ![t].at = "asked", ![t].batch = minted + 1]
    /\ UNCHANGED <<req, ledger, recap, followups>>

(* An ask while a batch is open, a patch whose fields are refused: the call  *)
(* fails without ending the transaction, so the turn keeps the lock ...      *)
ToolRefused(t) ==
    /\ ToolRuns(t)
    /\ lock' = t
    /\ turn' = [turn EXCEPT ![t].at = "refused"]
    /\ UNCHANGED <<row, req, minted, ledger, recap, followups>>

(* ... until the commit at the top of the next iteration.                   *)
NextIterationNoCommit(t) ==                                            \* slip
    /\ turn[t].at = "refused"
    /\ turn' = [turn EXCEPT ![t].at = "llm"]
    /\ UNCHANGED <<row, lock, req, minted, ledger, recap, followups>>
NextIteration(t) ==
    /\ turn[t].at = "refused"
    /\ lock' = Nobody
    /\ turn' = [turn EXCEPT ![t].at = "llm"]
    /\ UNCHANGED <<row, req, minted, ledger, recap, followups>>

(* The assistant message is persisted; a client that disconnected while     *)
(* the tool ran leaves asked_check unset and the batch unlinked.            *)
PersistAsk(t) ==
    /\ turn[t].at = "asked"
    /\ turn' = [turn EXCEPT ![t].at = "attach"]
    /\ UNCHANGED <<row, lock, req, minted, ledger, recap, followups>>

CancelledAsk(t) ==
    /\ turn[t].at = "asked"
    /\ turn' = [turn EXCEPT ![t] = NoTurn]
    /\ UNCHANGED <<row, lock, req, minted, ledger, recap, followups>>

(* attach_message_id stamps whatever batch is open; with none it returns    *)
(* with the lock held until the response's ORM session closes.              *)
Attach(t) ==
    /\ turn[t].at = "attach"
    /\ lock = Nobody
    /\ IF row.pc = NoBatch
         THEN /\ lock' = t
              /\ row' = row
              /\ turn' = [turn EXCEPT ![t].at = "closing"]
         ELSE /\ lock' = lock
              /\ row' = [row EXCEPT !.pc.link = turn[t].batch]
              /\ turn' = [turn EXCEPT ![t] = NoTurn]
    /\ UNCHANGED <<req, minted, ledger, recap, followups>>

TurnClose(t) ==
    /\ turn[t].at = "closing"
    /\ lock' = Nobody
    /\ turn' = [turn EXCEPT ![t] = NoTurn]
    /\ UNCHANGED <<row, req, minted, ledger, recap, followups>>

-----------------------------------------------------------------------------
(* A restart drops every request, turn, copy and lock; commits survive.     *)
Crash ==
    /\ CanCrash
    /\ req' = [r \in Requests |-> Idle]
    /\ turn' = [t \in Turns |-> NoTurn]
    /\ lock' = Nobody
    /\ UNCHANGED <<row, minted, ledger, recap, followups>>

Submit(r) ==
    \/ \E i \in Items, right \in BOOLEAN : Load(r, "answer", i, right)
    \/ \E i \in Items : Load(r, "skip", i, FALSE)
    \/ Load(r, "complete", 0, FALSE)
    \/ ClaimEnd(r)

Proceed(r) ==
    \/ Refuse(r) \/ Answer(r) \/ Skip(r)
    \/ Reload(r) \/ WriteRecap(r) \/ GradeLoad(r) \/ GradeLevel(r)
    \/ CompleteClaim(r) \/ CompleteRecap(r) \/ CompleteClear(r) \/ Followup(r)
    \/ SummaryLoad(r) \/ SummaryPersist(r)

Stream(t) ==
    \/ TurnReply(t) \/ TutorPatch(t) \/ Register(t) \/ ToolRefused(t)
    \/ NextIteration(t) \/ PersistAsk(t) \/ CancelledAsk(t) \/ Attach(t) \/ TurnClose(t)

Next ==
    \/ \E r \in Requests : Submit(r) \/ Proceed(r)
    \/ \E t \in Turns, review \in BOOLEAN : TurnStart(t, review)
    \/ \E t \in Turns : Stream(t)
    \/ PatchProfile
    \/ Reopen
    \/ Crash

Spec == Init /\ [][Next]_vars

-----------------------------------------------------------------------------
(* What the code promises while requests on the session come one at a time  *)
(* (~Overlap); the tutor turn and restarts still interleave with them.      *)

\* Each question of a batch is graded at most once (F-24, answer()): the
\* learning_events table holds no second row for it.
GradedOnce ==
    \A b \in BatchIds, i \in Items : graded[b][i] <= 1

\* The gap is mastered or confirmed exactly as the newest graded check answer
\* said, until the tutor or the learner moves it: no save of the whole blob
\* (PATCH, level, summary) undoes a grade (F-12).
MasteryFollowsNewest == newest # "told" => row.prof.mark = newest

\* A declared level stands from the moment on when no request holds a copy of
\* the profile from before the declaration: neither the diagnostic (F-39) nor a
\* save of the whole blob (F-11) replaces one that it could have seen.
Undisputed ==
    /\ row.prof.level = "declared"
    /\ \A r \in Requests :
          req[r].copy # Expired => req[r].copy.prof.level = "declared"
DeclaredLevelStands == [][Undisputed => Undisputed']_vars

\* A batch never displaces another: once posed it stays open until it is
\* completed or abandoned (B-12, register's guard under the lock).
NoBatchDisplaced ==
    [][row.pc # NoBatch /\ row'.pc # NoBatch => row'.pc.id = row.pc.id]_vars

\* The paid reaction to a resolved batch fires at most once (B-02).
FollowupOnce ==
    \A b \in BatchIds : followups[b] <= 1

\* A resolved diagnostic with evidence is never cleared ungraded from a session
\* in progress, even if a restart cut its own request short (F-24 backstop).
DiagnosticNotLost ==
    [][Gradable(row.pc) /\ row'.pc = NoBatch /\ ~row.ended
        => row.prof.level # "none"]_vars

\* lock_session_row: "must NEVER hold it across an LLM await".  Turns await at
\* llm; requests await in the summary and in the follow-up.
LockNotHeldAcrossLLM ==
    /\ \A t \in Turns : turn[t].at = "llm" => lock # t
    /\ \A r \in Requests : req[r].at \in {"summary", "followup"} => lock # r

\* generate_and_persist: "merge only last_session_summary onto the fresh blob,
\* so concurrent writes during the multi-second call aren't clobbered" (F-11).
SummaryMergesOnly ==
    [][\A r \in Requests : SummaryPersist(r) => row'.prof = row.prof]_vars

-----------------------------------------------------------------------------
(* Without overlap the service implements the quiz it promises.             *)
Promise == INSTANCE Quiz WITH
    open <- IF row.pc = NoBatch THEN 0 ELSE row.pc.id,
    posed <- minted,
    cur <- IF row.pc = NoBatch THEN 0 ELSE row.pc.cur,
    due <- {req[r].held.id : r \in {q \in Requests : req[q].at = "followup"}},
    reacted <- followups

ImplementsQuiz == Promise!Spec
=============================================================================
