------------------------------- MODULE TutorTurn -------------------------------
(***************************************************************************)
(* The tutor's agent loop: the streaming turns of ONE user, the spend they *)
(* put on the daily ledger, the row locks their transactions keep, and the *)
(* event loop they share.                                                  *)
(*                                                                         *)
(* A turn is a coroutine.  Between two awaits its code runs alone on its   *)
(* event loop, database calls included: a turn that waits for a row lock   *)
(* there stops every other coroutine of the process.  Tools run in a       *)
(* thread.  Each turn has one database transaction at a time; it ends at a *)
(* commit, at a rollback, or when the request's session is closed, which   *)
(* the framework does after the response's background task.                *)
(*                                                                         *)
(* Every model call costs one unit; token prices, message text and prompts *)
(* are abstracted.  The embedding of a retrieval, a thousandth of a call,  *)
(* is no unit: it counts as published or lost, and it locks the ledger as  *)
(* a call does.  The stub mode is left out, and so is every failure of the *)
(* database but the one it chooses itself, the end of a deadlock.          *)
(***************************************************************************)
EXTENDS FiniteSetsExt, Integers, Sequences

CONSTANTS
    Turns,        \* chat turns of the user, each a POST /chat/stream
    MaxIters,     \* MAX_ITERS
    Cap,          \* hard daily cost cap, in model calls
    Plans,        \* tool calls one model answer may contain, in order
    Silent,       \* TRUE: the model may call tools before it streams any text
    Blank,        \* TRUE: a rolling summary may come back empty
    SameSession,  \* TRUE: the turns are of one session, FALSE: of one each
    Settles,      \* TRUE: the learner may close a batch before it is attached
    OneLoop       \* TRUE: the turns share one event loop (one API process)

Tools == {"patch", "retrieve", "garbled", "ask"}

ASSUME SizesOK == /\ MaxIters \in Nat \ {0}
                  /\ Cap \in Nat
                  /\ Plans \subseteq Seq(Tools)
                  /\ {Silent, Blank, SameSession, Settles, OneLoop} \subseteq BOOLEAN
                  /\ IsFiniteSet(Turns)

(* Where the coroutine is.  Await: it has given the event loop back.        *)
Await  == {"idle", "ready", "call", "tool", "drain", "over", "summary", "closed"}
OnLoop == {"top", "bill", "final", "tools", "finish", "attach", "cancel", "error",
           "rebill", "meter", "store"}
(* Tool calls left, the tool thread, the loop's counter and flags.          *)
Turn == [at: Await \cup OnLoop, todo: Seq(Tools),
         thread: {"none", "busy", "locking", "metering", "ok", "failed", "crashed"},
         iter: 0 .. MaxIters, asked: BOOLEAN, said: BOOLEAN]
Unborn == [at |-> "idle", todo |-> <<>>, thread |-> "none", iter |-> 0,
           asked |-> FALSE, said |-> FALSE]
Endings == {"none", "refused", "unstarted", "complete", "partial", "cut", "cancelled", "error"}

VARIABLES
    turn,      \* the turns
    made,      \* model calls the provider charges each turn for
    billed,    \* billed_iters
    pend,      \* ledger increments flushed in the turn's transaction
    booked,    \* ledger increments the turn has committed
    flushed,   \* turns with an embedding's cost in their transaction
    dropped,   \* turns that paid for an embedding no commit has published
    aborted,   \* turns whose transaction, or whose summary's, the database
               \* aborted to end a deadlock, and nobody rolled back since
    row,       \* turns whose transaction holds the row lock of their session
    open,      \* turns whose check-question batch is open
    ending,    \* how the turn ended, as the client is told
    messages   \* assistant messages each turn has stored

ledger == <<made, billed, pend, booked, flushed, dropped, aborted>>
vars   == <<turn, ledger, row, open, ending, messages>>

At(t)    == turn[t].at
Mates(t) == IF SameSession THEN Turns ELSE {t}

(* Code of t runs on its loop only while no other coroutine holds the loop. *)
Runs(t) == OneLoop => \A u \in Turns \ {t} : At(u) \notin OnLoop

(* The ledger row of the user is locked from a flushed upsert to its commit, *)
(* by a turn's own transaction or by that of its summary.                   *)
HoldsLedger(t) == pend[t] > 0 \/ t \in flushed \/ At(t) = "store"
LedgerFree(t)  == \A u \in Turns \ {t} : ~HoldsLedger(u)
RowFree(t)     == row \cap Mates(t) \subseteq {t}

(* t keeps the session row and waits for the ledger, u keeps the ledger and  *)
(* waits for the session row.                                               *)
Deadlock(t, u) ==
    /\ t \in row
    /\ turn[t].thread = "metering"
    /\ u \in Turns \ {t}
    /\ HoldsLedger(u)
    /\ t \in Mates(u)
    /\ turn[u].thread = "locking" \/ At(u) = "store"

(* The sum of f over the turns, counted unit by unit.                       *)
Units(f) == {u \in Turns \X (1 .. 2 * MaxIters + 1) : u[2] <= f[u[1]]}
Total(f) == Cardinality(Units(f))

Committed == Total(booked)
(* current_spend: committed rows, and the reader's own flushed increment.   *)
SpendSeenBy(t) == Committed + pend[t]

Commit(t) ==
    /\ booked' = [booked EXCEPT ![t] = @ + pend[t]]
    /\ pend'   = [pend EXCEPT ![t] = 0]
    /\ flushed' = flushed \ {t}
    /\ row'    = row \ {t}

(* What was flushed and not committed is given up, with every lock.         *)
GiveUp(t) ==
    /\ pend'   = [pend EXCEPT ![t] = 0]
    /\ flushed' = flushed \ {t}
    /\ row'    = row \ {t}

(* record_cost: blocks until the ledger row is free; free of charge is free. *)
Record(t, n) ==
    /\ n > 0 => LedgerFree(t)
    /\ pend' = [pend EXCEPT ![t] = @ + n]

Goto(t, where) == turn' = [turn EXCEPT ![t].at = where]
End(t, how)    == /\ ending' = [ending EXCEPT ![t] = how]
                  /\ Goto(t, "over")
Keep(t)        == messages' = [messages EXCEPT ![t] = @ + 1]

(* Nothing can be stored in an aborted transaction; the error is swallowed. *)
Unsaved(t) == UNCHANGED <<booked, pend, flushed, row, messages>>

-----------------------------------------------------------------------------
(* _prepare_turn: 429 at the cap; the rest of the pre-flight awaits.        *)
Prepare(t) ==
    /\ At(t) = "idle"
    /\ Runs(t)
    /\ IF Committed < Cap
       THEN Goto(t, "ready") /\ UNCHANGED ending
       ELSE turn' = [turn EXCEPT ![t].at = "closed"]
            /\ ending' = [ending EXCEPT ![t] = "refused"]
    /\ UNCHANGED <<ledger, row, open, messages>>

Begin(t) ==
    /\ At(t) = "ready"
    /\ Runs(t)
    /\ Goto(t, "top")
    /\ UNCHANGED <<ledger, row, open, ending, messages>>

AllowedOnce(t) == turn[t].iter > 0 \/ SpendSeenBy(t) < Cap                \* slip
\* check_cap at the head of every iteration
Allowed(t) == SpendSeenBy(t) < Cap

ExhaustedLate(t) == turn[t].iter > MaxIters                               \* slip
\* the end of range(max_iters)
Exhausted(t) == turn[t].iter = MaxIters

LeaveOpen(t) == UNCHANGED <<pend, booked, flushed, row>>                          \* slip
\* B-10: no transaction is open across the model call
CloseTransaction(t) == Commit(t)

(* The head of one iteration: check_cap, snapshot, commit, acompletion.     *)
Call(t) ==
    /\ At(t) = "top"
    /\ ~Exhausted(t)
    /\ t \notin aborted
    /\ Allowed(t)
    /\ CloseTransaction(t)
    /\ made' = [made EXCEPT ![t] = @ + 1]
    /\ turn' = [turn EXCEPT ![t].at = "call", ![t].iter = @ + 1]
    /\ UNCHANGED <<billed, dropped, aborted, open, ending, messages>>

(* check_cap raises in an aborted transaction.                              *)
CheckFails(t) ==
    /\ At(t) = "top"
    /\ ~Exhausted(t)
    /\ t \in aborted
    /\ Goto(t, "error")
    /\ UNCHANGED <<ledger, row, open, ending, messages>>

NoText(t) == FALSE                                                        \* slip
\* what an aborted turn must not lose
HasText(t) == turn[t].said

(* Mid-turn cap or max_iters exhausted: _persist_partial_on_abort, which    *)
(* without text stores nothing and leaves the transaction as it is.         *)
Abort(t) ==
    /\ At(t) = "top"
    /\ Exhausted(t) \/ (t \notin aborted /\ ~Allowed(t))
    /\ IF HasText(t)
       THEN /\ IF t \in aborted THEN Unsaved(t) ELSE Commit(t) /\ Keep(t)
            /\ End(t, "partial")
       ELSE Unsaved(t) /\ End(t, "cut")
    /\ UNCHANGED <<made, billed, dropped, aborted, open>>

Speak(t) ==
    /\ At(t) = "call"
    /\ ~turn[t].said
    /\ Runs(t)
    /\ turn' = [turn EXCEPT ![t].said = TRUE]
    /\ UNCHANGED <<ledger, row, open, ending, messages>>

OrderedAsCalled(plan) == plan                                             \* slip
(* The calls to dispatch: the other tools in their order, then one ask.      *)
Others(plan) == {i \in DOMAIN plan : plan[i] # "ask"}
Rank(S, i)   == Cardinality({j \in S : j <= i})
Nth(S, k)    == CHOOSE i \in S : Rank(S, i) = k
Ordered(plan) ==
    [k \in 1 .. Cardinality(Others(plan)) |-> plan[Nth(Others(plan), k)]]
    \o IF Others(plan) = DOMAIN plan THEN <<>> ELSE <<"ask">>

StreamEnds(t) ==
    /\ At(t) = "call"
    /\ Runs(t)
    /\ \E plan \in Plans :
          /\ Silent \/ turn[t].said \/ Ordered(plan) = <<>>
          /\ turn' = [turn EXCEPT ![t].at = "bill", ![t].todo = Ordered(plan)]
    /\ UNCHANGED <<ledger, row, open, ending, messages>>

StreamFails(t) ==
    /\ At(t) = "call"
    /\ Runs(t)
    /\ Goto(t, "error")
    /\ UNCHANGED <<ledger, row, open, ending, messages>>

(* The cost of the iteration is recorded before its tools are dispatched.   *)
Bill(t) ==
    /\ At(t) = "bill"
    /\ Record(t, 1)
    /\ billed' = [billed EXCEPT ![t] = made[t]]
    /\ turn' = [turn EXCEPT ![t].at = IF turn[t].todo = <<>> THEN "final" ELSE "tools"]
    /\ UNCHANGED <<made, booked, flushed, dropped, aborted, row, open, ending, messages>>

Final(t) ==
    /\ At(t) = "final"
    /\ Commit(t)
    /\ Keep(t)
    /\ End(t, "complete")
    /\ UNCHANGED <<made, billed, dropped, aborted, open>>

-----------------------------------------------------------------------------
(* Arguments that are not JSON fail the call on the spot.                   *)
Garbled(t) ==
    /\ At(t) = "tools"
    /\ turn[t].todo # <<>>
    /\ Head(turn[t].todo) = "garbled"
    /\ turn' = [turn EXCEPT ![t].todo = Tail(@)]
    /\ UNCHANGED <<ledger, row, open, ending, messages>>

(* A patch or an ask that is not refused at once goes for the row lock, a   *)
(* retrieval that embeds its query for the ledger's, and once it waits has  *)
(* no way back.  In an aborted transaction the first statement raises.      *)
Dispatch(t) ==
    /\ At(t) = "tools"
    /\ turn[t].todo # <<>>
    /\ Head(turn[t].todo) # "garbled"
    /\ \E how \in {"busy", "locking", "metering"} :
          /\ how = "locking" => t \notin aborted /\ Head(turn[t].todo) # "retrieve"
          /\ how = "metering" => t \notin aborted /\ Head(turn[t].todo) = "retrieve"
          /\ turn' = [turn EXCEPT ![t].at = "tool", ![t].thread = how]
    /\ UNCHANGED <<ledger, row, open, ending, messages>>

ToolRunning(t) == turn[t].thread \in {"busy", "locking", "metering"}
Returns(t, how) == turn' = [turn EXCEPT ![t].thread = how]

(* apply_patch saves, register opens the batch: both commit.                *)
ToolCommits(t) ==
    LET asks == Head(turn[t].todo) = "ask"
    IN  /\ turn[t].thread = "locking"
        /\ RowFree(t)
        /\ asks => open \cap Mates(t) = {}
        /\ Commit(t)
        /\ open' = IF asks THEN open \cup {t} ELSE open
        /\ Returns(t, "ok")
        /\ UNCHANGED <<made, billed, dropped, aborted, ending, messages>>

(* Refused after lock_session_row: no commit, the row stays locked.         *)
ToolKeepsRow(t) ==
    /\ turn[t].thread = "locking"
    /\ RowFree(t)
    /\ Head(turn[t].todo) = "ask" => open \cap Mates(t) # {}
    /\ row' = row \cup {t}
    /\ Returns(t, "failed")
    /\ UNCHANGED <<ledger, open, ending, messages>>

(* The embedding is paid; its cost is flushed, for a later commit.          *)
ToolMeters(t) ==
    /\ turn[t].thread = "metering"
    /\ LedgerFree(t)
    /\ flushed' = flushed \cup {t}
    /\ Returns(t, "ok")
    /\ UNCHANGED <<made, billed, pend, booked, dropped, aborted, row, open, ending, messages>>

(* The database aborts the transaction of one that waits in a deadlock: the  *)
(* tool fails, what was flushed is lost, and with it an embedding just paid. *)
ToolAborted(t) ==
    /\ ToolRunning(t)
    /\ \E u \in Turns : Deadlock(t, u) \/ Deadlock(u, t)
    /\ GiveUp(t)
    /\ dropped' = IF t \in flushed \/ turn[t].thread = "metering" THEN dropped \cup {t}
                                                                  ELSE dropped
    /\ aborted' = aborted \cup {t}
    /\ Returns(t, "failed")
    /\ UNCHANGED <<made, billed, booked, open, ending, messages>>

(* A retrieval with no document to search, a call refused before it locks,   *)
(* and one that raises (arguments that are JSON but no object).             *)
ToolReturns(t) ==
    /\ turn[t].thread = "busy"
    /\ \/ Head(turn[t].todo) = "retrieve" /\ t \notin aborted /\ Returns(t, "ok")
       \/ Returns(t, "failed")
       \/ Returns(t, "crashed")
    /\ UNCHANGED <<ledger, row, open, ending, messages>>

(* The coroutine takes the result; an exception goes to the error arm.      *)
Resume(t) ==
    /\ At(t) = "tool"
    /\ turn[t].thread \in {"ok", "failed", "crashed"}
    /\ Runs(t)
    /\ turn' = [turn EXCEPT
                  ![t].at     = IF turn[t].thread = "crashed" THEN "error" ELSE "tools",
                  ![t].thread = "none",
                  ![t].todo   = Tail(@),
                  ![t].asked  = @ \/ (turn[t].thread = "ok" /\ Head(turn[t].todo) = "ask")]
    /\ UNCHANGED <<ledger, row, open, ending, messages>>

ToolsDone(t) ==
    /\ At(t) = "tools"
    /\ turn[t].todo = <<>>
    /\ Goto(t, IF turn[t].asked THEN "finish" ELSE "top")
    /\ UNCHANGED <<ledger, row, open, ending, messages>>

(* An ask ends the turn: the message is stored, then the batch linked.      *)
Finish(t) ==
    /\ At(t) = "finish"
    /\ Commit(t)
    /\ Keep(t)
    /\ Goto(t, "attach")
    /\ UNCHANGED <<made, billed, dropped, aborted, open, ending>>

AttachUncommitted(t) == row \cup {t}                                      \* slip
\* attach_message_id commits, or returns early with the row locked
RowAfterAttach(t) == IF open \cap Mates(t) = {} THEN row \cup {t} ELSE row \ {t}

Attach(t) ==
    /\ At(t) = "attach"
    /\ RowFree(t)
    /\ row' = RowAfterAttach(t)
    /\ End(t, "complete")
    /\ UNCHANGED <<ledger, open, messages>>

(* The learner's requests close a batch, under the row lock; the card is    *)
(* shown when the message is stored, so mostly after it was linked.         *)
Settle(t) ==
    /\ t \in open
    /\ Settles \/ At(t) \notin {"tool", "tools", "finish", "attach"}
    /\ row \cap Mates(t) = {}
    /\ open' = open \ {t}
    /\ UNCHANGED <<turn, ledger, row, ending, messages>>

-----------------------------------------------------------------------------
(* The client leaves: the task is cancelled at the await it is in.  A tool  *)
(* thread cannot be cancelled; the arm drains it before it uses the session. *)
Disconnect(t) ==
    /\ At(t) \in {"ready", "call", "tool"}
    /\ Runs(t)
    /\ IF At(t) = "ready"
       THEN End(t, "unstarted")
       ELSE /\ Goto(t, IF At(t) = "tool" /\ ToolRunning(t) THEN "drain" ELSE "cancel")
            /\ UNCHANGED ending
    /\ UNCHANGED <<ledger, row, open, messages>>

Drained(t) ==
    /\ At(t) = "drain"
    /\ ~ToolRunning(t)
    /\ Runs(t)
    /\ Goto(t, "cancel")
    /\ UNCHANGED <<ledger, row, open, ending, messages>>

UnbilledAll(t) == made[t]                                                 \* slip
Unbilled(t) == made[t] - billed[t]

(* _record_partial_cost of the calls not yet billed, then the message; the  *)
(* commit also publishes what a tool left in the transaction.               *)
CancelArm(t) ==
    /\ At(t) = "cancel"
    /\ Unbilled(t) > 0 => LedgerFree(t)
    /\ IF t \in aborted
       THEN Unsaved(t)
       ELSE /\ booked' = [booked EXCEPT ![t] = @ + pend[t] + Unbilled(t)]
            /\ GiveUp(t)
            /\ Keep(t)
    /\ End(t, "cancelled")
    /\ UNCHANGED <<made, billed, dropped, aborted, open>>

RebilledTail(t) == made[t] - billed[t]                                    \* slip
\* the rollback may have dropped any of them
Rebilled(t) == made[t]

(* The rollback gives up what was flushed and every lock.                   *)
Rollback(t) ==
    /\ At(t) = "error"
    /\ GiveUp(t)
    /\ dropped' = dropped \cup (flushed \cap {t})
    /\ aborted' = aborted \ {t}
    /\ Goto(t, "rebill")
    /\ UNCHANGED <<made, billed, booked, open, ending, messages>>

(* Every model call of the turn is billed again, no embedding is, and the   *)
(* message is stored.                                                       *)
ErrorArm(t) ==
    /\ At(t) = "rebill"
    /\ LedgerFree(t)
    /\ booked' = [booked EXCEPT ![t] = @ + Rebilled(t)]
    /\ Keep(t)
    /\ End(t, "error")
    /\ UNCHANGED <<made, billed, pend, flushed, dropped, aborted, row, open>>

-----------------------------------------------------------------------------
(* The background task of the response, in a database session of its own:   *)
(* one paid call when a rolling summary is due and the cap allows it.       *)
SummaryCall(t) ==
    /\ At(t) = "over"
    /\ Runs(t)
    /\ Committed < Cap
    /\ Goto(t, "summary")
    /\ UNCHANGED <<ledger, row, open, ending, messages>>

SummaryReturns(t) ==
    /\ At(t) = "summary"
    /\ Runs(t)
    /\ made' = [made EXCEPT ![t] = @ + 1]
    /\ Goto(t, "meter")
    /\ UNCHANGED <<billed, pend, booked, flushed, dropped, aborted, row, open, ending, messages>>

(* It writes the ledger row, then the session row: each must be free of     *)
(* every other transaction, that of its own request included.               *)
SummaryMeters(t) ==
    /\ At(t) = "meter"
    /\ \A u \in Turns : ~HoldsLedger(u)
    /\ Goto(t, "store")
    /\ UNCHANGED <<ledger, row, open, ending, messages>>

SummaryStored(t) ==
    /\ At(t) = "store"
    /\ row \cap Mates(t) = {}
    /\ booked' = [booked EXCEPT ![t] = @ + 1]
    /\ Goto(t, "closed")
    /\ UNCHANGED <<made, billed, pend, flushed, dropped, aborted, row, open, ending, messages>>

(* Aborted in a deadlock, it gives up: a failed summary fails no turn.      *)
SummaryAborted(t) ==
    /\ At(t) = "store"
    /\ \E u \in Turns : Deadlock(u, t)
    /\ aborted' = aborted \cup {t}
    /\ row' = row \ {t}
    /\ Goto(t, "closed")
    /\ UNCHANGED <<made, billed, pend, booked, flushed, dropped, open, ending, messages>>

(* The request's session is closed, its transaction lost: no summary is     *)
(* due, its call failed, or its answer is empty, which nothing commits.     *)
Close(t) ==
    /\ At(t) \in {"over", "summary"} \cup (IF Blank THEN {"store"} ELSE {})
    /\ Runs(t)
    /\ GiveUp(t)
    /\ dropped' = dropped \cup (flushed \cap {t})
    /\ Goto(t, "closed")
    /\ UNCHANGED <<made, billed, booked, aborted, open, ending, messages>>

-----------------------------------------------------------------------------
Init ==
    /\ turn     = [t \in Turns |-> Unborn]
    /\ made     = [t \in Turns |-> 0]
    /\ billed   = [t \in Turns |-> 0]
    /\ pend     = [t \in Turns |-> 0]
    /\ booked   = [t \in Turns |-> 0]
    /\ flushed  = {}
    /\ dropped  = {}
    /\ aborted  = {}
    /\ row      = {}
    /\ open     = {}
    /\ ending   = [t \in Turns |-> "none"]
    /\ messages = [t \in Turns |-> 0]

Stream(t)  == StreamEnds(t) \/ StreamFails(t)
Tool(t)    == ToolCommits(t) \/ ToolKeepsRow(t) \/ ToolMeters(t) \/ ToolAborted(t)
              \/ ToolReturns(t)
Loop(t)    == Call(t) \/ CheckFails(t) \/ Abort(t) \/ Bill(t) \/ Final(t) \/ Garbled(t)
              \/ Dispatch(t) \/ Resume(t) \/ ToolsDone(t) \/ Finish(t) \/ Attach(t)
Arms(t)    == Drained(t) \/ CancelArm(t) \/ Rollback(t) \/ ErrorArm(t)
Summary(t) == SummaryCall(t) \/ SummaryReturns(t) \/ SummaryMeters(t)
              \/ SummaryStored(t) \/ SummaryAborted(t) \/ Close(t)

Step(t) == Begin(t) \/ Stream(t) \/ Tool(t) \/ Loop(t) \/ Arms(t) \/ Summary(t)
Next == \E t \in Turns : Prepare(t) \/ Speak(t) \/ Disconnect(t) \/ Settle(t) \/ Step(t)

Spec == Init /\ [][Next]_vars

(* Each coroutine goes on while nothing it needs is held: the client may    *)
(* stay, the model call ends within llm_timeout_s, a tool thread returns,   *)
(* the database ends a deadlock after deadlock_timeout.                     *)
Fairness == \A t \in Turns : WF_vars(Begin(t)) /\ WF_vars(Stream(t)) /\ WF_vars(Tool(t))
               /\ WF_vars(Loop(t)) /\ WF_vars(Arms(t)) /\ WF_vars(Summary(t))
FairSpec == Spec /\ Fairness

-----------------------------------------------------------------------------
(* The type invariant.                                                      *)
TypeOK ==
    /\ turn \in [Turns -> Turn]
    /\ made \in [Turns -> 0 .. MaxIters + 1]
    /\ billed \in [Turns -> 0 .. MaxIters]
    /\ pend \in [Turns -> 0 .. 1]
    /\ booked \in [Turns -> 0 .. 2 * MaxIters + 1]
    /\ flushed \subseteq Turns /\ dropped \subseteq Turns /\ aborted \subseteq Turns
    /\ row \subseteq Turns /\ open \subseteq Turns
    /\ ending \in [Turns -> Endings]
    /\ messages \in [Turns -> 0 .. 1]

Over(t) == At(t) \in {"over", "summary", "meter", "store", "closed"}

(* Every model call of a closed turn is on the ledger, whatever ended it:   *)
(* tutor.py bills an iteration before it branches, but flushes only.  An    *)
(* embedding is lost by the error arm alone, which bills none again.        *)
(* Excepted is a turn that ended in a transaction the database had aborted. *)
SpendKept == \A t \in Turns \ aborted : At(t) = "closed" =>
    /\ booked[t] >= made[t]
    /\ t \in dropped => ending[t] = "error"

(* No ending bills a call twice, but for the error arm, which bills every   *)
(* call once more and no further.                                           *)
BilledOnce == \A t \in Turns :
    booked[t] + pend[t] <= IF ending[t] = "error" THEN 2 * made[t] ELSE made[t]

(* The daily cap: turns that pass check_cap together overshoot it by one    *)
(* call each at most, their tool iterations and summaries included, and by  *)
(* one more for each turn that ended in an aborted transaction.             *)
Unpaid   == {t \in aborted : Over(t)}
CapHolds == Total(made) <= Max({0, Cap - 1 + Cardinality(Turns) + Cardinality(Unpaid)})

(* B-10: while the model streams, the turn pins no transaction: no ledger   *)
(* increment is unpublished and no session row is locked.                   *)
NoLockAcrossCall == \A t \in Turns : At(t) = "call" =>
    pend[t] = 0 /\ t \notin flushed /\ t \notin row

(* F-14: an ended turn has stored one assistant message if it streamed text *)
(* or was not cut short (the cancel and error arms store an empty one too), *)
(* and none otherwise.  A turn that ended in an aborted transaction is      *)
(* excepted.                                                                *)
StreamedTextKept == \A t \in Turns \ aborted : Over(t) =>
    (messages[t] = 1 <=> turn[t].said
                         \/ ending[t] \in {"complete", "cancelled", "error"})

(* The turn's ask has committed its batch, whether or not the coroutine has *)
(* learnt of it.                                                            *)
Registered(t) == turn[t].asked \/ (turn[t].thread = "ok" /\ Head(turn[t].todo) = "ask")

(* A registered ask is the last call of its turn: no other tool and no      *)
(* model call follows it, and it is never rolled back or billed again by    *)
(* the error arm.  Only a client that leaves before the coroutine learns of *)
(* the batch sends the turn to its cancel arm.                              *)
AskEndsTurn == \A t \in Turns : Registered(t) =>
    /\ turn[t].todo \in {<<>>, <<"ask">>}
    /\ At(t) \notin {"top", "call", "bill", "final", "error", "rebill"}
    /\ turn[t].asked => At(t) \notin {"drain", "cancel"}
    /\ t \notin aborted \/ Over(t)

(* F-01: a turn that began ends, its background task included; it never     *)
(* leaves the client in 'streaming'.                                        *)
TurnEnds == \A t \in Turns : At(t) = "ready" ~> At(t) = "closed"
=============================================================================
