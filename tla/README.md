# Crux: a TLA+ model of the tutoring backend

Crux is an AI tutor: a FastAPI backend (`src/backend`), a Vue client
(`src/frontend`), Postgres with pgvector.  A learner opens a *session* on a
topic, chats with a tutor (an LLM in a tool loop), uploads documents, and
answers batches of *check questions* that drive a *topic profile*.

This directory models the parts whose correctness depends on the order of
steps: several HTTP requests, a streaming tutor turn and an ingestion loop
share database rows, read them through an ORM cache, and wait for language
models in between.  TLC checks the models on small instances; TLAPS proves the
safety properties of every module for every value of the constants.

## 1. Inventory

| Component | State it keeps | Operations | What is hard about it |
|---|---|---|---|
| Check-question batch (`services/check_question_service.py`, `pending_check_store.py`, routes `/check/*`) | `sessions.pending_check_json`, `quiz_cooldown_json`, the recap `chat_messages.check_batch_json` | register (tool), attach, answer, skip, complete, abandon, cooldown | row lock over an already loaded row; several commits per request; turn, requests and end of session write the same columns |
| Diagnostic and learning events (`diagnostic_service.py`, `learning_event_service.py`) | `learning_events`, `knowledge_level`, concept lists in `topic_profile_json` | record an answer, grade a resolved diagnostic | a crash between answer and grade; a level declared meanwhile |
| Session lifecycle (`routes/sessions.py`) | `sessions` rows: topic, ended_at, pinned | create, resume from a prior, end, reopen, rename, pin and unpin | one active session per topic, by a partial unique index behind a stale pre-check; an end is claimed before a summary that takes seconds |
| Session summary (`summary_service.py`) | `last_session_summary` in the profile, `rolling_summary`, its count | summary at the end, debounced rolling summary | read, await, write |
| Topic profile (`profile_service.py`, `routes/profile.py`) | the profile blob: level, gaps, mastered concepts, focus, subtopics | user PATCH and DELETE under If-Match, tool patch, grading effects | whole-blob writes by five writers, some from an outdated copy; one concept under several spellings; the gap in focus; caps |
| Tutor agent loop (`agent/tutor.py`, `tools.py`, `context_budget.py`) | the running turn, one assistant message, the cost ledger | up to `MAX_ITERS` model calls with tool dispatch in threads; complete, partial, cancelled and error endings | cancellation at any await, billing what was spent, the ORM session shared with a tool thread |
| Chat route (`routes/chat.py`) | the user's message | guards, slot, prompt, stream | guard order; message and spend kept when preparation fails |
| Document ingestion (`worker.py`, `ingestion_service.py`, `routes/upload.py`, `documents_service.py`, `keyword_index.py`, `pgvector_store.py`) | `documents` (status, claimed_at), `chunk_embeddings`, `sessions.kw_index_json`, object store | upload, claim, recover, embed per slice, merge keywords, delete | crash and re-run, second runner, deletion under a run, caps |
| Cost meter (`cost_meter.py`) | `daily_cost_ledger`, `llm_call_log` | gate, increment, estimate | gate and spend are apart |
| Rate limit, burst limit (`rate_limit.py`, `velocity_limit.py`) | `usage_counters`; a window in memory | count a request | parallel requests at the limit |
| Retrieval (`retrieval_service.py`) | none | embed the query, search | spends inside the turn's transaction; serves ready documents only |
| Review queue and progress views (`review_queue_service.py`, `aggregate_for_user`, `_learning_insights`) | none | queue, combined profile, weekly curve | computed from a log and from lists that disagree |
| Usage, enrichment | none | queries | pure functions of stored rows |
| Users, auth, object store, LLM retry | `users`; blobs | lazy insert; token check; put/get/delete; bounded retry | idempotence |
| Client session store (`frontend/src/stores/session.js`) | the session shown, its messages, the running stream | load, list, stream, abandon, reset | late answers of superseded requests |
| Other client code, prompts, contracts, migrations, scripts | none that matters here | | |

How they interact: every HTTP request and every tutor turn has its own ORM
session on the same database; synchronous handlers run in a thread pool,
asynchronous ones (chat, complete, create, end) on the event loop.  They meet in
the `sessions` row (lock: `profile_service.lock_session_row`), in the ledger and
in the usage counter (atomic upserts).  The ingestion loop is a thread of the API
process, or `python -m worker`; it meets the API in the `documents` row and in the
keyword index.  There are no messages but HTTP and no callbacks but the stream.

What makes each component correct is listed with its module below; the hazards,
each at its line and with the properties that would catch it, are in
`PROJECT.json`.

## 2. Modules

| Module | What it is |
|---|---|
| `Quiz` | abstract: what the check-question service promises |
| `CheckBatch` | the batch, the requests and turns on one session, the row, its lock and the ORM copies; implements `Quiz` |
| `CheckHistory` | extends `CheckBatch` by what the history shows of a closed batch |
| `CheckBatchProof`, `CheckSerialProof` | the theorems of `CheckBatch`: for any requests; for requests one at a time, with `CheckHistory` and the refinement of `Quiz` |
| `DocumentLife` | abstract: the life of an uploaded document |
| `Ingestion` | upload, workers, chunks, ledger, keyword index, deletion; implements `DocumentLife` |
| `IngestionProof` | its theorems and the refinement |
| `TutorTurn` | the streaming turns of one user: model calls, tools, metering, endings, row locks, the event loop |
| `TutorTurnProof` | its theorems |
| `TopicRegistry` | abstract: who holds which topic, and what a request may be told |
| `SessionLifecycle` | sessions created, resumed, ended, reopened, renamed; chat turns up to the tutor; slots, spend, the user row; implements `TopicRegistry` |
| `SessionLifecycleProof` | its theorems and the refinement |
| `ConceptLists` | the operators on a profile's concept lists, which `TopicProfile` and `LearnerViews` share |
| `ConceptListsProof` | what these operators do to a list, which their proofs share |
| `TopicProfile` | the profile blob of one session and everyone who writes it |
| `TopicProfileProof` | its theorems |
| `LearnerViews` | aggregate profile, weekly curve and review queue over a growing log of answers |
| `LearnerViewsProof` | its theorems |
| `MC...` | for each of these its instances for TLC |

Operators marked *slip* are plausible wrong versions of the definition that
follows them; no specification uses them.  Putting one in the place of the
right definition breaks the property that `PROJECT.json` names for it, which
shows that the property can fail.

### CheckBatch

State: `row` is the committed `sessions` row, reduced to `ended`, the open batch
`pc` and the two profile facts a batch touches: the knowledge level (none, graded
by the diagnostic, declared by the user or through the tutor's tool) and the place of
the quizzed concept (none, mastered, confirmed gap).  `lock` is the holder of `FOR UPDATE`.  `req[r]`
is a request: its place between two commits, its arguments, and `copy`, the row
as its ORM session holds it.  `turn[t]` is a streaming turn.  `graded`, `verdict`
and `newest` are the `learning_events`, `recap` is `check_batch_json`.

The ORM facts that carry the model: `db.get` of a loaded row does not read it
again, `with_for_update` included; a commit expires what was loaded; a flush
writes only the columns assigned.  `answer`, `skip`, `complete` and `end` keep the
row object the route loaded, so they work on the copy made *before* they waited
for the lock; the profile PATCH drops it, and the tools of a turn start after the
commit at the top of the iteration, so these read afresh.

Actions follow the commits: `Load`, `Answer`/`Skip`, `Reload`, `WriteRecap`,
`GradeLoad`, `GradeLevel`; `CompleteClaim`, `CompleteRecap`, `CompleteClear`,
`Followup`; `ClaimEnd`, `SummaryLoad`, `SummaryPersist`; `Reopen`, `PatchLevel`;
`TurnStart`, `TurnReply`, `TutorPatch`, `Register`, `ToolRefused`, `NextIteration`,
`PersistAsk`, `CancelledAsk`, `Attach`, `TurnClose`; `Crash`.  They interleave freely, which is
what threads and several processes do; handlers on one event loop interleave
less, so safety is checked for more than happens.

The whole profile blob is written by the requests (grade, level, summary), by the
learner's own edits (`PatchProfile`: PATCH and DELETE) and by the turn's
`update_topic_profile` (`TutorPatch`), which falls between any two commits of a
request, serial or not.  What it commits while a request holds an older copy is
overwritten by that request; so `DeclaredLevelStands` speaks of a declared level from
the moment on when no request holds a copy from before it, and `MasteryFollowsNewest`
of the gap until tutor or learner have moved it (`newest` is then `"told"`).

`Overlap` says whether requests on the session overlap.  The client disables its
buttons while a request runs, so `FALSE` is ordinary use: one request at a time,
with a turn and restarts interleaving at every step.  What the code claims *for*
overlapping requests is checked with `TRUE`, and fails (section 5).  `Reopen` and
`PatchProfile` are requests too, so with `FALSE` they wait for the one in flight
(`Quiet`): a reopen during a summary is not reached then.  `Moves` bounds where an
edit may put the gap; a level may be declared by any edit.

`CheckHistory` adds what `GET /sessions/{id}` shows of a batch that is closed: the
recap the requests published or, where a restart came between the storing of the
asking message and its link, one put together from the tool call recorded with the
message and the `learning_events` (`Reconstructed`).  It does not change the state
of `CheckBatch`: two history variables keep what the time stamps tell, `told` (the
message was stored with its call, which a cancelled one is not) and `early` (an
answer is older than the message).  They follow a batch while it is the newest; an
older one is written no more.

Left out: question texts (no question recurs: a rebuilt recap matches by gap and
question), the cooldown, the ownership checks.

### Ingestion

State: per document `status`, `claimed` (never, fresh, stale: older than
`STALE_PROCESSING_MINUTES`), its stored `chunks`; `blob`, the stored bytes; `kw`,
the documents whose stems the keyword index holds, with `kwSeen` and `rowLock` for
the read-union-write; per loop its place and its skip-set; `paid`, the embedding
calls made per chunk, and `spent`, the ledger.  A document is its number of
chunks; `Size[d] > MaxChunks` is the document over the chunk limit, `0` the empty one.

Actions: `UploadPut`, `UploadFails`, `UploadCommit`, `Delete`, `DropBlob`; `Claim`,
`ClaimReturns`, `Recover`, `Age`; `Open`, `ExtractFails`, `ExtractSettles`,
`Extract`, `Gate`, `CallFails`, `Call`, `Store`, `Merge`, `Finish`, `Vanished`,
`MarkFailed`, `CommitFailed`; `Crash`, `Restart`.  `ExtractFails` and `CallFails` are
always possible: files are unreadable and vendors fail.  The arms of a failed run read
the document again (`MarkFailed`) and commit the failure (`CommitFailed`) apart: a
document deleted in between ends the loop.

`SlowRuns = FALSE` says that a run ends within thirty minutes while its loop is
alive, which is what `recover_stuck` relies on; `TRUE` drops it.  `Supervised`
says that a loop that ended is started again: true of a process under a restart
policy, false of the daemon thread in the API process.

### TutorTurn

State: `turn[t]` is the coroutine of `run_streaming` and of the route around it:
its place, the tool calls left to dispatch, the tool's thread, the loop counter
(`iter`), `asked_check` (`asked`) and whether text was streamed (`said`).  `made`
counts the model calls the provider charges, `billed` is `billed_iters`, `pend`
the ledger increments flushed but not committed, `booked` the committed ones;
`flushed` are the turns with the cost of a retrieval's embedding in their transaction,
`dropped` those that lost one, `aborted` those whose transaction the database has
aborted; `row` says which turns lock their session row, `open` which check batches are
open, `ending` what the client is told, `messages` the assistant messages stored.

A place in `Await` is one where the coroutine has given the event loop back; in
`OnLoop` it runs, or waits in a synchronous database call, and with `OneLoop` no
other coroutine moves meanwhile (`Runs`).  Tools run in threads and do not need
the loop.

| Code | Actions |
|---|---|
| `_prepare_turn`, `produce` | `Prepare`, `Begin` |
| head of an iteration: `check_cap`, B-10 commit, `acompletion` | `Call`, `CheckFails`, `Abort` |
| the stream, metering, final answer | `Speak`, `StreamEnds`, `StreamFails`, `Bill`, `Final` |
| tool calls | `Garbled`, `Dispatch`, `ToolCommits`, `ToolKeepsRow`, `ToolMeters`, `ToolAborted`, `ToolReturns`, `Resume`, `ToolsDone` |
| the ask that ends a turn | `Finish`, `Attach`; `Settle` is the learner closing the batch meanwhile |
| disconnect and the two exceptional arms | `Disconnect`, `Drained`, `CancelArm`; `Rollback`, `ErrorArm` |
| background task, end of the request | `SummaryCall`, `SummaryReturns`, `SummaryMeters`, `SummaryStored`, `SummaryAborted`, `Close` |

A tool call that goes for a row lock is decided at `Dispatch`: a patch or an ask for
the session row (`locking`), a retrieval that embeds its query for the ledger row
(`metering`); it cannot give up once it waits.  The database lock on the ledger row is
not a variable: a turn holds it while `pend` is not 0 or it is in `flushed`, a summary
while it is at `store`.  The embedding is metered on the turn's own ORM session
(`retrieval_service.py:76-81`), so a later commit publishes it and the error arm's
rollback drops it.  A thousandth of a call, it is no unit of the cap: it is published
or lost, and `SpendKept` says when it may be lost.

A turn whose refused tool still holds the session row may thus wait for the ledger row
while another turn, or its summary, holds that one and waits for the session row
(`Deadlock`).  The database ends this by aborting one of the two (`ToolAborted`,
`SummaryAborted`); nobody rolls back, so an aborted turn can neither call the model
again (`CheckFails`) nor store or bill anything, but through the error arm.
`SpendKept`, `StreamedTextKept` and `CapHolds` except such turns.

An ask counts as registered from the commit of its batch in the tool's thread
(`Registered`), not from `asked_check`: `AskEndsTurn` includes the turn whose client
left in between, which is sent to its cancel arm.

`CheckBatch` has the same turn as the session row sees it, and `TutorTurn` as the
ledger and the loop see it; each abstracts what the other details.

### SessionLifecycle

State: `sess`, the session rows of one user (topic, active, whether the transcript
has text, which life of the session this is, whose end its summary tells of);
`req`, the requests, each at a place between two commits, with what it has paid
(`made`), flushed (`pend`) and published (`booked`); `used`, the daily counter;
`user`, the user row.  A topic is the class of strings the index takes for equal.

| Code | Actions |
|---|---|
| `create_session` | `Create` (user row, pre-check, prior), `ClaimPrior`, `Seed`, `Insert` |
| `_claim_end`, `end_session`, `generate_and_persist` | `End`, `TakeSlot`, `Summarise`, `SummaryCall`, `WriteSummary` |
| `reopen_session`, `update_session` | `Reopen`, `ReopenCommit`; `Update`, `UpdateCommit` |
| `_prepare_turn`, `check_and_increment`, retrieval | `Chat`, `TakeSlot`, `Prepare`, `Embed`, `Persist`, `PrepareFails`, `Salvage`, `QueryFails`, `AbortedCommit` |
| `get_me`; the process | `GetMe`; `Crash` |

A resume shares the end's claim, slot and summary with `end_session`, so they are
the same actions.  `Update` renames, pins and unpins.  Where a request decides on rows it read in an earlier step (the
pre-check), another request may have changed them; the index decides at the commit.
`TopicRegistry` says what that must come to: a request told `duplicate_topic` was
told the truth at one instant of its run.

The pre-check lowers its topic in Python and the stored one in the database, the index
lowers in the database; the two `lower` are taken to agree.

Left out: lists, history, deletion; the day's change; what the summary says (the
profile it writes is in `CheckBatch` and `TopicProfile`).  A turn ends here where
`TutorTurn` starts.

### TopicProfile and ConceptLists

State: `prof`, the blob, reduced to level, mastered list, gaps, focus and the
subtopics; `lock`, the holder of the row between the comparison of an etag and
its save, or after a refused tool call; `events`, the answers on record; `seen[c]`,
the version a client's etag stands for; `copy[w]`, the profile a grading request or
a summary loaded before it waited for the lock.  `Canon` is `canon()`: several
names may be one concept.

Actions: `Get`, `Mismatch`, `Match`, `Apply` (the learner under If-Match; the four
edits are the cases of `Edited`); `TutorPatch`, `TutorCommits` (`apply_patch`, with
all its refusals in `Refuses`); `Load`, `Grade`, `StoreSummary` (on the copy).  Every
save goes through `Capped`, as `save_profile` does.  A session starts empty or seeded
from a prior.

`CheckBatch` has the same profile with one concept and the level; there the
question is which writer wins, here what the lists look like afterwards.

### LearnerViews

State: the profiles of the sessions, the log of answers in the order of
`(created_at, id)`, the day.  A session starts empty or with the lists of one it
resumes (`Start`), answers are graded or are probes of a diagnostic (`Respond`), the
learner or the tutor declares a concept mastered or a gap (`Declare`), the learner
takes one off a list (`DeleteItem`).  Three histories serve the properties and the
bound: `written`, the names used; `overruled`, what was tested in a session and has
since been deleted or declared mastered there; `edits`, the declarations and deletions.  `CombinedMastered`, `Mastered(week)`, `Due` and
`Target` are what the routes compute from that: the aggregate and the curve
compare names as written, the queue by `canon()`, the review turn looks the name
up in the lists of the session.

`WrongIsNotMastered` and the second half of `ReviewComesBack` (the turn the link opens
reviews what was asked for) are about an answer that still stands (`AsTested`): its
concept is spelled in one way, its session's lists have room, and nobody has overruled
it there since.  Without that they fail in the code as well: the comment at
`chat.py:101-106` expects a gap to be resolved or renamed since the queue was fetched.

## 3. Runs

A run ends in seconds to some two minutes.  All constants are in the `.cfg` files; a
bound is named there and in the module.

| Run | Instance | What it shows |
|---|---|---|
| `check_serial` | 1 request at a time, 1 turn, 2 questions, 2 batches, the tutor's patches, crashes (2.5M states with the history) | every property of the batch, what its history shows, and that it implements `Quiz` |
| `check_double_grade` | 2 overlapping requests | finding |
| `summary_clobber` | 1 request and 1 turn, no overlap | finding |
| `ingest_safe` | 2 loops, documents of 2, 1 and 1 chunks, cap 2, a crash, deletions (2.7M states up to exchange of the loops) | served documents are complete, nothing is paid twice, no orphan chunks, a bounded overshoot of the cap |
| `ingest_drain` | 1 loop, documents of 0, 1 and 2 chunks with a limit of 1, 1 crash (81k states) | every accepted document is settled, so that polling the status of its session ends; implements `DocumentLife` |
| `ingest_loop_ends` | 1 loop nobody restarts | finding |
| `turn` | 2 turns of one session, a loop each, 2 iterations, cap 3, five bundles of tool calls (601k states) | billing, messages, locks, the last ask and the cap, whatever ends the turns; a deadlock of session row and ledger row costs one turn its transaction, and every turn ends |
| `turn_loop_blocks`, `turn_spend_lost` | 2 turns on one loop; 1 turn that calls tools in silence | findings |
| `lifecycle` | 3 requests of any kind, 2 session ids, 2 topics, daily cap 2, cost cap 1, crashes (754k states up to exchange of each) | one active session per topic, one summary paid per life, slots, spend and messages accounted for; implements `TopicRegistry` |
| `profile` | 1 client, 1 outdated copy, the tutor; 2 concepts, one of them with two spellings; lists of 1, 1 subtopic, 3 saves (2.2M states) | the lists, the focus, the marks and the etag, whoever writes in which order |
| `views` | 2 sessions, 2 concepts, 3 answers and 4 answers, declarations and deletions together, 3 days in weeks of 2, intervals 1 and 2 (773k states) | a last wrong answer is not shown as mastered, what was tested comes back, past weeks stand |

Why the bounds are enough to be of use: two batches are needed for one to be
displaced or linked in place of another (no turn starts after the second, which it
could only be refused to replace), two questions for a batch to be half answered; two loops for a second runner, two chunks for a hole or a partial re-run,
three documents for two of them to be served and the cap to be passed all the same,
a crash for the recovery; two turns for any race on a row, two iterations for an
increment of one to be pending in the next; a cap of three for two turns that make
up to three calls each, so that it is reached before, in the middle and in a summary.
Three requests are an end and a resume of one session with a reopen between
them, or a turn and two rivals for a topic, with one slot and one unit of money
fewer than they want.  A list of one entry evicts at every second entry; the
third name is the other spelling; three saves are an edit, what it met and what
follows.  Three answers are a streak and the miss that ends it, or the disagreement
of two sessions and its end, and the fourth change a deletion or declaration that
overrules one of them; a bundle of `turn` has a patch before a patch, an ask or a retrieval, so that a
refused one holds the row for the next; three days are more than one week.  More of each adds
actors that no guard relates.  `MaxIters` is 8 and `max_profile_list` far more than 1
in the code; the theorems hold for any.

`CHECK_DEADLOCK FALSE` is set where the system may stop: `Ingestion` (all documents
settled or deleted and no crash left), `TutorTurn` (all turns closed),
`SessionLifecycle` (all requests answered or dead), `TopicProfile` and
`LearnerViews` (the bounds on saves, answers and days).  What must not stop is a
liveness property.

## 4. Fairness

`CheckBatch`, `SessionLifecycle`, `TopicProfile` and `LearnerViews` are specified
without fairness: their properties are about what may not happen.

`Ingestion`: weak fairness for the steps of a loop, for the clock (`Age`) and, if
`Supervised`, for the restart of a dead loop.  Crashes are bounded by
`MaxCrashes`: a loop that always crashes drains nothing.

`TutorTurn`: weak fairness for each group of steps of a turn: the model answers or
fails within `llm_timeout_s`, a thread returns or waits for a lock, the database ends a
deadlock after its `deadlock_timeout`, the loop runs what is ready.  Nothing is assumed of the client, which may stay or leave.
`turn` sets `Blank`, `Silent` and `Settles` to `FALSE`.  An empty summary is an
exit from the wait for the session row that a real answer does not have.  The two
others are assumptions, and `TurnEnds` does not hold without them (the theorems of
section 6 do not need them, but for the two that name them):

- a turn that ends at `max_iters` or at the cap *without text* commits nothing, and
  FastAPI closes its session only after the background task; that task's
  `record_cost` waits for the ledger row which that session has locked, although
  the docstring of `_rolling_summary_task` has the session closed by then;
- a batch settled between its registration and its link makes `attach_message_id`
  return with the session row locked, for which the summary then waits in the
  same way.

## 5. Findings

Each is a run that TLC ends with a counterexample; the lines are quoted in
`PROJECT.json`.

1. `answer` grades a question twice when two submits overlap: the lock does not
   refresh the row the route has loaded.
2. `generate_and_persist` writes back the profile it read before the model call,
   over what changed meanwhile, although it locks and reads again.  It takes no second
   request: a turn that still streams when the session ends commits its profile patches
   during that call, and they are lost (`summary_clobber`).
3. A document deleted right after its claim ends the ingestion thread, and
   nothing starts it again.
4. `turn_loop_blocks`: between `record_cost` and the next commit a turn awaits its
   tools with the user's ledger row locked.  A second turn of that user (another
   tab), or the summary of an earlier one, then waits for that row in a
   synchronous call on the event loop, which the first turn needs to go on.  The
   deployment is one uvicorn process, so all its users wait, for as long as the
   database lets a statement wait; the engine sets no limit of its own.
5. `turn_spend_lost`: a turn cut short without text returns before the commit that
   would publish its last increment.

What else the models show, and what is assumed in them because of it:

- With `Overlap`, two calls of `complete_check` in two API processes fire two
  follow-ups (`FollowupOnce`): the row is loaded before the lock, and
  `write_check_batch` commits before the batch is cleared.
- With `SlowRuns`, a run of more than thirty minutes gets a second runner, which
  pays again (`NeverRepays`).
- With `Silent`, a turn may wait for itself (section 4).
- With `Blank`, a rolling summary with an empty answer is metered and rolled back
  (`summary_service.py:248`), so its spend is lost (`SpendKept`).
- A query that fails in the database is caught in retrieval and in `gap_accuracy`
  (`retrieval_service.py:168`, `:227`, `chat.py:246`) and the turn goes on, but
  Postgres has aborted the transaction: the commit of the user's message raises,
  outside the arm that would salvage it, and message and spend are gone
  (`QueryFails`, `AbortedCommit`; `TurnKept` excepts such a turn).
- What the second finding shows of the summary holds of every save of a copy: a level or
  a gap that the tutor's tool (or an overlapping PATCH) writes while an answer or a grade
  works on an older copy is overwritten by it, in serial use too.  `DeclaredLevelStands` and
  `MasteryFollowsNewest` say what is left: such a level stands once no request holds an
  older copy, and no save undoes a *grade* in serial use.
- A refused patch keeps the session row locked while the next tool of the bundle, a
  retrieval, goes for the ledger row; another turn that has metered and then patches
  waits the other way round.  The database aborts one of them.  Nothing in the loop
  rolls back then, so the turn's next statement raises; the turn ends in the error arm,
  or, in the arms that swallow it, without its message and its last increment.  All
  turns end (`TurnEnds`); `aborted` names the ones that lose something.
- An embedding a turn has paid for is dropped by the error arm's rollback and not
  billed again; the comment at `tutor.py:597-600` accepts it.  `SpendKept` has this as
  its only loss of an embedding.
- A document deleted between the read and the commit of a failed run's arm raises out
  of that arm and ends the loop (`CommitFailed`), as in the third finding.
- A summary of an earlier life may arrive after that of a later one and replace it
  (`WriteSummary` takes the last to come); a resume that loses the claim to an end
  seeds the new session before that end's summary is written.
- The aggregate shows a concept as mastered whose last answer was wrong if it is
  spelled in two ways (`profile_service.py:627` compares names as written), or if a
  full list has pushed the gap off, or if the learner deletes the gap or it is declared
  mastered in the session that was answered, while an older session lists it as
  mastered; the queue's link then reviews another gap.  `WrongIsNotMastered` and
  `ReviewComesBack` except these (`AsTested`).
- A save from an outdated copy may take the gap from under the focus; it is the
  second finding seen from the lists, and `FocusKeepsItsGap` excepts it.
- `attach_message_id` stamps the message of its turn on whatever batch is open.  With
  two turns streaming on one session that may be the batch of the other turn, and the
  recap of a batch then appears under the wrong message.  The client starts no stream
  while one is live (`session.js:575`), so `check_serial` has one turn at a time, and
  `SerialRecapHonest` names that as a hypothesis (`OneTurn`).
- An ask whose turn is cancelled while the tool runs leaves its batch linked to no
  message; the docstring of `attach_message_id` allows for it.  `AskEndsTurn` counts
  such an ask as registered: the cancel arm may follow it, nothing else.

## 6. Proofs

All are checked by TLAPS for every value of the constants that the named
assumptions allow (`SizesOK`, `CapsOK`, `ListCapOK`, `LifecycleOK`, `ViewsOK`: sizes
and caps are naturals, the actors finite where they are counted; `NullsOK`, `NoneOK`,
`NamesOK`: model values are distinct, `canon()` is idempotent; `InputsOK`: inputs are
of their types).  Every safety property that a run checks has its theorem.

| Theorem | States |
|---|---|
| `CheckBatchProof!TypeCorrect`, `LockReleasedBeforeLLM` | types; no row lock across an LLM call, overlapping requests included |
| `CheckBatchProof!DeclaredLevelKept` | a declared level stands for good once no request holds an older copy, overlapping requests included |
| `CheckSerialProof!SerialGradedOnce`, `SerialFollowupOnce`, `SerialNoBatchDisplaced` | under `~Overlap`: no double grade, no double follow-up, no batch displaced |
| `CheckSerialProof!SerialMastery`, `SerialDiagnosticNotLost` | under `~Overlap`: no save of the whole blob undoes a grade, before tutor or learner move the gap; no resolved diagnostic is cleared ungraded |
| `CheckSerialProof!SerialImplementsQuiz` | under `~Overlap`: the service implements `Quiz` |
| `CheckSerialProof!SerialRecapHonest` | under `~Overlap` and `OneTurn`: the history shows a closed batch as it was answered |
| `IngestionProof!TypeCorrect`, `ReadyIsComplete`, `KeywordsAreComplete`, `NoOrphans` | types; a ready document has all its chunks, and all its keywords in the index; a deleted one leaves none |
| `IngestionProof!OvershootBounded` | less than one slice per loop is spent above the cap, if there is a loop |
| `IngestionProof!NeverPaysTwice`, `ImplementsDocumentLife` | under `~SlowRuns`: no chunk that is stored is paid again; the steps of a document's life |
| `TutorTurnProof!TypeCorrect`, `NothingOpenAcrossCall`, `NoDoubleBill` | types; nothing open across a model call; at most one bill per call, two after an error |
| `TutorTurnProof!StreamedTextStored`, `AskIsTheLastCall` | what was streamed is stored, once, and an empty message only by the endings that store one; from the commit of an ask's batch on nothing follows it but, for a client that left, the cancel arm |
| `TutorTurnProof!CapBoundsTheTurns` | under `~Silent`: all turns together exceed the daily cap by one call each, less one, at most, and by one more for each turn that ended in an aborted transaction |
| `TutorTurnProof!NoSpendLost` | under `~Silent` and `~Blank`: no model call of a closed turn is unbilled, and an embedding is lost by the error arm alone, unless the turn ended in an aborted transaction |
| `SessionLifecycleProof!TypeCorrect`, `OnePaysTheSummary`, `SpendNeedsSlot` | types; one paid summary per life of a session; every model call on a slot of its own, never more slots than the day has |
| `SessionLifecycleProof!NothingLostOnTheWay` | an accepted turn that is not cut off keeps its message, every call is booked |
| `SessionLifecycleProof!NoEndInVain` | a resume without rivals is never refused after it ended its prior |
| `SessionLifecycleProof!RoutesImplementRegistry` | the routes implement `TopicRegistry` |
| `TopicProfileProof!TypeCorrect`, `ConceptsStandOnce`, `TestedMeansTested` | types and caps; no concept twice; `tested` only of what was tested |
| `TopicProfileProof!EditsMeetTheirEtag`, `GapsStayUnderFocus` | an edit meets its version; no gap leaves from under the focus |
| `LearnerViewsProof!TypeCorrect`, `WrongIsNeverMastered`, `ReviewAlwaysComesBack`, `PastWeeksAreSettled` | types; what was wrong last is not shown as mastered, and what was tested comes back under its session, if the answer still stands there; a past week stands |

Hypotheses beyond the assumptions are those of the runs, and the code or its client
gives each its reason: `~Overlap` (the buttons of a batch are disabled while a request
runs), `OneTurn` (one stream per view), `~SlowRuns` (a run ends within
`STALE_PROCESSING_MINUTES`), `~Silent` and `~Blank` (section 4).  Sections 4 and 5 name
what happens without them.  `OneTurn` says that turns follow each other: there may be
any number of them.

*CheckBatch.*  `Typed` strengthens `TypeOK` with what makes each handler's reads
meaningful: a request that works on a copy of the row has one, a turn that asked
knows its batch.  `LockKept` says who may hold the lock where: a turn only between a
refused tool and the commit that ends its iteration or its request, a request only
while it completes a batch.  `SerialInv` adds what serial requests buy: one request
in flight, whose copy names the open batch at its current question; nothing is
graded before its turn comes and no batch is reacted to before it is cleared.

*The ORM copies.*  `Fresh` is why no whole-blob save undoes a grade in serial use.  The
copy of a request need not be the committed profile, since the turn's tool may have
changed that; but it is `Trusted`: it carries the committed place of the gap unless the
tutor or the learner has moved it since the newest answer, and a level it has seen is
still some level.  The batch a request settles or completes is the open one but for a
link (`Linked`), the only thing a turn changes in it.  The refinement of `Quiz` maps the
open batch, its question and the reactions due; `DueOne` (at most one reaction is due)
is where `Solo` enters.

*Declared levels.*  `Undisputed` (the level is declared, and so in every copy a request
holds) is inductive by itself, for overlapping requests too: every save of the blob
carries on the level of its copy, a grade is written from `None` only, and the edits of
tutor and learner never take a level away.

*Recaps.*  `RecapHonest` speaks of closed batches only; `Recaps` follows a batch from its
posing.  The open batch is the newest, its statuses are the outcomes its events tell up
to the current question and pending beyond (`OpenTrue`); a copy that may publish is
linked if the open batch is published at all, and knows that link (`Kept`); what stays
published of a closed one is its outcome (`ClosedTrue`).  An abandoned batch needs
`Ungraded`: what it skips has no event.  The rebuilt recap is then a matter of the two
history variables (`RecapsHonest`).

*Ingestion.*  `ReadyComplete` is not inductive: it says nothing of a run that is
about to finish.  `ServeInv` adds `Progress`: while its document exists, what a run
still has to embed covers everything that is not stored, and at the merge everything
is stored; since chunks are only ever added until the document is deleted, a second
runner cannot break it.  `IndexInv` adds `IndexHeld`: between the merge and its commit
a loop holds the row lock, and the index it read is the committed one.  `Bounded` counts
the loops past the gate: each may still put a slice on the ledger.  `SoleRuns` is what the
claim gives when no live run is taken for a stuck one: one run per document, nothing but
a delete under it, and a skip-set that is exact whenever it may call.  From `SoleRuns` and
`ServeInv` each step is one of `DocumentLife` or a stutter; what `DocumentLife` says of
liveness is left to `ingest_drain`.

*TutorTurn.*  `Inv` is `TypeOK` and `Books(t)` for every turn: the balance of
`made`, `billed`, `pend` and `booked` at every place of the loop (`iter` counts the
calls; all but the one in flight are billed; what is billed is booked or pending
until an ending settles it), what each ending leaves (`Ended`, `Bounded`), what an
aborted transaction has cost (`Lost`: one increment, and its summary's one more), and
that an increment is pending at an abort only if the turn was silent (`Spoken`).
A step of one turn leaves the books of the others (`UntouchedBooks`), so each action
needs one lemma.  `Told` relates what was streamed, the messages and the ending, and has
the ask last in every bundle still to be dispatched (`AskLast`).  For the cap, `Due(t)` is
what a turn will have cost once its summary is in, and `OneAhead` bounds it by what is
committed and one more, an aborted turn by two: whoever passes `check_cap` therefore has seen all but one unit
of each turn, which bounds the sum (`Ceiling`).  Sums are counted unit by unit, as
the cardinality of a set of pairs, since induction over the turns is not available.

*SessionLifecycle.*  `Inv` is `TypeOK` with, for each request, `Fits` (what its place
says of its kind, its topic, its slot and its accounts), `Rooted` (the row it works
on exists) and `Ended` (the life it ended is over), and for all of them `OneEnd`: no
two requests have ended the same life, since the conditional update matches only an
active row and a reopen starts another life.  `SlotsCounted` makes the counter the
number of slots given out.  A step changes one request and at most one row, so
`KeptButEnd` turns the invariant's preservation into facts about that request;
only the claim needs `OneEnd` argued anew.  `Unrivalled` adds that a resume which has the
sessions to itself finds at its insert what it found at its pre-check.  The refinement
maps `sess`, the topic asked for and the reply to `held`, `asked` and `told`; each action
is a step of `TopicRegistry` or a stutter, because the reply and the index's verdict are
one step.

*TopicProfile.*  Lemmas of `ConceptListsProof` say what each list operator does to the set
of concepts, the length, and the origin of the entries (`UpsertKeeps`, `WithoutKeeps`,
`EvictKeeps`), from there what each edit, tool call and grade does to a `Sound` profile:
lists disjoint by concept, marks backed by answers, subtopics counted.  A `Sound` profile
of lists at their cap is one entry over it before the save at most, which `Capped` mends.
`Inv` adds that copies are as sound as the profile, whatever their age, since answers
are only ever added (`SoundGrows`), and `Editing`: who has compared an etag holds the
lock until it saves.

*LearnerViews.*  The views are functions of lists and log, so the invariant relates
these two: a concept is still where its latest test put it, in its session (`Placed`), or
it has been overruled there (`Stands`).  `Placed` allows for the list that more
concepts claim than it can hold (`Crowding`), a state that never ends (`PlacedGrows`), and
for a right answer whose concept a declaration has made a gap again.  `Tidy` adds that a
concept stands once per list, under a name that was written.  The curve needs only
the types: the first right answer to a name stays the first when answers are appended
(`CountsStay`), and a new one counts for the current week.

## 7. Model-checked only

`QueueDrains`, `TurnEnds` and the liveness part of `ImplementsLife`: liveness and
`ENABLED` are out of the prover's reach.  The behaviour without the hypotheses of
section 6 is shown by the runs that end in a counterexample.  Everything else a run
checks is proved.

## 8. Not modelled

- A fault of a single database statement (a lost connection inside an arm of the
  loop, a failing savepoint), but for those of a turn's preparation and the end of a
  deadlock in the loop: of the arms' own `except` clauses only what an aborted
  transaction sets off is modelled.
- Soft warnings; prices: every call costs one unit.  The ceiling of all users is a
  refusal that may come at any time.
- A second cancellation while the cancel arm drains a tool thread.
- The stub mode; prompts, citations, event texts; the quiz cooldown; stamps and
  levels of subtopics.
- The text and the count of rolling summaries: two turns that finish together may
  move the count back; nothing in the code claims an order.
- Crashes in `TutorTurn`: a restart loses the uncommitted increments by design.
- The burst limit (a window under one mutex of one process), the bounded retry of an
  embedding call (stateless), the order and paging of the review queue.
- The async handlers of `complete` and `end` on the event loop: the same wait as in
  `turn_loop_blocks`, at another row.
- The browser's store and views: their own asynchrony would need a model of the
  client; the backend models assume of it that a view sends one request of a batch
  at a time (`Overlap = FALSE`).
- Components listed as `not_modelled` in `PROJECT.json`: queries, rendering, schemas,
  tooling.

## 9. Plan

In this order:

1. Proofs: weaker hypotheses where the code allows them, above all which of the serial
   theorems survive overlapping requests that settle different batches, and `OneTurn`
   replaced by turns that pose one batch at a time.
2. Other statement faults in `TutorTurn`'s arms, as `SessionLifecycle` has them for a
   turn's preparation.
3. The handlers `complete` and `end` and the summary's write window in the
   event-loop model.
4. The client store's load, stream, abandon and reset against late answers.
