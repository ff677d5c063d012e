------------------------------- MODULE Ingestion -------------------------------
(***************************************************************************)
(* The document pipeline of ONE tutoring session: uploads, the ingestion   *)
(* workers that claim, embed and index the documents, and their deletion.  *)
(*                                                                         *)
(* The documents row is the job record; a worker commits once per embedded *)
(* batch, so a crash leaves a prefix of the chunks behind.  Worker steps   *)
(* are the stretches between two commits or two external calls.            *)
(***************************************************************************)
EXTENDS FiniteSets, Integers

CONSTANTS
    NDocs,        \* documents ever uploaded
    Workers,      \* ingestion loops (in-process thread, or python -m worker)
    Size,         \* Size[d]: chunks the text of document d splits into
    MaxChunks,    \* settings.max_chunks
    EmbedBatch,   \* EMBED_BATCH
    Cap,          \* hard daily cost cap, in embedded chunks
    MaxPaid,      \* bound: where the count of payments for a chunk saturates
    MaxCrashes,   \* bound: worker crashes
    SlowRuns,     \* TRUE: a live run may outlast STALE_PROCESSING_MINUTES
    Supervised,   \* TRUE: a loop that ended is started again
    Nobody        \* nobody holds the session row lock

Docs   == 1 .. NDocs
Text   == [d \in Docs |-> 0 .. Size[d] - 1]
Chunks == UNION {Text[d] : d \in Docs}

ASSUME SizesOK == /\ NDocs \in Nat \ {0}
                  /\ Size \in [Docs -> Nat]
                  /\ MaxChunks \in Nat
                  /\ EmbedBatch \in Nat \ {0}
                  /\ Cap \in Nat
                  /\ MaxPaid \in Nat \ {0}
                  /\ MaxCrashes \in Nat
                  /\ SlowRuns \in BOOLEAN
                  /\ Supervised \in BOOLEAN
                  /\ IsFiniteSet(Workers)
                  /\ Nobody \notin Workers

InFlight == {"pending", "processing"}
Listed   == InFlight \cup {"ready", "failed"}
Statuses == Listed \cup {"none", "stored", "deleted"}

(* A worker holds doc, and after the skip-set was read the chunks to do.    *)
Worker == [at: {"idle", "claimed", "opening", "extract", "gate", "calling",
                "paid", "merge", "merged", "failing", "marking", "dead"},
           doc: 0 .. NDocs, todo: SUBSET Chunks]
Free == [at |-> "idle", doc |-> 0, todo |-> {}]

VARIABLES
    status,    \* documents.status; "stored": flushed, uncommitted, blob written
    claimed,   \* claimed_at: "never", "fresh", or "stale" (before the cutoff)
    blob,      \* documents whose bytes are in the object store
    chunks,    \* chunk_embeddings rows of each document
    kw,        \* documents whose stems are in the session's keyword index
    kwSeen,    \* the index as the holder of the session row read it
    rowLock,   \* holder of the session row
    worker,    \* per ingestion loop
    paid,      \* embedding calls made for each chunk
    spent,     \* chunks on today's cost ledger
    crashes    \* crashes so far

vars == <<status, claimed, blob, chunks, kw, kwSeen, rowLock, worker, paid, spent, crashes>>
index == <<kw, kwSeen, rowLock>>
money == <<paid, spent>>

TypeOK ==
    /\ status \in [Docs -> Statuses]
    /\ claimed \in [Docs -> {"never", "fresh", "stale"}]
    /\ blob \subseteq Docs
    /\ chunks \in [Docs -> SUBSET Chunks]
    /\ \A d \in Docs : chunks[d] \subseteq Text[d]
    /\ kw \subseteq Docs
    /\ kwSeen \subseteq Docs
    /\ rowLock \in Workers \cup {Nobody}
    /\ worker \in [Workers -> Worker]
    /\ paid \in [Docs -> [Chunks -> 0 .. MaxPaid]]
    /\ spent \in Nat
    /\ crashes \in 0 .. MaxCrashes

Init ==
    /\ status = [d \in Docs |-> "none"]
    /\ claimed = [d \in Docs |-> "never"]
    /\ blob = {}
    /\ chunks = [d \in Docs |-> {}]
    /\ kw = {}
    /\ kwSeen = {}
    /\ rowLock = Nobody
    /\ worker = [w \in Workers |-> Free]
    /\ paid = [d \in Docs |-> [c \in Chunks |-> 0]]
    /\ spent = 0
    /\ crashes = 0

-----------------------------------------------------------------------------
(* Operators marked "slip" are plausible wrong versions of what follows.    *)

Set(d, st) == status' = [status EXCEPT ![d] = st]
Goto(w, where) == worker' = [worker EXCEPT ![w].at = where]
Rest(w) == worker' = [worker EXCEPT ![w] = Free]
DocOf(w) == worker[w].doc

AlwaysAlive(d) == TRUE                                                 \* slip
\* the row is still there: else a refresh, the FK or the UPDATE raises
Alive(d) == status[d] # "deleted"

TodoAll(d) == Text[d]                                                  \* slip
TodoPastCount(d) == {c \in Text[d] : c > Cardinality(chunks[d])}       \* slip
\* _existing_chunk_indexes is the skip-set of a re-run
Todo(d) == Text[d] \ chunks[d]

SliceTooLong(todo) ==                                                  \* slip
    UNION {{c, c + 1} : c \in {e \in todo : Cardinality({g \in todo : g < e}) < EmbedBatch}}
\* the next EMBED_BATCH slice, in chunk order
Slice(todo) == {c \in todo : Cardinality({e \in todo : e < c}) < EmbedBatch}

NoCap == TRUE                                                          \* slip
\* assert_within_caps
WithinCaps == spent < Cap

\* recover_stuck: claims before the cutoff
Stuck(d) == status[d] = "processing" /\ claimed[d] = "stale"

-----------------------------------------------------------------------------
(* Upload, past its guards: the row is flushed but not committed, the blob  *)
(* is written, and only then does the row become visible to the workers.    *)
StoreBlob(d) == /\ Set(d, "stored")
                /\ blob' = blob \cup {d}

UploadPut(d) ==
    /\ status[d] = "none"
    /\ \A e \in Docs : e < d => status[e] # "none"      \* ids ascend
    /\ StoreBlob(d)
    /\ UNCHANGED <<claimed, chunks, index, worker, money, crashes>>

(* A failed write rolls the row back and lists the document as failed.      *)
UploadFails(d) ==
    /\ status[d] = "none"
    /\ \A e \in Docs : e < d => status[e] # "none"
    /\ Set(d, "failed")
    /\ UNCHANGED <<claimed, blob, chunks, index, worker, money, crashes>>

UploadCommit(d) ==
    /\ status[d] = "stored"
    /\ Set(d, "pending")
    /\ UNCHANGED <<claimed, blob, chunks, index, worker, money, crashes>>

(* delete_document: chunk rows and document row in one transaction; the     *)
(* blob afterwards, best effort.                                            *)
Delete(d) ==
    /\ status[d] \in Listed
    /\ Set(d, "deleted")
    /\ chunks' = [chunks EXCEPT ![d] = {}]
    /\ UNCHANGED <<claimed, blob, index, worker, money, crashes>>

DropBlob(d) ==
    /\ status[d] = "deleted"
    /\ d \in blob
    /\ blob' = blob \ {d}
    /\ UNCHANGED <<status, claimed, chunks, index, worker, money, crashes>>

-----------------------------------------------------------------------------
(* The queue: claim the oldest pending document, SKIP LOCKED, one commit.   *)
Claim(w) ==
    \E d \in Docs :
        /\ worker[w].at = "idle"
        /\ status[d] = "pending"
        /\ \A e \in Docs : e < d => status[e] # "pending"
        /\ Set(d, "processing")
        /\ claimed' = [claimed EXCEPT ![d] = "fresh"]
        /\ worker' = [worker EXCEPT ![w] = [at |-> "claimed", doc |-> d, todo |-> {}]]
        /\ UNCHANGED <<blob, chunks, index, money, crashes>>

(* claim_next returns doc.id after its commit expired the row: a document   *)
(* deleted in between raises out of main_loop, and the loop ends.           *)
ClaimReturns(w) ==
    /\ worker[w].at = "claimed"
    /\ IF Alive(DocOf(w)) THEN Goto(w, "opening")
                          ELSE worker' = [worker EXCEPT ![w] = [Free EXCEPT !.at = "dead"]]
    /\ UNCHANGED <<status, claimed, blob, chunks, index, money, crashes>>

(* recover_stuck, once per minute of an idle loop.                          *)
Recovered == [d \in Docs |-> IF Stuck(d) THEN "pending" ELSE status[d]]
Unclaimed == [d \in Docs |-> IF Stuck(d) THEN "never" ELSE claimed[d]]

Recover(w) ==
    /\ worker[w].at = "idle"
    /\ \E d \in Docs : Stuck(d)
    /\ status' = Recovered
    /\ claimed' = Unclaimed
    /\ UNCHANGED <<blob, chunks, index, worker, money, crashes>>

(* Thirty minutes pass.  A live run takes less, unless SlowRuns.            *)
Age(d) ==
    /\ claimed[d] = "fresh"
    /\ SlowRuns \/ \A w \in Workers : DocOf(w) # d
    /\ claimed' = [claimed EXCEPT ![d] = "stale"]
    /\ UNCHANGED <<status, blob, chunks, index, worker, money, crashes>>

-----------------------------------------------------------------------------
(* ingestion_service.run.                                                   *)
Open(w) ==
    /\ worker[w].at = "opening"
    /\ IF Alive(DocOf(w)) THEN Goto(w, "extract") ELSE Rest(w)
    /\ UNCHANGED <<status, claimed, blob, chunks, index, money, crashes>>

(* Load the blob and extract its text: it may be missing or unreadable,     *)
(* empty (ready at once), too large (failed), or work to do.                *)
ExtractFails(w) ==
    /\ worker[w].at = "extract"
    /\ Goto(w, "failing")
    /\ UNCHANGED <<status, claimed, blob, chunks, index, money, crashes>>

ExtractSettles(w) ==
    LET d == DocOf(w)
    IN  /\ worker[w].at = "extract"
        /\ d \in blob
        /\ Alive(d)
        /\ Size[d] = 0 \/ Size[d] > MaxChunks
        /\ Set(d, IF Size[d] = 0 THEN "ready" ELSE "failed")
        /\ Rest(w)
        /\ UNCHANGED <<claimed, blob, chunks, index, money, crashes>>

Extract(w) ==
    LET d == DocOf(w)
    IN  /\ worker[w].at = "extract"
        /\ d \in blob
        /\ Size[d] \in 1 .. MaxChunks
        /\ worker' = [worker EXCEPT ![w].at = "gate", ![w].todo = Todo(d)]
        /\ UNCHANGED <<status, claimed, blob, chunks, index, money, crashes>>

(* Per slice: the caps, then the paid call with no transaction open ...     *)
Gate(w) ==
    /\ worker[w].at = "gate"
    /\ Goto(w, IF worker[w].todo = {} THEN "merge"
               ELSE IF WithinCaps THEN "calling" ELSE "failing")
    /\ UNCHANGED <<status, claimed, blob, chunks, index, money, crashes>>

CallFails(w) ==
    /\ worker[w].at = "calling"
    /\ Goto(w, "failing")
    /\ UNCHANGED <<status, claimed, blob, chunks, index, money, crashes>>

Call(w) ==
    /\ worker[w].at = "calling"
    /\ paid' = [paid EXCEPT ![DocOf(w)] =
                  [c \in Chunks |-> IF c \in Slice(worker[w].todo) /\ @[c] < MaxPaid
                                      THEN @[c] + 1 ELSE @[c]]]
    /\ Goto(w, "paid")
    /\ UNCHANGED <<status, claimed, blob, chunks, index, spent, crashes>>

\* insert_chunks: rows that are there already are skipped
Inserted(d, slice) == [chunks EXCEPT ![d] = @ \cup slice]

(* ... and rows and ledger in one commit.                                   *)
Store(w) ==
    LET d     == DocOf(w)
        slice == Slice(worker[w].todo)
    IN  /\ worker[w].at = "paid"
        /\ Alive(d)
        /\ chunks' = Inserted(d, slice)
        /\ spent' = spent + Cardinality(slice)
        /\ worker' = [worker EXCEPT ![w].at = "gate", ![w].todo = @ \ slice]
        /\ UNCHANGED <<status, claimed, blob, index, paid, crashes>>

LockIgnored == TRUE                                                    \* slip
\* FOR UPDATE on the session row (B-13)
RowFree == rowLock = Nobody

(* The keyword merge reads the index under the row lock ...                 *)
Merge(w) ==
    /\ worker[w].at = "merge"
    /\ Alive(DocOf(w))
    /\ RowFree
    /\ rowLock' = w
    /\ kwSeen' = kw
    /\ Goto(w, "merged")
    /\ UNCHANGED <<status, claimed, blob, chunks, kw, money, crashes>>

(* ... and the closing commit writes the union with the status.             *)
Finish(w) ==
    LET d == DocOf(w)
    IN  /\ worker[w].at = "merged"
        /\ Alive(d)
        /\ kw' = kwSeen \cup {d}
        /\ Set(d, "ready")
        /\ rowLock' = Nobody
        /\ kwSeen' = {}
        /\ Rest(w)
        /\ UNCHANGED <<claimed, blob, chunks, money, crashes>>

(* The document was deleted under the run: the next statement on it raises. *)
Vanished(w) ==
    /\ worker[w].at \in {"extract", "gate", "paid", "merge", "merged"}
    /\ ~Alive(DocOf(w))
    /\ Goto(w, "failing")
    /\ IF worker[w].at = "merged" THEN rowLock' = Nobody /\ kwSeen' = {}
                                  ELSE UNCHANGED <<rowLock, kwSeen>>
    /\ UNCHANGED <<status, claimed, blob, chunks, kw, money, crashes>>

FailedRetries == "pending"                                             \* slip
\* a run that raised ends the document: there is no retry
FailedFor == "failed"

(* The except arms: rollback, the row read again, then the failure          *)
(* committed alone.  What that commit raises is not caught: a document      *)
(* deleted since the read ends the loop.                                    *)
MarkFailed(w) ==
    /\ worker[w].at = "failing"
    /\ IF Alive(DocOf(w)) THEN Goto(w, "marking") ELSE Rest(w)
    /\ UNCHANGED <<status, claimed, blob, chunks, index, money, crashes>>

CommitFailed(w) ==
    /\ worker[w].at = "marking"
    /\ IF Alive(DocOf(w))
         THEN Set(DocOf(w), FailedFor) /\ Rest(w)
         ELSE UNCHANGED status /\ worker' = [worker EXCEPT ![w] = [Free EXCEPT !.at = "dead"]]
    /\ UNCHANGED <<claimed, blob, chunks, index, money, crashes>>

-----------------------------------------------------------------------------
(* A crash loses the run and its transaction; the next boot starts over.    *)
Crash(w) ==
    /\ crashes < MaxCrashes
    /\ worker[w].at # "dead"
    /\ worker' = [worker EXCEPT ![w] = [Free EXCEPT !.at = "dead"]]
    /\ IF rowLock = w THEN rowLock' = Nobody /\ kwSeen' = {}
                      ELSE UNCHANGED <<rowLock, kwSeen>>
    /\ crashes' = crashes + 1
    /\ UNCHANGED <<status, claimed, blob, chunks, kw, money>>

Restart(w) ==
    /\ worker[w].at = "dead"
    /\ status' = Recovered
    /\ claimed' = Unclaimed
    /\ Rest(w)
    /\ UNCHANGED <<blob, chunks, index, money, crashes>>

User(d) == UploadPut(d) \/ UploadFails(d) \/ UploadCommit(d) \/ Delete(d) \/ DropBlob(d)

Run(w) ==
    \/ ClaimReturns(w) \/ Open(w)
    \/ ExtractFails(w) \/ ExtractSettles(w) \/ Extract(w)
    \/ Gate(w) \/ CallFails(w) \/ Call(w) \/ Store(w)
    \/ Merge(w) \/ Finish(w) \/ Vanished(w)
    \/ MarkFailed(w) \/ CommitFailed(w)

Next ==
    \/ \E d \in Docs : User(d) \/ Age(d)
    \/ \E w \in Workers : Claim(w) \/ Recover(w) \/ Run(w) \/ Crash(w) \/ Restart(w)

Spec == Init /\ [][Next]_vars

(* A started loop keeps polling and runs what it claimed; time passes; the  *)
(* database grants the row lock.  Only a supervised loop is started again.  *)
FairSpec ==
    /\ Spec
    /\ \A d \in Docs : WF_vars(Age(d))
    /\ \A w \in Workers : /\ WF_vars(Run(w))
                          /\ WF_vars(Claim(w))
                          /\ WF_vars(Recover(w))
                          /\ Supervised => WF_vars(Restart(w))

-----------------------------------------------------------------------------
(* GET /sessions/{id}/ingestion: one status for all documents of a session. *)
Visible == {status[d] : d \in Docs} \cap Listed

\* aggregate_status: what is in flight first, then what is ready
SessionStatus == IF Visible = {} THEN "none"
                 ELSE IF Visible \cap InFlight # {} THEN "pending"
                 ELSE IF "ready" \in Visible THEN "ready" ELSE "failed"

-----------------------------------------------------------------------------
\* Retrieval serves a ready document: all of its chunks are stored by then,
\* whichever runs, crashes and re-runs put them there (F-27, query_chunks).
ReadyComplete == \A d \in Docs : status[d] = "ready" => chunks[d] = Text[d]

\* The keyword index knows every ready document: two runs that finish together
\* lose nothing (B-13, merge_into_session).
KeywordsComplete ==
    \A d \in Docs : status[d] = "ready" => d \in kw \/ Size[d] = 0

\* Deleting leaves no chunk behind, even under a run of the document (F-28).
NoOrphanChunks == \A d \in Docs : status[d] = "deleted" => chunks[d] = {}

\* Ingestion overshoots the daily cap by less than one slice per worker (B-01).
CapOvershoot == spent < Cap + Cardinality(Workers) * EmbedBatch

\* Re-running a document "never re-pays for chunks it already bought and stored".
NeverRepays ==
    [][\A d \in Docs, c \in Chunks : c \in chunks[d] => paid'[d][c] = paid[d][c]]_vars

\* main.py: "the web process drains the ingestion queue in a daemon thread", so
\* a client that polls the status of its session is not left polling for ever.
QueueDrains == SessionStatus = "pending" ~> SessionStatus # "pending"

-----------------------------------------------------------------------------
\* query_chunks: chunks of documents that are not ready are not served (F-27)
Served(d) == IF status[d] = "ready" THEN chunks[d] ELSE {}

(* What the user sees of a document, and the promise it keeps.              *)
Life == INSTANCE DocumentLife WITH
    state <- [d \in Docs |->
                CASE status[d] \in {"none", "stored"} -> "absent"
                  [] status[d] \in InFlight -> "queued"
                  [] status[d] = "deleted" -> "gone"
                  [] OTHER -> status[d]],
    served <- [d \in Docs |-> Served(d)]

ImplementsLife == Life!FairSpec
=============================================================================
