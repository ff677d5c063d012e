---------------------------- MODULE SessionLifecycle ----------------------------
(***************************************************************************)
(* The life of one user's sessions: requests that create (fresh or as the  *)
(* resumption of a prior session), end, reopen and rename sessions, and    *)
(* chat turns up to the point where the tutor takes over, with the daily   *)
(* slots and the spend they use.                                           *)
(*                                                                         *)
(* A request is a sequence of transactions.  An action runs from one       *)
(* commit, await or decision to the next; steps of different requests      *)
(* interleave, whether in one process or in several.  What a summary says  *)
(* is abstracted to whose end it tells of; a topic is the class of strings *)
(* the index takes for equal; every model call costs one unit; the day     *)
(* does not change.                                                        *)
(***************************************************************************)
EXTENDS FiniteSetsExt, Integers

CONSTANTS
    Sids, Topics, Reqs,
    None,          \* no topic, no row, no summary
    DailyCap,      \* settings.daily_cap
    HardCap        \* the user's daily cost cap, in calls

ASSUME LifecycleOK == /\ IsFiniteSet(Reqs)
                      /\ {DailyCap, HardCap} \subseteq Nat
                      /\ None \notin Topics \cup Sids

(* A reopened session lives again: the summary of the k-th life of s.        *)
Summaries == (Sids \X Nat) \cup {None}
Row == [topic: Topics, active: BOOLEAN, pinned: BOOLEAN, talked: BOOLEAN,
        life: Nat, summary: Summaries]

Labels == {"idle", "claim", "slot", "summarise", "call", "write", "seed", "insert",
           "reopen", "update", "prepare", "embed", "persist", "salvage", "aborted",
           "done", "dead", "lost"}
Ops     == {"none", "create", "end", "reopen", "update", "chat"}
Replies == {"nothing", "taken", "duplicate", "other"}
Pins    == {"keep", "pin", "unpin"}

Request == [op: Ops, at: Labels, sid: Sids \cup {None}, topic: Topics \cup {None},
            pin: Pins, ends: Nat, slot: BOOLEAN, seed: Summaries, made: 0 .. 1,
            pend: 0 .. 1, booked: 0 .. 1, kept: BOOLEAN, told: Replies,
            consent: {"absent", "given", "not given"}]

ASSUME NoneOK == None \notin Row

Fresh == [op |-> "none", at |-> "idle", sid |-> None, topic |-> None, pin |-> "keep",
          ends |-> 0, slot |-> FALSE, seed |-> None, made |-> 0, pend |-> 0,
          booked |-> 0, kept |-> FALSE, told |-> "nothing", consent |-> "absent"]

VARIABLES
    sess,    \* the session rows, None where there is none
    req,     \* the requests
    used,    \* today's usage counter
    user     \* the user row: "absent", or whether it records consent

vars == <<sess, req, used, user>>

At(r)     == req[r].at
Exists(s) == sess[s] # None
Active(s) == Exists(s) /\ sess[s].active

(* Sessions other than s that are active on t: what the routes look up and  *)
(* what the partial unique index forbids.  The pre-check lowers its topic   *)
(* in Python and the rows' in SQL; the two are taken to agree.              *)
ActiveOn(t, s) == {x \in Sids \ {s} : Active(x) /\ sess[x].topic = t}

Committed  == MapThenSumSet(LAMBDA r : req[r].booked, Reqs)
Affordable == Committed < HardCap
LedgerFree(r) == \A q \in Reqs \ {r} : req[q].pend = 0

Become(r, new)      == req' = [req EXCEPT ![r] = new]
Goto(r, where)      == Become(r, [req[r] EXCEPT !.at = where])
(* A request that is over is remembered by what it did, not by its locals.  *)
Over(old, where) == [old EXCEPT !.at = where, !.pin = "keep", !.seed = None, !.pend = 0,
                                !.consent = "absent",
                                !.sid = IF old.ends > 0 THEN old.sid ELSE None]
Told(old, t, reply) == [Over(old, "done") EXCEPT !.topic = t, !.told = reply]

-----------------------------------------------------------------------------
(* POST /sessions                                                           *)

\* ensure_user: the row this transaction inserts, nothing if there is one
NewUser(r, claim) == IF user = "absent" THEN claim ELSE "absent"

NothingTaken(t, p) == {}                                                  \* slip
\* the pre-check: the prior being resumed does not count
Rivals(t, p) == ActiveOn(t, p)

(* Fresh if p is None.  The insert of a user row waits for another one.     *)
Create(r) ==
    /\ At(r) = "idle"
    /\ \A q \in Reqs \ {r} : user = "absent" => req[q].consent = "absent"
    /\ \E t \in Topics, p \in Sids \cup {None}, claim \in {"given", "not given"} :
         LET new == [Fresh EXCEPT !.op = "create", !.sid = p, !.topic = t,
                                  !.consent = NewUser(r, claim)]
         IN  Become(r, IF Rivals(t, p) # {} THEN Told(new, t, "duplicate")
                       ELSE IF p = None THEN [new EXCEPT !.at = "insert"]
                       ELSE IF ~Exists(p) THEN Told(new, None, "other")
                       ELSE [new EXCEPT !.at = IF Active(p) THEN "claim" ELSE "seed"])
    /\ UNCHANGED <<sess, used, user>>

ClaimAlways(s) == Exists(s)                                               \* slip
\* the conditional UPDATE matches
Claimable(s) == Active(s)

(* _claim_end, on behalf of an end or of a resume: which life it ends.      *)
ClaimEnd(r, old, s) ==
    IF Claimable(s)
    THEN /\ sess' = [sess EXCEPT ![s].active = FALSE]
         /\ Become(r, [old EXCEPT !.at = "slot", !.ends = sess[s].life])
    ELSE /\ UNCHANGED sess
         /\ Become(r, IF old.op = "end" THEN Told(old, None, "other")
                                        ELSE [old EXCEPT !.at = "seed"])

ClaimPrior(r) ==
    /\ At(r) = "claim"
    /\ ClaimEnd(r, req[r], req[r].sid)
    /\ UNCHANGED <<used, user>>

(* The new row copies the prior's profile, its summary with it.             *)
Seed(r) ==
    /\ At(r) = "seed"
    /\ Become(r, [req[r] EXCEPT !.at = "insert", !.seed = sess[req[r].sid].summary])
    /\ UNCHANGED <<sess, used, user>>

IndexIgnored(t, s) == TRUE                                                \* slip
\* uq_sessions_active_topic
IndexAllows(t, s) == ActiveOn(t, s) = {}

Published(r) == user' = IF req[r].consent = "absent" THEN user ELSE req[r].consent

(* The commit: the index decides, whatever the pre-check saw.               *)
Insert(r) ==
    /\ At(r) = "insert"
    /\ IF IndexAllows(req[r].topic, None)
       THEN /\ \E s \in {x \in Sids : ~Exists(x)} :
                 sess' = [sess EXCEPT ![s] =
                            [topic |-> req[r].topic, active |-> TRUE, pinned |-> FALSE,
                             talked |-> FALSE, life |-> 1, summary |-> req[r].seed]]
            /\ Published(r)
            /\ Become(r, Told(req[r], req[r].topic, "taken"))
       ELSE /\ Become(r, Told(req[r], req[r].topic, "duplicate"))
            /\ UNCHANGED <<sess, user>>
    /\ UNCHANGED used

-----------------------------------------------------------------------------
(* POST /sessions/{id}/end, and the summary it shares with a resume         *)

End(r) ==
    /\ At(r) = "idle"
    /\ \E s \in Sids : ClaimEnd(r, [Fresh EXCEPT !.op = "end", !.sid = s], s)
    /\ UNCHANGED <<used, user>>

UncappedSlot == TRUE                                                      \* slip
\* the UPDATE of check_and_increment matches
SlotLeft == used < DailyCap

(* check_and_increment: without a slot an end goes on, a turn is refused.   *)
TakeSlot(r) ==
    /\ At(r) = "slot"
    /\ used' = IF SlotLeft THEN used + 1 ELSE used
    /\ Become(r, IF req[r].op = "chat"
                 THEN IF SlotLeft THEN [req[r] EXCEPT !.at = "prepare", !.slot = TRUE]
                                  ELSE Told(req[r], None, "other")
                 ELSE [req[r] EXCEPT !.at = "summarise", !.slot = SlotLeft])
    /\ UNCHANGED <<sess, user>>

PaysUncounted(r) == Affordable                                            \* slip
\* allow_llm and check_cap
MayPay(r) == req[r].slot /\ Affordable

(* An empty transcript, a missing slot or a spent cap: no model call.       *)
Summarise(r) ==
    /\ At(r) = "summarise"
    /\ Goto(r, IF sess[req[r].sid].talked /\ MayPay(r)
               THEN "call" ELSE "write")
    /\ UNCHANGED <<sess, used, user>>

(* The model answers, or fails and the mechanical text is used.             *)
SummaryCall(r) ==
    /\ At(r) = "call"
    /\ \/ Goto(r, "write")
       \/ Become(r, [req[r] EXCEPT !.at = "write", !.made = 1])
    /\ UNCHANGED <<sess, used, user>>

(* The write window: the summary, and the ledger with it.                   *)
WriteSummary(r) ==
    /\ At(r) = "write"
    /\ req[r].made = 1 => LedgerFree(r)
    /\ sess' = [sess EXCEPT ![req[r].sid].summary = <<req[r].sid, req[r].ends>>]
    /\ LET paid == [req[r] EXCEPT !.booked = req[r].made]
       IN  Become(r, IF req[r].op = "end" THEN Told(paid, None, "other")
                                          ELSE [paid EXCEPT !.at = "seed"])
    /\ UNCHANGED <<used, user>>

-----------------------------------------------------------------------------
(* POST /sessions/{id}/reopen and PATCH /sessions/{id}                      *)

Reopen(r) ==
    /\ At(r) = "idle"
    /\ \E s \in Sids :
         LET new == [Fresh EXCEPT !.op = "reopen", !.sid = s]
         IN  Become(r, IF ~Exists(s) \/ Active(s) THEN Told(new, None, "other")
                       ELSE IF ActiveOn(sess[s].topic, s) # {}
                            THEN Told(new, sess[s].topic, "duplicate")
                            ELSE [new EXCEPT !.at = "reopen"])
    /\ UNCHANGED <<sess, used, user>>

ReopenCommit(r) ==
    /\ At(r) = "reopen"
    /\ LET s == req[r].sid
           t == sess[s].topic
       IN  IF IndexAllows(t, s)
           THEN /\ sess' = [sess EXCEPT ![s].active = TRUE, ![s].life = @ + 1]
                /\ Become(r, Told(req[r], t, "taken"))
           ELSE /\ Become(r, Told(req[r], t, "duplicate"))
                /\ UNCHANGED sess
    /\ UNCHANGED <<used, user>>

(* The ORM writes what differs from the row as loaded, and nothing else.    *)
Update(r) ==
    /\ At(r) = "idle"
    /\ \E s \in Sids, t \in Topics \cup {None}, pin \in Pins :
         LET changed == Exists(s) /\ t # sess[s].topic /\ t # None
             moved   == Exists(s) /\ sess[s].pinned # (pin = "pin")
             new == [Fresh EXCEPT !.op = "update", !.sid = s,
                                  !.topic = IF changed THEN t ELSE None,
                                  !.pin = IF moved THEN pin ELSE "keep"]
         IN  /\ t # None \/ pin # "keep"
             /\ Become(r, IF ~Exists(s) \/ (pin = "pin" /\ ~Active(s)) THEN Told(new, None, "other")
                          ELSE IF t # None /\ Active(s) /\ ActiveOn(t, s) # {}
                               THEN Told(new, t, "duplicate")
                               ELSE [new EXCEPT !.at = "update"])
    /\ UNCHANGED <<sess, used, user>>

UpdateCommit(r) ==
    /\ At(r) = "update"
    /\ LET s == req[r].sid
           t == req[r].topic
           row == [sess[s] EXCEPT !.pinned = IF req[r].pin = "keep" THEN @ ELSE req[r].pin = "pin",
                                  !.topic = IF t = None THEN @ ELSE t]
       IN  IF t # None /\ Active(s) /\ ~IndexAllows(t, s)
           THEN /\ Become(r, Told(req[r], t, "duplicate"))
                /\ UNCHANGED sess
           ELSE /\ sess' = [sess EXCEPT ![s] = row]
                /\ Become(r, Told(req[r], t, IF t # None /\ Active(s) THEN "taken" ELSE "other"))
    /\ UNCHANGED <<used, user>>

-----------------------------------------------------------------------------
(* POST /chat/stream up to the hand-over to the tutor                       *)

(* 429 at the user's cap or at the ceiling of all users, 404, 409, or on.   *)
Chat(r) ==
    /\ At(r) = "idle"
    /\ \E s \in Sids, ceiling \in BOOLEAN :
         LET new == [Fresh EXCEPT !.op = "chat", !.sid = s]
         IN  Become(r, IF Affordable /\ ~ceiling /\ Active(s)
                       THEN [new EXCEPT !.at = "slot"]
                       ELSE Told(new, None, "other"))
    /\ UNCHANGED <<sess, used, user>>

(* Retrieval embeds the question at most once; no document, no embedding.   *)
Prepare(r) ==
    /\ At(r) = "prepare"
    /\ \E where \in {"embed", "persist"} : Goto(r, where)
    /\ UNCHANGED <<sess, used, user>>

(* The embedding fails, or it is metered in the turn's transaction.         *)
Embed(r) ==
    /\ At(r) = "embed"
    /\ \/ Goto(r, "persist")
       \/ LedgerFree(r) /\ Become(r, [req[r] EXCEPT !.at = "persist", !.made = 1, !.pend = 1])
    /\ UNCHANGED <<sess, used, user>>

(* The user's message is stored last.                                       *)
Store(r, cost) ==
    /\ sess' = [sess EXCEPT ![req[r].sid].talked = TRUE]
    /\ Become(r, [Told(req[r], None, "other")
                    EXCEPT !.booked = cost, !.kept = TRUE])
    /\ UNCHANGED <<used, user>>

Persist(r) ==
    /\ At(r) = "persist"
    /\ Store(r, req[r].pend)

(* Whatever raises before that is rolled back.                              *)
PrepareFails(r) ==
    /\ At(r) \in {"persist", "aborted"}
    /\ Become(r, [req[r] EXCEPT !.at = "salvage", !.pend = 0])
    /\ UNCHANGED <<sess, used, user>>

SalvageMessageOnly(r) == req[r].pend                                      \* slip
\* the embedding the rollback took off the ledger is recorded again
Salvaged(r) == req[r].made

Salvage(r) ==
    /\ At(r) = "salvage"
    /\ Salvaged(r) = 1 => LedgerFree(r)
    /\ Store(r, Salvaged(r))

(* A query of the preparation fails in the database.  The error is caught   *)
(* and the turn goes on, in a transaction the database has aborted ...      *)
QueryFails(r) ==
    /\ At(r) = "persist"
    /\ Goto(r, "aborted")
    /\ UNCHANGED <<sess, used, user>>

(* ... so its commit raises, with message and spend: no answer but a 500.   *)
AbortedCommit(r) ==
    /\ At(r) = "aborted"
    /\ Become(r, Over(req[r], "lost"))
    /\ UNCHANGED <<sess, used, user>>

-----------------------------------------------------------------------------
(* GET /me creates the user on the first call of all.                       *)
GetMe(r) ==
    /\ At(r) = "idle"
    /\ \A q \in Reqs \ {r} : user = "absent" => req[q].consent = "absent"
    /\ \E claim \in {"given", "not given"} :
         user' = IF NewUser(r, claim) = "absent" THEN user ELSE claim
    /\ Become(r, Told(Fresh, None, "other"))
    /\ UNCHANGED <<sess, used>>

(* The process dies; the database gives up the open transaction.            *)
Crash(r) ==
    /\ At(r) \notin {"idle", "done", "dead", "lost"}
    /\ Become(r, Over(req[r], "dead"))
    /\ UNCHANGED <<sess, used, user>>

-----------------------------------------------------------------------------
(* Any set of sessions the routes can have left behind.                     *)
Past(s) == {None} \cup {[topic |-> t, active |-> a, pinned |-> FALSE, talked |-> TRUE,
                         life |-> 1, summary |-> IF a THEN None ELSE <<s, 1>>] :
                        t \in Topics, a \in BOOLEAN}

Init ==
    /\ sess \in {f \in [Sids -> UNION {Past(s) : s \in Sids}] :
                   \A s \in Sids : f[s] \in Past(s)}
    /\ \A s \in Sids : Active(s) => ActiveOn(sess[s].topic, s) = {}
    /\ req  = [r \in Reqs |-> Fresh]
    /\ used = 0
    /\ user \in {"absent", "given", "not given"}
    /\ user = "absent" => \A s \in Sids : ~Exists(s)

Arrive(r) == Create(r) \/ End(r) \/ Reopen(r) \/ Update(r) \/ Chat(r) \/ GetMe(r)
Step(r) == ClaimPrior(r) \/ TakeSlot(r) \/ Summarise(r) \/ SummaryCall(r) \/ WriteSummary(r)
           \/ Seed(r) \/ Insert(r) \/ ReopenCommit(r) \/ UpdateCommit(r) \/ Prepare(r)
           \/ Embed(r) \/ Persist(r) \/ PrepareFails(r) \/ Salvage(r)
           \/ QueryFails(r) \/ AbortedCommit(r)
Next == \E r \in Reqs : Arrive(r) \/ Step(r) \/ Crash(r)
Spec == Init /\ [][Next]_vars

-----------------------------------------------------------------------------
(* The type invariant.                                                      *)
TypeOK ==
    /\ sess \in [Sids -> Row \cup {None}]
    /\ req \in [Reqs -> Request]
    /\ used \in 0 .. DailyCap
    /\ user \in {"absent", "given", "not given"}

(* F-30: however many ends and resumes meet, whatever crashes, and however  *)
(* often the session is reopened, the end of a life is paid for only once.  *)
SummaryPaidOnce == \A r, q \in Reqs :
    /\ req[r].ends > 0 /\ req[r].made = 1 /\ req[q].made = 1
    /\ req[q].sid = req[r].sid /\ req[q].ends = req[r].ends
    => r = q

(* F-03: every paid call was made on a slot of its own, and no more slots   *)
(* are given out than the day has.                                          *)
SlotBeforeSpend ==
    /\ \A r \in Reqs : req[r].made = 1 => req[r].slot
    /\ Cardinality({r \in Reqs : req[r].slot}) = used
    /\ used <= DailyCap

(* B-08: whatever raises, a turn that used a slot leaves its user's message *)
(* behind, and every request leaves the calls it made on the ledger.  Two   *)
(* ends are excepted: a crash, and a commit the database refuses because an *)
(* earlier error in its transaction was swallowed.                          *)
TurnKept == \A r \in Reqs : At(r) = "done" =>
    /\ req[r].op = "chat" /\ req[r].slot => req[r].kept
    /\ req[r].booked = req[r].made

(* A resume is refused before it ends its prior: with no rival about, the   *)
(* index never finds what the pre-check did not.                            *)
NoFutileEnd == \A r \in Reqs :
    req[r].ends > 0 /\ req[r].told = "duplicate" => \E q \in Reqs \ {r} : At(q) # "idle"

(* The topics the routes hand out, as TopicRegistry promises them.          *)
Registry == INSTANCE TopicRegistry WITH
    held  <- [s \in Sids |-> IF Active(s) THEN sess[s].topic ELSE None],
    asked <- [r \in Reqs |-> req[r].topic],
    told  <- [r \in Reqs |-> req[r].told]
ImplementsRegistry == Registry!Spec
=============================================================================
