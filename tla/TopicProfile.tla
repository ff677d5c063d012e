------------------------------ MODULE TopicProfile ------------------------------
(***************************************************************************)
(* The topic profile of one session: one column of the session row, written *)
(* whole by everyone who changes it.  The learner edits it under If-Match,  *)
(* the tutor patches it with a tool, graded answers move concepts between   *)
(* its lists, and the summary saves it back with a new text.               *)
(*                                                                         *)
(* The routes that grade and the summary work on the copy of the row they  *)
(* loaded before they wait for its lock (as in CheckBatch); the edits and  *)
(* the tool read it under the lock.  Stamps, the levels of subtopics and   *)
(* the summary text are left out.                                          *)
(***************************************************************************)
EXTENDS ConceptLists

CONSTANTS
    Levels, Subtopics,
    Clients,       \* views of the profile that edit it
    Writers,       \* requests that grade an answer or store a summary
    Patches,       \* arguments the tutor's tool may be called with
    Edits,         \* edits a learner may send
    MaxSubtopics,  \* MAX_SUBTOPICS
    MaxSaves,      \* bound: how often the profile is saved, and read to be saved
    Tutor          \* a tutor turn, as holder of the row lock

ASSUME CapsOK  == {MaxSubtopics, MaxSaves} \subseteq Nat \ {0}
ASSUME NoneOK  == /\ None \notin Levels \cup Subtopics \cup Clients \cup {Tutor}
                  /\ Tutor \notin Clients

Profile == [level: Levels \cup {None}, mastered: Seq(Entry), gaps: Seq(Entry),
            focus: Names \cup {None}, subs: SUBSET Subtopics]
Empty == [level |-> None, mastered |-> <<>>, gaps |-> <<>>, focus |-> None, subs |-> {}]

(* Arguments; bad marks what validation refuses: half a subtopic, a blank.  *)
Patch == [level: Levels \cup {None}, gap: Names \cup {None}, mastered: Names \cup {None},
          ev: {"none", "declared", "tested", "inferred"}, focus: Names \cup {None},
          reason: {"none", "tested_correct", "other"}, sub: Subtopics \cup {None},
          bad: BOOLEAN]
Edit == [op: {"patch", "unmaster", "ungap", "unsub"}, name: Names \cup {None},
         mastered: Names \cup {None}, gap: Names \cup {None}, level: Levels \cup {None},
         sub: Subtopics \cup {None}, bad: BOOLEAN]

ASSUME InputsOK == Patches \subseteq Patch /\ Edits \subseteq Edit

(* An answer recorded in learning_events, in this session or in a prior one *)
(* whose profile this session was seeded with.                              *)
Event == [name: Names, right: BOOLEAN, here: BOOLEAN]

VARIABLES
    prof,     \* topic_profile_json
    saves,    \* how often it was saved
    lock,     \* who holds the row lock across a step, or None
    events,   \* the facts in learning_events
    seen,     \* per client: the profile its etag stands for, or None
    edit,     \* per client: the edit whose If-Match has just been accepted
    copy      \* per writer: the profile as it was loaded, or None

vars == <<prof, saves, lock, events, seen, edit, copy>>

-----------------------------------------------------------------------------
Unlocked == TRUE                                                          \* slip
\* lock_session_row waits until nobody holds the row
LockFree == lock = None

(* save_profile.                                                            *)
Save(p) == /\ saves < MaxSaves
           /\ saves' = saves + 1
           /\ prof' = Capped(p)
NotSaved == UNCHANGED <<prof, saves>>

-----------------------------------------------------------------------------
(* The learner.                                                             *)

Get(c) ==
    /\ saves < MaxSaves
    /\ edit[c] = None
    /\ seen' = [seen EXCEPT ![c] = prof]
    /\ UNCHANGED <<prof, saves, lock, events, edit, copy>>

(* 412: the client has to fetch the profile again.  No header: 428.         *)
Mismatch(c) ==
    /\ edit[c] = None
    /\ LockFree
    /\ seen[c] \notin {None, prof}
    /\ seen' = [seen EXCEPT ![c] = None]
    /\ UNCHANGED <<prof, saves, lock, events, edit, copy>>

(* The lock is taken before the etag is compared.                           *)
Match(c) ==
    /\ edit[c] = None
    /\ LockFree
    /\ seen[c] = prof
    /\ saves < MaxSaves
    /\ lock' = c
    /\ \E e \in Edits : edit' = [edit EXCEPT ![c] = e]
    /\ UNCHANGED <<prof, saves, events, seen, copy>>

If(n, p, changed) == IF n = None THEN p ELSE changed

Acceptable(p, e) ==
    CASE e.op = "patch"    -> ~e.bad /\ (e.sub # None => e.sub \in p.subs)
      [] e.op = "unmaster" -> Has(p.mastered, e.name)
      [] e.op = "ungap"    -> Has(p.gaps, e.name)
      [] e.op = "unsub"    -> e.sub \in p.subs

Patched(p, e) ==
    LET q == If(e.mastered, p, AddExclusive(p, "mastered", e.mastered, "none"))
        r == If(e.gap, q, AddExclusive(q, "gaps", e.gap, "none"))
    IN  If(e.level, r, [r EXCEPT !.level = e.level])

\* remove_profile_item on the gaps: a focus on the removed gap goes with it
RemoveGap(p, n) == Unfocus([p EXCEPT !.gaps = Without(@, n)], n)

Edited(p, e) ==
    CASE e.op = "patch"    -> Patched(p, e)
      [] e.op = "unmaster" -> [p EXCEPT !.mastered = Without(@, e.name)]
      [] e.op = "ungap"    -> RemoveGap(p, e.name)
      [] e.op = "unsub"    -> [p EXCEPT !.subs = @ \ {e.sub}]

(* 200 with the new etag; or 422, 404, and nothing is saved.                *)
Apply(c) ==
    /\ edit[c] # None
    /\ IF Acceptable(prof, edit[c])
       THEN /\ Save(Edited(prof, edit[c]))
            /\ seen' = [seen EXCEPT ![c] = prof']
       ELSE NotSaved /\ UNCHANGED seen
    /\ lock' = None
    /\ edit' = [edit EXCEPT ![c] = None]
    /\ UNCHANGED <<events, copy>>

-----------------------------------------------------------------------------
(* The tutor's tool update_topic_profile.                                   *)

TrustTutor(a) == IF a.ev \in {"declared", "tested"} THEN a.ev ELSE "none" \* slip
\* "tested" is the server's own word: from the tutor it counts as declared
Evidence(a) == IF a.ev \in {"declared", "tested"} THEN "declared" ELSE "none"

Clearing(p, a) == p.focus # None /\ a.focus = None /\ a.reason # "none"

(* _has_correct_event_for: in this session, whatever the answer was for.    *)
Proven(n) == \E x \in events : x.here /\ x.right /\ Same(n, x.name)

(* Each a return from apply_patch after it has locked the row.              *)
Refuses(p, a) ==
    \/ a.bad
    \/ a.sub \notin p.subs \cup {None} /\ Cardinality(p.subs) >= MaxSubtopics
    \/ a.level # None /\ Evidence(a) = "none"
    \/ a.mastered # None /\ a.ev = "none"
    \/ Clearing(p, a) /\ a.reason = "tested_correct" /\ ~Proven(p.focus)

(* An inferred mastery is ignored; a concept mastered by this call does not *)
(* come back as its focus.                                                  *)
Merged(p, a) ==
    LET q == If(a.level, p, [p EXCEPT !.level = a.level])
        r == If(a.gap, q, AddExclusive(q, "gaps", a.gap, Evidence(a)))
        masters == a.mastered # None /\ Evidence(a) # "none"
        s == IF masters THEN AddExclusive(r, "mastered", a.mastered, Evidence(a)) ELSE r
        t == IF Clearing(p, a) THEN [s EXCEPT !.focus = None]
             ELSE If(a.focus, s, [s EXCEPT !.focus = a.focus])
        u == IF masters THEN Unfocus(t, a.mastered) ELSE t
    IN  [u EXCEPT !.subs = @ \cup ({a.sub} \ {None})]

(* A refusal keeps the lock until the turn's next commit.                   *)
TutorPatch ==
    /\ LockFree
    /\ \E a \in Patches :
         IF Refuses(prof, a) THEN lock' = Tutor /\ NotSaved
                             ELSE Save(Merged(prof, a)) /\ UNCHANGED lock
    /\ UNCHANGED <<events, seen, edit, copy>>

TutorCommits ==
    /\ lock = Tutor
    /\ lock' = None
    /\ UNCHANGED <<prof, saves, events, seen, edit, copy>>

-----------------------------------------------------------------------------
(* Graded answers and the summary.                                          *)

Load(w) ==
    /\ saves < MaxSaves
    /\ copy[w] = None
    /\ copy' = [copy EXCEPT ![w] = prof]
    /\ UNCHANGED <<prof, saves, lock, events, seen, edit>>

(* record_from_answer; the answer of a diagnostic leaves the profile alone. *)
Grade(w) ==
    /\ copy[w] # None
    /\ LockFree
    /\ \E n \in Names, right, diagnostic \in BOOLEAN :
         /\ events' = events \cup {[name |-> Canon[n], right |-> right, here |-> TRUE]}
         /\ IF diagnostic THEN NotSaved
            ELSE Save(Graded(copy[w], n, right))
    /\ copy' = [copy EXCEPT ![w] = None]
    /\ UNCHANGED <<lock, seen, edit>>

(* generate_and_persist saves the profile it read before the model call.    *)
StoreSummary(w) ==
    /\ copy[w] # None
    /\ LockFree
    /\ Save(copy[w])
    /\ copy' = [copy EXCEPT ![w] = None]
    /\ UNCHANGED <<lock, events, seen, edit>>

-----------------------------------------------------------------------------
(* A fresh session, or one seeded with the profile of a prior, in which n   *)
(* was mastered and m was missed and is the focus.                          *)
Seeded(n, m) ==
    /\ prof = [Empty EXCEPT !.mastered = <<[name |-> n, ev |-> "tested"]>>,
                            !.gaps = <<[name |-> m, ev |-> "tested"]>>, !.focus = m]
    /\ events = {[name |-> Canon[n], right |-> TRUE, here |-> FALSE],
                 [name |-> Canon[m], right |-> FALSE, here |-> FALSE]}

Init ==
    /\ \/ prof = Empty /\ events = {}
       \/ \E n, m \in Names : Canon[n] # Canon[m] /\ Seeded(n, m)
    /\ saves = 0
    /\ lock = None
    /\ seen = [c \in Clients |-> None]
    /\ edit = [c \in Clients |-> None]
    /\ copy = [w \in Writers |-> None]

Next ==
    \/ \E c \in Clients : Get(c) \/ Mismatch(c) \/ Match(c) \/ Apply(c)
    \/ TutorPatch \/ TutorCommits
    \/ \E w \in Writers : Load(w) \/ Grade(w) \/ StoreSummary(w)

Spec == Init /\ [][Next]_vars

-----------------------------------------------------------------------------
(* The type invariant, with the bounds of the lists (F-35).                 *)
TypeOK ==
    /\ prof \in Profile
    /\ saves \in 0 .. MaxSaves
    /\ lock \in Clients \cup {Tutor, None}
    /\ events \subseteq Event
    /\ seen \in [Clients -> Profile \cup {None}]
    /\ edit \in [Clients -> Edits \cup {None}]
    /\ copy \in [Writers -> Profile \cup {None}]
    /\ Len(prof.mastered) <= ListCap /\ Len(prof.gaps) <= ListCap
    /\ Cardinality(prof.subs) <= MaxSubtopics

(* F-13: a concept, however it is spelled, stands once in one of the lists. *)
OnePlace ==
    LET all == prof.mastered \o prof.gaps
    IN  \A i, j \in DOMAIN all : Canon[all[i].name] = Canon[all[j].name] => i = j

(* F-21: "tested" is said only of what an answer has shown, here or in the  *)
(* session this one continues, however the entry got to its list.           *)
TestedIsTested ==
    /\ \A i \in DOMAIN prof.mastered : prof.mastered[i].ev = "tested" =>
         \E x \in events : x.right /\ Same(x.name, prof.mastered[i].name)
    /\ \A i \in DOMAIN prof.gaps : prof.gaps[i].ev = "tested" =>
         \E x \in events : ~x.right /\ Same(x.name, prof.gaps[i].name)

(* F-12: an edit is applied to the very profile its learner looked at.      *)
EditMeetsItsEtag == \A c \in Clients : edit[c] # None => prof = seen[c]

(* F-22, F-35: a gap that has the focus does not leave the list while the   *)
(* focus stays, be it by eviction, removal or promotion; a write from an    *)
(* outdated copy is excepted.                                               *)
Outdated == \E w \in Writers : copy[w] \notin {None, prof} /\ copy'[w] = None
FocusKeepsItsGap ==
    [][ Has(prof.gaps, prof.focus) /\ prof'.focus = prof.focus /\ ~Outdated
        => Has(prof'.gaps, prof'.focus) ]_vars
=============================================================================
