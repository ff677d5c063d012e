------------------------------ MODULE LearnerViews ------------------------------
(***************************************************************************)
(* What a learner is shown across sessions, all of it computed from the     *)
(* session profiles and the log of answers: the aggregate profile, the      *)
(* weekly mastery curve and the review queue.                               *)
(*                                                                         *)
(* The log is in the order of (created_at, id); of a time stamp only the    *)
(* day is kept.  The log only grows, the lists do not: the learner and the  *)
(* tutor declare concepts, and the learner takes them off.                  *)
(***************************************************************************)
EXTENDS ConceptLists, Integers

CONSTANTS
    MaxSessions, MaxAnswers, MaxDay,   \* bounds
    MaxChanges,                        \* bound: answers, declarations and deletions
    WeekDays,                          \* days of a week
    WindowWeeks,                       \* weeks of the mastery curve
    BaseInterval, MaxInterval          \* BASE_INTERVAL_DAYS, MAX_INTERVAL_DAYS

ASSUME ViewsOK == /\ {MaxSessions, MaxAnswers, MaxDay, WeekDays, WindowWeeks, BaseInterval,
                      MaxInterval} \subseteq Nat \ {0}
                  /\ MaxChanges \in Nat

Lists == [mastered: Seq(Entry), gaps: Seq(Entry), focus: Names \cup {None}]
Answer == [sid: 1 .. MaxSessions, name: Names, right: BOOLEAN, probe: BOOLEAN,
           day: 0 .. MaxDay]

VARIABLES
    prof,     \* the profile of each session, oldest session first
    log,      \* learning_events; probe: purpose "diagnostic"
    today,
    written,  \* history: every name an answer or a declaration has used
    overruled, \* history: <<session, concept>> tested, and since then taken
               \* off a list or declared mastered in that session
    edits     \* declarations and deletions so far

vars == <<prof, log, today, written, overruled, edits>>

Sids == DOMAIN prof

-----------------------------------------------------------------------------
(* A session starts empty, or with the profile of the one it resumes.       *)
Start ==
    /\ Len(prof) < MaxSessions
    /\ \E p \in Sids \cup {None} :
         prof' = Append(prof, IF p = None THEN [mastered |-> <<>>, gaps |-> <<>>, focus |-> None]
                                          ELSE prof[p])
    /\ UNCHANGED <<log, today, written, overruled, edits>>

Respond(s, n, right, probe) ==
    /\ Len(log) < MaxAnswers /\ Len(log) + edits < MaxChanges
    /\ log' = Append(log, [sid |-> s, name |-> n, right |-> right, probe |-> probe,
                           day |-> today])
    /\ prof' = IF probe THEN prof
               ELSE [prof EXCEPT ![s] = Capped(Graded(@, n, right))]
    /\ written' = written \cup {n}
    /\ overruled' = IF probe THEN overruled ELSE overruled \ {<<s, Canon[n]>>}
    /\ UNCHANGED <<today, edits>>

Counted == Len(log) + edits < MaxChanges /\ edits' = edits + 1
Overrule(s, n) ==
    overruled' = overruled \cup
        {e \in {<<s, Canon[n]>>} : \E i \in DOMAIN log : e = <<log[i].sid, Canon[log[i].name]>>}

(* A concept the learner or the tutor puts on a list without a test.        *)
Declare(s, list, n) ==
    /\ prof' = [prof EXCEPT ![s] = Capped(AddExclusive(@, list, n, "none"))]
    /\ Counted
    /\ written' = written \cup {n}
    /\ IF list = "mastered" THEN Overrule(s, n)
                            ELSE overruled' = overruled \ {<<s, Canon[n]>>}
    /\ UNCHANGED <<log, today>>

(* DELETE of a mastered concept or of a gap; what is not listed is a 404.   *)
WithoutItem(p, list, n) ==
    IF list = "mastered" THEN [p EXCEPT !.mastered = Without(@, n)]
                         ELSE Unfocus([p EXCEPT !.gaps = Without(@, n)], n)
DeleteItem(s, list, n) ==
    /\ Has(prof[s][list], n)
    /\ prof' = [prof EXCEPT ![s] = Capped(WithoutItem(@, list, n))]
    /\ Counted
    /\ Overrule(s, n)
    /\ UNCHANGED <<log, today, written>>

NextDay ==
    /\ today < MaxDay
    /\ today' = today + 1
    /\ UNCHANGED <<prof, log, written, overruled, edits>>

Init == prof = <<>> /\ log = <<>> /\ today = 0 /\ written = {} /\ overruled = {}
        /\ edits = 0
Next == \/ Start
        \/ \E s \in Sids, n \in Names, right, probe \in BOOLEAN : Respond(s, n, right, probe)
        \/ \E s \in Sids, n \in Names, list \in {"mastered", "gaps"} :
               Declare(s, list, n) \/ DeleteItem(s, list, n)
        \/ NextDay
Spec == Init /\ [][Next]_vars

-----------------------------------------------------------------------------
(* GET /profile/aggregate: names as they were written, not canon().         *)

Listed(field) == {n \in Names : \E s \in Sids : \E i \in DOMAIN prof[s][field] :
                                  prof[s][field][i].name = n}

OldestDecides(n) ==                                                       \* slip
    \E i \in DOMAIN log : /\ log[i].name = n /\ log[i].right
                          /\ \A j \in 1 .. i - 1 : log[j].name # n
\* the newest answer on n, whatever it was for, was right
NewestRight(n) ==
    \E i \in DOMAIN log : /\ log[i].name = n /\ log[i].right
                          /\ \A j \in i + 1 .. Len(log) : log[j].name # n

Conflicts == Listed("mastered") \cap Listed("gaps")
CombinedMastered == {n \in Listed("mastered") : n \in Conflicts => NewestRight(n)}
CombinedGaps     == {n \in Listed("gaps") : n \in Conflicts => ~NewestRight(n)}

(* The weekly curve: every name counts in the week of its first right       *)
(* answer; probes do not count.                                             *)
RightOn(n) == {i \in DOMAIN log : log[i].name = n /\ log[i].right /\ ~log[i].probe}
WeekOf(day) == day \div WeekDays

LatestRight(n) == CHOOSE i \in RightOn(n) : \A j \in RightOn(n) : i >= j  \* slip
\* setdefault keeps the first one
FirstRight(n) == CHOOSE i \in RightOn(n) : \A j \in RightOn(n) : i <= j

Window == WeekOf(today) - WindowWeeks + 1 .. WeekOf(today)
Mastered(w) == Cardinality({n \in Names : RightOn(n) # {} /\ WeekOf(log[FirstRight(n)].day) = w})

-----------------------------------------------------------------------------
(* GET /review/queue: concepts by canon(), probes left out.                 *)

TestsAndProbes(k) == {i \in DOMAIN log : Canon[log[i].name] = k}          \* slip
Tests(k) == {i \in DOMAIN log : ~log[i].probe /\ Canon[log[i].name] = k}
Tested   == {k \in Names : Tests(k) # {}}
Newest(k) == log[Max(Tests(k))]

\* right answers since the last wrong one
Streak(k) == Cardinality({i \in Tests(k) : \A j \in Tests(k) : j >= i => log[j].right})

DoubleForEver(streak) ==                                                  \* slip
    IF streak = 0 THEN BaseInterval ELSE BaseInterval * 2 ^ (streak - 1)
\* _interval_days
Interval(streak) == IF streak = 0 THEN BaseInterval
                    ELSE Min({BaseInterval * 2 ^ (streak - 1), MaxInterval})

DueAt(k) == Newest(k).day + Interval(Streak(k))
Due == {k \in Tested : DueAt(k) <= today}

(* POST /chat/stream with review_gaps: what a turn of session s is told to  *)
(* review when the queue's link asks for a concept by name.                 *)
ListedIn(list) == {list[i].name : i \in DOMAIN list}
Target(s, asked) ==
    LET gaps     == prof[s].gaps
        mastered == prof[s].mastered
    IN  IF asked \in ListedIn(gaps) \cup ListedIn(mastered) THEN asked
        ELSE IF gaps # <<>> THEN Head(gaps).name
        ELSE IF mastered # <<>> THEN Head(mastered).name
        ELSE None

-----------------------------------------------------------------------------
(* One entry per answer, lists within their cap, the days within bounds.    *)
TypeOK ==
    /\ prof \in Seq(Lists) /\ Len(prof) <= MaxSessions
    /\ \A s \in Sids : Len(prof[s].mastered) <= ListCap /\ Len(prof[s].gaps) <= ListCap
    /\ log \in Seq(Answer) /\ Len(log) <= MaxAnswers
    /\ today \in 0 .. MaxDay
    /\ written \subseteq Names /\ overruled \subseteq (1 .. MaxSessions) \X Names
    /\ edits \in 0 .. MaxChanges

(* #288: what the learner got wrong last is not shown as mastered, whatever *)
(* the other sessions' lists still say or are told, as long as it is        *)
(* spelled one way.  With two spellings it can be: lists and log go by      *)
(* canon(), this view by the name.  And it can be when the conflict with an *)
(* older session that mastered it is gone from the lists: a full list       *)
(* pushed the gap off, or the session that was answered was told otherwise  *)
(* since (the gap deleted, or declared mastered).                           *)
OneSpelling(n) == \A m \in written : Same(n, m) => m = n
Crowded == Cardinality({Canon[n] : n \in written}) > ListCap
AsTested(a) == /\ OneSpelling(a.name) /\ ~Crowded
               /\ <<a.sid, Canon[a.name]>> \notin overruled
WrongIsNotMastered == \A i \in DOMAIN log :
    /\ AsTested(log[i])
    /\ ~log[i].right /\ ~log[i].probe
    /\ \A j \in i + 1 .. Len(log) : log[j].name # log[i].name
    => log[i].name \notin CombinedMastered

(* The curve of the weeks gone by does not change any more.                 *)
PastWeeksStand ==
    [][\A w \in Window \cap Window' : w < WeekOf(today) => Mastered(w)' = Mastered(w)]_vars

(* R2.1: what was tested comes back, a miss after the base interval however *)
(* long the streak before it and anything else within the longest one; and  *)
(* the session the queue links to still lists it, so that the turn reviews  *)
(* what was asked for and not another gap.  Spelled two ways, pushed off a  *)
(* full list or deleted by the learner, the concept stays due and the turn  *)
(* may fall back to another one: chat.py:101 expects that of a gap resolved *)
(* or renamed since the queue was fetched.                                  *)
ReviewComesBack == \A k \in Tested :
    LET last == Newest(k)
    IN  last.day + (IF last.right THEN MaxInterval ELSE BaseInterval) <= today =>
        /\ k \in Due
        /\ AsTested(last) => Target(last.sid, last.name) = last.name
=============================================================================
