----------------------------- MODULE ConceptLists -----------------------------
(***************************************************************************)
(* The concept lists of a topic profile and what every change of them goes  *)
(* through: names compared by canon(), a concept in one list only, lists    *)
(* of bounded length.  A profile is a record with fields mastered, gaps     *)
(* (sequences of entries, oldest first) and focus.                          *)
(***************************************************************************)
EXTENDS SequencesExt

CONSTANTS
    Names,     \* what learner, tutor and model call their concepts
    Canon,     \* canon(): the concept a name stands for
    ListCap,   \* settings.max_profile_list
    None

ASSUME NamesOK == /\ Canon \in [Names -> Names]
                  /\ \A n \in Names : Canon[Canon[n]] = Canon[n]
                  /\ None \notin Names
ASSUME ListCapOK == ListCap \in Nat \ {0}

Entry == [name: Names, ev: {"none", "declared", "tested"}]

SameSpelling(m, n) == m = n                                               \* slip
\* canon(m) == canon(n), for a name m or none
Same(m, n) == m # None /\ Canon[m] = Canon[n]

Has(list, n) == \E i \in DOMAIN list : Same(n, list[i].name)

(* A known concept keeps its place and its spelling.                        *)
Upsert(list, n, ev) ==
    IF ~Has(list, n) THEN Append(list, [name |-> n, ev |-> ev])
    ELSE [i \in DOMAIN list |->
            IF Same(n, list[i].name) /\ ev # "none" THEN [list[i] EXCEPT !.ev = ev]
                                                    ELSE list[i]]

(* No concept is in a list twice, so that there is one entry to remove.     *)
Without(list, n) == RemoveFirstMatch(list, LAMBDA e : Same(n, e.name))

Unfocus(p, n) == [p EXCEPT !.focus = IF Same(p.focus, n) THEN None ELSE @]

\* add_exclusive
AddExclusive(p, list, n, ev) ==
    IF list = "mastered"
    THEN Unfocus([p EXCEPT !.mastered = Upsert(@, n, ev), !.gaps = Without(@, n)], n)
    ELSE [p EXCEPT !.gaps = Upsert(@, n, ev), !.mastered = Without(@, n)]

(* A call adds one entry to a list at the most, so that one goes.           *)
Evict(list, focus) == IF Len(list) <= ListCap THEN list
                      ELSE RemoveFirstMatch(list, LAMBDA e : ~Same(focus, e.name))

UncappedLists(p) == p                                                     \* slip
CapBlind(p) ==                                                            \* slip
    [p EXCEPT !.gaps = Evict(@, None), !.mastered = Evict(@, None)]
\* _enforce_list_caps, in save_profile
Capped(p) == [p EXCEPT !.gaps = Evict(@, p.focus), !.mastered = Evict(@, None)]

GradedByAnyWord(p, n, right) ==                                           \* slip
    AddExclusive(p, IF right THEN "mastered" ELSE "gaps", n, "correct")
\* record_from_answer: a right answer promotes, a wrong one demotes
Graded(p, n, right) ==
    AddExclusive(p, IF right THEN "mastered" ELSE "gaps", n, "tested")
=============================================================================
