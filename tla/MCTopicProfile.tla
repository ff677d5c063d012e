---------------------------- MODULE MCTopicProfile ----------------------------
EXTENDS TopicProfile

CONSTANTS x, X, y, l, sa, sb

(* X is another spelling of x.                                              *)
TwoSpellings == [n \in {x, X, y} |-> IF n = X THEN x ELSE n]

NoPatch == [level |-> None, gap |-> None, mastered |-> None, ev |-> "none",
            focus |-> None, reason |-> "none", sub |-> None, bad |-> FALSE]
(* Every field alone, and the pairs that meet in apply_patch.               *)
SomePatches ==
    {[NoPatch EXCEPT !.gap = y, !.focus = f] : f \in {None, x, y}}
    \cup {[NoPatch EXCEPT !.mastered = X, !.ev = e, !.focus = x] :
            e \in {"none", "inferred", "tested"}}
    \cup {[NoPatch EXCEPT !.focus = y]}
    \cup {[NoPatch EXCEPT !.gap = y, !.mastered = n, !.ev = "tested"] : n \in {x, y}}
    \cup {[NoPatch EXCEPT !.reason = r] : r \in {"tested_correct", "other"}}
    \cup {[NoPatch EXCEPT !.level = l, !.ev = e] : e \in {"none", "tested"}}
    \cup {[NoPatch EXCEPT !.sub = u, !.bad = b] : u \in {sa, sb}, b \in BOOLEAN}

NoEdit == [op |-> "patch", name |-> None, mastered |-> None, gap |-> None,
           level |-> None, sub |-> None, bad |-> FALSE]
SomeEdits ==
    {[NoEdit EXCEPT !.mastered = n, !.gap = x] : n \in {None, X, y}}
    \cup {[NoEdit EXCEPT !.mastered = y]}
    \cup {[NoEdit EXCEPT !.level = l, !.sub = u, !.bad = b] : u \in {None, sa}, b \in BOOLEAN}
    \cup {[NoEdit EXCEPT !.op = o, !.name = n] : o \in {"unmaster", "ungap"}, n \in {X, y}}
    \cup {[NoEdit EXCEPT !.op = "unsub", !.sub = sa]}
=============================================================================
