--------------------------- MODULE LearnerViewsProof ---------------------------
(***************************************************************************)
(* Theorems about LearnerViews, for any names and spellings, any list cap,  *)
(* any number of sessions, answers, declarations, deletions and days, and   *)
(* any intervals.                                                           *)
(***************************************************************************)
EXTENDS LearnerViews, ConceptListsProof

-----------------------------------------------------------------------------
(* The lists of a session, given the names W written so far.                *)

Spelled(W)  == {Canon[n] : n \in W}
Crowding(W) == Cardinality(Spelled(W)) > ListCap

(* Every concept stands once, under a name that was written.                *)
Tidy(p, W) ==
    /\ p \in Lists
    /\ Once(p.mastered) /\ Once(p.gaps)
    /\ ListedIn(p.mastered) \subseteq W /\ ListedIn(p.gaps) \subseteq W
    /\ Len(p.mastered) <= ListCap /\ Len(p.gaps) <= ListCap

(* Where the concept of an answer is found after it.                        *)
Placed(p, W, c, right) ==
    Crowding(W) \/ c \in Concepts(p.gaps) \/ (right /\ c \in Concepts(p.mastered))

LEMMA TidyIs ==
    ASSUME NEW W, NEW p, Tidy(p, W)
    PROVE  /\ p.mastered \in Seq(Entry) /\ p.gaps \in Seq(Entry)
           /\ p.focus \in Names \cup {None}
           /\ Once(p.mastered) /\ Once(p.gaps)
           /\ Len(p.mastered) \in Nat /\ Len(p.gaps) \in Nat /\ ListCap \in Nat
           /\ Len(p.mastered) <= ListCap /\ Len(p.gaps) <= ListCap
           /\ ListedIn(p.mastered) \subseteq W /\ ListedIn(p.gaps) \subseteq W
<1>1. p.mastered \in Seq(Entry) /\ p.gaps \in Seq(Entry) /\ p.focus \in Names \cup {None}
    BY DEF Tidy, Lists
<1> QED  BY <1>1, ListCapOK DEF Tidy

LEMMA SpelledFinite ==
    ASSUME NEW W, IsFiniteSet(W) PROVE IsFiniteSet(Spelled(W))
<1>1. PICK f : f = [n \in W |-> Canon[n]]  OBVIOUS
<1>2. f \in [W -> Spelled(W)]  BY <1>1 DEF Spelled
<1>3. \A c \in Spelled(W) : \E n \in W : f[n] = c  BY <1>1 DEF Spelled
<1>4. f \in Surjection(W, Spelled(W))  BY <1>2, <1>3, Fun_IsSurj
<1> QED  BY <1>4, FS_Surjection

LEMMA ConceptsOf ==
    ASSUME NEW W, NEW list, ListedIn(list) \subseteq W
    PROVE  Concepts(list) \subseteq Spelled(W)
<1> SUFFICES ASSUME NEW i \in DOMAIN list PROVE Canon[list[i].name] \in Spelled(W)
    BY DEF Concepts
<1>1. list[i].name \in W  BY DEF ListedIn
<1> QED  BY <1>1 DEF Spelled

(* A full list and a written concept that is not on it.                     *)
LEMMA FullIsCrowded ==
    ASSUME NEW W, IsFiniteSet(W), NEW list \in Seq(Entry), Once(list),
           ListedIn(list) \subseteq W, Len(list) = ListCap,
           NEW c \in Spelled(W), c \notin Concepts(list)
    PROVE  Crowding(W)
<1> DEFINE T == Concepts(list)
           U == Spelled(W)
<1>1. IsFiniteSet(T) /\ Cardinality(T) = ListCap /\ ListCap \in Nat
    BY ConceptsCount, ListCapOK
<1>2. IsFiniteSet(U) /\ T \subseteq U  BY SpelledFinite, ConceptsOf
<1> HIDE DEF T, U
<1>3. IsFiniteSet(T \cup {c}) /\ Cardinality(T \cup {c}) = ListCap + 1
    BY <1>1, FS_AddElement DEF T
<1>4. T \cup {c} \in SUBSET U  BY <1>2 DEF U
<1>5. Cardinality(T \cup {c}) <= Cardinality(U)  BY <1>2, <1>4, FS_Subset
<1>6. Cardinality(U) \in Nat  BY <1>2, FS_CardinalityType
<1>7. Cardinality(U) > ListCap  BY <1>1, <1>3, <1>5, <1>6
<1> QED  BY <1>7 DEF Crowding, U

(* More names crowd, and lose nothing.                                      *)
LEMMA PlacedGrows ==
    ASSUME NEW V, NEW W, IsFiniteSet(W), V \subseteq W, NEW p, Tidy(p, V)
    PROVE  /\ Tidy(p, W)
           /\ \A c, right : Placed(p, V, c, right) => Placed(p, W, c, right)
<1>1. Tidy(p, W)  BY DEF Tidy
<1>2. Crowding(V) => Crowding(W)
  <2>1. PICK S, T : S = Spelled(V) /\ T = Spelled(W)  OBVIOUS
  <2>2. IsFiniteSet(T) /\ S \in SUBSET T  BY <2>1, SpelledFinite DEF Spelled
  <2>3. IsFiniteSet(S) /\ Cardinality(S) <= Cardinality(T)  BY <2>2, FS_Subset
  <2>4. Cardinality(S) \in Nat /\ Cardinality(T) \in Nat /\ ListCap \in Nat
      BY <2>2, <2>3, FS_CardinalityType, ListCapOK
  <2> QED  BY <2>1, <2>3, <2>4 DEF Crowding
<1> QED  BY <1>1, <1>2 DEF Placed

LEMMA UpsertNames ==
    ASSUME NEW list \in Seq(Entry), NEW n, NEW ev, NEW t, t = Upsert(list, n, ev)
    PROVE  ListedIn(t) \subseteq ListedIn(list) \cup {n}
<1>1. Len(list) \in Nat /\ DOMAIN list = 1 .. Len(list)
      /\ \A i \in DOMAIN list : list[i] \in Entry
    OBVIOUS
<1> SUFFICES ASSUME NEW i \in DOMAIN t PROVE t[i].name \in ListedIn(list) \cup {n}
    BY DEF ListedIn
<1>2. CASE ~Has(list, n)
  <2>1. PICK e : e = [name |-> n, ev |-> ev]  OBVIOUS
  <2>2. t = Append(list, e) /\ e.name = n  BY <1>2, <2>1 DEF Upsert
  <2>3. i \in 1 .. Len(list) + 1 /\ t[i] = IF i <= Len(list) THEN list[i] ELSE e
      BY <1>1, <2>2
  <2> QED  BY <1>1, <2>2, <2>3 DEF ListedIn
<1>3. CASE Has(list, n)
  <2>1. t = [j \in DOMAIN list |->
               IF Same(n, list[j].name) /\ ev # "none" THEN [list[j] EXCEPT !.ev = ev]
                                                       ELSE list[j]]
      BY <1>3 DEF Upsert
  <2>2. i \in DOMAIN list  BY <2>1
  <2>3. list[i] \in Entry  BY <1>1, <2>2
  <2>4. t[i].name = list[i].name  BY <2>1, <2>2, <2>3 DEF Entry
  <2> QED  BY <2>2, <2>4 DEF ListedIn
<1> QED  BY <1>2, <1>3

LEMMA FromNames ==
    ASSUME NEW list, NEW t, From(t, list) PROVE ListedIn(t) \subseteq ListedIn(list)
BY DEF From, ListedIn

-----------------------------------------------------------------------------
(* What an answer on n, a declaration or a deletion does to the lists.      *)
Promoted(p, q, W, n) ==
    /\ Tidy(q, W)
    /\ Placed(q, W, Canon[n], TRUE)
    /\ \A c \in Spelled(W), right \in BOOLEAN :
         c # Canon[n] /\ Placed(p, W, c, right) => Placed(q, W, c, right)
Demoted(p, q, W, n) ==
    /\ Tidy(q, W)
    /\ Placed(q, W, Canon[n], FALSE)
    /\ \A c \in Spelled(W), right \in BOOLEAN : Placed(p, W, c, right) => Placed(q, W, c, right)
Lifted(p, q, W, n) ==
    /\ Tidy(q, W)
    /\ \A c \in Spelled(W), right \in BOOLEAN :
         c # Canon[n] /\ Placed(p, W, c, right) => Placed(q, W, c, right)

(* A right answer, or a mastery declared: the concept joins the mastered.   *)
LEMMA Promotes ==
    ASSUME NEW W, IsFiniteSet(W), NEW p, Tidy(p, W), NEW n \in Names, n \in W,
           NEW ev \in Evidences, NEW q, q = Capped(AddExclusive(p, "mastered", n, ev))
    PROVE  Promoted(p, q, W, n)
<1>0. Canon[n] \in Spelled(W)  BY DEF Spelled
<1>1. PICK m, g, f, m2, g2 : /\ m = Upsert(p.mastered, n, ev) /\ g = Without(p.gaps, n)
                             /\ f = IF Same(p.focus, n) THEN None ELSE p.focus
                             /\ m2 = Evict(m, None) /\ g2 = Evict(g, f)
    OBVIOUS
<1>2. /\ p.mastered \in Seq(Entry) /\ p.gaps \in Seq(Entry) /\ p.focus \in Names \cup {None}
      /\ Once(p.mastered) /\ Once(p.gaps)
      /\ Len(p.mastered) \in Nat /\ Len(p.gaps) \in Nat /\ ListCap \in Nat
      /\ Len(p.mastered) <= ListCap /\ Len(p.gaps) <= ListCap
      /\ ListedIn(p.mastered) \subseteq W /\ ListedIn(p.gaps) \subseteq W
    BY TidyIs
<1>3. /\ m \in Seq(Entry) /\ Len(m) <= Len(p.mastered) + 1 /\ Once(m)
      /\ Concepts(m) = Concepts(p.mastered) \cup {Canon[n]}
      /\ ListedIn(m) \subseteq W
  <2>1. PICK list : list = p.mastered  OBVIOUS
  <2>2. list \in Seq(Entry) /\ Once(list) /\ m = Upsert(list, n, ev)  BY <1>1, <1>2, <2>1
  <2>3. /\ m \in Seq(Entry) /\ Len(m) <= Len(list) + 1 /\ Once(m)
        /\ Concepts(m) = Concepts(list) \cup {Canon[n]}
      BY <2>2, UpsertKeeps
  <2>4. ListedIn(m) \subseteq ListedIn(list) \cup {n}  BY <2>2, UpsertNames
  <2> QED  BY <1>2, <2>1, <2>3, <2>4
<1>4. /\ g \in Seq(Entry) /\ Len(g) <= Len(p.gaps) /\ Once(g)
      /\ Concepts(g) = Concepts(p.gaps) \ {Canon[n]}
      /\ ListedIn(g) \subseteq W
  <2>1. /\ g \in Seq(Entry) /\ Len(g) <= Len(p.gaps) /\ Once(g) /\ From(g, p.gaps)
        /\ Concepts(g) = Concepts(p.gaps) \ {Canon[n]}
      BY <1>1, <1>2, WithoutKeeps
  <2> QED  BY <1>2, <2>1, FromNames
<1>5. Len(m) <= ListCap + 1 /\ Len(g) <= ListCap /\ Len(g) <= ListCap + 1
  <2>1. Len(m) \in Nat /\ Len(g) \in Nat  BY <1>3, <1>4
  <2> QED  BY <1>2, <1>3, <1>4, <2>1
<1>6. f \in Names \cup {None} /\ None \in Names \cup {None}  BY <1>1, <1>2
<1>7. g2 = g  BY <1>1, <1>5 DEF Evict
<1>8. /\ m2 \in Seq(Entry) /\ Len(m2) <= ListCap /\ Once(m2) /\ From(m2, m)
      /\ m2 = m \/ Len(m2) = ListCap
    BY <1>1, <1>3, <1>5, <1>6, EvictKeeps, EvictLeaves
<1>9. ListedIn(m2) \subseteq W  BY <1>3, <1>8, FromNames
<1>10. q \in Lists /\ q.mastered = m2 /\ q.gaps = g
  <2>1. q = [p EXCEPT !.mastered = m2, !.gaps = g2, !.focus = f]
      BY <1>1 DEF AddExclusive, Unfocus, Capped, Tidy, Lists
  <2> QED  BY <1>4, <1>6, <1>7, <1>8, <2>1 DEF Tidy, Lists
<1>11. Tidy(q, W)  BY <1>4, <1>5, <1>8, <1>9, <1>10 DEF Tidy
<1>12. ASSUME NEW c \in Spelled(W), c \in Concepts(m) PROVE c \in Concepts(m2) \/ Crowding(W)
    BY <1>8, <1>9, <1>12, FullIsCrowded
<1>13. Placed(q, W, Canon[n], TRUE)  BY <1>0, <1>3, <1>10, <1>12 DEF Placed
<1>14. ASSUME NEW c \in Spelled(W), NEW right \in BOOLEAN, c # Canon[n], Placed(p, W, c, right)
       PROVE  Placed(q, W, c, right)
  <2>1. CASE c \in Concepts(p.gaps)  BY <1>4, <1>10, <1>14, <2>1 DEF Placed
  <2>2. CASE right /\ c \in Concepts(p.mastered)
    <3>1. c \in Concepts(m)  BY <1>3, <2>2
    <3> QED  BY <1>10, <1>12, <2>2, <3>1 DEF Placed
  <2> QED  BY <1>14, <2>1, <2>2 DEF Placed
<1> QED  BY <1>11, <1>13, <1>14 DEF Promoted

(* A wrong answer or a gap declared: the concept joins the gaps.            *)
LEMMA Demotes ==
    ASSUME NEW W, IsFiniteSet(W), NEW p, Tidy(p, W), NEW n \in Names, n \in W,
           NEW ev \in Evidences, NEW q, q = Capped(AddExclusive(p, "gaps", n, ev))
    PROVE  Demoted(p, q, W, n)
<1>0. Canon[n] \in Spelled(W)  BY DEF Spelled
<1>1. PICK m, g, m2, g2 : /\ g = Upsert(p.gaps, n, ev) /\ m = Without(p.mastered, n)
                          /\ m2 = Evict(m, None) /\ g2 = Evict(g, p.focus)
    OBVIOUS
<1>2. /\ p.mastered \in Seq(Entry) /\ p.gaps \in Seq(Entry) /\ p.focus \in Names \cup {None}
      /\ Once(p.mastered) /\ Once(p.gaps)
      /\ Len(p.mastered) \in Nat /\ Len(p.gaps) \in Nat /\ ListCap \in Nat
      /\ Len(p.mastered) <= ListCap /\ Len(p.gaps) <= ListCap
      /\ ListedIn(p.mastered) \subseteq W /\ ListedIn(p.gaps) \subseteq W
    BY TidyIs
<1>3. /\ g \in Seq(Entry) /\ Len(g) <= Len(p.gaps) + 1 /\ Once(g)
      /\ Concepts(g) = Concepts(p.gaps) \cup {Canon[n]}
      /\ ListedIn(g) \subseteq W
  <2>1. PICK list : list = p.gaps  OBVIOUS
  <2>2. list \in Seq(Entry) /\ Once(list) /\ g = Upsert(list, n, ev)  BY <1>1, <1>2, <2>1
  <2>3. /\ g \in Seq(Entry) /\ Len(g) <= Len(list) + 1 /\ Once(g)
        /\ Concepts(g) = Concepts(list) \cup {Canon[n]}
      BY <2>2, UpsertKeeps
  <2>4. ListedIn(g) \subseteq ListedIn(list) \cup {n}  BY <2>2, UpsertNames
  <2> QED  BY <1>2, <2>1, <2>3, <2>4
<1>4. /\ m \in Seq(Entry) /\ Len(m) <= Len(p.mastered) /\ Once(m)
      /\ Concepts(m) = Concepts(p.mastered) \ {Canon[n]}
      /\ ListedIn(m) \subseteq W
  <2>1. /\ m \in Seq(Entry) /\ Len(m) <= Len(p.mastered) /\ Once(m) /\ From(m, p.mastered)
        /\ Concepts(m) = Concepts(p.mastered) \ {Canon[n]}
      BY <1>1, <1>2, WithoutKeeps
  <2> QED  BY <1>2, <2>1, FromNames
<1>5. Len(g) <= ListCap + 1 /\ Len(m) <= ListCap
  <2>1. Len(m) \in Nat /\ Len(g) \in Nat  BY <1>3, <1>4
  <2> QED  BY <1>2, <1>3, <1>4, <2>1
<1>6. m2 = m  BY <1>1, <1>5 DEF Evict
<1>7. /\ g2 \in Seq(Entry) /\ Len(g2) <= ListCap /\ Once(g2) /\ From(g2, g)
      /\ g2 = g \/ Len(g2) = ListCap
    BY <1>1, <1>2, <1>3, <1>5, EvictKeeps, EvictLeaves
<1>8. ListedIn(g2) \subseteq W  BY <1>3, <1>7, FromNames
<1>9. q \in Lists /\ q.mastered = m /\ q.gaps = g2
  <2>1. q = [p EXCEPT !.gaps = g2, !.mastered = m2]
      BY <1>1 DEF AddExclusive, Capped, Tidy, Lists
  <2> QED  BY <1>2, <1>4, <1>6, <1>7, <2>1 DEF Tidy, Lists
<1>10. Tidy(q, W)  BY <1>4, <1>5, <1>7, <1>8, <1>9 DEF Tidy
<1>11. ASSUME NEW c \in Spelled(W), c \in Concepts(g) PROVE c \in Concepts(q.gaps) \/ Crowding(W)
    BY <1>7, <1>8, <1>9, <1>11, FullIsCrowded
<1>12. Placed(q, W, Canon[n], FALSE)  BY <1>0, <1>3, <1>11 DEF Placed
<1>13. ASSUME NEW c \in Spelled(W), NEW right \in BOOLEAN, Placed(p, W, c, right)
       PROVE  Placed(q, W, c, right)
  <2>1. CASE c \in Concepts(p.gaps) \/ c = Canon[n]
      BY <1>3, <1>11, <2>1 DEF Placed
  <2>2. CASE right /\ c \in Concepts(p.mastered) /\ c # Canon[n]
      BY <1>4, <1>9, <2>2 DEF Placed
  <2> QED  BY <1>13, <2>1, <2>2 DEF Placed
<1> QED  BY <1>10, <1>12, <1>13 DEF Demoted

(* A deletion: nothing else goes, nothing is pushed off.                    *)
LEMMA Deletes ==
    ASSUME NEW W, NEW p, Tidy(p, W), NEW n \in Names, NEW list \in {"mastered", "gaps"},
           NEW q, q = Capped(WithoutItem(p, list, n))
    PROVE  Lifted(p, q, W, n)
<1>1. PICK m, g, f : /\ m = IF list = "mastered" THEN Without(p.mastered, n) ELSE p.mastered
                     /\ g = IF list = "mastered" THEN p.gaps ELSE Without(p.gaps, n)
                     /\ f = IF list = "gaps" /\ Same(p.focus, n) THEN None ELSE p.focus
    OBVIOUS
<1>2. /\ p.mastered \in Seq(Entry) /\ p.gaps \in Seq(Entry) /\ p.focus \in Names \cup {None}
      /\ Once(p.mastered) /\ Once(p.gaps)
      /\ Len(p.mastered) \in Nat /\ Len(p.gaps) \in Nat /\ ListCap \in Nat
      /\ Len(p.mastered) <= ListCap /\ Len(p.gaps) <= ListCap
      /\ ListedIn(p.mastered) \subseteq W /\ ListedIn(p.gaps) \subseteq W
    BY TidyIs
<1>3. ASSUME NEW l \in Seq(Entry), Once(l), ListedIn(l) \subseteq W, Len(l) <= ListCap,
             NEW t, t = Without(l, n)
      PROVE  /\ t \in Seq(Entry) /\ Once(t) /\ ListedIn(t) \subseteq W /\ Len(t) <= ListCap
             /\ Concepts(t) = Concepts(l) \ {Canon[n]}
  <2>1. /\ t \in Seq(Entry) /\ Len(t) <= Len(l) /\ From(t, l) /\ Once(t)
        /\ Concepts(t) = Concepts(l) \ {Canon[n]}
      BY <1>3, WithoutKeeps
  <2>2. Len(t) \in Nat /\ Len(l) \in Nat  BY <2>1
  <2> QED  BY <1>2, <1>3, <2>1, <2>2, FromNames
<1>4. /\ m \in Seq(Entry) /\ Once(m) /\ ListedIn(m) \subseteq W /\ Len(m) <= ListCap
      /\ Concepts(p.mastered) \ {Canon[n]} \subseteq Concepts(m)
    BY <1>1, <1>2, <1>3
<1>5. /\ g \in Seq(Entry) /\ Once(g) /\ ListedIn(g) \subseteq W /\ Len(g) <= ListCap
      /\ Concepts(p.gaps) \ {Canon[n]} \subseteq Concepts(g)
    BY <1>1, <1>2, <1>3
<1>6. f \in Names \cup {None}  BY <1>1, <1>2
<1>7. WithoutItem(p, list, n) = [p EXCEPT !.mastered = m, !.gaps = g, !.focus = f]
  <2>1. CASE list = "mastered"  BY <1>1, <2>1 DEF WithoutItem, Tidy, Lists
  <2>2. CASE list = "gaps"  BY <1>1, <2>2 DEF WithoutItem, Unfocus, Tidy, Lists
  <2> QED  BY <2>1, <2>2
<1>8. Evict(m, None) = m /\ Evict(g, f) = g  BY <1>4, <1>5 DEF Evict
<1>9. q \in Lists /\ q.mastered = m /\ q.gaps = g
  <2>1. q = [p EXCEPT !.mastered = m, !.gaps = g, !.focus = f]
      BY <1>7, <1>8 DEF Capped, Tidy, Lists
  <2> QED  BY <1>4, <1>5, <1>6, <2>1 DEF Tidy, Lists
<1>10. Tidy(q, W)  BY <1>4, <1>5, <1>9 DEF Tidy
<1> QED  BY <1>4, <1>5, <1>9, <1>10 DEF Lifted, Placed

-----------------------------------------------------------------------------
(* The inductive invariant: every concept is still where its latest test    *)
(* has put it, unless there are more concepts than a list can hold, or the  *)
(* learner has said otherwise in that session.                              *)

Latest(i) == /\ ~log[i].probe
             /\ \A j \in DOMAIN log : j > i /\ ~log[j].probe =>
                    Canon[log[j].name] # Canon[log[i].name]
Stands(i) == \/ <<log[i].sid, Canon[log[i].name]>> \in overruled
             \/ Placed(prof[log[i].sid], written, Canon[log[i].name], log[i].right)

Inv == /\ TypeOK
       /\ IsFiniteSet(written)
       /\ \A s \in Sids : Tidy(prof[s], written)
       /\ \A i \in DOMAIN log : /\ log[i].sid \in Sids /\ log[i].name \in written
                                /\ Latest(i) => Stands(i)

(* What the state consists of.                                              *)
LEMMA StateIs ==
    ASSUME Inv
    PROVE  /\ prof \in Seq(Lists) /\ log \in Seq(Answer)
           /\ Len(prof) \in Nat /\ Sids = 1 .. Len(prof) /\ Sids \subseteq 1 .. MaxSessions
           /\ Len(log) \in Nat /\ DOMAIN log = 1 .. Len(log)
           /\ \A i \in DOMAIN log : /\ log[i] \in Answer /\ log[i].name \in Names
                                    /\ log[i].sid \in Sids /\ log[i].name \in written
                                    /\ Canon[log[i].name] \in Spelled(written)
                                    /\ log[i].right \in BOOLEAN /\ log[i].probe \in BOOLEAN
                                    /\ log[i].day \in Nat
           /\ today \in Nat /\ today <= MaxDay /\ MaxDay \in Nat
           /\ IsFiniteSet(written) /\ written \subseteq Names
           /\ overruled \subseteq (1 .. MaxSessions) \X Names
<1>1. /\ prof \in Seq(Lists) /\ log \in Seq(Answer) /\ today \in 0 .. MaxDay
      /\ Len(prof) <= MaxSessions /\ written \subseteq Names /\ IsFiniteSet(written)
      /\ overruled \subseteq (1 .. MaxSessions) \X Names
      /\ \A i \in DOMAIN log : log[i].sid \in Sids /\ log[i].name \in written
    BY DEF Inv, TypeOK
<1>2. MaxDay \in Nat /\ MaxSessions \in Nat  BY ViewsOK
<1>3. /\ Len(prof) \in Nat /\ Sids = 1 .. Len(prof) /\ Len(log) \in Nat
      /\ DOMAIN log = 1 .. Len(log) /\ \A i \in DOMAIN log : log[i] \in Answer
    BY <1>1 DEF Sids
<1>4. \A a \in Answer : /\ a.name \in Names /\ a.right \in BOOLEAN /\ a.probe \in BOOLEAN
                        /\ a.day \in Nat
    BY <1>2 DEF Answer
<1>5. \A i \in DOMAIN log : Canon[log[i].name] \in Spelled(written)  BY <1>1 DEF Spelled
<1>6. Sids \subseteq 1 .. MaxSessions  BY <1>1, <1>2, <1>3
<1> QED  BY <1>1, <1>2, <1>3, <1>4, <1>5, <1>6

(* One session's lists change.                                              *)
LEMMA OneChanges ==
    ASSUME Inv, NEW s \in Sids, NEW q \in Lists, prof' = [prof EXCEPT ![s] = q]
    PROVE  /\ prof' \in Seq(Lists) /\ Len(prof') = Len(prof) /\ Sids' = Sids
           /\ prof'[s] = q /\ \A z \in Sids \ {s} : prof'[z] = prof[z]
<1>1. prof \in Seq(Lists) /\ Sids = 1 .. Len(prof) /\ Len(prof) \in Nat  BY StateIs
<1>2. /\ prof' \in Seq(Lists) /\ Len(prof') = Len(prof)
      /\ \A z \in 1 .. Len(prof) : prof'[z] = IF z = s THEN q ELSE prof[z]
    BY <1>1, ExceptSeq
<1>3. Sids' = 1 .. Len(prof')  BY <1>2 DEF Sids
<1> QED  BY <1>1, <1>2, <1>3

(* The names of a session stay tidy when others are written.                *)
LEMMA MoreWritten ==
    ASSUME Inv, NEW n \in Names, NEW W, W = written \cup {n} \/ W = written
    PROVE  /\ IsFiniteSet(W) /\ written \subseteq W /\ W \subseteq Names
           /\ \A z \in Sids :
                /\ Tidy(prof[z], W)
                /\ \A c, w : Placed(prof[z], written, c, w) => Placed(prof[z], W, c, w)
<1>1. IsFiniteSet(W) /\ written \subseteq W /\ W \subseteq Names
  <2>1. IsFiniteSet(written) /\ written \subseteq Names  BY StateIs
  <2>2. IsFiniteSet(written \cup {n})  BY <2>1, FS_AddElement
  <2> QED  BY <2>1, <2>2
<1>2. \A z \in Sids : Tidy(prof[z], written)  BY DEF Inv
<1> QED  BY <1>1, <1>2, PlacedGrows

(* The learner or the tutor changes one session's lists: whatever was tested *)
(* there keeps its place, or is overruled.                                  *)
Retold(s, n, q, W) ==
    /\ W = written' /\ (W = written \cup {n} \/ W = written) /\ Tidy(q, W)
    /\ prof' = [prof EXCEPT ![s] = q] /\ log' = log /\ today' = today /\ Counted
    /\ overruled' \subseteq overruled \cup {<<s, Canon[n]>>}
    /\ overruled \ {<<s, Canon[n]>>} \subseteq overruled'
    /\ \A c \in Spelled(W), w \in BOOLEAN :
         c # Canon[n] /\ Placed(prof[s], W, c, w) => Placed(q, W, c, w)
    /\ \A i \in DOMAIN log, w \in BOOLEAN :
         <<log[i].sid, Canon[log[i].name]>> = <<s, Canon[n]>> =>
             <<s, Canon[n]>> \in overruled' \/ Placed(q, W, Canon[n], w)

LEMMA RetoldKeeps ==
    ASSUME Inv, NEW s \in Sids, NEW n \in Names, NEW q, NEW W, Retold(s, n, q, W)
    PROVE  Inv'
<1> USE DEF Retold
<1>1. /\ IsFiniteSet(W) /\ written \subseteq W /\ W \subseteq Names
      /\ \A z \in Sids :
           /\ Tidy(prof[z], W)
           /\ \A c, w : Placed(prof[z], written, c, w) => Placed(prof[z], W, c, w)
    BY MoreWritten
<1>2. /\ prof' \in Seq(Lists) /\ Len(prof') = Len(prof) /\ Sids' = Sids
      /\ prof'[s] = q /\ \A z \in Sids \ {s} : prof'[z] = prof[z]
  <2>1. q \in Lists  BY DEF Tidy
  <2> QED  BY <2>1, OneChanges
<1>3. \A z \in Sids' : Tidy(prof'[z], W)  BY <1>1, <1>2
<1>4. TypeOK'
  <2>1. \A z \in Sids' : Len(prof'[z].mastered) <= ListCap /\ Len(prof'[z].gaps) <= ListCap
      BY <1>3 DEF Tidy
  <2>2. <<s, Canon[n]>> \in (1 .. MaxSessions) \X Names  BY StateIs, NamesOK
  <2>3. overruled' \subseteq (1 .. MaxSessions) \X Names  BY <2>2, StateIs
  <2>4. edits' \in 0 .. MaxChanges
    <3>1. edits \in Nat /\ MaxChanges \in Nat /\ Len(log) \in Nat
        BY ViewsOK, StateIs DEF Inv, TypeOK
    <3>2. Len(log) + edits < MaxChanges /\ edits' = edits + 1  BY DEF Counted
    <3> QED  BY <3>1, <3>2
  <2>5. prof \in Seq(Lists) /\ Len(prof) <= MaxSessions /\ log \in Seq(Answer)
        /\ Len(log) <= MaxAnswers /\ today \in 0 .. MaxDay
      BY DEF Inv, TypeOK
  <2> QED  BY <1>1, <1>2, <2>1, <2>3, <2>4, <2>5 DEF TypeOK
<1>5. ASSUME NEW i \in DOMAIN log
      PROVE  log[i].sid \in Sids' /\ log[i].name \in W /\ (Latest(i)' => Stands(i)')
  <2>1. /\ log[i].sid \in Sids /\ log[i].name \in written /\ (Latest(i) => Stands(i))
        /\ log[i].right \in BOOLEAN
      BY StateIs DEF Inv
  <2>2. Latest(i)' = Latest(i)  BY DEF Latest
  <2>3. PICK z, c, w : z = log[i].sid /\ c = Canon[log[i].name] /\ w = log[i].right
      OBVIOUS
  <2>4. c \in Spelled(W)  BY <1>1, <2>1, <2>3 DEF Spelled
  <2>5. Stands(i) => <<z, c>> \in overruled \/ Placed(prof[z], W, c, w)
      BY <1>1, <2>1, <2>3 DEF Stands
  <2>6. Stands(i)' <=> <<z, c>> \in overruled' \/ Placed(prof'[z], W, c, w)
      BY <2>3 DEF Stands
  <2>7. Stands(i) => Stands(i)'
    <3>1. CASE <<z, c>> = <<s, Canon[n]>>
      <4>1. <<z, c>> \in overruled' \/ Placed(q, W, c, w)  BY <2>1, <2>3, <3>1
      <4> QED  BY <1>2, <2>6, <3>1, <4>1
    <3>2. CASE <<z, c>> # <<s, Canon[n]>>
      <4>1. <<z, c>> \in overruled => <<z, c>> \in overruled'  BY <3>2
      <4>2. CASE z = s
        <5>1. c # Canon[n]  BY <3>2, <4>2
        <5>2. Placed(prof[z], W, c, w) => Placed(q, W, c, w)
            BY <2>1, <2>3, <2>4, <4>2, <5>1
        <5> QED  BY <1>2, <2>5, <2>6, <4>1, <4>2, <5>2
      <4>3. CASE z # s  BY <1>2, <2>1, <2>3, <2>5, <2>6, <4>1, <4>3
      <4> QED  BY <4>2, <4>3
    <3> QED  BY <3>1, <3>2
  <2> QED  BY <1>1, <1>2, <2>1, <2>2, <2>7
<1> QED  BY <1>1, <1>3, <1>4, <1>5 DEF Inv

(* What Overrule adds, and that it misses nothing that was tested.          *)
LEMMA OverruleIs ==
    ASSUME NEW s, NEW n, Overrule(s, n)
    PROVE  /\ overruled \subseteq overruled'
           /\ overruled' \subseteq overruled \cup {<<s, Canon[n]>>}
           /\ \A i \in DOMAIN log : <<log[i].sid, Canon[log[i].name]>> = <<s, Canon[n]>> =>
                  <<s, Canon[n]>> \in overruled'
BY DEF Overrule

LEMMA DeclareKeeps ==
    ASSUME Inv, NEW s \in Sids, NEW n \in Names, NEW list \in {"mastered", "gaps"},
           Declare(s, list, n)
    PROVE  Inv'
<1>1. PICK W, p, q, ev : /\ W = written' /\ p = prof[s] /\ ev = "none"
                         /\ q = Capped(AddExclusive(p, list, n, ev))
    OBVIOUS
<1>2. /\ log' = log /\ today' = today /\ prof' = [prof EXCEPT ![s] = q]
      /\ W = written \cup {n} /\ n \in W /\ Counted
    BY <1>1, StateIs DEF Declare
<1>3. IsFiniteSet(W) /\ Tidy(p, W) /\ ev \in Evidences
    BY <1>1, <1>2, MoreWritten DEF Evidences
<1>4. CASE list = "mastered"
  <2>1. Promoted(p, q, W, n)  BY <1>1, <1>2, <1>3, <1>4, Promotes
  <2>2. Overrule(s, n)  BY <1>4 DEF Declare
  <2>3. /\ Tidy(q, W)
        /\ \A c \in Spelled(W), w \in BOOLEAN :
             c # Canon[n] /\ Placed(prof[s], W, c, w) => Placed(q, W, c, w)
      BY <1>1, <2>1 DEF Promoted
  <2>4. /\ overruled \subseteq overruled'
        /\ overruled' \subseteq overruled \cup {<<s, Canon[n]>>}
        /\ \A i \in DOMAIN log : <<log[i].sid, Canon[log[i].name]>> = <<s, Canon[n]>> =>
               <<s, Canon[n]>> \in overruled'
      BY <2>2, OverruleIs
  <2>5. Retold(s, n, q, W)  BY <1>1, <1>2, <2>3, <2>4 DEF Retold
  <2> QED  BY <2>5, RetoldKeeps
<1>5. CASE list = "gaps"
  <2>1. Demoted(p, q, W, n)  BY <1>1, <1>2, <1>3, <1>5, Demotes
  <2>2. overruled' = overruled \ {<<s, Canon[n]>>}  BY <1>5 DEF Declare
  <2>3. /\ Tidy(q, W)
        /\ \A c \in Spelled(W), w \in BOOLEAN :
             c # Canon[n] /\ Placed(prof[s], W, c, w) => Placed(q, W, c, w)
        /\ \A w \in BOOLEAN : Placed(q, W, Canon[n], w)
      BY <1>1, <2>1 DEF Demoted, Placed
  <2>4. Retold(s, n, q, W)  BY <1>1, <1>2, <2>2, <2>3 DEF Retold
  <2> QED  BY <2>4, RetoldKeeps
<1> QED  BY <1>4, <1>5

LEMMA DeleteItemKeeps ==
    ASSUME Inv, NEW s \in Sids, NEW n \in Names, NEW list \in {"mastered", "gaps"},
           DeleteItem(s, list, n)
    PROVE  Inv'
<1>1. PICK W, p, q : /\ W = written' /\ p = prof[s]
                     /\ q = Capped(WithoutItem(p, list, n))
    OBVIOUS
<1>2. /\ log' = log /\ today' = today /\ prof' = [prof EXCEPT ![s] = q]
      /\ W = written /\ Counted /\ Overrule(s, n)
    BY <1>1, StateIs DEF DeleteItem
<1>3. Tidy(p, W)  BY <1>1, <1>2, MoreWritten
<1>4. Lifted(p, q, W, n)  BY <1>1, <1>3, Deletes
<1>5. /\ Tidy(q, W)
      /\ \A c \in Spelled(W), w \in BOOLEAN :
           c # Canon[n] /\ Placed(prof[s], W, c, w) => Placed(q, W, c, w)
    BY <1>1, <1>4 DEF Lifted
<1>6. /\ overruled \subseteq overruled'
      /\ overruled' \subseteq overruled \cup {<<s, Canon[n]>>}
      /\ \A i \in DOMAIN log : <<log[i].sid, Canon[log[i].name]>> = <<s, Canon[n]>> =>
             <<s, Canon[n]>> \in overruled'
    BY <1>2, OverruleIs
<1>7. Retold(s, n, q, W)  BY <1>1, <1>2, <1>5, <1>6 DEF Retold
<1> QED  BY <1>7, RetoldKeeps

(* A session is added, empty or with the lists of another one.              *)
LEMMA StartKeeps ==
    ASSUME Inv, Start PROVE Inv'
<1>1. PICK x : /\ prof' = Append(prof, x) /\ Len(prof) < MaxSessions /\ log' = log
               /\ today' = today /\ written' = written /\ overruled' = overruled
               /\ edits' = edits /\ Tidy(x, written)
  <2>1. PICK p \in Sids \cup {None} :
          prof' = Append(prof, IF p = None
                               THEN [mastered |-> <<>>, gaps |-> <<>>, focus |-> None]
                               ELSE prof[p])
      BY DEF Start
  <2>2. Tidy([mastered |-> <<>>, gaps |-> <<>>, focus |-> None], written)
    <3>1. <<>> \in Seq(Entry) /\ Once(<<>>) /\ ListedIn(<<>>) = {} /\ Len(<<>>) <= ListCap
        BY ListCapOK DEF Once, ListedIn
    <3> QED  BY <3>1 DEF Tidy, Lists
  <2>3. p # None => Tidy(prof[p], written)  BY <2>1 DEF Inv
  <2> QED  BY <2>1, <2>2, <2>3 DEF Start
<1>2. /\ prof' \in Seq(Lists) /\ Len(prof') = Len(prof) + 1 /\ Len(prof) \in Nat
      /\ Sids = 1 .. Len(prof) /\ Sids' = 1 .. Len(prof) + 1
      /\ \A z \in Sids : prof'[z] = prof[z]
      /\ prof'[Len(prof) + 1] = x
  <2>1. x \in Lists  BY <1>1 DEF Tidy
  <2>2. prof \in Seq(Lists) /\ Sids = 1 .. Len(prof) /\ Len(prof) \in Nat  BY StateIs
  <2>3. /\ prof' \in Seq(Lists) /\ Len(prof') = Len(prof) + 1
        /\ \A z \in 1 .. Len(prof) : prof'[z] = prof[z]
        /\ prof'[Len(prof) + 1] = x
      BY <1>1, <2>1, <2>2, AppendProperties
  <2>4. Sids' = 1 .. Len(prof')  BY <2>3 DEF Sids
  <2> QED  BY <2>2, <2>3, <2>4
<1>3. \A z \in Sids' : z \in Sids \/ z = Len(prof) + 1  BY <1>2
<1>4. \A z \in Sids' : Tidy(prof'[z], written)  BY <1>1, <1>2, <1>3 DEF Inv
<1>5. TypeOK'
  <2>1. \A z \in Sids' : Len(prof'[z].mastered) <= ListCap /\ Len(prof'[z].gaps) <= ListCap
      BY <1>4 DEF Tidy
  <2>2. Len(prof') <= MaxSessions  BY <1>1, <1>2, ViewsOK
  <2> QED  BY <1>1, <1>2, <2>1, <2>2 DEF Inv, TypeOK
<1>6. ASSUME NEW i \in DOMAIN log PROVE log[i].sid \in Sids' /\ (Latest(i)' => Stands(i)')
  <2>1. log[i].sid \in Sids /\ (Latest(i) => Stands(i))  BY DEF Inv
  <2>2. Latest(i)' = Latest(i)  BY <1>1 DEF Latest
  <2>3. log[i].sid \in Sids'  BY <1>2, <2>1
  <2>4. Stands(i) => Stands(i)'  BY <1>1, <1>2, <2>1 DEF Stands
  <2> QED  BY <2>1, <2>2, <2>3, <2>4
<1>7. IsFiniteSet(written) /\ \A i \in DOMAIN log : log[i].name \in written  BY DEF Inv
<1> QED  BY <1>1, <1>4, <1>5, <1>6, <1>7 DEF Inv

LEMMA NextDayKeeps ==
    ASSUME Inv, NextDay \/ UNCHANGED vars PROVE Inv'
<1>1. /\ prof' = prof /\ log' = log /\ written' = written /\ overruled' = overruled
      /\ edits' = edits
    BY DEF NextDay, vars
<1>2. today' \in 0 .. MaxDay
  <2>1. today \in 0 .. MaxDay /\ MaxDay \in Nat  BY ViewsOK DEF Inv, TypeOK
  <2> QED  BY <2>1 DEF NextDay, vars
<1>3. TypeOK'  BY <1>1, <1>2 DEF Inv, TypeOK, Sids
<1>4. Sids' = Sids  BY <1>1 DEF Sids
<1>5. \A i \in DOMAIN log : Latest(i)' = Latest(i) /\ Stands(i)' = Stands(i)
    BY <1>1 DEF Latest, Stands
<1> QED  BY <1>1, <1>3, <1>4, <1>5 DEF Inv

(* An answer is logged.                                                     *)
LEMMA LogGrows ==
    ASSUME Inv, NEW a \in Answer, log' = Append(log, a)
    PROVE  /\ log' \in Seq(Answer) /\ Len(log') = Len(log) + 1 /\ Len(log) \in Nat
           /\ DOMAIN log = 1 .. Len(log) /\ DOMAIN log' = 1 .. Len(log) + 1
           /\ \A i \in DOMAIN log : log'[i] = log[i]
           /\ log'[Len(log) + 1] = a
<1>1. /\ log' \in Seq(Answer) /\ Len(log') = Len(log) + 1 /\ Len(log) \in Nat
      /\ DOMAIN log = 1 .. Len(log) /\ DOMAIN log' = 1 .. Len(log')
      /\ \A i \in 1 .. Len(log) : log'[i] = log[i]
      /\ log'[Len(log) + 1] = a
    BY StateIs, AppendProperties
<1> QED  BY <1>1

(* The lists of the session answered in; nothing moves if it is a probe.    *)
LEMMA ListsAfter ==
    ASSUME Inv, NEW s \in Sids, NEW n \in Names, NEW right \in BOOLEAN, NEW probe \in BOOLEAN,
           Respond(s, n, right, probe), NEW W, W = written'
    PROVE  \E q : /\ prof' = [prof EXCEPT ![s] = q] /\ Tidy(q, W)
                  /\ \A c \in Spelled(W), w \in BOOLEAN :
                       (probe \/ c # Canon[n]) /\ Placed(prof[s], W, c, w) => Placed(q, W, c, w)
                  /\ ~probe => Placed(q, W, Canon[n], right)
<1>1. PICK p : p = prof[s]  OBVIOUS
<1>2. W = written \cup {n} /\ n \in W  BY DEF Respond
<1>3. IsFiniteSet(W) /\ Tidy(p, W)  BY <1>1, <1>2, MoreWritten
<1>4. CASE probe
  <2>1. prof' = [prof EXCEPT ![s] = p]  BY <1>1, <1>4, StateIs DEF Respond
  <2> QED  BY <1>1, <1>3, <1>4, <2>1
<1>5. CASE ~probe /\ right
  <2>1. PICK q, ev : ev = "tested" /\ q = Capped(AddExclusive(p, "mastered", n, ev))  OBVIOUS
  <2>2. prof' = [prof EXCEPT ![s] = q]
      BY <1>1, <1>5, <2>1, StateIs DEF Respond, Graded
  <2>3. ev \in Evidences  BY <2>1 DEF Evidences
  <2>4. Promoted(p, q, W, n)  BY <1>2, <1>3, <2>1, <2>3, Promotes
  <2> QED  BY <1>1, <1>5, <2>2, <2>4 DEF Promoted
<1>6. CASE ~probe /\ ~right
  <2>1. PICK q, ev : ev = "tested" /\ q = Capped(AddExclusive(p, "gaps", n, ev))  OBVIOUS
  <2>2. prof' = [prof EXCEPT ![s] = q]
      BY <1>1, <1>6, <2>1, StateIs DEF Respond, Graded
  <2>3. ev \in Evidences  BY <2>1 DEF Evidences
  <2>4. Demoted(p, q, W, n)  BY <1>2, <1>3, <2>1, <2>3, Demotes
  <2> QED  BY <1>1, <1>6, <2>2, <2>4 DEF Demoted
<1> QED  BY <1>4, <1>5, <1>6

LEMMA RespondKeeps ==
    ASSUME Inv, NEW s \in Sids, NEW n \in Names, NEW right \in BOOLEAN, NEW probe \in BOOLEAN,
           Respond(s, n, right, probe)
    PROVE  Inv'
<1>1. PICK a, W : /\ a = [sid |-> s, name |-> n, right |-> right, probe |-> probe, day |-> today]
                  /\ W = written'
    OBVIOUS
<1>2. a \in Answer
  <2>1. s \in 1 .. MaxSessions  BY StateIs
  <2>2. today \in 0 .. MaxDay  BY DEF Inv, TypeOK
  <2> QED  BY <1>1, <2>1, <2>2 DEF Answer
<1>3. /\ log' = Append(log, a) /\ today' = today /\ edits' = edits /\ Len(log) < MaxAnswers
      /\ W = written \cup {n}
      /\ overruled' = IF probe THEN overruled ELSE overruled \ {<<s, Canon[n]>>}
    BY <1>1 DEF Respond
<1>4. /\ log' \in Seq(Answer) /\ Len(log') = Len(log) + 1 /\ Len(log) \in Nat
      /\ DOMAIN log = 1 .. Len(log) /\ DOMAIN log' = 1 .. Len(log) + 1
      /\ \A i \in DOMAIN log : log'[i] = log[i]
      /\ log'[Len(log) + 1] = a
    BY <1>2, <1>3, LogGrows
<1>5. \A i \in DOMAIN log : Latest(i)' => Latest(i)
  <2>1. \A i \in DOMAIN log : i \in DOMAIN log'  BY <1>4
  <2> QED  BY <1>4, <2>1 DEF Latest
<1>6. /\ IsFiniteSet(W) /\ written \subseteq W /\ W \subseteq Names
      /\ \A z \in Sids :
           /\ Tidy(prof[z], W)
           /\ \A c, w : Placed(prof[z], written, c, w) => Placed(prof[z], W, c, w)
    BY <1>3, MoreWritten
<1>7. PICK q : /\ prof' = [prof EXCEPT ![s] = q] /\ Tidy(q, W)
               /\ \A c \in Spelled(W), w \in BOOLEAN :
                    (probe \/ c # Canon[n]) /\ Placed(prof[s], W, c, w) => Placed(q, W, c, w)
               /\ ~probe => Placed(q, W, Canon[n], right)
    BY <1>1, ListsAfter
<1>8. /\ prof' \in Seq(Lists) /\ Len(prof') = Len(prof) /\ Sids' = Sids
      /\ prof'[s] = q /\ \A z \in Sids \ {s} : prof'[z] = prof[z]
  <2>1. q \in Lists  BY <1>7 DEF Tidy
  <2> QED  BY <1>7, <2>1, OneChanges
<1>9. \A z \in Sids' : Tidy(prof'[z], W)  BY <1>6, <1>7, <1>8
<1>10. TypeOK'
  <2>1. \A z \in Sids' : Len(prof'[z].mastered) <= ListCap /\ Len(prof'[z].gaps) <= ListCap
      BY <1>9 DEF Tidy
  <2>2. Len(log') <= MaxAnswers  BY <1>3, <1>4, ViewsOK
  <2>3. overruled' \subseteq (1 .. MaxSessions) \X Names  BY <1>3, StateIs
  <2>4. edits \in 0 .. MaxChanges /\ Len(prof) <= MaxSessions /\ today \in 0 .. MaxDay
      BY DEF Inv, TypeOK
  <2> QED  BY <1>1, <1>3, <1>4, <1>6, <1>8, <2>1, <2>2, <2>3, <2>4 DEF TypeOK
<1>11. ASSUME NEW i \in DOMAIN log'
       PROVE  /\ log'[i].sid \in Sids' /\ log'[i].name \in W
              /\ Latest(i)' => Stands(i)'
  <2>1. CASE i \in DOMAIN log
    <3>1. /\ log[i].sid \in Sids /\ log[i].name \in written /\ (Latest(i) => Stands(i))
          /\ log'[i] = log[i] /\ log[i].right \in BOOLEAN
        BY <1>4, <2>1, StateIs DEF Inv
    <3>2. ASSUME Latest(i)' PROVE Stands(i)'
      <4>1. PICK c, w, z : c = Canon[log[i].name] /\ w = log[i].right /\ z = log[i].sid
          OBVIOUS
      <4>2. <<z, c>> \in overruled \/ Placed(prof[z], written, c, w)
          BY <1>5, <2>1, <3>1, <3>2, <4>1 DEF Stands
      <4>3. <<z, c>> \in overruled \/ Placed(prof[z], W, c, w)  BY <1>6, <3>1, <4>1, <4>2
      <4>4. probe \/ c # Canon[n]
        <5>1. Len(log) + 1 \in DOMAIN log' /\ Len(log) + 1 > i  BY <1>4, <2>1
        <5>2. a.probe = probe /\ a.name = n  BY <1>1
        <5> QED  BY <1>4, <2>1, <3>2, <4>1, <5>1, <5>2 DEF Latest
      <4>5. c \in Spelled(W)  BY <1>6, <3>1, <4>1 DEF Spelled
      <4>6. <<z, c>> \in overruled => <<z, c>> \in overruled'  BY <1>3, <4>4
      <4>7. Placed(prof[z], W, c, w) => Placed(prof'[z], W, c, w)
          BY <1>7, <1>8, <3>1, <4>1, <4>4, <4>5
      <4>8. <<z, c>> \in overruled' \/ Placed(prof'[z], W, c, w)  BY <4>3, <4>6, <4>7
      <4> QED  BY <1>1, <3>1, <4>1, <4>8 DEF Stands
    <3> QED  BY <1>6, <1>8, <3>1, <3>2
  <2>2. CASE i = Len(log) + 1
    <3>1. log'[i] = a /\ a.sid = s /\ a.name = n /\ a.right = right /\ a.probe = probe
        BY <1>1, <1>4, <2>2
    <3>2. Latest(i)' => ~probe  BY <3>1 DEF Latest
    <3>3. ~probe => Stands(i)'  BY <1>1, <1>7, <1>8, <3>1 DEF Stands
    <3> QED  BY <1>3, <1>8, <3>1, <3>2, <3>3
  <2> QED  BY <1>4, <2>1, <2>2
<1> QED  BY <1>1, <1>6, <1>9, <1>10, <1>11 DEF Inv

LEMMA InitInv == Init => Inv
<1> SUFFICES ASSUME Init PROVE Inv
    OBVIOUS
<1>1. /\ prof = <<>> /\ log = <<>> /\ today = 0 /\ written = {} /\ overruled = {}
      /\ edits = 0
    BY DEF Init
<1>2. Sids = {} /\ DOMAIN log = {}  BY <1>1 DEF Sids
<1>3. TypeOK
  <2>1. /\ MaxSessions \in Nat /\ MaxAnswers \in Nat /\ MaxDay \in Nat /\ MaxChanges \in Nat
      BY ViewsOK
  <2> QED  BY <1>1, <1>2, <2>1 DEF TypeOK
<1>4. IsFiniteSet(written)  BY <1>1, FS_EmptySet
<1> QED  BY <1>2, <1>3, <1>4 DEF Inv

LEMMA InvInductive == Inv /\ [Next]_vars => Inv'
BY StartKeeps, RespondKeeps, DeclareKeeps, DeleteItemKeeps, NextDayKeeps DEF Next

LEMMA InvAlways == Spec => []Inv
BY InitInv, InvInductive, PTL DEF Spec

(* Types, and the lists within their cap: the views divide, count and point *)
(* into well-formed data.                                                   *)
THEOREM TypeCorrect == Spec => []TypeOK
<1>1. Inv => TypeOK  BY DEF Inv
<1> QED  BY <1>1, InvAlways, PTL

-----------------------------------------------------------------------------
(* The names in use, and where the latest test of a concept left it.        *)

LEMMA ListedMastered ==
    Listed("mastered") = {n \in Names : \E s \in Sids : n \in ListedIn(prof[s].mastered)}
BY DEF Listed, ListedIn

LEMMA ListedGaps ==
    Listed("gaps") = {n \in Names : \E s \in Sids : n \in ListedIn(prof[s].gaps)}
BY DEF Listed, ListedIn

LEMMA OneSpellingIs ==
    ASSUME NEW n \in Names, OneSpelling(n), NEW m \in written, Canon[m] = Canon[n]
    PROVE  m = n
<1>1. Same(n, m)  BY NamesOK DEF Same
<1> QED  BY <1>1 DEF OneSpelling

LEMMA Found ==
    ASSUME Inv, NEW i \in DOMAIN log, Latest(i), AsTested(log[i])
    PROVE  /\ log[i].sid \in Sids
           /\ \/ log[i].name \in ListedIn(prof[log[i].sid].gaps)
              \/ log[i].right /\ log[i].name \in ListedIn(prof[log[i].sid].mastered)
<1>1. PICK s, n, w : s = log[i].sid /\ n = log[i].name /\ w = log[i].right  OBVIOUS
<1>2. OneSpelling(n) /\ ~Crowded /\ <<s, Canon[n]>> \notin overruled  BY <1>1 DEF AsTested
<1>3. s \in Sids /\ Placed(prof[s], written, Canon[n], w)  BY <1>1, <1>2 DEF Inv, Stands
<1>4. n \in Names  BY <1>1, StateIs
<1>5. ~Crowding(written)  BY <1>2 DEF Crowded, Crowding, Spelled
<1>6. /\ ListedIn(prof[s].mastered) \subseteq written
      /\ ListedIn(prof[s].gaps) \subseteq written
    BY <1>3 DEF Inv, Tidy
<1>7. ASSUME NEW list, ListedIn(list) \subseteq written, Canon[n] \in Concepts(list)
      PROVE  n \in ListedIn(list)
  <2>1. PICK j \in DOMAIN list : Canon[list[j].name] = Canon[n]  BY <1>7 DEF Concepts
  <2>2. list[j].name \in written  BY <1>7 DEF ListedIn
  <2>3. list[j].name = n  BY <1>2, <1>4, <2>1, <2>2, OneSpellingIs
  <2> QED  BY <2>3 DEF ListedIn
<1> QED  BY <1>1, <1>3, <1>5, <1>6, <1>7 DEF Placed

(* What was answered wrong last, under the one name it goes by, is a gap of *)
(* some session; the view then lets the newest answer decide.               *)
LEMMA WrongIsGap ==
    ASSUME Inv, NEW i \in DOMAIN log, AsTested(log[i]),
           ~log[i].right, ~log[i].probe,
           \A j \in i + 1 .. Len(log) : log[j].name # log[i].name
    PROVE  log[i].name \notin CombinedMastered
<1>1. PICK n : n = log[i].name /\ n \in Names  BY StateIs
<1>2. Len(log) \in Nat /\ DOMAIN log = 1 .. Len(log)  BY StateIs
<1>3. Latest(i)
  <2> SUFFICES ASSUME NEW j \in DOMAIN log, j > i, Canon[log[j].name] = Canon[n] PROVE FALSE
      BY <1>1 DEF Latest
  <2>1. log[j].name \in written  BY StateIs
  <2>2. log[j].name = n  BY <1>1, <2>1, OneSpellingIs DEF AsTested
  <2>3. j \in i + 1 .. Len(log)  BY <1>2
  <2> QED  BY <1>1, <2>2, <2>3
<1>4. \E s \in Sids : n \in ListedIn(prof[s].gaps)  BY <1>1, <1>3, Found
<1>5. n \in Listed("gaps")  BY <1>1, <1>4, ListedGaps
<1>6. ~NewestRight(n)
  <2> SUFFICES ASSUME NEW k \in DOMAIN log, log[k].name = n, log[k].right,
                      \A j \in k + 1 .. Len(log) : log[j].name # n
               PROVE  FALSE
      BY DEF NewestRight
  <2>1. k # i
    <3> SUFFICES ASSUME k = i PROVE FALSE
        OBVIOUS
    <3>1. log[i].right  OBVIOUS
    <3> QED  BY <3>1
  <2>2. k \in Nat /\ i \in Nat /\ k <= Len(log) /\ i <= Len(log)  BY <1>2
  <2>3. CASE k < i
    <3>1. i \in k + 1 .. Len(log)  BY <1>2, <2>2, <2>3
    <3> QED  BY <1>1, <3>1
  <2>4. CASE k > i
    <3>1. k \in i + 1 .. Len(log)  BY <1>2, <2>2, <2>4
    <3> QED  BY <1>1, <3>1
  <2> QED  BY <2>1, <2>2, <2>3, <2>4
<1> QED  BY <1>1, <1>5, <1>6 DEF CombinedMastered, Conflicts

(* #288 in the aggregate profile: what the learner got wrong last is not    *)
(* shown as mastered, whatever the other sessions' lists say.  Excepted:    *)
(* the concept is spelled two ways, more concepts are written than a list   *)
(* holds, or the learner has deleted it or declared it mastered since, in   *)
(* the session that was answered.                                           *)
THEOREM WrongIsNeverMastered == Spec => []WrongIsNotMastered
<1>1. Inv => WrongIsNotMastered  BY WrongIsGap DEF WrongIsNotMastered
<1> QED  BY <1>1, InvAlways, PTL

-----------------------------------------------------------------------------
(* The review queue.                                                        *)

LEMMA Power ==
    ASSUME NEW n \in Nat PROVE 2 ^ n \in Nat
<1>1. IsFiniteSet(1 .. n) /\ Cardinality(1 .. n) = n  BY FS_Interval
<1>2. IsFiniteSet(SUBSET (1 .. n)) /\ Cardinality(SUBSET (1 .. n)) = 2 ^ n
    BY <1>1, FS_SUBSET
<1>3. Cardinality(SUBSET (1 .. n)) \in Nat  BY <1>2, FS_CardinalityType
<1> QED  BY <1>2, <1>3

(* However long the streak, the interval stays within the longest one.      *)
LEMMA IntervalIs ==
    ASSUME NEW n \in Nat
    PROVE  /\ n = 0 => Interval(n) = BaseInterval
           /\ n # 0 => Interval(n) \in Nat /\ Interval(n) <= MaxInterval
<1>1. n = 0 => Interval(n) = BaseInterval  BY DEF Interval
<1>2. ASSUME n # 0 PROVE Interval(n) \in Nat /\ Interval(n) <= MaxInterval
  <2>1. PICK d, a, S : /\ d = 2 ^ (n - 1) /\ a = BaseInterval * d /\ S = {a, MaxInterval}
      OBVIOUS
  <2>2. n - 1 \in Nat  BY <1>2
  <2>3. d \in Nat  BY <2>1, <2>2, Power
  <2>4. MaxInterval \in Nat /\ BaseInterval \in Nat  BY ViewsOK
  <2>5. a \in Nat  BY <2>1, <2>3, <2>4
  <2>6. S \in SUBSET Nat /\ S # {} /\ MaxInterval \in S  BY <2>1, <2>4, <2>5
  <2>7. Min(S) \in S /\ \A y \in S : Min(S) <= y  BY <2>6, MinIs
  <2>8. Interval(n) = Min(S)  BY <1>2, <2>1 DEF Interval
  <2> QED  BY <2>6, <2>7, <2>8
<1> QED  BY <1>1, <1>2

(* The newest test of a concept.                                            *)
LEMMA NewestIs ==
    ASSUME Inv, NEW k \in Tested, NEW m, m = Max(Tests(k))
    PROVE  /\ m \in DOMAIN log /\ Newest(k) = log[m] /\ ~log[m].probe
           /\ Canon[log[m].name] = k
           /\ m \in Tests(k) /\ \A j \in Tests(k) : j <= m
           /\ Latest(m)
<1>1. Len(log) \in Nat /\ DOMAIN log = 1 .. Len(log)  BY StateIs
<1>2. Tests(k) \in SUBSET Nat /\ Tests(k) # {} /\ \A j \in Tests(k) : j <= Len(log)
    BY <1>1 DEF Tests, Tested
<1>3. m \in Tests(k) /\ \A j \in Tests(k) : j <= m  BY <1>1, <1>2, MaxIs
<1>4. m \in DOMAIN log /\ ~log[m].probe /\ Canon[log[m].name] = k  BY <1>3 DEF Tests
<1>5. ASSUME NEW j \in DOMAIN log, j > m, ~log[j].probe PROVE Canon[log[j].name] # k
  <2>1. SUFFICES ASSUME Canon[log[j].name] = k PROVE FALSE
      OBVIOUS
  <2>2. j \in Tests(k)  BY <1>5, <2>1 DEF Tests
  <2>3. j \in Nat /\ m \in Nat /\ j <= m  BY <1>1, <1>2, <1>3, <2>2
  <2> QED  BY <1>5, <2>3
<1> QED  BY <1>3, <1>4, <1>5 DEF Newest, Latest

LEMMA StreakIs ==
    ASSUME Inv, NEW k \in Tested
    PROVE  IF Newest(k).right THEN Streak(k) \in Nat \ {0} ELSE Streak(k) = 0
<1>1. PICK m, S : /\ m = Max(Tests(k))
                  /\ S = {i \in Tests(k) : \A j \in Tests(k) : j >= i => log[j].right}
    OBVIOUS
<1>2. Streak(k) = Cardinality(S)  BY <1>1 DEF Streak
<1>3. /\ Newest(k) = log[m] /\ m \in Tests(k) /\ \A j \in Tests(k) : j <= m
    BY <1>1, NewestIs
<1>4. Len(log) \in Nat /\ Tests(k) \subseteq 1 .. Len(log)  BY StateIs DEF Tests
<1>5. IsFiniteSet(S) /\ Cardinality(S) \in Nat
  <2>1. IsFiniteSet(1 .. Len(log))  BY <1>4, FS_Interval
  <2>2. S \in SUBSET (1 .. Len(log))  BY <1>1, <1>4
  <2>3. IsFiniteSet(S)  BY <2>1, <2>2, FS_Subset
  <2> QED  BY <2>3, FS_CardinalityType
<1>6. CASE log[m].right
  <2>1. \A j \in Tests(k) : j >= m => j = m  BY <1>3, <1>4
  <2>2. m \in S  BY <1>1, <1>3, <1>6, <2>1
  <2>3. Cardinality(S) # 0  BY <1>5, <2>2, FS_EmptySet
  <2> QED  BY <1>2, <1>3, <1>5, <1>6, <2>3
<1>7. CASE ~log[m].right
  <2>1. \A i \in Tests(k) : m >= i  BY <1>3, <1>4
  <2>2. S = {}  BY <1>1, <1>3, <1>7, <2>1
  <2>3. Cardinality(S) = 0  BY <1>5, <2>2, FS_EmptySet
  <2> QED  BY <1>2, <1>3, <1>7, <2>3
<1> QED  BY <1>6, <1>7

(* A turn that finds what it was asked for reviews that.                    *)
LEMMA TargetIs ==
    ASSUME NEW s, NEW n, n \in ListedIn(prof[s].gaps) \cup ListedIn(prof[s].mastered)
    PROVE  Target(s, n) = n
BY DEF Target

LEMMA ComesBack ==
    ASSUME Inv, NEW k \in Tested,
           Newest(k).day + (IF Newest(k).right THEN MaxInterval ELSE BaseInterval) <= today
    PROVE  /\ k \in Due
           /\ AsTested(Newest(k)) =>
                  Target(Newest(k).sid, Newest(k).name) = Newest(k).name
<1>1. PICK m : m = Max(Tests(k))  OBVIOUS
<1>2. /\ m \in DOMAIN log /\ Newest(k) = log[m] /\ Latest(m)
    BY <1>1, NewestIs
<1>3. DueAt(k) <= today
  <2>1. PICK d, n : d = Newest(k).day /\ n = Streak(k)  OBVIOUS
  <2>2. d \in Nat /\ today \in Nat  BY <1>2, <2>1, StateIs
  <2>3. MaxInterval \in Nat /\ BaseInterval \in Nat  BY ViewsOK
  <2>4. DueAt(k) = d + Interval(n)  BY <2>1 DEF DueAt
  <2>5. CASE Newest(k).right
    <3>1. n \in Nat /\ n # 0  BY <2>1, <2>5, StreakIs
    <3>2. Interval(n) \in Nat /\ Interval(n) <= MaxInterval  BY <3>1, IntervalIs
    <3>3. d + MaxInterval <= today  BY <2>1, <2>5
    <3>4. d + Interval(n) <= today  BY <2>2, <2>3, <3>2, <3>3
    <3> QED  BY <2>4, <3>4
  <2>6. CASE ~Newest(k).right
    <3>1. n = 0  BY <2>1, <2>6, StreakIs
    <3>2. Interval(n) = BaseInterval  BY <3>1, IntervalIs
    <3> QED  BY <2>1, <2>4, <2>6, <3>2
  <2> QED  BY <2>5, <2>6
<1>4. ASSUME AsTested(log[m])
      PROVE  Target(log[m].sid, log[m].name) = log[m].name
  <2>1. log[m].name \in ListedIn(prof[log[m].sid].gaps)
                        \cup ListedIn(prof[log[m].sid].mastered)
      BY <1>2, <1>4, Found
  <2> QED  BY <2>1, TargetIs
<1> QED  BY <1>2, <1>3, <1>4 DEF Due

(* R2.1 in the review queue: a concept comes back in time, and the session  *)
(* the link opens reviews it, but for the same three exceptions: then the   *)
(* concept is due all the same and the turn may review another.             *)
THEOREM ReviewAlwaysComesBack == Spec => []ReviewComesBack
<1>1. Inv => ReviewComesBack  BY ComesBack DEF ReviewComesBack
<1> QED  BY <1>1, InvAlways, PTL
-----------------------------------------------------------------------------
(* The weekly curve.                                                        *)

LEMMA FirstIs ==
    ASSUME NEW S \in SUBSET Nat, S # {},
           NEW f, f = CHOOSE i \in S : \A j \in S : i <= j
    PROVE  f \in S /\ \A j \in S : f <= j
<1>1. Min(S) \in S /\ \A j \in S : Min(S) <= j  BY MinIs
<1>2. \E i \in S : \A j \in S : i <= j  BY <1>1
<1> QED  BY <1>2

(* n counts in week w.                                                      *)
CountsIn(n, w) == RightOn(n) # {} /\ WeekOf(log[FirstRight(n)].day) = w

LEMMA MasteredStays ==
    ASSUME NEW w, \A n \in Names : CountsIn(n, w)' = CountsIn(n, w)
    PROVE  Mastered(w)' = Mastered(w)
<1>1. PICK S, T : /\ S = {n \in Names : CountsIn(n, w)} /\ T = {n \in Names : CountsIn(n, w)'}
    OBVIOUS
<1>2. S = T  BY <1>1
<1>3. Mastered(w) = Cardinality(S)  BY <1>1 DEF Mastered, CountsIn
<1>4. Mastered(w)' = Cardinality(T)  BY <1>1 DEF Mastered, CountsIn
<1> QED  BY <1>2, <1>3, <1>4

(* An answer of today moves no name into or out of another week.            *)
LEMMA CountsStay ==
    ASSUME Inv, NEW a \in Answer, log' = Append(log, a), NEW n \in Names,
           NEW w, WeekOf(a.day) # w
    PROVE  CountsIn(n, w)' = CountsIn(n, w)
<1>1. /\ Len(log) \in Nat /\ DOMAIN log = 1 .. Len(log) /\ DOMAIN log' = 1 .. Len(log) + 1
      /\ \A i \in DOMAIN log : log'[i] = log[i]
      /\ log'[Len(log) + 1] = a
    BY LogGrows
<1>2. PICK R, Q, f, g, z : /\ R = RightOn(n) /\ Q = RightOn(n)' /\ z = Len(log) + 1
                           /\ f = FirstRight(n) /\ g = FirstRight(n)'
    OBVIOUS
<1>3. R \in SUBSET Nat /\ R \subseteq 1 .. Len(log)  BY <1>1, <1>2 DEF RightOn
<1>4. Q \in SUBSET Nat /\ Q \subseteq 1 .. Len(log) + 1  BY <1>1, <1>2 DEF RightOn
<1>5. R \subseteq Q /\ Q \subseteq R \cup {z}
  <2>1. \A i \in 1 .. Len(log) : i \in Q <=> i \in R  BY <1>1, <1>2 DEF RightOn
  <2>2. \A i \in Q : i \in 1 .. Len(log) \/ i = z  BY <1>1, <1>2, <1>4
  <2> QED  BY <1>3, <2>1, <2>2
<1>6. R # {} => f \in R /\ \A j \in R : f <= j  BY <1>2, <1>3, FirstIs DEF FirstRight
<1>7. Q # {} => g \in Q /\ \A j \in Q : g <= j  BY <1>2, <1>4, FirstIs DEF FirstRight
<1>8. CASE R # {}
  <2>1. Q # {} /\ f \in Q /\ f <= Len(log) /\ g <= f /\ f \in Nat /\ g \in Nat
    <3>1. f \in R /\ f \in Q /\ Q # {}  BY <1>5, <1>6, <1>8
    <3>2. g \in Q /\ g <= f  BY <1>7, <3>1
    <3> QED  BY <1>1, <1>3, <1>4, <3>1, <3>2
  <2>2. g # z  BY <1>1, <1>2, <2>1
  <2>3. g \in R  BY <1>5, <1>7, <2>1, <2>2
  <2>4. f <= g  BY <1>6, <1>8, <2>3
  <2>5. f = g  BY <2>1, <2>4
  <2>6. log'[g] = log[f]  BY <1>1, <1>3, <2>3, <2>5
  <2> QED  BY <1>2, <1>8, <2>1, <2>6 DEF CountsIn, WeekOf
<1>9. CASE R = {}
  <2>1. ~CountsIn(n, w)  BY <1>2, <1>9 DEF CountsIn
  <2>2. CASE Q = {}  BY <1>2, <2>1, <2>2 DEF CountsIn
  <2>3. CASE Q # {}
    <3>1. g = z  BY <1>5, <1>7, <1>9, <2>3
    <3>2. log'[g] = a  BY <1>1, <1>2, <3>1
    <3>3. ~CountsIn(n, w)'  BY <1>2, <3>2 DEF CountsIn, WeekOf
    <3> QED  BY <2>1, <3>3 DEF CountsIn
  <2> QED  BY <2>2, <2>3
<1> QED  BY <1>8, <1>9

LEMMA PastWeeksStep ==
    ASSUME Inv, Next, NEW w \in Window, w < WeekOf(today)
    PROVE  Mastered(w)' = Mastered(w)
<1>1. WeekOf(today) # w
  <2>1. today \in Nat /\ WeekDays \in Nat \ {0}  BY StateIs, ViewsOK
  <2>2. PICK v : v = WeekOf(today)  OBVIOUS
  <2>3. v \in Int  BY <2>1, <2>2 DEF WeekOf
  <2>4. w \in Int
    <3>1. WindowWeeks \in Nat  BY ViewsOK
    <3>2. w \in v - WindowWeeks + 1 .. v  BY <2>2 DEF Window
    <3> QED  BY <2>3, <3>1, <3>2
  <2> QED  BY <2>2, <2>3, <2>4
<1>2. CASE log' = log
  <2>1. \A n \in Names : CountsIn(n, w)' = CountsIn(n, w)
      BY <1>2 DEF CountsIn, RightOn, FirstRight
  <2> QED  BY <2>1, MasteredStays
<1>3. CASE \E s \in Sids, n \in Names, right, probe \in BOOLEAN : Respond(s, n, right, probe)
  <2>1. PICK s \in Sids, n \in Names, right \in BOOLEAN, probe \in BOOLEAN :
          Respond(s, n, right, probe)
      BY <1>3
  <2>2. PICK a : /\ a = [sid |-> s, name |-> n, right |-> right, probe |-> probe, day |-> today]
      OBVIOUS
  <2>3. a \in Answer
    <3>1. Sids = 1 .. Len(prof) /\ Len(prof) \in Nat  BY StateIs
    <3>2. Len(prof) <= MaxSessions /\ MaxSessions \in Nat /\ today \in 0 .. MaxDay
        BY ViewsOK DEF Inv, TypeOK
    <3>3. s \in 1 .. MaxSessions  BY <3>1, <3>2
    <3> QED  BY <2>2, <3>2, <3>3 DEF Answer
  <2>4. log' = Append(log, a)  BY <2>1, <2>2 DEF Respond
  <2>5. WeekOf(a.day) # w  BY <1>1, <2>2
  <2>6. \A m \in Names : CountsIn(m, w)' = CountsIn(m, w)  BY <2>3, <2>4, <2>5, CountsStay
  <2> QED  BY <2>6, MasteredStays
<1> QED  BY <1>2, <1>3 DEF Next, Start, Declare, DeleteItem, NextDay

(* The weeks gone by keep their place in the mastery curve: the first right *)
(* answer decides, and today's answers come after it.                       *)
THEOREM PastWeeksAreSettled == Spec => PastWeeksStand
<1>1. Inv /\ [Next]_vars =>
        [\A w \in Window \cap Window' : w < WeekOf(today) => Mastered(w)' = Mastered(w)]_vars
    BY PastWeeksStep
<1> QED  BY <1>1, InvAlways, PTL DEF Spec, PastWeeksStand
=============================================================================
