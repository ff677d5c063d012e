--------------------------- MODULE TopicProfileProof ---------------------------
(***************************************************************************)
(* Theorems about TopicProfile, for any names and spellings, any list cap,  *)
(* any number of clients and writers, any edits and any tool arguments.     *)
(***************************************************************************)
EXTENDS TopicProfile, ConceptListsProof

-----------------------------------------------------------------------------
(* What the operations do to a profile.                                     *)

WasRight(E, n) == \E x \in E : x.right /\ Same(x.name, n)
WasWrong(E, n) == \E x \in E : ~x.right /\ Same(x.name, n)
RightBacked(list, E) == \A i \in DOMAIN list : list[i].ev = "tested" => WasRight(E, list[i].name)
WrongBacked(list, E) == \A i \in DOMAIN list : list[i].ev = "tested" => WasWrong(E, list[i].name)

(* A profile as it should be, given the answers E.                          *)
Sound(p, E) ==
    /\ p \in Profile
    /\ Once(p.mastered) /\ Once(p.gaps) /\ Concepts(p.mastered) \cap Concepts(p.gaps) = {}
    /\ RightBacked(p.mastered, E) /\ WrongBacked(p.gaps, E)
    /\ IsFiniteSet(p.subs) /\ Cardinality(p.subs) <= MaxSubtopics
Short(p, m, g) == Len(p.mastered) <= m /\ Len(p.gaps) <= g

(* A gap that has the focus stays while the focus does.                     *)
KeepsGap(p, q) ==
    p.focus # None /\ Canon[p.focus] \in Concepts(p.gaps) /\ q.focus = p.focus
        => Canon[p.focus] \in Concepts(q.gaps)

LEMMA BackedFrom ==
    ASSUME NEW E, NEW list, NEW t, From(t, list)
    PROVE  /\ RightBacked(list, E) => RightBacked(t, E)
           /\ WrongBacked(list, E) => WrongBacked(t, E)
BY DEF From, RightBacked, WrongBacked

LEMMA BackedAlike ==
    ASSUME NEW E, NEW m, NEW n, Canon[m] = Canon[n]
    PROVE  (WasRight(E, m) => WasRight(E, n)) /\ (WasWrong(E, m) => WasWrong(E, n))
BY DEF WasRight, WasWrong, Same

LEMMA ProfileIs ==
    ASSUME NEW p \in Profile
    PROVE  /\ p.mastered \in Seq(Entry) /\ p.gaps \in Seq(Entry)
           /\ p.focus \in Names \cup {None} /\ p.level \in Levels \cup {None}
           /\ p.subs \in SUBSET Subtopics
           /\ Len(p.mastered) \in Nat /\ Len(p.gaps) \in Nat
<1>1. p.mastered \in Seq(Entry) /\ p.gaps \in Seq(Entry)  BY DEF Profile
<1> QED  BY <1>1, Entries DEF Profile

(* A concept joins one list and leaves the other.                           *)
Promoted(p, q, n, E) ==
    /\ Sound(q, E) /\ Short(q, Len(p.mastered) + 1, Len(p.gaps)) /\ q.subs = p.subs
    /\ q.focus = IF Same(p.focus, n) THEN None ELSE p.focus
    /\ Concepts(q.gaps) = Concepts(p.gaps) \ {Canon[n]}
Demoted(p, q, n, E) ==
    /\ Sound(q, E) /\ Short(q, Len(p.mastered), Len(p.gaps) + 1) /\ q.subs = p.subs
    /\ q.focus = p.focus
    /\ Concepts(q.gaps) = Concepts(p.gaps) \cup {Canon[n]}

LEMMA AddMastered ==
    ASSUME NEW E, NEW p, Sound(p, E), NEW n \in Names, NEW ev \in Evidences,
           ev = "tested" => WasRight(E, n), NEW q, q = AddExclusive(p, "mastered", n, ev)
    PROVE  Promoted(p, q, n, E)
<1>1. PICK m, g : m = Upsert(p.mastered, n, ev) /\ g = Without(p.gaps, n)  OBVIOUS
<1>2. p \in Profile /\ p.mastered \in Seq(Entry) /\ p.gaps \in Seq(Entry)
      /\ Once(p.mastered) /\ Once(p.gaps)
    BY ProfileIs DEF Sound
<1>3. /\ m \in Seq(Entry) /\ Len(m) <= Len(p.mastered) + 1 /\ Once(m)
      /\ Concepts(m) = Concepts(p.mastered) \cup {Canon[n]}
      /\ \A i \in DOMAIN m : \/ \E j \in DOMAIN p.mastered : m[i] = p.mastered[j]
                             \/ m[i].ev = ev /\ Canon[m[i].name] = Canon[n]
    BY <1>1, <1>2, UpsertKeeps, SMTT(30)
<1>4. /\ g \in Seq(Entry) /\ Len(g) <= Len(p.gaps) /\ From(g, p.gaps) /\ Once(g)
      /\ Concepts(g) = Concepts(p.gaps) \ {Canon[n]}
    BY <1>1, <1>2, WithoutKeeps
<1>5. /\ q \in Profile /\ q.mastered = m /\ q.gaps = g /\ q.subs = p.subs
      /\ q.focus = IF Same(p.focus, n) THEN None ELSE p.focus
  <2>1. q = [[p EXCEPT !.mastered = m, !.gaps = g]
               EXCEPT !.focus = IF Same(p.focus, n) THEN None ELSE p.focus]
      BY <1>1, <1>2 DEF AddExclusive, Unfocus, Profile
  <2>2. (IF Same(p.focus, n) THEN None ELSE p.focus) \in Names \cup {None}
      BY <1>2, ProfileIs
  <2> QED  BY <1>2, <1>3, <1>4, <2>1, <2>2 DEF Profile
<1>6. RightBacked(m, E)
  <2> SUFFICES ASSUME NEW i \in DOMAIN m, m[i].ev = "tested" PROVE WasRight(E, m[i].name)
      BY DEF RightBacked
  <2>1. CASE \E j \in DOMAIN p.mastered : m[i] = p.mastered[j]
      BY <2>1 DEF Sound, RightBacked
  <2>2. CASE m[i].ev = ev /\ Canon[m[i].name] = Canon[n]
      BY <2>2, BackedAlike
  <2> QED  BY <1>3, <2>1, <2>2
<1>7. WrongBacked(g, E)  BY <1>4, BackedFrom DEF Sound
<1> QED  BY <1>3, <1>4, <1>5, <1>6, <1>7 DEF Sound, Short, Promoted

LEMMA AddGap ==
    ASSUME NEW E, NEW p, Sound(p, E), NEW n \in Names, NEW ev \in Evidences,
           ev = "tested" => WasWrong(E, n), NEW q, q = AddExclusive(p, "gaps", n, ev)
    PROVE  Demoted(p, q, n, E)
<1>1. PICK m, g : g = Upsert(p.gaps, n, ev) /\ m = Without(p.mastered, n)  OBVIOUS
<1>2. p \in Profile /\ p.mastered \in Seq(Entry) /\ p.gaps \in Seq(Entry)
      /\ Once(p.mastered) /\ Once(p.gaps)
    BY ProfileIs DEF Sound
<1>3. /\ g \in Seq(Entry) /\ Len(g) <= Len(p.gaps) + 1 /\ Once(g)
      /\ Concepts(g) = Concepts(p.gaps) \cup {Canon[n]}
      /\ \A i \in DOMAIN g : \/ \E j \in DOMAIN p.gaps : g[i] = p.gaps[j]
                             \/ g[i].ev = ev /\ Canon[g[i].name] = Canon[n]
  <2>1. PICK list : list = p.gaps  OBVIOUS
  <2>2. list \in Seq(Entry) /\ Once(list) /\ g = Upsert(list, n, ev)  BY <1>1, <1>2, <2>1
  <2>3. /\ g \in Seq(Entry) /\ Len(g) <= Len(list) + 1 /\ Once(g)
        /\ Concepts(g) = Concepts(list) \cup {Canon[n]}
        /\ \A i \in DOMAIN g : \/ \E j \in DOMAIN list : g[i] = list[j]
                               \/ g[i].ev = ev /\ Canon[g[i].name] = Canon[n]
      BY <2>2, UpsertKeeps
  <2> QED  BY <2>1, <2>3
<1>4. /\ m \in Seq(Entry) /\ Len(m) <= Len(p.mastered) /\ From(m, p.mastered) /\ Once(m)
      /\ Concepts(m) = Concepts(p.mastered) \ {Canon[n]}
    BY <1>1, <1>2, WithoutKeeps
<1>5. /\ q \in Profile /\ q.mastered = m /\ q.gaps = g /\ q.subs = p.subs /\ q.focus = p.focus
  <2>1. q = [p EXCEPT !.gaps = g, !.mastered = m]
      BY <1>1, <1>2 DEF AddExclusive, Profile
  <2> QED  BY <1>2, <1>3, <1>4, <2>1 DEF Profile
<1>6. WrongBacked(g, E)
  <2> SUFFICES ASSUME NEW i \in DOMAIN g, g[i].ev = "tested" PROVE WasWrong(E, g[i].name)
      BY DEF WrongBacked
  <2>1. CASE \E j \in DOMAIN p.gaps : g[i] = p.gaps[j]
      BY <2>1 DEF Sound, WrongBacked
  <2>2. CASE g[i].ev = ev /\ Canon[g[i].name] = Canon[n]
      BY <2>2, BackedAlike
  <2> QED  BY <1>3, <2>1, <2>2
<1>7. RightBacked(m, E)  BY <1>4, BackedFrom DEF Sound
<1> QED  BY <1>3, <1>4, <1>5, <1>6, <1>7 DEF Sound, Short, Demoted

(* save_profile brings the lists back under the cap.                        *)
LEMMA CappedKeeps ==
    ASSUME NEW E, NEW p, Sound(p, E), Short(p, ListCap + 1, ListCap + 1), NEW q, q = Capped(p)
    PROVE  /\ Sound(q, E) /\ Short(q, ListCap, ListCap) /\ q.focus = p.focus
           /\ p.focus # None /\ Canon[p.focus] \in Concepts(p.gaps)
                => Canon[p.focus] \in Concepts(q.gaps)
<1>1. PICK m, g : g = Evict(p.gaps, p.focus) /\ m = Evict(p.mastered, None)  OBVIOUS
<1>2. p \in Profile /\ p.mastered \in Seq(Entry) /\ p.gaps \in Seq(Entry)
      /\ Once(p.mastered) /\ Once(p.gaps) /\ p.focus \in Names \cup {None}
      /\ Len(p.mastered) <= ListCap + 1 /\ Len(p.gaps) <= ListCap + 1
    BY ProfileIs DEF Sound, Short
<1>3. /\ g \in Seq(Entry) /\ Len(g) <= ListCap /\ From(g, p.gaps) /\ Once(g)
      /\ Concepts(g) \subseteq Concepts(p.gaps)
      /\ p.focus \in Names /\ Canon[p.focus] \in Concepts(p.gaps)
           => Canon[p.focus] \in Concepts(g)
    BY <1>1, <1>2, EvictKeeps
<1>4. /\ m \in Seq(Entry) /\ Len(m) <= ListCap /\ From(m, p.mastered) /\ Once(m)
      /\ Concepts(m) \subseteq Concepts(p.mastered)
    BY <1>1, <1>2, EvictKeeps
<1>5. /\ q \in Profile /\ q.mastered = m /\ q.gaps = g /\ q.subs = p.subs /\ q.focus = p.focus
  <2>1. q = [p EXCEPT !.gaps = g, !.mastered = m]
      BY <1>1, <1>2 DEF Capped, Profile
  <2> QED  BY <1>2, <1>3, <1>4, <2>1 DEF Profile
<1>6. RightBacked(m, E) /\ WrongBacked(g, E)  BY <1>3, <1>4, BackedFrom DEF Sound
<1>7. Concepts(m) \cap Concepts(g) = {}  BY <1>3, <1>4 DEF Sound
<1> QED  BY <1>2, <1>3, <1>4, <1>5, <1>6, <1>7 DEF Sound, Short

LEMMA IfIs ==
    ASSUME NEW n, NEW p, NEW q
    PROVE  (n = None => If(n, p, q) = p) /\ (n # None => If(n, p, q) = q)
BY DEF If

LEMMA PatchedKeeps ==
    ASSUME NEW E, NEW p, Sound(p, E), Short(p, ListCap, ListCap), NEW e \in Edit,
           NEW s, s = Patched(p, e)
    PROVE  Sound(s, E) /\ Short(s, ListCap + 1, ListCap + 1) /\ KeepsGap(p, s)
<1>0. /\ e.mastered \in Names \cup {None} /\ e.gap \in Names \cup {None}
      /\ e.level \in Levels \cup {None} /\ ListCap \in Nat
      /\ p \in Profile /\ Len(p.mastered) \in Nat /\ Len(p.gaps) \in Nat
      /\ p.focus \in Names \cup {None}
      /\ Len(p.mastered) <= ListCap /\ Len(p.gaps) <= ListCap
      /\ "none" \in Evidences
    BY ListCapOK, ProfileIs DEF Edit, Sound, Short, Evidences
<1>1. PICK q : q = If(e.mastered, p, AddExclusive(p, "mastered", e.mastered, "none"))  OBVIOUS
<1>2. PICK r : r = If(e.gap, q, AddExclusive(q, "gaps", e.gap, "none"))  OBVIOUS
<1>3. /\ Sound(q, E) /\ Short(q, ListCap + 1, ListCap) /\ q.focus \in {p.focus, None}
      /\ p.focus # None /\ Canon[p.focus] \in Concepts(p.gaps) /\ q.focus = p.focus
           => Canon[p.focus] \in Concepts(q.gaps)
  <2>1. CASE e.mastered = None
    <3>1. q = p  BY <1>1, <2>1, IfIs
    <3> QED  BY <1>0, <3>1 DEF Short
  <2>2. CASE e.mastered \in Names
    <3>1. e.mastered # None  BY <2>2, NamesOK
    <3>2. q = AddExclusive(p, "mastered", e.mastered, "none")  BY <1>1, <3>1, IfIs
    <3>3. /\ Sound(q, E) /\ Short(q, Len(p.mastered) + 1, Len(p.gaps))
          /\ q.focus = IF Same(p.focus, e.mastered) THEN None ELSE p.focus
          /\ Concepts(q.gaps) = Concepts(p.gaps) \ {Canon[e.mastered]}
      <4>1. PICK ev \in Evidences, n \in Names : ev = "none" /\ n = e.mastered  BY <1>0, <2>2
      <4>2. q = AddExclusive(p, "mastered", n, ev)  BY <3>2, <4>1
      <4>3. ev = "tested" => WasRight(E, n)  BY <4>1
      <4>4. Promoted(p, q, n, E)  BY <4>2, <4>3, AddMastered
      <4> QED  BY <4>1, <4>4 DEF Promoted
    <3>4. Short(q, ListCap + 1, ListCap)
      <4>1. Len(q.mastered) \in Nat /\ Len(q.gaps) \in Nat  BY <3>3, ProfileIs DEF Sound
      <4> QED  BY <1>0, <3>3, <4>1 DEF Short
    <3>5. q.focus = p.focus /\ p.focus # None => Canon[p.focus] # Canon[e.mastered]
        BY <3>3 DEF Same
    <3> QED  BY <3>3, <3>4, <3>5
  <2> QED  BY <1>0, <2>1, <2>2
<1>4. /\ Sound(r, E) /\ Short(r, ListCap + 1, ListCap + 1) /\ r.focus = q.focus
      /\ Concepts(q.gaps) \subseteq Concepts(r.gaps)
  <2>0. Len(q.mastered) \in Nat /\ Len(q.gaps) \in Nat  BY <1>3, ProfileIs DEF Sound
  <2>1. CASE e.gap = None
    <3>1. r = q  BY <1>2, <2>1, IfIs
    <3> QED  BY <1>0, <1>3, <2>0, <3>1 DEF Short
  <2>2. CASE e.gap \in Names
    <3>1. e.gap # None  BY <2>2, NamesOK
    <3>2. r = AddExclusive(q, "gaps", e.gap, "none")  BY <1>2, <3>1, IfIs
    <3>3. /\ Sound(r, E) /\ Short(r, Len(q.mastered), Len(q.gaps) + 1) /\ r.focus = q.focus
          /\ Concepts(r.gaps) = Concepts(q.gaps) \cup {Canon[e.gap]}
      <4>1. PICK ev \in Evidences, n \in Names : ev = "none" /\ n = e.gap  BY <1>0, <2>2
      <4>2. r = AddExclusive(q, "gaps", n, ev)  BY <3>2, <4>1
      <4>3. ev = "tested" => WasWrong(E, n)  BY <4>1
      <4>4. Demoted(q, r, n, E)  BY <1>3, <4>2, <4>3, AddGap
      <4> QED  BY <4>1, <4>4 DEF Demoted
    <3>4. Short(r, ListCap + 1, ListCap + 1)
      <4>1. Len(r.mastered) \in Nat /\ Len(r.gaps) \in Nat  BY <3>3, ProfileIs DEF Sound
      <4> QED  BY <1>0, <1>3, <2>0, <3>3, <4>1 DEF Short
    <3> QED  BY <3>3, <3>4
  <2> QED  BY <1>0, <2>1, <2>2
<1>5. s = If(e.level, r, [r EXCEPT !.level = e.level])  BY <1>1, <1>2 DEF Patched
<1>6. /\ s \in Profile /\ s.mastered = r.mastered /\ s.gaps = r.gaps /\ s.subs = r.subs
      /\ s.focus = r.focus
  <2>1. r \in Profile  BY <1>4 DEF Sound
  <2>2. CASE e.level = None  BY <1>5, <2>1, <2>2, IfIs
  <2>3. CASE e.level # None
    <3>1. s = [r EXCEPT !.level = e.level]  BY <1>5, <2>3, IfIs
    <3> QED  BY <1>0, <2>1, <3>1 DEF Profile
  <2> QED  BY <2>2, <2>3
<1>7. Sound(s, E) /\ Short(s, ListCap + 1, ListCap + 1)  BY <1>4, <1>6 DEF Sound, Short
<1>8. KeepsGap(p, s)  BY <1>3, <1>4, <1>6 DEF KeepsGap
<1> QED  BY <1>7, <1>8

LEMMA EditedKeeps ==
    ASSUME NEW E, NEW p, Sound(p, E), Short(p, ListCap, ListCap), NEW e \in Edit,
           Acceptable(p, e), NEW s, s = Edited(p, e)
    PROVE  Sound(s, E) /\ Short(s, ListCap + 1, ListCap + 1) /\ KeepsGap(p, s)
<1>0. /\ e.op \in {"patch", "unmaster", "ungap", "unsub"} /\ e.name \in Names \cup {None}
      /\ p \in Profile /\ p.mastered \in Seq(Entry) /\ p.gaps \in Seq(Entry)
      /\ Len(p.mastered) \in Nat /\ Len(p.gaps) \in Nat /\ ListCap \in Nat
      /\ p.focus \in Names \cup {None} /\ p.subs \in SUBSET Subtopics
      /\ Once(p.mastered) /\ Once(p.gaps)
      /\ Len(p.mastered) <= ListCap /\ Len(p.gaps) <= ListCap
    BY ListCapOK, ProfileIs DEF Edit, Sound, Short
<1>1. CASE e.op = "patch"
  <2>1. s = Patched(p, e)  BY <1>1 DEF Edited
  <2> QED  BY <2>1, PatchedKeeps
<1>2. CASE e.op = "unmaster"
  <2>1. e.name \in Names  BY <1>0, <1>2 DEF Acceptable, Has, Same
  <2>2. PICK m : m = Without(p.mastered, e.name)  OBVIOUS
  <2>3. /\ m \in Seq(Entry) /\ Len(m) <= Len(p.mastered) /\ From(m, p.mastered) /\ Once(m)
        /\ Concepts(m) = Concepts(p.mastered) \ {Canon[e.name]}
      BY <1>0, <2>1, <2>2, WithoutKeeps, ZenonT(40)
  <2>4. s = [p EXCEPT !.mastered = m]  BY <1>0, <1>2, <2>2 DEF Edited, Profile
  <2>5. s \in Profile /\ s.mastered = m /\ s.gaps = p.gaps /\ s.subs = p.subs /\ s.focus = p.focus
      BY <1>0, <2>3, <2>4 DEF Profile
  <2>6. Sound(s, E)  BY <2>3, <2>5, BackedFrom DEF Sound
  <2>7. Len(m) \in Nat  BY <2>3
  <2> QED  BY <1>0, <2>3, <2>5, <2>6, <2>7 DEF Short, KeepsGap
<1>3. CASE e.op = "ungap"
  <2>1. e.name \in Names  BY <1>0, <1>3 DEF Acceptable, Has, Same
  <2>2. PICK g : g = Without(p.gaps, e.name)  OBVIOUS
  <2>3. /\ g \in Seq(Entry) /\ Len(g) <= Len(p.gaps) /\ From(g, p.gaps) /\ Once(g)
        /\ Concepts(g) = Concepts(p.gaps) \ {Canon[e.name]}
      BY <1>0, <2>1, <2>2, WithoutKeeps
  <2>4. s = [[p EXCEPT !.gaps = g] EXCEPT !.focus = IF Same(p.focus, e.name) THEN None ELSE p.focus]
      BY <1>0, <1>3, <2>2 DEF Edited, RemoveGap, Unfocus, Profile
  <2>5. /\ s \in Profile /\ s.mastered = p.mastered /\ s.gaps = g /\ s.subs = p.subs
        /\ s.focus = IF Same(p.focus, e.name) THEN None ELSE p.focus
      BY <1>0, <2>3, <2>4 DEF Profile
  <2>6. Sound(s, E)  BY <2>3, <2>5, BackedFrom DEF Sound
  <2>7. Len(g) \in Nat  BY <2>3
  <2>8. s.focus = p.focus /\ p.focus # None => Canon[p.focus] # Canon[e.name]
      BY <2>5 DEF Same
  <2>9. KeepsGap(p, s)  BY <2>3, <2>5, <2>8 DEF KeepsGap
  <2> QED  BY <1>0, <2>3, <2>5, <2>6, <2>7, <2>9 DEF Short
<1>4. CASE e.op = "unsub"
  <2>1. s = [p EXCEPT !.subs = p.subs \ {e.sub}]  BY <1>0, <1>4 DEF Edited, Profile
  <2>2. /\ s \in Profile /\ s.mastered = p.mastered /\ s.gaps = p.gaps /\ s.focus = p.focus
        /\ s.subs = p.subs \ {e.sub}
      BY <1>0, <2>1 DEF Profile
  <2>3. IsFiniteSet(s.subs) /\ Cardinality(s.subs) <= MaxSubtopics
    <3>1. IsFiniteSet(p.subs) /\ Cardinality(p.subs) <= MaxSubtopics  BY DEF Sound
    <3>2. /\ IsFiniteSet(s.subs) /\ Cardinality(s.subs) <= Cardinality(p.subs)
          /\ Cardinality(s.subs) \in Nat /\ Cardinality(p.subs) \in Nat
        BY <2>2, <3>1, FS_Subset, FS_CardinalityType
    <3> QED  BY <3>1, <3>2, CapsOK
  <2> QED  BY <1>0, <2>2, <2>3 DEF Sound, Short, KeepsGap
<1> QED  BY <1>0, <1>1, <1>2, <1>3, <1>4

LEMMA MergedKeeps ==
    ASSUME NEW E, NEW p, Sound(p, E), Short(p, ListCap, ListCap), NEW a \in Patch,
           ~Refuses(p, a), NEW z, z = Merged(p, a)
    PROVE  Sound(z, E) /\ Short(z, ListCap + 1, ListCap + 1) /\ KeepsGap(p, z)
<1> DEFINE masters == a.mastered # None /\ Evidence(a) # "none"
<1>0. /\ a.level \in Levels \cup {None} /\ a.gap \in Names \cup {None}
      /\ a.mastered \in Names \cup {None} /\ a.focus \in Names \cup {None}
      /\ a.sub \in Subtopics \cup {None}
      /\ p \in Profile /\ Len(p.mastered) \in Nat /\ Len(p.gaps) \in Nat /\ ListCap \in Nat
      /\ p.focus \in Names \cup {None} /\ p.subs \in SUBSET Subtopics
      /\ Len(p.mastered) <= ListCap /\ Len(p.gaps) <= ListCap
    BY ListCapOK, ProfileIs DEF Patch, Sound, Short
<1>1. PICK ev \in Evidences : ev = Evidence(a) /\ ev # "tested"
    BY DEF Evidence, Evidences
<1>2. PICK q : q = If(a.level, p, [p EXCEPT !.level = a.level])  OBVIOUS
<1>3. PICK r : r = If(a.gap, q, AddExclusive(q, "gaps", a.gap, ev))  OBVIOUS
<1>4. PICK s : s = IF masters THEN AddExclusive(r, "mastered", a.mastered, ev) ELSE r
    OBVIOUS
<1>5. PICK t : t = IF Clearing(p, a) THEN [s EXCEPT !.focus = None]
                   ELSE If(a.focus, s, [s EXCEPT !.focus = a.focus])
    OBVIOUS
<1>6. PICK u : u = IF masters THEN Unfocus(t, a.mastered) ELSE t  OBVIOUS
<1>7. z = [u EXCEPT !.subs = u.subs \cup ({a.sub} \ {None})]
    BY <1>1, <1>2, <1>3, <1>4, <1>5, <1>6 DEF Merged
<1>8. /\ Sound(q, E) /\ q.mastered = p.mastered /\ q.gaps = p.gaps /\ q.subs = p.subs
      /\ q.focus = p.focus
  <2>1. /\ q \in Profile /\ q.mastered = p.mastered /\ q.gaps = p.gaps /\ q.subs = p.subs
        /\ q.focus = p.focus
    <3>1. CASE a.level = None  BY <1>0, <1>2, <3>1, IfIs
    <3>2. CASE a.level # None
      <4>1. q = [p EXCEPT !.level = a.level]  BY <1>2, <3>2, IfIs
      <4> QED  BY <1>0, <4>1 DEF Profile
    <3> QED  BY <3>1, <3>2
  <2> QED  BY <2>1 DEF Sound
<1>9. /\ Sound(r, E) /\ Short(r, ListCap, ListCap + 1) /\ r.focus = p.focus /\ r.subs = p.subs
      /\ Concepts(p.gaps) \subseteq Concepts(r.gaps)
  <2>1. CASE a.gap = None
    <3>1. r = q  BY <1>3, <2>1, IfIs
    <3> QED  BY <1>0, <1>8, <3>1 DEF Short
  <2>2. CASE a.gap \in Names
    <3>1. a.gap # None  BY <2>2, NamesOK
    <3>2. PICK n \in Names : n = a.gap  BY <2>2
    <3>3. r = AddExclusive(q, "gaps", n, ev)  BY <1>3, <3>1, <3>2, IfIs
    <3>4. ev = "tested" => WasWrong(E, n)  BY <1>1
    <3>5. Demoted(q, r, n, E)  BY <1>8, <3>3, <3>4, AddGap
    <3>6. Len(r.mastered) \in Nat /\ Len(r.gaps) \in Nat
        BY <3>5, ProfileIs DEF Sound, Demoted
    <3> QED  BY <1>0, <1>8, <3>5, <3>6 DEF Demoted, Short
  <2> QED  BY <1>0, <2>1, <2>2
<1>10. /\ Sound(s, E) /\ Short(s, ListCap + 1, ListCap + 1) /\ s.subs = p.subs
       /\ ~masters => Concepts(p.gaps) \subseteq Concepts(s.gaps)
       /\ masters => Concepts(p.gaps) \ {Canon[a.mastered]} \subseteq Concepts(s.gaps)
  <2>0. Len(r.mastered) \in Nat /\ Len(r.gaps) \in Nat  BY <1>9, ProfileIs DEF Sound
  <2>1. CASE ~masters  BY <1>0, <1>4, <1>9, <2>0, <2>1 DEF Short
  <2>2. CASE masters
    <3>1. PICK n \in Names : n = a.mastered  BY <1>0, <2>2
    <3>2. s = AddExclusive(r, "mastered", n, ev)  BY <1>4, <2>2, <3>1
    <3>3. ev = "tested" => WasRight(E, n)  BY <1>1
    <3>4. Promoted(r, s, n, E)  BY <1>9, <3>2, <3>3, AddMastered
    <3>5. Len(s.mastered) \in Nat /\ Len(s.gaps) \in Nat
        BY <3>4, ProfileIs DEF Sound, Promoted
    <3> QED  BY <1>0, <1>9, <2>0, <2>2, <3>1, <3>4, <3>5 DEF Promoted, Short
  <2> QED  BY <2>1, <2>2
<1>11. /\ t \in Profile /\ t.mastered = s.mastered /\ t.gaps = s.gaps /\ t.subs = s.subs
  <2>0. s \in Profile  BY <1>10 DEF Sound
  <2>1. CASE Clearing(p, a)
    <3>1. t = [s EXCEPT !.focus = None]  BY <1>5, <2>1
    <3> QED  BY <2>0, <3>1 DEF Profile
  <2>2. CASE ~Clearing(p, a) /\ a.focus = None
    <3>1. t = s  BY <1>5, <2>2, IfIs
    <3> QED  BY <2>0, <3>1
  <2>3. CASE ~Clearing(p, a) /\ a.focus # None
    <3>1. t = [s EXCEPT !.focus = a.focus]  BY <1>5, <2>3, IfIs
    <3> QED  BY <1>0, <2>0, <3>1 DEF Profile
  <2> QED  BY <2>1, <2>2, <2>3
<1>12. /\ u \in Profile /\ u.mastered = s.mastered /\ u.gaps = s.gaps /\ u.subs = s.subs
       /\ masters => u.focus = None \/ Canon[u.focus] # Canon[a.mastered]
  <2>1. CASE ~masters  BY <1>6, <1>11, <2>1
  <2>2. CASE masters
    <3>1. u = [t EXCEPT !.focus = IF Same(t.focus, a.mastered) THEN None ELSE t.focus]
        BY <1>6, <1>11, <2>2 DEF Unfocus, Profile
    <3>2. t.focus \in Names \cup {None}  BY <1>11, ProfileIs
    <3>3. /\ u \in Profile /\ u.mastered = s.mastered /\ u.gaps = s.gaps /\ u.subs = s.subs
          /\ u.focus = IF Same(t.focus, a.mastered) THEN None ELSE t.focus
        BY <1>11, <3>1, <3>2 DEF Profile
    <3>4. u.focus = None \/ Canon[u.focus] # Canon[a.mastered]  BY <3>3 DEF Same
    <3> QED  BY <2>2, <3>3, <3>4
  <2> QED  BY <2>1, <2>2
<1>13. s.subs = p.subs  BY <1>10
<1>14. /\ z \in Profile /\ z.mastered = s.mastered /\ z.gaps = s.gaps /\ z.focus = u.focus
       /\ z.subs = p.subs \cup ({a.sub} \ {None})
  <2>1. p.subs \cup ({a.sub} \ {None}) \in SUBSET Subtopics  BY <1>0
  <2> QED  BY <1>7, <1>12, <1>13, <2>1 DEF Profile
<1>15. IsFiniteSet(z.subs) /\ Cardinality(z.subs) <= MaxSubtopics
  <2>1. IsFiniteSet(p.subs) /\ Cardinality(p.subs) <= MaxSubtopics  BY DEF Sound
  <2>2. CASE a.sub \in p.subs \cup {None}
    <3>1. z.subs = p.subs  BY <1>14, <2>2
    <3> QED  BY <2>1, <3>1
  <2>3. CASE a.sub \notin p.subs \cup {None}
    <3>1. z.subs = p.subs \cup {a.sub} /\ a.sub \notin p.subs  BY <1>14, <2>3
    <3>2. ~(Cardinality(p.subs) >= MaxSubtopics)  BY <2>3 DEF Refuses
    <3>3. IsFiniteSet(z.subs) /\ Cardinality(z.subs) = Cardinality(p.subs) + 1
      <4>1. PICK S, x : S = p.subs /\ x = a.sub  OBVIOUS
      <4>2. IsFiniteSet(S) /\ x \notin S  BY <2>1, <3>1, <4>1
      <4>3. IsFiniteSet(S \cup {x}) /\ Cardinality(S \cup {x}) = Cardinality(S) + 1
          BY <4>2, FS_AddElement
      <4> QED  BY <3>1, <4>1, <4>3
    <3>4. Cardinality(p.subs) \in Nat  BY <2>1, FS_CardinalityType
    <3>5. MaxSubtopics \in Nat  BY CapsOK
    <3>6. \A c \in Nat : ~(c >= MaxSubtopics) => c + 1 <= MaxSubtopics  BY <3>5
    <3>7. Cardinality(p.subs) + 1 <= MaxSubtopics  BY <3>2, <3>4, <3>6
    <3> QED  BY <3>3, <3>7
  <2> QED  BY <2>2, <2>3
<1>16. Sound(z, E)  BY <1>10, <1>14, <1>15 DEF Sound
<1>17. Short(z, ListCap + 1, ListCap + 1)  BY <1>10, <1>14 DEF Short
<1>18. KeepsGap(p, z)
  <2> SUFFICES ASSUME p.focus # None, Canon[p.focus] \in Concepts(p.gaps), z.focus = p.focus
               PROVE  Canon[p.focus] \in Concepts(s.gaps)
      BY <1>14 DEF KeepsGap
  <2>1. CASE masters  BY <1>10, <1>12, <1>14, <2>1
  <2>2. CASE ~masters  BY <1>10, <2>2
  <2> QED  BY <2>1, <2>2
<1> QED  BY <1>16, <1>17, <1>18

(* More answers back as much.                                               *)
LEMMA SoundGrows ==
    ASSUME NEW E, NEW F, E \subseteq F, NEW p, Sound(p, E)
    PROVE  Sound(p, F)
<1>1. RightBacked(p.mastered, F)  BY DEF Sound, RightBacked, WasRight
<1>2. WrongBacked(p.gaps, F)  BY DEF Sound, WrongBacked, WasWrong
<1> QED  BY <1>1, <1>2 DEF Sound

LEMMA GradedKeeps ==
    ASSUME NEW E, NEW p, Sound(p, E), Short(p, ListCap, ListCap), NEW n \in Names,
           NEW right \in BOOLEAN, NEW F,
           F = E \cup {[name |-> Canon[n], right |-> right, here |-> TRUE]},
           NEW s, s = Graded(p, n, right)
    PROVE  Sound(s, F) /\ Short(s, ListCap + 1, ListCap + 1) /\ KeepsGap(p, s)
<1>0. /\ Sound(p, F) /\ Len(p.mastered) \in Nat /\ Len(p.gaps) \in Nat /\ ListCap \in Nat
      /\ Len(p.mastered) <= ListCap /\ Len(p.gaps) <= ListCap /\ p.focus \in Names \cup {None}
  <2>1. Sound(p, F)  BY SoundGrows
  <2> QED  BY <2>1, ListCapOK, ProfileIs DEF Sound, Short
<1>1. PICK ev \in Evidences : ev = "tested"  BY DEF Evidences
<1>2. Canon[n] \in Names /\ Canon[n] # None /\ Canon[Canon[n]] = Canon[n]  BY NamesOK
<1>3. PICK x \in F : x.name = Canon[n] /\ x.right = right
  <2>1. PICK y : y = [name |-> Canon[n], right |-> right, here |-> TRUE]  OBVIOUS
  <2>2. y \in F  BY <2>1
  <2>3. y.name = Canon[n] /\ y.right = right  BY <2>1
  <2> QED  BY <2>2, <2>3
<1>4. CASE right = TRUE
  <2>1. s = AddExclusive(p, "mastered", n, ev)  BY <1>1, <1>4 DEF Graded
  <2>2. WasRight(F, n)  BY <1>2, <1>3, <1>4 DEF WasRight, Same
  <2>3. Promoted(p, s, n, F)  BY <1>0, <2>1, <2>2, AddMastered
  <2>4. Len(s.mastered) \in Nat /\ Len(s.gaps) \in Nat  BY <2>3, ProfileIs DEF Sound, Promoted
  <2>5. Sound(s, F) /\ Short(s, ListCap + 1, ListCap + 1)
      BY <1>0, <2>3, <2>4 DEF Promoted, Short
  <2>6. s.focus = p.focus /\ p.focus # None => Canon[p.focus] # Canon[n]
      BY <2>3 DEF Promoted, Same
  <2> QED  BY <2>3, <2>5, <2>6 DEF Promoted, KeepsGap
<1>5. CASE right = FALSE
  <2>1. s = AddExclusive(p, "gaps", n, ev)  BY <1>1, <1>5 DEF Graded
  <2>2. WasWrong(F, n)  BY <1>2, <1>3, <1>5 DEF WasWrong, Same
  <2>3. Demoted(p, s, n, F)  BY <1>0, <2>1, <2>2, AddGap
  <2>4. Len(s.mastered) \in Nat /\ Len(s.gaps) \in Nat  BY <2>3, ProfileIs DEF Sound, Demoted
  <2>5. Sound(s, F) /\ Short(s, ListCap + 1, ListCap + 1)
      BY <1>0, <2>3, <2>4 DEF Demoted, Short
  <2> QED  BY <2>3, <2>5 DEF Demoted, KeepsGap
<1> QED  BY <1>4, <1>5

-----------------------------------------------------------------------------
(* The inductive invariant.                                                 *)

Good(p, E) == Sound(p, E) /\ Short(p, ListCap, ListCap)
Types ==
    /\ saves \in 0 .. MaxSaves
    /\ lock \in Clients \cup {Tutor, None}
    /\ events \subseteq Event
    /\ seen \in [Clients -> Profile \cup {None}]
    /\ edit \in [Clients -> Edits \cup {None}]
    /\ copy \in [Writers -> Profile \cup {None}]
(* Who is between the comparison of the etag and the save holds the lock.   *)
Editing == \A c \in Clients : edit[c] # None => lock = c /\ seen[c] = prof
Copies == \A w \in Writers : copy[w] # None => Good(copy[w], events)
Inv == Types /\ Good(prof, events) /\ Editing /\ Copies

(* A step that keeps the invariant and, not from an outdated copy, the gap. *)
Fine == Inv' /\ (~Outdated => KeepsGap(prof, prof'))

LEMMA Saved ==
    ASSUME NEW E, NEW s, Sound(s, E), Short(s, ListCap + 1, ListCap + 1), NEW p, NEW q,
           q = Capped(s)
    PROVE  Good(q, E) /\ (KeepsGap(p, s) => KeepsGap(p, q))
<1>1. /\ Sound(q, E) /\ Short(q, ListCap, ListCap) /\ q.focus = s.focus
      /\ s.focus # None /\ Canon[s.focus] \in Concepts(s.gaps)
           => Canon[s.focus] \in Concepts(q.gaps)
    BY CappedKeeps
<1> QED  BY <1>1 DEF Good, KeepsGap

LEMMA SavesCount == ASSUME Types, NEW s, Save(s) PROVE saves' \in 0 .. MaxSaves /\ prof' = Capped(s)
<1>1. saves \in Nat /\ MaxSaves \in Nat /\ saves < MaxSaves /\ saves' = saves + 1
    BY CapsOK DEF Types, Save
<1> QED  BY <1>1 DEF Save

LEMMA NobodyEdits ==
    ASSUME Inv, lock \in {None, Tutor} PROVE \A c \in Clients : edit[c] = None
BY NoneOK DEF Inv, Editing

(* A short profile is one before the save, too.                             *)
LEMMA Looser ==
    ASSUME NEW E, NEW p, Good(p, E)
    PROVE  Sound(p, E) /\ Short(p, ListCap + 1, ListCap + 1) /\ KeepsGap(p, p)
<1>1. Len(p.mastered) \in Nat /\ Len(p.gaps) \in Nat /\ ListCap \in Nat
    BY ProfileIs, ListCapOK DEF Good, Sound
<1> QED  BY <1>1 DEF Good, Short, KeepsGap

LEMMA Stays == ASSUME Inv, UNCHANGED <<prof, events>> PROVE Good(prof', events') /\ KeepsGap(prof, prof')
BY DEF Inv, KeepsGap

LEMMA GetFine == ASSUME Inv, NEW c \in Clients, Get(c) PROVE Fine
<1>1. Types'  BY DEF Inv, Types, Get, Good, Sound
<1>2. Good(prof', events') /\ KeepsGap(prof, prof')  BY Stays DEF Get
<1>3. Editing'  BY DEF Inv, Types, Editing, Get
<1>4. Copies'  BY DEF Inv, Copies, Get
<1> QED  BY <1>1, <1>2, <1>3, <1>4 DEF Inv, Fine

LEMMA MismatchFine == ASSUME Inv, NEW c \in Clients, Mismatch(c) PROVE Fine
<1>1. Types'  BY DEF Inv, Types, Mismatch
<1>2. Good(prof', events') /\ KeepsGap(prof, prof')  BY Stays DEF Mismatch
<1>3. Editing'  BY DEF Inv, Types, Editing, Mismatch
<1>4. Copies'  BY DEF Inv, Copies, Mismatch
<1> QED  BY <1>1, <1>2, <1>3, <1>4 DEF Inv, Fine

LEMMA MatchFine == ASSUME Inv, NEW c \in Clients, Match(c) PROVE Fine
<1>1. Types'  BY DEF Inv, Types, Match
<1>2. Good(prof', events') /\ KeepsGap(prof, prof')  BY Stays DEF Match
<1>3. Editing'
  <2>1. \A d \in Clients : edit[d] = None  BY NobodyEdits DEF Match, LockFree
  <2> QED  BY <2>1 DEF Inv, Types, Editing, Match
<1>4. Copies'  BY DEF Inv, Copies, Match
<1> QED  BY <1>1, <1>2, <1>3, <1>4 DEF Inv, Fine

LEMMA ApplyFine == ASSUME Inv, NEW c \in Clients, Apply(c) PROVE Fine
<1>1. PICK e : e = edit[c] /\ e \in Edit /\ lock = c /\ edit[c] # None
    BY InputsOK DEF Inv, Types, Editing, Apply
<1>2. /\ Good(prof', events') /\ KeepsGap(prof, prof') /\ saves' \in 0 .. MaxSaves
      /\ seen' \in [Clients -> Profile \cup {None}]
  <2>1. CASE Acceptable(prof, e)
    <3>1. PICK s : s = Edited(prof, e)  OBVIOUS
    <3>2. Sound(s, events) /\ Short(s, ListCap + 1, ListCap + 1) /\ KeepsGap(prof, s)
        BY <1>1, <2>1, <3>1, EditedKeeps DEF Inv, Good
    <3>3. Save(s) /\ seen' = [seen EXCEPT ![c] = prof'] /\ events' = events
        BY <1>1, <2>1, <3>1 DEF Apply
    <3>4. prof' = Capped(s) /\ saves' \in 0 .. MaxSaves  BY <3>3, SavesCount DEF Inv
    <3>5. Good(prof', events') /\ KeepsGap(prof, prof')  BY <3>2, <3>3, <3>4, Saved
    <3>6. prof' \in Profile  BY <3>5 DEF Good, Sound
    <3> QED  BY <3>3, <3>4, <3>5, <3>6 DEF Inv, Types
  <2>2. CASE ~Acceptable(prof, e)
    <3>1. UNCHANGED <<prof, saves, seen, events>>  BY <1>1, <2>2 DEF Apply, NotSaved
    <3> QED  BY <3>1, Stays DEF Inv, Types
  <2> QED  BY <2>1, <2>2
<1>3. Types'  BY <1>2 DEF Inv, Types, Apply
<1>4. Editing'
  <2>1. \A d \in Clients : d # c => edit[d] = None  BY <1>1 DEF Inv, Editing
  <2> QED  BY <2>1 DEF Inv, Types, Editing, Apply
<1>5. Copies'  BY DEF Inv, Copies, Apply
<1> QED  BY <1>2, <1>3, <1>4, <1>5 DEF Inv, Fine

LEMMA TutorPatchFine == ASSUME Inv, TutorPatch PROVE Fine
<1>1. PICK a \in Patches : IF Refuses(prof, a) THEN lock' = Tutor /\ NotSaved
                           ELSE Save(Merged(prof, a)) /\ UNCHANGED lock
    BY DEF TutorPatch
<1>2. UNCHANGED <<events, seen, edit, copy>> /\ lock = None  BY DEF TutorPatch, LockFree
<1>3. Good(prof', events') /\ KeepsGap(prof, prof') /\ saves' \in 0 .. MaxSaves
  <2>1. CASE ~Refuses(prof, a)
    <3>1. PICK s : s = Merged(prof, a)  OBVIOUS
    <3>2. a \in Patch  BY InputsOK
    <3>3. Sound(s, events) /\ Short(s, ListCap + 1, ListCap + 1) /\ KeepsGap(prof, s)
        BY <2>1, <3>1, <3>2, MergedKeeps DEF Inv, Good
    <3>4. Save(s)  BY <1>1, <2>1, <3>1
    <3>5. prof' = Capped(s) /\ saves' \in 0 .. MaxSaves  BY <3>4, SavesCount DEF Inv
    <3> QED  BY <1>2, <3>3, <3>5, Saved
  <2>2. CASE Refuses(prof, a)
    <3>1. UNCHANGED <<prof, saves, events>>  BY <1>1, <1>2, <2>2 DEF NotSaved
    <3> QED  BY <3>1, Stays DEF Inv, Types
  <2> QED  BY <2>1, <2>2
<1>4. Types'  BY <1>1, <1>2, <1>3 DEF Inv, Types
<1>5. Editing'  BY <1>2, NobodyEdits DEF Editing
<1>6. Copies'  BY <1>2 DEF Inv, Copies
<1> QED  BY <1>3, <1>4, <1>5, <1>6 DEF Inv, Fine

LEMMA TutorCommitsFine == ASSUME Inv, TutorCommits PROVE Fine
<1>1. Types'  BY DEF Inv, Types, TutorCommits
<1>2. Good(prof', events') /\ KeepsGap(prof, prof')  BY Stays DEF TutorCommits
<1>3. Editing'  BY NobodyEdits DEF Editing, TutorCommits
<1>4. Copies'  BY DEF Inv, Copies, TutorCommits
<1> QED  BY <1>1, <1>2, <1>3, <1>4 DEF Inv, Fine

LEMMA LoadFine == ASSUME Inv, NEW w \in Writers, Load(w) PROVE Fine
<1>1. Types'  BY DEF Inv, Types, Load, Good, Sound
<1>2. Good(prof', events') /\ KeepsGap(prof, prof')  BY Stays DEF Load
<1>3. Editing'  BY DEF Inv, Editing, Load
<1>4. Copies'  BY DEF Inv, Types, Copies, Load
<1> QED  BY <1>1, <1>2, <1>3, <1>4 DEF Inv, Fine

(* The copy a writer saves is the row's profile unless it is outdated.      *)
LEMMA CopyIs ==
    ASSUME Inv, NEW w \in Writers, copy[w] # None, copy' = [copy EXCEPT ![w] = None]
    PROVE  Good(copy[w], events) /\ (~Outdated => copy[w] = prof)
<1>1. copy'[w] = None  BY DEF Inv, Types
<1> QED  BY <1>1 DEF Inv, Copies, Outdated

LEMMA GradeFine == ASSUME Inv, NEW w \in Writers, Grade(w) PROVE Fine
<1>0. /\ copy[w] # None /\ lock = None /\ copy' = [copy EXCEPT ![w] = None]
      /\ UNCHANGED <<lock, seen, edit>>
    BY DEF Grade, LockFree
<1>1. PICK n \in Names, right \in BOOLEAN, diagnostic \in BOOLEAN :
         /\ events' = events \cup {[name |-> Canon[n], right |-> right, here |-> TRUE]}
         /\ IF diagnostic THEN NotSaved
            ELSE Save(Graded(copy[w], n, right))
    BY Zenon DEF Grade
<1>2. events' \subseteq Event /\ events \subseteq events'
  <2>1. PICK y : y = [name |-> Canon[n], right |-> right, here |-> TRUE]  OBVIOUS
  <2>2. Canon[n] \in Names  BY NamesOK
  <2>3. y \in Event  BY <2>1, <2>2 DEF Event
  <2> QED  BY <1>1, <2>1, <2>3 DEF Inv, Types
<1>3. PICK c : c = copy[w]  OBVIOUS
<1>4. Good(c, events) /\ (~Outdated => c = prof)  BY <1>0, <1>3, CopyIs
<1>5. /\ Good(prof', events') /\ saves' \in 0 .. MaxSaves
      /\ ~Outdated => KeepsGap(prof, prof')
  <2>1. CASE diagnostic = FALSE
    <3>1. PICK s : s = Graded(c, n, right)  OBVIOUS
    <3>2. Sound(s, events') /\ Short(s, ListCap + 1, ListCap + 1) /\ KeepsGap(c, s)
        BY <1>1, <1>4, <3>1, GradedKeeps DEF Good
    <3>3. Save(s)  BY <1>1, <1>3, <2>1, <3>1
    <3>4. prof' = Capped(s) /\ saves' \in 0 .. MaxSaves  BY <3>3, SavesCount DEF Inv
    <3>5. Good(prof', events') /\ KeepsGap(c, prof')  BY <3>2, <3>4, Saved
    <3> QED  BY <1>4, <3>4, <3>5
  <2>2. CASE diagnostic = TRUE
    <3>1. UNCHANGED <<prof, saves>>  BY <1>1, <2>2 DEF NotSaved
    <3>2. Good(prof, events')  BY <1>2, SoundGrows DEF Inv, Good
    <3>3. KeepsGap(prof, prof')  BY <3>1 DEF KeepsGap
    <3> QED  BY <3>1, <3>2, <3>3 DEF Inv, Types
  <2> QED  BY <2>1, <2>2
<1>6. Types'  BY <1>0, <1>2, <1>5 DEF Inv, Types
<1>7. Editing'  BY <1>0, NobodyEdits DEF Editing
<1>8. Copies'
  <2>1. SUFFICES ASSUME NEW v \in Writers, copy'[v] # None PROVE Good(copy'[v], events')
      BY DEF Copies
  <2>2. copy'[v] = copy[v] /\ Good(copy[v], events)  BY <1>0, <2>1 DEF Inv, Types, Copies
  <2> QED  BY <1>2, <2>2, SoundGrows DEF Good
<1> QED  BY <1>5, <1>6, <1>7, <1>8 DEF Inv, Fine

LEMMA StoreSummaryFine == ASSUME Inv, NEW w \in Writers, StoreSummary(w) PROVE Fine
<1>0. /\ copy[w] # None /\ lock = None /\ copy' = [copy EXCEPT ![w] = None]
      /\ UNCHANGED <<lock, events, seen, edit>> /\ Save(copy[w])
    BY DEF StoreSummary, LockFree
<1>1. PICK c : c = copy[w]  OBVIOUS
<1>2. Good(c, events) /\ (~Outdated => c = prof)  BY <1>0, <1>1, CopyIs
<1>3. Sound(c, events) /\ Short(c, ListCap + 1, ListCap + 1) /\ KeepsGap(c, c)
    BY <1>2, Looser
<1>4. prof' = Capped(c) /\ saves' \in 0 .. MaxSaves  BY <1>0, <1>1, SavesCount DEF Inv
<1>5. Good(prof', events) /\ KeepsGap(c, prof')  BY <1>3, <1>4, Saved
<1>6. Types'  BY <1>0, <1>4 DEF Inv, Types
<1>7. Editing'  BY <1>0, NobodyEdits DEF Editing
<1>8. Copies'
  <2>1. SUFFICES ASSUME NEW v \in Writers, copy'[v] # None PROVE Good(copy'[v], events)
      BY <1>0 DEF Copies
  <2> QED  BY <1>0, <2>1 DEF Inv, Types, Copies
<1> QED  BY <1>0, <1>2, <1>5, <1>6, <1>7, <1>8 DEF Inv, Fine

LEMMA Initially == Init => Inv
<1> SUFFICES ASSUME Init PROVE Inv  OBVIOUS
<1>1. /\ lock = None /\ saves = 0 /\ seen = [c \in Clients |-> None]
      /\ edit = [c \in Clients |-> None] /\ copy = [w \in Writers |-> None]
    BY DEF Init
<1>2. Editing /\ Copies  BY <1>1 DEF Editing, Copies
<1>3. events \subseteq Event /\ Good(prof, events)
  <2>0. /\ <<>> \in Seq(Entry) /\ DOMAIN <<>> = {} /\ Len(<<>>) = 0
        /\ IsFiniteSet({}) /\ Cardinality({}) = 0 /\ ListCap \in Nat \ {0} /\ MaxSubtopics \in Nat
    <3>1. <<>> \in Seq(Entry) /\ DOMAIN <<>> = {} /\ Len(<<>>) = 0  OBVIOUS
    <3> QED  BY <3>1, FS_EmptySet, ListCapOK, CapsOK
  <2>1. CASE prof = Empty /\ events = {}
    <3>1. /\ prof \in Profile /\ prof.mastered = <<>> /\ prof.gaps = <<>> /\ prof.subs = {}
        BY <2>0, <2>1 DEF Empty, Profile
    <3>2. Once(prof.mastered) /\ Once(prof.gaps) /\ Concepts(prof.mastered) = {}
        BY <2>0, <3>1 DEF Once, Concepts
    <3>3. RightBacked(prof.mastered, events) /\ WrongBacked(prof.gaps, events)
        BY <2>0, <3>1 DEF RightBacked, WrongBacked
    <3>4. Short(prof, ListCap, ListCap)  BY <2>0, <3>1 DEF Short
    <3> QED  BY <2>0, <2>1, <3>1, <3>2, <3>3, <3>4 DEF Good, Sound
  <2>2. ASSUME NEW n \in Names, NEW m \in Names, Canon[n] # Canon[m], Seeded(n, m)
        PROVE  events \subseteq Event /\ Good(prof, events)
    <3>1. PICK d \in Entry, e \in Entry : /\ d = [name |-> n, ev |-> "tested"] /\ d.name = n
                                        /\ e = [name |-> m, ev |-> "tested"] /\ e.name = m
      <4>1. [name |-> n, ev |-> "tested"] \in Entry /\ [name |-> m, ev |-> "tested"] \in Entry
          BY DEF Entry
      <4>2. PICK d, e : d = [name |-> n, ev |-> "tested"] /\ e = [name |-> m, ev |-> "tested"]
          OBVIOUS
      <4>3. d.name = n /\ e.name = m /\ d \in Entry /\ e \in Entry  BY <4>1, <4>2
      <4> QED  BY <4>2, <4>3
    <3>2. PICK x, y : /\ x = [name |-> Canon[n], right |-> TRUE, here |-> FALSE]
                      /\ y = [name |-> Canon[m], right |-> FALSE, here |-> FALSE]
        OBVIOUS
    <3>3. /\ prof = [Empty EXCEPT !.mastered = <<d>>, !.gaps = <<e>>, !.focus = m]
          /\ events = {x, y}
        BY <2>2, <3>1, <3>2 DEF Seeded
    <3>4. /\ <<d>> \in Seq(Entry) /\ <<e>> \in Seq(Entry) /\ Len(<<d>>) = 1 /\ Len(<<e>>) = 1
          /\ DOMAIN <<d>> = {1} /\ DOMAIN <<e>> = {1} /\ <<d>>[1] = d /\ <<e>>[1] = e
        OBVIOUS
    <3>5. /\ prof \in Profile /\ prof.mastered = <<d>> /\ prof.gaps = <<e>> /\ prof.subs = {}
        BY <2>0, <3>3, <3>4 DEF Empty, Profile
    <3>6. /\ Canon[n] \in Names /\ Canon[n] # None /\ Canon[Canon[n]] = Canon[n]
          /\ Canon[m] \in Names /\ Canon[m] # None /\ Canon[Canon[m]] = Canon[m]
        BY NamesOK
    <3>7. /\ x \in Event /\ x.name = Canon[n] /\ x.right = TRUE
          /\ y \in Event /\ y.name = Canon[m] /\ y.right = FALSE
        BY <3>2, <3>6 DEF Event
    <3>8. WasRight(events, n) /\ WasWrong(events, m)
        BY <3>3, <3>6, <3>7 DEF WasRight, WasWrong, Same
    <3>9. Once(prof.mastered) /\ Once(prof.gaps)  BY <3>4, <3>5 DEF Once
    <3>10. \A i \in DOMAIN prof.mastered : prof.mastered[i].name = n  BY <3>1, <3>4, <3>5
    <3>11. \A i \in DOMAIN prof.gaps : prof.gaps[i].name = m  BY <3>1, <3>4, <3>5
    <3>12. Concepts(prof.mastered) \cap Concepts(prof.gaps) = {}
        BY <2>2, <3>10, <3>11 DEF Concepts
    <3>13. RightBacked(prof.mastered, events) /\ WrongBacked(prof.gaps, events)
        BY <3>8, <3>10, <3>11 DEF RightBacked, WrongBacked
    <3>14. Short(prof, ListCap, ListCap)  BY <2>0, <3>4, <3>5 DEF Short
    <3> QED  BY <2>0, <2>2, <3>3, <3>5, <3>7, <3>9, <3>12, <3>13, <3>14 DEF Good, Sound
  <2> QED  BY <2>1, <2>2 DEF Init
<1>4. Types  BY <1>1, <1>3, CapsOK DEF Types
<1> QED  BY <1>2, <1>3, <1>4 DEF Inv

LEMMA Step == ASSUME Inv, [Next]_vars PROVE Fine
<1>1. ASSUME NEW c \in Clients, Get(c) \/ Mismatch(c) \/ Match(c) \/ Apply(c) PROVE Fine
    BY <1>1, GetFine, MismatchFine, MatchFine, ApplyFine
<1>2. ASSUME NEW w \in Writers, Load(w) \/ Grade(w) \/ StoreSummary(w) PROVE Fine
    BY <1>2, LoadFine, GradeFine, StoreSummaryFine
<1>3. CASE UNCHANGED vars
  <2>1. KeepsGap(prof, prof')  BY <1>3 DEF vars, KeepsGap
  <2>2. Types'  BY <1>3 DEF vars, Inv, Types
  <2>3. Good(prof', events')  BY <1>3 DEF vars, Inv
  <2>4. Editing' /\ Copies'  BY <1>3 DEF vars, Inv, Editing, Copies
  <2> QED  BY <2>1, <2>2, <2>3, <2>4 DEF Fine, Inv
<1> QED  BY <1>1, <1>2, <1>3, TutorPatchFine, TutorCommitsFine DEF Next

(* The profile is always well-formed, within the caps on its lists and on  *)
(* its subtopics, and what clients and requests hold of it is a profile.    *)
THEOREM TypeCorrect == Spec => []TypeOK
<1>1. Inv => TypeOK  BY DEF Inv, Types, Good, Sound, Short, TypeOK
<1> QED  BY <1>1, Initially, Step, PTL DEF Spec, Fine

(* However edits, tool calls and graded answers interleave, and whatever    *)
(* outdated copy is saved over them, no concept stands twice in the lists,  *)
(* under no spelling.                                                       *)
THEOREM ConceptsStandOnce == Spec => []OnePlace
<1>1. ASSUME Inv PROVE OnePlace
  <2>1. PICK m, g : m = prof.mastered /\ g = prof.gaps  OBVIOUS
  <2>2. /\ m \in Seq(Entry) /\ g \in Seq(Entry) /\ Once(m) /\ Once(g)
        /\ Concepts(m) \cap Concepts(g) = {}
      BY <1>1, <2>1, ProfileIs DEF Inv, Good, Sound
  <2>3. /\ Len(m) \in Nat /\ DOMAIN m = 1 .. Len(m) /\ Len(g) \in Nat /\ DOMAIN g = 1 .. Len(g)
      BY <2>2, Entries
  <2>4. /\ DOMAIN (m \o g) = 1 .. Len(m) + Len(g)
        /\ \A i \in 1 .. Len(m) : (m \o g)[i] = m[i]
        /\ \A i \in Len(m) + 1 .. Len(m) + Len(g) : (m \o g)[i] = g[i - Len(m)]
      BY <2>2, <2>3
  <2>5. ASSUME NEW i \in DOMAIN (m \o g), NEW j \in DOMAIN (m \o g),
               Canon[(m \o g)[i].name] = Canon[(m \o g)[j].name]
        PROVE  i = j
    <3>1. CASE i \in DOMAIN m /\ j \in DOMAIN m
        BY <2>2, <2>3, <2>4, <2>5, <3>1 DEF Once
    <3>2. ASSUME NEW k \in DOMAIN (m \o g), k \notin DOMAIN m
          PROVE  k - Len(m) \in DOMAIN g /\ (m \o g)[k] = g[k - Len(m)] /\ k \in Nat
        BY <2>3, <2>4, <3>2
    <3>3. CASE i \notin DOMAIN m /\ j \notin DOMAIN m
      <4>1. i - Len(m) = j - Len(m)  BY <2>2, <2>5, <3>2, <3>3 DEF Once
      <4> QED  BY <2>3, <3>2, <3>3, <4>1
    <3>4. CASE i \in DOMAIN m /\ j \notin DOMAIN m
      <4>1. (m \o g)[i] = m[i]  BY <2>3, <2>4, <3>4
      <4>2. Canon[m[i].name] \in Concepts(m) \cap Concepts(g)
          BY <2>5, <3>2, <3>4, <4>1 DEF Concepts
      <4> QED  BY <2>2, <4>2
    <3>5. CASE i \notin DOMAIN m /\ j \in DOMAIN m
      <4>1. (m \o g)[j] = m[j]  BY <2>3, <2>4, <3>5
      <4>2. Canon[m[j].name] \in Concepts(m) \cap Concepts(g)
          BY <2>5, <3>2, <3>5, <4>1 DEF Concepts
      <4> QED  BY <2>2, <4>2
    <3> QED  BY <3>1, <3>3, <3>4, <3>5
  <2> QED  BY <2>1, <2>5 DEF OnePlace
<1> QED  BY <1>1, Initially, Step, PTL DEF Spec, Fine

(* An entry is called tested only if a learning event recorded here or in a *)
(* prior session showed it, whoever put it where it stands.                 *)
THEOREM TestedMeansTested == Spec => []TestedIsTested
<1>1. Inv => TestedIsTested
    BY DEF Inv, Good, Sound, RightBacked, WrongBacked, WasRight, WasWrong, TestedIsTested
<1> QED  BY <1>1, Initially, Step, PTL DEF Spec, Fine

(* Between the comparison of its etag and its save, nobody else writes the  *)
(* profile: a learner's edit meets the very version it was made on.         *)
THEOREM EditsMeetTheirEtag == Spec => []EditMeetsItsEtag
<1>1. Inv => EditMeetsItsEtag  BY DEF Inv, Editing, EditMeetsItsEtag
<1> QED  BY <1>1, Initially, Step, PTL DEF Spec, Fine

(* No edit, tool call, answer or eviction takes the gap from under a focus  *)
(* that stays, unless it saves a copy older than the profile.               *)
THEOREM GapsStayUnderFocus == Spec => FocusKeepsItsGap
<1>1. ASSUME Inv, Fine, Has(prof.gaps, prof.focus), prof'.focus = prof.focus, ~Outdated
      PROVE  Has(prof'.gaps, prof'.focus)
  <2>1. prof.gaps \in Seq(Entry) /\ prof'.gaps \in Seq(Entry)
      BY <1>1, ProfileIs DEF Inv, Fine, Good, Sound
  <2>2. PICK g, h, f : g = prof.gaps /\ h = prof'.gaps /\ f = prof.focus  OBVIOUS
  <2>3. f # None /\ Canon[f] \in Concepts(g)  BY <1>1, <2>1, <2>2, HasIs
  <2>4. Canon[f] \in Concepts(h)  BY <1>1, <2>2, <2>3 DEF Fine, KeepsGap
  <2>5. Has(h, f)  BY <2>1, <2>2, <2>3, <2>4, HasIs
  <2> QED  BY <1>1, <2>2, <2>5
<1>2. Inv /\ [Next]_vars
        => [Has(prof.gaps, prof.focus) /\ prof'.focus = prof.focus /\ ~Outdated
              => Has(prof'.gaps, prof'.focus)]_vars
    BY <1>1, Step
<1>3. Inv /\ [Next]_vars => Inv'  BY Step DEF Fine
<1> QED  BY <1>2, <1>3, Initially, PTL DEF Spec, FocusKeepsItsGap
=============================================================================
