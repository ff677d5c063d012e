--------------------------- MODULE ConceptListsProof ---------------------------
(***************************************************************************)
(* What the operators of ConceptLists do to a list of entries, for any      *)
(* names and spellings and any list cap: the lemmas that the proofs about   *)
(* TopicProfile and LearnerViews share.                                     *)
(***************************************************************************)
EXTENDS ConceptLists, FiniteSetTheorems, FunctionTheorems, SequenceTheorems,
        WellFoundedInduction, TLAPS

-----------------------------------------------------------------------------
(* What the list operators do to a list of entries.                         *)

Concepts(list) == {Canon[list[i].name] : i \in DOMAIN list}
Once(list) == \A i, j \in DOMAIN list : Canon[list[i].name] = Canon[list[j].name] => i = j
From(t, list) == \A i \in DOMAIN t : \E j \in DOMAIN list : t[i] = list[j]

LEMMA MinIs ==
    ASSUME NEW S \in SUBSET Nat, S # {}
    PROVE  Min(S) \in S /\ \A y \in S : Min(S) <= y
<1> DEFINE R == {ss \in Nat \X Nat : ss[1] < ss[2]}
<1>1. IsWellFoundedOn(R, Nat)  BY NatLessThanWellFounded DEF OpToRel
<1>2. PICK x \in S : \A y \in S : <<y, x>> \notin R
  <2> HIDE DEF R
  <2> QED  BY <1>1, WFMin
<1>3. \A y \in S : ~(y < x)
  <2> SUFFICES ASSUME NEW y \in S, y < x PROVE FALSE
      OBVIOUS
  <2>1. <<y, x>> \in R  OBVIOUS
  <2> QED  BY <2>1, <1>2
<1>4. \A y \in S : x =< y  BY <1>3
<1> QED  BY <1>4 DEF Min

LEMMA MaxIs ==
    ASSUME NEW S \in SUBSET Nat, S # {}, NEW n \in Nat, \A y \in S : y <= n
    PROVE  Max(S) \in S /\ \A y \in S : y <= Max(S)
<1>1. PICK T : T = {t \in Nat : n - t \in S}  OBVIOUS
<1>2. T \in SUBSET Nat /\ T # {}
  <2>1. PICK y \in S : y \in Nat /\ y <= n  OBVIOUS
  <2>2. n - y \in Nat /\ n - (n - y) = y  BY <2>1
  <2> QED  BY <1>1, <2>1, <2>2
<1>3. PICK t \in T : \A u \in T : t <= u
  <2>1. Min(T) \in T /\ \A u \in T : Min(T) <= u  BY <1>2, MinIs
  <2> QED  BY <2>1
<1>4. n - t \in S  BY <1>1
<1>5. ASSUME NEW y \in S PROVE n - t >= y
  <2>1. y \in Nat /\ y <= n  OBVIOUS
  <2>2. n - y \in Nat /\ n - (n - y) = y  BY <2>1
  <2>3. n - y \in T  BY <1>1, <2>2
  <2>4. t <= n - y /\ t \in Nat  BY <1>3, <2>3, <1>2
  <2> QED  BY <2>1, <2>4
<1>6. \E x \in S : \A y \in S : x >= y  BY <1>4, <1>5
<1>7. Max(S) \in S /\ \A y \in S : Max(S) >= y  BY <1>6 DEF Max
<1>8. Max(S) \in Nat  BY <1>7
<1> QED  BY <1>7, <1>8

LEMMA RemoveAtIs ==
    ASSUME NEW S, NEW list \in Seq(S), NEW k \in 1 .. Len(list)
    PROVE  /\ RemoveAt(list, k) \in Seq(S)
           /\ Len(RemoveAt(list, k)) = Len(list) - 1
           /\ \A i \in 1 .. k - 1 : RemoveAt(list, k)[i] = list[i]
           /\ \A i \in k .. Len(list) - 1 : RemoveAt(list, k)[i] = list[i + 1]
<1>0. PICK u, v : u = SubSeq(list, 1, k - 1) /\ v = SubSeq(list, k + 1, Len(list))
    OBVIOUS
<1>1. u \in Seq(S) /\ Len(u) = k - 1 /\ \A i \in 1 .. k - 1 : u[i] = list[i]
    BY <1>0
<1>2. v \in Seq(S) /\ Len(v) = Len(list) - k /\ \A i \in 1 .. Len(list) - k : v[i] = list[k + i]
    BY <1>0
<1>3. RemoveAt(list, k) = u \o v  BY <1>0 DEF RemoveAt
<1>4. k \in Nat /\ Len(list) \in Nat /\ Len(u \o v) = Len(list) - 1 /\ u \o v \in Seq(S)
  <2>1. Len(u \o v) = Len(u) + Len(v) /\ u \o v \in Seq(S)
      BY <1>1, <1>2, ConcatProperties
  <2> QED  BY <1>1, <1>2, <2>1
<1>5. \A i \in 1 .. k - 1 : (u \o v)[i] = list[i]  BY <1>1, <1>2, <1>4
<1>6. ASSUME NEW i \in k .. Len(list) - 1 PROVE (u \o v)[i] = list[i + 1]
  <2>1. (u \o v)[i] = v[i - (k - 1)]  BY <1>1, <1>2, <1>4
  <2>2. i - (k - 1) \in 1 .. Len(list) - k /\ k + (i - (k - 1)) = i + 1  BY <1>4
  <2> QED  BY <2>1, <2>2, <1>2
<1> QED  BY <1>3, <1>4, <1>5, <1>6

(* An entry leaves a list in which no concept stands twice.                 *)
LEMMA Removed ==
    ASSUME NEW list \in Seq(Entry), Once(list), NEW k \in 1 .. Len(list),
           NEW t, t = RemoveAt(list, k)
    PROVE  /\ t \in Seq(Entry) /\ Len(t) = Len(list) - 1
           /\ From(t, list) /\ Once(t)
           /\ Concepts(t) = Concepts(list) \ {Canon[list[k].name]}
<1> DEFINE at(i) == IF i < k THEN i ELSE i + 1
<1>1. /\ t \in Seq(Entry) /\ Len(t) = Len(list) - 1 /\ Len(list) \in Nat /\ k \in Nat
      /\ DOMAIN t = 1 .. Len(list) - 1 /\ DOMAIN list = 1 .. Len(list)
    BY RemoveAtIs
<1>2. \A i \in DOMAIN t : at(i) \in DOMAIN list /\ at(i) # k /\ t[i] = list[at(i)]
  <2> SUFFICES ASSUME NEW i \in DOMAIN t
               PROVE  at(i) \in DOMAIN list /\ at(i) # k /\ t[i] = list[at(i)]
      OBVIOUS
  <2>1. /\ \A z \in 1 .. k - 1 : t[z] = list[z]
        /\ \A z \in k .. Len(list) - 1 : t[z] = list[z + 1]
      BY RemoveAtIs
  <2>2. CASE i < k  BY <1>1, <2>1, <2>2
  <2>3. CASE ~(i < k)
    <3>1. i \in k .. Len(list) - 1 /\ at(i) = i + 1  BY <1>1, <2>3
    <3> QED  BY <1>1, <2>1, <3>1
  <2> QED  BY <2>2, <2>3
<1>3. \A i, j \in DOMAIN t : at(i) = at(j) => i = j  BY <1>1
<1>4. \A j \in DOMAIN list : j # k => \E i \in DOMAIN t : at(i) = j
  <2> SUFFICES ASSUME NEW j \in DOMAIN list, j # k
               PROVE  \E i \in DOMAIN t : at(i) = j
      OBVIOUS
  <2>1. CASE j < k
    <3>1. j \in DOMAIN t /\ at(j) = j  BY <1>1, <2>1
    <3> QED  BY <3>1
  <2>2. CASE j > k
    <3>1. j - 1 \in DOMAIN t /\ at(j - 1) = j  BY <1>1, <2>2
    <3> QED  BY <3>1
  <2> QED  BY <1>1, <2>1, <2>2
<1> HIDE DEF at
<1>5. From(t, list) /\ Once(t)  BY <1>2, <1>3 DEF From, Once
<1>6. Concepts(t) \subseteq Concepts(list) \ {Canon[list[k].name]}
    BY <1>1, <1>2 DEF Concepts, Once
<1>7. Concepts(list) \ {Canon[list[k].name]} \subseteq Concepts(t)
  <2> SUFFICES ASSUME NEW j \in DOMAIN list, j # k PROVE Canon[list[j].name] \in Concepts(t)
      BY <1>1 DEF Concepts
  <2>1. PICK i \in DOMAIN t : t[i] = list[j]  BY <1>2, <1>4
  <2> QED  BY <2>1 DEF Concepts
<1> QED  BY <1>1, <1>5, <1>6, <1>7

LEMMA SameIs ==
    ASSUME NEW m \in Names, NEW n \in Names
    PROVE  Same(m, n) = (Canon[m] = Canon[n])
BY NamesOK DEF Same

(* The first entry that passes a test goes, if there is one.                *)
Goes(list, t, k) == k \in 1 .. Len(list) /\ t = RemoveAt(list, k)

LEMMA WithoutGoes ==
    ASSUME NEW list \in Seq(Entry), NEW n
    PROVE  \/ Without(list, n) = list /\ \A i \in 1 .. Len(list) : ~Same(n, list[i].name)
           \/ \E k : Goes(list, Without(list, n), k) /\ Same(n, list[k].name)
<1> DEFINE I == {i \in 1 .. Len(list) : Same(n, list[i].name)}
<1>1. CASE I = {}
    BY <1>1 DEF Without, RemoveFirstMatch
<1>2. CASE I # {}
  <2>1. Min(I) \in I
    <3>1. I \in SUBSET Nat  OBVIOUS
    <3> HIDE DEF I
    <3> QED  BY <1>2, <3>1, MinIs
  <2>2. Without(list, n) = RemoveAt(list, Min(I))
      BY <1>2 DEF Without, RemoveFirstMatch, SelectInSeq
  <2> QED  BY <2>1, <2>2 DEF Goes
<1> QED  BY <1>1, <1>2

LEMMA EvictGoes ==
    ASSUME NEW list \in Seq(Entry), NEW f, Len(list) > ListCap
    PROVE  \/ Evict(list, f) = list /\ \A i \in 1 .. Len(list) : Same(f, list[i].name)
           \/ \E k : Goes(list, Evict(list, f), k) /\ ~Same(f, list[k].name)
<1> DEFINE I == {i \in 1 .. Len(list) : ~Same(f, list[i].name)}
<1>0. ~(Len(list) <= ListCap)  BY ListCapOK
<1>1. CASE I = {}
    BY <1>0, <1>1 DEF Evict, RemoveFirstMatch
<1>2. CASE I # {}
  <2>1. Min(I) \in I
    <3>1. I \in SUBSET Nat  OBVIOUS
    <3> HIDE DEF I
    <3> QED  BY <1>2, <3>1, MinIs
  <2>2. Evict(list, f) = RemoveAt(list, Min(I))
      BY <1>0, <1>2 DEF Evict, RemoveFirstMatch, SelectInSeq
  <2> QED  BY <2>1, <2>2 DEF Goes
<1> QED  BY <1>1, <1>2

Evidences == {"none", "declared", "tested"}
LEMMA Entries ==
    ASSUME NEW list \in Seq(Entry)
    PROVE  /\ Len(list) \in Nat /\ DOMAIN list = 1 .. Len(list)
           /\ \A i \in DOMAIN list : /\ list[i] \in Entry /\ list[i].name \in Names
                                    /\ list[i].ev \in Evidences
<1>1. Len(list) \in Nat /\ DOMAIN list = 1 .. Len(list) /\ \A i \in DOMAIN list : list[i] \in Entry
    OBVIOUS
<1>2. \A e \in Entry : e.name \in Names /\ e.ev \in Evidences  BY DEF Entry, Evidences
<1> QED  BY <1>1, <1>2

LEMMA WithoutKeeps ==
    ASSUME NEW list \in Seq(Entry), Once(list), NEW n \in Names, NEW t, t = Without(list, n)
    PROVE  /\ t \in Seq(Entry) /\ Len(t) <= Len(list) /\ From(t, list) /\ Once(t)
           /\ Concepts(t) = Concepts(list) \ {Canon[n]}
<1>1. \A i \in 1 .. Len(list) : list[i].name \in Names /\ list[i] \in Entry
    BY Entries
<1>2. Len(list) \in Nat /\ DOMAIN list = 1 .. Len(list)  OBVIOUS
<1>3. CASE t = list /\ \A i \in 1 .. Len(list) : ~Same(n, list[i].name)
  <2>1. \A i \in DOMAIN list : Canon[list[i].name] # Canon[n]
      BY <1>1, <1>2, <1>3, SameIs
  <2>2. Canon[n] \notin Concepts(list)  BY <2>1 DEF Concepts
  <2> QED  BY <1>2, <1>3, <2>2 DEF From
<1>4. CASE \E k : Goes(list, t, k) /\ Same(n, list[k].name)
  <2>1. PICK k : k \in 1 .. Len(list) /\ t = RemoveAt(list, k) /\ Same(n, list[k].name)
      BY <1>4 DEF Goes
  <2>2. Canon[list[k].name] = Canon[n]  BY <1>1, <2>1, SameIs
  <2>3. /\ t \in Seq(Entry) /\ Len(t) = Len(list) - 1 /\ From(t, list) /\ Once(t)
        /\ Concepts(t) = Concepts(list) \ {Canon[list[k].name]}
      BY <2>1, Removed
  <2>4. Concepts(t) = Concepts(list) \ {Canon[n]}  BY <2>2, <2>3
  <2>5. Len(t) <= Len(list)  BY <1>2, <2>3
  <2> QED  BY <2>3, <2>4, <2>5
<1> QED  BY <1>3, <1>4, WithoutGoes

(* One entry over the cap: one goes, and not the one in focus.              *)
LEMMA EvictKeeps ==
    ASSUME NEW list \in Seq(Entry), Once(list), NEW f \in Names \cup {None},
           Len(list) <= ListCap + 1, NEW t, t = Evict(list, f)
    PROVE  /\ t \in Seq(Entry) /\ Len(t) <= ListCap /\ From(t, list) /\ Once(t)
           /\ Concepts(t) \subseteq Concepts(list)
           /\ f \in Names /\ Canon[f] \in Concepts(list) => Canon[f] \in Concepts(t)
<1>1. /\ Len(list) \in Nat /\ ListCap \in Nat /\ ListCap >= 1 /\ DOMAIN list = 1 .. Len(list)
      /\ \A i \in 1 .. Len(list) : list[i].name \in Names
    BY ListCapOK, Entries
<1>2. CASE Len(list) <= ListCap
  <2>1. t = list  BY <1>2 DEF Evict
  <2> QED  BY <1>1, <1>2, <2>1 DEF From
<1>3. CASE Len(list) > ListCap
  <2>1. \E i \in 1 .. Len(list) : ~Same(f, list[i].name)
    <3> SUFFICES ASSUME \A i \in 1 .. Len(list) : Same(f, list[i].name) PROVE FALSE
        OBVIOUS
    <3>1. 1 \in DOMAIN list /\ 2 \in DOMAIN list  BY <1>1, <1>3
    <3>2. Canon[list[1].name] = Canon[list[2].name]  BY <1>1, <3>1 DEF Same
    <3> QED  BY <3>1, <3>2 DEF Once
  <2>2. PICK k : k \in 1 .. Len(list) /\ t = RemoveAt(list, k) /\ ~Same(f, list[k].name)
      BY <1>3, <2>1, EvictGoes DEF Goes
  <2>3. /\ t \in Seq(Entry) /\ Len(t) = Len(list) - 1 /\ From(t, list) /\ Once(t)
        /\ Concepts(t) = Concepts(list) \ {Canon[list[k].name]}
      BY <2>2, Removed
  <2>4. f \in Names => Canon[f] # Canon[list[k].name]  BY <1>1, <2>2, SameIs
  <2> QED  BY <1>1, <2>3, <2>4
<1> QED  BY <1>1, <1>2, <1>3

LEMMA HasIs ==
    ASSUME NEW list \in Seq(Entry), NEW n
    PROVE  Has(list, n) <=> n # None /\ Canon[n] \in Concepts(list)
BY DEF Has, Same, Concepts

LEMMA UpsertKeeps ==
    ASSUME NEW list \in Seq(Entry), Once(list), NEW n \in Names, NEW ev \in Evidences,
           NEW t, t = Upsert(list, n, ev)
    PROVE  /\ t \in Seq(Entry) /\ Len(t) <= Len(list) + 1 /\ Once(t)
           /\ Concepts(t) = Concepts(list) \cup {Canon[n]}
           /\ \A i \in DOMAIN t : \/ \E j \in DOMAIN list : t[i] = list[j]
                                  \/ t[i].ev = ev /\ Canon[t[i].name] = Canon[n]
<1>1. Len(list) \in Nat /\ DOMAIN list = 1 .. Len(list) /\ n # None
      /\ \A i \in DOMAIN list : list[i] \in Entry /\ list[i].name \in Names
    BY NamesOK, Entries
<1>2. CASE ~Has(list, n)
  <2>1. PICK e \in Entry : e.name = n /\ e.ev = ev /\ t = Append(list, e)
    <3>1. [name |-> n, ev |-> ev] \in Entry  BY DEF Entry, Evidences
    <3> QED  BY <1>2, <3>1 DEF Upsert
  <2>2. /\ t \in Seq(Entry) /\ Len(t) = Len(list) + 1 /\ DOMAIN t = 1 .. Len(list) + 1
        /\ \A i \in 1 .. Len(list) : t[i] = list[i]
        /\ t[Len(list) + 1] = e
      BY <2>1
  <2>3. Canon[n] \notin Concepts(list)  BY <1>1, <1>2, HasIs
  <2>4. Once(t)
    <3> SUFFICES ASSUME NEW i \in DOMAIN t, NEW j \in DOMAIN t,
                        Canon[t[i].name] = Canon[t[j].name], i # j
                 PROVE  FALSE
        BY DEF Once
    <3>1. CASE i \in DOMAIN list /\ j \in DOMAIN list  BY <1>1, <2>2, <3>1 DEF Once
    <3>2. CASE i = Len(list) + 1 /\ j \in DOMAIN list
        BY <1>1, <2>1, <2>2, <2>3, <3>2 DEF Concepts
    <3>3. CASE j = Len(list) + 1 /\ i \in DOMAIN list
        BY <1>1, <2>1, <2>2, <2>3, <3>3 DEF Concepts
    <3> QED  BY <1>1, <2>2, <3>1, <3>2, <3>3
  <2>5. Concepts(t) = Concepts(list) \cup {Canon[n]}
    <3>1. Concepts(t) \subseteq Concepts(list) \cup {Canon[n]}
        BY <1>1, <2>1, <2>2 DEF Concepts
    <3>2. Len(list) + 1 \in DOMAIN t /\ DOMAIN list \subseteq DOMAIN t  BY <1>1, <2>2
    <3>3. Canon[n] \in Concepts(t)  BY <2>1, <2>2, <3>2 DEF Concepts
    <3>4. Concepts(list) \subseteq Concepts(t)  BY <1>1, <2>2, <3>2 DEF Concepts
    <3> QED  BY <3>1, <3>3, <3>4
  <2>6. \A i \in DOMAIN t : i \in DOMAIN list \/ i = Len(list) + 1  BY <1>1, <2>2
  <2>7. \A i \in DOMAIN t : \/ \E j \in DOMAIN list : t[i] = list[j]
                            \/ t[i].ev = ev /\ Canon[t[i].name] = Canon[n]
    <3> SUFFICES ASSUME NEW i \in DOMAIN t
                 PROVE  \/ \E j \in DOMAIN list : t[i] = list[j]
                        \/ t[i].ev = ev /\ Canon[t[i].name] = Canon[n]
        OBVIOUS
    <3>1. CASE i \in DOMAIN list  BY <1>1, <2>2, <3>1
    <3>2. CASE i = Len(list) + 1  BY <2>1, <2>2, <3>2
    <3> QED  BY <2>6, <3>1, <3>2
  <2> QED  BY <1>1, <2>2, <2>4, <2>5, <2>7
<1>3. CASE Has(list, n)
  <2>1. t = [i \in DOMAIN list |->
               IF Same(n, list[i].name) /\ ev # "none" THEN [list[i] EXCEPT !.ev = ev]
                                                       ELSE list[i]]
      BY <1>3 DEF Upsert
  <2>2. DOMAIN t = DOMAIN list /\ \A i \in DOMAIN list :
          /\ t[i] \in Entry /\ t[i].name = list[i].name
          /\ t[i] = list[i] \/ (t[i].ev = ev /\ Canon[t[i].name] = Canon[n])
    <3> SUFFICES ASSUME NEW i \in DOMAIN list
                 PROVE  /\ t[i] \in Entry /\ t[i].name = list[i].name
                        /\ t[i] = list[i] \/ (t[i].ev = ev /\ Canon[t[i].name] = Canon[n])
        BY <2>1
    <3>1. CASE Same(n, list[i].name) /\ ev # "none"
      <4>1. t[i] = [list[i] EXCEPT !.ev = ev]  BY <2>1, <3>1
      <4>2. t[i] \in Entry /\ t[i].name = list[i].name /\ t[i].ev = ev
          BY <1>1, <4>1 DEF Entry, Evidences
      <4> QED  BY <1>1, <3>1, <4>2, SameIs
    <3>2. CASE ~(Same(n, list[i].name) /\ ev # "none")
        BY <1>1, <2>1, <3>2
    <3> QED  BY <3>1, <3>2
  <2>3. t \in Seq(Entry) /\ Len(t) = Len(list)
    <3>1. t \in [1 .. Len(list) -> Entry]  BY <1>1, <2>1, <2>2
    <3> QED  BY <1>1, <3>1
  <2>4. Once(t)  BY <2>2 DEF Once
  <2>5. Concepts(t) = Concepts(list)  BY <2>2 DEF Concepts
  <2>6. Canon[n] \in Concepts(list)  BY <1>3, HasIs
  <2>7. Len(t) <= Len(list) + 1  BY <1>1, <2>3
  <2>8. \A i \in DOMAIN t : \/ \E j \in DOMAIN list : t[i] = list[j]
                            \/ t[i].ev = ev /\ Canon[t[i].name] = Canon[n]
      BY <2>2
  <2>9. Concepts(t) = Concepts(list) \cup {Canon[n]}  BY <2>5, <2>6
  <2> QED  BY <2>3, <2>4, <2>7, <2>8, <2>9
<1> QED  BY <1>2, <1>3

(* An eviction leaves a full list.                                          *)
LEMMA EvictLeaves ==
    ASSUME NEW list \in Seq(Entry), Once(list), NEW f \in Names \cup {None},
           Len(list) <= ListCap + 1, NEW t, t = Evict(list, f)
    PROVE  t = list \/ Len(t) = ListCap
<1>1. ListCap \in Nat /\ Len(list) \in Nat  BY ListCapOK
<1>2. CASE Len(list) <= ListCap  BY <1>2 DEF Evict
<1>3. CASE Len(list) > ListCap
  <2>1. t = list \/ \E k : Goes(list, t, k)  BY <1>3, EvictGoes
  <2>2. ASSUME NEW k, Goes(list, t, k) PROVE Len(t) = ListCap
    <3>1. k \in 1 .. Len(list) /\ t = RemoveAt(list, k)  BY <2>2 DEF Goes
    <3>2. Len(t) = Len(list) - 1  BY <3>1, Removed
    <3> QED  BY <1>1, <1>3, <3>2
  <2> QED  BY <2>1, <2>2
<1> QED  BY <1>1, <1>2, <1>3

(* A list holds as many concepts as it has entries.                         *)
LEMMA ConceptsCount ==
    ASSUME NEW list \in Seq(Entry), Once(list)
    PROVE  IsFiniteSet(Concepts(list)) /\ Cardinality(Concepts(list)) = Len(list)
<1>1. Len(list) \in Nat /\ DOMAIN list = 1 .. Len(list)  OBVIOUS
<1>2. IsFiniteSet(1 .. Len(list)) /\ Cardinality(1 .. Len(list)) = Len(list)
    BY <1>1, FS_Interval
<1>3. PICK f : f = [i \in 1 .. Len(list) |-> Canon[list[i].name]]  OBVIOUS
<1>4. f \in Bijection(1 .. Len(list), Concepts(list))
  <2>1. f \in [1 .. Len(list) -> Concepts(list)]  BY <1>1, <1>3 DEF Concepts
  <2>2. \A i, j \in 1 .. Len(list) : f[i] = f[j] => i = j  BY <1>1, <1>3 DEF Once
  <2>3. \A c \in Concepts(list) : \E i \in 1 .. Len(list) : f[i] = c
      BY <1>1, <1>3 DEF Concepts
  <2> QED  BY <2>1, <2>2, <2>3, Fun_IsBij
<1>5. ExistsBijection(1 .. Len(list), Concepts(list))  BY <1>4 DEF ExistsBijection
<1> QED  BY <1>2, <1>5, FS_Bijection
=============================================================================
