----------------------------- MODULE DataLemmas -----------------------------
(***************************************************************************)
(* What the recursive operators of the model compute, for every input:     *)
(* lists without some elements, flattened lists, the orders of a finite    *)
(* set.                                                                    *)
(*                                                                         *)
(* Induction is over the members of a set, so that it can be cited as a    *)
(* first-order fact: the set of numbers, or of parts of a finite set, for  *)
(* which something holds.  A recursive function is a CHOOSE of a solution  *)
(* of its equation; a solution up to n gives one up to n + 1, so there is  *)
(* one for the whole domain, and the chosen one obeys the equation.        *)
(***************************************************************************)
EXTENDS Lists, SequencesExt, FiniteSetTheorems, WellFoundedInduction, TLAPS

\* Induction over the numbers: a set that has 0, and n + 1 with each n, has all.
LEMMA NatSetInduction ==
  ASSUME NEW P, 0 \in P, \A n \in Nat : n \in P => n + 1 \in P
  PROVE  Nat \subseteq P
<1> DEFINE Bad == Nat \ P
<1>1. SUFFICES ASSUME Bad # {} PROVE FALSE
  OBVIOUS
<1>2. Bad \subseteq Nat
  OBVIOUS
<1> HIDE DEF Bad
<1>3. PICK b \in Bad : \A c \in Bad : ~(<<c, b>> \in OpToRel(<, Nat))
  BY <1>1, <1>2, NatLessThanWellFounded, WFMin
<1>4. b \in Nat /\ b # 0 /\ b \notin P /\ b - 1 \in Nat
  BY DEF Bad
<1>5. <<b - 1, b>> \in OpToRel(<, Nat)
  BY <1>4 DEF OpToRel
<1>6. b - 1 \in P
  BY <1>3, <1>4, <1>5 DEF Bad
<1> QED BY <1>4, <1>6

\* Induction over the parts of a finite set: if a part is in P whenever it is
\* so without any one of its elements, the whole set is in P.
LEMMA FiniteSetInduction ==
  ASSUME NEW D, IsFiniteSet(D), NEW P,
         \A S \in SUBSET D : (\A x \in S : S \ {x} \in P) => S \in P
  PROVE  D \in P
<1> DEFINE Bad == (SUBSET D) \ P
<1>1. SUFFICES ASSUME Bad # {} PROVE FALSE
  OBVIOUS
<1>2. Bad \subseteq FiniteSubsetsOf(D)
  BY FS_FiniteSubsetsOfFinite
<1> HIDE DEF Bad
<1>3. PICK S \in Bad : \A T \in Bad : ~(<<T, S>> \in StrictSubsetOrdering(D))
  BY <1>1, <1>2, FS_StrictSubsetOrderingWellFounded, WFMin
<1>4. S \in SUBSET D /\ S \notin P
  BY DEF Bad
<1>5. PICK x \in S : S \ {x} \notin P
  BY <1>4
<1>6. <<S \ {x}, S>> \in StrictSubsetOrdering(D) /\ S \ {x} \in Bad
  BY <1>4, <1>5 DEF StrictSubsetOrdering, Bad
<1> QED BY <1>3, <1>6

\* Only is computed element by element, as a loop that appends does.
LEMMA OnlyRecursion ==
  ASSUME NEW X, NEW list \in Seq(X), NEW S
  PROVE  \E g : /\ g = [i \in 0..Len(list) |->
                          IF i = 0 THEN <<>>
                          ELSE IF list[i] \in S THEN Append(g[i - 1], list[i]) ELSE g[i - 1]]
                /\ Only(list, S) = g[Len(list)]
<1> DEFINE Solves(g, n) ==
      g = [i \in 0..n |-> IF i = 0 THEN <<>>
                          ELSE IF list[i] \in S THEN Append(g[i - 1], list[i]) ELSE g[i - 1]]
           P == {n \in Nat : \E g : Solves(g, n)}
<1>1. 0 \in P
  <2>1. Solves([i \in 0..0 |-> <<>>], 0)
    OBVIOUS
  <2> QED BY <2>1
<1>2. ASSUME NEW n \in Nat, n \in P
      PROVE  n + 1 \in P
  <2>1. PICK g : Solves(g, n)
    BY <1>2
  <2> DEFINE h == [i \in 0..(n + 1) |->
                     IF i <= n THEN g[i]
                     ELSE IF list[i] \in S THEN Append(g[n], list[i]) ELSE g[n]]
  <2>2. ASSUME NEW i \in 0..(n + 1)
        PROVE  h[i] = IF i = 0 THEN <<>>
                      ELSE IF list[i] \in S THEN Append(h[i - 1], list[i]) ELSE h[i - 1]
    <3>1. CASE i = 0  BY <2>1, <3>1
    <3>2. CASE i \in 1..n
      <4>1. h[i] = g[i] /\ h[i - 1] = g[i - 1]  BY <3>2
      <4>2. i # 0 /\ i \in 0..n  BY <3>2
      <4>3. g[i] = IF list[i] \in S THEN Append(g[i - 1], list[i]) ELSE g[i - 1]
        BY <2>1, <4>2
      <4> HIDE DEF h
      <4> QED BY <4>1, <4>2, <4>3
    <3>3. CASE i = n + 1
      <4>1. h[i - 1] = g[n]  BY <3>3
      <4>2. h[i] = IF list[i] \in S THEN Append(g[n], list[i]) ELSE g[n]  BY <3>3
      <4> HIDE DEF h
      <4> QED BY <3>3, <4>1, <4>2
    <3> QED BY <3>1, <3>2, <3>3
  <2>3. Solves(h, n + 1)
    BY <2>2, Zenon
  <2> HIDE DEF Solves, h
  <2> QED BY <2>3
<1>3. Nat \subseteq P
  <2> HIDE DEF P
  <2> QED BY <1>1, <1>2, NatSetInduction
<1>4. PICK g : Solves(g, Len(list))
  BY <1>3
<1>5. \E f : Solves(f, Len(list)) /\ Only(list, S) = f[Len(list)]
  BY <1>4, Zenon DEF Only
<1> QED BY <1>5

\* Only keeps the elements that are in S, all of them, and repeats none.
LEMMA OnlyContents ==
  ASSUME NEW X, NEW list \in Seq(X), NEW S
  PROVE  /\ Only(list, S) \in Seq(X)
         /\ ToSet(Only(list, S)) = ToSet(list) \cap S
         /\ IsInjective(list) => IsInjective(Only(list, S))
<1>1. PICK g : /\ g = [i \in 0..Len(list) |->
                         IF i = 0 THEN <<>>
                         ELSE IF list[i] \in S THEN Append(g[i - 1], list[i]) ELSE g[i - 1]]
               /\ Only(list, S) = g[Len(list)]
  BY OnlyRecursion
<1> DEFINE Good(i) == /\ g[i] \in Seq(X)
                      /\ ToSet(g[i]) = {list[j] : j \in 1..i} \cap S
                      /\ IsInjective(list) => IsInjective(g[i])
           P == {i \in Nat : i <= Len(list) => Good(i)}
<1>2. 0 \in P
  BY <1>1 DEF ToSet, IsInjective
<1>3. ASSUME NEW i \in Nat, i \in P, i + 1 <= Len(list)
      PROVE  Good(i + 1)
  <2>1. g[i + 1] = IF list[i + 1] \in S THEN Append(g[i], list[i + 1]) ELSE g[i]
    <3>1. i + 1 \in 0..Len(list) /\ i + 1 # 0 /\ (i + 1) - 1 = i
      BY <1>3
    <3> QED BY <1>1, <3>1
  <2>2. list[i + 1] \in X
    BY <1>3
  <2>3. Good(i)
    BY <1>3
  <2>4. {list[j] : j \in 1..(i + 1)} = {list[j] : j \in 1..i} \cup {list[i + 1]}
    BY <1>3
  <2>5. CASE list[i + 1] \notin S
    BY <2>1, <2>3, <2>4, <2>5
  <2>6. CASE list[i + 1] \in S
    <3>1. g[i + 1] \in Seq(X)
      BY <2>1, <2>2, <2>3, <2>6
    <3>2. ToSet(g[i + 1]) = ToSet(g[i]) \cup {list[i + 1]}
      BY <2>1, <2>2, <2>3, <2>6 DEF ToSet
    <3>3. ASSUME IsInjective(list) PROVE IsInjective(g[i + 1])
      <4>1. list[i + 1] \notin {list[j] : j \in 1..i}
        BY <1>3, <3>3 DEF IsInjective
      <4>2. list[i + 1] \notin ToSet(g[i])
        BY <2>3, <4>1
      <4> QED BY <2>1, <2>2, <2>3, <2>6, <4>2, <3>3 DEF IsInjective, ToSet
    <3> QED BY <3>1, <3>2, <3>3, <2>3, <2>4, <2>6
  <2> QED BY <2>5, <2>6
<1>4. Nat \subseteq P
  <2>1. \A i \in Nat : i \in P => i + 1 \in P
    BY <1>3
  <2> HIDE DEF P
  <2> QED BY <1>2, <2>1, NatSetInduction
<1>5. Good(Len(list))
  <2>1. Len(list) \in P
    <3> HIDE DEF P
    <3> QED BY <1>4
  <2> QED BY <2>1
<1>6. {list[j] : j \in 1..Len(list)} = ToSet(list)
  BY DEF ToSet
<1> QED BY <1>1, <1>5, <1>6

\* The same, element by element.
LEMMA OnlySteps ==
  ASSUME NEW X, NEW list \in Seq(X), NEW S
  PROVE  \E g : /\ g[0] = <<>>
                /\ \A i \in 1..Len(list) :
                     g[i] = IF list[i] \in S THEN Append(g[i - 1], list[i]) ELSE g[i - 1]
                /\ Only(list, S) = g[Len(list)]
<1>1. PICK g : /\ g = [i \in 0..Len(list) |->
                         IF i = 0 THEN <<>>
                         ELSE IF list[i] \in S THEN Append(g[i - 1], list[i]) ELSE g[i - 1]]
               /\ Only(list, S) = g[Len(list)]
  BY OnlyRecursion
<1>2. ASSUME NEW i \in 1..Len(list)
      PROVE  g[i] = IF list[i] \in S THEN Append(g[i - 1], list[i]) ELSE g[i - 1]
  <2>1. i \in 0..Len(list) /\ i # 0
    OBVIOUS
  <2> QED BY <1>1, <2>1
<1>3. g[0] = <<>>
  BY <1>1
<1> QED BY <1>1, <1>2, <1>3

\* Only, on a list with one more element.
LEMMA OnlyAppend ==
  ASSUME NEW X, NEW list \in Seq(X), NEW x \in X, NEW S
  PROVE  Only(Append(list, x), S) =
           IF x \in S THEN Append(Only(list, S), x) ELSE Only(list, S)
<1> DEFINE longer == Append(list, x)
<1>1. PICK g : /\ g[0] = <<>>
               /\ \A i \in 1..Len(list) :
                    g[i] = IF list[i] \in S THEN Append(g[i - 1], list[i]) ELSE g[i - 1]
               /\ Only(list, S) = g[Len(list)]
  BY OnlySteps
<1>2. /\ longer \in Seq(X) /\ Len(longer) = Len(list) + 1
      /\ \A i \in 1..Len(list) : longer[i] = list[i]
      /\ longer[Len(list) + 1] = x
  OBVIOUS
<1> HIDE DEF longer
<1>3. PICK h : /\ h[0] = <<>>
               /\ \A i \in 1..Len(longer) :
                    h[i] = IF longer[i] \in S THEN Append(h[i - 1], longer[i]) ELSE h[i - 1]
               /\ Only(longer, S) = h[Len(longer)]
  BY <1>2, OnlySteps
<1>4. Len(list) \in Nat
  OBVIOUS
<1> DEFINE P == {i \in Nat : i <= Len(list) => g[i] = h[i]}
<1>5. 0 \in P
  BY <1>1, <1>3
<1>6. ASSUME NEW i \in Nat, i \in P
      PROVE  i + 1 \in P
  <2> SUFFICES ASSUME i + 1 <= Len(list) PROVE g[i + 1] = h[i + 1]
    OBVIOUS
  <2>1. /\ i + 1 \in 1..Len(list) /\ i + 1 \in 1..Len(longer)
        /\ (i + 1) - 1 = i /\ g[i] = h[i]
    BY <1>2, <1>4, <1>6
  <2> HIDE DEF P
  <2>2. g[i + 1] = IF list[i + 1] \in S THEN Append(g[i], list[i + 1]) ELSE g[i]
    BY <1>1, <2>1, Zenon
  <2>3. h[i + 1] = IF longer[i + 1] \in S THEN Append(h[i], longer[i + 1]) ELSE h[i]
    BY <1>3, <2>1, Zenon
  <2>4. longer[i + 1] = list[i + 1]
    BY <1>2, <2>1
  <2> QED BY <2>1, <2>2, <2>3, <2>4
<1>7. g[Len(list)] = h[Len(list)]
  <2>1. Nat \subseteq P
    <3> HIDE DEF P
    <3> QED BY <1>5, <1>6, NatSetInduction
  <2> QED BY <1>4, <2>1
<1> HIDE DEF P
<1>8. h[Len(list) + 1] = IF x \in S THEN Append(h[Len(list)], x) ELSE h[Len(list)]
  <2>1. Len(list) + 1 \in 1..Len(longer) /\ (Len(list) + 1) - 1 = Len(list)
    BY <1>2, <1>4
  <2> QED BY <1>2, <1>3, <2>1, Zenon
<1> QED BY <1>1, <1>2, <1>3, <1>7, <1>8 DEF longer

\* To keep what is in S, and of that what is in T, is to keep what is in both.
LEMMA OnlyTwice ==
  ASSUME NEW X, NEW list \in Seq(X), NEW S, NEW T
  PROVE  Only(Only(list, S), T) = Only(list, S \cap T)
<1> DEFINE Agree(l) == Only(Only(l, S), T) = Only(l, S \cap T)
           P == {n \in Nat : \A l \in Seq(X) : Len(l) = n => Agree(l)}
<1>1. ASSUME NEW R PROVE Only(<<>>, R) = <<>>
  <2> DEFINE none == <<>>
  <2>1. none \in Seq(X) /\ Len(none) = 0
    OBVIOUS
  <2> HIDE DEF none
  <2>2. PICK g : /\ g[0] = <<>>
                 /\ \A i \in 1..Len(none) :
                      g[i] = IF none[i] \in R THEN Append(g[i - 1], none[i]) ELSE g[i - 1]
                 /\ Only(none, R) = g[Len(none)]
    BY <2>1, OnlySteps
  <2>3. Only(none, R) = <<>>
    BY <2>1, <2>2
  <2> QED BY <2>3 DEF none
<1>2. 0 \in P
  <2>1. \A l \in Seq(X) : Len(l) = 0 => l = <<>>
    OBVIOUS
  <2> QED BY <1>1, <2>1
<1>3. ASSUME NEW n \in Nat, n \in P, NEW l \in Seq(X), Len(l) = n + 1
      PROVE  Agree(l)
  <2>1. PICK l0 \in Seq(X), x \in X : Len(l0) = n /\ l = Append(l0, x)
    <3>1. /\ SubSeq(l, 1, n) \in Seq(X) /\ Len(SubSeq(l, 1, n)) = n
          /\ l[n + 1] \in X /\ l = Append(SubSeq(l, 1, n), l[n + 1])
      BY <1>3
    <3> QED BY <3>1
  <2>2. Agree(l0)
    BY <1>3, <2>1
  <2>3. Only(l0, S) \in Seq(X)
    BY OnlyContents
  <2>4. Only(l, S) = IF x \in S THEN Append(Only(l0, S), x) ELSE Only(l0, S)
    BY <2>1, OnlyAppend
  <2>5. Only(l, S \cap T) = IF x \in S \cap T THEN Append(Only(l0, S \cap T), x)
                            ELSE Only(l0, S \cap T)
    BY <2>1, OnlyAppend
  <2>6. Only(Append(Only(l0, S), x), T) =
          IF x \in T THEN Append(Only(Only(l0, S), T), x) ELSE Only(Only(l0, S), T)
    BY <2>1, <2>3, OnlyAppend
  <2> HIDE DEF P
  <2>7. CASE x \in S \cap T
    BY <2>2, <2>4, <2>5, <2>6, <2>7
  <2>8. CASE x \notin S
    BY <2>2, <2>4, <2>5, <2>8
  <2>9. CASE x \in S /\ x \notin T
    BY <2>2, <2>4, <2>5, <2>6, <2>9
  <2> QED BY <2>7, <2>8, <2>9
<1>4. Nat \subseteq P
  <2>1. ASSUME NEW n \in Nat, n \in P
        PROVE  n + 1 \in P
    <3>1. \A l \in Seq(X) : Len(l) = n + 1 => Agree(l)
      BY <1>3, <2>1
    <3> HIDE DEF Agree
    <3> QED BY <3>1
  <2> HIDE DEF P
  <2> QED BY <1>2, <2>1, NatSetInduction
<1>5. Len(list) \in P
  <2> HIDE DEF P
  <2> QED BY <1>4
<1> QED BY <1>5

\* To keep everything changes nothing.
LEMMA OnlyAll ==
  ASSUME NEW X, NEW list \in Seq(X), NEW S, ToSet(list) \subseteq S
  PROVE  Only(list, S) = list
<1>1. PICK g : /\ g[0] = <<>>
               /\ \A i \in 1..Len(list) :
                    g[i] = IF list[i] \in S THEN Append(g[i - 1], list[i]) ELSE g[i - 1]
               /\ Only(list, S) = g[Len(list)]
  BY OnlySteps
<1>2. Len(list) \in Nat
  OBVIOUS
<1> DEFINE P == {i \in Nat : i <= Len(list) => g[i] = SubSeq(list, 1, i)}
<1>3. 0 \in P
  <2>1. SubSeq(list, 1, 0) = <<>>
    OBVIOUS
  <2> QED BY <1>1, <2>1
<1>4. ASSUME NEW i \in Nat, i \in P
      PROVE  i + 1 \in P
  <2> SUFFICES ASSUME i + 1 <= Len(list) PROVE g[i + 1] = SubSeq(list, 1, i + 1)
    OBVIOUS
  <2>1. i + 1 \in 1..Len(list) /\ (i + 1) - 1 = i /\ g[i] = SubSeq(list, 1, i)
    BY <1>2, <1>4
  <2>2. list[i + 1] \in S
    BY <2>1 DEF ToSet
  <2>3. Append(SubSeq(list, 1, i), list[i + 1]) = SubSeq(list, 1, i + 1)
    BY <2>1
  <2> HIDE DEF P
  <2>4. g[i + 1] = Append(g[i], list[i + 1])
    BY <1>1, <2>1, <2>2, Zenon
  <2> QED BY <2>1, <2>3, <2>4
<1>5. g[Len(list)] = SubSeq(list, 1, Len(list))
  <2>1. Nat \subseteq P
    <3> HIDE DEF P
    <3> QED BY <1>3, <1>4, NatSetInduction
  <2> QED BY <1>2, <2>1
<1>6. SubSeq(list, 1, Len(list)) = list
  OBVIOUS
<1> QED BY <1>1, <1>5, <1>6

\* A list is a list of its own elements.
LEMMA ListOfItsElements ==
  ASSUME NEW X, NEW list \in Seq(X)
  PROVE  list \in Seq(ToSet(list))
<1>1. list \in [1..Len(list) -> ToSet(list)]
  BY DEF ToSet
<1> QED BY <1>1

\* The elements of a concatenation.
LEMMA ConcatContents ==
  ASSUME NEW X, NEW s \in Seq(X), NEW t \in Seq(X)
  PROVE  s \o t \in Seq(X) /\ ToSet(s \o t) = ToSet(s) \cup ToSet(t)
<1>1. s \o t \in Seq(X) /\ DOMAIN (s \o t) = 1..(Len(s) + Len(t))
  OBVIOUS
<1>2. ASSUME NEW i \in DOMAIN s PROVE s[i] = (s \o t)[i] /\ i \in DOMAIN (s \o t)
  OBVIOUS
<1>3. ASSUME NEW i \in DOMAIN t
      PROVE  t[i] = (s \o t)[Len(s) + i] /\ Len(s) + i \in DOMAIN (s \o t)
  OBVIOUS
<1>4. ASSUME NEW i \in DOMAIN (s \o t)
      PROVE  \/ i \in DOMAIN s /\ s[i] = (s \o t)[i]
             \/ i - Len(s) \in DOMAIN t /\ t[i - Len(s)] = (s \o t)[i]
  OBVIOUS
<1>5. ASSUME NEW x \in ToSet(s) \cup ToSet(t) PROVE x \in ToSet(s \o t)
  BY <1>2, <1>3, <1>5 DEF ToSet
<1>6. ASSUME NEW x \in ToSet(s \o t) PROVE x \in ToSet(s) \cup ToSet(t)
  BY <1>4, <1>6 DEF ToSet
<1> QED BY <1>1, <1>5, <1>6

\* FlattenSeq is computed list by list.
LEMMA FlattenRecursion ==
  ASSUME NEW X, NEW lists \in Seq(Seq(X)), lists # <<>>
  PROVE  \E g : /\ g = [i \in 1..Len(lists) |->
                          IF i = 1 THEN lists[i] ELSE g[i - 1] \o lists[i]]
                /\ FlattenSeq(lists) = g[Len(lists)]
<1> DEFINE Solves(g, n) ==
      g = [i \in 1..n |-> IF i = 1 THEN lists[i] ELSE g[i - 1] \o lists[i]]
           P == {n \in Nat : \E g : Solves(g, n)}
<1>1. 0 \in P
  <2>1. Solves([i \in 1..0 |-> <<>>], 0)
    OBVIOUS
  <2> QED BY <2>1
<1>2. ASSUME NEW n \in Nat, n \in P
      PROVE  n + 1 \in P
  <2>1. PICK g : Solves(g, n)
    BY <1>2
  <2> DEFINE h == [i \in 1..(n + 1) |->
                     IF i <= n THEN g[i] ELSE IF i = 1 THEN lists[i] ELSE g[n] \o lists[i]]
  <2>2. ASSUME NEW i \in 1..(n + 1)
        PROVE  h[i] = IF i = 1 THEN lists[i] ELSE h[i - 1] \o lists[i]
    <3>1. CASE i = 1
      <4>1. CASE n = 0  BY <3>1, <4>1
      <4>2. CASE n # 0
        <5>1. g[1] = lists[1]  BY <2>1, <4>2
        <5> QED BY <3>1, <4>2, <5>1
      <4> QED BY <4>1, <4>2
    <3>2. CASE i \in 2..n
      <4>1. h[i] = g[i] /\ h[i - 1] = g[i - 1] /\ i # 1 /\ i \in 1..n
        BY <3>2
      <4>2. g[i] = g[i - 1] \o lists[i]
        BY <2>1, <4>1
      <4> HIDE DEF h
      <4> QED BY <4>1, <4>2
    <3>3. CASE i = n + 1 /\ i # 1
      <4>1. h[i] = g[n] \o lists[i]
        <5>1. ~(i <= n) /\ i # 1  BY <3>3
        <5> QED BY <5>1, Zenon
      <4>2. h[i - 1] = g[n]  BY <3>3
      <4> HIDE DEF h
      <4> QED BY <3>3, <4>1, <4>2
    <3> QED BY <3>1, <3>2, <3>3
  <2>3. Solves(h, n + 1)
    BY <2>2, Zenon
  <2> HIDE DEF Solves, h
  <2> QED BY <2>3
<1>3. Nat \subseteq P
  <2> HIDE DEF P
  <2> QED BY <1>1, <1>2, NatSetInduction
<1>4. PICK g : Solves(g, Len(lists))
  <2>1. Len(lists) \in P
    <3> HIDE DEF P
    <3> QED BY <1>3
  <2> QED BY <2>1
<1>5. Len(lists) # 0
  OBVIOUS
<1>6. \E f : Solves(f, Len(lists)) /\ FlattenSeq(lists) = f[Len(lists)]
  BY <1>4, <1>5, Zenon DEF FlattenSeq
<1> QED BY <1>6

\* A flattened list has the elements of its lists, and no others.
LEMMA FlattenContents ==
  ASSUME NEW X, NEW lists \in Seq(Seq(X))
  PROVE  /\ FlattenSeq(lists) \in Seq(X)
         /\ ToSet(FlattenSeq(lists)) = UNION {ToSet(lists[i]) : i \in DOMAIN lists}
<1>1. CASE lists = <<>>
  BY <1>1 DEF FlattenSeq, ToSet
<1>2. CASE lists # <<>>
  <2>1. PICK g : /\ g = [i \in 1..Len(lists) |->
                           IF i = 1 THEN lists[i] ELSE g[i - 1] \o lists[i]]
                 /\ FlattenSeq(lists) = g[Len(lists)]
    BY <1>2, FlattenRecursion
  <2> DEFINE Good(i) == /\ g[i] \in Seq(X)
                        /\ \A x : x \in ToSet(g[i]) <=> \E j \in 1..i : x \in ToSet(lists[j])
             P == {i \in Nat : i \in 1..Len(lists) => Good(i)}
  <2>2. 0 \in P
    OBVIOUS
  <2>3. ASSUME NEW i \in Nat, i \in P
        PROVE  i + 1 \in P
    <3> SUFFICES ASSUME i + 1 \in 1..Len(lists) PROVE Good(i + 1)
      OBVIOUS
    <3>1. CASE i = 0
      <4>1. g[1] = lists[1]
        BY <2>1, <2>3, <3>1
      <4> QED BY <2>3, <3>1, <4>1
    <3>2. CASE i # 0
      <4>1. g[i + 1] = g[i] \o lists[i + 1]
        <5>1. i + 1 # 1 /\ (i + 1) - 1 = i
          BY <3>2
        <5> QED BY <2>1, <2>3, <5>1
      <4>2. Good(i)
        BY <2>3, <3>2
      <4>3. lists[i + 1] \in Seq(X)
        BY <2>3
      <4>4. g[i + 1] \in Seq(X) /\ ToSet(g[i + 1]) = ToSet(g[i]) \cup ToSet(lists[i + 1])
        BY <4>1, <4>2, <4>3, ConcatContents
      <4>5. \A j : j \in 1..(i + 1) <=> j \in 1..i \/ j = i + 1
        OBVIOUS
      <4> QED BY <4>2, <4>4, <4>5
    <3> QED BY <3>1, <3>2
  <2>4. Nat \subseteq P
    <3> HIDE DEF P
    <3> QED BY <2>2, <2>3, NatSetInduction
  <2>5. Good(Len(lists))
    <3>1. Len(lists) \in P
      <4> HIDE DEF P
      <4> QED BY <2>4
    <3>2. Len(lists) \in 1..Len(lists)
      BY <1>2
    <3> HIDE DEF Good
    <3> QED BY <3>1, <3>2
  <2>6. DOMAIN lists = 1..Len(lists)
    OBVIOUS
  <2>7. ToSet(g[Len(lists)]) = UNION {ToSet(lists[i]) : i \in DOMAIN lists}
    BY <2>5, <2>6
  <2> HIDE DEF Good
  <2> QED BY <2>1, <2>5, <2>7 DEF Good
<1> QED BY <1>1, <1>2

\* One of the orders of a finite set.
LEMMA OrderContents ==
  ASSUME NEW S, IsFiniteSet(S), NEW order \in SetToSeqs(S)
  PROVE  order \in Seq(S) /\ ToSet(order) = S /\ IsInjective(order)
<1>1. Cardinality(S) \in Nat
  BY FS_CardinalityType
<1>2. order \in [1..Cardinality(S) -> S] /\ IsInjective(order)
  BY DEF SetToSeqs, IsInjective
<1>3. order \in Injection(1..Cardinality(S), S)
  BY <1>2 DEF Injection
<1>4. IsFiniteSet(1..Cardinality(S)) /\ Cardinality(1..Cardinality(S)) = Cardinality(S)
  BY <1>1, FS_Interval
<1>5. order \in Surjection(1..Cardinality(S), S)
  BY <1>3, <1>4, FS_Injection
<1>6. ToSet(order) = S
  BY <1>2, <1>5 DEF Surjection, ToSet
<1> QED BY <1>1, <1>2, <1>6

\* The list that SetToSeq makes of a finite set has each of its elements once.
LEMMA SetToSeqContents ==
  ASSUME NEW S, IsFiniteSet(S)
  PROVE  SetToSeq(S) \in Seq(S) /\ ToSet(SetToSeq(S)) = S /\ IsInjective(SetToSeq(S))
<1>1. PICK f \in Bijection(1..Cardinality(S), S) : TRUE
  BY FS_CardinalityType DEF ExistsBijection
<1>2. f \in [1..Cardinality(S) -> S] /\ IsInjective(f)
  BY <1>1 DEF Bijection, Injection
<1>3. SetToSeq(S) \in [1..Cardinality(S) -> S] /\ IsInjective(SetToSeq(S))
  BY <1>2, Zenon DEF SetToSeq
<1>4. SetToSeq(S) \in SetToSeqs(S)
  BY <1>3 DEF SetToSeqs, IsInjective
<1> QED BY <1>4, OrderContents

\* A list has finitely many elements.
LEMMA ListFinite ==
  ASSUME NEW X, NEW list \in Seq(X)
  PROVE  IsFiniteSet(ToSet(list))
<1>1. IsFiniteSet(1..Len(list))
  BY FS_Interval
<1>2. list \in Surjection(1..Len(list), ToSet(list))
  BY DEF Surjection, ToSet
<1> QED BY <1>1, <1>2, FS_Surjection

\* A list that repeats nothing is as long as its set of elements.
LEMMA InjectiveLength ==
  ASSUME NEW X, NEW list \in Seq(X), IsInjective(list)
  PROVE  Cardinality(ToSet(list)) = Len(list)
<1>0. Len(list) \in Nat
  OBVIOUS
<1>1. IsFiniteSet(1..Len(list)) /\ Cardinality(1..Len(list)) = Len(list)
  BY <1>0, FS_Interval
<1>2. list \in Surjection(1..Len(list), ToSet(list)) /\ list \in Injection(1..Len(list), ToSet(list))
  BY DEF Surjection, Injection, ToSet
<1> QED BY <1>1, <1>2, FS_Surjection

\* Two lists that repeat nothing, and share nothing, give one that repeats nothing.
LEMMA ConcatInjective ==
  ASSUME NEW X, NEW s \in Seq(X), NEW t \in Seq(X), IsInjective(s), IsInjective(t),
         ToSet(s) \cap ToSet(t) = {}
  PROVE  IsInjective(s \o t)
<1> SUFFICES ASSUME NEW i \in DOMAIN (s \o t), NEW j \in DOMAIN (s \o t), (s \o t)[i] = (s \o t)[j]
             PROVE  i = j
  BY DEF IsInjective
<1>1. DOMAIN (s \o t) = 1..(Len(s) + Len(t))
  OBVIOUS
<1>2. CASE i \in DOMAIN s /\ j \in DOMAIN s
  BY <1>2 DEF IsInjective
<1>3. CASE i \notin DOMAIN s /\ j \notin DOMAIN s
  <2>1. i - Len(s) \in DOMAIN t /\ j - Len(s) \in DOMAIN t /\ t[i - Len(s)] = t[j - Len(s)]
    BY <1>1, <1>3
  <2> QED BY <1>1, <2>1 DEF IsInjective
<1>4. CASE i \in DOMAIN s /\ j \notin DOMAIN s
  <2>1. s[i] = t[j - Len(s)] /\ j - Len(s) \in DOMAIN t
    BY <1>1, <1>4
  <2> QED BY <1>4, <2>1 DEF ToSet
<1>5. CASE i \notin DOMAIN s /\ j \in DOMAIN s
  <2>1. s[j] = t[i - Len(s)] /\ i - Len(s) \in DOMAIN t
    BY <1>1, <1>5
  <2> QED BY <1>5, <2>1 DEF ToSet
<1> QED BY <1>2, <1>3, <1>4, <1>5

\* A function of a finite domain has finitely many values.
LEMMA FiniteImage ==
  ASSUME NEW f, IsFiniteSet(DOMAIN f), f = [x \in DOMAIN f |-> f[x]]
  PROVE  IsFiniteSet({f[x] : x \in DOMAIN f})
<1>1. f \in Surjection(DOMAIN f, {f[x] : x \in DOMAIN f})
  BY DEF Surjection
<1> QED BY <1>1, FS_Surjection

\* The greatest number of a set that has the greatest one of an interval.
LEMMA MaxInterval ==
  ASSUME NEW n \in Nat, NEW s \in SUBSET (1..(n + 1)), n + 1 \in s
  PROVE  Max(s) = n + 1
<1>1. n + 1 \in s /\ \A y \in s : n + 1 >= y
  OBVIOUS
<1>2. Max(s) \in s /\ \A y \in s : Max(s) >= y
  BY <1>1, Zenon DEF Max
<1>3. Max(s) \in 1..(n + 1) /\ Max(s) >= n + 1
  BY <1>2
<1> QED BY <1>3

\* A set with no more than one element.
LEMMA AtMostOne ==
  ASSUME NEW S, IsFiniteSet(S), Cardinality(S) <= 1, NEW x \in S, NEW y \in S
  PROVE  x = y
<1>1. IsFiniteSet(S \ {x}) /\ Cardinality(S \ {x}) = Cardinality(S) - 1
  BY FS_RemoveElement
<1>2. Cardinality(S) \in Nat /\ Cardinality(S \ {x}) \in Nat
  BY <1>1, FS_CardinalityType
<1>3. S \ {x} = {}
  BY <1>1, <1>2, FS_EmptySet
<1> QED BY <1>3

=============================================================================
