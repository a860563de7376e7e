--------------------------- MODULE SequenceLemmas ---------------------------
(***************************************************************************)
(* Facts about least numbers, and about the sequences that filters and     *)
(* folds compute.  A recursive function is met through the sequence of its *)
(* values: that there is one, and that each follows from the one before.   *)
(***************************************************************************)
EXTENDS Integers, Sequences, SequencesExt, Iterators, FiniteSetTheorems, TLAPS

\* What a sequence holds, of whatever set.
LEMMA Elements ==
  ASSUME NEW S, NEW s \in Seq(S)
  PROVE  Len(s) \in Nat /\ \A m \in 1..Len(s) : s[m] \in S
OBVIOUS

\* Sets of numbers have a least one.
LEMMA LeastNatural ==
  ASSUME NEW T, T \subseteq Nat, T # {}
  PROVE  \E m \in T : \A k \in T : m <= k
<1> DEFINE R == {p \in Nat \X Nat : p[1] < p[2]}
<1>1. IsWellFoundedOn(R, Nat)
  BY NatLessThanWellFounded DEF OpToRel
<1> HIDE DEF R
<1>2. PICK m \in T : \A k \in T : ~(<<k, m>> \in R)
  BY <1>1, WFMin
<1>3. \A k \in T : ~(k < m)
  BY <1>2 DEF R
<1> QED BY <1>3

\* The least of a set.
LEMMA MinIsLeast ==
  ASSUME NEW T, T \subseteq Nat, NEW m \in T, \A k \in T : m <= k
  PROVE  Min(T) = m
<1> DEFINE least == Min(T)
<1>1. least \in T /\ \A k \in T : least <= k
  BY DEF Min
<1> HIDE DEF least
<1>2. least \in Nat /\ m \in Nat /\ least <= m /\ m <= least
  BY <1>1
<1>3. least = m
  BY <1>2
<1> QED BY <1>3 DEF least

-----------------------------------------------------------------------------
(* Concatenations *)

LEMMA SeqMonotone ==
  ASSUME NEW A, NEW B, A \subseteq B, NEW s \in Seq(A)
  PROVE  s \in Seq(B)
<1>1. Len(s) \in Nat /\ \A i \in 1..Len(s) : s[i] \in A
  OBVIOUS
<1>2. s \in [1..Len(s) -> B]
  BY <1>1
<1> QED BY <1>1, <1>2

\* What FlattenSeq computes on the way: the concatenations of the first, the first two, ...
Flattens(f, seqs, n) ==
  f = [i \in 1..n |-> IF i = 1 THEN seqs[i] ELSE f[i - 1] \o seqs[i]]

LEMMA FlattenExists == \A seqs : \A n \in Nat : \E f : Flattens(f, seqs, n)
<1> SUFFICES ASSUME NEW seqs PROVE \A n \in Nat : \E f : Flattens(f, seqs, n)
  OBVIOUS
<1> DEFINE T == {n \in Nat : ~ \E f : Flattens(f, seqs, n)}
<1> SUFFICES ASSUME T # {} PROVE FALSE
  OBVIOUS
<1>1. PICK m \in T : \A k \in T : m <= k
  BY LeastNatural
<1>2. CASE m = 0
  <2> DEFINE g == [i \in 1..0 |-> <<>>]
  <2>1. Flattens(g, seqs, 0)
    BY DEF Flattens
  <2> QED BY <1>2, <2>1
<1>3. CASE m # 0
  <2>1. m - 1 \in Nat /\ m \in Nat /\ m - 1 \notin T
    BY <1>1, <1>3
  <2>2. PICK f : Flattens(f, seqs, m - 1)
    BY <2>1
  <2> DEFINE g == [i \in 1..m |-> IF i = 1 THEN seqs[i] ELSE f[i - 1] \o seqs[i]]
  <2>3. \A i \in 1..(m - 1) : g[i] = f[i]
    <3>1. \A i \in 1..(m - 1) : f[i] = IF i = 1 THEN seqs[i] ELSE f[i - 1] \o seqs[i]
      BY <2>2 DEF Flattens
    <3>2. \A i \in 1..(m - 1) : i \in 1..m
      BY <2>1
    <3> QED BY <3>1, <3>2
  <2>4. \A i \in 1..m : g[i] = IF i = 1 THEN seqs[i] ELSE g[i - 1] \o seqs[i]
    <3> SUFFICES ASSUME NEW i \in 1..m, i # 1 PROVE g[i] = g[i - 1] \o seqs[i]
      OBVIOUS
    <3>1. i - 1 \in 1..(m - 1)
      BY <2>1
    <3> QED BY <2>3, <3>1
  <2>5. Flattens(g, seqs, m)
    <3> HIDE DEF g
    <3>1. g = [i \in 1..m |-> g[i]]
      BY DEF g
    <3> QED BY <2>4, <3>1 DEF Flattens
  <2> QED BY <2>5
<1> QED BY <1>2, <1>3

\* A concatenation is made one sequence at a time.
LEMMA FlattenSteps ==
  ASSUME NEW S, NEW n \in Nat, NEW s \in [0..n -> Seq(S)]
  PROVE  \E g : /\ g[0] = s[0] /\ g[n] = FlattenSeq([i \in 1..(n + 1) |-> s[i - 1]])
                /\ \A k \in 1..n : g[k] = g[k - 1] \o s[k]
<1> DEFINE seqs == [i \in 1..(n + 1) |-> s[i - 1]]
<1>1. \A i \in 1..(n + 1) : i - 1 \in 0..n /\ seqs[i] = s[i - 1] /\ seqs[i] \in Seq(S)
  OBVIOUS
<1>2. seqs \in Seq(Seq(S)) /\ Len(seqs) = n + 1
  BY <1>1
<1> HIDE DEF seqs
<1>3. PICK f : Flattens(f, seqs, n + 1) /\ FlattenSeq(seqs) = f[n + 1]
  <2>1. n + 1 \in Nat /\ n + 1 # 0
    OBVIOUS
  <2>2. \E f : Flattens(f, seqs, n + 1)
    BY <2>1, FlattenExists
  <2>3. FlattenSeq(seqs) = (CHOOSE f : Flattens(f, seqs, n + 1))[n + 1]
    BY <1>2, <2>1 DEF FlattenSeq, Flattens
  <2> QED BY <2>2, <2>3
<1>4. \A i \in 1..(n + 1) : f[i] = IF i = 1 THEN seqs[i] ELSE f[i - 1] \o seqs[i]
  BY <1>3 DEF Flattens
<1> DEFINE g == [k \in 0..n |-> f[k + 1]]
<1>5. g[0] = s[0] /\ g[n] = FlattenSeq(seqs)
  <2>1. 1 \in 1..(n + 1) /\ 1 - 1 = 0
    OBVIOUS
  <2>2. f[1] = s[0]
    BY <1>1, <1>4, <2>1
  <2> QED BY <1>3, <2>2
<1>6. ASSUME NEW k \in 1..n PROVE g[k] = g[k - 1] \o s[k]
  <2>1. PICK m : m = k + 1
    OBVIOUS
  <2>2. m \in 1..(n + 1) /\ m # 1 /\ m - 1 = k /\ k \in 0..n /\ k - 1 \in 0..n
    BY <2>1
  <2>3. f[m] = f[m - 1] \o seqs[m] /\ seqs[m] = s[m - 1]
    BY <1>1, <1>4, <2>2
  <2>4. g[k] = f[m] /\ g[k - 1] = f[k]
    BY <2>1, <2>2
  <2> QED BY <2>2, <2>3, <2>4
<1> HIDE DEF g
<1> QED BY <1>5, <1>6 DEF seqs

-----------------------------------------------------------------------------
(* Filters *)

\* What Filter computes on the way: what it keeps of the first elements.
Filters(f, s, T, n) ==
  f = [i \in 0..n |-> IF i = 0 THEN <<>>
                      ELSE IF s[i] \in T THEN Append(f[i - 1], s[i]) ELSE f[i - 1]]

LEMMA FilterExists == \A s, T : \A n \in Nat : \E f : Filters(f, s, T, n)
<1> SUFFICES ASSUME NEW s, NEW T PROVE \A n \in Nat : \E f : Filters(f, s, T, n)
  OBVIOUS
<1> DEFINE Without == {n \in Nat : ~ \E f : Filters(f, s, T, n)}
<1> SUFFICES ASSUME Without # {} PROVE FALSE
  OBVIOUS
<1>1. PICK m \in Without : \A k \in Without : m <= k
  BY LeastNatural
<1>2. CASE m = 0
  <2> DEFINE g == [i \in 0..0 |-> <<>>]
  <2>1. Filters(g, s, T, 0)
    BY DEF Filters
  <2> QED BY <1>2, <2>1
<1>3. CASE m # 0
  <2>1. m - 1 \in Nat /\ m \in Nat /\ m - 1 \notin Without
    BY <1>1, <1>3
  <2>2. PICK f : Filters(f, s, T, m - 1)
    BY <2>1
  <2> DEFINE Body(h, i) == IF i = 0 THEN <<>>
                           ELSE IF s[i] \in T THEN Append(h[i - 1], s[i]) ELSE h[i - 1]
             g == [i \in 0..m |-> Body(f, i)]
  <2>3. \A i \in 0..(m - 1) : g[i] = f[i]
    <3>1. \A i \in 0..(m - 1) : f[i] = Body(f, i)
      BY <2>2 DEF Filters
    <3>2. \A i \in 0..(m - 1) : i \in 0..m
      BY <2>1
    <3> HIDE DEF Body
    <3> QED BY <3>1, <3>2
  <2>4. \A i \in 0..m : g[i] = Body(g, i)
    <3> SUFFICES ASSUME NEW i \in 0..m PROVE Body(f, i) = Body(g, i)
      OBVIOUS
    <3>1. CASE i = 0
      BY <3>1
    <3>2. CASE i # 0
      <4>1. i - 1 \in 0..(m - 1) /\ i > 0
        BY <2>1, <3>2
      <4>2. g[i - 1] = f[i - 1]
        BY <2>3, <4>1
      <4> HIDE DEF g
      <4> QED BY <4>1, <4>2
    <3> QED BY <3>1, <3>2
  <2>5. Filters(g, s, T, m)
    <3> HIDE DEF g
    <3>1. g = [i \in 0..m |-> g[i]]
      BY DEF g
    <3> QED BY <2>4, <3>1 DEF Filters
  <2> QED BY <2>5
<1> QED BY <1>2, <1>3

\* Filter goes through a sequence once and keeps what is in the set.
LEMMA FilterSteps ==
  ASSUME NEW S, NEW s \in Seq(S), NEW T
  PROVE  \E f : /\ f[0] = <<>> /\ f[Len(s)] = Filter(s, T)
                /\ \A i \in 1..Len(s) :
                     f[i] = IF s[i] \in T THEN Append(f[i - 1], s[i]) ELSE f[i - 1]
<1>1. Len(s) \in Nat
  OBVIOUS
<1>2. \E f : Filters(f, s, T, Len(s))
  BY <1>1, FilterExists
<1>3. Filter(s, T) = (CHOOSE f : Filters(f, s, T, Len(s)))[Len(s)]
  BY DEF Filter, Filters
<1>4. PICK f : Filters(f, s, T, Len(s)) /\ Filter(s, T) = f[Len(s)]
  BY <1>2, <1>3
<1>5. f[0] = <<>>
  <2>1. 0 \in 0..Len(s)
    BY <1>1
  <2> QED BY <1>4, <2>1 DEF Filters
<1>6. ASSUME NEW i \in 1..Len(s)
      PROVE  f[i] = IF s[i] \in T THEN Append(f[i - 1], s[i]) ELSE f[i - 1]
  <2>1. i \in 0..Len(s) /\ i # 0 /\ i > 0
    BY <1>1
  <2> QED BY <1>4, <2>1 DEF Filters
<1> QED BY <1>4, <1>5, <1>6

\* What it keeps depends on nothing that is not in the sequence.
LEMMA FilterSame ==
  ASSUME NEW S, NEW s \in Seq(S), NEW T, NEW U, \A x \in ToSet(s) : x \in T <=> x \in U
  PROVE  Filter(s, T) = Filter(s, U)
<1>1. Len(s) \in Nat /\ \A i \in 1..Len(s) : s[i] \in T <=> s[i] \in U
  BY DEF ToSet
<1>2. PICK f : /\ f[0] = <<>> /\ f[Len(s)] = Filter(s, T)
               /\ \A i \in 1..Len(s) :
                    f[i] = IF s[i] \in T THEN Append(f[i - 1], s[i]) ELSE f[i - 1]
  BY FilterSteps
<1>3. PICK g : /\ g[0] = <<>> /\ g[Len(s)] = Filter(s, U)
               /\ \A i \in 1..Len(s) :
                    g[i] = IF s[i] \in U THEN Append(g[i - 1], s[i]) ELSE g[i - 1]
  BY FilterSteps
<1> DEFINE Others == {i \in 0..Len(s) : f[i] # g[i]}
<1>4. Others = {}
  <2> SUFFICES ASSUME Others # {} PROVE FALSE
    OBVIOUS
  <2>1. PICK m \in Others : \A k \in Others : m <= k
    <3>1. Others \subseteq Nat
      BY <1>1
    <3> QED BY <3>1, LeastNatural
  <2>2. m \in 1..Len(s) /\ f[m - 1] = g[m - 1]
    <3>1. m \in 0..Len(s) /\ m # 0
      BY <1>2, <1>3, <2>1
    <3>2. m \in 1..Len(s) /\ m - 1 \in 0..Len(s) /\ ~(m <= m - 1)
      BY <1>1, <3>1
    <3> QED BY <2>1, <3>2
  <2> QED BY <1>1, <1>2, <1>3, <2>1, <2>2
<1> QED BY <1>1, <1>2, <1>3, <1>4

\* A sequence that is not empty ends with an element.
LEMMA FrontAndLast ==
  ASSUME NEW S, NEW s \in Seq(S), s # <<>>
  PROVE  \E r \in Seq(S), x \in S : s = Append(r, x) /\ Len(s) = Len(r) + 1
<1>1. Len(s) \in Nat /\ Len(s) # 0
  OBVIOUS
<1> DEFINE r == [i \in 1..(Len(s) - 1) |-> s[i]]
<1>2. r \in Seq(S) /\ Len(r) = Len(s) - 1 /\ s[Len(s)] \in S
  BY <1>1
<1>3. s = Append(r, s[Len(s)])
  BY <1>1, <1>2
<1>4. Len(s) = Len(r) + 1
  BY <1>1, <1>2
<1>5. PICK x \in S : x = s[Len(s)]
  BY <1>2
<1> HIDE DEF r
<1> QED BY <1>2, <1>3, <1>4, <1>5

LEMMA FilterOfEmpty == \A T : Filter(<<>>, T) = <<>>
<1> SUFFICES ASSUME NEW T PROVE Filter(<<>>, T) = <<>>
  OBVIOUS
<1>1. PICK s : s = <<>>
  OBVIOUS
<1>2. s \in Seq({}) /\ Len(s) = 0
  BY <1>1
<1>3. \A q \in Seq({}) : \E f : f[0] = <<>> /\ f[Len(q)] = Filter(q, T)
  BY FilterSteps
<1>4. PICK f : f[0] = <<>> /\ f[Len(s)] = Filter(s, T)
  BY <1>2, <1>3
<1> QED BY <1>1, <1>2, <1>4

\* An element more is kept, or not.
LEMMA FilterOfAppend ==
  ASSUME NEW S, NEW s \in Seq(S), NEW x \in S, NEW T
  PROVE  Filter(Append(s, x), T) = IF x \in T THEN Append(Filter(s, T), x) ELSE Filter(s, T)
<1>1. PICK r : r = Append(s, x)
  OBVIOUS
<1>2. /\ r \in Seq(S) /\ Len(s) \in Nat /\ Len(r) = Len(s) + 1 /\ r[Len(s) + 1] = x
      /\ \A i \in 1..Len(s) : r[i] = s[i]
  BY <1>1
<1>3. PICK f : /\ f[0] = <<>> /\ f[Len(s)] = Filter(s, T)
               /\ \A i \in 1..Len(s) :
                    f[i] = IF s[i] \in T THEN Append(f[i - 1], s[i]) ELSE f[i - 1]
  BY FilterSteps
<1>4. PICK g : /\ g[0] = <<>> /\ g[Len(r)] = Filter(r, T)
               /\ \A i \in 1..Len(r) :
                    g[i] = IF r[i] \in T THEN Append(g[i - 1], r[i]) ELSE g[i - 1]
  BY <1>2, FilterSteps
<1> DEFINE Others == {i \in 0..Len(s) : g[i] # f[i]}
<1>5. Others = {}
  <2> SUFFICES ASSUME Others # {} PROVE FALSE
    OBVIOUS
  <2>1. PICK m \in Others : \A k \in Others : m <= k
    <3>1. Others \subseteq Nat
      BY <1>2
    <3> QED BY <3>1, LeastNatural
  <2>2. m \in 0..Len(s) /\ g[m] # f[m] /\ m # 0
    BY <1>3, <1>4, <2>1
  <2>3. m \in 1..Len(s) /\ m \in 1..Len(r) /\ m - 1 \in 0..Len(s) /\ ~(m <= m - 1)
    BY <1>2, <2>2
  <2>4. g[m - 1] = f[m - 1]
    BY <2>1, <2>3
  <2> QED BY <1>2, <1>3, <1>4, <2>2, <2>3, <2>4
<1>6. g[Len(s)] = Filter(s, T)
  BY <1>2, <1>3, <1>5
<1>7. PICK n : n = Len(r)
  OBVIOUS
<1>8. n \in 1..Len(r) /\ n - 1 = Len(s) /\ r[n] = x
  BY <1>2, <1>7
<1> QED BY <1>1, <1>4, <1>6, <1>7, <1>8

\* What is true of the empty sequence, and stays so with an element more, is true of all.
LEMMA SequenceInduction ==
  ASSUME NEW S, NEW T, <<>> \in T, \A r \in Seq(S), x \in S : r \in T => Append(r, x) \in T
  PROVE  Seq(S) \subseteq T
<1> DEFINE Others == {n \in Nat : \E s \in Seq(S) : Len(s) = n /\ s \notin T}
<1> SUFFICES ASSUME NEW q \in Seq(S), q \notin T PROVE FALSE
  OBVIOUS
<1>1. Len(q) \in Others
  OBVIOUS
<1>2. PICK m \in Others : \A k \in Others : m <= k
  BY <1>1, LeastNatural
<1>3. PICK s \in Seq(S) : Len(s) = m /\ s \notin T
  BY <1>2
<1>4. s # <<>>
  BY <1>3
<1>5. PICK r \in Seq(S), x \in S : s = Append(r, x) /\ Len(s) = Len(r) + 1
  BY <1>4, FrontAndLast
<1>6. Len(r) \in Nat /\ Len(r) \notin Others
  BY <1>2, <1>3, <1>5
<1> QED BY <1>3, <1>5, <1>6

LEMMA ToSetOfAppend ==
  ASSUME NEW S, NEW s \in Seq(S), NEW x \in S
  PROVE  ToSet(Append(s, x)) = ToSet(s) \cup {x}
<1>1. PICK r : r = Append(s, x)
  OBVIOUS
<1>2. /\ r \in Seq(S) /\ Len(s) \in Nat /\ Len(r) = Len(s) + 1 /\ r[Len(s) + 1] = x
      /\ \A i \in 1..Len(s) : r[i] = s[i]
  BY <1>1
<1>3. DOMAIN r = 1..(Len(s) + 1) /\ DOMAIN s = 1..Len(s)
  BY <1>1, <1>2
<1>4. ASSUME NEW y \in ToSet(r) PROVE y \in ToSet(s) \cup {x}
  <2>1. PICK i \in 1..(Len(s) + 1) : y = r[i]
    BY <1>3, <1>4 DEF ToSet
  <2>2. i = Len(s) + 1 \/ i \in 1..Len(s)
    BY <1>2, <2>1
  <2> QED BY <1>2, <1>3, <2>1, <2>2 DEF ToSet
<1>5. ASSUME NEW y \in ToSet(s) PROVE y \in ToSet(r)
  <2>1. PICK i \in 1..Len(s) : y = s[i]
    BY <1>3, <1>5 DEF ToSet
  <2> QED BY <1>2, <1>3, <2>1 DEF ToSet
<1>6. x \in ToSet(r)
  <2>1. Len(s) + 1 \in 1..(Len(s) + 1)
    BY <1>2
  <2> QED BY <1>2, <1>3, <2>1 DEF ToSet
<1> QED BY <1>1, <1>4, <1>5, <1>6

\* What is kept is what the sequence and the set have in common.
LEMMA FilterType ==
  ASSUME NEW S, NEW s \in Seq(S), NEW T
  PROVE  Filter(s, T) \in Seq(S) /\ ToSet(Filter(s, T)) = ToSet(s) \cap T
<1> DEFINE P(r) == Filter(r, T) \in Seq(S) /\ ToSet(Filter(r, T)) = ToSet(r) \cap T
<1>1. P(<<>>)
  <2>1. <<>> \in Seq(S) /\ ToSet(<<>>) = {}
    BY DEF ToSet
  <2>2. Filter(<<>>, T) = <<>>
    BY FilterOfEmpty
  <2> QED BY <2>1, <2>2
<1>2. ASSUME NEW r \in Seq(S), NEW x \in S, P(r) PROVE P(Append(r, x))
  <2>1. ToSet(Append(r, x)) = ToSet(r) \cup {x}
    BY ToSetOfAppend
  <2>2. CASE x \in T
    <3>1. Filter(Append(r, x), T) = Append(Filter(r, T), x)
      BY <2>2, FilterOfAppend
    <3>2. ToSet(Append(Filter(r, T), x)) = ToSet(Filter(r, T)) \cup {x}
      BY <1>2, ToSetOfAppend
    <3> QED BY <1>2, <2>1, <2>2, <3>1, <3>2
  <2>3. CASE x \notin T
    BY <1>2, <2>1, <2>3, FilterOfAppend
  <2> QED BY <2>2, <2>3
<1> HIDE DEF P
<1> DEFINE Those == {r \in Seq(S) : P(r)}
<1>3. <<>> \in Those /\ \A r \in Seq(S), x \in S : r \in Those => Append(r, x) \in Those
  BY <1>1, <1>2
<1> HIDE DEF Those
<1>4. Seq(S) \subseteq Those
  BY <1>3, SequenceInduction
<1> QED BY <1>4 DEF Those, P

LEMMA ConcatOfAppend ==
  ASSUME NEW S, NEW p \in Seq(S), NEW t \in Seq(S), NEW x \in S
  PROVE  p \o Append(t, x) = Append(p \o t, x)
<1>1. PICK l \in Nat : l = Len(p)
  OBVIOUS
<1>2. PICK n \in Nat : n = Len(t)
  OBVIOUS
<1>3. p \o Append(t, x) \in Seq(S) /\ Append(p \o t, x) \in Seq(S)
  OBVIOUS
<1>4. Len(p \o Append(t, x)) = l + n + 1 /\ Len(Append(p \o t, x)) = l + n + 1
  BY <1>1, <1>2
<1>5. ASSUME NEW i \in 1..(l + n + 1) PROVE (p \o Append(t, x))[i] = Append(p \o t, x)[i]
  BY <1>1, <1>2
<1> QED BY <1>3, <1>4, <1>5

\* A filter takes a concatenation piece by piece.
LEMMA FilterOfConcat ==
  ASSUME NEW S, NEW s \in Seq(S), NEW q \in Seq(S), NEW T
  PROVE  Filter(s \o q, T) = Filter(s, T) \o Filter(q, T)
<1> DEFINE P(r) == Filter(s \o r, T) = Filter(s, T) \o Filter(r, T)
<1>0. Filter(s, T) \in Seq(S)
  BY FilterType
<1>1. P(<<>>)
  BY <1>0, FilterOfEmpty
<1>2. ASSUME NEW r \in Seq(S), NEW x \in S, P(r) PROVE P(Append(r, x))
  <2>1. s \o Append(r, x) = Append(s \o r, x) /\ s \o r \in Seq(S)
    OBVIOUS
  <2>2. Filter(r, T) \in Seq(S)
    BY FilterType
  <2>3. CASE x \in T
    <3>1. Filter(Append(r, x), T) = Append(Filter(r, T), x)
      BY <2>3, FilterOfAppend
    <3>2. Filter(Append(s \o r, x), T) = Append(Filter(s \o r, T), x)
      BY <2>1, <2>3, FilterOfAppend
    <3>3. Filter(s, T) \o Append(Filter(r, T), x) = Append(Filter(s, T) \o Filter(r, T), x)
      BY <1>0, <2>2, ConcatOfAppend
    <3>4. Filter(s \o r, T) = Filter(s, T) \o Filter(r, T)
      BY <1>2
    <3>5. Filter(s \o Append(r, x), T) = Append(Filter(s \o r, T), x)
      BY <2>1, <3>2
    <3>6. Filter(s \o Append(r, x), T) = Filter(s, T) \o Append(Filter(r, T), x)
      BY <3>3, <3>4, <3>5
    <3> QED BY <3>1, <3>6
  <2>4. CASE x \notin T
    <3>1. Filter(Append(r, x), T) = Filter(r, T)
      BY <2>4, FilterOfAppend
    <3>2. Filter(Append(s \o r, x), T) = Filter(s \o r, T)
      BY <2>1, <2>4, FilterOfAppend
    <3> QED BY <1>2, <2>1, <3>1, <3>2
  <2> QED BY <2>3, <2>4
<1> HIDE DEF P
<1> DEFINE Those == {r \in Seq(S) : P(r)}
<1>3. <<>> \in Those /\ \A r \in Seq(S), x \in S : r \in Those => Append(r, x) \in Those
  BY <1>1, <1>2
<1> HIDE DEF Those
<1>4. Seq(S) \subseteq Those
  BY <1>3, SequenceInduction
<1> QED BY <1>4 DEF Those, P

\* Two filters keep what one does.
LEMMA FilterTwice ==
  ASSUME NEW S, NEW s \in Seq(S), NEW T, NEW U
  PROVE  Filter(Filter(s, T), U) = Filter(s, T \cap U)
<1> DEFINE P(r) == Filter(Filter(r, T), U) = Filter(r, T \cap U)
<1>1. P(<<>>)
  BY FilterOfEmpty
<1>2. ASSUME NEW r \in Seq(S), NEW x \in S, P(r) PROVE P(Append(r, x))
  <2>1. Filter(r, T) \in Seq(S)
    BY FilterType
  <2>2. Filter(Append(r, x), T) = IF x \in T THEN Append(Filter(r, T), x) ELSE Filter(r, T)
    BY FilterOfAppend
  <2>3. Filter(Append(r, x), T \cap U)
          = IF x \in T \cap U THEN Append(Filter(r, T \cap U), x) ELSE Filter(r, T \cap U)
    BY FilterOfAppend
  <2>4. Filter(Append(Filter(r, T), x), U)
          = IF x \in U THEN Append(Filter(Filter(r, T), U), x) ELSE Filter(Filter(r, T), U)
    BY <2>1, FilterOfAppend
  <2>5. CASE x \in T
    <3>1. Filter(Append(r, x), T) = Append(Filter(r, T), x)
      BY <2>2, <2>5
    <3>2. Filter(Filter(Append(r, x), T), U) = Filter(Append(Filter(r, T), x), U)
      BY <3>1
    <3>3. Filter(Filter(r, T), U) = Filter(r, T \cap U)
      BY <1>2
    <3> QED BY <2>3, <2>4, <2>5, <3>2, <3>3
  <2>6. CASE x \notin T
    BY <1>2, <2>2, <2>3, <2>6
  <2> QED BY <2>5, <2>6
<1> HIDE DEF P
<1> DEFINE Those == {r \in Seq(S) : P(r)}
<1>3. <<>> \in Those /\ \A r \in Seq(S), x \in S : r \in Those => Append(r, x) \in Those
  BY <1>1, <1>2
<1> HIDE DEF Those
<1>4. Seq(S) \subseteq Those
  BY <1>3, SequenceInduction
<1> QED BY <1>4 DEF Those, P

\* Nothing in common, nothing kept.
LEMMA FilterNone ==
  ASSUME NEW S, NEW s \in Seq(S), NEW T, ToSet(s) \cap T = {}
  PROVE  Filter(s, T) = <<>>
<1>1. PICK f : f = Filter(s, T)
  OBVIOUS
<1>2. f \in Seq(S) /\ ToSet(f) = {}
  BY <1>1, FilterType
<1>3. Len(f) \in Nat /\ DOMAIN f = 1..Len(f)
  BY <1>2
<1>4. ~(1 \in 1..Len(f))
  BY <1>2, <1>3 DEF ToSet
<1>5. Len(f) = 0
  BY <1>3, <1>4
<1> QED BY <1>1, <1>2, <1>5

\* All in common, all kept.
LEMMA FilterAll ==
  ASSUME NEW S, NEW s \in Seq(S), NEW T, ToSet(s) \subseteq T
  PROVE  Filter(s, T) = s
<1> DEFINE P(r) == Filter(r, S) = r
<1>1. P(<<>>)
  BY FilterOfEmpty
<1>2. ASSUME NEW r \in Seq(S), NEW x \in S, P(r) PROVE P(Append(r, x))
  BY <1>2, FilterOfAppend
<1> HIDE DEF P
<1> DEFINE Those == {r \in Seq(S) : P(r)}
<1>3. <<>> \in Those /\ \A r \in Seq(S), x \in S : r \in Those => Append(r, x) \in Those
  BY <1>1, <1>2
<1> HIDE DEF Those
<1>4. Seq(S) \subseteq Those
  BY <1>3, SequenceInduction
<1>5. Filter(s, S) = s
  BY <1>4 DEF Those, P
<1>6. \A x \in ToSet(s) : x \in S /\ x \in T
  BY DEF ToSet
<1>7. Filter(s, T) = Filter(s, S)
  BY <1>6, FilterSame
<1> QED BY <1>5, <1>7

LEMMA ConcatTail ==
  ASSUME NEW S, NEW p \in Seq(S), NEW t \in Seq(S), NEW k \in Int,
         Len(p) < k, k <= Len(p) + Len(t)
  PROVE  (p \o t)[k] = t[k - Len(p)]
OBVIOUS

\* The elements of T are those after the first a, up to the one at b.
Lies(T, s, a, b) ==
  a <= b /\ b <= Len(s) /\ \A k \in 1..Len(s) : s[k] \in T <=> a < k /\ k <= b

Part(s, a, b) == [k \in 1..(b - a) |-> s[a + k]]

\* What lies together in a sequence is kept as it lies.
LEMMA FilterOfPart ==
  ASSUME NEW S, NEW s \in Seq(S), NEW T, NEW a \in Nat, NEW b \in Nat, Lies(T, s, a, b)
  PROVE  Filter(s, T) = Part(s, a, b)
<1>1. PICK n \in Nat : n = Len(s)
  OBVIOUS
<1>0. a <= b /\ b <= n /\ \A k \in 1..n : s[k] \in T <=> a < k /\ k <= b
  BY <1>1 DEF Lies
<1> DEFINE p == [k \in 1..a |-> s[k]]
           q == [k \in 1..(b - a) |-> s[a + k]]
           r == [k \in 1..(n - b) |-> s[b + k]]
<1>2. /\ \A k \in 1..a : k \in 1..n /\ s[k] \in S \ T
      /\ \A k \in 1..(b - a) : a + k \in 1..n /\ s[a + k] \in S \cap T
      /\ \A k \in 1..(n - b) : b + k \in 1..n /\ s[b + k] \in S \ T
  <2>1. \A k \in 1..n : s[k] \in S /\ (s[k] \in T <=> a < k /\ k <= b)
    BY <1>0, <1>1
  <2>2. \A k \in 1..a : k \in 1..n /\ ~(a < k)
    BY <1>0, <1>1
  <2>3. \A k \in 1..(b - a) : a + k \in 1..n /\ a < a + k /\ a + k <= b
    BY <1>0, <1>1
  <2>4. \A k \in 1..(n - b) : b + k \in 1..n /\ ~(b + k <= b)
    BY <1>0, <1>1
  <2> QED BY <2>1, <2>2, <2>3, <2>4
<1>3. /\ p \in Seq(S) /\ Len(p) = a /\ q \in Seq(S) /\ Len(q) = b - a
      /\ r \in Seq(S) /\ Len(r) = n - b
  BY <1>0, <1>1, <1>2
<1>4. ToSet(p) \cap T = {} /\ ToSet(q) \subseteq T /\ ToSet(r) \cap T = {}
  BY <1>2 DEF ToSet
<1>5. s = p \o (q \o r)
  <2> DEFINE t == p \o (q \o r)
  <2>1. t \in Seq(S) /\ Len(t) = n
    BY <1>0, <1>1, <1>3
  <2>2. ASSUME NEW k \in 1..n PROVE t[k] = s[k]
    <3>1. CASE k <= a
      BY <1>0, <1>1, <1>3, <3>1
    <3>2. CASE a < k /\ k <= b
      <4>1. t[k] = (q \o r)[k - a]
        BY <1>0, <1>1, <1>3, <3>2
      <4>2. k - a \in 1..(b - a) /\ a + (k - a) = k
        BY <3>2
      <4>3. (q \o r)[k - a] = q[k - a] /\ q[k - a] = s[a + (k - a)]
        BY <1>0, <1>1, <1>3, <4>2
      <4> QED BY <4>1, <4>2, <4>3
    <3>3. CASE b < k
      <4>0. q \o r \in Seq(S) /\ Len(q \o r) = n - a
        BY <1>0, <1>1, <1>3
      <4>1. t[k] = (q \o r)[k - a]
        <5>1. k \in Int /\ Len(p) < k /\ k <= Len(p) + Len(q \o r)
          BY <1>0, <1>1, <1>3, <3>3, <4>0
        <5>2. (p \o (q \o r))[k] = (q \o r)[k - Len(p)]
          <6> HIDE DEF p, q, r, t
          <6> QED BY <1>3, <4>0, <5>1, ConcatTail
        <5> QED BY <1>3, <5>2
      <4>2. k - b \in 1..(n - b) /\ b + (k - b) = k /\ k - a = (b - a) + (k - b)
        BY <1>1, <3>3
      <4>3. (q \o r)[k - a] = r[k - b] /\ r[k - b] = s[b + (k - b)]
        BY <1>0, <1>1, <1>3, <4>2
      <4> QED BY <4>1, <4>2, <4>3
    <3>4. k <= a \/ (a < k /\ k <= b) \/ b < k
      BY <1>0
    <3> HIDE DEF t
    <3> QED BY <3>1, <3>2, <3>3, <3>4
  <2> HIDE DEF t
  <2>3. s = [k \in 1..n |-> s[k]] /\ t = [k \in 1..n |-> t[k]]
    BY <1>1, <2>1
  <2>4. s = t
    BY <2>2, <2>3
  <2> QED BY <2>4 DEF t
<1> HIDE DEF p, q, r
<1>6. Filter(p, T) = <<>> /\ Filter(r, T) = <<>> /\ Filter(q, T) = q
  BY <1>3, <1>4, FilterNone, FilterAll
<1>7. \A x, y \in Seq(S) : Filter(x \o y, T) = Filter(x, T) \o Filter(y, T)
  BY FilterOfConcat
<1>8. Filter(s, T) = <<>> \o (q \o <<>>)
  <2>1. q \o r \in Seq(S)
    BY <1>3
  <2>2. Filter(q \o r, T) = q \o <<>>
    BY <1>3, <1>6, <1>7
  <2> QED BY <1>3, <1>5, <1>6, <1>7, <2>1, <2>2
<1>9. <<>> \o (q \o <<>>) = q
  BY <1>3
<1> QED BY <1>8, <1>9 DEF q, Part

-----------------------------------------------------------------------------
(* Folds *)

\* The greatest of a set.
LEMMA MaxIsGreatest ==
  ASSUME NEW n \in Nat, NEW D \in SUBSET (1..n), D # {}
  PROVE  Max(D) \in D /\ \A x \in D : x <= Max(D)
<1> DEFINE Gaps == {n - x : x \in D}
<1>1. Gaps \subseteq Nat /\ Gaps # {}
  <2>1. \A x \in D : n - x \in Nat
    OBVIOUS
  <2>2. Gaps \subseteq Nat
    BY <2>1
  <2>3. PICK x \in D : TRUE
    OBVIOUS
  <2>4. n - x \in Gaps
    OBVIOUS
  <2> QED BY <2>2, <2>4
<1> HIDE DEF Gaps
<1>2. PICK g \in Gaps : \A h \in Gaps : g <= h
  BY <1>1, LeastNatural
<1>3. PICK m \in D : g = n - m
  BY DEF Gaps
<1>4. \A x \in D : x <= m
  <2> SUFFICES ASSUME NEW x \in D PROVE x <= m
    OBVIOUS
  <2>1. n - x \in Gaps
    BY DEF Gaps
  <2>2. n - m <= n - x
    BY <1>2, <1>3, <2>1
  <2> QED BY <2>2
<1> QED BY <1>4 DEF Max

LEMMA LastIsMax ==
  ASSUME NEW n \in Nat, NEW D \in SUBSET (1..(n + 1)), n + 1 \in D
  PROVE  Max(D) = n + 1
<1>1. \A x \in D : x \in Int /\ n + 1 >= x
  OBVIOUS
<1>2. \A x \in D : (\A y \in D : x >= y) => x = n + 1
  BY <1>1
<1> QED BY <1>1, <1>2 DEF Max

\* What FoldLeft computes on the way, for an operator given as a function: what the
\* elements at each set of places fold to, the last of them folded in last.
FoldsBy(f, G, base, s, n) ==
  \A D \in SUBSET (1..n) :
    f[D] = IF D = {} THEN base ELSE G[<<f[D \ {Max(D)}], s[Max(D)]>>]

LEMMA FoldExists ==
  ASSUME NEW A, NEW base \in A, NEW S, NEW G \in [A \X S -> A], NEW s \in Seq(S)
  PROVE  \A n \in 0..Len(s) : \E f \in [SUBSET (1..n) -> A] : FoldsBy(f, G, base, s, n)
<1> DEFINE Without ==
      {n \in 0..Len(s) : ~ \E f \in [SUBSET (1..n) -> A] : FoldsBy(f, G, base, s, n)}
<1> SUFFICES ASSUME Without # {} PROVE FALSE
  OBVIOUS
<1>0. Len(s) \in Nat
  OBVIOUS
<1>1. PICK m \in Without : \A k \in Without : m <= k
  <2>1. Without \subseteq Nat
    BY <1>0
  <2> HIDE DEF Without
  <2> QED BY <2>1, LeastNatural
<1>2. CASE m = 0
  <2> DEFINE g == [D \in SUBSET (1..0) |-> base]
  <2>1. \A D \in SUBSET (1..0) : D = {}
    OBVIOUS
  <2>2. FoldsBy(g, G, base, s, 0) /\ g \in [SUBSET (1..0) -> A]
    BY <2>1 DEF FoldsBy
  <2> QED BY <1>1, <1>2, <2>2
<1>3. CASE m # 0
  <2>1. PICK n \in Nat : m = n + 1
    BY <1>0, <1>1, <1>3
  <2>2. n \in 0..Len(s) /\ n \notin Without /\ s[n + 1] \in S
    <3>1. n \in 0..Len(s) /\ ~(m <= n) /\ n + 1 \in 1..Len(s)
      BY <1>0, <1>1, <2>1
    <3>2. s[n + 1] \in S
      <4> HIDE DEF Without
      <4> QED BY <3>1
    <3>3. n \notin Without
      <4> HIDE DEF Without
      <4> QED BY <1>1, <3>1
    <3> QED BY <3>1, <3>2, <3>3
  <2>3. PICK f \in [SUBSET (1..n) -> A] : FoldsBy(f, G, base, s, n)
    BY <2>2
  <2> DEFINE g == [D \in SUBSET (1..(n + 1)) |->
                     IF n + 1 \in D THEN G[<<f[D \ {n + 1}], s[n + 1]>>] ELSE f[D]]
  <2>4. \A D \in SUBSET (1..n) : n + 1 \notin D /\ D \in SUBSET (1..(n + 1)) /\ g[D] = f[D]
    OBVIOUS
  <2>5. ASSUME NEW D \in SUBSET (1..(n + 1)), n + 1 \in D
        PROVE  /\ D # {} /\ Max(D) = n + 1 /\ D \ {n + 1} \in SUBSET (1..n)
               /\ g[D] = G[<<f[D \ {n + 1}], s[n + 1]>>]
    BY <2>5, LastIsMax
  <2>6. ASSUME NEW D \in SUBSET (1..(n + 1)), n + 1 \notin D PROVE D \in SUBSET (1..n)
    BY <2>6
  <2>7. g \in [SUBSET (1..(n + 1)) -> A]
    <3> SUFFICES ASSUME NEW D \in SUBSET (1..(n + 1)) PROVE g[D] \in A
      OBVIOUS
    <3>1. CASE n + 1 \in D
      BY <2>2, <2>5, <3>1
    <3>2. CASE n + 1 \notin D
      BY <2>4, <2>6, <3>2
    <3> QED BY <3>1, <3>2
  <2> HIDE DEF g
  <2>8. ASSUME NEW D \in SUBSET (1..(n + 1))
        PROVE  g[D] = IF D = {} THEN base ELSE G[<<g[D \ {Max(D)}], s[Max(D)]>>]
    <3>1. CASE n + 1 \in D
      BY <2>4, <2>5, <3>1
    <3>2. CASE n + 1 \notin D
      <4>1. D \in SUBSET (1..n)
        BY <2>6, <3>2
      <4>2. g[D] = IF D = {} THEN base ELSE G[<<f[D \ {Max(D)}], s[Max(D)]>>]
        BY <2>3, <2>4, <4>1 DEF FoldsBy
      <4>3. D \ {Max(D)} \in SUBSET (1..n)
        BY <4>1
      <4> QED BY <2>4, <4>2, <4>3
    <3> QED BY <3>1, <3>2
  <2>9. m \notin Without
    <3>1. FoldsBy(g, G, base, s, n + 1)
      BY <2>8 DEF FoldsBy
    <3> QED BY <2>1, <2>7, <3>1
  <2> QED BY <1>1, <2>9
<1> QED BY <1>2, <1>3

\* The places of a beginning, and the last of them.
LEMMA FirstPlaces ==
  ASSUME NEW n \in Nat, NEW k \in 1..n
  PROVE  /\ 1..k \in SUBSET (1..n) /\ 1..k # {}
         /\ Max(1..k) = k /\ (1..k) \ {k} = 1..(k - 1)
<1>1. PICK l \in Nat : k = l + 1
  <2>1. k - 1 \in Nat /\ k = (k - 1) + 1
    OBVIOUS
  <2> QED BY <2>1
<1>2. 1..k \in SUBSET (1..(l + 1)) /\ k \in 1..k
  BY <1>1
<1>3. Max(1..k) = k
  BY <1>1, <1>2, LastIsMax
<1>4. 1..k \in SUBSET (1..n) /\ (1..k) \ {k} = 1..(k - 1)
  OBVIOUS
<1> QED BY <1>2, <1>3, <1>4

\* Two folds that begin alike and take the same steps end alike.
LEMMA FoldsAgree ==
  ASSUME NEW n \in Nat, NEW f, NEW g, g[1..0] = f[1..0],
         \A k \in 1..n : g[1..(k - 1)] = f[1..(k - 1)] => g[1..k] = f[1..k]
  PROVE  g[1..n] = f[1..n]
<1> DEFINE Others == {k \in 0..n : g[1..k] # f[1..k]}
<1> SUFFICES ASSUME Others # {} PROVE FALSE
  OBVIOUS
<1>1. PICK m \in Others : \A k \in Others : m <= k
  <2>1. Others \subseteq Nat
    OBVIOUS
  <2> QED BY <2>1, LeastNatural
<1>2. m \in 0..n /\ g[1..m] # f[1..m] /\ m # 0
  BY <1>1
<1>3. m \in 1..n /\ m - 1 \in 0..n /\ ~(m <= m - 1)
  BY <1>2
<1>4. g[1..(m - 1)] = f[1..(m - 1)]
  BY <1>1, <1>3
<1> QED BY <1>2, <1>3, <1>4

-----------------------------------------------------------------------------
(* Sorting: an order is given as the set of its pairs *)

\* R orders the elements of U.
Orders(R, U) ==
  /\ \A x \in U : <<x, x>> \notin R
  /\ \A x, y \in U : x = y \/ <<x, y>> \in R \/ <<y, x>> \in R
  /\ \A x, y, z \in U : <<x, y>> \in R /\ <<y, z>> \in R => <<x, z>> \in R

\* s takes the elements of S up in their order.
Ascends(s, S, R) ==
  /\ s \in [1..Cardinality(S) -> S]
  /\ \A i, j \in 1..Cardinality(S) : i < j => <<s[i], s[j]>> \in R

\* One more element finds its place among those sorted.
LEMMA SortedMore ==
  ASSUME NEW R, NEW U, Orders(R, U), NEW T \in SUBSET U, IsFiniteSet(T), NEW s,
         Ascends(s, T, R), NEW x \in U, x \notin T
  PROVE  \E q : Ascends(q, T \cup {x}, R)
<1>1. PICK n \in Nat : n = Cardinality(T) /\ Cardinality(T \cup {x}) = n + 1
  BY FS_CardinalityType, FS_AddElement
<1> DEFINE Later == {i \in 1..n : <<x, s[i]>> \in R}
<1>2. \A i \in 1..n : s[i] \in T /\ s[i] \in U
  BY <1>1 DEF Ascends
<1>3. PICK p \in 1..(n + 1) : /\ \A i \in 1..n : i < p => <<s[i], x>> \in R
                              /\ \A i \in 1..n : p <= i => <<x, s[i]>> \in R
  <2>1. CASE Later = {}
    <3>1. ASSUME NEW i \in 1..n PROVE <<s[i], x>> \in R
      <4>1. <<x, s[i]>> \notin R
        BY <2>1
      <4>2. s[i] \in U /\ s[i] # x
        BY <1>2
      <4> QED BY <4>1, <4>2 DEF Orders
    <3>2. n + 1 \in 1..(n + 1) /\ \A i \in 1..n : ~(n + 1 <= i)
      OBVIOUS
    <3> QED BY <3>1, <3>2
  <2>2. CASE Later # {}
    <3>1. PICK p \in Later : \A k \in Later : p <= k
      <4>1. Later \subseteq Nat
        OBVIOUS
      <4> HIDE DEF Later
      <4> QED BY <2>2, <4>1, LeastNatural
    <3>2. ASSUME NEW i \in 1..n, i < p PROVE <<s[i], x>> \in R
      <4>1. i \notin Later
        BY <3>1, <3>2
      <4> QED BY <1>2, <4>1 DEF Orders
    <3>3. ASSUME NEW i \in 1..n, p <= i PROVE <<x, s[i]>> \in R
      <4>1. CASE i = p
        BY <3>1, <4>1
      <4>2. CASE i # p
        <5>1. p \in 1..n /\ p < i
          BY <3>1, <3>3, <4>2
        <5>2. <<x, s[p]>> \in R /\ <<s[p], s[i]>> \in R
          BY <1>1, <3>1, <5>1 DEF Ascends
        <5> QED BY <1>2, <5>1, <5>2 DEF Orders
      <4> QED BY <4>1, <4>2
    <3>4. p \in 1..(n + 1)
      BY <3>1
    <3> QED BY <3>2, <3>3, <3>4
  <2> QED BY <2>1, <2>2
<1> DEFINE q == [i \in 1..(n + 1) |-> IF i < p THEN s[i] ELSE IF i = p THEN x ELSE s[i - 1]]
<1>4. /\ \A i \in 1..(n + 1) : i < p => i \in 1..n /\ q[i] = s[i]
      /\ q[p] = x
      /\ \A i \in 1..(n + 1) : p < i => i - 1 \in 1..n /\ p <= i - 1 /\ q[i] = s[i - 1]
  OBVIOUS
<1>5. q \in [1..(n + 1) -> T \cup {x}]
  <2> SUFFICES ASSUME NEW i \in 1..(n + 1) PROVE q[i] \in T \cup {x}
    OBVIOUS
  <2>1. i < p \/ i = p \/ p < i
    OBVIOUS
  <2> HIDE DEF q
  <2> QED BY <1>2, <1>4, <2>1
<1> HIDE DEF q
<1>6. ASSUME NEW i \in 1..(n + 1), NEW j \in 1..(n + 1), i < j PROVE <<q[i], q[j]>> \in R
  <2>1. CASE j < p
    <3>1. i < p
      BY <1>6, <2>1
    <3>2. i \in 1..n /\ j \in 1..n /\ q[i] = s[i] /\ q[j] = s[j]
      BY <1>4, <2>1, <3>1
    <3> QED BY <1>1, <1>6, <3>2 DEF Ascends
  <2>2. CASE j = p
    BY <1>3, <1>4, <1>6, <2>2
  <2>3. CASE p < j /\ i < p
    <3>1. i \in 1..n /\ q[i] = s[i] /\ j - 1 \in 1..n /\ q[j] = s[j - 1] /\ i < j - 1
      BY <1>4, <2>3
    <3> QED BY <1>1, <3>1 DEF Ascends
  <2>4. CASE p < j /\ i = p
    <3>1. j - 1 \in 1..n /\ q[j] = s[j - 1] /\ p <= j - 1 /\ q[i] = x
      BY <1>4, <2>4
    <3> QED BY <1>3, <3>1
  <2>5. CASE p < j /\ p < i
    <3>1. /\ i - 1 \in 1..n /\ q[i] = s[i - 1] /\ j - 1 \in 1..n /\ q[j] = s[j - 1]
          /\ i - 1 < j - 1
      BY <1>4, <1>6, <2>5
    <3> QED BY <1>1, <3>1 DEF Ascends
  <2>6. j < p \/ j = p \/ (p < j /\ i < p) \/ (p < j /\ i = p) \/ (p < j /\ p < i)
    OBVIOUS
  <2> QED BY <2>1, <2>2, <2>3, <2>4, <2>5, <2>6
<1>7. Ascends(q, T \cup {x}, R)
  BY <1>1, <1>5, <1>6 DEF Ascends
<1> QED BY <1>7

\* Every finite set can be sorted.
LEMMA SortedExists ==
  ASSUME NEW R, NEW U, Orders(R, U), NEW S \in SUBSET U, IsFiniteSet(S)
  PROVE  \E s : Ascends(s, S, R)
<1> DEFINE Unsorted == {n \in Nat : \E T \in SUBSET U : /\ IsFiniteSet(T) /\ Cardinality(T) = n
                                                        /\ ~ \E s : Ascends(s, T, R)}
<1> SUFFICES ASSUME ~ \E s : Ascends(s, S, R) PROVE FALSE
  OBVIOUS
<1>1. Cardinality(S) \in Unsorted
  BY FS_CardinalityType
<1>2. PICK m \in Unsorted : \A k \in Unsorted : m <= k
  <2>1. Unsorted \subseteq Nat
    OBVIOUS
  <2> HIDE DEF Unsorted
  <2> QED BY <1>1, <2>1, LeastNatural
<1>3. PICK T \in SUBSET U : /\ IsFiniteSet(T) /\ Cardinality(T) = m
                            /\ ~ \E s : Ascends(s, T, R)
  BY <1>2
<1>4. CASE T = {}
  <2>1. Cardinality(T) = 0
    BY <1>4, FS_EmptySet
  <2>2. Ascends([i \in 1..0 |-> 0], T, R)
    BY <2>1 DEF Ascends
  <2> QED BY <1>3, <2>2
<1>5. CASE T # {}
  <2>1. PICK x \in T : TRUE
    BY <1>5
  <2>2. /\ IsFiniteSet(T \ {x}) /\ Cardinality(T \ {x}) = m - 1 /\ Cardinality(T \ {x}) \in Nat
        /\ T \ {x} \in SUBSET U /\ x \in U /\ (T \ {x}) \cup {x} = T
    BY <1>3, <2>1, FS_RemoveElement, FS_CardinalityType
  <2>3. m - 1 \notin Unsorted
    <3>1. ~(m <= m - 1)
      BY <1>2
    <3> HIDE DEF Unsorted
    <3> QED BY <1>2, <3>1
  <2>4. PICK s : Ascends(s, T \ {x}, R)
    BY <2>2, <2>3
  <2>5. \E q : Ascends(q, (T \ {x}) \cup {x}, R)
    BY <2>2, <2>4, SortedMore
  <2> QED BY <1>3, <2>2, <2>5
<1> QED BY <1>4, <1>5

\* What ascends through a set takes up each element once.
LEMMA SortedIsOnto ==
  ASSUME NEW R, NEW U, Orders(R, U), NEW S \in SUBSET U, IsFiniteSet(S), NEW s,
         Ascends(s, S, R)
  PROVE  /\ s \in Seq(S) /\ Len(s) = Cardinality(S) /\ ToSet(s) = S
         /\ \A i, j \in 1..Len(s) : i < j => <<s[i], s[j]>> \in R
         /\ \A i, j \in 1..Len(s) : s[i] = s[j] => i = j
<1>1. PICK n \in Nat : n = Cardinality(S)
  BY FS_CardinalityType
<1>2. s \in [1..n -> S] /\ \A i, j \in 1..n : i < j => <<s[i], s[j]>> \in R
  BY <1>1 DEF Ascends
<1>3. s \in Seq(S) /\ Len(s) = n
  BY <1>2
<1>4. \A i, j \in 1..n : s[i] = s[j] => i = j
  <2> SUFFICES ASSUME NEW i \in 1..n, NEW j \in 1..n, s[i] = s[j] PROVE i = j
    OBVIOUS
  <2>1. s[i] \in U /\ <<s[i], s[j]>> \notin R /\ <<s[j], s[i]>> \notin R
    BY <1>2 DEF Orders
  <2>2. ~(i < j) /\ ~(j < i)
    BY <1>2, <2>1
  <2> QED BY <2>2
<1>5. s \in Injection(1..n, S)
  BY <1>2, <1>4 DEF Injection, IsInjective
<1>6. IsFiniteSet(1..n) /\ Cardinality(1..n) = n
  <2>1. IsFiniteSet(1..n) /\ Cardinality(1..n) = IF 1 > n THEN 0 ELSE n - 1 + 1
    BY FS_Interval
  <2> QED BY <2>1
<1>7. s \in Surjection(1..n, S)
  BY <1>1, <1>5, <1>6, FS_Injection
<1>8. ToSet(s) = S
  <2>1. \A x \in S : \E i \in 1..n : s[i] = x
    BY <1>7 DEF Surjection
  <2> QED BY <1>2, <1>3, <2>1 DEF ToSet
<1> QED BY <1>1, <1>2, <1>3, <1>4, <1>8
=============================================================================
