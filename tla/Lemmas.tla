-------------------------------- MODULE Lemmas --------------------------------
(***************************************************************************)
(* Facts about finite sets, sequences and remainders that the proofs need. *)
(***************************************************************************)
EXTENDS Integers, Sequences, FiniteSets, FiniteSetTheorems, SequenceTheorems,
        WellFoundedInduction, TLAPS

(* Two sets that differ in x at most.                                      *)
LEMMA Moved ==
  ASSUME NEW S, IsFiniteSet(S), NEW U, NEW x, S \ {x} = U \ {x}
  PROVE  /\ IsFiniteSet(U)
         /\ Cardinality(S) \in Nat /\ Cardinality(U) \in Nat
         /\ x \in S /\ x \in U => Cardinality(U) = Cardinality(S)
         /\ x \notin S /\ x \notin U => Cardinality(U) = Cardinality(S)
         /\ x \in U /\ x \notin S => Cardinality(U) = Cardinality(S) + 1
         /\ x \in S /\ x \notin U => Cardinality(U) = Cardinality(S) - 1
<1>1. U = S \/ U = S \cup {x} \/ U = S \ {x}
  OBVIOUS
<1>2. IsFiniteSet(S \cup {x}) /\ IsFiniteSet(S \ {x})
  BY FS_AddElement, FS_RemoveElement
<1>3. IsFiniteSet(U)
  BY <1>1, <1>2
<1>4. CASE U = S
  BY <1>3, <1>4, FS_CardinalityType
<1>5. CASE U = S \cup {x}
  BY <1>3, <1>5, FS_CardinalityType, FS_AddElement
<1>6. CASE U = S \ {x}
  BY <1>3, <1>6, FS_CardinalityType, FS_RemoveElement
<1> QED
  BY <1>1, <1>4, <1>5, <1>6

(* A finite set that has gained x and lost nothing is larger.              *)
LEMMA Grown ==
  ASSUME NEW U, IsFiniteSet(U), NEW S \in SUBSET U, NEW x \in U, x \notin S
  PROVE  Cardinality(S) \in Nat /\ Cardinality(U) \in Nat /\ Cardinality(U) >= Cardinality(S) + 1
  BY FS_Subset, FS_CardinalityType

(* The number of elements of two disjoint sets.                            *)
LEMMA Apart ==
  ASSUME NEW S, IsFiniteSet(S), NEW U, IsFiniteSet(U), S \cap U = {}
  PROVE  /\ IsFiniteSet(S \cup U) /\ Cardinality(S) \in Nat /\ Cardinality(U) \in Nat
         /\ Cardinality(S \cup U) = Cardinality(S) + Cardinality(U)
<1>1. Cardinality(S \cup U) = Cardinality(S) + Cardinality(U) - Cardinality(S \cap U)
  BY FS_Union
<1>2. Cardinality(S \cap U) = 0
  BY FS_EmptySet
<1> QED
  BY <1>1, <1>2, FS_Union, FS_CardinalityType

(* The remainder by a positive number.                                     *)
LEMMA Remainder == ASSUME NEW a \in Nat, NEW m \in Nat \ {0} PROVE a % m \in 0..m-1
  OBVIOUS

(* ... and how a position wraps around.                                    *)
LEMMA Wrap == ASSUME NEW m \in Nat \ {0}, NEW x \in Nat, x < m + m PROVE x % m = IF x < m THEN x ELSE x - m
OBVIOUS

(* A function on 1..k as a sequence, one that is longer by e at its end,   *)
(* and one that lacks the first element.                                   *)
LEMMA FunctionIsSeq ==
  ASSUME NEW S, NEW k \in Nat, NEW s \in [1..k -> S]
  PROVE  s \in Seq(S) /\ Len(s) = k
OBVIOUS

LEMMA Appended ==
  ASSUME NEW S, NEW k \in Nat, NEW s \in [1..k -> S], NEW t, NEW e \in S,
         t \in [1..k+1 -> S], t[k+1] = e, \A j \in 1..k : t[j] = s[j]
  PROVE  t = Append(s, e) /\ Len(s) = k
<1>1. s \in Seq(S) /\ t \in Seq(S) /\ Len(s) = k /\ Len(t) = k + 1
  BY FunctionIsSeq
<1>2. /\ Append(s, e) \in Seq(S) /\ Len(Append(s, e)) = k + 1
      /\ \A j \in 1..k+1 : Append(s, e)[j] = IF j <= k THEN s[j] ELSE e
  BY <1>1, AppendProperties
<1>3. \A j \in 1..k+1 : t[j] = Append(s, e)[j]
  BY <1>2
<1> QED
  BY <1>1, <1>2, <1>3, SeqEqual

LEMMA HeadTaken ==
  ASSUME NEW S, NEW k \in Nat \ {0}, NEW s \in [1..k -> S], NEW t \in [1..k-1 -> S],
         \A j \in 1..k-1 : t[j] = s[j+1]
  PROVE  s # <<>> /\ Head(s) = s[1] /\ t = Tail(s)
<1>1. s \in Seq(S) /\ t \in Seq(S) /\ Len(s) = k /\ Len(t) = k - 1 /\ s # <<>>
  BY FunctionIsSeq
<1>2. /\ Tail(s) \in Seq(S) /\ Len(Tail(s)) = k - 1
      /\ \A j \in 1..k-1 : Tail(s)[j] = s[j+1]
  BY <1>1, HeadTailProperties
<1> QED
  BY <1>1, <1>2, SeqEqual

(* As many values as places.                                               *)
LEMMA Distinct ==
  ASSUME NEW k \in Nat, NEW S, NEW s \in [1..k -> S], \A j, m \in 1..k : s[j] = s[m] => j = m,
         NEW T, \A x : x \in T <=> \E j \in 1..k : s[j] = x
  PROVE  IsFiniteSet(T) /\ Cardinality(T) = k
<1>1. s \in [1..k -> T] /\ \A u \in T : \E j \in 1..k : s[j] = u
  OBVIOUS
<1>2. s \in Bijection(1..k, T)
  BY <1>1 DEF Bijection, Injection, Surjection, IsInjective
<1>3. IsFiniteSet(1..k) /\ Cardinality(1..k) = k
  BY FS_Interval
<1> QED
  BY <1>2, <1>3, FS_Bijection DEF ExistsBijection

(* The places of a sequence, and what is there.                            *)
LEMMA Places ==
  ASSUME NEW S, NEW s \in Seq(S)
  PROVE  Len(s) \in Nat /\ DOMAIN s = 1..Len(s) /\ \A h \in 1..Len(s) : s[h] \in S
OBVIOUS

(* The elements of two sequences one after the other.                      *)
LEMMA Joined ==
  ASSUME NEW S, NEW s \in Seq(S), NEW t \in Seq(S), NEW a, a = Len(s), NEW b, b = Len(t)
  PROVE  /\ s \o t \in Seq(S) /\ Len(s \o t) = a + b /\ a \in Nat /\ b \in Nat
         /\ \A g \in 1..a : (s \o t)[g] = s[g]
         /\ \A h \in 1..b : (s \o t)[a + h] = t[h]
<1>1. a \in Nat /\ b \in Nat
  OBVIOUS
<1>2. /\ s \o t \in Seq(S) /\ Len(s \o t) = a + b
      /\ \A k \in 1..a + b : (s \o t)[k] = IF k <= a THEN s[k] ELSE t[k - a]
  BY ConcatProperties
<1>3. /\ \A g \in 1..a : g \in 1..a + b /\ g <= a
      /\ \A h \in 1..b : a + h \in 1..a + b /\ ~(a + h <= a) /\ (a + h) - a = h
  BY <1>1
<1> QED
  BY <1>1, <1>2, <1>3

(* A place in the first or in the second one.                              *)
LEMMA Halves ==
  ASSUME NEW a \in Nat, NEW b \in Nat, NEW k \in 1..a + b
  PROVE  k \in 1..a \/ (k > a /\ k - a \in 1..b /\ k = a + (k - a))
OBVIOUS

(* The first n places of s hold the numbers of w that follow d.            *)
Numbered(s, n, w, d) == \A m \in 1..n : s[m] = <<w, d + m>>

(* p is a places of s and then b places of t.                              *)
Follows(p, s, a, t, b) ==
  (\A g \in 1..a : p[g] = s[g]) /\ (\A h \in 1..b : p[a + h] = t[h])

(* The numbers go on when what follows is numbered on from where s ends.   *)
LEMMA NumberedOn ==
  ASSUME NEW w, NEW d \in Int, NEW a \in Nat, NEW b \in Nat, NEW s, NEW t, NEW p,
         Numbered(s, a, w, d), Numbered(t, b, w, d + a), Follows(p, s, a, t, b)
  PROVE  Numbered(p, a + b, w, d)
<1> SUFFICES ASSUME NEW m \in 1..a + b PROVE p[m] = <<w, d + m>>
  BY DEF Numbered
<1>1. m \in 1..a \/ (m > a /\ m - a \in 1..b /\ m = a + (m - a))
  BY Halves
<1>2. d + m = (d + a) + (m - a)
  OBVIOUS
<1> QED
  BY <1>1, <1>2 DEF Numbered, Follows

(* R holds between any two of the first n places of s.                     *)
Pairwise(s, n, R) == \A j, k \in 1..n : j < k => <<s[j], s[k]>> \in R

(* It still does when what follows is so, and follows all that was there.  *)
LEMMA PairwiseOn ==
  ASSUME NEW R, NEW a \in Nat, NEW b \in Nat, NEW s, NEW t, NEW p,
         Pairwise(s, a, R), Pairwise(t, b, R), Follows(p, s, a, t, b),
         \A j \in 1..a, k \in 1..b : <<s[j], t[k]>> \in R
  PROVE  Pairwise(p, a + b, R)
<1> SUFFICES ASSUME NEW j \in 1..a + b, NEW k \in 1..a + b, j < k PROVE <<p[j], p[k]>> \in R
  BY DEF Pairwise
<1>1. j \in 1..a \/ (j > a /\ j - a \in 1..b /\ j = a + (j - a))
  BY Halves
<1>2. k \in 1..a \/ (k > a /\ k - a \in 1..b /\ k = a + (k - a))
  BY Halves
<1>3. CASE j \in 1..a /\ k \in 1..a
  BY <1>3 DEF Pairwise, Follows
<1>4. CASE j \in 1..a /\ k - a \in 1..b /\ k = a + (k - a)
  <2>1. p[j] = s[j] /\ p[k] = t[k - a]
    BY <1>4, Zenon DEF Follows
  <2> QED
    BY <1>4, <2>1
<1>5. CASE j - a \in 1..b /\ j = a + (j - a) /\ k - a \in 1..b /\ k = a + (k - a)
  <2>1. p[j] = t[j - a] /\ p[k] = t[k - a]
    BY <1>5, Zenon DEF Follows
  <2>2. j - a < k - a
    OBVIOUS
  <2> QED
    BY <1>5, <2>1, <2>2 DEF Pairwise
<1>6. ~ (j > a /\ k \in 1..a)
  OBVIOUS
<1> QED
  BY <1>1, <1>2, <1>3, <1>4, <1>5, <1>6

(* The least of a set of numbers, the way in which this prover does        *)
(* induction: what fails at no least number never fails.                   *)
LEMMA Least == ASSUME NEW T \in SUBSET Nat, T # {} PROVE \E m \in T : \A k \in T : m <= k
<1> DEFINE R == {ss \in Nat \X Nat : ss[1] < ss[2]}
<1>1. IsWellFoundedOn(R, Nat)
  BY NatLessThanWellFounded DEF OpToRel
<1>2. \A m, k \in Nat : <<k, m>> \in R <=> k < m
  OBVIOUS
<1> HIDE DEF R
<1>3. PICK m \in T : \A k \in T : ~ (<<k, m>> \in R)
  BY <1>1, WFMin
<1>4. ASSUME NEW k \in T PROVE m <= k
  <2>1. ~ (k < m) /\ k \in Nat /\ m \in Nat
    BY <1>2, <1>3
  <2> QED
    BY <2>1
<1> QED
  BY <1>4

(* The numbers of a set in increasing order: their sequence takes each of  *)
(* them, and there is no other one.                                        *)
LEMMA Increasing ==
  ASSUME NEW k \in Nat, NEW S \in SUBSET Nat, NEW s \in [1..k -> S],
         \A m, n \in 1..k : m < n => s[m] < s[n]
  PROVE  \A m, n \in 1..k : s[m] = s[n] => m = n
<1> SUFFICES ASSUME NEW m \in 1..k, NEW n \in 1..k, s[m] = s[n], m # n PROVE FALSE
  OBVIOUS
<1>1. s[m] \in S /\ s[n] \in S
  OBVIOUS
<1>2. s[m] \in Nat /\ s[n] \in Nat
  BY <1>1
<1>3. m < n \/ n < m
  OBVIOUS
<1> QED
  BY <1>2, <1>3

LEMMA NoneLess ==
  ASSUME NEW k \in Nat, NEW S \in SUBSET Nat,
         NEW s \in [1..k -> S], \A m, n \in 1..k : m < n => s[m] < s[n],
         NEW t \in [1..k -> S], \A m, n \in 1..k : m < n => t[m] < t[n],
         \A x \in S : \E m \in 1..k : t[m] = x,
         NEW n \in 1..k, \A m \in 1..k : m < n => s[m] = t[m]
  PROVE  ~ (s[n] < t[n])
<1>1. PICK m \in 1..k : t[m] = s[n]
  OBVIOUS
<1>2. s[n] \in Nat /\ t[n] \in Nat
  <2>1. s[n] \in S /\ t[n] \in S
    OBVIOUS
  <2> QED
    BY <2>1
<1>3. CASE m < n
  <2>1. s[m] = s[n] /\ s[m] < s[n]
    BY <1>1, <1>3
  <2> QED
    BY <1>2, <2>1
<1>4. CASE n < m
  <2>1. t[n] < s[n]
    BY <1>1, <1>4
  <2> QED
    BY <1>2, <2>1
<1>5. CASE m = n
  BY <1>1, <1>2, <1>5
<1> QED
  BY <1>2, <1>3, <1>4, <1>5

LEMMA OneOrder ==
  ASSUME NEW k \in Nat, NEW S \in SUBSET Nat,
         NEW s \in [1..k -> S], \A m, n \in 1..k : m < n => s[m] < s[n],
         \A x \in S : \E m \in 1..k : s[m] = x,
         NEW t \in [1..k -> S], \A m, n \in 1..k : m < n => t[m] < t[n],
         \A x \in S : \E m \in 1..k : t[m] = x
  PROVE  s = t
<1> SUFFICES ASSUME {n \in 1..k : s[n] # t[n]} # {} PROVE FALSE
  OBVIOUS
<1>1. {n \in 1..k : s[n] # t[n]} \in SUBSET Nat
  OBVIOUS
<1>2. PICK n \in {m \in 1..k : s[m] # t[m]} : \A m \in {j \in 1..k : s[j] # t[j]} : n <= m
  BY <1>1, Least
<1>3. n \in 1..k /\ s[n] # t[n] /\ s[n] \in Nat /\ t[n] \in Nat
  BY <1>2
<1>4. \A m \in 1..k : m < n => s[m] = t[m]
  BY <1>2, <1>3
<1>5. ~ (s[n] < t[n])
  BY <1>3, <1>4, NoneLess
<1>6. ~ (t[n] < s[n])
  BY <1>3, <1>4, NoneLess
<1> QED
  BY <1>3, <1>5, <1>6

LEMMA Enumerated ==
  ASSUME NEW k \in Nat, NEW S \in SUBSET Nat,
         NEW s \in [1..k -> S], \A m, n \in 1..k : m < n => s[m] < s[n],
         \A x \in S : \E m \in 1..k : s[m] = x
  PROVE  /\ Cardinality(S) = k
         /\ s = CHOOSE t \in [1..Cardinality(S) -> S] :
                  \A m, n \in 1..Cardinality(S) : m < n => t[m] < t[n]
<1>1. \A m, n \in 1..k : s[m] = s[n] => m = n
  BY Increasing
<1>2. IsFiniteSet(S) /\ Cardinality(S) = k
  <2>1. s \in Bijection(1..k, S)
    BY <1>1 DEF Bijection, Injection, Surjection, IsInjective
  <2>2. IsFiniteSet(1..k) /\ Cardinality(1..k) = k
    BY FS_Interval
  <2> QED
    BY <2>1, <2>2, FS_Bijection DEF ExistsBijection
<1>3. PICK t : t = CHOOSE u \in [1..k -> S] : \A m, n \in 1..k : m < n => u[m] < u[n]
  OBVIOUS
<1>4. t \in [1..k -> S] /\ \A m, n \in 1..k : m < n => t[m] < t[n]
  BY <1>3
<1>5. \A m, n \in 1..k : t[m] = t[n] => m = n
  BY <1>4, Increasing
<1>6. t \in Injection(1..k, S)
  BY <1>4, <1>5 DEF Injection, IsInjective
<1>7. IsFiniteSet(1..k) /\ Cardinality(1..k) = k
  BY FS_Interval
<1>8. t \in Surjection(1..k, S)
  BY <1>2, <1>6, <1>7, FS_Injection
<1>9. \A x \in S : \E m \in 1..k : t[m] = x
  BY <1>8 DEF Surjection
<1>10. s = t
  BY <1>4, <1>9, OneOrder
<1> QED
  BY <1>2, <1>3, <1>10

=============================================================================
