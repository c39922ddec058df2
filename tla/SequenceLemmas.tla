--------------------------- MODULE SequenceLemmas ---------------------------
(***************************************************************************)
(* Induction over the elements of a set of numbers or of sequences, and    *)
(* what Filter, Omit, InsertAt, RemoveAt, FlattenSeq and the application of *)
(* a function to the elements of a sequence return.                        *)
(***************************************************************************)
EXTENDS Sublists, SequenceTheorems, WellFoundedInduction, TLAPS

(* Induction over the natural numbers, for a set instead of a predicate.   *)
LEMMA NatSetInduction ==
  ASSUME NEW T, 0 \in T, \A n \in Nat : n \in T => n + 1 \in T
  PROVE  Nat \subseteq T
<1> SUFFICES ASSUME Nat \ T # {} PROVE FALSE
  OBVIOUS
<1>1. PICK x \in Nat \ T : \A y \in Nat \ T : ~(<<y, x>> \in OpToRel(<, Nat))
  BY NatLessThanWellFounded, WFMin
<1>2. x # 0
  OBVIOUS
<1>3. x - 1 \in Nat /\ x - 1 < x /\ (x - 1) + 1 = x
  BY <1>2
<1>4. <<x - 1, x>> \in OpToRel(<, Nat)
  BY <1>3 DEF OpToRel
<1>5. x - 1 \in T
  BY <1>1, <1>3, <1>4
<1>6. x \in T
  BY <1>3, <1>5
<1>7. QED
  BY <1>6

(* Induction over the numbers up to n.                                     *)
LEMMA UpTo ==
  ASSUME NEW n \in Nat, NEW T, 0 \in T,
         \A i \in 1..n : i - 1 \in T => i \in T
  PROVE  0..n \subseteq T
<1> DEFINE U == T \cup {i \in Nat : i > n}
<1>1. \A i \in Nat : i \in U => i + 1 \in U
  <2> TAKE i \in Nat
  <2>1. CASE i + 1 \in 1..n
    BY <2>1
  <2>2. CASE i + 1 \notin 1..n
    BY <2>2
  <2>3. QED
    BY <2>1, <2>2
<1>2. Nat \subseteq U
  <2> HIDE DEF U
  <2>1. 0 \in U
    BY DEF U
  <2>2. QED
    BY <1>1, <2>1, NatSetInduction
<1>3. QED
  BY <1>2

(* Induction over the sequences of elements of S, element by element.      *)
LEMMA SeqSetInduction ==
  ASSUME NEW S, NEW P, <<>> \in P,
         \A s \in Seq(S) : \A e \in S : s \in P => Append(s, e) \in P
  PROVE  Seq(S) \subseteq P
<1> SUFFICES ASSUME NEW s \in Seq(S) PROVE s \in P
  OBVIOUS
<1> DEFINE T == {i \in 0..Len(s) : SubSeq(s, 1, i) \in P}
<1>0. Len(s) \in Nat
  OBVIOUS
<1>1. 0 \in T
  <2>1. SubSeq(s, 1, 0) = <<>>
    BY SubSeqEmpty
  <2>2. SubSeq(s, 1, 0) \in P
    BY <2>1, Zenon
  <2>3. 0 \in 0..Len(s)
    BY <1>0
  <2>4. QED
    BY <2>2, <2>3, Zenon
<1>2. ASSUME NEW i \in 1..Len(s), i - 1 \in T
      PROVE  i \in T
  <2>1. SubSeq(s, 1, i) = Append(SubSeq(s, 1, i - 1), s[i])
    OBVIOUS
  <2>2. s[i] \in S /\ SubSeq(s, 1, i - 1) \in Seq(S)
    OBVIOUS
  <2>3. SubSeq(s, 1, i) \in P
    BY <1>2, <2>1, <2>2
  <2>4. QED
    BY <2>3
<1>3. 0..Len(s) \subseteq T
  <2> HIDE DEF T
  <2>1. \A i \in 1..Len(s) : i - 1 \in T => i \in T
    BY <1>2
  <2>2. QED
    BY <1>0, <1>1, <2>1, UpTo
<1>4. SubSeq(s, 1, Len(s)) = s
  OBVIOUS
<1>5. Len(s) \in T
  BY <1>0, <1>3
<1>6. QED
  BY <1>4, <1>5

-----------------------------------------------------------------------------
(* The function with the value v0 at zero, and the step G, up to n. *)
Unfolds(f, n, V, v0, G) ==
  /\ f \in [0..n -> V] /\ f[0] = v0
  /\ \A i \in 1..n : f[i] = G[i][f[i - 1]]

(* A function defined by its value at zero and a step exists.              *)
LEMMA Recursion ==
  ASSUME NEW n \in Nat, NEW V, NEW v0 \in V, NEW G \in [1..n -> [V -> V]]
  PROVE  \E f : Unfolds(f, n, V, v0, G)
<1> DEFINE Upto(m, f) == Unfolds(f, m, V, v0, G)
           T == {m \in Nat : m <= n => \E f : Upto(m, f)}
<1>1. 0 \in T
  <2>1. Upto(0, [i \in 0..0 |-> v0])
    BY DEF Unfolds
  <2>2. QED
    BY <2>1
<1>2. ASSUME NEW m \in Nat, m \in T
      PROVE  m + 1 \in T
  <2> SUFFICES ASSUME m + 1 <= n PROVE \E f : Upto(m + 1, f)
    OBVIOUS
  <2>1. PICK f : Upto(m, f)
    BY <1>2
  <2> DEFINE g == [i \in 0..m + 1 |-> IF i <= m THEN f[i] ELSE G[m + 1][f[m]]]
  <2>2. f[m] \in V /\ m + 1 \in 1..n
    BY <2>1 DEF Unfolds
  <2>3. g \in [0..m + 1 -> V] /\ g[0] = v0
    BY <2>1, <2>2 DEF Unfolds
  <2>4. ASSUME NEW i \in 1..m + 1
        PROVE  g[i] = G[i][g[i - 1]]
    <3>1. i - 1 \in 0..m /\ g[i - 1] = f[i - 1]
      OBVIOUS
    <3>2. CASE i <= m
      BY <2>1, <3>1, <3>2 DEF Unfolds
    <3>3. CASE i > m
      <4>1. i = m + 1 /\ i - 1 = m
        BY <3>3
      <4>2. g[m + 1] = G[m + 1][f[m]] /\ g[m] = f[m]
        OBVIOUS
      <4>3. QED
        <5> HIDE DEF g
        <5>1. QED
          BY <4>1, <4>2
    <3>4. QED
      BY <3>2, <3>3
  <2>5. QED
    BY <2>3, <2>4 DEF Unfolds
<1>3. n \in T
  <2> HIDE DEF T
  <2>1. QED
    BY <1>1, <1>2, NatSetInduction
<1>4. QED
  BY <1>3

-----------------------------------------------------------------------------
(* The definition of Filter is a recursion that has a solution. *)
LEMMA FilterSteps ==
  ASSUME NEW S, NEW s \in Seq(S), NEW T
  PROVE  \E f :
           /\ Filter(s, T) = f[Len(s)]
           /\ f[0] = <<>>
           /\ \A i \in 0..Len(s) : f[i] \in Seq(S)
           /\ \A i \in 1..Len(s) :
                f[i] = IF s[i] \in T THEN Append(f[i - 1], s[i]) ELSE f[i - 1]
<1> DEFINE n == Len(s)
           G == [i \in 1..n |-> [q \in Seq(S) |->
                  IF s[i] \in T THEN Append(q, s[i]) ELSE q]]
           Kept(f) == f = [i \in 0..n |->
                        IF i = 0 THEN <<>>
                        ELSE IF s[i] \in T THEN Append(f[i - 1], s[i])
                        ELSE f[i - 1]]
           k == CHOOSE f : Kept(f)
<1>1. n \in Nat
  OBVIOUS
<1>2. G \in [1..n -> [Seq(S) -> Seq(S)]]
  <2>1. ASSUME NEW i \in 1..n, NEW q \in Seq(S)
        PROVE  (IF s[i] \in T THEN Append(q, s[i]) ELSE q) \in Seq(S)
    OBVIOUS
  <2>2. QED
    BY <2>1
<1>3. PICK f \in [0..n -> Seq(S)] :
        f[0] = <<>> /\ \A i \in 1..n : f[i] = G[i][f[i - 1]]
  <2>1. <<>> \in Seq(S)
    OBVIOUS
  <2>2. QED
    <3> DEFINE V == Seq(S)
               v0 == <<>>
    <3>1. v0 \in V /\ G \in [1..n -> [V -> V]]
      BY <1>2, <2>1
    <3> HIDE DEF G, n, V, v0, k
    <3>2. \E f : Unfolds(f, n, V, v0, G)
      BY <1>1, <3>1, Recursion
    <3>3. QED
      BY <3>2 DEF Unfolds, V, v0
<1>4. Kept(f)
  <2>1. ASSUME NEW i \in 0..n
        PROVE  f[i] = IF i = 0 THEN <<>>
                      ELSE IF s[i] \in T THEN Append(f[i - 1], s[i])
                      ELSE f[i - 1]
    <3>1. CASE i = 0
      BY <1>3, <3>1
    <3>2. CASE i # 0
      <4>1. i \in 1..n /\ i - 1 \in 0..n
        BY <3>2
      <4>2. f[i] = G[i][f[i - 1]] /\ f[i - 1] \in Seq(S)
        <5> HIDE DEF G, n
        <5>1. QED
          BY <1>3, <3>2, <4>1
      <4>3. QED
        BY <3>2, <4>1, <4>2
    <3>3. QED
      BY <3>1, <3>2
  <2>2. QED
    BY <2>1, <1>3
<1>5. Kept(k)
  BY <1>4
<1>6. Filter(s, T) = k[n]
  BY DEF Filter
<1> HIDE DEF k
<1>7. /\ k[0] = <<>>
      /\ \A i \in 1..n :
           k[i] = IF s[i] \in T THEN Append(k[i - 1], s[i]) ELSE k[i - 1]
  <2> HIDE DEF n
  <2>1. 0 \in 0..n /\ \A i \in 1..n : i \in 0..n /\ i # 0
    BY <1>1
  <2>2. \A i \in 0..n :
          k[i] = IF i = 0 THEN <<>>
                 ELSE IF s[i] \in T THEN Append(k[i - 1], s[i])
                 ELSE k[i - 1]
    BY <1>5, Zenon
  <2>3. QED
    BY <2>1, <2>2, Zenon
<1>8. 0..n \subseteq {i \in 0..n : k[i] \in Seq(S)}
  <2> DEFINE U == {i \in 0..n : k[i] \in Seq(S)}
  <2>1. 0 \in U
    <3>1. k[0] \in Seq(S)
      BY <1>7
    <3>2. QED
      BY <1>1, <3>1
  <2>2. ASSUME NEW i \in 1..n, i - 1 \in U
        PROVE  i \in U
    <3>1. s[i] \in S
      OBVIOUS
    <3>2. k[i] \in Seq(S)
      <4>1. k[i - 1] \in Seq(S)
        BY <2>2
      <4>2. Append(k[i - 1], s[i]) \in Seq(S)
        BY <3>1, <4>1
      <4>3. QED
        BY <1>7, <4>1, <4>2
    <3>3. QED
      BY <3>2
  <2>3. \A i \in 1..n : i - 1 \in U => i \in U
    BY <2>2
  <2>4. QED
    <3> HIDE DEF U, n
    <3>1. 0..n \subseteq U
      BY <1>1, <2>1, <2>3, UpTo
    <3>2. QED
      BY <3>1 DEF U
<1>9. QED
  BY <1>6, <1>7, <1>8

LEMMA FilterType ==
  ASSUME NEW S, NEW s \in Seq(S), NEW T
  PROVE  Filter(s, T) \in Seq(S)
<1>1. Len(s) \in 0..Len(s)
  OBVIOUS
<1>2. QED
  BY <1>1, FilterSteps

LEMMA FilterEmpty ==
  ASSUME NEW T
  PROVE  Filter(<<>>, T) = <<>>
<1>1. ASSUME NEW S, NEW s \in Seq(S), s = <<>>
      PROVE  Filter(s, T) = <<>>
  <2>1. Len(s) = 0
    BY <1>1
  <2>2. \E f : Filter(s, T) = f[Len(s)] /\ f[0] = <<>>
    BY FilterSteps
  <2>3. QED
    BY <1>1, <2>1, <2>2
<1>2. <<>> \in Seq({})
  OBVIOUS
<1>3. QED
  BY <1>1, <1>2

(* Filter follows a sequence to which an element is appended. *)
LEMMA FilterAppend ==
  ASSUME NEW S, NEW s \in Seq(S), NEW e \in S, NEW T
  PROVE  Filter(Append(s, e), T) =
           IF e \in T THEN Append(Filter(s, T), e) ELSE Filter(s, T)
<1> DEFINE n == Len(s)
           r == Append(s, e)
<1>0. r \in Seq(S)
  OBVIOUS
<1>1. /\ n \in Nat /\ Len(r) = n + 1
      /\ r[n + 1] = e /\ \A i \in 1..n : r[i] = s[i]
  OBVIOUS
<1>2. PICK f :
        /\ Filter(s, T) = f[n]
        /\ f[0] = <<>>
        /\ \A i \in 1..n :
             f[i] = IF s[i] \in T THEN Append(f[i - 1], s[i]) ELSE f[i - 1]
  BY FilterSteps
<1>3. PICK g :
        /\ Filter(r, T) = g[n + 1]
        /\ g[0] = <<>>
        /\ \A i \in 1..n + 1 :
             g[i] = IF r[i] \in T THEN Append(g[i - 1], r[i]) ELSE g[i - 1]
  <2>1. ASSUME NEW x \in Seq(S)
        PROVE  \E g :
                 /\ Filter(x, T) = g[Len(x)]
                 /\ g[0] = <<>>
                 /\ \A i \in 1..Len(x) :
                      g[i] = IF x[i] \in T THEN Append(g[i - 1], x[i]) ELSE g[i - 1]
    BY FilterSteps
  <2> HIDE DEF n, r
  <2>2. QED
    BY <1>0, <1>1, <2>1
<1> HIDE DEF n, r
<1>4. f[n] = g[n]
  <2> DEFINE U == {i \in 0..n : f[i] = g[i]}
  <2>1. 0 \in U
    BY <1>1, <1>2, <1>3
  <2>2. ASSUME NEW i \in 1..n, i - 1 \in U
        PROVE  i \in U
    <3>1. f[i - 1] = g[i - 1] /\ r[i] = s[i] /\ i \in 1..n + 1
      BY <1>1, <2>2
    <3>2. f[i] = IF s[i] \in T THEN Append(f[i - 1], s[i]) ELSE f[i - 1]
      BY <1>2
    <3>3. g[i] = IF r[i] \in T THEN Append(g[i - 1], r[i]) ELSE g[i - 1]
      BY <1>3, <3>1
    <3>4. QED
      BY <1>1, <3>1, <3>2, <3>3
  <2>3. \A i \in 1..n : i - 1 \in U => i \in U
    BY <2>2
  <2>4. 0..n \subseteq U
    <3> HIDE DEF U
    <3>1. QED
      BY <1>1, <2>1, <2>3, UpTo
  <2>5. QED
    BY <1>1, <2>4
<1>5. g[n + 1] = IF e \in T THEN Append(g[n], e) ELSE g[n]
  <2>1. n + 1 \in 1..n + 1 /\ (n + 1) - 1 = n
    BY <1>1
  <2>2. QED
    BY <1>1, <1>3, <2>1
<1>6. QED
  BY <1>2, <1>3, <1>4, <1>5 DEF r

-----------------------------------------------------------------------------
(* The elements of a sequence. *)

LEMMA ToSetEmpty == ToSet(<<>>) = {}
BY DEF ToSet

LEMMA ToSetAppend ==
  ASSUME NEW S, NEW s \in Seq(S), NEW e \in S
  PROVE  ToSet(Append(s, e)) = ToSet(s) \cup {e}
<1> DEFINE r == Append(s, e)
           n == Len(s)
<1>1. /\ n \in Nat /\ DOMAIN s = 1..n /\ DOMAIN r = 1..n + 1
      /\ r[n + 1] = e /\ \A i \in 1..n : r[i] = s[i]
  OBVIOUS
<1> HIDE DEF r, n
<1>2. ToSet(r) = ToSet(s) \cup {e}
  BY <1>1 DEF ToSet
<1>3. QED
  BY <1>2 DEF r

LEMMA ToSetConcat ==
  ASSUME NEW S, NEW s \in Seq(S), NEW t \in Seq(S)
  PROVE  ToSet(s \o t) = ToSet(s) \cup ToSet(t)
<1> DEFINE r == s \o t
           m == Len(s)
           n == Len(t)
<1>1. /\ m \in Nat /\ n \in Nat
      /\ DOMAIN s = 1..m /\ DOMAIN t = 1..n /\ DOMAIN r = 1..m + n
      /\ \A i \in 1..m : r[i] = s[i]
      /\ \A i \in 1..n : r[m + i] = t[i]
  OBVIOUS
<1> HIDE DEF r, m, n
<1>2. \A i \in 1..m + n : i \in 1..m \/ (i - m \in 1..n /\ i = m + (i - m))
  BY <1>1
<1>3. \A i \in 1..m : i \in 1..m + n
  BY <1>1
<1>4. \A i \in 1..n : m + i \in 1..m + n
  BY <1>1
<1>5. ToSet(r) \subseteq ToSet(s) \cup ToSet(t)
  <2> SUFFICES ASSUME NEW i \in 1..m + n PROVE r[i] \in ToSet(s) \cup ToSet(t)
    BY <1>1 DEF ToSet
  <2>1. CASE i \in 1..m
    BY <1>1, <2>1 DEF ToSet
  <2>2. CASE i - m \in 1..n /\ i = m + (i - m)
    <3>1. r[i] = t[i - m]
      BY <1>1, <2>2
    <3>2. QED
      BY <1>1, <2>2, <3>1 DEF ToSet
  <2>3. QED
    BY <1>2, <2>1, <2>2
<1>6. ToSet(s) \cup ToSet(t) \subseteq ToSet(r)
  <2>1. \A i \in 1..m : s[i] \in ToSet(r)
    BY <1>1, <1>3 DEF ToSet
  <2>2. \A i \in 1..n : t[i] \in ToSet(r)
    BY <1>1, <1>4 DEF ToSet
  <2>3. QED
    BY <1>1, <2>1, <2>2 DEF ToSet
<1>7. QED
  BY <1>5, <1>6 DEF r

LEMMA ToSetType ==
  ASSUME NEW S, NEW s \in Seq(S)
  PROVE  ToSet(s) \subseteq S
BY DEF ToSet

(* A sequence has elements if and only if it is not empty.                 *)
LEMMA EmptyToSet ==
  ASSUME NEW S, NEW s \in Seq(S), ToSet(s) = {}
  PROVE  s = <<>>
<1>1. DOMAIN s = {}
  BY DEF ToSet
<1>2. QED
  BY <1>1

(* An element that is appended is new in a sequence without repetition.    *)
LEMMA InjectiveAppend ==
  ASSUME NEW S, NEW s \in Seq(S), NEW e \in S
  PROVE  IsInjective(Append(s, e)) <=> IsInjective(s) /\ e \notin ToSet(s)
<1> DEFINE r == Append(s, e)
           n == Len(s)
<1>1. /\ n \in Nat /\ DOMAIN s = 1..n /\ DOMAIN r = 1..n + 1
      /\ r[n + 1] = e /\ \A i \in 1..n : r[i] = s[i]
  OBVIOUS
<1> HIDE DEF r, n
<1>2. ASSUME IsInjective(r) PROVE IsInjective(s) /\ e \notin ToSet(s)
  <2>1. \A i \in 1..n : i \in 1..n + 1 /\ i # n + 1
    BY <1>1
  <2>2. n + 1 \in 1..n + 1
    BY <1>1
  <2>3. QED
    BY <1>1, <1>2, <2>1, <2>2 DEF IsInjective, ToSet
<1>3. ASSUME IsInjective(s), e \notin ToSet(s) PROVE IsInjective(r)
  <2>1. \A i \in 1..n + 1 : i \in 1..n \/ i = n + 1
    BY <1>1
  <2>2. \A i \in 1..n : s[i] # e
    BY <1>1, <1>3 DEF ToSet
  <2>3. QED
    BY <1>1, <1>3, <2>1, <2>2 DEF IsInjective
<1>4. QED
  BY <1>2, <1>3 DEF r

-----------------------------------------------------------------------------
(* What Filter and Omit return. *)

(* The elements that are in the set.                                       *)
LEMMA FilterRange ==
  ASSUME NEW S, NEW s \in Seq(S), NEW T
  PROVE  ToSet(Filter(s, T)) = ToSet(s) \cap T
<1> DEFINE P == {r \in Seq(S) : ToSet(Filter(r, T)) = ToSet(r) \cap T}
<1>1. <<>> \in P
  <2>1. <<>> \in Seq(S)
    OBVIOUS
  <2>2. QED
    BY <2>1, FilterEmpty, ToSetEmpty
<1>2. ASSUME NEW r \in Seq(S), NEW e \in S, r \in P
      PROVE  Append(r, e) \in P
  <2>1. Filter(r, T) \in Seq(S) /\ Append(r, e) \in Seq(S)
    BY FilterType
  <2>2. ToSet(Append(r, e)) = ToSet(r) \cup {e}
    BY ToSetAppend
  <2>3. ToSet(Filter(Append(r, e), T)) = ToSet(Append(r, e)) \cap T
    <3>1. CASE e \in T
      <4>1. Filter(Append(r, e), T) = Append(Filter(r, T), e)
        BY <3>1, FilterAppend
      <4>2. ToSet(Append(Filter(r, T), e)) = ToSet(Filter(r, T)) \cup {e}
        BY <2>1, ToSetAppend
      <4>3. QED
        BY <1>2, <2>2, <3>1, <4>1, <4>2
    <3>2. CASE e \notin T
      BY <1>2, <2>2, <3>2, FilterAppend
    <3>3. QED
      BY <3>1, <3>2
  <2>4. QED
    BY <2>1, <2>3
<1>3. \A r \in Seq(S) : \A e \in S : r \in P => Append(r, e) \in P
  BY <1>2
<1>4. Seq(S) \subseteq P
  <2> HIDE DEF P
  <2>1. QED
    BY <1>1, <1>3, SeqSetInduction
<1>5. QED
  BY <1>4

(* No element more than once, if the sequence has none more than once.     *)
LEMMA FilterInjective ==
  ASSUME NEW S, NEW s \in Seq(S), NEW T, IsInjective(s)
  PROVE  IsInjective(Filter(s, T))
<1> DEFINE P == {r \in Seq(S) : IsInjective(r) => IsInjective(Filter(r, T))}
<1>1. <<>> \in P
  <2>1. <<>> \in Seq(S)
    OBVIOUS
  <2>2. QED
    BY <2>1, FilterEmpty
<1>2. ASSUME NEW r \in Seq(S), NEW e \in S, r \in P
      PROVE  Append(r, e) \in P
  <2>1. Filter(r, T) \in Seq(S) /\ Append(r, e) \in Seq(S)
    BY FilterType
  <2>2. ASSUME IsInjective(Append(r, e))
        PROVE  IsInjective(Filter(Append(r, e), T))
    <3>1. IsInjective(Filter(r, T)) /\ e \notin ToSet(Filter(r, T))
      BY <1>2, <2>2, InjectiveAppend, FilterRange
    <3>2. IsInjective(Append(Filter(r, T), e))
      BY <2>1, <3>1, InjectiveAppend
    <3>3. QED
      BY <3>1, <3>2, FilterAppend
  <2>3. QED
    BY <2>1, <2>2
<1>3. \A r \in Seq(S) : \A e \in S : r \in P => Append(r, e) \in P
  BY <1>2
<1>4. Seq(S) \subseteq P
  <2> HIDE DEF P
  <2>1. QED
    BY <1>1, <1>3, SeqSetInduction
<1>5. QED
  BY <1>4

(* Nothing, if no element is in the set, and all of it, if every one is.   *)
LEMMA FilterNone ==
  ASSUME NEW S, NEW s \in Seq(S), NEW T, ToSet(s) \cap T = {}
  PROVE  Filter(s, T) = <<>>
BY FilterType, FilterRange, EmptyToSet

LEMMA FilterAll ==
  ASSUME NEW S, NEW s \in Seq(S), NEW T, ToSet(s) \subseteq T
  PROVE  Filter(s, T) = s
<1> DEFINE P == {r \in Seq(S) : ToSet(r) \subseteq T => Filter(r, T) = r}
<1>1. <<>> \in P
  <2>1. <<>> \in Seq(S)
    OBVIOUS
  <2>2. QED
    BY <2>1, FilterEmpty
<1>2. ASSUME NEW r \in Seq(S), NEW e \in S, r \in P
      PROVE  Append(r, e) \in P
  <2>1. Append(r, e) \in Seq(S) /\ ToSet(Append(r, e)) = ToSet(r) \cup {e}
    BY ToSetAppend
  <2>2. QED
    BY <1>2, <2>1, FilterAppend
<1>3. \A r \in Seq(S) : \A e \in S : r \in P => Append(r, e) \in P
  BY <1>2
<1>4. Seq(S) \subseteq P
  <2> HIDE DEF P
  <2>1. QED
    BY <1>1, <1>3, SeqSetInduction
<1>5. QED
  BY <1>4

(* Two sequences one after the other are filtered apart.                   *)
LEMMA FilterConcat ==
  ASSUME NEW S, NEW s \in Seq(S), NEW t \in Seq(S), NEW T
  PROVE  Filter(s \o t, T) = Filter(s, T) \o Filter(t, T)
<1> DEFINE P == {r \in Seq(S) : Filter(s \o r, T) = Filter(s, T) \o Filter(r, T)}
<1>0. Filter(s, T) \in Seq(S)
  BY FilterType
<1>1. <<>> \in P
  <2>1. <<>> \in Seq(S) /\ s \o <<>> = s /\ Filter(s, T) \o <<>> = Filter(s, T)
    BY <1>0
  <2>2. QED
    BY <2>1, FilterEmpty
<1>2. ASSUME NEW r \in Seq(S), NEW e \in S, r \in P
      PROVE  Append(r, e) \in P
  <2>1. Filter(r, T) \in Seq(S) /\ Append(r, e) \in Seq(S) /\ s \o r \in Seq(S)
    BY FilterType
  <2>2. s \o Append(r, e) = Append(s \o r, e)
    OBVIOUS
  <2>3. Filter(s, T) \o Append(Filter(r, T), e) = Append(Filter(s, T) \o Filter(r, T), e)
    BY <1>0, <2>1
  <2>4. Filter(s \o Append(r, e), T) = Filter(s, T) \o Filter(Append(r, e), T)
    <3>1. Filter(Append(s \o r, e), T) =
            IF e \in T THEN Append(Filter(s \o r, T), e) ELSE Filter(s \o r, T)
      BY <2>1, FilterAppend
    <3>2. Filter(Append(r, e), T) =
            IF e \in T THEN Append(Filter(r, T), e) ELSE Filter(r, T)
      BY FilterAppend
    <3>3. Filter(s \o r, T) = Filter(s, T) \o Filter(r, T)
      BY <1>2
    <3>4. QED
      BY <2>2, <2>3, <3>1, <3>2, <3>3
  <2>5. QED
    BY <2>1, <2>4
<1>3. \A r \in Seq(S) : \A e \in S : r \in P => Append(r, e) \in P
  BY <1>2
<1>4. Seq(S) \subseteq P
  <2> HIDE DEF P
  <2>1. QED
    BY <1>1, <1>3, SeqSetInduction
<1>5. QED
  BY <1>4

LEMMA OmitProperties ==
  ASSUME NEW S, NEW s \in Seq(S), NEW T
  PROVE  /\ Omit(s, T) \in Seq(S)
         /\ ToSet(Omit(s, T)) = ToSet(s) \ T
         /\ IsInjective(s) => IsInjective(Omit(s, T))
BY FilterType, FilterRange, FilterInjective DEF Omit

(* What follows a part of which every element is left out.                 *)
LEMMA OmitPrefix ==
  ASSUME NEW S, NEW s \in Seq(S), NEW t \in Seq(S), NEW T,
         ToSet(s) \subseteq T, ToSet(t) \cap T = {}
  PROVE  Omit(s \o t, T) = t
<1> DEFINE K == ToSet(s \o t) \ T
<1>1. ToSet(s) \cap K = {} /\ ToSet(t) \subseteq K
  BY ToSetConcat
<1>2. Filter(s, K) = <<>> /\ Filter(t, K) = t
  <2> HIDE DEF K
  <2>1. QED
    BY <1>1, FilterNone, FilterAll
<1>3. Filter(s \o t, K) = Filter(s, K) \o Filter(t, K)
  BY FilterConcat
<1>4. <<>> \o t = t
  OBVIOUS
<1>5. QED
  BY <1>2, <1>3, <1>4 DEF Omit

(* h says where in s the elements of r are, in their order.                *)
Embeds(h, r, s) ==
  /\ h \in [DOMAIN r -> DOMAIN s]
  /\ \A i \in DOMAIN r : r[i] = s[h[i]]
  /\ \A i, j \in DOMAIN r : i < j => h[i] < h[j]

(* The elements that Filter returns keep their order.                      *)
LEMMA FilterEmbeds ==
  ASSUME NEW S, NEW s \in Seq(S), NEW T
  PROVE  \E h : Embeds(h, Filter(s, T), s)
<1> DEFINE P == {r \in Seq(S) : \E h : Embeds(h, Filter(r, T), r)}
<1>1. <<>> \in P
  <2>1. <<>> \in Seq(S) /\ Filter(<<>>, T) = <<>>
    BY FilterEmpty
  <2>2. Embeds(<<>>, <<>>, <<>>)
    BY DEF Embeds
  <2>3. QED
    BY <2>1, <2>2
<1>2. ASSUME NEW r \in Seq(S), NEW e \in S, r \in P
      PROVE  Append(r, e) \in P
  <2>1. PICK h : Embeds(h, Filter(r, T), r)
    BY <1>2
  <2> DEFINE q == Filter(r, T)
             m == Len(q)
             n == Len(r)
             g == [i \in 1..m + 1 |-> IF i = m + 1 THEN n + 1 ELSE h[i]]
             r1 == Append(r, e)
             q1 == Append(q, e)
  <2>2. q \in Seq(S) /\ r1 \in Seq(S)
    BY FilterType
  <2>3. /\ n \in Nat /\ DOMAIN r = 1..n /\ DOMAIN r1 = 1..n + 1
        /\ r1[n + 1] = e /\ \A i \in 1..n : r1[i] = r[i]
    OBVIOUS
  <2>4. /\ m \in Nat /\ DOMAIN q = 1..m /\ DOMAIN q1 = 1..m + 1
        /\ q1[m + 1] = e /\ \A i \in 1..m : q1[i] = q[i]
    BY <2>2
  <2>5. Embeds(h, q, r)
    BY <2>1
  <2>6. Embeds(h, q, r1)
    <3> HIDE DEF q, n, m, r1
    <3>1. \A i \in 1..n : i \in 1..n + 1
      BY <2>3
    <3>2. \A i \in 1..m : h[i] \in 1..n
      BY <2>3, <2>4, <2>5 DEF Embeds
    <3>3. QED
      BY <2>3, <2>4, <2>5, <3>1, <3>2 DEF Embeds
  <2>7. Embeds(g, q1, r1)
    <3> HIDE DEF q, n, m, r1, q1
    <3>1. \A i \in 1..m : i \in 1..m + 1 /\ i # m + 1 /\ h[i] \in 1..n
      BY <2>3, <2>4, <2>5 DEF Embeds
    <3>2. \A i \in 1..m + 1 : i \in 1..m \/ i = m + 1
      BY <2>4
    <3>3. g[m + 1] = n + 1 /\ \A i \in 1..m : g[i] = h[i]
      BY <2>4, <3>1
    <3>4. g \in [DOMAIN q1 -> DOMAIN r1]
      BY <2>3, <2>4, <3>1, <3>2
    <3> HIDE DEF g
    <3>5. \A i \in DOMAIN q1 : q1[i] = r1[g[i]]
      BY <2>3, <2>4, <2>5, <3>1, <3>2, <3>3 DEF Embeds
    <3>6. ASSUME NEW i \in 1..m + 1, NEW j \in 1..m + 1, i < j
          PROVE  g[i] < g[j]
      <4>1. i \in 1..m
        BY <2>4, <3>2, <3>6
      <4>2. CASE j \in 1..m
        BY <2>4, <2>5, <3>3, <3>6, <4>1, <4>2 DEF Embeds
      <4>3. CASE j = m + 1
        BY <2>3, <3>1, <3>3, <4>1, <4>3
      <4>4. QED
        BY <3>2, <4>2, <4>3
    <3>7. QED
      BY <2>4, <3>4, <3>5, <3>6 DEF Embeds
  <2>8. Filter(r1, T) = IF e \in T THEN q1 ELSE q
    BY FilterAppend
  <2>9. \E x : Embeds(x, Filter(r1, T), r1)
    <3> HIDE DEF q, n, m, r1, q1, g
    <3>1. QED
      BY <2>6, <2>7, <2>8
  <2>10. QED
    BY <2>2, <2>9
<1>3. \A r \in Seq(S) : \A e \in S : r \in P => Append(r, e) \in P
  BY <1>2
<1>4. Seq(S) \subseteq P
  <2> HIDE DEF P
  <2>1. QED
    BY <1>1, <1>3, SeqSetInduction
<1>5. QED
  BY <1>4

(* Filtering looks at nothing but the elements.                            *)
LEMMA FilterSame ==
  ASSUME NEW S, NEW s \in Seq(S), NEW A, NEW B, ToSet(s) \cap A = ToSet(s) \cap B
  PROVE  Filter(s, A) = Filter(s, B)
<1> DEFINE P == {r \in Seq(S) : ToSet(r) \cap A = ToSet(r) \cap B => Filter(r, A) = Filter(r, B)}
<1>1. <<>> \in P
  <2>1. <<>> \in Seq(S)
    OBVIOUS
  <2>2. QED
    BY <2>1, FilterEmpty
<1>2. ASSUME NEW r \in Seq(S), NEW e \in S, r \in P
      PROVE  Append(r, e) \in P
  <2>1. Append(r, e) \in Seq(S) /\ ToSet(Append(r, e)) = ToSet(r) \cup {e}
    BY ToSetAppend
  <2>2. ASSUME ToSet(Append(r, e)) \cap A = ToSet(Append(r, e)) \cap B
        PROVE  Filter(Append(r, e), A) = Filter(Append(r, e), B)
    <3>1. \A x \in ToSet(r) \cup {e} : x \in A <=> x \in B
      BY <2>1, <2>2
    <3>2. ToSet(r) \cap A = ToSet(r) \cap B
      BY <3>1
    <3>3. Filter(r, A) = Filter(r, B) /\ (e \in A <=> e \in B)
      BY <1>2, <3>1, <3>2
    <3>4. Filter(Append(r, e), A) = IF e \in A THEN Append(Filter(r, A), e) ELSE Filter(r, A)
      BY FilterAppend
    <3>5. Filter(Append(r, e), B) = IF e \in B THEN Append(Filter(r, B), e) ELSE Filter(r, B)
      BY FilterAppend
    <3>6. QED
      BY <3>3, <3>4, <3>5
  <2>3. QED
    BY <2>1, <2>2
<1>3. \A r \in Seq(S) : \A e \in S : r \in P => Append(r, e) \in P
  BY <1>2
<1>4. Seq(S) \subseteq P
  <2> HIDE DEF P
  <2>1. QED
    BY <1>1, <1>3, SeqSetInduction
<1>5. QED
  BY <1>4

LEMMA FilterTwice ==
  ASSUME NEW S, NEW s \in Seq(S), NEW A, NEW B
  PROVE  Filter(Filter(s, A), B) = Filter(s, A \cap B)
<1> DEFINE P == {r \in Seq(S) : Filter(Filter(r, A), B) = Filter(r, A \cap B)}
<1>1. <<>> \in P
  <2>1. <<>> \in Seq(S)
    OBVIOUS
  <2>2. QED
    BY <2>1, FilterEmpty
<1>2. ASSUME NEW r \in Seq(S), NEW e \in S, r \in P
      PROVE  Append(r, e) \in P
  <2>1. Append(r, e) \in Seq(S) /\ Filter(r, A) \in Seq(S)
    BY FilterType
  <2>2. Filter(Append(r, e), A) = IF e \in A THEN Append(Filter(r, A), e) ELSE Filter(r, A)
    BY FilterAppend
  <2>3. Filter(Append(r, e), A \cap B) =
          IF e \in A \cap B THEN Append(Filter(r, A \cap B), e) ELSE Filter(r, A \cap B)
    BY FilterAppend
  <2>4. Filter(Append(Filter(r, A), e), B) =
          IF e \in B THEN Append(Filter(Filter(r, A), B), e) ELSE Filter(Filter(r, A), B)
    BY <2>1, FilterAppend
  <2>5. Filter(Filter(r, A), B) = Filter(r, A \cap B)
    BY <1>2
  <2>6. Filter(Filter(Append(r, e), A), B) = Filter(Append(r, e), A \cap B)
    <3>1. CASE e \in A
      <4>1. Filter(Append(r, e), A) = Append(Filter(r, A), e)
        BY <2>2, <3>1
      <4>2. Filter(Filter(Append(r, e), A), B) =
              IF e \in B THEN Append(Filter(r, A \cap B), e) ELSE Filter(r, A \cap B)
        BY <2>4, <2>5, <4>1
      <4>3. e \in A \cap B <=> e \in B
        BY <3>1
      <4>4. CASE e \in B
        BY <2>3, <4>2, <4>3, <4>4, Zenon
      <4>5. CASE e \notin B
        BY <2>3, <4>2, <4>3, <4>5, Zenon
      <4>6. QED
        BY <4>4, <4>5
    <3>2. CASE e \notin A
      BY <2>2, <2>3, <2>5, <3>2
    <3>3. QED
      BY <3>1, <3>2
  <2>7. QED
    BY <2>1, <2>6
<1>3. \A r \in Seq(S) : \A e \in S : r \in P => Append(r, e) \in P
  BY <1>2
<1>4. Seq(S) \subseteq P
  <2> HIDE DEF P
  <2>1. QED
    BY <1>1, <1>3, SeqSetInduction
<1>5. QED
  BY <1>4

-----------------------------------------------------------------------------
(* Sequences put together and taken apart. *)

LEMMA InjectiveConcat ==
  ASSUME NEW S, NEW s \in Seq(S), NEW t \in Seq(S)
  PROVE  IsInjective(s \o t) <=>
           IsInjective(s) /\ IsInjective(t) /\ ToSet(s) \cap ToSet(t) = {}
<1> DEFINE r == s \o t
           m == Len(s)
           n == Len(t)
<1>1. /\ m \in Nat /\ n \in Nat
      /\ DOMAIN s = 1..m /\ DOMAIN t = 1..n /\ DOMAIN r = 1..m + n
      /\ \A i \in 1..m : r[i] = s[i]
      /\ \A i \in 1..n : r[m + i] = t[i]
  OBVIOUS
<1> HIDE DEF r, m, n
<1>2. \A i \in 1..m + n : i \in 1..m \/ (i - m \in 1..n /\ i = m + (i - m))
  BY <1>1
<1>3. \A i \in 1..m : i \in 1..m + n
  BY <1>1
<1>4. \A i \in 1..n : m + i \in 1..m + n
  BY <1>1
<1>5. ASSUME IsInjective(r)
      PROVE  IsInjective(s) /\ IsInjective(t) /\ ToSet(s) \cap ToSet(t) = {}
  <2>1. IsInjective(s)
    BY <1>1, <1>3, <1>5 DEF IsInjective
  <2>2. ASSUME NEW i \in 1..n, NEW j \in 1..n, t[i] = t[j] PROVE i = j
    <3>1. r[m + i] = r[m + j] /\ m + i \in DOMAIN r /\ m + j \in DOMAIN r
      BY <1>1, <1>4, <2>2
    <3>2. m + i = m + j
      BY <1>5, <3>1 DEF IsInjective
    <3>3. QED
      BY <1>1, <3>2
  <2>3. ASSUME NEW i \in 1..m, NEW j \in 1..n, s[i] = t[j] PROVE FALSE
    <3>1. r[i] = r[m + j] /\ i \in DOMAIN r /\ m + j \in DOMAIN r
      BY <1>1, <1>3, <1>4, <2>3
    <3>2. i = m + j
      BY <1>5, <3>1 DEF IsInjective
    <3>3. QED
      BY <1>1, <3>2
  <2>4. QED
    BY <1>1, <2>1, <2>2, <2>3 DEF IsInjective, ToSet
<1>6. ASSUME IsInjective(s), IsInjective(t), ToSet(s) \cap ToSet(t) = {}
      PROVE  IsInjective(r)
  <2>1. \A i \in 1..m, j \in 1..n : s[i] # t[j]
    BY <1>1, <1>6 DEF ToSet
  <2>2. ASSUME NEW i \in 1..m + n, NEW j \in 1..m + n, r[i] = r[j]
        PROVE  i = j
    <3>1. CASE i \in 1..m /\ j \in 1..m
      BY <1>1, <1>6, <2>2, <3>1 DEF IsInjective
    <3>2. CASE i \in 1..m /\ j \notin 1..m
      BY <1>1, <1>2, <2>1, <2>2, <3>2
    <3>3. CASE i \notin 1..m /\ j \in 1..m
      <4>1. i - m \in 1..n /\ i = m + (i - m)
        BY <1>2, <3>3
      <4>2. r[i] = t[i - m] /\ r[j] = s[j]
        BY <1>1, <3>3, <4>1
      <4>3. s[j] # t[i - m]
        BY <2>1, <3>3, <4>1
      <4>4. QED
        BY <2>2, <4>2, <4>3
    <3>4. CASE i \notin 1..m /\ j \notin 1..m
      <4>1. /\ i - m \in 1..n /\ i = m + (i - m) /\ j - m \in 1..n /\ j = m + (j - m)
            /\ t[i - m] = t[j - m]
        BY <1>1, <1>2, <2>2, <3>4
      <4>2. i - m = j - m
        BY <1>1, <1>6, <4>1 DEF IsInjective
      <4>3. QED
        BY <1>1, <4>2
    <3>5. QED
      BY <3>1, <3>2, <3>3, <3>4
  <2>3. QED
    BY <1>1, <2>2 DEF IsInjective
<1>7. QED
  BY <1>5, <1>6 DEF r

(* The sequence s is a, then e, then b; r is a, then b.                    *)
Splits(S, r, s, a, e, b) ==
  a \in Seq(S) /\ b \in Seq(S) /\ s = Append(a, e) \o b /\ r = a \o b

(* Where an element goes in, and where one comes out.                      *)
LEMMA InsertSplits ==
  ASSUME NEW S, NEW s \in Seq(S), NEW i \in 1..Len(s) + 1, NEW e \in S
  PROVE  \E a, b : Splits(S, s, InsertAt(s, i, e), a, e, b)
<1> DEFINE a == SubSeq(s, 1, i - 1)
           b == SubSeq(s, i, Len(s))
           n == Len(s)
<1>1. n \in Nat /\ i - 1 \in 0..n /\ i \in Nat
  OBVIOUS
<1>2. a \in Seq(S) /\ Len(a) = i - 1 /\ b \in Seq(S)
  BY <1>1, SubSeqProperties
<1>3. ASSUME NEW k \in 0..n
      PROVE  SubSeq(s, 1, k) \o SubSeq(s, k + 1, n) = s
  <2>1. 1 \in 1..n + 1 /\ k \in 1 - 1..n /\ n \in k..n
    BY <1>1
  <2>2. SubSeq(s, 1, k) \o SubSeq(s, k + 1, n) = SubSeq(s, 1, n)
    BY <2>1, ConcatAdjacentSubSeq
  <2>3. QED
    BY <2>2, SubSeqFull
<1>4. a \o b = s
  <2>1. (i - 1) + 1 = i
    BY <1>1
  <2>2. SubSeq(s, 1, i - 1) \o SubSeq(s, (i - 1) + 1, n) = s
    BY <1>1, <1>3
  <2>3. QED
    BY <2>1, <2>2
<1>5. InsertAt(s, i, e) = (a \o <<e>>) \o b
  BY DEF InsertAt
<1>6. QED
  <2> HIDE DEF a, b
  <2>1. Append(a, e) = a \o <<e>>
    BY <1>2, AppendIsConcat
  <2>2. QED
    BY <1>2, <1>4, <1>5, <2>1 DEF Splits

LEMMA RemoveSplits ==
  ASSUME NEW S, NEW s \in Seq(S), NEW i \in 1..Len(s)
  PROVE  \E a, b : Splits(S, RemoveAt(s, i), s, a, s[i], b)
<1> DEFINE a == SubSeq(s, 1, i - 1)
           b == SubSeq(s, i + 1, Len(s))
           n == Len(s)
<1>1. n \in Nat /\ i \in 1..n /\ i \in Nat /\ i - 1 \in 0..n
  OBVIOUS
<1>2. a \in Seq(S) /\ Len(a) = i - 1 /\ b \in Seq(S)
  BY <1>1, SubSeqProperties
<1>3. SubSeq(s, 1, i) = Append(a, s[i])
  OBVIOUS
<1>4. SubSeq(s, 1, i) \o b = SubSeq(s, 1, n)
  BY <1>1, ConcatAdjacentSubSeq
<1>5. s = Append(a, s[i]) \o b
  BY <1>3, <1>4, SubSeqFull
<1>6. RemoveAt(s, i) = a \o b
  BY DEF RemoveAt
<1>7. QED
  <2> HIDE DEF a, b
  <2>1. QED
    BY <1>2, <1>5, <1>6 DEF Splits

LEMMA InsertProperties ==
  ASSUME NEW S, NEW s \in Seq(S), NEW i \in 1..Len(s) + 1, NEW e \in S
  PROVE  /\ InsertAt(s, i, e) \in Seq(S)
         /\ Len(InsertAt(s, i, e)) = Len(s) + 1
         /\ ToSet(InsertAt(s, i, e)) = ToSet(s) \cup {e}
         /\ IsInjective(s) /\ e \notin ToSet(s) => IsInjective(InsertAt(s, i, e))
<1>1. PICK a \in Seq(S), b \in Seq(S) :
        s = a \o b /\ InsertAt(s, i, e) = Append(a, e) \o b
  <2>1. \E a, b : Splits(S, s, InsertAt(s, i, e), a, e, b)
    BY InsertSplits
  <2>2. QED
    BY <2>1 DEF Splits
<1> DEFINE c == Append(a, e)
           r == InsertAt(s, i, e)
<1>2. c \in Seq(S) /\ Len(c) = Len(a) + 1 /\ r = c \o b
  BY <1>1, AppendProperties
<1>3. ToSet(c) = ToSet(a) \cup {e}
  BY ToSetAppend
<1>4. IsInjective(c) <=> IsInjective(a) /\ e \notin ToSet(a)
  BY InjectiveAppend
<1> HIDE DEF c, r
<1>5. r \in Seq(S) /\ Len(r) = Len(c) + Len(b)
  BY <1>2, ConcatProperties
<1>6. ToSet(r) = ToSet(c) \cup ToSet(b)
  BY <1>2, ToSetConcat
<1>7. IsInjective(r) <=> IsInjective(c) /\ IsInjective(b) /\ ToSet(c) \cap ToSet(b) = {}
  BY <1>2, InjectiveConcat
<1>8. Len(s) = Len(a) + Len(b)
  BY <1>1, ConcatProperties
<1>9. ToSet(s) = ToSet(a) \cup ToSet(b)
  BY <1>1, ToSetConcat
<1>10. IsInjective(s) <=> IsInjective(a) /\ IsInjective(b) /\ ToSet(a) \cap ToSet(b) = {}
  BY <1>1, InjectiveConcat
<1>11. Len(r) = Len(s) + 1
  <2>1. Len(a) \in Nat /\ Len(b) \in Nat
    OBVIOUS
  <2>2. QED
    BY <1>2, <1>5, <1>8, <2>1
<1>12. ToSet(r) = ToSet(s) \cup {e}
  BY <1>3, <1>6, <1>9
<1>13. IsInjective(s) /\ e \notin ToSet(s) => IsInjective(r)
  BY <1>3, <1>4, <1>7, <1>9, <1>10
<1>14. QED
  BY <1>5, <1>11, <1>12, <1>13 DEF r

(* In a sequence that has no element twice, to take out what is at a place *)
(* and to omit it is the same.                                             *)
LEMMA RemoveProperties ==
  ASSUME NEW S, NEW s \in Seq(S), NEW i \in 1..Len(s)
  PROVE  /\ RemoveAt(s, i) \in Seq(S)
         /\ Len(RemoveAt(s, i)) = Len(s) - 1
         /\ ToSet(RemoveAt(s, i)) \subseteq ToSet(s)
         /\ IsInjective(s) =>
              /\ Omit(s, {s[i]}) = RemoveAt(s, i)
              /\ ToSet(RemoveAt(s, i)) = ToSet(s) \ {s[i]}
              /\ IsInjective(RemoveAt(s, i))
<1>1. PICK a \in Seq(S), b \in Seq(S) :
        s = Append(a, s[i]) \o b /\ RemoveAt(s, i) = a \o b
  <2>1. \E a, b : Splits(S, RemoveAt(s, i), s, a, s[i], b)
    BY RemoveSplits
  <2>2. QED
    BY <2>1 DEF Splits
<1> DEFINE e == s[i]
           c == Append(a, e)
           r == RemoveAt(s, i)
<1>2. e \in S
  OBVIOUS
<1> HIDE DEF e, r
<1>3. c \in Seq(S) /\ Len(c) = Len(a) + 1
  BY <1>2, AppendProperties
<1>4. ToSet(c) = ToSet(a) \cup {e}
  BY <1>2, ToSetAppend
<1>5. IsInjective(c) <=> IsInjective(a) /\ e \notin ToSet(a)
  BY <1>2, InjectiveAppend
<1>6. ASSUME NEW K
      PROVE  Filter(c, K) = IF e \in K THEN Append(Filter(a, K), e) ELSE Filter(a, K)
  BY <1>2, FilterAppend
<1>7. s = c \o b /\ r = a \o b
  BY <1>1 DEF e, r
<1> HIDE DEF c
<1>8. Len(s) = Len(c) + Len(b) /\ r \in Seq(S) /\ Len(r) = Len(a) + Len(b)
  BY <1>3, <1>7, ConcatProperties
<1>9. ToSet(s) = ToSet(c) \cup ToSet(b)
  BY <1>3, <1>7, ToSetConcat
<1>10. ToSet(r) = ToSet(a) \cup ToSet(b)
  BY <1>7, ToSetConcat
<1>11. IsInjective(s) <=> IsInjective(c) /\ IsInjective(b) /\ ToSet(c) \cap ToSet(b) = {}
  BY <1>3, <1>7, InjectiveConcat
<1>12. IsInjective(r) <=> IsInjective(a) /\ IsInjective(b) /\ ToSet(a) \cap ToSet(b) = {}
  BY <1>7, InjectiveConcat
<1>13. Len(r) = Len(s) - 1
  <2>1. Len(a) \in Nat /\ Len(b) \in Nat
    OBVIOUS
  <2>2. QED
    BY <1>3, <1>8, <2>1
<1>14. ToSet(r) \subseteq ToSet(s)
  BY <1>4, <1>9, <1>10
<1>15. ASSUME IsInjective(s)
       PROVE  Omit(s, {e}) = r /\ ToSet(r) = ToSet(s) \ {e} /\ IsInjective(r)
  <2> DEFINE K == ToSet(s) \ {e}
  <2>1. ToSet(a) \subseteq K /\ ToSet(b) \subseteq K /\ e \notin K
    BY <1>4, <1>5, <1>9, <1>11, <1>15
  <2> HIDE DEF K
  <2>2. Filter(a, K) = a
    BY <2>1, FilterAll
  <2>3. Filter(b, K) = b
    BY <2>1, FilterAll
  <2>4. Filter(c, K) = a
    BY <1>6, <2>1, <2>2
  <2>5. Filter(s, K) = Filter(c, K) \o Filter(b, K)
    BY <1>3, <1>7, FilterConcat
  <2>6. Omit(s, {e}) = r
    BY <1>7, <2>3, <2>4, <2>5 DEF Omit, K
  <2>7. QED
    BY <1>4, <1>5, <1>9, <1>10, <1>11, <1>12, <1>15, <2>6
<1>16. QED
  BY <1>8, <1>13, <1>14, <1>15 DEF e, r

-----------------------------------------------------------------------------
(* A function applied to each element of a sequence. *)
Maps(g, S, T) == g \in [S -> T]

Mapped(s, g) == [i \in DOMAIN s |-> g[s[i]]]

LEMMA MappedType ==
  ASSUME NEW S, NEW T, NEW g, Maps(g, S, T), NEW s \in Seq(S)
  PROVE  /\ Mapped(s, g) \in Seq(T) /\ Len(Mapped(s, g)) = Len(s)
         /\ \A i \in 1..Len(s) : Mapped(s, g)[i] = g[s[i]]
<1> DEFINE n == Len(s)
<1>1. n \in Nat /\ DOMAIN s = 1..n /\ \A i \in 1..n : s[i] \in S
  OBVIOUS
<1>2. Mapped(s, g) = [i \in 1..n |-> g[s[i]]]
  BY <1>1 DEF Mapped
<1> HIDE DEF n
<1>3. \A i \in 1..n : g[s[i]] \in T
  BY <1>1 DEF Maps
<1>4. [i \in 1..n |-> g[s[i]]] \in Seq(T) /\ Len([i \in 1..n |-> g[s[i]]]) = n
  BY <1>1, <1>3
<1>5. \A i \in 1..n : Mapped(s, g)[i] = g[s[i]]
  BY <1>2
<1>6. QED
  BY <1>2, <1>4, <1>5 DEF n

LEMMA MappedEmpty ==
  ASSUME NEW g
  PROVE  Mapped(<<>>, g) = <<>>
BY DEF Mapped

LEMMA MappedAppend ==
  ASSUME NEW S, NEW T, NEW g, Maps(g, S, T), NEW s \in Seq(S), NEW e \in S
  PROVE  Mapped(Append(s, e), g) = Append(Mapped(s, g), g[e])
<1> DEFINE r == Append(s, e)
           n == Len(s)
           p == Mapped(s, g)
           q == Mapped(r, g)
<1>1. n \in Nat /\ r \in Seq(S) /\ Len(r) = n + 1 /\ r[n + 1] = e
  OBVIOUS
<1>2. \A i \in 1..n : r[i] = s[i]
  OBVIOUS
<1> HIDE DEF r
<1>3. p \in Seq(T) /\ Len(p) = n /\ \A i \in 1..n : p[i] = g[s[i]]
  BY MappedType
<1>4. q \in Seq(T) /\ Len(q) = Len(r) /\ \A i \in 1..Len(r) : q[i] = g[r[i]]
  BY <1>1, MappedType
<1> HIDE DEF p, q, n
<1>5. g[e] \in T
  BY DEF Maps
<1>6. /\ Append(p, g[e]) \in Seq(T) /\ Len(Append(p, g[e])) = n + 1
      /\ \A i \in 1..n : Append(p, g[e])[i] = p[i]
      /\ Append(p, g[e])[n + 1] = g[e]
  BY <1>3, <1>5, AppendProperties
<1>7. \A i \in 1..n + 1 : q[i] = Append(p, g[e])[i]
  <2> TAKE i \in 1..n + 1
  <2>1. CASE i \in 1..n
    BY <1>1, <1>2, <1>3, <1>4, <1>6, <2>1
  <2>2. CASE i \notin 1..n
    <3>1. i = n + 1
      BY <1>1, <2>2
    <3>2. QED
      BY <1>1, <1>4, <1>6, <3>1
  <2>3. QED
    BY <2>1, <2>2
<1>8. q = Append(p, g[e])
  BY <1>1, <1>4, <1>6, <1>7, SeqEqual
<1>9. QED
  BY <1>8 DEF p, q, r

LEMMA MappedConcat ==
  ASSUME NEW S, NEW T, NEW g, Maps(g, S, T), NEW s \in Seq(S), NEW t \in Seq(S)
  PROVE  Mapped(s \o t, g) = Mapped(s, g) \o Mapped(t, g)
<1>0. ASSUME NEW x \in Seq(S)
      PROVE  /\ Mapped(x, g) \in Seq(T) /\ Len(Mapped(x, g)) = Len(x)
             /\ \A i \in 1..Len(x) : Mapped(x, g)[i] = g[x[i]]
  BY MappedType
<1> DEFINE r == s \o t
           m == Len(s)
           n == Len(t)
           p == Mapped(s, g)
           q == Mapped(t, g)
           u == Mapped(r, g)
<1>1. /\ m \in Nat /\ n \in Nat /\ r \in Seq(S) /\ Len(r) = m + n
      /\ \A i \in 1..m + n : r[i] = IF i <= m THEN s[i] ELSE t[i - m]
  BY ConcatProperties
<1> HIDE DEF r
<1>2. p \in Seq(T) /\ Len(p) = m /\ \A i \in 1..m : p[i] = g[s[i]]
  BY <1>0
<1>3. q \in Seq(T) /\ Len(q) = n /\ \A i \in 1..n : q[i] = g[t[i]]
  BY <1>0
<1>4. u \in Seq(T) /\ Len(u) = Len(r) /\ \A i \in 1..Len(r) : u[i] = g[r[i]]
  BY <1>0, <1>1
<1> HIDE DEF p, q, u, m, n
<1>5. /\ p \o q \in Seq(T) /\ Len(p \o q) = m + n
      /\ \A i \in 1..m + n : (p \o q)[i] = IF i <= m THEN p[i] ELSE q[i - m]
  BY <1>2, <1>3, ConcatProperties
<1>6. \A i \in 1..m + n : u[i] = (p \o q)[i]
  <2> TAKE i \in 1..m + n
  <2>1. CASE i <= m
    <3>1. i \in 1..m
      BY <1>1, <2>1
    <3>2. i \in 1..Len(r) /\ r[i] = s[i]
      BY <1>1, <2>1
    <3>3. u[i] = g[s[i]]
      BY <1>4, <3>2
    <3>4. QED
      BY <1>2, <1>5, <2>1, <3>1, <3>3
  <2>2. CASE ~(i <= m)
    <3>1. i - m \in 1..n
      BY <1>1, <2>2
    <3>2. i \in 1..Len(r) /\ r[i] = t[i - m]
      BY <1>1, <2>2
    <3>3. u[i] = g[t[i - m]]
      BY <1>4, <3>2
    <3>4. QED
      BY <1>3, <1>5, <2>2, <3>1, <3>3
  <2>3. QED
    BY <2>1, <2>2
<1>7. u = p \o q
  BY <1>1, <1>4, <1>5, <1>6, SeqEqual
<1>8. QED
  BY <1>7 DEF p, q, u, r

LEMMA MappedRange ==
  ASSUME NEW S, NEW s \in Seq(S), NEW g
  PROVE  ToSet(Mapped(s, g)) = {g[x] : x \in ToSet(s)}
BY DEF Mapped, ToSet

(* To filter what a function returns is to filter its arguments.           *)
LEMMA FilterMapped ==
  ASSUME NEW S, NEW T, NEW g, Maps(g, S, T), NEW s \in Seq(S), NEW A, NEW B,
         \A x \in ToSet(s) : x \in A <=> g[x] \in B
  PROVE  Filter(Mapped(s, g), B) = Mapped(Filter(s, A), g)
<1>1. ASSUME NEW q \in Seq(S), NEW x \in S
      PROVE  Mapped(Append(q, x), g) = Append(Mapped(q, g), g[x])
  BY MappedAppend
<1>2. ASSUME NEW q \in Seq(T), NEW y \in T
      PROVE  Filter(Append(q, y), B) = IF y \in B THEN Append(Filter(q, B), y) ELSE Filter(q, B)
  BY FilterAppend
<1> DEFINE Agree(r) == \A x \in ToSet(r) : x \in A <=> g[x] \in B
           P == {r \in Seq(S) :
                  Agree(r) => Filter(Mapped(r, g), B) = Mapped(Filter(r, A), g)}
<1>3. <<>> \in P
  <2>1. <<>> \in Seq(S)
    OBVIOUS
  <2>2. Filter(Mapped(<<>>, g), B) = Mapped(Filter(<<>>, A), g)
    BY FilterEmpty, MappedEmpty
  <2>3. QED
    BY <2>1, <2>2
<1>4. ASSUME NEW r \in Seq(S), NEW e \in S, r \in P
      PROVE  Append(r, e) \in P
  <2> SUFFICES ASSUME Agree(Append(r, e))
               PROVE  Filter(Mapped(Append(r, e), g), B) = Mapped(Filter(Append(r, e), A), g)
    OBVIOUS
  <2>1. ToSet(Append(r, e)) = ToSet(r) \cup {e}
    BY ToSetAppend
  <2>2. Agree(r) /\ (e \in A <=> g[e] \in B)
    BY <2>1
  <2>3. Filter(Mapped(r, g), B) = Mapped(Filter(r, A), g)
    BY <1>4, <2>2
  <2>4. Mapped(Append(r, e), g) = Append(Mapped(r, g), g[e])
    BY <1>1
  <2>5. Mapped(r, g) \in Seq(T) /\ g[e] \in T /\ Filter(r, A) \in Seq(S)
    BY MappedType, FilterType DEF Maps
  <2>6. Filter(Append(Mapped(r, g), g[e]), B) =
          IF g[e] \in B THEN Append(Filter(Mapped(r, g), B), g[e]) ELSE Filter(Mapped(r, g), B)
    BY <1>2, <2>5
  <2>7. Filter(Append(r, e), A) = IF e \in A THEN Append(Filter(r, A), e) ELSE Filter(r, A)
    BY FilterAppend
  <2>8. Mapped(Append(Filter(r, A), e), g) = Append(Mapped(Filter(r, A), g), g[e])
    BY <1>1, <2>5
  <2>9. CASE e \in A
    <3>1. Filter(Append(r, e), A) = Append(Filter(r, A), e)
      BY <2>7, <2>9
    <3>2. Filter(Append(Mapped(r, g), g[e]), B) = Append(Mapped(Filter(r, A), g), g[e])
      BY <2>2, <2>3, <2>6, <2>9
    <3>3. QED
      BY <2>4, <2>8, <3>1, <3>2
  <2>10. CASE e \notin A
    <3>1. Filter(Append(r, e), A) = Filter(r, A)
      BY <2>7, <2>10
    <3>2. Filter(Append(Mapped(r, g), g[e]), B) = Mapped(Filter(r, A), g)
      BY <2>2, <2>3, <2>6, <2>10
    <3>3. QED
      BY <2>4, <3>1, <3>2
  <2>11. QED
    BY <2>9, <2>10
<1>5. \A r \in Seq(S) : \A e \in S : r \in P => Append(r, e) \in P
  BY <1>4
<1>6. Seq(S) \subseteq P
  <2> HIDE DEF P
  <2>1. QED
    BY <1>3, <1>5, SeqSetInduction
<1>7. QED
  BY <1>6

LEMMA MappedSubSeq ==
  ASSUME NEW S, NEW T, NEW g, Maps(g, S, T), NEW s \in Seq(S),
         NEW m \in 1..Len(s) + 1, NEW n \in 0..Len(s)
  PROVE  /\ SubSeq(s, m, n) \in Seq(S) /\ SubSeq(Mapped(s, g), m, n) \in Seq(T)
         /\ Mapped(SubSeq(s, m, n), g) = SubSeq(Mapped(s, g), m, n)
<1>0. ASSUME NEW x \in Seq(S)
      PROVE  /\ Mapped(x, g) \in Seq(T) /\ Len(Mapped(x, g)) = Len(x)
             /\ \A i \in 1..Len(x) : Mapped(x, g)[i] = g[x[i]]
  BY MappedType
<1> DEFINE p == Mapped(s, g)
           k == IF m <= n THEN n - m + 1 ELSE 0
           a == SubSeq(s, m, n)
           b == SubSeq(p, m, n)
           c == Mapped(a, g)
<1>1. m \in Int /\ n \in Int /\ k \in Nat /\ \A i \in m..n : i \in 1..Len(s)
  OBVIOUS
<1>2. p \in Seq(T) /\ \A i \in 1..Len(s) : p[i] = g[s[i]] /\ p[i] \in T /\ s[i] \in S
  BY <1>0 DEF Maps
<1>3. \A i \in 1..k : m + i - 1 \in 1..Len(s) /\ i \in 1..n - m + 1
  BY <1>1
<1> HIDE DEF p, k
<1>4. /\ a \in Seq(S) /\ Len(a) = IF m <= n THEN n - m + 1 ELSE 0
      /\ \A i \in 1..n - m + 1 : a[i] = s[m + i - 1]
  BY <1>1, <1>2, SubSeqProperties
<1>5. /\ b \in Seq(T) /\ Len(b) = IF m <= n THEN n - m + 1 ELSE 0
      /\ \A i \in 1..n - m + 1 : b[i] = p[m + i - 1]
  BY <1>1, <1>2, SubSeqProperties
<1> HIDE DEF a, b
<1>6. c \in Seq(T) /\ Len(c) = Len(a) /\ \A i \in 1..Len(a) : c[i] = g[a[i]]
  BY <1>0, <1>4
<1> HIDE DEF c
<1>7. Len(a) = k /\ Len(b) = k /\ Len(c) = k
  BY <1>4, <1>5, <1>6 DEF k
<1>8. ASSUME NEW i \in 1..k
      PROVE  c[i] = b[i]
  <2>1. m + i - 1 \in 1..Len(s) /\ i \in 1..n - m + 1
    BY <1>3
  <2>2. c[i] = g[s[m + i - 1]]
    BY <1>4, <1>6, <1>7, <2>1
  <2>3. b[i] = g[s[m + i - 1]]
    BY <1>2, <1>5, <2>1
  <2>4. QED
    BY <2>2, <2>3
<1>9. c = b
  BY <1>5, <1>6, <1>7, <1>8, SeqEqual
<1>10. QED
  BY <1>4, <1>5, <1>9 DEF a, b, c, p

LEMMA InsertMapped ==
  ASSUME NEW S, NEW T, NEW g, Maps(g, S, T), NEW s \in Seq(S),
         NEW i \in 1..Len(s) + 1, NEW e \in S
  PROVE  Mapped(InsertAt(s, i, e), g) = InsertAt(Mapped(s, g), i, g[e])
<1>0. ASSUME NEW m \in 1..Len(s) + 1, NEW n \in 0..Len(s)
      PROVE  /\ SubSeq(s, m, n) \in Seq(S) /\ SubSeq(Mapped(s, g), m, n) \in Seq(T)
             /\ Mapped(SubSeq(s, m, n), g) = SubSeq(Mapped(s, g), m, n)
  BY MappedSubSeq
<1>1. ASSUME NEW x \in Seq(S), NEW y \in Seq(S)
      PROVE  Mapped(x \o y, g) = Mapped(x, g) \o Mapped(y, g)
  BY MappedConcat
<1>2. ASSUME NEW x \in Seq(S)
      PROVE  Mapped(Append(x, e), g) = Append(Mapped(x, g), g[e])
  BY MappedAppend
<1>3. Len(Mapped(s, g)) = Len(s)
  BY MappedType
<1> DEFINE n == Len(s)
           a == SubSeq(s, 1, i - 1)
           b == SubSeq(s, i, n)
           p == Mapped(s, g)
           q == SubSeq(p, 1, i - 1)
           r == SubSeq(p, i, n)
<1>4. 1 \in 1..n + 1 /\ i - 1 \in 0..n /\ n \in 0..n
  OBVIOUS
<1>5. a \in Seq(S) /\ q \in Seq(T) /\ Mapped(a, g) = q
  BY <1>0, <1>4
<1>6. b \in Seq(S) /\ Mapped(b, g) = r
  BY <1>0, <1>4
<1>7. InsertAt(s, i, e) = a \o <<e>> \o b /\ InsertAt(p, i, g[e]) = q \o <<g[e]>> \o r
  BY <1>3 DEF InsertAt
<1> HIDE DEF a, b, q, r, p
<1>8. Append(a, e) = a \o <<e>> /\ Append(a, e) \in Seq(S)
  BY <1>5, AppendIsConcat, AppendProperties
<1>9. Append(q, g[e]) = q \o <<g[e]>>
  <2>1. g[e] \in T
    BY DEF Maps
  <2>2. QED
    BY <1>5, <2>1, AppendIsConcat
<1>10. Mapped(Append(a, e) \o b, g) = Mapped(Append(a, e), g) \o r
  BY <1>1, <1>6, <1>8
<1>11. Mapped(Append(a, e), g) = Append(q, g[e])
  BY <1>2, <1>5
<1>12. QED
  BY <1>7, <1>8, <1>9, <1>10, <1>11 DEF p

LEMMA RemoveMapped ==
  ASSUME NEW S, NEW T, NEW g, Maps(g, S, T), NEW s \in Seq(S), NEW i \in 1..Len(s)
  PROVE  Mapped(RemoveAt(s, i), g) = RemoveAt(Mapped(s, g), i)
<1>0. ASSUME NEW m \in 1..Len(s) + 1, NEW n \in 0..Len(s)
      PROVE  /\ SubSeq(s, m, n) \in Seq(S)
             /\ Mapped(SubSeq(s, m, n), g) = SubSeq(Mapped(s, g), m, n)
  BY MappedSubSeq
<1>1. ASSUME NEW x \in Seq(S), NEW y \in Seq(S)
      PROVE  Mapped(x \o y, g) = Mapped(x, g) \o Mapped(y, g)
  BY MappedConcat
<1>2. Len(Mapped(s, g)) = Len(s)
  BY MappedType
<1> DEFINE n == Len(s)
           a == SubSeq(s, 1, i - 1)
           b == SubSeq(s, i + 1, n)
           p == Mapped(s, g)
<1>3. 1 \in 1..n + 1 /\ i - 1 \in 0..n /\ i + 1 \in 1..n + 1 /\ n \in 0..n
  OBVIOUS
<1>4. a \in Seq(S) /\ Mapped(a, g) = SubSeq(p, 1, i - 1)
  BY <1>0, <1>3
<1>5. b \in Seq(S) /\ Mapped(b, g) = SubSeq(p, i + 1, n)
  BY <1>0, <1>3
<1>6. RemoveAt(s, i) = a \o b /\ RemoveAt(p, i) = SubSeq(p, 1, i - 1) \o SubSeq(p, i + 1, n)
  BY <1>2 DEF RemoveAt
<1> HIDE DEF a, b, p
<1>7. Mapped(a \o b, g) = Mapped(a, g) \o Mapped(b, g)
  BY <1>1, <1>4, <1>5
<1>8. QED
  BY <1>4, <1>5, <1>6, <1>7 DEF p

(* The least of a set of numbers.                                          *)
LEMMA MinProperties ==
  ASSUME NEW I \in SUBSET Nat, I # {}
  PROVE  Min(I) \in I /\ \A i \in I : Min(I) <= i
<1>1. PICK x \in I : \A y \in I : ~(<<y, x>> \in OpToRel(<, Nat))
  BY NatLessThanWellFounded, WFMin
<1>2. \A y \in I : x <= y
  <2> TAKE y \in I
  <2>1. ~(y < x)
    BY <1>1 DEF OpToRel
  <2>2. QED
    BY <2>1
<1>3. QED
  BY <1>2 DEF Min

-----------------------------------------------------------------------------
(* FlattenSeq, computed from the left. *)
Flattens(f, S, ss) ==
  /\ FlattenSeq(ss) = f[Len(ss)] /\ f[0] = <<>>
  /\ \A i \in 0..Len(ss) : f[i] \in Seq(S)
  /\ \A i \in 1..Len(ss) : f[i] = f[i - 1] \o ss[i]

LEMMA FlattenSteps ==
  ASSUME NEW S, NEW ss \in Seq(Seq(S))
  PROVE  \E f : Flattens(f, S, ss)
<1> DEFINE n == Len(ss)
           G == [i \in 1..n |-> [q \in Seq(S) |-> q \o ss[i]]]
           Flat(f) == f = [i \in 1..n |-> IF i = 1 THEN ss[i] ELSE f[i - 1] \o ss[i]]
           k == CHOOSE f : Flat(f)
<1>1. n \in Nat /\ \A i \in 1..n : ss[i] \in Seq(S)
  OBVIOUS
<1>2. G \in [1..n -> [Seq(S) -> Seq(S)]]
  BY <1>1
<1>3. PICK f \in [0..n -> Seq(S)] :
        f[0] = <<>> /\ \A i \in 1..n : f[i] = G[i][f[i - 1]]
  <2>1. <<>> \in Seq(S)
    OBVIOUS
  <2>2. QED
    <3> DEFINE V == Seq(S)
               v0 == <<>>
    <3>1. v0 \in V /\ G \in [1..n -> [V -> V]]
      BY <1>2, <2>1
    <3> HIDE DEF G, n, V, v0, k
    <3>2. \E f : Unfolds(f, n, V, v0, G)
      BY <1>1, <3>1, Recursion
    <3>3. QED
      BY <3>2 DEF Unfolds, V, v0
<1>4. \A i \in 1..n : i - 1 \in 0..n /\ f[i - 1] \in Seq(S) /\ f[i] = f[i - 1] \o ss[i]
  <2> TAKE i \in 1..n
  <2>1. i - 1 \in 0..n
    BY <1>1
  <2>2. f[i - 1] \in Seq(S) /\ f[i] = G[i][f[i - 1]]
    <3> HIDE DEF G, n, k
    <3>1. QED
      BY <1>3, <2>1
  <2>3. QED
    BY <2>1, <2>2
<1> DEFINE h == [i \in 1..n |-> f[i]]
<1>5. Flat(h)
  <2>1. ASSUME NEW i \in 1..n
        PROVE  h[i] = IF i = 1 THEN ss[i] ELSE h[i - 1] \o ss[i]
    <3>0. f[i] = f[i - 1] \o ss[i]
      BY <1>4
    <3>1. CASE i = 1
      <4>1. f[1] = f[0] \o ss[1]
        <5>1. i - 1 = 0
          BY <3>1
        <5>2. QED
          BY <3>0, <3>1, <5>1, Zenon
      <4>2. <<>> \o ss[1] = ss[1]
        BY <1>1, <3>1, ConcatEmptySeq
      <4>3. QED
        BY <1>3, <3>1, <4>1, <4>2
    <3>2. CASE i # 1
      <4>1. i - 1 \in 1..n
        BY <1>1, <3>2
      <4>2. h[i] = f[i] /\ h[i - 1] = f[i - 1]
        BY <4>1
      <4>3. QED
        BY <1>4, <3>2, <4>2
    <3>3. QED
      BY <3>1, <3>2
  <2>2. QED
    BY <2>1
<1>6. Flat(k)
  BY <1>5
<1>7. FlattenSeq(ss) = IF n = 0 THEN ss ELSE k[n]
  BY DEF FlattenSeq
<1> HIDE DEF k, h
<1>8. \A i \in 1..n : k[i] = IF i = 1 THEN ss[i] ELSE k[i - 1] \o ss[i]
  <2> HIDE DEF n
  <2>1. QED
    BY <1>6, Zenon
<1>9. 0..n \subseteq {i \in 0..n : i = 0 \/ k[i] = f[i]}
  <2> DEFINE U == {i \in 0..n : i = 0 \/ k[i] = f[i]}
  <2>1. 0 \in U
    BY <1>1
  <2>2. ASSUME NEW i \in 1..n, i - 1 \in U
        PROVE  i \in U
    <3>0. f[i] = f[i - 1] \o ss[i]
      BY <1>4
    <3>1. CASE i = 1
      <4>1. f[1] = f[0] \o ss[1]
        <5>1. i - 1 = 0
          BY <3>1
        <5>2. QED
          BY <3>0, <3>1, <5>1, Zenon
      <4>2. <<>> \o ss[1] = ss[1]
        BY <1>1, <3>1, ConcatEmptySeq
      <4>3. k[1] = f[1]
        BY <1>3, <1>8, <3>1, <4>1, <4>2
      <4>4. QED
        BY <3>1, <4>3
    <3>2. CASE i # 1
      <4>1. k[i] = k[i - 1] \o ss[i]
        BY <1>8, <3>2
      <4>2. k[i - 1] = f[i - 1]
        BY <2>2, <3>2
      <4>3. k[i] = f[i - 1] \o ss[i]
        BY <4>1, <4>2
      <4>4. k[i] = f[i]
        BY <3>0, <4>3, Zenon
      <4>5. QED
        BY <1>1, <4>4
    <3>3. QED
      BY <3>1, <3>2
  <2>3. \A i \in 1..n : i - 1 \in U => i \in U
    BY <2>2
  <2>4. QED
    <3> HIDE DEF U, n
    <3>1. 0..n \subseteq U
      BY <1>1, <2>1, <2>3, UpTo
    <3>2. QED
      BY <3>1 DEF U
<1>10. FlattenSeq(ss) = f[n]
  <2>1. CASE n = 0
    <3>1. ss = <<>>
      BY <2>1
    <3>2. QED
      BY <1>3, <1>7, <2>1, <3>1
  <2>2. CASE n # 0
    <3>1. n \in 0..n
      BY <1>1
    <3>2. QED
      BY <1>7, <1>9, <2>2, <3>1
  <2>3. QED
    BY <2>1, <2>2
<1>11. Flattens(f, S, ss)
  BY <1>3, <1>4, <1>10 DEF Flattens
<1>12. QED
  BY <1>11

LEMMA FlattenEmpty == FlattenSeq(<<>>) = <<>>
BY DEF FlattenSeq

LEMMA FlattenAppend ==
  ASSUME NEW S, NEW ss \in Seq(Seq(S)), NEW s \in Seq(S)
  PROVE  /\ FlattenSeq(ss) \in Seq(S)
         /\ FlattenSeq(Append(ss, s)) = FlattenSeq(ss) \o s
<1> DEFINE n == Len(ss)
           rr == Append(ss, s)
<1>1. /\ n \in Nat /\ rr \in Seq(Seq(S)) /\ Len(rr) = n + 1 /\ rr[n + 1] = s
      /\ \A i \in 1..n : rr[i] = ss[i]
  OBVIOUS
<1>2. PICK f : Flattens(f, S, ss)
  BY FlattenSteps
<1> HIDE DEF rr
<1>3. PICK g : Flattens(g, S, rr)
  BY <1>1, FlattenSteps
<1>4. 0..n \subseteq {i \in 0..n : g[i] = f[i]}
  <2> DEFINE U == {i \in 0..n : g[i] = f[i]}
  <2>1. 0 \in U
    BY <1>1, <1>2, <1>3 DEF Flattens
  <2>2. ASSUME NEW i \in 1..n, i - 1 \in U
        PROVE  i \in U
    <3>1. i \in 1..Len(rr)
      BY <1>1
    <3>2. g[i] = g[i - 1] \o rr[i] /\ f[i] = f[i - 1] \o ss[i]
      BY <1>2, <1>3, <3>1 DEF Flattens
    <3>3. g[i - 1] = f[i - 1] /\ rr[i] = ss[i]
      BY <1>1, <2>2
    <3>4. g[i] = f[i]
      BY <3>2, <3>3
    <3>5. QED
      BY <1>1, <3>4
  <2>3. \A i \in 1..n : i - 1 \in U => i \in U
    BY <2>2
  <2>4. QED
    <3> HIDE DEF U, n
    <3>1. 0..n \subseteq U
      BY <1>1, <2>1, <2>3, UpTo
    <3>2. QED
      BY <3>1 DEF U
<1>5. n \in 0..n /\ n + 1 \in 1..Len(rr) /\ (n + 1) - 1 = n
  BY <1>1
<1>6. FlattenSeq(rr) = g[n + 1] /\ g[n + 1] = g[n] \o s
  BY <1>1, <1>3, <1>5 DEF Flattens
<1>7. FlattenSeq(ss) = f[n] /\ f[n] \in Seq(S) /\ g[n] = f[n]
  BY <1>2, <1>4, <1>5 DEF Flattens
<1>8. QED
  BY <1>6, <1>7 DEF rr

=============================================================================
