------------------------------ MODULE FoldTheory ------------------------------
(***************************************************************************)
(* What a fold over a sequence does, for any operator: of nothing it is the*)
(* base, and one more element is one more application.  `p` are parameters.*)
(*                                                                         *)
(* The provers cannot instantiate a theorem about an operator.  They can   *)
(* use the theorems of a module that is instantiated with one.             *)
(***************************************************************************)
EXTENDS Integers, SequencesExt, SequenceTheorems, WellFoundedInduction, TLAPS

CONSTANT Op(_, _, _)

Fold(p, base, s) == FoldLeft(LAMBDA v, x : Op(p, v, x), base, s)

\* FoldLeft is the value at the whole domain D of a function over its subsets.
FoldFor(f, p, base, s, D) ==
  f = [t \in SUBSET D |->
         IF t = {} THEN base ELSE Op(p, f[t \ {Max(t)}], s[Max(t)])]

-----------------------------------------------------------------------------
\* A set that has 0 and with each number the next one has them all.
LEMMA SetInduction ==
  ASSUME NEW T, 0 \in T, \A n \in Nat : n \in T => n + 1 \in T
  PROVE  \A n \in Nat : n \in T
<1> DEFINE R == {ss \in Nat \X Nat : ss[1] < ss[2]}
           U == {n \in Nat : n \notin T}
<1>1. SUFFICES ASSUME U # {} PROVE FALSE
  OBVIOUS
<1>2. IsWellFoundedOn(R, Nat)
  <2>1. OpToRel(<, Nat) = R
    BY Zenon DEF OpToRel
  <2> HIDE DEF R
  <2> QED BY <2>1, NatLessThanWellFounded, Zenon
<1>3. PICK x \in U : \A y \in U : ~(<<y, x>> \in R)
  <2>1. U \subseteq Nat
    OBVIOUS
  <2> HIDE DEF R, U
  <2> QED BY <1>1, <1>2, <2>1, WFMin
<1>4. x - 1 \in U
  BY <1>3
<1>5. <<x - 1, x>> \in R
  BY <1>3, <1>4
<1> QED BY <1>3, <1>4, <1>5

\* The greatest of a set is its element that none exceeds.
LEMMA MaxIs ==
  ASSUME NEW t, NEW m \in Int, m \in t, t \subseteq Int, \A y \in t : y <= m
  PROVE  Max(t) = m
<1>1. \A y \in t : m >= y
  OBVIOUS
<1>2. Max(t) \in t /\ \A y \in t : Max(t) >= y
  BY <1>1, Zenon DEF Max
<1>3. Max(t) \in Int /\ Max(t) >= m /\ m >= Max(t)
  BY <1>1, <1>2
<1> QED BY <1>3

\* The last index is the greatest, and without it the prefix before is left.
LEMMA PrefixMax ==
  ASSUME NEW n \in Nat
  PROVE  /\ Max(1..(n + 1)) = n + 1
         /\ (1..(n + 1)) \ {n + 1} = 1..n
         /\ 1..(n + 1) # {}
<1>1. n + 1 \in Int /\ n + 1 \in 1..(n + 1) /\ 1..(n + 1) \subseteq Int
      /\ \A y \in 1..(n + 1) : y <= n + 1
  OBVIOUS
<1>2. Max(1..(n + 1)) = n + 1
  BY <1>1, MaxIs
<1>3. \A y : y \in (1..(n + 1)) \ {n + 1} <=> y \in 1..n
  OBVIOUS
<1> QED BY <1>1, <1>2, <1>3

\* There is such a function.
LEMMA FoldsExist ==
  ASSUME NEW p, NEW base, NEW s
  PROVE  \A n \in Nat : \E f : FoldFor(f, p, base, s, 1..n)
<1> DEFINE T == {n \in Nat : \E f : FoldFor(f, p, base, s, 1..n)}
<1>1. 0 \in T
  <2>1. \A t \in SUBSET (1..0) : t = {}
    OBVIOUS
  <2>2. FoldFor([t \in SUBSET (1..0) |-> base], p, base, s, 1..0)
    BY <2>1 DEF FoldFor
  <2> QED BY <2>2
<1>2. ASSUME NEW n \in Nat, n \in T PROVE n + 1 \in T
  <2>1. PICK f : FoldFor(f, p, base, s, 1..n)
    BY <1>2
  <2> DEFINE g == [t \in SUBSET (1..(n + 1)) |->
                     IF n + 1 \in t THEN Op(p, f[t \ {n + 1}], s[n + 1]) ELSE f[t]]
  <2>2. ASSUME NEW t \in SUBSET (1..(n + 1))
        PROVE g[t] = IF t = {} THEN base ELSE Op(p, g[t \ {Max(t)}], s[Max(t)])
    <3>1. CASE n + 1 \in t
      <4>1. Max(t) = n + 1
        <5>1. n + 1 \in Int /\ t \subseteq Int /\ \A y \in t : y <= n + 1
          OBVIOUS
        <5> QED BY <3>1, <5>1, MaxIs
      <4>2. t \ {n + 1} \in SUBSET (1..(n + 1)) /\ n + 1 \notin t \ {n + 1}
        OBVIOUS
      <4>3. g[t \ {n + 1}] = f[t \ {n + 1}]
        BY <4>2
      <4> QED BY <3>1, <4>1, <4>3
    <3>2. CASE n + 1 \notin t
      <4>1. t \in SUBSET (1..n)
        <5>1. \A y \in t : y \in 1..(n + 1) /\ y # n + 1
          BY <3>2
        <5>2. \A y \in t : y \in 1..n
          BY <5>1
        <5> QED BY <5>2
      <4>2. t \ {Max(t)} \in SUBSET (1..(n + 1)) /\ n + 1 \notin t \ {Max(t)}
        BY <3>2
      <4>3. g[t \ {Max(t)}] = f[t \ {Max(t)}] /\ g[t] = f[t]
        BY <3>2, <4>2
      <4>4. f[t] = IF t = {} THEN base ELSE Op(p, f[t \ {Max(t)}], s[Max(t)])
        BY <2>1, <4>1 DEF FoldFor
      <4> QED BY <4>3, <4>4
    <3> QED BY <3>1, <3>2
  <2>3. FoldFor(g, p, base, s, 1..(n + 1))
    <3>1. DOMAIN g = SUBSET (1..(n + 1)) /\ g = [t \in DOMAIN g |-> g[t]]
      OBVIOUS
    <3> HIDE DEF g
    <3> QED BY <2>2, <3>1 DEF FoldFor
  <2> QED BY <2>3
<1>3. \A n \in Nat : n \in T
  <2> HIDE DEF T
  <2> QED BY <1>1, <1>2, SetInduction
<1> QED BY <1>3

\* Its value at a prefix depends on the prefix only.
LEMMA FoldsAgree ==
  ASSUME NEW p, NEW base, NEW s, NEW u, NEW m \in Nat, NEW n \in Nat, NEW k \in Nat,
         k <= m, k <= n, \A i \in 1..k : s[i] = u[i],
         NEW f, FoldFor(f, p, base, s, 1..m), NEW g, FoldFor(g, p, base, u, 1..n)
  PROVE  f[1..k] = g[1..k]
<1> DEFINE T == {j \in Nat : j <= k => f[1..j] = g[1..j]}
<1>1. 0 \in T
  <2>1. 1..0 \in SUBSET (1..m) /\ 1..0 \in SUBSET (1..n) /\ 1..0 = {}
    OBVIOUS
  <2>2. f[1..0] = base /\ g[1..0] = base
    BY <2>1 DEF FoldFor
  <2> QED BY <2>2
<1>2. ASSUME NEW j \in Nat, j \in T PROVE j + 1 \in T
  <2> SUFFICES ASSUME j + 1 <= k PROVE f[1..(j + 1)] = g[1..(j + 1)]
    OBVIOUS
  <2> DEFINE t == 1..(j + 1)
  <2>1. t \in SUBSET (1..m) /\ t \in SUBSET (1..n) /\ t # {} /\ j + 1 \in 1..k
    <3>1. j + 1 \in 1..k /\ j + 1 \in t
      OBVIOUS
    <3>2. \A y \in t : y \in 1..m /\ y \in 1..n
      OBVIOUS
    <3> HIDE DEF t
    <3> QED BY <3>1, <3>2
  <2>2. Max(t) = j + 1 /\ t \ {j + 1} = 1..j
    BY PrefixMax
  <2>3. t \ {Max(t)} = 1..j
    <3> HIDE DEF t
    <3> QED BY <2>2
  <2>4. f[t] = Op(p, f[1..j], s[j + 1])
    <3> HIDE DEF t
    <3> QED BY <2>1, <2>2, <2>3 DEF FoldFor
  <2>5. g[t] = Op(p, g[1..j], u[j + 1])
    <3> HIDE DEF t
    <3> QED BY <2>1, <2>2, <2>3 DEF FoldFor
  <2>6. f[1..j] = g[1..j] /\ s[j + 1] = u[j + 1]
    BY <1>2, <2>1
  <2> QED BY <2>4, <2>5, <2>6
<1>3. \A j \in Nat : j \in T
  <2> HIDE DEF T
  <2> QED BY <1>1, <1>2, SetInduction
<1> QED BY <1>3

\* FoldLeft is the value of one.
LEMMA FoldIs ==
  ASSUME NEW p, NEW base, NEW s, NEW n \in Nat, DOMAIN s = 1..n
  PROVE  \E f : FoldFor(f, p, base, s, 1..n) /\ Fold(p, base, s) = f[1..n]
<1> DEFINE h == CHOOSE f : FoldFor(f, p, base, s, 1..n)
<1>1. FoldFor(h, p, base, s, 1..n)
  <2>1. \E f : FoldFor(f, p, base, s, 1..n)
    BY FoldsExist
  <2> QED BY <2>1, Zenon
<1>2. Fold(p, base, s) = (CHOOSE f : FoldFor(f, p, base, s, DOMAIN s))[DOMAIN s]
  BY Zenon DEF Fold, FoldLeft, MapThenFoldSet, FoldFor
<1>3. Fold(p, base, s) = h[1..n]
  BY <1>2, Zenon
<1> HIDE DEF h
<1> QED BY <1>1, <1>3

-----------------------------------------------------------------------------
\* A set of sequences that has the empty one and with each those that are longer
\* by one element has them all.
THEOREM SeqInduction ==
  ASSUME NEW S, NEW T, <<>> \in T,
         \A s \in Seq(S), x \in S : s \in T => Append(s, x) \in T
  PROVE  \A s \in Seq(S) : s \in T
<1> DEFINE L == {n \in Nat : \A s \in Seq(S) : Len(s) = n => s \in T}
<1>1. 0 \in L
  <2>1. \A s \in Seq(S) : Len(s) = 0 => s = <<>>
    BY EmptySeq
  <2> QED BY <2>1
<1>2. ASSUME NEW n \in Nat, n \in L PROVE n + 1 \in L
  <2> SUFFICES ASSUME NEW s \in Seq(S), Len(s) = n + 1 PROVE s \in T
    OBVIOUS
  <2> DEFINE front == [i \in 1..n |-> s[i]]
  <2>1. \A i \in 1..(n + 1) : s[i] \in S
    BY ElementOfSeq
  <2>2. front \in [1..n -> S] /\ s[n + 1] \in S
    <3>1. \A i \in 1..n : i \in 1..(n + 1)
      OBVIOUS
    <3>2. n + 1 \in 1..(n + 1)
      OBVIOUS
    <3> QED BY <2>1, <3>1, <3>2
  <2>3. front \in Seq(S) /\ Len(front) = n
    <3>1. front \in Seq(S)
      BY <2>2, SeqDef
    <3> QED BY <2>2, <3>1, LenProperties
  <2>4. front \in T
    BY <1>2, <2>3
  <2>5. Append(front, s[n + 1]) = s
    <3> DEFINE a == Append(front, s[n + 1])
    <3>1. /\ a \in Seq(S) /\ Len(a) = n + 1 /\ a[n + 1] = s[n + 1]
          /\ \A i \in 1..n : a[i] = front[i]
      <4> HIDE DEF front
      <4> QED BY <2>2, <2>3, AppendProperties
    <3>2. \A i \in 1..n : a[i] = s[i]
      BY <3>1
    <3> HIDE DEF a, front
    <3>3. \A i \in 1..(n + 1) : i = n + 1 \/ i \in 1..n
      OBVIOUS
    <3>4. \A i \in 1..(n + 1) : a[i] = s[i]
      BY <3>1, <3>2, <3>3
    <3>5. a = s
      BY <3>1, <3>4, SeqEqual
    <3> QED BY <3>5 DEF a
  <2> HIDE DEF front
  <2> QED BY <2>2, <2>3, <2>4, <2>5
<1>3. \A n \in Nat : n \in L
  <2> HIDE DEF L
  <2> QED BY <1>1, <1>2, SetInduction
<1> QED BY <1>3, LenProperties

\* Of nothing a fold is its base.
THEOREM FoldEmpty == \A p, base : Fold(p, base, <<>>) = base
<1> SUFFICES ASSUME NEW p, NEW base PROVE Fold(p, base, <<>>) = base
  OBVIOUS
<1>1. DOMAIN <<>> = 1..0 /\ 1..0 = {}
  OBVIOUS
<1>2. PICK f : FoldFor(f, p, base, <<>>, 1..0) /\ Fold(p, base, <<>>) = f[1..0]
  BY <1>1, FoldIs
<1> QED BY <1>1, <1>2 DEF FoldFor

\* One more element is one more application.
THEOREM FoldAppend ==
  \A p, base, S : \A s \in Seq(S), x \in S :
    Fold(p, base, Append(s, x)) = Op(p, Fold(p, base, s), x)
<1> SUFFICES ASSUME NEW p, NEW base, NEW S, NEW s \in Seq(S), NEW x \in S
             PROVE  Fold(p, base, Append(s, x)) = Op(p, Fold(p, base, s), x)
  OBVIOUS
<1> DEFINE n == Len(s)
           u == Append(s, x)
<1>1. /\ n \in Nat /\ DOMAIN s = 1..n /\ DOMAIN u = 1..(n + 1)
      /\ u[n + 1] = x /\ \A i \in 1..n : s[i] = u[i]
  BY AppendProperties, LenProperties
<1> HIDE DEF n, u
<1>2. PICK f : FoldFor(f, p, base, s, 1..n) /\ Fold(p, base, s) = f[1..n]
  BY <1>1, FoldIs
<1>3. PICK g : FoldFor(g, p, base, u, 1..(n + 1)) /\ Fold(p, base, u) = g[1..(n + 1)]
  BY <1>1, FoldIs
<1>4. f[1..n] = g[1..n]
  BY <1>1, <1>2, <1>3, FoldsAgree
<1>5. Max(1..(n + 1)) = n + 1 /\ (1..(n + 1)) \ {n + 1} = 1..n /\ 1..(n + 1) # {}
  BY <1>1, PrefixMax
<1>6. g[1..(n + 1)] = Op(p, g[1..n], u[n + 1])
  BY <1>3, <1>5 DEF FoldFor
<1> QED BY <1>1, <1>2, <1>3, <1>4, <1>6 DEF u

\* A fold stays in a set that its base is in and that each application keeps.
THEOREM FoldStays ==
  \A p, S, I, base :
    base \in I /\ (\A v \in I, x \in S : Op(p, v, x) \in I)
      => \A s \in Seq(S) : Fold(p, base, s) \in I
<1> SUFFICES ASSUME NEW p, NEW S, NEW I, NEW base,
                    base \in I, \A v \in I, x \in S : Op(p, v, x) \in I
             PROVE  \A s \in Seq(S) : Fold(p, base, s) \in I
  OBVIOUS
<1> DEFINE T == {s \in Seq(S) : Fold(p, base, s) \in I}
<1>1. <<>> \in T
  BY FoldEmpty, EmptySeq
<1>2. ASSUME NEW s \in Seq(S), NEW x \in S, s \in T PROVE Append(s, x) \in T
  BY <1>2, FoldAppend, AppendProperties
<1>3. \A s \in Seq(S) : s \in T
  <2> HIDE DEF T
  <2> QED BY <1>1, <1>2, SeqInduction
<1> QED BY <1>3

-----------------------------------------------------------------------------
(* Positions and parts of sequences                                        *)

\* Appending to a list that is given by a function of its positions.
LEMMA PrefixGrows ==
  ASSUME NEW S, NEW k \in Nat, NEW f, \A i \in 1..(k + 1) : f[i] \in S
  PROVE  /\ [i \in 1..k |-> f[i]] \in Seq(S)
         /\ [i \in 1..(k + 1) |-> f[i]] = Append([i \in 1..k |-> f[i]], f[k + 1])
<1> DEFINE s == [i \in 1..k |-> f[i]]
           t == [i \in 1..(k + 1) |-> f[i]]
<1>1. \A i \in 1..k : i \in 1..(k + 1)
  OBVIOUS
<1>2. k + 1 \in 1..(k + 1)
  OBVIOUS
<1>3. s \in [1..k -> S] /\ t \in [1..(k + 1) -> S] /\ f[k + 1] \in S
  BY <1>1, <1>2
<1>4. s \in Seq(S) /\ t \in Seq(S)
  BY <1>3, SeqDef
<1>5. Len(s) = k /\ Len(t) = k + 1
  BY <1>3, <1>4, LenProperties
<1> DEFINE a == Append(s, f[k + 1])
<1>6. /\ a \in Seq(S) /\ Len(a) = k + 1 /\ a[k + 1] = f[k + 1]
      /\ \A i \in 1..k : a[i] = s[i]
  <2> HIDE DEF s
  <2> QED BY <1>3, <1>4, <1>5, AppendProperties
<1>7. \A i \in 1..(k + 1) : i = k + 1 \/ i \in 1..k
  OBVIOUS
<1>8. \A i \in 1..k : s[i] = f[i]
  OBVIOUS
<1>9. \A i \in 1..(k + 1) : t[i] = f[i]
  OBVIOUS
<1> HIDE DEF s, t, a
<1>10. \A i \in 1..(k + 1) : a[i] = t[i]
  BY <1>6, <1>7, <1>8, <1>9
<1>11. a = t
  BY <1>4, <1>5, <1>6, <1>10, SeqEqual
<1> QED BY <1>4, <1>11 DEF a, s, t

\* Of some numbers there is a least.
LEMMA LeastIs ==
  ASSUME NEW t, t \subseteq Nat, t # {}
  PROVE  Min(t) \in t /\ \A y \in t : Min(t) <= y
<1> DEFINE T == {n \in Nat : (\E x \in t : x <= n) => \E x \in t : \A y \in t : x <= y}
<1>1. 0 \in T
  OBVIOUS
<1>2. ASSUME NEW n \in Nat, n \in T PROVE n + 1 \in T
  <2> SUFFICES ASSUME NEW x \in t, x <= n + 1, ~\E z \in t : z <= n
               PROVE  \E z \in t : \A y \in t : z <= y
    BY <1>2
  <2>1. \A y \in t : y \in Nat /\ ~(y <= n)
    OBVIOUS
  <2>2. \A y \in t : n + 1 <= y
    BY <2>1
  <2> QED BY <2>1, <2>2
<1>3. \A n \in Nat : n \in T
  <2> HIDE DEF T
  <2> QED BY <1>1, <1>2, SetInduction
<1>4. \E x \in t : \A y \in t : x <= y
  <2>1. PICK z \in t : z \in Nat
    OBVIOUS
  <2> QED BY <1>3, <2>1
<1> QED BY <1>4, Zenon DEF Min

\* A fold over two sequences goes on from the first with the second.
THEOREM FoldConcat ==
  \A p, base, S : \A s, t \in Seq(S) :
    Fold(p, base, s \o t) = Fold(p, Fold(p, base, s), t)
<1> SUFFICES ASSUME NEW p, NEW base, NEW S, NEW s \in Seq(S)
             PROVE  \A t \in Seq(S) : Fold(p, base, s \o t) = Fold(p, Fold(p, base, s), t)
  OBVIOUS
<1> DEFINE mid == Fold(p, base, s)
           T == {t \in Seq(S) : Fold(p, base, s \o t) = Fold(p, mid, t)}
<1>1. <<>> \in T
  <2>1. s \o <<>> = s
    BY ConcatEmptySeq
  <2>2. Fold(p, base, s \o <<>>) = mid
    BY <2>1
  <2> HIDE DEF mid
  <2> QED BY <2>2, FoldEmpty, EmptySeq
<1>2. ASSUME NEW t \in Seq(S), NEW x \in S, t \in T PROVE Append(t, x) \in T
  <2>1. s \o Append(t, x) = Append(s \o t, x)
    <3>1. Append(t, x) = t \o <<x>> /\ <<x>> \in Seq(S) /\ s \o t \in Seq(S)
      BY AppendIsConcat, ConcatProperties
    <3>2. Append(s \o t, x) = (s \o t) \o <<x>>
      BY <3>1, AppendIsConcat
    <3> QED BY <3>1, <3>2, ConcatAssociative
  <2>2. s \o t \in Seq(S) /\ Append(t, x) \in Seq(S)
    BY ConcatProperties, AppendProperties
  <2>3. Fold(p, base, Append(s \o t, x)) = Op(p, Fold(p, base, s \o t), x)
    <3> DEFINE u == s \o t
    <3>1. u \in Seq(S)
      BY <2>2
    <3> HIDE DEF u
    <3>2. Fold(p, base, Append(u, x)) = Op(p, Fold(p, base, u), x)
      BY <3>1, FoldAppend
    <3> QED BY <3>2 DEF u
  <2>4. Fold(p, base, s \o t) = Fold(p, mid, t)
    BY <1>2
  <2> HIDE DEF mid
  <2>5. Fold(p, mid, Append(t, x)) = Op(p, Fold(p, mid, t), x)
    BY FoldAppend
  <2>6. Fold(p, base, s \o Append(t, x)) = Fold(p, mid, Append(t, x))
    BY <2>1, <2>3, <2>4, <2>5
  <2> QED BY <2>2, <2>6
<1>3. \A t \in Seq(S) : t \in T
  <2> HIDE DEF T
  <2> QED BY <1>1, <1>2, SeqInduction
<1> QED BY <1>3
=============================================================================
