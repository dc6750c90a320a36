-------------------------- MODULE HttpRelayProofs --------------------------
(* One relayed flow, for every pair of messages, every framing, flaw and     *)
(* chunk list, every cut of the wire into reads, every size of the limits    *)
(* and every point at which a peer leaves: what is held is bounded, each     *)
(* peer is sent exactly one message, and the hook is shown exactly what was  *)
(* transferred and counts of it, in wire order (BoundedMemory,               *)
(* ForwardsOneMessage, ExchangeExact, ObservedInOrder).                      *)
(*                                                                           *)
(* None of these is inductive: they speak of the bytes that were sent and    *)
(* captured, and the next byte is right only because the bytes in hand, the  *)
(* parser and the capture stand at the same place of the wire.  RelayInv     *)
(* says where, for each phase: what was sent is a prefix of the wire, what   *)
(* is in hand is the stretch behind it (WritingAt, ReadingAt), the chunk     *)
(* parser stands at a boundary of the encoding and its pending bytes are the *)
(* stretch from there (Parsed, At), and the capture is the payload up to     *)
(* that boundary, cut at the limit (Captured).  A wire with a flaw agrees    *)
(* with an encoding up to a point (Frame, Follow), and the parser never      *)
(* passes that point.                                                        *)
(*                                                                           *)
(* Sums, flattened lists and the parser's loop are recursive functions; what *)
(* they compute for every length is proved from a least counterexample       *)
(* (LeastNatural).                                                           *)
EXTENDS HttpRelay, FiniteSetTheorems, SequenceTheorems, WellFoundedInduction, TLAPS

-----------------------------------------------------------------------------
(* Sums. *)

(* A nonempty set of naturals has a least element: with it a statement *)
(* about all sizes is proved from its least counterexample.            *)
LEMMA LeastNatural ==
    ASSUME NEW S, S \subseteq Nat, S # {}
    PROVE  \E x \in S : \A y \in S : x <= y
<1>1. PICK x \in S : \A y \in S : ~ (<<y, x>> \in OpToRel(<, Nat))
  BY NatLessThanWellFounded, WFMin
<1>2. \A y \in S : ~ (y < x)
  BY <1>1 DEF OpToRel
<1> QED BY <1>2

(* The element a fold takes next. *)
Pick(T) == CHOOSE x \in T : TRUE

(* One step of the sum of w over T, from the sums g of smaller sets. *)
FoldStep(w, g, T) == IF T = {} THEN 0 ELSE w[Pick(T)] + g[T \ {Pick(T)}]

(* g is the recursive function Total is defined by, on the sets of D. *)
IsFold(w, g, D) == g = [T \in D |-> FoldStep(w, g, T)]

(* The sum of w over S. *)
FoldOf(w, S) == (CHOOSE g : IsFold(w, g, SUBSET S))[S]

(* The subsets of S with at most n elements. *)
UpTo(S, n) == {T \in SUBSET S : Cardinality(T) <= n}

(* Total is the sum of a list over its positions. *)
LEMMA TotalIs == ASSUME NEW s PROVE Total(s) = FoldOf(s, DOMAIN s)
BY Zenon DEF Total, FoldSeq, FoldFunction, FoldFunctionOnSet, MapThenFoldSet, FoldOf, IsFold, FoldStep, Pick

(* A set without one of its elements is smaller by one. *)
LEMMA PickOne == ASSUME NEW S, IsFiniteSet(S), NEW T \in SUBSET S, T # {}, NEW x \in T
                 PROVE  /\ Pick(T) \in T /\ IsFiniteSet(T) /\ T \ {x} \in SUBSET S
                        /\ Cardinality(T) \in Nat /\ Cardinality(T \ {x}) \in Nat
                        /\ Cardinality(T \ {x}) = Cardinality(T) - 1
<1>1. Pick(T) \in T BY DEF Pick
<1>2. IsFiniteSet(T) BY FS_Subset
<1>3. /\ IsFiniteSet(T \ {x}) /\ Cardinality(T \ {x}) = Cardinality(T) - 1 BY <1>2, FS_RemoveElement
<1> QED BY <1>1, <1>2, <1>3, FS_CardinalityType

(* The recursive function exists, by the least size for which it would not. *)
LEMMA FoldExists ==
    ASSUME NEW w, NEW S, IsFiniteSet(S)
    PROVE  \E g : IsFold(w, g, SUBSET S)
<1> DEFINE B == {n \in Nat : ~ \E g : IsFold(w, g, UpTo(S, n))}
<1>1. B = {}
  <2> SUFFICES ASSUME B # {} PROVE FALSE OBVIOUS
  <2>1. PICK n \in B : \A y \in B : n <= y BY LeastNatural
  <2>2. n \in Nat /\ ~ \E g : IsFold(w, g, UpTo(S, n)) BY <2>1
  <2>3. PICK f : n = 0 \/ IsFold(w, f, UpTo(S, n - 1)) BY <2>1, <2>2
  <2> DEFINE g == [T \in UpTo(S, n) |-> FoldStep(w, f, T)]
  <2>4. \A T \in UpTo(S, n) : FoldStep(w, f, T) = FoldStep(w, g, T)
    <3> SUFFICES ASSUME NEW T \in UpTo(S, n), T # {} PROVE FoldStep(w, f, T) = FoldStep(w, g, T)
      BY DEF FoldStep
    <3> DEFINE U == T \ {Pick(T)}
    <3>1. T \in SUBSET S /\ Cardinality(T) <= n BY DEF UpTo
    <3>2. Pick(T) \in T BY DEF Pick
    <3>3. U \in SUBSET S /\ Cardinality(U) \in Nat /\ Cardinality(U) = Cardinality(T) - 1 /\ Cardinality(T) \in Nat
      BY <3>1, <3>2, PickOne
    <3>4. n # 0 /\ U \in UpTo(S, n - 1) /\ U \in UpTo(S, n) BY <2>2, <3>1, <3>3 DEF UpTo
    <3>5. f[U] = FoldStep(w, f, U) BY <2>3, <3>4 DEF IsFold
    <3>6. g[U] = FoldStep(w, f, U) BY <3>4
    <3> QED BY <3>5, <3>6 DEF FoldStep
  <2>5. g = [T \in UpTo(S, n) |-> FoldStep(w, g, T)] BY <2>4
  <2> QED BY <2>2, <2>5 DEF IsFold
<1>2. Cardinality(S) \in Nat BY FS_CardinalityType
<1>3. UpTo(S, Cardinality(S)) = SUBSET S BY FS_Subset DEF UpTo
<1>4. \E g : IsFold(w, g, UpTo(S, Cardinality(S))) BY <1>1, <1>2, Zenon
<1> QED BY <1>3, <1>4, Zenon

(* w and v agree on S. *)
SameOn(w, v, S) == \A x \in S : w[x] = v[x]

(* R is S and one more element. *)
AddsOne(R, S, x) == x \notin S /\ R = S \cup {x}

(* The sum over R is the sum over S and the value of the new element. *)
OneMore(w, S, v, R, x) == FoldOf(w, S) \in Nat /\ FoldOf(v, R) = FoldOf(w, S) + v[x]

(* w is a natural number on S. *)
NatOn(w, S) == \A x \in S : w[x] \in Nat

(* Two such functions agree where their weights do. *)
LEMMA FoldsAgree ==
    ASSUME NEW w, NEW S, NEW v, NEW R, IsFiniteSet(S), S \in SUBSET R, SameOn(w, v, S)
    PROVE  \A f, g : IsFold(w, f, SUBSET S) /\ IsFold(v, g, SUBSET R) => f[S] = g[S]
<1> SUFFICES ASSUME NEW f, NEW g, IsFold(w, f, SUBSET S), IsFold(v, g, SUBSET R) PROVE f[S] = g[S] OBVIOUS
<1> DEFINE B == {n \in Nat : \E T \in SUBSET S : Cardinality(T) = n /\ f[T] # g[T]}
<1>1. B = {}
  <2> SUFFICES ASSUME B # {} PROVE FALSE OBVIOUS
  <2>1. PICK n \in B : \A y \in B : n <= y BY LeastNatural
  <2>2. PICK T \in SUBSET S : Cardinality(T) = n /\ f[T] # g[T] BY <2>1
  <2>3. f[T] = FoldStep(w, f, T) /\ g[T] = FoldStep(v, g, T) BY DEF IsFold
  <2>4. T # {} BY <2>2, <2>3 DEF FoldStep
  <2> DEFINE U == T \ {Pick(T)}
  <2>5. Pick(T) \in T BY <2>4 DEF Pick
  <2>6. U \in SUBSET S /\ Cardinality(U) \in Nat /\ Cardinality(U) = Cardinality(T) - 1 /\ Cardinality(T) \in Nat
    BY <2>4, <2>5, PickOne
  <2>7. Cardinality(U) \notin B BY <2>1, <2>2, <2>6
  <2>8. f[U] = g[U] BY <2>6, <2>7
  <2>9. w[Pick(T)] = v[Pick(T)] BY <2>5 DEF SameOn
  <2> QED BY <2>2, <2>3, <2>4, <2>8, <2>9 DEF FoldStep
<1> QED BY <1>1, FS_CardinalityType

(* A sum of naturals is a natural. *)
LEMMA FoldNatural ==
    ASSUME NEW w, NEW f, NEW S, IsFiniteSet(S), IsFold(w, f, SUBSET S), \A x \in S : w[x] \in Nat
    PROVE  \A T \in SUBSET S : f[T] \in Nat
<1> DEFINE B == {n \in Nat : \E T \in SUBSET S : Cardinality(T) = n /\ f[T] \notin Nat}
<1>1. B = {}
  <2> SUFFICES ASSUME B # {} PROVE FALSE OBVIOUS
  <2>1. PICK n \in B : \A y \in B : n <= y BY LeastNatural
  <2>2. PICK T \in SUBSET S : Cardinality(T) = n /\ f[T] \notin Nat BY <2>1
  <2>3. f[T] = FoldStep(w, f, T) BY DEF IsFold
  <2>4. T # {} BY <2>2, <2>3 DEF FoldStep
  <2> DEFINE U == T \ {Pick(T)}
  <2>5. Pick(T) \in T BY <2>4 DEF Pick
  <2>6. U \in SUBSET S /\ Cardinality(U) \in Nat /\ Cardinality(U) = Cardinality(T) - 1 /\ Cardinality(T) \in Nat
    BY <2>4, <2>5, PickOne
  <2>10. ~ (n <= Cardinality(U)) BY <2>2, <2>6
  <2>7. Cardinality(U) \notin B BY <2>1, <2>10, Zenon
  <2>8. f[U] \in Nat BY <2>6, <2>7
  <2>9. w[Pick(T)] \in Nat BY <2>5
  <2> QED BY <2>2, <2>3, <2>4, <2>8, <2>9 DEF FoldStep
<1> QED BY <1>1, FS_Subset, FS_CardinalityType

(* A sum does not depend on the element that is taken first. *)
LEMMA FoldAnyOrder ==
    ASSUME NEW w, NEW f, NEW S, IsFiniteSet(S), IsFold(w, f, SUBSET S), \A x \in S : w[x] \in Nat
    PROVE  \A T \in SUBSET S : \A x \in T : f[T] = w[x] + f[T \ {x}]
<1>0. \A T \in SUBSET S : f[T] \in Nat BY FoldNatural
<1> DEFINE B == {n \in Nat : \E T \in SUBSET S : \E x \in T : Cardinality(T) = n /\ f[T] # w[x] + f[T \ {x}]}
<1>1. B = {}
  <2> SUFFICES ASSUME B # {} PROVE FALSE OBVIOUS
  <2>1. PICK n \in B : \A y \in B : n <= y BY LeastNatural
  <2>2. PICK T \in SUBSET S : \E x \in T : Cardinality(T) = n /\ f[T] # w[x] + f[T \ {x}] BY <2>1
  <2>3. PICK x \in T : Cardinality(T) = n /\ f[T] # w[x] + f[T \ {x}] BY <2>2
  <2> DEFINE c == Pick(T)
  <2>4. f[T] = w[c] + f[T \ {c}] BY DEF IsFold, FoldStep
  <2>5. c \in T BY DEF Pick
  <2> HIDE DEF c
  <2>6. c # x BY <2>3, <2>4
  <2>7. /\ T \ {x} \in SUBSET S /\ Cardinality(T \ {x}) \in Nat /\ Cardinality(T \ {x}) = Cardinality(T) - 1
        /\ T \ {c} \in SUBSET S /\ Cardinality(T \ {c}) \in Nat /\ Cardinality(T \ {c}) = Cardinality(T) - 1
        /\ Cardinality(T) \in Nat
    BY <2>5, PickOne
  <2>13. ~ (n <= Cardinality(T \ {x})) /\ ~ (n <= Cardinality(T \ {c})) BY <2>3, <2>7
  <2>8. Cardinality(T \ {x}) \notin B /\ Cardinality(T \ {c}) \notin B BY <2>1, <2>13, Zenon
  <2>9. f[T \ {c}] = w[x] + f[(T \ {c}) \ {x}] BY <2>5, <2>6, <2>7, <2>8
  <2>10. f[T \ {x}] = w[c] + f[(T \ {x}) \ {c}] BY <2>5, <2>6, <2>7, <2>8
  <2>11. (T \ {x}) \ {c} = (T \ {c}) \ {x} /\ (T \ {c}) \ {x} \in SUBSET S OBVIOUS
  <2>12. w[x] \in Nat /\ w[c] \in Nat /\ f[(T \ {c}) \ {x}] \in Nat BY <1>0, <2>5, <2>11
  <2>14. f[(T \ {x}) \ {c}] = f[(T \ {c}) \ {x}] BY <2>11
  <2>15. w[c] + (w[x] + f[(T \ {c}) \ {x}]) = w[x] + (w[c] + f[(T \ {c}) \ {x}]) BY <2>12
  <2> QED BY <2>3, <2>4, <2>9, <2>10, <2>14, <2>15, Zenon
<1> QED
  <2> SUFFICES ASSUME NEW T \in SUBSET S, NEW x \in T PROVE f[T] = w[x] + f[T \ {x}] OBVIOUS
  <2>1. IsFiniteSet(T) /\ Cardinality(T) \in Nat BY FS_Subset, FS_CardinalityType
  <2> QED BY <1>1, <2>1

(* The sum over S is given by some such function. *)
LEMMA FoldIs ==
    ASSUME NEW w, NEW S, IsFiniteSet(S)
    PROVE  \E g : IsFold(w, g, SUBSET S) /\ FoldOf(w, S) = g[S]
<1>1. IsFold(w, CHOOSE g : IsFold(w, g, SUBSET S), SUBSET S) BY FoldExists
<1> QED BY <1>1, Zenon DEF FoldOf

(* A sum over one more element is larger by its value. *)
LEMMA FoldOneMore ==
    ASSUME NEW S, IsFiniteSet(S), NEW w, NEW v, NEW x, NEW R, AddsOne(R, S, x), SameOn(w, v, S), NatOn(v, R)
    PROVE  OneMore(w, S, v, R, x)
<1>0. R = S \cup {x} /\ x \notin S BY DEF AddsOne
<1>1. IsFiniteSet(R) /\ S \subseteq R /\ R \ {x} = S BY <1>0, FS_AddElement
<1>2. PICK F : IsFold(w, F, SUBSET S) /\ FoldOf(w, S) = F[S] BY FoldIs
<1>3. PICK G : IsFold(v, G, SUBSET R) /\ FoldOf(v, R) = G[R] BY <1>1, FoldIs
<1>4. S \in SUBSET R /\ SameOn(w, v, S) /\ v[x] \in Nat /\ \A y \in R : v[y] \in Nat BY <1>0, <1>1 DEF NatOn
<1>9. IsFold(w, F, SUBSET S) /\ IsFold(v, G, SUBSET R) BY <1>2, <1>3, Zenon
<1>5. F[S] = G[S] BY <1>4, <1>9, FoldsAgree
<1>6. F[S] \in Nat BY <1>1, <1>2, <1>4, FoldNatural DEF SameOn
<1>7. G[R] = v[x] + G[R \ {x}] BY <1>0, <1>1, <1>3, <1>4, FoldAnyOrder
<1>8. v[x] + F[S] = F[S] + v[x] BY <1>4, <1>6
<1> QED BY <1>0, <1>1, <1>2, <1>3, <1>5, <1>6, <1>7, <1>8, Zenon DEF OneMore

(* The sum over nothing is 0. *)
LEMMA FoldNone == ASSUME NEW w PROVE FoldOf(w, {}) = 0
<1> DEFINE F == CHOOSE g : IsFold(w, g, SUBSET {})
<1>1. IsFold(w, F, SUBSET {}) BY FS_EmptySet, FoldExists
<1>2. FoldOf(w, {}) = F[{}] BY Zenon DEF FoldOf
<1> HIDE DEF F
<1> QED BY <1>1, <1>2 DEF IsFold, FoldStep

(* The total of a list grows with each element by that element. *)
LEMMA TotalSteps ==
    ASSUME NEW s \in Seq(Nat)
    PROVE  /\ Total(s) \in Nat
           /\ \A j \in 1..Len(s) : /\ Total(SubSeq(s, 1, j - 1)) \in Nat
                                  /\ Total(SubSeq(s, 1, j)) = Total(SubSeq(s, 1, j - 1)) + s[j]
           /\ Total(SubSeq(s, 1, Len(s))) = Total(s)
           /\ Total(<<>>) = 0 /\ Total(SubSeq(s, 1, 0)) = 0
<1>0. Len(s) \in Nat OBVIOUS
<1>1. ASSUME NEW j \in 1..Len(s)
      PROVE  Total(SubSeq(s, 1, j - 1)) \in Nat /\ Total(SubSeq(s, 1, j)) = Total(SubSeq(s, 1, j - 1)) + s[j]
  <2> DEFINE w == SubSeq(s, 1, j - 1)  v == SubSeq(s, 1, j)  S == 1..(j - 1)  R == 1..j
  <2>0. j \in Nat /\ j - 1 \in Nat /\ j <= Len(s) OBVIOUS
  <2>1. DOMAIN w = S /\ \A y \in S : w[y] = s[y] BY <2>0, SubSeqProperties
  <2>2. DOMAIN v = R /\ \A y \in R : v[y] = s[y] /\ v[y] \in Nat BY <2>0, SubSeqProperties
  <2>3. IsFiniteSet(S) /\ AddsOne(R, S, j) /\ S \subseteq R /\ j \in R BY <2>0, FS_Interval, SMTT(30) DEF AddsOne
  <2> HIDE DEF w, v, S, R
  <2>5. SameOn(w, v, S) /\ NatOn(v, R) BY <2>1, <2>2, <2>3 DEF SameOn, NatOn
  <2>6. v[j] \in Nat /\ v[j] = s[j] BY <2>2, <2>3
  <2>9. IsFiniteSet(S) /\ AddsOne(R, S, j) /\ SameOn(w, v, S) /\ NatOn(v, R) BY <2>3, <2>5
  <2>4. FoldOf(w, S) \in Nat /\ FoldOf(v, R) = FoldOf(w, S) + v[j]
    <3>1. OneMore(w, S, v, R, j) BY <2>9, FoldOneMore, Zenon
    <3> QED BY <3>1, Zenon DEF OneMore
  <2>7. Total(w) = FoldOf(w, S) /\ Total(v) = FoldOf(v, R) BY <2>1, <2>2, TotalIs, Zenon
  <2> QED BY <2>4, <2>6, <2>7, Zenon DEF w, v
<1>2. SubSeq(s, 1, Len(s)) = s /\ SubSeq(s, 1, 0) = <<>> BY <1>0, SubSeqFull, SubSeqEmpty
<1>3. Total(<<>>) = 0
  <2>1. DOMAIN <<>> = {} OBVIOUS
  <2> QED BY <2>1, TotalIs, FoldNone
<1>4. Total(s) \in Nat
  <2>1. CASE Len(s) = 0
    <3>1. s = <<>> BY <2>1
    <3> QED BY <3>1, <1>3
  <2>2. CASE Len(s) # 0
    <3>1. Len(s) \in 1..Len(s) BY <2>2, <1>0
    <3>2. s[Len(s)] \in Nat BY <3>1
    <3>3. Total(SubSeq(s, 1, Len(s) - 1)) \in Nat BY <1>1, <3>1
    <3>4. Total(SubSeq(s, 1, Len(s))) = Total(SubSeq(s, 1, Len(s) - 1)) + s[Len(s)] BY <1>1, <3>1
    <3>5. Total(s) = Total(SubSeq(s, 1, Len(s) - 1)) + s[Len(s)] BY <3>4, <1>2, Zenon
    <3> QED BY <3>2, <3>3, <3>5
  <2> QED BY <2>1, <2>2
<1> QED BY <1>1, <1>2, <1>3, <1>4

-----------------------------------------------------------------------------
(* Lists of chunks and the bytes they encode to. *)

(* The function FlattenSeq is defined by, for the first n parts of s. *)
IsFlatten(s, f, n) == f = [i \in 1..n |-> IF i = 1 THEN s[i] ELSE f[i - 1] \o s[i]]

(* It exists for every length, by the least length for which it would not. *)
LEMMA FlattenExists ==
    ASSUME NEW s, NEW m \in Nat
    PROVE  \E f : IsFlatten(s, f, m)
<1> DEFINE B == {n \in Nat : ~ \E f : IsFlatten(s, f, n)}
<1> SUFFICES ASSUME B # {} PROVE FALSE OBVIOUS
<1>1. PICK n \in B : \A y \in B : n <= y BY LeastNatural
<1>2. n \in Nat /\ ~ \E f : IsFlatten(s, f, n) BY <1>1
<1>3. CASE n = 0 BY <1>2, <1>3 DEF IsFlatten
<1>4. CASE n # 0
  <2>1. n - 1 \in Nat /\ n - 1 \notin B BY <1>1, <1>2, <1>4
  <2>2. PICK f : IsFlatten(s, f, n - 1) BY <2>1
  <2> DEFINE v == IF n = 1 THEN s[n] ELSE f[n - 1] \o s[n]
             g == [i \in 1..n |-> IF i = n THEN v ELSE f[i]]
             h == [i \in 1..n |-> IF i = 1 THEN s[i] ELSE g[i - 1] \o s[i]]
  <2>3. \A i \in 1..n : g[i] = h[i]
    <3> SUFFICES ASSUME NEW i \in 1..n PROVE g[i] = h[i] OBVIOUS
    <3>0. i \in Nat /\ i >= 1 /\ i <= n BY <1>2
    <3>1. CASE i = n BY <1>2, <3>0, <3>1
    <3>2. CASE i # n
      <4>1. g[i] = f[i] BY <3>2
      <4>2. i \in 1..(n - 1) BY <3>2, <3>0, <1>2
      <4>3. f[i] = IF i = 1 THEN s[i] ELSE f[i - 1] \o s[i]
        BY <4>2, <2>2 DEF IsFlatten
      <4>4. i # 1 => i - 1 \in 1..n /\ i - 1 # n BY <3>0, <1>2
      <4>5. i # 1 => g[i - 1] = f[i - 1] BY <4>4
      <4> QED BY <4>1, <4>3, <4>5
    <3> QED BY <3>1, <3>2
  <2>4. g = h BY <2>3
  <2>5. IsFlatten(s, g, n) BY <2>4 DEF IsFlatten
  <2> QED BY <2>5, <1>2
<1> QED BY <1>3, <1>4

(* Two such functions agree where their parts do. *)
LEMMA FlattensAgree ==
    ASSUME NEW s, NEW f, NEW m \in Nat, IsFlatten(s, f, m), NEW t, NEW g, NEW n \in Nat, IsFlatten(t, g, n), m <= n,
           \A i \in 1..m : s[i] = t[i]
    PROVE  \A i \in 1..m : f[i] = g[i]
<1>1. \A i \in 1..m : f[i] = IF i = 1 THEN s[i] ELSE f[i - 1] \o s[i] BY DEF IsFlatten
<1>2. \A i \in 1..n : g[i] = IF i = 1 THEN t[i] ELSE g[i - 1] \o t[i] BY DEF IsFlatten
<1> DEFINE B == {i \in 1..m : f[i] # g[i]}
<1> SUFFICES ASSUME B # {} PROVE FALSE OBVIOUS
<1>3. PICK k \in B : \A y \in B : k <= y
  <2>1. B \subseteq Nat OBVIOUS
  <2> HIDE DEF B
  <2> QED BY <2>1, LeastNatural
<1>4. k \in 1..m /\ f[k] # g[k] /\ k \in Nat /\ k \in 1..n BY <1>3
<1>5. s[k] = t[k] BY <1>4
<1>6. CASE k = 1 BY <1>1, <1>2, <1>4, <1>5, <1>6
<1>7. CASE k # 1 BY <1>1, <1>2, <1>3, <1>4, <1>5, <1>7
<1> QED BY <1>6, <1>7

(* A flattened list is given by some such function. *)
LEMMA FlattenIs ==
    ASSUME NEW s, NEW n \in Nat, n > 0, Len(s) = n
    PROVE  \E f : IsFlatten(s, f, n) /\ FlattenSeq(s) = f[n]
<1> DEFINE F == CHOOSE f : IsFlatten(s, f, n)
<1>1. IsFlatten(s, F, n) BY FlattenExists
<1>2. ~ (Len(s) = 0) OBVIOUS
<1>3. FlattenSeq(s) = F[n] BY <1>2 DEF FlattenSeq, IsFlatten
<1> QED BY <1>1, <1>3, Zenon

(* One more part is appended to what the others flatten to. *)
LEMMA FlattenStep ==
    ASSUME NEW s, NEW t, NEW n \in Nat, n > 0, Len(s) = n, Len(t) = n + 1, \A i \in 1..n : s[i] = t[i]
    PROVE  FlattenSeq(t) = FlattenSeq(s) \o t[n + 1]
<1>4. PICK f : IsFlatten(s, f, n) /\ FlattenSeq(s) = f[n] BY FlattenIs
<1>5. n + 1 \in Nat /\ n + 1 > 0 /\ n <= n + 1 /\ n \in 1..n OBVIOUS
<1>6. PICK g : IsFlatten(t, g, n + 1) /\ FlattenSeq(t) = g[n + 1] BY <1>5, FlattenIs
<1>7. \A i \in 1..n : f[i] = g[i] BY <1>4, <1>5, <1>6, FlattensAgree
<1>8. g[n + 1] = g[n] \o t[n + 1]
  <2>1. \A i \in 1..(n + 1) : g[i] = IF i = 1 THEN t[i] ELSE g[i - 1] \o t[i] BY <1>6 DEF IsFlatten
  <2>2. n + 1 \in 1..(n + 1) /\ n + 1 # 1 /\ n + 1 - 1 = n OBVIOUS
  <2>3. PICK j : j = n + 1 OBVIOUS
  <2>4. j \in 1..(n + 1) /\ j # 1 /\ j - 1 = n BY <2>2, <2>3
  <2>5. g[j] = g[j - 1] \o t[j] BY <2>1, <2>4, Zenon
  <2> QED BY <2>3, <2>4, <2>5, Zenon
<1> QED BY <1>4, <1>5, <1>6, <1>7, <1>8

(* A list of one part flattens to that part. *)
LEMMA FlattenFirst == ASSUME NEW s, Len(s) = 1 PROVE FlattenSeq(s) = s[1]
<1>1. PICK f : IsFlatten(s, f, 1) /\ FlattenSeq(s) = f[1] BY FlattenIs
<1>2. \A i \in 1..1 : f[i] = IF i = 1 THEN s[i] ELSE f[i - 1] \o s[i] BY <1>1 DEF IsFlatten
<1>3. 1 \in 1..1 OBVIOUS
<1> QED BY <1>1, <1>2, <1>3

(* The bytes of the wire, with their number or size. *)
ByteSet == [kind : {"head", "data", "size", "cr", "lf", "junk"}, n : Nat]

(* The bytes of the encoding are bytes, and the parser can tell them apart. *)
LEMMA ByteKinds ==
    /\ CR \in ByteSet /\ LF \in ByteSet /\ Junk \in ByteSet /\ HeadByte \in ByteSet
    /\ \A n \in Nat : Size(n) \in ByteSet /\ Data(n) \in ByteSet /\ Size(n).n = n /\ Size(n).kind = "size"
                     /\ Size(n) # LF /\ Data(n) # LF
    /\ CR # LF /\ Junk # LF /\ Junk # CR /\ Junk.kind # "size"
BY DEF ByteSet, CR, LF, Junk, HeadByte, Size, Data, Byte

(* The payload bytes in front of chunk j. *)
Before(s, j) == Total(SubSeq(s, 1, j - 1))

(* n payload bytes behind the first d. *)
Run(d, n) == [i \in 1..n |-> Data(d + i)]

(* Their type, number and values. *)
LEMMA RunIs ==
    ASSUME NEW d \in Nat, NEW n \in Nat
    PROVE  Run(d, n) \in Seq(ByteSet) /\ Len(Run(d, n)) = n /\ \A i \in 1..n : Run(d, n)[i] = Data(d + i)
<1>1. \A i \in 1..n : Data(d + i) \in ByteSet BY ByteKinds
<1>2. [i \in 1..n |-> Data(d + i)] \in Seq(ByteSet) BY <1>1
<1>3. Len([i \in 1..n |-> Data(d + i)]) = n OBVIOUS
<1> QED BY <1>2, <1>3 DEF Run

(* Type, length and elements of three lists in a row. *)
LEMMA Cat3 ==
    ASSUME NEW S, NEW a \in Seq(S), NEW b \in Seq(S), NEW c \in Seq(S)
    PROVE  /\ a \o b \o c \in Seq(S) /\ Len(a \o b \o c) = Len(a) + Len(b) + Len(c)
           /\ \A i \in 1..Len(a) : (a \o b \o c)[i] = a[i]
           /\ \A i \in 1..Len(b) : (a \o b \o c)[Len(a) + i] = b[i]
           /\ \A i \in 1..Len(c) : (a \o b \o c)[Len(a) + Len(b) + i] = c[i]
<1>1. /\ a \o b \in Seq(S) /\ Len(a \o b) = Len(a) + Len(b)
      /\ \A i \in 1..(Len(a) + Len(b)) : (a \o b)[i] = IF i <= Len(a) THEN a[i] ELSE b[i - Len(a)]
  BY ConcatProperties
<1>2. PICK d : d = a \o b OBVIOUS
<1>3. /\ d \o c \in Seq(S) /\ Len(d \o c) = Len(d) + Len(c)
      /\ \A i \in 1..(Len(d) + Len(c)) : (d \o c)[i] = IF i <= Len(d) THEN d[i] ELSE c[i - Len(d)]
  BY <1>1, <1>2, ConcatProperties
<1>4. Len(a) \in Nat /\ Len(b) \in Nat /\ Len(c) \in Nat /\ Len(d) = Len(a) + Len(b) BY <1>1, <1>2
<1>5. \A i \in 1..Len(a) : (d \o c)[i] = a[i] BY <1>1, <1>2, <1>3, <1>4
<1>6. \A i \in 1..Len(b) : (d \o c)[Len(a) + i] = b[i] BY <1>1, <1>2, <1>3, <1>4
<1>7. \A i \in 1..Len(c) : (d \o c)[Len(a) + Len(b) + i] = c[i] BY <1>3, <1>4
<1>8. Len(d \o c) = Len(a) + Len(b) + Len(c) BY <1>3, <1>4
<1> QED BY <1>2, <1>3, <1>5, <1>6, <1>7, <1>8

(* A chunk is its size line, its bytes and its terminator. *)
LEMMA ChunkIs ==
    ASSUME NEW s \in Seq(Nat), NEW j \in 1..Len(s)
    PROVE  /\ Chunk(s, j) \in Seq(ByteSet) /\ Len(Chunk(s, j)) = 5 + s[j] /\ s[j] \in Nat /\ Before(s, j) \in Nat
           /\ Chunk(s, j)[1] = Size(s[j]) /\ Chunk(s, j)[2] = CR /\ Chunk(s, j)[3] = LF
           /\ \A i \in 1..s[j] : Chunk(s, j)[3 + i] = Data(Before(s, j) + i)
           /\ Chunk(s, j)[4 + s[j]] = CR /\ Chunk(s, j)[5 + s[j]] = LF
<1>1. s[j] \in Nat OBVIOUS
<1>2. Before(s, j) \in Nat BY TotalSteps DEF Before
<1> DEFINE a == <<Size(s[j]), CR, LF>>  b == Run(Before(s, j), s[j])  c == <<CR, LF>>
<1>3. a \in Seq(ByteSet) /\ Len(a) = 3 /\ a[1] = Size(s[j]) /\ a[2] = CR /\ a[3] = LF BY <1>1, ByteKinds
<1>4. c \in Seq(ByteSet) /\ Len(c) = 2 /\ c[1] = CR /\ c[2] = LF BY ByteKinds
<1>5. b \in Seq(ByteSet) /\ Len(b) = s[j] /\ \A i \in 1..s[j] : b[i] = Data(Before(s, j) + i) BY <1>1, <1>2, RunIs
<1>6. Chunk(s, j) = a \o b \o c BY Zenon DEF Chunk, Before, Run
<1> HIDE DEF a, b, c
<1>7. PICK x : x = a \o b \o c OBVIOUS
<1>8. /\ x \in Seq(ByteSet) /\ Len(x) = Len(a) + Len(b) + Len(c)
      /\ \A i \in 1..Len(a) : x[i] = a[i]
      /\ \A i \in 1..Len(b) : x[Len(a) + i] = b[i]
      /\ \A i \in 1..Len(c) : x[Len(a) + Len(b) + i] = c[i]
  <2>1. a \in Seq(ByteSet) /\ b \in Seq(ByteSet) /\ c \in Seq(ByteSet) BY <1>3, <1>4, <1>5
  <2> QED BY ONLY <2>1, <1>7, Cat3, SMTT(30)
<1>9. x[1] = Size(s[j]) /\ x[2] = CR /\ x[3] = LF BY <1>3, <1>8
<1>10. \A i \in 1..s[j] : x[3 + i] = Data(Before(s, j) + i) BY <1>3, <1>5, <1>8
<1>11. x[4 + s[j]] = CR /\ x[5 + s[j]] = LF
  <2>1. Len(a) + Len(b) + 1 = 4 + s[j] /\ Len(a) + Len(b) + 2 = 5 + s[j] /\ 1 \in 1..Len(c) /\ 2 \in 1..Len(c)
    BY <1>1, <1>3, <1>4, <1>5
  <2>2. x[Len(a) + Len(b) + 1] = c[1] /\ x[Len(a) + Len(b) + 2] = c[2] BY <1>8, <2>1
  <2> QED BY <2>1, <2>2, <1>4
<1>12. Len(x) = 5 + s[j] BY <1>1, <1>3, <1>4, <1>5, <1>8
<1> QED BY <1>1, <1>2, <1>6, <1>7, <1>8, <1>9, <1>10, <1>11, <1>12

(* The first j chunks, encoded. *)
Chunks(s, j) == FlattenSeq([i \in 1..j |-> Chunk(s, i)])

(* The next chunk is appended. *)
LEMMA ChunksStep ==
    ASSUME NEW s \in Seq(Nat), NEW j \in 1..Len(s)
    PROVE  Chunks(s, 0) = <<>> /\ Chunks(s, j) = Chunks(s, j - 1) \o Chunk(s, j)
<1>0. j \in Nat /\ j >= 1 OBVIOUS
<1> DEFINE p(k) == [i \in 1..k |-> Chunk(s, i)]
<1>1. \A k \in Nat : Len(p(k)) = k /\ \A i \in 1..k : p(k)[i] = Chunk(s, i) OBVIOUS
<1>2. Chunks(s, 0) = <<>> BY DEF Chunks, FlattenSeq
<1>3. CASE j = 1
  <2>1. Len(p(1)) = 1 /\ p(1)[1] = Chunk(s, 1) BY <1>1
  <2> HIDE DEF p
  <2>2. FlattenSeq(p(1)) = Chunk(s, 1) BY <2>1, FlattenFirst, Zenon
  <2>3. Chunks(s, 1) = Chunk(s, 1) BY <2>2 DEF Chunks, p
  <2>4. Chunk(s, 1) \in Seq(ByteSet) BY <1>3, ChunkIs
  <2>5. <<>> \o Chunk(s, 1) = Chunk(s, 1) BY <2>4, ConcatEmptySeq
  <2>6. j - 1 = 0 BY <1>3
  <2>7. Chunks(s, j - 1) = <<>> BY <1>2, <2>6, Zenon
  <2> QED BY <1>2, <1>3, <2>3, <2>5, <2>7, Zenon
<1>4. CASE j # 1
  <2>0. PICK n : n = j - 1 OBVIOUS
  <2>1. n \in Nat /\ n > 0 /\ n + 1 = j BY <1>0, <1>4, <2>0
  <2>3. Len(p(n)) = n /\ Len(p(j)) = n + 1 /\ p(j)[n + 1] = Chunk(s, j) BY <1>1, <2>1
  <2>4. \A i \in 1..n : p(n)[i] = p(j)[i] BY <1>1, <2>1
  <2> HIDE DEF p
  <2>5. FlattenSeq(p(j)) = FlattenSeq(p(n)) \o p(j)[n + 1] BY <2>1, <2>3, <2>4, FlattenStep
  <2>6. Chunks(s, j) = FlattenSeq(p(j)) /\ Chunks(s, n) = FlattenSeq(p(n)) BY DEF Chunks, p
  <2> QED BY <1>2, <2>0, <2>3, <2>5, <2>6
<1> QED BY <1>3, <1>4

(* Encoded chunks are bytes. *)
LEMMA ChunksType ==
    ASSUME NEW s \in Seq(Nat)
    PROVE  \A j \in 0..Len(s) : Chunks(s, j) \in Seq(ByteSet)
<1> DEFINE B == {j \in 0..Len(s) : Chunks(s, j) \notin Seq(ByteSet)}
<1> SUFFICES ASSUME B # {} PROVE FALSE OBVIOUS
<1>1. PICK n \in B : \A y \in B : n <= y
  <2>1. B \subseteq Nat OBVIOUS
  <2> HIDE DEF B
  <2> QED BY <2>1, LeastNatural
<1>2. n \in 0..Len(s) /\ n \in Nat /\ Chunks(s, n) \notin Seq(ByteSet) BY <1>1
<1>3. CASE n = 0
  <2>1. Chunks(s, 0) = <<>> BY DEF Chunks, FlattenSeq
  <2>2. <<>> \in Seq(ByteSet) OBVIOUS
  <2> QED BY ONLY <1>2, <1>3, <2>1, <2>2, Zenon
<1>4. CASE n # 0
  <2>1. n \in 1..Len(s) /\ n - 1 \in 0..Len(s) /\ ~ (n <= n - 1) BY <1>2, <1>4
  <2>2. n - 1 \notin B BY <1>1, <2>1, Zenon
  <2>3. Chunks(s, n - 1) \in Seq(ByteSet) BY <2>1, <2>2
  <2>4. Chunks(s, n) = Chunks(s, n - 1) \o Chunk(s, n) BY <2>1, ChunksStep
  <2>5. Chunk(s, n) \in Seq(ByteSet) BY <2>1, ChunkIs
  <2>6. Chunks(s, n - 1) \o Chunk(s, n) \in Seq(ByteSet) BY <2>3, <2>5, ConcatProperties, Zenon
  <2> QED BY <1>2, <2>4, <2>6, Zenon
<1> QED BY <1>3, <1>4

-----------------------------------------------------------------------------
(* Where each chunk begins in the encoding. *)

(* t begins with u. *)
Extends(t, u) == Len(u) <= Len(t) /\ \A k \in 1..Len(u) : t[k] = u[k]

(* It still does with more behind it. *)
LEMMA ExtendsCat ==
    ASSUME NEW t \in Seq(ByteSet), NEW u \in Seq(ByteSet), NEW v \in Seq(ByteSet), Extends(t, u)
    PROVE  Extends(t \o v, u)
<1>1. /\ Len(t \o v) = Len(t) + Len(v)
      /\ \A i \in 1..(Len(t) + Len(v)) : (t \o v)[i] = IF i <= Len(t) THEN t[i] ELSE v[i - Len(t)]
  BY ConcatProperties
<1>2. Len(t) \in Nat /\ Len(v) \in Nat /\ Len(u) \in Nat /\ Len(u) <= Len(t) BY DEF Extends
<1>3. ASSUME NEW k \in 1..Len(u) PROVE (t \o v)[k] = u[k] BY <1>1, <1>2 DEF Extends
<1> QED BY <1>1, <1>2, <1>3 DEF Extends

(* Further chunks leave the earlier ones in place. *)
LEMMA ChunksExtend ==
    ASSUME NEW s \in Seq(Nat), NEW i \in 0..Len(s)
    PROVE  \A j \in i..Len(s) : Extends(Chunks(s, j), Chunks(s, i))
<1> DEFINE B == {j \in i..Len(s) : ~ Extends(Chunks(s, j), Chunks(s, i))}
<1> SUFFICES ASSUME B # {} PROVE FALSE OBVIOUS
<1>0. Chunks(s, i) \in Seq(ByteSet) BY ChunksType
<1>1. PICK n \in B : \A y \in B : n <= y
  <2>1. B \subseteq Nat OBVIOUS
  <2> HIDE DEF B
  <2> QED BY <2>1, LeastNatural
<1>2. n \in i..Len(s) /\ n \in Nat /\ ~ Extends(Chunks(s, n), Chunks(s, i)) BY <1>1
<1>3. CASE n = i BY <1>0, <1>2, <1>3 DEF Extends
<1>4. CASE n # i
  <2>1. n \in 1..Len(s) /\ n - 1 \in i..Len(s) /\ n - 1 \in 0..Len(s) /\ ~ (n <= n - 1) BY <1>2, <1>4
  <2>2. n - 1 \notin B BY <1>1, <2>1, Zenon
  <2>3. Extends(Chunks(s, n - 1), Chunks(s, i)) BY <2>1, <2>2
  <2>4. Chunks(s, n) = Chunks(s, n - 1) \o Chunk(s, n) BY <2>1, ChunksStep
  <2>5. Chunk(s, n) \in Seq(ByteSet) /\ Chunks(s, n - 1) \in Seq(ByteSet) BY <2>1, ChunkIs, ChunksType
  <2>6. Extends(Chunks(s, n - 1) \o Chunk(s, n), Chunks(s, i)) BY <1>0, <2>3, <2>5, ExtendsCat
  <2> QED BY <1>2, <2>4, <2>6, Zenon
<1> QED BY <1>3, <1>4

(* Where chunk j begins; the last chunk is number Len(s) + 1. *)
Begin(s, j) == Len(Chunks(s, j - 1))

(* Where the next chunk begins, and how much payload is in front of it. *)
LEMMA BeginSteps ==
    ASSUME NEW s \in Seq(Nat)
    PROVE  /\ Begin(s, 1) = 0 /\ Before(s, 1) = 0 /\ Before(s, Len(s) + 1) = Total(s)
           /\ \A j \in 1..(Len(s) + 1) : Begin(s, j) \in Nat /\ Before(s, j) \in Nat
           /\ \A j \in 1..Len(s) : /\ s[j] \in Nat /\ Begin(s, j + 1) = Begin(s, j) + 5 + s[j]
                                   /\ Before(s, j + 1) = Before(s, j) + s[j]
<1>0. Len(s) \in Nat OBVIOUS
<1>1. Begin(s, 1) = 0 BY DEF Chunks, FlattenSeq, Begin
<1>2. Before(s, 1) = 0 BY TotalSteps DEF Before
<1>3. Before(s, Len(s) + 1) = Total(s) BY <1>0, TotalSteps DEF Before
<1>4. ASSUME NEW j \in 1..(Len(s) + 1) PROVE Begin(s, j) \in Nat BY <1>0, ChunksType DEF Begin
<1>5. ASSUME NEW j \in 1..(Len(s) + 1) PROVE Before(s, j) \in Nat
  <2>1. CASE j \in 1..Len(s) BY <2>1, TotalSteps DEF Before
  <2>2. CASE j = Len(s) + 1 BY <1>3, <2>2, TotalSteps
  <2> QED BY <2>1, <2>2, <1>0
<1>6. ASSUME NEW j \in 1..Len(s)
      PROVE  s[j] \in Nat /\ Begin(s, j + 1) = Begin(s, j) + 5 + s[j] /\ Before(s, j + 1) = Before(s, j) + s[j]
  <2>0. j \in Nat /\ j + 1 - 1 = j /\ j - 1 \in 0..Len(s) OBVIOUS
  <2>1. Chunks(s, j) = Chunks(s, j - 1) \o Chunk(s, j) BY ChunksStep
  <2>2. Chunk(s, j) \in Seq(ByteSet) /\ Len(Chunk(s, j)) = 5 + s[j] /\ s[j] \in Nat BY ChunkIs
  <2>3. Chunks(s, j - 1) \in Seq(ByteSet) BY <2>0, ChunksType
  <2>4. Len(Chunks(s, j)) = Len(Chunks(s, j - 1)) + (5 + s[j])
    <3>1. PICK a : a = Chunks(s, j - 1) OBVIOUS
    <3>2. PICK c : c = Chunk(s, j) OBVIOUS
    <3>3. a \in Seq(ByteSet) /\ c \in Seq(ByteSet) BY <2>2, <2>3, <3>1, <3>2, Zenon
    <3>4. Len(a \o c) = Len(a) + Len(c) BY ONLY <3>3, ConcatProperties
    <3> QED BY <2>1, <2>2, <3>1, <3>2, <3>4, Zenon
  <2>5. Begin(s, j + 1) = Len(Chunks(s, j)) /\ Begin(s, j) = Len(Chunks(s, j - 1)) BY <2>0 DEF Begin
  <2>6. Begin(s, j) \in Nat BY <2>3, <2>5
  <2>7. Begin(s, j + 1) = Begin(s, j) + 5 + s[j]
    <3>1. PICK a : a = Begin(s, j) OBVIOUS
    <3>2. PICK c : c = s[j] OBVIOUS
    <3>3. a + (5 + c) = a + 5 + c BY <2>2, <2>6, <3>1, <3>2, SMTT(30)
    <3> QED BY <2>4, <2>5, <3>1, <3>2, <3>3, Zenon
  <2>8. Before(s, j + 1) = Total(SubSeq(s, 1, j)) BY <2>0 DEF Before
  <2>9. Before(s, j + 1) = Before(s, j) + s[j] BY <2>8, TotalSteps DEF Before
  <2> QED BY <2>2, <2>7, <2>9
<1> QED BY <1>1, <1>2, <1>3, <1>4, <1>5, <1>6

(* A trailer line, where the message has one. *)
TrailerLines(m) == IF m.flaw = "trailer" THEN <<Junk, CR, LF>> ELSE <<>>

(* Its length. *)
TailLen(m) == IF m.flaw = "trailer" THEN 3 ELSE 0

(* The last chunk is a size line of 0, the trailers and an empty line. *)
LEMMA LastChunkIs ==
    ASSUME NEW m
    PROVE  /\ LastChunk(m) \in Seq(ByteSet) /\ Len(LastChunk(m)) = 5 + TailLen(m)
           /\ LastChunk(m)[1] = Size(0) /\ LastChunk(m)[2] = CR /\ LastChunk(m)[3] = LF
           /\ m.flaw # "trailer" => LastChunk(m)[4] = CR /\ LastChunk(m)[5] = LF
           /\ m.flaw = "trailer" => /\ LastChunk(m)[4] = Junk /\ LastChunk(m)[5] = CR /\ LastChunk(m)[6] = LF
                                    /\ LastChunk(m)[7] = CR /\ LastChunk(m)[8] = LF
<1> DEFINE a == <<Size(0), CR, LF>>  b == TrailerLines(m)  c == <<CR, LF>>
<1>3. a \in Seq(ByteSet) /\ Len(a) = 3 /\ a[1] = Size(0) /\ a[2] = CR /\ a[3] = LF BY ByteKinds
<1>4. c \in Seq(ByteSet) /\ Len(c) = 2 /\ c[1] = CR /\ c[2] = LF BY ByteKinds
<1>5. b \in Seq(ByteSet) /\ Len(b) = TailLen(m) /\ (m.flaw = "trailer" => b[1] = Junk /\ b[2] = CR /\ b[3] = LF)
  BY ByteKinds DEF TrailerLines, TailLen
<1>6. LastChunk(m) = a \o b \o c BY Zenon DEF LastChunk, TrailerLines
<1> HIDE DEF a, b, c
<1>7. PICK x : x = a \o b \o c OBVIOUS
<1>8. /\ x \in Seq(ByteSet) /\ Len(x) = Len(a) + Len(b) + Len(c)
      /\ \A i \in 1..Len(a) : x[i] = a[i]
      /\ \A i \in 1..Len(b) : x[Len(a) + i] = b[i]
      /\ \A i \in 1..Len(c) : x[Len(a) + Len(b) + i] = c[i]
  <2>1. a \in Seq(ByteSet) /\ b \in Seq(ByteSet) /\ c \in Seq(ByteSet) BY <1>3, <1>4, <1>5
  <2> QED BY ONLY <2>1, <1>7, Cat3
<1>9. x[1] = Size(0) /\ x[2] = CR /\ x[3] = LF BY <1>3, <1>8
<1>10. CASE m.flaw = "trailer"
  <2>1. Len(b) = 3 BY <1>5, <1>10 DEF TailLen
  <2>2. x[4] = b[1] /\ x[5] = b[2] /\ x[6] = b[3] /\ x[7] = c[1] /\ x[8] = c[2] BY <1>3, <1>4, <1>8, <2>1
  <2> QED BY <1>3, <1>4, <1>5, <1>6, <1>7, <1>8, <1>9, <1>10, <2>1, <2>2 DEF TailLen
<1>11. CASE m.flaw # "trailer"
  <2>1. Len(b) = 0 BY <1>5, <1>11 DEF TailLen
  <2>2. x[4] = c[1] /\ x[5] = c[2] BY <1>3, <1>4, <1>8, <2>1
  <2> QED BY <1>3, <1>4, <1>6, <1>7, <1>8, <1>9, <1>11, <2>1, <2>2 DEF TailLen
<1> QED BY <1>10, <1>11

(* Chunk j stands at its place in the encoding e. *)
Layout(m, e, j) ==
    LET s == m.sizes
        b == Begin(s, j)
    IN  /\ b + 5 + s[j] + 5 + TailLen(m) <= Len(e)
        /\ e[b + 1] = Size(s[j]) /\ e[b + 2] = CR /\ e[b + 3] = LF
        /\ \A i \in 1..s[j] : e[b + 3 + i] = Data(Before(s, j) + i)
        /\ e[b + 4 + s[j]] = CR /\ e[b + 5 + s[j]] = LF

(* The last chunk stands at the end of the encoding e. *)
LastLayout(m, e) ==
    LET b == Begin(m.sizes, Len(m.sizes) + 1)
    IN  /\ Len(e) = b + 5 + TailLen(m)
        /\ e[b + 1] = Size(0) /\ e[b + 2] = CR /\ e[b + 3] = LF
        /\ m.flaw # "trailer" => e[b + 4] = CR /\ e[b + 5] = LF
        /\ m.flaw = "trailer" => /\ e[b + 4] = Junk /\ e[b + 5] = CR /\ e[b + 6] = LF
                                 /\ e[b + 7] = CR /\ e[b + 8] = LF

(* So it does, and every chunk: what a parser will meet at each boundary. *)
LEMMA EncodedLayout ==
    ASSUME NEW m, m.framing = "chunked", m.sizes \in Seq(Nat)
    PROVE  /\ Encoded(m) \in Seq(ByteSet) /\ LastLayout(m, Encoded(m))
           /\ \A j \in 1..Len(m.sizes) : Layout(m, Encoded(m), j)
<1> DEFINE s == m.sizes  n == Len(s)  x == Chunks(s, n)  y == LastChunk(m)
<1>0. n \in Nat /\ n \in 0..n /\ n + 1 \in 1..(n + 1) OBVIOUS
<1>1. x \in Seq(ByteSet) BY <1>0, ChunksType
<1>2. y \in Seq(ByteSet) BY LastChunkIs
<1>3. Encoded(m) = x \o y BY DEF Encoded, Chunks
<1>4. PICK e : e = x \o y OBVIOUS
<1>5. /\ e \in Seq(ByteSet) /\ Len(e) = Len(x) + Len(y)
      /\ \A i \in 1..(Len(x) + Len(y)) : e[i] = IF i <= Len(x) THEN x[i] ELSE y[i - Len(x)]
  <2> HIDE DEF x, y
  <2> QED BY ONLY <1>1, <1>2, <1>4, ConcatProperties
<1>6. Begin(s, n + 1) = Len(x) /\ Len(x) \in Nat /\ Len(y) \in Nat
  <2>1. n + 1 - 1 = n BY <1>0
  <2> QED BY <1>1, <1>2, <2>1 DEF Begin
<1>7. \A i \in 1..Len(y) : e[Len(x) + i] = y[i] BY <1>5, <1>6
<1>8. LastLayout(m, e)
  <2>1. /\ Len(y) = 5 + TailLen(m) /\ y[1] = Size(0) /\ y[2] = CR /\ y[3] = LF
        /\ m.flaw # "trailer" => y[4] = CR /\ y[5] = LF
        /\ m.flaw = "trailer" => y[4] = Junk /\ y[5] = CR /\ y[6] = LF /\ y[7] = CR /\ y[8] = LF
    BY LastChunkIs
  <2>2. TailLen(m) = (IF m.flaw = "trailer" THEN 3 ELSE 0) BY DEF TailLen
  <2>3. PICK b : b = Begin(s, n + 1) OBVIOUS
  <2>4. b = Len(x) BY <1>6, <2>3
  <2> HIDE DEF x, y
  <2>5. \A i \in 1..Len(y) : e[b + i] = y[i] BY <1>7, <2>4, Zenon
  <2>6. b \in Nat BY <1>6, <2>4
  <2>7. e[b + 1] = Size(0) /\ e[b + 2] = CR /\ e[b + 3] = LF BY <2>1, <2>2, <2>5
  <2>8. m.flaw # "trailer" => e[b + 4] = CR /\ e[b + 5] = LF BY <2>1, <2>2, <2>5
  <2>9. m.flaw = "trailer" => e[b + 4] = Junk /\ e[b + 5] = CR /\ e[b + 6] = LF /\ e[b + 7] = CR /\ e[b + 8] = LF
    BY <2>1, <2>2, <2>5
  <2>10. Len(e) = b + 5 + TailLen(m) BY <1>5, <1>6, <2>1, <2>2, <2>4
  <2> QED BY <2>3, <2>7, <2>8, <2>9, <2>10 DEF LastLayout
<1>9. ASSUME NEW j \in 1..n PROVE Layout(m, e, j)
  <2>0. j \in Nat /\ j \in 0..n /\ j - 1 \in 0..n /\ j \in 1..Len(s) /\ n \in j..n BY <1>0
  <2> DEFINE u == Chunks(s, j)  v == Chunks(s, j - 1)  c == Chunk(s, j)
  <2>1. u \in Seq(ByteSet) /\ v \in Seq(ByteSet) BY <2>0, ChunksType
  <2>2. /\ c \in Seq(ByteSet) /\ Len(c) = 5 + s[j] /\ s[j] \in Nat /\ Before(s, j) \in Nat
        /\ c[1] = Size(s[j]) /\ c[2] = CR /\ c[3] = LF
        /\ \A i \in 1..s[j] : c[3 + i] = Data(Before(s, j) + i)
        /\ c[4 + s[j]] = CR /\ c[5 + s[j]] = LF
    BY <2>0, ChunkIs
  <2>3. u = v \o c BY <2>0, ChunksStep
  <2>4. Extends(x, u) BY <2>0, ChunksExtend
  <2>5. PICK b : b = Begin(s, j) OBVIOUS
  <2>6. b = Len(v) BY <2>5 DEF Begin
  <2> HIDE DEF u, v, c, x, y
  <2>7. /\ Len(u) = Len(v) + Len(c)
        /\ \A i \in 1..(Len(v) + Len(c)) : u[i] = IF i <= Len(v) THEN v[i] ELSE c[i - Len(v)]
    BY ONLY <2>1, <2>2, <2>3, ConcatProperties
  <2>8. b \in Nat /\ Len(c) \in Nat /\ Len(u) = b + Len(c) /\ Len(u) <= Len(x) BY <2>1, <2>2, <2>4, <2>6, <2>7 DEF Extends
  <2>9. \A i \in 1..Len(c) : e[b + i] = c[i]
    <3> SUFFICES ASSUME NEW i \in 1..Len(c) PROVE e[b + i] = c[i] OBVIOUS
    <3>1. PICK k : k = b + i OBVIOUS
    <3>2. /\ k \in 1..(Len(v) + Len(c)) /\ ~ (k <= Len(v)) /\ k - Len(v) = i /\ k \in 1..Len(u)
          /\ k \in 1..(Len(x) + Len(y)) /\ k <= Len(x)
      BY <1>6, <2>6, <2>8, <3>1, SMTT(30)
    <3>3. u[k] = c[i] BY <2>7, <3>2, Zenon
    <3>4. e[k] = x[k] BY <1>5, <3>2, Zenon
    <3>5. x[k] = u[k] BY <2>4, <3>2 DEF Extends
    <3> QED BY <3>1, <3>3, <3>4, <3>5, Zenon
  <2>14. PICK z : z = s[j] OBVIOUS
  <2>15. z \in Nat /\ Len(c) = 5 + z BY <2>2, <2>14, Zenon
  <2>16. 1 \in 1..Len(c) /\ 2 \in 1..Len(c) /\ 3 \in 1..Len(c) BY ONLY <2>15
  <2>10. e[b + 1] = Size(s[j]) /\ e[b + 2] = CR /\ e[b + 3] = LF BY <2>2, <2>9, <2>16, Zenon
  <2>11. \A i \in 1..s[j] : e[b + 3 + i] = Data(Before(s, j) + i)
    <3> SUFFICES ASSUME NEW i \in 1..s[j] PROVE e[b + 3 + i] = Data(Before(s, j) + i) OBVIOUS
    <3>1. 3 + i \in 1..Len(c) /\ b + (3 + i) = b + 3 + i BY <2>2, <2>8, SMTT(30)
    <3>2. e[b + (3 + i)] = c[3 + i] BY <2>9, <3>1
    <3> QED BY <2>2, <3>1, <3>2
  <2>12. e[b + 4 + s[j]] = CR /\ e[b + 5 + s[j]] = LF
    <3>0. 4 + z \in 1..Len(c) /\ b + (4 + z) = b + 4 + z /\ 5 + z \in 1..Len(c) /\ b + (5 + z) = b + 5 + z
      BY ONLY <2>15, <2>8
    <3>1. 4 + s[j] \in 1..Len(c) /\ b + (4 + s[j]) = b + 4 + s[j] /\ 5 + s[j] \in 1..Len(c) /\ b + (5 + s[j]) = b + 5 + s[j]
      BY <2>14, <3>0, Zenon
    <3>2. e[b + (4 + s[j])] = c[4 + s[j]] /\ e[b + (5 + s[j])] = c[5 + s[j]] BY <2>9, <3>1
    <3> QED BY <2>2, <3>1, <3>2
  <2>13. b + 5 + s[j] + 5 + TailLen(m) <= Len(e)
    <3>1. Len(e) = Len(x) + 5 + TailLen(m) BY <1>6, <1>8 DEF LastLayout
    <3>2. TailLen(m) \in Nat BY DEF TailLen
    <3>3. PICK w : w = TailLen(m) OBVIOUS
    <3>4. w \in Nat /\ Len(e) = Len(x) + 5 + w BY <3>1, <3>2, <3>3, Zenon
    <3>5. b + 5 + z + 5 + w <= Len(e) BY ONLY <1>6, <2>15, <2>8, <3>4
    <3> QED BY <2>14, <3>3, <3>5, Zenon
  <2> QED BY <2>5, <2>10, <2>11, <2>12, <2>13 DEF Layout
<1> QED BY <1>3, <1>4, <1>5, <1>8, <1>9

-----------------------------------------------------------------------------
(* The inductive invariant. *)

(* The bytes of w behind the first a and up to b. *)
Stretch(w, a, b) == SubSeq(w, a + 1, b)

(* The smaller of two numbers. *)
LeastOf(a, b) == IF a < b THEN a ELSE b

(* What is captured of the first k bytes of payload p. *)
Captured(p, k) == [bytes |-> SubSeq(p, 1, LeastOf(k, BodyLimit)), whole |-> k <= BodyLimit]

(* Nothing captured yet. *)
NoCapture == [bytes |-> <<>>, whole |-> TRUE]

(* A parser that has seen nothing. *)
NoParser == [state |-> "size", left |-> 0, pending |-> <<>>]

(* The encoding that the wire follows as long as it does: for a line that *)
(* never ends, the one that begins like it.                               *)
Frame(m) ==
    CASE m.flaw = "long_trailer" -> [m EXCEPT !.sizes = <<>>]
      [] m.flaw = "long_size" -> [m EXCEPT !.sizes = <<1>>]
      [] OTHER -> m

(* How far the wire follows that encoding. *)
Follow(m) ==
    CASE m.flaw = "bad_size" -> 0
      [] m.flaw = "long_size" -> 1
      [] m.flaw = "bad_end" -> 3 + m.sizes[1]
      [] m.flaw = "long_trailer" -> 3
      [] m.flaw = "cut" -> Len(Encoded(m)) - 1
      [] OTHER -> Len(Encoded(m))

(* n is in front of a size line of f, and c the capture up to there. *)
AtSize(f, c, n) ==
    \E j \in 1..(Len(f.sizes) + 1) :
        n = Begin(f.sizes, j) /\ c = Captured(Payload(f), Before(f.sizes, j))

(* n is in the data of a chunk of f with l bytes left. *)
AtData(f, l, c, n) ==
    \E j \in 1..Len(f.sizes) :
        /\ l \in 1..f.sizes[j] /\ n = Begin(f.sizes, j) + 3 + (f.sizes[j] - l)
        /\ c = Captured(Payload(f), Before(f.sizes, j) + (f.sizes[j] - l))

(* n is in front of the terminator of a chunk. *)
AtEnd(f, c, n) ==
    \E j \in 1..Len(f.sizes) :
        n = Begin(f.sizes, j) + 3 + f.sizes[j] /\ c = Captured(Payload(f), Before(f.sizes, j) + f.sizes[j])

(* n is behind the size line of the last chunk. *)
AtTrailers(f, c, n) ==
    n = Begin(f.sizes, Len(f.sizes) + 1) + 3 /\ c = Captured(Payload(f), Total(f.sizes))

(* The parser state st stands at byte n, where the wire is still followed. *)
At(m, st, l, c, n) ==
    /\ n \in 0..Follow(m) /\ l \in Nat
    /\ \/ st = "size" /\ AtSize(Frame(m), c, n)
       \/ st = "data" /\ AtData(Frame(m), l, c, n)
       \/ st = "terminator" /\ AtEnd(Frame(m), c, n)
       \/ st = "trailers" /\ AtTrailers(Frame(m), c, n)

(* The flaws with which a message is still complete. *)
Whole == {"none", "trailer", "extra"}

(* After k bytes the parser stands where its pending bytes begin, and these *)
(* are at most a header's worth.                                            *)
Parsed(m, k, p, c) ==
    /\ Len(p.pending) <= HeaderBytes /\ Len(p.pending) <= k
    /\ p.pending = Stretch(Wire(m), k - Len(p.pending), k)
    /\ At(m, p.state, p.left, c, k - Len(p.pending))

(* What was sent is the head and the wire in order, and nothing behind the *)
(* message.                                                                *)
Headed(m, o) ==
    /\ o \in Seq(ByteSet) /\ Len(o) > 0 /\ Len(o) - 1 <= Len(Wire(m))
    /\ o = <<HeadByte>> \o Stretch(Wire(m), 0, Len(o) - 1)
    /\ m.flaw = "extra" => Len(o) - 1 <= Len(Encoded(m))

(* After k bytes of the body capture, parser and count are those of k bytes. *)
BodyAt(m, k, p, c, n) ==
    /\ m.framing \in {"empty", "invalid"} => k = 0 /\ c = NoCapture /\ n = 0
    /\ m.framing \in {"length", "eof"} => k <= Total(m.sizes) /\ c = Captured(Payload(m), k)
    /\ m.framing = "chunked" => Parsed(m, k, p, c) /\ (m.flaw \in Whole => k < Len(Encoded(m)))
    /\ m.framing \in {"chunked", "eof"} => n = k

(* The bytes in hand are those read and not yet sent. *)
WritingAt(m, o, g, h, p, c, n) ==
    /\ Headed(m, o) /\ g \in Nat /\ g <= Len(Wire(m)) /\ Len(o) - 1 <= g
    /\ h = Stretch(Wire(m), Len(o) - 1, g)
    /\ BodyAt(m, Len(o) - 1, p, c, n)

(* All bytes read were sent, and the body has an end still to come. *)
ReadingAt(m, o, g, p, c, n) ==
    /\ Headed(m, o) /\ g = Len(o) - 1
    /\ BodyAt(m, g, p, c, n)
    /\ m.framing \in {"length", "chunked", "eof"}
    /\ m.framing = "length" => g < Total(m.sizes)

(* The message is complete: its capture is that of the payload, and the *)
(* count that of the bytes the peer accepted.                           *)
DoneAt(m, o, c, n) ==
    /\ Headed(m, o) /\ m.flaw \in Whole
    /\ c = Captured(Payload(m), Total(m.sizes)) /\ n = Len(o) - 1

(* Nothing sent, captured or counted. *)
FreshAt(o, c, n) == o = <<>> /\ c = NoCapture /\ n = 0

(* The bytes in hand are those read behind the head. *)
HeldAt(m, g, h) == g \in Nat /\ g <= Len(Wire(m)) /\ h = Stretch(Wire(m), 0, g)

(* The phases behind the request. *)
RequestDone == {"provider_head", "response_back", "response_write", "response_read",
                "closing", "upgrade_back", "tunnel"}

(* What each phase says of the request. *)
RequestPhase ==
    LET d == "request"
        m == msg[d]
    IN  /\ phase = "agent_head" => FreshAt(out[d], capture[d], counted[d]) /\ got[d] = 0
        /\ phase \in {"request_out", "upgrade_out"} =>
              FreshAt(out[d], capture[d], counted[d]) /\ HeldAt(m, got[d], hand) /\ parser = NoParser
        /\ phase = "upgrade_out" => upgrade
        /\ phase \in {"continue", "request_write"} =>
              WritingAt(m, out[d], got[d], hand, parser, capture[d], counted[d])
        /\ phase = "request_read" => ReadingAt(m, out[d], got[d], parser, capture[d], counted[d])
        /\ phase \in RequestDone => DoneAt(m, out[d], capture[d], counted[d])

(* What each phase says of the response. *)
ResponsePhase ==
    LET d == "response"
        m == msg[d]
    IN  /\ phase \in {"agent_head", "request_out", "upgrade_out", "continue", "request_write", "request_read",
                      "provider_head", "response_back", "upgrade_back"} => FreshAt(out[d], capture[d], counted[d])
        /\ phase \in {"agent_head", "request_out", "upgrade_out", "continue", "request_write", "request_read",
                      "provider_head"} => got[d] = 0
        /\ phase = "response_back" => HeldAt(m, got[d], hand) /\ parser = NoParser
        /\ phase = "response_write" => WritingAt(m, out[d], got[d], hand, parser, capture[d], counted[d])
        /\ phase = "response_read" => ReadingAt(m, out[d], got[d], parser, capture[d], counted[d])
        /\ phase = "closing" => DoneAt(m, out[d], capture[d], counted[d])
        /\ phase \in {"response_back", "response_write", "response_read", "closing"} => ~accepted
        /\ phase \in {"upgrade_back", "tunnel"} => accepted

(* The messages are bodies, an upgrade has none, and an accepted one is *)
(* intact.                                                              *)
ScriptOK ==
    /\ msg \in [Directions -> {m \in RequestBodies \cup ResponseBodies : IsBody(m)}]
    /\ upgrade => msg["request"].framing = "empty"
    /\ accepted => \A d \in Directions : msg[d].flaw = "none"
    /\ tunnel \in [Directions -> Seq({"text", "ping", "close"})]

(* Types, the three bounds on what is held, and in every phase what was *)
(* sent.                                                                *)
Typed ==
    /\ phase \in Phases /\ hand \in Seq(ByteSet)
    /\ got \in [Directions -> Nat] /\ out \in [Directions -> Seq(ByteSet)] /\ counted \in [Directions -> Nat]
    /\ capture \in [Directions -> [bytes : Seq(ByteSet), whole : BOOLEAN]]
    /\ parser \in [state : {"size", "data", "terminator", "trailers"}, left : Nat, pending : Seq(ByteSet)]
    /\ agentError \in BOOLEAN /\ continued \in BOOLEAN /\ gone \subseteq {"agent", "provider"}
    /\ \A d \in Directions :
          /\ got[d] <= Len(Wire(msg[d])) /\ Len(capture[d].bytes) <= BodyLimit
          /\ out[d] = <<>> \/ Headed(msg[d], out[d])
    /\ Len(parser.pending) <= HeaderBytes

(* Sequence numbers rise. *)
Rising(s) == \A i, j \in 1..Len(s) : i < j => s[i].sequence < s[j].sequence

(* What can be offered to the hook. *)
Events == [what : {"exchange", "message"}, direction : Directions, item : Nat, sequence : Nat]

(* Message i of direction d was offered. *)
Offers(d, i) == \E e \in offered : e.direction = d /\ e.item = i

(* The queue is bounded and in order, every text message taken was offered, *)
(* and nothing is offered before an exchange has ended or was upgraded.     *)
Hooked ==
    /\ queue \in Seq(Events) /\ observed \in Seq(Events) /\ offered \subseteq Events /\ sequence \in Nat
    /\ Len(queue) <= QueueCapacity
    /\ Rising(observed \o queue)
    /\ \A i \in 1..Len(observed \o queue) : (observed \o queue)[i].sequence <= sequence
    /\ taken \in [Directions -> Nat] /\ passed \in [Directions -> Nat]
    /\ \A d \in Directions : /\ passed[d] <= taken[d] /\ taken[d] <= Len(tunnel[d])
                             /\ \A i \in 1..taken[d] : tunnel[d][i] = "text" => Offers(d, i)
    /\ phase \notin Ended \cup {"tunnel"} => observed \o queue = <<>> /\ offered = {} /\ sequence = 0
    /\ phase = "tunnel" => Exchange \in offered

(* An exchange that was offered is complete, and a complete one was offered. *)
Submitted ==
    /\ Exchange \in offered /\ ~accepted =>
          /\ phase \in Ended
          /\ \A d \in Directions : DoneAt(msg[d], out[d], capture[d], counted[d])
    /\ CompleteIsObserved

(* The inductive invariant of the relay. *)
RelayInv == ScriptOK /\ Typed /\ RequestPhase /\ ResponsePhase /\ Hooked /\ Submitted

-----------------------------------------------------------------------------
(* Stretches of the wire. *)

(* a and b are places of w, in order. *)
Fits(w, a, b) == w \in Seq(ByteSet) /\ a \in Nat /\ b \in Nat /\ a <= b /\ b <= Len(w)

(* Type, length and elements of a stretch. *)
LEMMA StretchIs ==
    ASSUME NEW w, NEW a, NEW b, Fits(w, a, b)
    PROVE  /\ Stretch(w, a, b) \in Seq(ByteSet) /\ Len(Stretch(w, a, b)) = b - a /\ b - a \in Nat
           /\ \A i \in 1..(b - a) : Stretch(w, a, b)[i] = w[a + i]
<1>1. w \in Seq(ByteSet) /\ a \in Nat /\ b \in Nat /\ a <= b /\ b <= Len(w) BY DEF Fits
<1>2. a + 1 \in Int /\ b \in Int /\ \A i \in (a + 1)..b : w[i] \in ByteSet BY <1>1
<1>3. PICK x : x = a + 1 OBVIOUS
<1>4. PICK s : s = SubSeq(w, x, b) OBVIOUS
<1>5. /\ s \in Seq(ByteSet) /\ Len(s) = IF x <= b THEN b - x + 1 ELSE 0
      /\ \A i \in 1..(b - x + 1) : s[i] = w[x + i - 1]
  <2>1. x \in Int /\ b \in Int /\ \A i \in x..b : w[i] \in ByteSet BY <1>2, <1>3
  <2> QED BY ONLY <2>1, <1>4, SubSeqProperties
<1>6. b - x + 1 = b - a /\ \A i \in 1..(b - a) : x + i - 1 = a + i BY <1>1, <1>3
<1>7. Len(s) = b - a /\ b - a \in Nat BY <1>1, <1>3, <1>5
<1>8. ASSUME NEW i \in 1..(b - a) PROVE s[i] = w[a + i] BY <1>5, <1>6
<1>9. s = Stretch(w, a, b) BY <1>3, <1>4, Zenon DEF Stretch
<1> QED BY <1>5, <1>7, <1>8, <1>9, Zenon

(* t is the stretch of w from a to b, element by element. *)
IsStretch(t, w, a, b) == t \in Seq(ByteSet) /\ Len(t) = b - a /\ b - a \in Nat /\ \A i \in 1..(b - a) : t[i] = w[a + i]

(* A stretch is that, as one fact. *)
LEMMA StretchOf == ASSUME NEW w, NEW a, NEW b, Fits(w, a, b) PROVE IsStretch(Stretch(w, a, b), w, a, b)
BY StretchIs DEF IsStretch

(* Lists of bytes with the same elements are equal. *)
LEMMA SameSeq ==
    ASSUME NEW s \in Seq(ByteSet), NEW t \in Seq(ByteSet), NEW n, Len(s) = n, Len(t) = n, \A i \in 1..n : s[i] = t[i]
    PROVE  s = t
BY SeqEqual

(* The front and the rest of a stretch are stretches. *)
LEMMA StretchPart ==
    ASSUME NEW w, NEW a, NEW b, Fits(w, a, b), NEW n \in Nat, n <= b - a
    PROVE  SubSeq(Stretch(w, a, b), 1, n) = Stretch(w, a, a + n) /\ Drop(Stretch(w, a, b), n) = Stretch(w, a + n, b)
<1>1. w \in Seq(ByteSet) /\ a \in Nat /\ b \in Nat /\ a <= b /\ b <= Len(w) BY DEF Fits
<1>2. PICK s : s = Stretch(w, a, b) OBVIOUS
<1>3. s \in Seq(ByteSet) /\ Len(s) = b - a /\ b - a \in Nat /\ \A i \in 1..(b - a) : s[i] = w[a + i] BY <1>2, StretchIs
<1>4. PICK c : c = a + n OBVIOUS
<1>5. c \in Nat /\ Fits(w, a, c) /\ Fits(w, c, b) /\ Fits(s, 0, n) /\ Fits(s, n, Len(s)) /\ c - a = n /\ b - c = b - a - n
  BY <1>1, <1>3, <1>4 DEF Fits
<1>6. Stretch(s, 0, n) = Stretch(w, a, c)
  <2>1. Stretch(s, 0, n) \in Seq(ByteSet) /\ Len(Stretch(s, 0, n)) = n - 0 /\ \A i \in 1..(n - 0) : Stretch(s, 0, n)[i] = s[0 + i]
    <3>1. IsStretch(Stretch(s, 0, n), s, 0, n) BY <1>5, StretchOf, Zenon
    <3> QED BY <3>1, Zenon DEF IsStretch
  <2>2. Stretch(w, a, c) \in Seq(ByteSet) /\ Len(Stretch(w, a, c)) = c - a /\ \A i \in 1..(c - a) : Stretch(w, a, c)[i] = w[a + i]
    <3>1. IsStretch(Stretch(w, a, c), w, a, c) BY <1>5, StretchOf, Zenon
    <3> QED BY <3>1, Zenon DEF IsStretch
  <2>3. \A i \in 1..n : Stretch(s, 0, n)[i] = Stretch(w, a, c)[i]
    <3> SUFFICES ASSUME NEW i \in 1..n PROVE Stretch(s, 0, n)[i] = Stretch(w, a, c)[i] OBVIOUS
    <3>1. i \in 1..(n - 0) /\ 0 + i = i /\ i \in 1..(c - a) /\ i \in 1..(b - a) BY <1>3, <1>5
    <3> QED BY <1>3, <2>1, <2>2, <3>1
  <2>4. n - 0 = n BY <1>5
  <2> QED BY <1>5, <2>1, <2>2, <2>3, <2>4, SameSeq
<1>7. Stretch(s, n, Len(s)) = Stretch(w, c, b)
  <2> DEFINE k == b - c
  <2>1. Stretch(s, n, Len(s)) \in Seq(ByteSet) /\ Len(Stretch(s, n, Len(s))) = Len(s) - n
        /\ \A i \in 1..(Len(s) - n) : Stretch(s, n, Len(s))[i] = s[n + i]
    <3>1. IsStretch(Stretch(s, n, Len(s)), s, n, Len(s)) BY <1>5, StretchOf, Zenon
    <3> QED BY <3>1, Zenon DEF IsStretch
  <2>2. Stretch(w, c, b) \in Seq(ByteSet) /\ Len(Stretch(w, c, b)) = b - c /\ \A i \in 1..(b - c) : Stretch(w, c, b)[i] = w[c + i]
    BY <1>5, StretchOf DEF IsStretch
  <2>3. Len(s) - n = k BY <1>3, <1>5
  <2>4. \A i \in 1..k : Stretch(s, n, Len(s))[i] = Stretch(w, c, b)[i] BY <1>1, <1>3, <1>4, <1>5, <2>1, <2>2
  <2> HIDE DEF k
  <2>5. Len(Stretch(s, n, Len(s))) = k /\ Len(Stretch(w, c, b)) = k BY <2>1, <2>2, <2>3 DEF k
  <2> QED BY <2>1, <2>2, <2>4, <2>5, SameSeq
<1>8. Stretch(s, 0, n) = SubSeq(s, 1, n)
  <2>1. 0 + 1 = 1 OBVIOUS
  <2> QED BY <2>1, Zenon DEF Stretch
<1>9. Drop(s, n) = Stretch(s, n, Len(s)) BY Zenon DEF Drop, Stretch
<1> QED BY <1>2, <1>4, <1>6, <1>7, <1>8, <1>9, Zenon

(* Neighbouring stretches make one. *)
LEMMA StretchCat ==
    ASSUME NEW w, NEW a, NEW b, NEW c, Fits(w, a, b), Fits(w, b, c)
    PROVE  Stretch(w, a, b) \o Stretch(w, b, c) = Stretch(w, a, c) /\ Fits(w, a, c)
<1>1. w \in Seq(ByteSet) /\ a \in Nat /\ b \in Nat /\ c \in Nat /\ a <= b /\ b <= c /\ c <= Len(w) BY DEF Fits
<1>2. PICK s : s = Stretch(w, a, b) OBVIOUS
<1>3. PICK t : t = Stretch(w, b, c) OBVIOUS
<1>4. PICK u : u = Stretch(w, a, c) OBVIOUS
<1>5. Fits(w, a, c) BY <1>1 DEF Fits
<1>6. s \in Seq(ByteSet) /\ Len(s) = b - a /\ \A i \in 1..(b - a) : s[i] = w[a + i] BY <1>2, StretchIs
<1>7. t \in Seq(ByteSet) /\ Len(t) = c - b /\ \A i \in 1..(c - b) : t[i] = w[b + i] BY <1>3, StretchIs
<1>8. u \in Seq(ByteSet) /\ Len(u) = c - a /\ \A i \in 1..(c - a) : u[i] = w[a + i] BY <1>4, <1>5, StretchIs
<1>9. /\ s \o t \in Seq(ByteSet) /\ Len(s \o t) = Len(s) + Len(t)
      /\ \A i \in 1..(Len(s) + Len(t)) : (s \o t)[i] = IF i <= Len(s) THEN s[i] ELSE t[i - Len(s)]
  BY ONLY <1>6, <1>7, ConcatProperties
<1>10. Len(s) + Len(t) = c - a BY <1>1, <1>6, <1>7
<1>11. ASSUME NEW i \in 1..(c - a) PROVE (s \o t)[i] = u[i]
  <2>0. i \in 1..(Len(s) + Len(t)) BY <1>10
  <2>1. CASE i <= Len(s)
    <3>1. i \in 1..(b - a) BY <2>1, <1>1, <1>6
    <3>2. (s \o t)[i] = s[i] BY <1>9, <2>0, <2>1
    <3> QED BY <3>1, <3>2, <1>6, <1>8
  <2>2. CASE ~ (i <= Len(s))
    <3>0. PICK k : k = i - Len(s) OBVIOUS
    <3>1. k \in 1..(c - b) /\ b + k = a + i BY <2>2, <1>1, <1>6, <3>0
    <3>2. (s \o t)[i] = t[k] BY <1>9, <2>0, <2>2, <3>0, Zenon
    <3>3. t[k] = w[b + k] BY <1>7, <3>1
    <3>4. u[i] = w[a + i] BY <1>8
    <3> QED BY <3>1, <3>2, <3>3, <3>4, Zenon
  <2> QED BY <2>1, <2>2
<1>12. s \o t = u
  <2>1. Len(s \o t) = c - a BY <1>9, <1>10
  <2>2. \A i \in 1..(c - a) : (s \o t)[i] = u[i] BY <1>11
  <2> QED BY <1>8, <1>9, <2>1, <2>2, SameSeq, Zenon
<1> QED BY <1>2, <1>3, <1>4, <1>5, <1>12, Zenon

(* w and e agree on their first b bytes. *)
Alike(w, e, b) == \A i \in 1..b : w[i] = e[i]

(* Then they have the same stretches there. *)
LEMMA SameStretch ==
    ASSUME NEW w, NEW e, NEW a, NEW b, Fits(w, a, b), Fits(e, a, b), Alike(w, e, b)
    PROVE  Stretch(w, a, b) = Stretch(e, a, b)
<1>1. a \in Nat /\ b \in Nat /\ a <= b BY DEF Fits
<1>2. PICK s : s = Stretch(w, a, b) OBVIOUS
<1>3. PICK t : t = Stretch(e, a, b) OBVIOUS
<1>4. s \in Seq(ByteSet) /\ Len(s) = b - a /\ \A i \in 1..(b - a) : s[i] = w[a + i] BY <1>2, StretchIs
<1>5. t \in Seq(ByteSet) /\ Len(t) = b - a /\ \A i \in 1..(b - a) : t[i] = e[a + i] BY <1>3, StretchIs
<1>6. ASSUME NEW i \in 1..(b - a) PROVE s[i] = t[i] BY <1>1, <1>4, <1>5 DEF Alike
<1>7. s = t BY <1>4, <1>5, <1>6, SameSeq
<1> QED BY <1>2, <1>3, <1>7, Zenon

(* A prefix sent and the stretch behind it are a longer prefix. *)
LEMMA HeadGrows ==
    ASSUME NEW w, NEW k, NEW g, Fits(w, k, g)
    PROVE  /\ (<<HeadByte>> \o Stretch(w, 0, k)) \o Stretch(w, k, g) = <<HeadByte>> \o Stretch(w, 0, g)
           /\ <<HeadByte>> \o Stretch(w, 0, g) \in Seq(ByteSet) /\ Len(<<HeadByte>> \o Stretch(w, 0, g)) = g + 1
<1>1. w \in Seq(ByteSet) /\ k \in Nat /\ g \in Nat /\ k <= g /\ g <= Len(w) BY DEF Fits
<1>2. Fits(w, 0, k) /\ Fits(w, 0, g) BY <1>1 DEF Fits
<1>3. <<HeadByte>> \in Seq(ByteSet) /\ Len(<<HeadByte>>) = 1 BY ByteKinds
<1>4. PICK h : h = <<HeadByte>> OBVIOUS
<1>5. PICK s : s = Stretch(w, 0, k) OBVIOUS
<1>6. PICK t : t = Stretch(w, k, g) OBVIOUS
<1>7. PICK u : u = Stretch(w, 0, g) OBVIOUS
<1>8. h \in Seq(ByteSet) /\ Len(h) = 1 BY <1>3, <1>4
<1>9. s \in Seq(ByteSet) /\ t \in Seq(ByteSet) /\ u \in Seq(ByteSet) /\ Len(u) = g - 0 BY <1>2, <1>5, <1>6, <1>7, StretchIs
<1>10. s \o t = u BY <1>2, <1>5, <1>6, <1>7, StretchCat
<1>11. (h \o s) \o t = h \o (s \o t) BY ONLY <1>8, <1>9, ConcatAssociative, SMTT(30)
<1>12. h \o u \in Seq(ByteSet) /\ Len(h \o u) = Len(h) + Len(u) BY ONLY <1>8, <1>9, ConcatProperties, Zenon
<1>13. Len(h) + Len(u) = g + 1 BY <1>1, <1>8, <1>9
<1> QED BY <1>4, <1>5, <1>6, <1>7, <1>10, <1>11, <1>12, <1>13, Zenon

(* The first n bytes of a stretch, and the rest of it, are stretches. *)
IsPart(w, a, b, n) ==
    SubSeq(Stretch(w, a, b), 1, n) = Stretch(w, a, a + n) /\ Drop(Stretch(w, a, b), n) = Stretch(w, a + n, b)

(* n is at most the length of the stretch. *)
InPart(w, a, b, n) == Fits(w, a, b) /\ n \in Nat /\ n <= b - a

(* StretchPart as one fact. *)
LEMMA PartOf == ASSUME NEW w, NEW a, NEW b, NEW n, InPart(w, a, b, n) PROVE IsPart(w, a, b, n)
<1>1. Fits(w, a, b) /\ n \in Nat /\ n <= b - a BY DEF InPart
<1> QED BY <1>1, StretchPart DEF IsPart

(* The limits are numbers, a line of the encoding fits into the header limit *)
(* and the queue has room.                                                   *)
LEMMA LimitIs == BodyLimit \in Nat /\ HeaderBytes \in Nat /\ HeaderBytes >= 5 /\ QueueCapacity \in Nat /\ QueueCapacity > 0
BY HttpRelayAssumption

(* Type, bound and value of a capture. *)
LEMMA CapturedIs ==
    ASSUME NEW p \in Seq(ByteSet), NEW k, Fits(p, 0, k)
    PROVE  /\ Captured(p, k).bytes \in Seq(ByteSet) /\ Len(Captured(p, k).bytes) <= BodyLimit
           /\ Captured(p, k) \in [bytes : Seq(ByteSet), whole : BOOLEAN]
           /\ k <= BodyLimit => Captured(p, k) = [bytes |-> Stretch(p, 0, k), whole |-> TRUE]
           /\ k > BodyLimit => Captured(p, k) = [bytes |-> Stretch(p, 0, BodyLimit), whole |-> FALSE]
<1>1. k \in Nat /\ k <= Len(p) /\ BodyLimit \in Nat BY LimitIs DEF Fits
<1>2. PICK n : n = LeastOf(k, BodyLimit) OBVIOUS
<1>3. n \in Nat /\ n <= k /\ n <= BodyLimit /\ n <= Len(p) /\ (k <= BodyLimit => n = k) /\ (k > BodyLimit => n = BodyLimit)
  BY <1>1, <1>2 DEF LeastOf
<1>4. Fits(p, 0, n) BY <1>3 DEF Fits
<1>5. Stretch(p, 0, n) \in Seq(ByteSet) /\ Len(Stretch(p, 0, n)) = n - 0 BY <1>4, StretchIs
<1>6. SubSeq(p, 1, n) = Stretch(p, 0, n)
  <2>1. 0 + 1 = 1 OBVIOUS
  <2> QED BY <2>1, Zenon DEF Stretch
<1>7. Captured(p, k) = [bytes |-> Stretch(p, 0, n), whole |-> k <= BodyLimit] BY <1>2, <1>6, Zenon DEF Captured
<1>8. Len(Stretch(p, 0, n)) <= BodyLimit BY <1>3, <1>5
<1>9. (k <= BodyLimit) \in BOOLEAN /\ (k <= BodyLimit => (k <= BodyLimit) = TRUE) /\ (k > BodyLimit => (k <= BodyLimit) = FALSE) BY <1>1
<1>10. Captured(p, k).bytes = Stretch(p, 0, n) BY <1>7
<1>11. CASE k <= BodyLimit
  <2>1. n = k /\ (k <= BodyLimit) = TRUE /\ ~ (k > BodyLimit) BY <1>1, <1>3, <1>11
  <2>2. Captured(p, k) = [bytes |-> Stretch(p, 0, k), whole |-> TRUE] BY <1>7, <2>1, Zenon
  <2>3. Stretch(p, 0, k) \in Seq(ByteSet) BY <1>5, <2>1
  <2>4. [bytes |-> Stretch(p, 0, k), whole |-> TRUE] \in [bytes : Seq(ByteSet), whole : BOOLEAN] BY <2>3
  <2> QED BY <1>5, <1>8, <1>10, <2>1, <2>2, <2>4, Zenon
<1>12. CASE ~ (k <= BodyLimit)
  <2>1. n = BodyLimit /\ (k <= BodyLimit) = FALSE /\ k > BodyLimit BY <1>1, <1>3, <1>12
  <2>2. Captured(p, k) = [bytes |-> Stretch(p, 0, BodyLimit), whole |-> FALSE] BY <1>7, <2>1, Zenon
  <2>3. Stretch(p, 0, BodyLimit) \in Seq(ByteSet) BY <1>5, <2>1
  <2>4. [bytes |-> Stretch(p, 0, BodyLimit), whole |-> FALSE] \in [bytes : Seq(ByteSet), whole : BOOLEAN] BY <2>3
  <2> QED BY <1>5, <1>8, <1>10, <1>12, <2>1, <2>2, <2>4, Zenon
<1> QED BY <1>11, <1>12

(* append_body_for_capture on the next stretch is the capture of the longer *)
(* payload, wherever the limit falls.                                       *)
LEMMA CaptureGrows ==
    ASSUME NEW p \in Seq(ByteSet), NEW k, NEW g, Fits(p, k, g)
    PROVE  AppendBody(Captured(p, k), Stretch(p, k, g)) = Captured(p, g)
<1>1. k \in Nat /\ g \in Nat /\ k <= g /\ g <= Len(p) /\ BodyLimit \in Nat BY LimitIs DEF Fits
<1>2. Fits(p, 0, k) /\ Fits(p, 0, g) BY <1>1 DEF Fits
<1>3. PICK c : c = Captured(p, k) OBVIOUS
<1>4. PICK h : h = Stretch(p, k, g) OBVIOUS
<1>5. PICK z : z = Captured(p, g) OBVIOUS
<1>6. /\ k <= BodyLimit => c = [bytes |-> Stretch(p, 0, k), whole |-> TRUE]
      /\ k > BodyLimit => c = [bytes |-> Stretch(p, 0, BodyLimit), whole |-> FALSE]
  BY <1>2, <1>3, CapturedIs
<1>7. /\ g <= BodyLimit => z = [bytes |-> Stretch(p, 0, g), whole |-> TRUE]
      /\ g > BodyLimit => z = [bytes |-> Stretch(p, 0, BodyLimit), whole |-> FALSE]
  BY <1>2, <1>5, CapturedIs
<1>8. Len(h) = g - k BY <1>4, StretchIs
<1>9. Len(Stretch(p, 0, k)) = k - 0 BY <1>2, StretchIs
<1>10. Stretch(p, 0, k) \o h = Stretch(p, 0, g) BY <1>2, <1>4, StretchCat
<1>11. CASE k > BodyLimit
  <2>1. c.whole = FALSE BY <1>6, <1>11
  <2>2. AppendBody(c, h) = c BY <2>1 DEF AppendBody
  <2>3. g > BodyLimit BY <1>1, <1>11
  <2>4. c = z BY <1>6, <1>7, <1>11, <2>3
  <2> QED BY <1>3, <1>4, <1>5, <2>2, <2>4, Zenon
<1>12. CASE k <= BodyLimit
  <2>1. c.whole = TRUE /\ c.bytes = Stretch(p, 0, k) BY <1>6, <1>12
  <2>2. Len(c.bytes) + Len(h) = g BY <1>1, <1>8, <1>9, <2>1
  <2>3. c.bytes \o h = Stretch(p, 0, g) BY <1>10, <2>1
  <2>4. CASE g > BodyLimit
    <3>1. AppendBody(c, h) = [bytes |-> SubSeq(Stretch(p, 0, g), 1, BodyLimit), whole |-> FALSE]
      BY <2>1, <2>2, <2>3, <2>4, Zenon DEF AppendBody
    <3>2. BodyLimit <= g - 0 /\ 0 + BodyLimit = BodyLimit BY <1>1, <2>4
    <3>3. SubSeq(Stretch(p, 0, g), 1, BodyLimit) = Stretch(p, 0, 0 + BodyLimit)
      <4>1. InPart(p, 0, g, BodyLimit) BY <1>1, <1>2, <3>2 DEF InPart
      <4>2. IsPart(p, 0, g, BodyLimit) BY <4>1, PartOf, Zenon
      <4> QED BY <4>2, Zenon DEF IsPart
    <3> QED BY <1>3, <1>4, <1>5, <1>7, <2>4, <3>1, <3>2, <3>3, Zenon
  <2>5. CASE ~ (g > BodyLimit)
    <3>1. AppendBody(c, h) = [bytes |-> Stretch(p, 0, g), whole |-> TRUE]
      BY <2>1, <2>2, <2>3, <2>5, Zenon DEF AppendBody
    <3>2. g <= BodyLimit BY <1>1, <2>5
    <3> QED BY <1>3, <1>4, <1>5, <1>7, <3>1, <3>2, Zenon
  <2> QED BY <2>4, <2>5
<1> QED BY <1>1, <1>11, <1>12

(* The payload has as many bytes as the chunks say. *)
LEMMA PayloadIs ==
    ASSUME NEW m, m.sizes \in Seq(Nat)
    PROVE  /\ Payload(m) \in Seq(ByteSet) /\ Len(Payload(m)) = Total(m.sizes) /\ Total(m.sizes) \in Nat
           /\ \A i \in 1..Total(m.sizes) : Payload(m)[i] = Data(i)
<1>1. PICK n : n = Total(m.sizes) OBVIOUS
<1>2. n \in Nat BY <1>1, TotalSteps
<1>3. PICK p : p = [i \in 1..n |-> Data(i)] OBVIOUS
<1>4. \A i \in 1..n : Data(i) \in ByteSet BY <1>2, ByteKinds
<1>5. p \in Seq(ByteSet) /\ Len(p) = n /\ \A i \in 1..n : p[i] = Data(i) BY <1>2, <1>3, <1>4
<1>6. Payload(m) = p BY <1>1, <1>3, Zenon DEF Payload
<1> QED BY <1>1, <1>2, <1>5, <1>6, Zenon

(* An encoding is a list of bytes; without chunks it is the payload. *)
LEMMA EncodedType ==
    ASSUME NEW m, m.sizes \in Seq(Nat)
    PROVE  /\ Encoded(m) \in Seq(ByteSet) /\ Len(Encoded(m)) \in Nat
           /\ m.framing = "chunked" => Len(Encoded(m)) >= 5
           /\ m.framing # "chunked" => Encoded(m) = Payload(m)
<1>1. CASE m.framing = "chunked"
  <2>1. Encoded(m) \in Seq(ByteSet) /\ LastLayout(m, Encoded(m)) BY <1>1, EncodedLayout
  <2>2. PICK b : b = Begin(m.sizes, Len(m.sizes) + 1) OBVIOUS
  <2>3. PICK l : l = Len(m.sizes) + 1 OBVIOUS
  <2>4. l \in 1..(Len(m.sizes) + 1) BY <2>3
  <2>5. b \in Nat BY <2>2, <2>3, <2>4, BeginSteps
  <2>6. Len(Encoded(m)) = b + 5 + TailLen(m) BY <2>1, <2>2, Zenon DEF LastLayout
  <2>7. TailLen(m) \in Nat BY DEF TailLen
  <2>8. Len(Encoded(m)) >= 5 BY <2>5, <2>6, <2>7
  <2> QED BY <1>1, <2>1, <2>8
<1>2. CASE m.framing # "chunked" BY <1>2, PayloadIs DEF Encoded
<1> QED BY <1>1, <1>2

-----------------------------------------------------------------------------
(* The wire of a body, whole or broken. *)

(* What can be wrong with a body. *)
Flaws == {"none", "extra", "cut", "trailer", "bad_size", "bad_end", "long_size", "long_trailer"}

(* What IsBody says, unfolded. *)
LEMMA BodyIs ==
    ASSUME NEW m, IsBody(m)
    PROVE  /\ m.sizes \in Seq(Nat) /\ m.framing \in {"empty", "length", "chunked", "eof", "invalid"} /\ m.flaw \in Flaws
           /\ m.flaw \in ChunkFlaws => m.framing = "chunked"
           /\ m.flaw = "extra" => m.framing \in {"empty", "length", "chunked"}
           /\ m.flaw = "cut" => m.framing \in {"length", "chunked"}
           /\ m.framing = "empty" => m.sizes = <<>>
           /\ m.framing = "chunked" => \A j \in 1..Len(m.sizes) : m.sizes[j] > 0
           /\ m.framing = "length" /\ m.flaw = "cut" => Total(m.sizes) > 0
           /\ m.flaw = "bad_end" => m.sizes # <<>>
<1>1. DOMAIN FlawsOf = {"empty", "length", "chunked", "eof", "invalid"} BY DEF FlawsOf
<1>2. /\ FlawsOf["empty"] = {"none", "extra"} /\ FlawsOf["length"] = {"none", "extra", "cut"}
      /\ FlawsOf["chunked"] = {"none", "extra", "cut"} \cup ChunkFlaws
      /\ FlawsOf["eof"] = {"none"} /\ FlawsOf["invalid"] = {"none"}
  BY DEF FlawsOf
<1>3. /\ m \in [framing : DOMAIN FlawsOf, sizes : Seq(Nat), flaw : {"none", "extra", "cut"} \cup ChunkFlaws]
      /\ m.flaw \in FlawsOf[m.framing]
      /\ m.framing = "empty" => m.sizes = <<>>
      /\ m.framing = "chunked" => \A j \in 1..Len(m.sizes) : m.sizes[j] > 0
      /\ m.framing = "length" /\ m.flaw = "cut" => Total(m.sizes) > 0
      /\ m.flaw = "bad_end" => m.sizes # <<>>
  BY Zenon DEF IsBody
<1>4. m.sizes \in Seq(Nat) /\ m.framing \in DOMAIN FlawsOf /\ m.flaw \in {"none", "extra", "cut"} \cup ChunkFlaws BY <1>3
<1>5. m.flaw \in Flaws BY <1>4 DEF Flaws, ChunkFlaws
<1>6. /\ m.flaw \in ChunkFlaws => m.framing = "chunked"
      /\ m.flaw = "extra" => m.framing \in {"empty", "length", "chunked"}
      /\ m.flaw = "cut" => m.framing \in {"length", "chunked"} BY <1>1, <1>2, <1>3, <1>4 DEF ChunkFlaws
<1> QED BY <1>1, <1>3, <1>4, <1>5, <1>6

(* A line that never ends is longer than the header limit and has no end of *)
(* line.                                                                    *)
LEMMA EndlessIs == Endless \in Seq(ByteSet) /\ Len(Endless) = HeaderBytes + 2 /\ \A i \in 1..(HeaderBytes + 2) : Endless[i] = Junk
<1>1. HeaderBytes + 2 \in Nat /\ Junk \in ByteSet BY LimitIs, ByteKinds
<1> QED BY <1>1 DEF Endless

(* The same behind a beginning h. *)
LEMMA LongWire ==
    ASSUME NEW h \in Seq(ByteSet)
    PROVE  /\ h \o Endless \in Seq(ByteSet) /\ Len(h \o Endless) = Len(h) + HeaderBytes + 2
           /\ \A i \in 1..Len(h) : (h \o Endless)[i] = h[i]
           /\ \A i \in (Len(h) + 1)..(Len(h) + HeaderBytes + 2) : (h \o Endless)[i] = Junk
<1>1. PICK t : t = Endless OBVIOUS
<1>2. t \in Seq(ByteSet) /\ Len(t) = HeaderBytes + 2 /\ \A i \in 1..(HeaderBytes + 2) : t[i] = Junk BY <1>1, EndlessIs
<1>3. PICK w : w = h \o t OBVIOUS
<1>4. /\ w \in Seq(ByteSet) /\ Len(w) = Len(h) + Len(t)
      /\ \A i \in 1..(Len(h) + Len(t)) : w[i] = IF i <= Len(h) THEN h[i] ELSE t[i - Len(h)]
  BY ONLY <1>2, <1>3, ConcatProperties
<1>5. Len(h) \in Nat /\ HeaderBytes \in Nat /\ Len(t) = HeaderBytes + 2 BY <1>2, LimitIs
<1>6. ASSUME NEW i \in 1..Len(h) PROVE w[i] = h[i] BY <1>4, <1>5
<1>7. ASSUME NEW i \in (Len(h) + 1)..(Len(h) + HeaderBytes + 2) PROVE w[i] = Junk BY <1>2, <1>4, <1>5
<1>8. Len(w) = Len(h) + HeaderBytes + 2 BY <1>4, <1>5
<1> QED BY <1>1, <1>3, <1>4, <1>6, <1>7, <1>8, Zenon

(* How wire w differs from encoding e, by flaw. *)
OnWire(m, w, e) ==
    /\ w \in Seq(ByteSet) /\ e \in Seq(ByteSet)
    /\ m.flaw \in {"none", "trailer"} => w = e
    /\ m.flaw = "extra" => Len(w) = Len(e) + 1 /\ Alike(w, e, Len(e)) /\ w[Len(e) + 1] = Junk
    /\ m.flaw = "cut" => Len(e) > 0 /\ Len(w) = Len(e) - 1 /\ Alike(w, e, Len(e) - 1)
    /\ m.flaw = "bad_size" => Len(w) = Len(e) /\ w[1] = Junk
    /\ m.flaw = "bad_end" => /\ m.sizes[1] \in Nat /\ 4 + m.sizes[1] <= Len(e)
                             /\ Len(w) = Len(e) /\ Alike(w, e, 3 + m.sizes[1]) /\ w[4 + m.sizes[1]] = Junk
    /\ m.flaw = "long_size" => w = <<Size(1)>> \o Endless
    /\ m.flaw = "long_trailer" => w = <<Size(0), CR, LF>> \o Endless

(* The wire of a body differs from its encoding so. *)
LEMMA WireIs == ASSUME NEW m, IsBody(m) PROVE OnWire(m, Wire(m), Encoded(m))
<1>1. PICK e : e = Encoded(m) OBVIOUS
<1>2. PICK w : w = Wire(m) OBVIOUS
<1>0. m.sizes \in Seq(Nat) /\ m.flaw \in Flaws /\ (m.flaw \in ChunkFlaws => m.framing = "chunked") BY BodyIs
<1>3. e \in Seq(ByteSet) /\ Len(e) \in Nat /\ (m.framing = "chunked" => Len(e) >= 5) /\ (m.framing # "chunked" => e = Payload(m))
  BY <1>0, <1>1, EncodedType
<1>4. Junk \in ByteSet /\ CR \in ByteSet /\ LF \in ByteSet /\ Size(0) \in ByteSet /\ Size(1) \in ByteSet BY ByteKinds
<1>5. CASE m.flaw \in {"none", "trailer"} BY <1>1, <1>2, <1>3, <1>5 DEF Wire, OnWire
<1>6. CASE m.flaw = "extra" BY <1>1, <1>2, <1>3, <1>4, <1>6, AppendProperties DEF Wire, OnWire, Alike
<1>7. CASE m.flaw = "cut"
  <2>1. w = Front(e) BY <1>1, <1>2, <1>7 DEF Wire
  <2>2. Len(e) > 0 BY <1>0, <1>3, <1>7, BodyIs, PayloadIs
  <2>3. PICK k : k = Len(e) - 1 OBVIOUS
  <2>4. k \in Nat /\ Fits(e, 0, k) /\ k - 0 = k BY <2>2, <2>3, <1>3 DEF Fits
  <2>5. w = Stretch(e, 0, k) BY <2>1, <2>3 DEF Front, Stretch
  <2>6. w \in Seq(ByteSet) /\ Len(w) = k /\ \A i \in 1..k : w[i] = e[0 + i] BY <2>4, <2>5, StretchIs
  <2>7. \A i \in 1..k : w[i] = e[i] BY <2>6
  <2>8. Alike(w, e, k) BY <2>7 DEF Alike
  <2> QED BY <1>1, <1>2, <1>3, <1>7, <2>2, <2>3, <2>6, <2>8 DEF OnWire
<1>8. CASE m.flaw = "bad_size" BY <1>0, <1>1, <1>2, <1>3, <1>4, <1>8 DEF Wire, ChunkFlaws, OnWire
<1>9. CASE m.flaw = "bad_end"
  <2>0. PICK k : k = 4 + m.sizes[1] OBVIOUS
  <2>1. w = [e EXCEPT ![k] = Junk] BY <1>1, <1>2, <1>9, <2>0 DEF Wire
  <2>2. m.framing = "chunked" /\ m.sizes # <<>> BY <1>0, <1>9, BodyIs DEF ChunkFlaws
  <2>3. 1 \in 1..Len(m.sizes) BY <1>0, <2>2
  <2>4. Layout(m, e, 1) BY <1>0, <1>1, <2>2, <2>3, EncodedLayout
  <2>5. PICK z : z = m.sizes[1] OBVIOUS
  <2>6. z \in Nat BY <1>0, <2>3, <2>5
  <2>7. Begin(m.sizes, 1) = 0 BY <1>0, BeginSteps
  <2>8. 0 + 5 + z + 5 + TailLen(m) <= Len(e) BY <2>4, <2>5, <2>7, Zenon DEF Layout
  <2>9. TailLen(m) \in Nat BY DEF TailLen
  <2>10. k = 4 + z /\ k \in Nat /\ k \in 1..Len(e) /\ 3 + z = k - 1
    <3>1. PICK l : l = TailLen(m) OBVIOUS
    <3>2. k = 4 + z /\ l \in Nat /\ 0 + 5 + z + 5 + l <= Len(e) BY <2>0, <2>5, <2>8, <2>9, <3>1, Zenon
    <3> QED BY ONLY <3>2, <2>6, <1>3
  <2>11. w \in Seq(ByteSet) /\ Len(w) = Len(e) /\ w[k] = Junk /\ \A i \in 1..(k - 1) : w[i] = e[i]
    BY ONLY <1>3, <1>4, <2>1, <2>10
  <2>12. Alike(w, e, 3 + z) BY <2>10, <2>11 DEF Alike
  <2> QED BY <1>1, <1>2, <1>3, <1>9, <2>0, <2>5, <2>6, <2>10, <2>11, <2>12 DEF OnWire
<1>10. CASE m.flaw = "long_size" BY <1>1, <1>2, <1>3, <1>4, <1>10, LongWire DEF Wire, OnWire
<1>11. CASE m.flaw = "long_trailer" BY <1>1, <1>2, <1>3, <1>4, <1>11, LongWire DEF Wire, OnWire
<1> QED BY <1>0, <1>5, <1>6, <1>7, <1>8, <1>9, <1>10, <1>11 DEF Flaws

(* Every chunk behind the first begins behind the first. *)
LEMMA BeginLast ==
    ASSUME NEW s \in Seq(Nat), s # <<>>, NEW j \in 2..(Len(s) + 1)
    PROVE  Begin(s, j) >= 5 + s[1]
<1>1. 1 \in 1..Len(s) /\ 1 \in 0..Len(s) /\ j - 1 \in 1..Len(s) /\ j - 1 \in 0..Len(s) OBVIOUS
<1>2. Extends(Chunks(s, j - 1), Chunks(s, 1)) BY <1>1, ChunksExtend
<1>3. Chunks(s, j - 1) \in Seq(ByteSet) /\ Chunks(s, 1) \in Seq(ByteSet) BY <1>1, ChunksType
<1>4. Len(Chunks(s, 1)) <= Len(Chunks(s, j - 1)) BY <1>2 DEF Extends
<1>5. Begin(s, 1) = 0 /\ s[1] \in Nat /\ Begin(s, 1 + 1) = Begin(s, 1) + 5 + s[1] BY <1>1, BeginSteps
<1>6. Begin(s, 1 + 1) = Len(Chunks(s, 1)) BY DEF Begin
<1>7. Begin(s, j) = Len(Chunks(s, j - 1)) BY DEF Begin
<1>8. PICK a : a = Len(Chunks(s, 1)) OBVIOUS
<1>9. PICK z : z = s[1] OBVIOUS
<1>10. PICK b : b = Begin(s, 1) OBVIOUS
<1>11. a = b + 5 + z /\ b = 0 /\ z \in Nat BY <1>5, <1>6, <1>8, <1>9, <1>10, Zenon
<1>12. a = 5 + z BY ONLY <1>11
<1> QED BY <1>3, <1>4, <1>7, <1>8, <1>9, <1>12

(* A chunked body. *)
IsChunked(m) == IsBody(m) /\ m.framing = "chunked"

(* The flaws with which every chunk stands on the wire as encoded. *)
Agreeing == {"none", "trailer", "extra", "cut"}

(* The encoding followed has chunks that are not empty, and is that of the *)
(* message unless a line never ends.                                       *)
LEMMA FrameIs ==
    ASSUME NEW m, IsChunked(m)
    PROVE  /\ Frame(m).sizes \in Seq(Nat) /\ Frame(m).framing = "chunked" /\ Frame(m).flaw = m.flaw
           /\ \A j \in 1..Len(Frame(m).sizes) : Frame(m).sizes[j] > 0
           /\ m.flaw = "long_trailer" => Frame(m).sizes = <<>>
           /\ m.flaw = "long_size" => Frame(m).sizes = <<1>>
           /\ m.flaw \notin {"long_trailer", "long_size"} => Frame(m) = m
           /\ TailLen(Frame(m)) = TailLen(m) /\ TailLen(m) \in Nat
           /\ m.flaw # "trailer" => TailLen(m) = 0
           /\ m.flaw = "trailer" => TailLen(m) = 3
<1>1. /\ m.sizes \in Seq(Nat) /\ m.framing = "chunked" /\ \A j \in 1..Len(m.sizes) : m.sizes[j] > 0
      /\ m \in [framing : DOMAIN FlawsOf, sizes : Seq(Nat), flaw : {"none", "extra", "cut"} \cup ChunkFlaws]
  BY BodyIs DEF IsChunked, IsBody
<1>2. CASE m.flaw = "long_trailer"
  <2>1. Frame(m) = [m EXCEPT !.sizes = <<>>] BY <1>2 DEF Frame
  <2>2. Frame(m).sizes = <<>> /\ Frame(m).flaw = m.flaw /\ Frame(m).framing = "chunked" BY <1>1, <2>1
  <2> QED BY <1>2, <2>2 DEF TailLen
<1>3. CASE m.flaw = "long_size"
  <2>1. Frame(m) = [m EXCEPT !.sizes = <<1>>] BY <1>3 DEF Frame
  <2>2. Frame(m).sizes = <<1>> /\ Frame(m).flaw = m.flaw /\ Frame(m).framing = "chunked" BY <1>1, <2>1
  <2> QED BY <1>3, <2>2 DEF TailLen
<1>4. CASE m.flaw \notin {"long_trailer", "long_size"}
  <2>1. Frame(m) = m BY <1>4 DEF Frame
  <2> QED BY <1>1, <1>4, <2>1 DEF TailLen
<1> QED BY <1>2, <1>3, <1>4

(* The wire agrees with it up to Follow. *)
LEMMA FollowIs ==
    ASSUME NEW m, IsChunked(m)
    PROVE  /\ Wire(m) \in Seq(ByteSet) /\ Encoded(Frame(m)) \in Seq(ByteSet)
           /\ Follow(m) \in Nat /\ Follow(m) <= Len(Wire(m)) /\ Alike(Wire(m), Encoded(Frame(m)), Follow(m))
           /\ m.flaw \in {"none", "trailer", "extra"} => Follow(m) = Len(Encoded(Frame(m)))
           /\ m.flaw = "cut" => Follow(m) = Len(Encoded(Frame(m))) - 1
           /\ m.flaw = "bad_size" => Follow(m) = 0
           /\ m.flaw = "long_size" => Follow(m) = 1
           /\ m.flaw = "bad_end" => Follow(m) = 3 + Frame(m).sizes[1]
           /\ m.flaw = "long_trailer" => Follow(m) = 3
<1>1. OnWire(m, Wire(m), Encoded(m)) BY WireIs DEF IsChunked
<1>2. PICK w : w = Wire(m) OBVIOUS
<1>3. PICK e : e = Encoded(m) OBVIOUS
<1>4. OnWire(m, w, e) BY <1>1, <1>2, <1>3, Zenon
<1>5. w \in Seq(ByteSet) /\ e \in Seq(ByteSet) BY <1>4 DEF OnWire
<1>6. m.flaw \in Flaws BY BodyIs DEF IsChunked
<1>7. Frame(m).sizes \in Seq(Nat) /\ Frame(m).framing = "chunked" BY FrameIs
<1>8. PICK x : x = Encoded(Frame(m)) OBVIOUS
<1>9. x \in Seq(ByteSet) /\ Len(x) >= 5 BY <1>7, <1>8, EncodedType
<1>10. CASE m.flaw \in {"none", "trailer"} BY <1>2, <1>3, <1>4, <1>5, <1>8, <1>10, FrameIs DEF Follow, OnWire, Alike
<1>11. CASE m.flaw = "extra" BY <1>2, <1>3, <1>4, <1>5, <1>8, <1>11, FrameIs DEF Follow, OnWire
<1>12. CASE m.flaw = "cut" BY <1>2, <1>3, <1>4, <1>5, <1>8, <1>12, FrameIs DEF Follow, OnWire
<1>13. CASE m.flaw = "bad_size" BY <1>2, <1>5, <1>8, <1>9, <1>13 DEF Follow, Alike
<1>14. CASE m.flaw = "bad_end"
  <2>1. Frame(m) = m BY <1>14, FrameIs
  <2>2. Follow(m) = 3 + m.sizes[1] BY <1>14 DEF Follow
  <2>3. x = e /\ Len(w) = Len(e) /\ Alike(w, e, 3 + m.sizes[1]) /\ m.sizes[1] \in Nat /\ 4 + m.sizes[1] <= Len(e)
    BY <1>3, <1>4, <1>8, <1>14, <2>1 DEF OnWire
  <2> QED BY <1>2, <1>5, <1>8, <1>14, <2>1, <2>2, <2>3
<1>15. CASE m.flaw = "long_size"
  <2>1. Frame(m).sizes = <<1>> BY <1>15, FrameIs
  <2>2. Follow(m) = 1 BY <1>15 DEF Follow
  <2>3. w = <<Size(1)>> \o Endless BY <1>4, <1>15 DEF OnWire
  <2>4. <<Size(1)>> \in Seq(ByteSet) /\ Len(<<Size(1)>>) = 1 /\ <<Size(1)>>[1] = Size(1) BY ByteKinds
  <2>5. w[1] = Size(1) /\ Len(w) >= 1 BY <2>3, <2>4, LongWire, LimitIs
  <2>6. Layout(Frame(m), x, 1) BY <1>7, <1>8, <2>1, EncodedLayout, SMTT(30)
  <2>7. Begin(Frame(m).sizes, 1) = 0 BY <1>7, BeginSteps
  <2>8. x[0 + 1] = Size(1) BY <2>1, <2>6, <2>7 DEF Layout
  <2>9. Alike(w, x, 1) BY <2>5, <2>8 DEF Alike
  <2> QED BY <1>2, <1>5, <1>8, <1>9, <1>15, <2>2, <2>5, <2>9
<1>16. CASE m.flaw = "long_trailer"
  <2>1. Frame(m).sizes = <<>> BY <1>16, FrameIs
  <2>2. Follow(m) = 3 BY <1>16 DEF Follow
  <2>3. w = <<Size(0), CR, LF>> \o Endless BY <1>4, <1>16 DEF OnWire
  <2>0. PICK h : h = <<Size(0), CR, LF>> OBVIOUS
  <2>4. h \in Seq(ByteSet) /\ Len(h) = 3 /\ h[1] = Size(0) /\ h[2] = CR /\ h[3] = LF BY <2>0, ByteKinds
  <2>5. w[1] = Size(0) /\ w[2] = CR /\ w[3] = LF /\ Len(w) >= 3 BY <2>0, <2>3, <2>4, LongWire, LimitIs
  <2>6. LastLayout(Frame(m), x) BY <1>7, <1>8, EncodedLayout
  <2>7. Begin(Frame(m).sizes, Len(Frame(m).sizes) + 1) = 0
    <3>1. Len(Frame(m).sizes) + 1 = 1 BY <2>1
    <3>2. Begin(Frame(m).sizes, 1) = 0 BY <1>7, BeginSteps
    <3> QED BY <3>1, <3>2, Zenon
  <2>8. x[0 + 1] = Size(0) /\ x[0 + 2] = CR /\ x[0 + 3] = LF BY <2>6, <2>7, Zenon DEF LastLayout
  <2>9. Alike(w, x, 3) BY <2>5, <2>8 DEF Alike
  <2> QED BY <1>2, <1>5, <1>8, <1>9, <1>16, <2>2, <2>5, <2>9
<1> QED BY <1>6, <1>10, <1>11, <1>12, <1>13, <1>14, <1>15, <1>16 DEF Flaws

(* The payload in front of a chunk is part of the payload. *)
LEMMA BeforeBound ==
    ASSUME NEW s \in Seq(Nat)
    PROVE  \A j \in 1..(Len(s) + 1) : Before(s, j) <= Total(s)
<1>0. Len(s) \in Nat OBVIOUS
<1> DEFINE B == {k \in 0..Len(s) : ~ (Before(s, Len(s) + 1 - k) <= Total(s))}
<1>1. B = {}
  <2> SUFFICES ASSUME B # {} PROVE FALSE OBVIOUS
  <2>1. PICK n \in B : \A y \in B : n <= y
    <3>1. B \subseteq Nat OBVIOUS
    <3> HIDE DEF B
    <3> QED BY <3>1, LeastNatural
  <2>2. n \in 0..Len(s) /\ n \in Nat /\ ~ (Before(s, Len(s) + 1 - n) <= Total(s)) BY <2>1
  <2>3. Total(s) \in Nat BY TotalSteps
  <2>4. CASE n = 0 BY <1>0, <2>2, <2>3, <2>4, BeginSteps
  <2>5. CASE n # 0
    <3>1. n - 1 \in 0..Len(s) /\ ~ (n <= n - 1) BY <2>2, <2>5
    <3>2. n - 1 \notin B BY <2>1, <3>1, Zenon
    <3>3. Before(s, Len(s) + 1 - (n - 1)) <= Total(s) BY <3>1, <3>2
    <3>4. PICK j : j = Len(s) + 1 - n OBVIOUS
    <3>5. j \in 1..Len(s) /\ j + 1 = Len(s) + 1 - (n - 1) /\ j \in 1..(Len(s) + 1) BY <1>0, <2>2, <2>5, <3>4
    <3>6. s[j] \in Nat /\ Before(s, j + 1) = Before(s, j) + s[j] /\ Before(s, j) \in Nat BY <3>5, BeginSteps
    <3>7. Before(s, j + 1) <= Total(s) BY <3>3, <3>5, Zenon
    <3>8. Before(s, j) <= Total(s) BY <2>3, <3>6, <3>7
    <3> QED BY <2>2, <3>4, <3>8, Zenon
  <2> QED BY <2>4, <2>5
<1>2. ASSUME NEW j \in 1..(Len(s) + 1) PROVE Before(s, j) <= Total(s)
  <2>1. PICK k : k = Len(s) + 1 - j OBVIOUS
  <2>2. k \in 0..Len(s) /\ Len(s) + 1 - k = j BY <1>0, <2>1
  <2>3. k \notin B BY <1>1
  <2>4. Before(s, Len(s) + 1 - k) <= Total(s) BY <2>2, <2>3
  <2> QED BY <2>2, <2>4, Zenon
<1> QED BY <1>2

-----------------------------------------------------------------------------
(* What stands on the wire behind each boundary the parser can stand at. *)

(* The wire, the encoding it follows, and how far. *)
Followed(m, w, e, g) ==
    /\ w = Wire(m) /\ e = Encoded(Frame(m)) /\ g = Follow(m)

(* They agree at each byte up to there. *)
LEMMA SameByte ==
    ASSUME NEW w, NEW e, NEW g, Alike(w, e, g), NEW k \in Nat, NEW i \in Nat, i > 0, k + i <= g, g \in Nat
    PROVE  w[k + i] = e[k + i]
<1>1. k + i \in 1..g OBVIOUS
<1> QED BY <1>1 DEF Alike

(* A size line of z stands behind byte n. *)
LineAt(w, n, z) == n + 3 <= Len(w) /\ w[n + 1] = Size(z) /\ w[n + 2] = CR /\ w[n + 3] = LF

(* A size line that never ends. *)
NoLine(w) == Len(w) > 0 /\ w[1] = Size(1) /\ \A i \in 2..Len(w) : w[i] = Junk

(* The size of chunk j; that of the last chunk is 0. *)
SizeAt(f, j) == IF j <= Len(f.sizes) THEN f.sizes[j] ELSE 0

(* In front of chunk j stands its size line, a line that is no size or one *)
(* that never ends.                                                        *)
SizeView(m, w, n, j) ==
    \/ m.flaw = "bad_size" /\ n = 0 /\ Len(w) > 0 /\ w[1] = Junk
    \/ m.flaw = "long_size" /\ n = 0 /\ NoLine(w)
    \/ n + 3 <= Follow(m) /\ LineAt(w, n, SizeAt(Frame(m), j))

(* Nothing else stands there. *)
LEMMA SizeViewIs ==
    ASSUME NEW m, IsChunked(m), NEW j \in 1..(Len(Frame(m).sizes) + 1), NEW n, n = Begin(Frame(m).sizes, j), n <= Follow(m)
    PROVE  SizeView(m, Wire(m), n, j)
<1>1. PICK s : s = Frame(m).sizes OBVIOUS
<1>2. PICK w : w = Wire(m) OBVIOUS
<1>3. PICK e : e = Encoded(Frame(m)) OBVIOUS
<1>4. PICK g : g = Follow(m) OBVIOUS
<1>5. /\ s \in Seq(Nat) /\ Frame(m).framing = "chunked" /\ w \in Seq(ByteSet) /\ e \in Seq(ByteSet) /\ g \in Nat
      /\ g <= Len(w) /\ Alike(w, e, g)
  BY <1>1, <1>2, <1>3, <1>4, FrameIs, FollowIs
<1>6. m.flaw \in Flaws BY BodyIs DEF IsChunked
<1>7. Len(s) \in Nat /\ j \in 1..(Len(s) + 1) /\ j \in Nat BY <1>1, <1>5
<1>8. n = Begin(s, j) /\ n \in Nat /\ n <= g /\ (\A k \in 1..Len(s) : s[k] \in Nat) BY <1>1, <1>4, <1>5, <1>7, BeginSteps
<1>9. PICK z : z = SizeAt(Frame(m), j) OBVIOUS
<1>10. z \in Nat /\ z = (IF j <= Len(s) THEN s[j] ELSE 0) BY <1>1, <1>7, <1>8, <1>9 DEF SizeAt
<1>11. /\ n + 5 <= Len(e) /\ e[n + 1] = Size(z) /\ e[n + 2] = CR /\ e[n + 3] = LF
  <2>1. TailLen(Frame(m)) \in Nat BY FrameIs
  <2>2. CASE j <= Len(s)
    <3>1. j \in 1..Len(s) /\ z = s[j] BY <1>7, <1>10, <2>2
    <3>2. Layout(Frame(m), e, j) BY <1>1, <1>3, <1>5, <3>1, EncodedLayout
    <3>3. n + 5 + z + 5 + TailLen(Frame(m)) <= Len(e) /\ e[n + 1] = Size(z) /\ e[n + 2] = CR /\ e[n + 3] = LF
      BY <1>1, <1>8, <3>1, <3>2, Zenon DEF Layout
    <3>4. PICK t : t = TailLen(Frame(m)) OBVIOUS
    <3>5. n + 5 + z + 5 + t <= Len(e) /\ t \in Nat BY <2>1, <3>3, <3>4, Zenon
    <3>6. n + 5 <= Len(e) BY ONLY <1>5, <1>8, <1>10, <3>5, SMTT(30)
    <3> QED BY <3>3, <3>6
  <2>3. CASE ~ (j <= Len(s))
    <3>1. j = Len(s) + 1 /\ z = 0 BY <1>7, <1>10, <2>3
    <3>2. LastLayout(Frame(m), e) BY <1>1, <1>3, <1>5, EncodedLayout
    <3>3. Len(e) = n + 5 + TailLen(Frame(m)) /\ e[n + 1] = Size(0) /\ e[n + 2] = CR /\ e[n + 3] = LF
      BY <1>1, <1>8, <3>1, <3>2, Zenon DEF LastLayout
    <3>4. n + 5 <= Len(e) BY <1>8, <2>1, <3>3
    <3> QED BY <3>1, <3>3, <3>4
  <2> QED BY <2>2, <2>3
<1>12. OnWire(m, w, Encoded(m)) BY <1>2, WireIs DEF IsChunked
<1>13. CASE m.flaw = "bad_size"
  <2>1. g = 0 BY <1>4, <1>13, FollowIs
  <2>2. n = 0 BY <1>8, <2>1
  <2>3. w[1] = Junk /\ Len(w) = Len(Encoded(m)) BY <1>12, <1>13 DEF OnWire
  <2>4. Frame(m) = m BY <1>13, FrameIs
  <2>5. Len(w) > 0 BY <1>3, <1>5, <1>11, <2>2, <2>3, <2>4
  <2> QED BY <1>2, <1>13, <2>2, <2>3, <2>5 DEF SizeView
<1>14. CASE m.flaw = "long_size"
  <2>1. g = 1 BY <1>4, <1>14, FollowIs
  <2>2. s = <<1>> BY <1>1, <1>14, FrameIs
  <2>3. n = 0
    <3>1. CASE j = 1 BY <3>1, <1>8, <1>5, BeginSteps
    <3>2. CASE j # 1
      <4>1. j \in 2..(Len(s) + 1) /\ s # <<>> BY <1>7, <3>2, <2>2
      <4>2. n >= 5 + s[1] BY <1>5, <1>8, <4>1, BeginLast
      <4>3. s[1] = 1 BY <2>2
      <4> QED BY <4>2, <4>3, <2>1, <1>8
    <3> QED BY <3>1, <3>2
  <2>4. w = <<Size(1)>> \o Endless BY <1>12, <1>14 DEF OnWire
  <2>5. PICK h : h = <<Size(1)>> OBVIOUS
  <2>6. h \in Seq(ByteSet) /\ Len(h) = 1 /\ h[1] = Size(1) BY <2>5, ByteKinds
  <2>7. /\ Len(w) = Len(h) + HeaderBytes + 2
        /\ \A i \in 1..Len(h) : w[i] = h[i]
        /\ \A i \in (Len(h) + 1)..(Len(h) + HeaderBytes + 2) : w[i] = Junk
    BY <2>4, <2>5, <2>6, LongWire
  <2>8. NoLine(w) BY <2>6, <2>7, LimitIs DEF NoLine
  <2> QED BY <1>2, <1>14, <2>3, <2>8 DEF SizeView
<1>15. CASE m.flaw \notin {"bad_size", "long_size"}
  <2>1. n + 3 <= g
    <3>1. CASE m.flaw \in {"none", "trailer", "extra"}
      <4>1. g = Len(e) BY <1>3, <1>4, <3>1, FollowIs
      <4> QED BY <1>5, <1>8, <1>11, <4>1
    <3>2. CASE m.flaw = "cut"
      <4>1. g = Len(e) - 1 BY <1>3, <1>4, <3>2, FollowIs
      <4> QED BY <1>5, <1>8, <1>11, <4>1
    <3>3. CASE m.flaw = "bad_end"
      <4>1. g = 3 + s[1] BY <1>1, <1>4, <3>3, FollowIs
      <4>2. s # <<>> BY <1>1, <3>3, FrameIs, BodyIs DEF IsChunked
      <4>3. 1 \in 1..Len(s) BY <4>2, <1>5
      <4>4. s[1] \in Nat BY <4>3, <1>8
      <4>5. CASE j = 1
        <5>1. n = 0 BY <4>5, <1>8, <1>5, BeginSteps
        <5> QED BY <5>1, <4>1, <4>4
      <4>6. CASE j # 1
        <5>1. j \in 2..(Len(s) + 1) BY <1>7, <4>6
        <5>2. n >= 5 + s[1] BY <1>5, <1>8, <4>2, <5>1, BeginLast
        <5> QED BY <5>2, <4>1, <4>4, <1>8
      <4> QED BY <4>5, <4>6
    <3>4. CASE m.flaw = "long_trailer"
      <4>1. g = 3 BY <1>4, <3>4, FollowIs
      <4>2. s = <<>> BY <1>1, <3>4, FrameIs
      <4>3. j = 1 BY <1>7, <4>2
      <4>4. n = 0 BY <4>3, <1>8, <1>5, BeginSteps
      <4> QED BY <4>1, <4>4
    <3> QED BY <1>6, <1>15, <3>1, <3>2, <3>3, <3>4 DEF Flaws
  <2>2. w[n + 1] = e[n + 1] /\ w[n + 2] = e[n + 2] /\ w[n + 3] = e[n + 3] BY <1>5, <1>8, <2>1 DEF Alike
  <2>3. LineAt(w, n, z) BY <1>5, <1>8, <1>11, <2>1, <2>2 DEF LineAt
  <2> QED BY <1>2, <1>4, <1>9, <2>1, <2>3, Zenon DEF SizeView
<1> QED BY <1>13, <1>14, <1>15

(* The data of a chunk whose size line was followed is whole, and so is its *)
(* terminator unless that is the flaw.                                      *)
LEMMA InChunk ==
    ASSUME NEW m, IsChunked(m), NEW s, s = Frame(m).sizes, NEW j \in 1..Len(s), NEW b, b = Begin(s, j), b + 3 <= Follow(m)
    PROVE  /\ b \in Nat /\ s[j] \in Nat /\ b + 3 + s[j] <= Follow(m)
           /\ \/ m.flaw \in Agreeing /\ b + 5 + s[j] <= Follow(m)
              \/ /\ m.flaw = "bad_end" /\ b + 3 + s[j] = Follow(m) /\ Follow(m) + 1 <= Len(Wire(m))
                 /\ Wire(m)[Follow(m) + 1] = Junk
<1>2. PICK w : w = Wire(m) OBVIOUS
<1>3. PICK e : e = Encoded(Frame(m)) OBVIOUS
<1>4. PICK g : g = Follow(m) OBVIOUS
<1>5. /\ s \in Seq(Nat) /\ Frame(m).framing = "chunked" /\ w \in Seq(ByteSet) /\ e \in Seq(ByteSet) /\ g \in Nat
      /\ g <= Len(w) /\ Alike(w, e, g)
  BY <1>2, <1>3, <1>4, FrameIs, FollowIs
<1>6. m.flaw \in Flaws BY BodyIs DEF IsChunked
<1>7. Len(s) \in Nat /\ j \in 1..(Len(s) + 1) /\ j \in Nat BY <1>5
<1>8. b \in Nat /\ s[j] \in Nat /\ b + 3 <= g BY <1>4, <1>5, <1>7, BeginSteps
<1>9. PICK z : z = s[j] OBVIOUS
<1>10. b + 5 + z + 5 <= Len(e)
  <2>1. TailLen(Frame(m)) \in Nat BY FrameIs
  <2>2. Layout(Frame(m), e, j) BY <1>3, <1>5, EncodedLayout
  <2>3. b + 5 + z + 5 + TailLen(Frame(m)) <= Len(e) BY <1>9, <2>2, Zenon DEF Layout
  <2>4. PICK t : t = TailLen(Frame(m)) OBVIOUS
  <2>5. b + 5 + z + 5 + t <= Len(e) /\ t \in Nat /\ z \in Nat BY <1>8, <1>9, <2>1, <2>3, <2>4, Zenon
  <2> QED BY ONLY <1>5, <1>8, <2>5
<1>11. OnWire(m, w, Encoded(m)) BY <1>2, WireIs DEF IsChunked
<1>12. z \in Nat BY <1>8, <1>9
<1>13. CASE m.flaw \in {"none", "trailer", "extra"}
  <2>1. g = Len(e) BY <1>3, <1>4, <1>13, FollowIs
  <2>2. b + 5 + z <= g /\ b + 3 + z <= g BY ONLY <1>5, <1>8, <1>10, <1>12, <2>1
  <2> QED BY <1>4, <1>8, <1>9, <1>13, <2>2, Zenon DEF Agreeing
<1>14. CASE m.flaw = "cut"
  <2>1. g = Len(e) - 1 BY <1>3, <1>4, <1>14, FollowIs
  <2>2. b + 5 + z <= g /\ b + 3 + z <= g BY ONLY <1>5, <1>8, <1>10, <1>12, <2>1
  <2> QED BY <1>4, <1>8, <1>9, <1>14, <2>2, Zenon DEF Agreeing
<1>15. CASE m.flaw = "bad_end"
  <2>1. g = 3 + s[1] BY <1>4, <1>15, FollowIs
  <2>2. Frame(m) = m BY <1>15, FrameIs
  <2>3. 1 \in 1..Len(s) /\ s # <<>> BY <1>5, <1>7
  <2>4. s[1] \in Nat BY <1>5, <2>3
  <2>5. j = 1
    <3> SUFFICES ASSUME j # 1 PROVE FALSE OBVIOUS
    <3>1. j \in 2..(Len(s) + 1) BY <1>7
    <3>2. b >= 5 + s[1] BY <1>5, <2>3, <3>1, BeginLast
    <3> QED BY <1>8, <2>1, <2>4, <3>2
  <2>6. b = 0 BY <1>5, <2>5, BeginSteps
  <2>7. b + 3 + z = g BY <1>9, <2>1, <2>4, <2>5, <2>6
  <2>8. 4 + s[1] <= Len(e) /\ Len(w) = Len(e) /\ w[4 + s[1]] = Junk BY <1>3, <1>11, <1>15, <2>2 DEF OnWire
  <2>9. 4 + s[1] = g + 1 BY <2>1, <2>4
  <2>10. g + 1 <= Len(w) /\ w[g + 1] = Junk BY <2>8, <2>9
  <2>11. b + 3 + z <= g BY <2>7, <1>5
  <2> QED BY <1>2, <1>4, <1>8, <1>9, <1>15, <2>7, <2>10, <2>11, Zenon
<1>16. CASE m.flaw = "bad_size"
  <2>1. g = 0 BY <1>4, <1>16, FollowIs
  <2> QED BY <2>1, <1>8
<1>17. CASE m.flaw = "long_size"
  <2>1. g = 1 BY <1>4, <1>17, FollowIs
  <2> QED BY <2>1, <1>8
<1>18. CASE m.flaw = "long_trailer"
  <2>1. s = <<>> BY <1>18, FrameIs
  <2> QED BY <2>1
<1> QED BY <1>6, <1>13, <1>14, <1>15, <1>16, <1>17, <1>18 DEF Flaws

(* The bytes of a chunk on the wire are the payload at their place. *)
LEMMA DataView ==
    ASSUME NEW m, IsChunked(m), NEW s, s = Frame(m).sizes, NEW j \in 1..Len(s), NEW l \in 1..s[j],
           NEW n, n = Begin(s, j) + 3 + (s[j] - l), n <= Follow(m),
           NEW r, r = Before(s, j) + (s[j] - l), NEW q \in Nat, q <= l
    PROVE  /\ n + q <= Follow(m) /\ Fits(Wire(m), n, n + q) /\ Fits(Payload(Frame(m)), r, r + q)
           /\ Stretch(Wire(m), n, n + q) = Stretch(Payload(Frame(m)), r, r + q)
<1>1. PICK b : b = Begin(s, j) OBVIOUS
<1>2. PICK w : w = Wire(m) OBVIOUS
<1>3. PICK e : e = Encoded(Frame(m)) OBVIOUS
<1>4. PICK g : g = Follow(m) OBVIOUS
<1>5. PICK p : p = Payload(Frame(m)) OBVIOUS
<1>6. PICK a : a = Before(s, j) OBVIOUS
<1>7. PICK z : z = s[j] OBVIOUS
<1>8. /\ s \in Seq(Nat) /\ Frame(m).framing = "chunked" /\ w \in Seq(ByteSet) /\ e \in Seq(ByteSet) /\ g \in Nat
      /\ g <= Len(w) /\ Alike(w, e, g)
  BY <1>2, <1>3, <1>4, FrameIs, FollowIs
<1>9. j \in 1..(Len(s) + 1) /\ j + 1 \in 1..(Len(s) + 1) BY <1>8, SMTT(30)
<1>10. b \in Nat /\ z \in Nat /\ a \in Nat BY <1>1, <1>6, <1>7, <1>8, <1>9, BeginSteps
<1>11. l \in Nat /\ l >= 1 /\ l <= z /\ n = b + 3 + (z - l) /\ r = a + (z - l) BY <1>1, <1>6, <1>7, <1>10
<1>0. n <= g /\ q \in Nat /\ q <= l BY <1>4, Zenon
<1>12. n \in Nat /\ r \in Nat /\ b + 3 <= g /\ n <= g BY ONLY <1>0, <1>8, <1>10, <1>11
<1>13. b + 3 + z <= g BY <1>1, <1>4, <1>7, <1>12, InChunk
<1>14. n + q <= g /\ n + q \in Nat /\ r + q \in Nat BY ONLY <1>0, <1>8, <1>10, <1>11, <1>12, <1>13
<1>15. a + z <= Total(s) BY <1>6, <1>7, <1>8, <1>9, BeginSteps, BeforeBound
<1>16. p \in Seq(ByteSet) /\ Len(p) = Total(s) /\ Total(s) \in Nat /\ \A i \in 1..Total(s) : p[i] = Data(i)
  BY <1>5, <1>8, PayloadIs
<1>17. Fits(w, n, n + q) BY ONLY <1>0, <1>8, <1>12, <1>14 DEF Fits
<1>18. Fits(p, r, r + q) BY ONLY <1>0, <1>10, <1>11, <1>12, <1>14, <1>15, <1>16 DEF Fits
<1>19. PICK t : t = Stretch(w, n, n + q) OBVIOUS
<1>20. PICK u : u = Stretch(p, r, r + q) OBVIOUS
<1>21. t \in Seq(ByteSet) /\ Len(t) = (n + q) - n /\ \A i \in 1..((n + q) - n) : t[i] = w[n + i]
  BY <1>17, <1>19, StretchOf DEF IsStretch
<1>22. u \in Seq(ByteSet) /\ Len(u) = (r + q) - r /\ \A i \in 1..((r + q) - r) : u[i] = p[r + i]
  BY <1>18, <1>20, StretchOf DEF IsStretch
<1>23. (n + q) - n = q /\ (r + q) - r = q BY <1>12
<1>24. \A i \in 1..z : e[b + 3 + i] = Data(a + i) BY <1>1, <1>3, <1>6, <1>7, <1>8, EncodedLayout DEF Layout
<1>25. ASSUME NEW i \in 1..q PROVE t[i] = u[i]
  <2>1. PICK k : k = (z - l) + i OBVIOUS
  <2>2. k \in 1..z /\ n + i = b + 3 + k /\ r + i = a + k /\ n + i \in 1..g /\ r + i \in 1..Total(s)
    <3>1. i \in 1..q OBVIOUS
    <3>2. Total(s) \in Nat BY <1>16
    <3> QED BY ONLY <1>0, <1>8, <1>10, <1>11, <1>12, <1>14, <1>15, <3>2, <2>1, <3>1
  <2>3. t[i] = w[n + i] BY <1>21, <1>23
  <2>4. u[i] = p[r + i] BY <1>22, <1>23
  <2>5. w[n + i] = e[n + i] BY <1>8, <2>2 DEF Alike
  <2>6. e[b + 3 + k] = Data(a + k) BY <1>24, <2>2
  <2>7. p[r + i] = Data(r + i) BY <1>16, <2>2
  <2> QED BY <2>2, <2>3, <2>4, <2>5, <2>6, <2>7, Zenon
<1>26. t = u BY <1>21, <1>22, <1>23, <1>25, SameSeq
<1> QED BY <1>2, <1>4, <1>5, <1>14, <1>17, <1>18, <1>19, <1>20, <1>26, Zenon

(* Behind the data stands CRLF, or a byte that is not. *)
EndView(m, w, n) ==
    \/ m.flaw = "bad_end" /\ n + 1 <= Len(w) /\ w[n + 1] = Junk
    \/ m.flaw \in Agreeing /\ n + 2 <= Follow(m) /\ n + 2 <= Len(w) /\ w[n + 1] = CR /\ w[n + 2] = LF

(* Nothing else stands there. *)
LEMMA EndViewIs ==
    ASSUME NEW m, IsChunked(m), NEW s, s = Frame(m).sizes, NEW j \in 1..Len(s),
           NEW n, n = Begin(s, j) + 3 + s[j], n <= Follow(m)
    PROVE  EndView(m, Wire(m), n)
<1>1. PICK b : b = Begin(s, j) OBVIOUS
<1>2. PICK w : w = Wire(m) OBVIOUS
<1>3. PICK e : e = Encoded(Frame(m)) OBVIOUS
<1>4. PICK g : g = Follow(m) OBVIOUS
<1>5. PICK z : z = s[j] OBVIOUS
<1>6. /\ s \in Seq(Nat) /\ Frame(m).framing = "chunked" /\ w \in Seq(ByteSet) /\ e \in Seq(ByteSet) /\ g \in Nat
      /\ g <= Len(w) /\ Alike(w, e, g)
  BY <1>2, <1>3, <1>4, FrameIs, FollowIs
<1>7. j \in 1..(Len(s) + 1) BY <1>6
<1>8. b \in Nat /\ z \in Nat BY <1>1, <1>5, <1>6, <1>7, BeginSteps
<1>0. n = b + 3 + z /\ n <= g BY <1>1, <1>4, <1>5, Zenon
<1>9. n = b + 3 + z /\ n \in Nat /\ n <= g /\ b + 3 <= g BY ONLY <1>0, <1>6, <1>8
<1>10. \/ m.flaw \in Agreeing /\ b + 5 + s[j] <= Follow(m)
       \/ /\ m.flaw = "bad_end" /\ b + 3 + s[j] = Follow(m) /\ Follow(m) + 1 <= Len(Wire(m))
          /\ Wire(m)[Follow(m) + 1] = Junk
  BY <1>1, <1>4, <1>9, InChunk
<1>11. \/ m.flaw \in Agreeing /\ b + 5 + z <= g
       \/ m.flaw = "bad_end" /\ n = g /\ g + 1 <= Len(w) /\ w[g + 1] = Junk
  BY <1>2, <1>4, <1>5, <1>9, <1>10, Zenon
<1>12. CASE m.flaw = "bad_end" /\ n = g /\ g + 1 <= Len(w) /\ w[g + 1] = Junk BY <1>2, <1>12, Zenon DEF EndView
<1>13. CASE m.flaw \in Agreeing /\ b + 5 + z <= g
  <2>1. e[b + 4 + z] = CR /\ e[b + 5 + z] = LF BY <1>1, <1>3, <1>5, <1>6, EncodedLayout DEF Layout
  <2>2. n + 1 = b + 4 + z /\ n + 2 = b + 5 + z /\ n + 2 <= g /\ n + 2 <= Len(w) /\ n + 1 \in 1..g /\ n + 2 \in 1..g
    BY ONLY <1>6, <1>8, <1>9, <1>13
  <2>3. w[n + 1] = e[n + 1] /\ w[n + 2] = e[n + 2] BY <1>6, <2>2 DEF Alike
  <2>4. w[n + 1] = CR /\ w[n + 2] = LF BY <2>1, <2>2, <2>3, Zenon
  <2> QED BY <1>2, <1>4, <1>13, <2>2, <2>4, Zenon DEF EndView
<1> QED BY <1>11, <1>12, <1>13

(* Behind the last size line stands an empty line, a trailer and an empty *)
(* line, a cut or a line that never ends.                                 *)
TrailView(m, w, e, n) ==
    \/ /\ m.flaw \in {"none", "extra"} /\ Len(e) = n + 2 /\ w[n + 1] = CR /\ w[n + 2] = LF
       /\ m.flaw = "none" => Len(w) = n + 2
       /\ m.flaw = "extra" => Len(w) = n + 3
    \/ /\ m.flaw = "trailer" /\ Len(e) = n + 5 /\ Len(w) = n + 5 /\ w[n + 1] = Junk /\ w[n + 2] = CR /\ w[n + 3] = LF
       /\ w[n + 4] = CR /\ w[n + 5] = LF
    \/ m.flaw = "cut" /\ Len(w) = n + 1
    \/ m.flaw = "long_trailer" /\ \A i \in (n + 1)..Len(w) : w[i] = Junk

(* Nothing else stands there. *)
LEMMA TrailViewIs ==
    ASSUME NEW m, IsChunked(m), NEW s, s = Frame(m).sizes, NEW n, n = Begin(s, Len(s) + 1) + 3, n <= Follow(m)
    PROVE  n \in Nat /\ TrailView(m, Wire(m), Encoded(m), n)
<1>1. PICK b : b = Begin(s, Len(s) + 1) OBVIOUS
<1>2. PICK w : w = Wire(m) OBVIOUS
<1>3. PICK e : e = Encoded(Frame(m)) OBVIOUS
<1>4. PICK g : g = Follow(m) OBVIOUS
<1>5. PICK x : x = Encoded(m) OBVIOUS
<1>6. /\ s \in Seq(Nat) /\ Frame(m).framing = "chunked" /\ w \in Seq(ByteSet) /\ e \in Seq(ByteSet) /\ g \in Nat
      /\ g <= Len(w) /\ Alike(w, e, g)
  BY <1>2, <1>3, <1>4, FrameIs, FollowIs
<1>7. m.flaw \in Flaws BY BodyIs DEF IsChunked
<1>8. b \in Nat BY <1>1, <1>6, BeginSteps
<1>9. n = b + 3 /\ n \in Nat /\ n <= g BY <1>1, <1>4, <1>8
<1>10. OnWire(m, w, x) BY <1>2, <1>5, WireIs DEF IsChunked
<1>11. /\ Len(e) = b + 5 + TailLen(Frame(m))
       /\ m.flaw # "trailer" => e[b + 4] = CR /\ e[b + 5] = LF
       /\ m.flaw = "trailer" => e[b + 4] = Junk /\ e[b + 5] = CR /\ e[b + 6] = LF /\ e[b + 7] = CR /\ e[b + 8] = LF
  <2>1. LastLayout(Frame(m), e) BY <1>3, <1>6, EncodedLayout
  <2>2. Frame(m).flaw = m.flaw BY FrameIs
  <2> QED BY <1>1, <2>1, <2>2, Zenon DEF LastLayout
<1>12. TailLen(Frame(m)) = TailLen(m) /\ (m.flaw # "trailer" => TailLen(m) = 0) /\ (m.flaw = "trailer" => TailLen(m) = 3) BY FrameIs
<1>13. m.flaw \in Agreeing => Frame(m) = m /\ x = e BY <1>3, <1>5, FrameIs DEF Agreeing
<1>14. CASE m.flaw = "none"
  <2>1. w = e /\ x = e /\ Len(e) = b + 5 BY <1>8, <1>10, <1>11, <1>12, <1>13, <1>14 DEF OnWire, Agreeing
  <2>2. n + 1 = b + 4 /\ n + 2 = b + 5 BY <1>8, <1>9
  <2>3. TrailView(m, w, x, n) BY <1>11, <1>14, <2>1, <2>2 DEF TrailView
  <2> QED BY <1>2, <1>5, <1>9, <2>3, Zenon
<1>15. CASE m.flaw = "extra"
  <2>1. x = e /\ Len(w) = Len(e) + 1 /\ Alike(w, e, Len(e)) /\ Len(e) = b + 5 BY <1>8, <1>10, <1>11, <1>12, <1>13, <1>15 DEF OnWire, Agreeing
  <2>2. n + 1 = b + 4 /\ n + 2 = b + 5 /\ n + 1 \in 1..Len(e) /\ n + 2 \in 1..Len(e) /\ Len(w) = n + 3 BY <1>8, <1>9, <2>1
  <2>4. w[n + 1] = e[n + 1] /\ w[n + 2] = e[n + 2] BY <2>1, <2>2 DEF Alike
  <2>3. TrailView(m, w, x, n) BY <1>11, <1>15, <2>1, <2>2, <2>4 DEF TrailView
  <2> QED BY <1>2, <1>5, <1>9, <2>3, Zenon
<1>16. CASE m.flaw = "trailer"
  <2>1. w = e /\ x = e /\ Len(e) = b + 8 BY <1>8, <1>10, <1>11, <1>12, <1>13, <1>16 DEF OnWire, Agreeing
  <2>2. n + 1 = b + 4 /\ n + 2 = b + 5 /\ n + 3 = b + 6 /\ n + 4 = b + 7 /\ n + 5 = b + 8 BY <1>8, <1>9
  <2>3. TrailView(m, w, x, n) BY <1>11, <1>16, <2>1, <2>2 DEF TrailView
  <2> QED BY <1>2, <1>5, <1>9, <2>3, Zenon
<1>17. CASE m.flaw = "cut"
  <2>1. Len(w) = Len(e) - 1 /\ Len(e) = b + 5 BY <1>8, <1>10, <1>11, <1>12, <1>13, <1>17 DEF OnWire, Agreeing
  <2>2. Len(w) = n + 1 BY <1>8, <1>9, <2>1
  <2> QED BY <1>2, <1>5, <1>9, <1>17, <2>2, Zenon DEF TrailView
<1>18. CASE m.flaw = "long_trailer"
  <2>1. s = <<>> BY <1>18, FrameIs
  <2>2. b = 0
    <3>1. Len(s) + 1 = 1 BY <2>1
    <3>2. Begin(s, 1) = 0 BY <1>6, BeginSteps
    <3> QED BY <1>1, <3>1, <3>2, Zenon
  <2>3. w = <<Size(0), CR, LF>> \o Endless BY <1>10, <1>18 DEF OnWire
  <2>4. PICK h : h = <<Size(0), CR, LF>> OBVIOUS
  <2>5. h \in Seq(ByteSet) /\ Len(h) = 3 BY <2>4, ByteKinds
  <2>6. /\ Len(w) = Len(h) + HeaderBytes + 2
        /\ \A i \in (Len(h) + 1)..(Len(h) + HeaderBytes + 2) : w[i] = Junk
    BY <2>3, <2>4, <2>5, LongWire
  <2>7. \A i \in (n + 1)..Len(w) : w[i] = Junk BY <1>9, <2>2, <2>5, <2>6
  <2>8. TrailView(m, w, x, n) BY <1>18, <2>7 DEF TrailView
  <2> QED BY <1>2, <1>5, <1>9, <2>8, Zenon
<1>19. CASE m.flaw = "bad_size"
  <2>1. g = 0 BY <1>4, <1>19, FollowIs
  <2> QED BY <2>1, <1>8, <1>9
<1>20. CASE m.flaw = "long_size"
  <2>1. g = 1 BY <1>4, <1>20, FollowIs
  <2> QED BY <2>1, <1>8, <1>9
<1>21. CASE m.flaw = "bad_end"
  <2>1. g = 3 + s[1] BY <1>4, <1>21, FollowIs
  <2>2. s # <<>> BY <1>21, FrameIs, BodyIs DEF IsChunked
  <2>3. 1 \in 1..Len(s) BY <2>2, <1>6
  <2>4. s[1] \in Nat BY <1>6, <2>3
  <2>5. PICK l : l = Len(s) + 1 OBVIOUS
  <2>6. l \in 2..(Len(s) + 1) BY <2>3, <2>5, <1>6
  <2>7. b >= 5 + s[1] BY <1>1, <1>6, <2>2, <2>5, <2>6, BeginLast
  <2> QED BY <1>8, <1>9, <2>1, <2>4, <2>7
<1> QED BY <1>7, <1>14, <1>15, <1>16, <1>17, <1>18, <1>19, <1>20, <1>21 DEF Flaws

-----------------------------------------------------------------------------
(* The chunk parser (ChunkedBodyCapture::feed). *)

(* The states of the parser. *)
States == {"size", "data", "terminator", "trailers"}

(* What feeding it says; "none" while it goes on. *)
Verdicts == {"none", "more", "invalid", "complete"}

(* A capture. *)
Captures == [bytes : Seq(ByteSet), whole : BOOLEAN]

(* The parser while it is fed, with the capture it fills. *)
Fed == [state : States, left : Nat, pending : Seq(ByteSet), body : Captures, verdict : Verdicts]

(* What the parser's verdict after b bytes of the wire means for the message. *)
Outcome(m, b, p) ==
    /\ p.verdict = "more" => Len(p.pending) <= HeaderBytes /\ (m.flaw \in Whole => b < Len(Encoded(m)))
    /\ p.verdict = "complete" => /\ Len(p.pending) <= HeaderBytes /\ b = Len(Encoded(m)) /\ m.flaw \in Whole
                                 /\ p.body = Captured(Payload(m), Total(m.sizes))
    /\ p.verdict = "invalid" => m.flaw \notin {"none", "trailer"}

(* The parser stands where its pending bytes begin, having been fed b bytes. *)
Feeding(m, b, p) ==
    /\ p \in Fed /\ b \in Nat /\ b <= Len(Wire(m)) /\ Len(p.pending) <= b
    /\ p.pending = Stretch(Wire(m), b - Len(p.pending), b)
    /\ At(m, p.state, p.left, p.body, b - Len(p.pending))
    /\ Outcome(m, b, p)

(* A step keeps this, and says something or uses bytes up. *)
Steps(m, b, p, q) == Feeding(m, b, q) /\ (q.verdict # "none" \/ Len(q.pending) < Len(p.pending))

(* The pending bytes, as a stretch of the wire. *)
LEMMA PendingIs ==
    ASSUME NEW m, IsChunked(m), NEW b, NEW p, Feeding(m, b, p), NEW n, n = b - Len(p.pending)
    PROVE  /\ n \in Nat /\ b \in Nat /\ Len(p.pending) \in Nat /\ n + Len(p.pending) = b /\ b <= Len(Wire(m))
           /\ p.pending \in Seq(ByteSet) /\ Fits(Wire(m), n, b) /\ p.pending = Stretch(Wire(m), n, b)
           /\ \A i \in 1..Len(p.pending) : p.pending[i] = Wire(m)[n + i]
           /\ At(m, p.state, p.left, p.body, n)
<1>1. /\ p \in Fed /\ b \in Nat /\ b <= Len(Wire(m)) /\ Len(p.pending) <= b
      /\ p.pending = Stretch(Wire(m), n, b) /\ At(m, p.state, p.left, p.body, n)
  BY Zenon DEF Feeding
<1>2. p.pending \in Seq(ByteSet) BY <1>1 DEF Fed
<1>3. Wire(m) \in Seq(ByteSet) BY FollowIs
<1>4. Len(p.pending) \in Nat /\ n \in Nat /\ n + Len(p.pending) = b /\ n <= b /\ b - n = Len(p.pending) BY <1>1, <1>2
<1>5. Fits(Wire(m), n, b) BY <1>1, <1>3, <1>4 DEF Fits
<1>6. \A i \in 1..(b - n) : Stretch(Wire(m), n, b)[i] = Wire(m)[n + i] BY <1>5, StretchIs
<1>7. \A i \in 1..Len(p.pending) : p.pending[i] = Wire(m)[n + i] BY <1>1, <1>4, <1>6, Zenon
<1> QED BY <1>1, <1>2, <1>4, <1>5, <1>7, Zenon

(* Stop sets the verdict and nothing else. *)
LEMMA Stopped ==
    ASSUME NEW p \in Fed, NEW v \in Verdicts
    PROVE  /\ Stop(p, v) \in Fed /\ Stop(p, v).verdict = v /\ Stop(p, v).state = p.state /\ Stop(p, v).left = p.left
           /\ Stop(p, v).pending = p.pending /\ Stop(p, v).body = p.body
BY DEF Stop, Fed

(* Verdict v may be given after b bytes. *)
StopsWith(m, b, p, v) ==
    /\ v = "more" => Len(p.pending) <= HeaderBytes /\ (m.flaw \in Whole => b < Len(Encoded(m)))
    /\ v = "complete" => /\ Len(p.pending) <= HeaderBytes /\ b = Len(Encoded(m)) /\ m.flaw \in Whole
                         /\ p.body = Captured(Payload(m), Total(m.sizes))
    /\ v = "invalid" => m.flaw \notin {"none", "trailer"}

(* Then giving it is a step. *)
LEMMA StopSteps ==
    ASSUME NEW m, NEW b, NEW p, Feeding(m, b, p), NEW v \in Verdicts \ {"none"}, StopsWith(m, b, p, v)
    PROVE  Steps(m, b, p, Stop(p, v))
<1>1. p \in Fed /\ v \in Verdicts BY DEF Feeding
<1>2. PICK q : q = Stop(p, v) OBVIOUS
<1>3. /\ q \in Fed /\ q.verdict = v /\ q.state = p.state /\ q.left = p.left /\ q.pending = p.pending /\ q.body = p.body
  BY <1>1, <1>2, Stopped
<1>4. Outcome(m, b, q) BY <1>3, Zenon DEF Outcome, StopsWith
<1>5. Feeding(m, b, q) BY <1>3, <1>4, Zenon DEF Feeding
<1> QED BY <1>2, <1>3, <1>5 DEF Steps

(* Dropping k bytes and standing behind them is a step. *)
LEMMA Advances ==
    ASSUME NEW m, IsChunked(m), NEW b, NEW p, Feeding(m, b, p), NEW n, n = b - Len(p.pending),
           NEW k \in Nat, k > 0, k <= Len(p.pending), NEW q \in Fed, q.verdict = "none", q.pending = Drop(p.pending, k),
           At(m, q.state, q.left, q.body, n + k)
    PROVE  Steps(m, b, p, q)
<1>1. PICK w : w = Wire(m) OBVIOUS
<1>2. /\ n \in Nat /\ b \in Nat /\ Len(p.pending) \in Nat /\ n + Len(p.pending) = b /\ b <= Len(w)
      /\ Fits(w, n, b) /\ p.pending = Stretch(w, n, b)
  BY <1>1, PendingIs
<1>3. PICK c : c = n + k OBVIOUS
<1>4. InPart(w, n, b, k) BY <1>2 DEF InPart
<1>5. IsPart(w, n, b, k) BY <1>4, PartOf, Zenon
<1>6. q.pending = Stretch(w, c, b) BY <1>2, <1>3, <1>5, Zenon DEF IsPart
<1>0. k \in Nat /\ k > 0 /\ k <= Len(p.pending) /\ w \in Seq(ByteSet) BY <1>2 DEF Fits
<1>7. Fits(w, c, b) /\ c \in Nat /\ c <= b BY ONLY <1>0, <1>2, <1>3 DEF Fits
<1>8. Len(q.pending) = b - c BY <1>6, <1>7, StretchIs
<1>9. b - Len(q.pending) = c /\ Len(q.pending) <= b /\ Len(q.pending) < Len(p.pending) BY ONLY <1>0, <1>2, <1>3, <1>7, <1>8
<1>10. Outcome(m, b, q) BY DEF Outcome
<1>11. At(m, q.state, q.left, q.body, c) BY <1>3, Zenon
<1>12. Feeding(m, b, q) BY <1>1, <1>2, <1>6, <1>9, <1>10, <1>11, Zenon DEF Feeding
<1> QED BY <1>9, <1>12 DEF Steps

(* A complete message is followed to its end. *)
LEMMA Room ==
    ASSUME NEW m, IsChunked(m), m.flaw \in Whole
    PROVE  Follow(m) = Len(Encoded(m)) /\ Frame(m) = m
<1>1. Frame(m) = m BY FrameIs DEF Whole
<1>2. Follow(m) = Len(Encoded(Frame(m))) BY FollowIs DEF Whole
<1> QED BY <1>1, <1>2

(* The ends of lines in s. *)
LineEnds(s) == {i \in 1..Len(s) : s[i] = LF}

(* The least of a set of positions. *)
First(T) == CHOOSE i \in T : \A j \in T : i <= j

(* The least element is the one below all others. *)
LEMMA FirstIs ==
    ASSUME NEW T, NEW x \in T, \A j \in T : x <= j, T \subseteq Nat
    PROVE  First(T) = x
<1>1. \E i \in T : \A j \in T : i <= j OBVIOUS
<1>2. First(T) \in T /\ \A j \in T : First(T) <= j BY <1>1 DEF First
<1>3. PICK y : y = First(T) OBVIOUS
<1>4. y \in Nat /\ x \in Nat /\ y <= x /\ x <= y BY <1>2, <1>3
<1> QED BY <1>3, <1>4

(* Reading a size line is a step: a size as encoded, or more bytes needed, *)
(* or an error on a line that is none or too long.                         *)
LEMMA SizeSteps ==
    ASSUME NEW m, IsChunked(m), NEW b, NEW p, Feeding(m, b, p), p.verdict = "none", p.state = "size"
    PROVE  Steps(m, b, p, FeedSize(p))
<1>1. PICK w : w = Wire(m) OBVIOUS
<1>2. PICK n : n = b - Len(p.pending) OBVIOUS
<1>3. PICK s : s = p.pending OBVIOUS
<1>4. PICK L : L = Len(s) OBVIOUS
<1>5. /\ n \in Nat /\ b \in Nat /\ L \in Nat /\ n + L = b /\ b <= Len(w) /\ s \in Seq(ByteSet)
      /\ (\A i \in 1..L : s[i] = w[n + i]) /\ At(m, p.state, p.left, p.body, n)
  BY <1>1, <1>2, <1>3, <1>4, PendingIs
<1>6. n <= Follow(m) /\ AtSize(Frame(m), p.body, n) BY <1>5 DEF At
<1>7. PICK f : f = Frame(m) OBVIOUS
<1>8. PICK j \in 1..(Len(f.sizes) + 1) : n = Begin(f.sizes, j) /\ p.body = Captured(Payload(f), Before(f.sizes, j))
  BY <1>6, <1>7 DEF AtSize
<1>9. SizeView(m, w, n, j) BY <1>1, <1>6, <1>7, <1>8, SizeViewIs
<1>10. PICK T : T = LineEnds(s) OBVIOUS
<1>11. FeedSize(p) = IF s # <<>> /\ s[1].kind # "size" THEN Stop(p, "invalid")
                     ELSE IF T = {}
                     THEN Stop(p, IF L > HeaderBytes THEN "invalid" ELSE "more")
                     ELSE IF First(T) > HeaderBytes THEN Stop(p, "invalid")
                     ELSE [p EXCEPT !.pending = Drop(@, First(T)), !.left = s[1].n,
                                    !.state = IF s[1].n = 0 THEN "trailers" ELSE "data"]
  BY <1>3, <1>4, <1>10 DEF FeedSize, LineEnds, First
<1>12. HeaderBytes \in Nat /\ HeaderBytes >= 5 BY LimitIs
<1>13. s = <<>> <=> L = 0 BY <1>4, <1>5
<1>14. /\ Size(1).kind = "size" /\ Size(1) # LF /\ CR # LF /\ Junk # LF /\ Junk.kind # "size"
       /\ \A z \in Nat : Size(z).kind = "size" /\ Size(z).n = z /\ Size(z) # LF
  BY ByteKinds
<1>15. T = {i \in 1..L : s[i] = LF} BY <1>4, <1>10, Zenon DEF LineEnds
<1>16. CASE m.flaw = "bad_size" /\ n = 0 /\ Len(w) > 0 /\ w[1] = Junk
  <2>1. CASE L = 0
    <3>1. T = {} BY <1>15, <2>1
    <3>2. ~ (L > HeaderBytes) BY <1>12, <2>1
    <3>3. FeedSize(p) = Stop(p, "more") BY <1>11, <1>13, <2>1, <3>1, <3>2, Zenon
    <3>4. StopsWith(m, b, p, "more") BY <1>3, <1>4, <1>12, <1>16, <2>1 DEF StopsWith, Whole
    <3>5. Steps(m, b, p, Stop(p, "more")) BY <3>4, StopSteps DEF Verdicts
    <3> QED BY <3>3, <3>5, Zenon
  <2>2. CASE L # 0 BY <1>5, <1>11, <1>13, <1>14, <1>16, <2>2, StopSteps DEF StopsWith, Verdicts
  <2> QED BY <2>1, <2>2
<1>17. CASE m.flaw = "long_size" /\ n = 0 /\ NoLine(w)
  <2>1. \A i \in 1..L : s[i] # LF BY <1>5, <1>14, <1>17 DEF NoLine
  <2>2. T = {} BY <1>15, <2>1
  <2>3. ~ (s # <<>> /\ s[1].kind # "size") BY <1>5, <1>13, <1>14, <1>17 DEF NoLine
  <2>4. CASE L > HeaderBytes BY <1>11, <1>17, <2>2, <2>3, <2>4, StopSteps DEF StopsWith, Verdicts
  <2>5. CASE ~ (L > HeaderBytes)
    <3>3. FeedSize(p) = Stop(p, "more") BY <1>11, <2>2, <2>3, <2>5, Zenon
    <3>4. StopsWith(m, b, p, "more") BY <1>3, <1>4, <1>5, <1>12, <1>17, <2>5 DEF StopsWith, Whole
    <3>5. Steps(m, b, p, Stop(p, "more")) BY <3>4, StopSteps DEF Verdicts
    <3> QED BY <3>3, <3>5, Zenon
  <2> QED BY <2>4, <2>5
<1>18. CASE n + 3 <= Follow(m) /\ LineAt(w, n, SizeAt(Frame(m), j))
  <2>0. PICK z : z = SizeAt(f, j) OBVIOUS
  <2>1. /\ f.sizes \in Seq(Nat) /\ (\A k \in 1..Len(f.sizes) : f.sizes[k] > 0) /\ Follow(m) \in Nat
    BY <1>7, FrameIs, FollowIs
  <2>2. z \in Nat /\ (j <= Len(f.sizes) => z = f.sizes[j] /\ z > 0 /\ j \in 1..Len(f.sizes))
        /\ (~ (j <= Len(f.sizes)) => z = 0 /\ j = Len(f.sizes) + 1) BY <2>0, <2>1 DEF SizeAt
  <2>3. w[n + 1] = Size(z) /\ w[n + 2] = CR /\ w[n + 3] = LF BY <1>7, <1>18, <2>0, Zenon DEF LineAt
  <2>4. (L >= 1 => s[1] = Size(z)) /\ (L >= 2 => s[2] = CR) /\ (L >= 3 => s[3] = LF) BY <1>5, <2>3
  <2>5. ~ (s # <<>> /\ s[1].kind # "size") BY <1>5, <1>13, <1>14, <2>2, <2>4
  <2>6. CASE L < 3
    <3>1. T = {} BY <1>5, <1>14, <1>15, <2>2, <2>4, <2>6
    <3>2. ~ (L > HeaderBytes) /\ L <= HeaderBytes BY <1>5, <1>12, <2>6
    <3>3. FeedSize(p) = Stop(p, "more") BY <1>11, <2>5, <3>1, <3>2, Zenon
    <3>4. m.flaw \in Whole => b < Len(Encoded(m)) BY <1>5, <1>18, <2>1, <2>6, Room
    <3>5. StopsWith(m, b, p, "more") BY <1>3, <1>4, <3>2, <3>4 DEF StopsWith
    <3>6. Steps(m, b, p, Stop(p, "more")) BY <3>5, StopSteps DEF Verdicts
    <3> QED BY <3>3, <3>6, Zenon
  <2>7. CASE L >= 3
    <3>1. 3 \in T /\ (\A i \in T : 3 <= i) /\ T \subseteq Nat
      <4>1. 3 \in T BY <1>5, <1>15, <2>4, <2>7
      <4>2. ASSUME NEW i \in T PROVE 3 <= i
        <5>1. i \in 1..L /\ s[i] = LF BY <1>15
        <5>2. i # 1 BY <1>14, <2>2, <2>4, <2>7, <5>1, <1>5, SMTT(30)
        <5>3. i # 2 BY <1>14, <2>4, <2>7, <5>1, <1>5
        <5> QED BY <1>5, <5>1, <5>2, <5>3
      <4>3. T \subseteq Nat BY <1>15, <1>5
      <4> QED BY <4>1, <4>2, <4>3
    <3>2. First(T) = 3 BY <3>1, FirstIs
    <3>3. s[1].n = z BY <1>5, <1>14, <2>2, <2>4, <2>7
    <3>4. PICK q : q = [p EXCEPT !.pending = Drop(@, 3), !.left = z, !.state = IF z = 0 THEN "trailers" ELSE "data"] OBVIOUS
    <3>5. FeedSize(p) = q BY <1>11, <1>12, <2>5, <3>1, <3>2, <3>3, <3>4
    <3>6. p \in Fed BY DEF Feeding
    <3>7. Drop(p.pending, 3) \in Seq(ByteSet) BY <1>3, <1>4, <1>5, <2>7, StretchIs DEF Fits, Stretch, Drop
    <3>8. /\ q \in Fed /\ q.verdict = "none" /\ q.pending = Drop(p.pending, 3) /\ q.left = z /\ q.body = p.body
          /\ q.state = IF z = 0 THEN "trailers" ELSE "data"
      BY <2>2, <3>4, <3>6, <3>7 DEF Fed, States
    <3>9. n + 3 \in 0..Follow(m) /\ n + 3 \in Nat BY <1>5, <1>18, <2>1
    <3>10. At(m, q.state, q.left, q.body, n + 3)
      <4>1. CASE j <= Len(f.sizes)
        <5>1. z = f.sizes[j] /\ z > 0 /\ j \in 1..Len(f.sizes) BY <2>2, <4>1
        <5>2. PICK a : a = Before(f.sizes, j) OBVIOUS
        <5>3. a \in Nat BY <2>1, <5>2, BeginSteps
        <5>4. q.state = "data" BY <3>8, <5>1, <2>2
        <5>5. z \in 1..z /\ n + 3 = n + 3 + (z - z) /\ a = a + (z - z) BY <1>5, <2>2, <5>1, <5>3
        <5>6. z \in 1..f.sizes[j] /\ n + 3 = Begin(f.sizes, j) + 3 + (f.sizes[j] - z) BY <1>8, <5>1, <5>5, Zenon
        <5>7. q.body = Captured(Payload(f), Before(f.sizes, j) + (f.sizes[j] - z)) BY <1>8, <3>8, <5>1, <5>2, <5>5, Zenon
        <5>8. AtData(f, z, q.body, n + 3) BY <5>1, <5>6, <5>7, Zenon DEF AtData
        <5> QED BY <1>7, <2>2, <3>8, <3>9, <5>4, <5>8 DEF At
      <4>2. CASE ~ (j <= Len(f.sizes))
        <5>1. z = 0 /\ j = Len(f.sizes) + 1 BY <2>2, <4>2
        <5>2. q.state = "trailers" BY <3>8, <5>1
        <5>3. Before(f.sizes, Len(f.sizes) + 1) = Total(f.sizes) BY <2>1, BeginSteps
        <5>4. n + 3 = Begin(f.sizes, Len(f.sizes) + 1) + 3 BY <1>8, <5>1, Zenon
        <5>5. q.body = Captured(Payload(f), Total(f.sizes)) BY <1>8, <3>8, <5>1, <5>3, Zenon
        <5>6. AtTrailers(f, q.body, n + 3) BY <5>4, <5>5, Zenon DEF AtTrailers
        <5> QED BY <1>7, <2>2, <3>8, <3>9, <5>2, <5>6 DEF At
      <4> QED BY <4>1, <4>2
    <3>11. 3 \in Nat /\ 3 > 0 /\ 3 <= Len(p.pending) BY <1>3, <1>4, <2>7
    <3>12. Steps(m, b, p, q) BY <1>2, <3>8, <3>10, <3>11, Advances
    <3> QED BY <3>5, <3>12, Zenon
  <2> QED BY <1>5, <2>6, <2>7
<1> QED BY <1>9, <1>16, <1>17, <1>18, Zenon DEF SizeView

(* What is left of bytes are bytes. *)
LEMMA DroppedIs ==
    ASSUME NEW s \in Seq(ByteSet), NEW k \in Nat, k <= Len(s)
    PROVE  Drop(s, k) \in Seq(ByteSet)
<1>1. PICK L : L = Len(s) OBVIOUS
<1>2. Fits(s, k, L) BY <1>1 DEF Fits
<1>3. PICK x : x = Stretch(s, k, L) OBVIOUS
<1>4. IsStretch(x, s, k, L) BY <1>2, <1>3, StretchOf, Zenon
<1>5. x \in Seq(ByteSet) BY <1>4, Zenon DEF IsStretch
<1> QED BY <1>1, <1>3, <1>5, Zenon DEF Drop, Stretch

(* Taking the data of a chunk is a step, and captures it. *)
LEMMA DataSteps ==
    ASSUME NEW m, IsChunked(m), NEW b, NEW p, Feeding(m, b, p), p.verdict = "none", p.state = "data"
    PROVE  Steps(m, b, p, FeedData(p))
<1>1. PICK w : w = Wire(m) OBVIOUS
<1>2. PICK n : n = b - Len(p.pending) OBVIOUS
<1>3. PICK s : s = p.pending OBVIOUS
<1>4. PICK L : L = Len(s) OBVIOUS
<1>5. /\ n \in Nat /\ b \in Nat /\ L \in Nat /\ n + L = b /\ b <= Len(w) /\ s \in Seq(ByteSet)
      /\ s = Stretch(w, n, b) /\ Fits(w, n, b) /\ At(m, p.state, p.left, p.body, n)
  BY <1>1, <1>2, <1>3, <1>4, PendingIs
<1>6. n <= Follow(m) /\ AtData(Frame(m), p.left, p.body, n) BY <1>5 DEF At
<1>7. PICK f : f = Frame(m) OBVIOUS
<1>8. PICK l : l = p.left OBVIOUS
<1>9. PICK z : z = f.sizes OBVIOUS
<1>10. PICK j \in 1..Len(z) : /\ l \in 1..z[j] /\ n = Begin(z, j) + 3 + (z[j] - l)
                              /\ p.body = Captured(Payload(f), Before(z, j) + (z[j] - l))
  BY <1>6, <1>7, <1>8, <1>9, Zenon DEF AtData
<1>11. z \in Seq(Nat) /\ Follow(m) \in Nat BY <1>7, <1>9, FrameIs, FollowIs
<1>12. PICK c : c = z[j] OBVIOUS
<1>13. PICK a : a = Before(z, j) OBVIOUS
<1>14. PICK h : h = Begin(z, j) OBVIOUS
<1>15. c \in Nat /\ a \in Nat /\ h \in Nat BY <1>11, <1>12, <1>13, <1>14, BeginSteps
<1>16. l \in 1..c /\ l \in Nat /\ l > 0 /\ n = h + 3 + (c - l) /\ p.body = Captured(Payload(f), a + (c - l))
  BY <1>10, <1>12, <1>13, <1>14, <1>15
<1>17. PICK r : r = a + (c - l) OBVIOUS
<1>18. r \in Nat BY ONLY <1>15, <1>16, <1>17
<1>19. PICK k : k = IF l < L THEN l ELSE L OBVIOUS
<1>20. k \in Nat /\ k <= l /\ k <= L /\ (L > 0 => k > 0) BY ONLY <1>5, <1>16, <1>19
<1>21. p \in Fed BY DEF Feeding
<1>22. FeedData(p) = IF s = <<>> THEN Stop(p, "more")
                     ELSE [p EXCEPT !.body = AppendBody(@, SubSeq(s, 1, k)), !.pending = Drop(@, k), !.left = @ - k,
                                    !.state = IF l = k THEN "terminator" ELSE "data"]
  BY <1>3, <1>4, <1>8, <1>19 DEF FeedData
<1>23. s = <<>> <=> L = 0 BY <1>4, <1>5
<1>24. /\ n + k <= Follow(m) /\ Fits(Payload(f), r, r + k) /\ Stretch(w, n, n + k) = Stretch(Payload(f), r, r + k)
       /\ n + l <= Follow(m)
  <2>1. /\ n + k <= Follow(m) /\ Fits(Payload(Frame(m)), r, r + k)
        /\ Stretch(Wire(m), n, n + k) = Stretch(Payload(Frame(m)), r, r + k)
    <3>1. r = Before(z, j) + (z[j] - l) BY <1>12, <1>13, <1>17, Zenon
    <3> QED BY <1>6, <1>7, <1>9, <1>10, <1>20, <3>1, DataView
  <2>2. n + l <= Follow(m)
    <3>1. r = Before(z, j) + (z[j] - l) BY <1>12, <1>13, <1>17, Zenon
    <3>2. l \in Nat /\ l <= l BY <1>16
    <3> QED BY <1>6, <1>7, <1>9, <1>10, <3>1, <3>2, DataView
  <2> QED BY <1>1, <1>7, <2>1, <2>2, Zenon
<1>25. CASE L = 0
  <2>1. FeedData(p) = Stop(p, "more") BY <1>22, <1>23, <1>25
  <2>2. m.flaw \in Whole => b < Len(Encoded(m))
    <3> SUFFICES ASSUME m.flaw \in Whole PROVE b < Len(Encoded(m)) OBVIOUS
    <3>1. Follow(m) = Len(Encoded(m)) BY Room
    <3>2. b = n /\ n + l <= Follow(m) BY <1>5, <1>24, <1>25
    <3>3. b < Follow(m) BY ONLY <3>2, <1>5, <1>11, <1>16, SMTT(30)
    <3> QED BY <3>1, <3>3, Zenon
  <2>3. Len(p.pending) <= HeaderBytes BY <1>3, <1>4, <1>25, LimitIs
  <2>4. StopsWith(m, b, p, "more") BY <2>2, <2>3 DEF StopsWith
  <2>5. Steps(m, b, p, Stop(p, "more")) BY <2>4, StopSteps DEF Verdicts
  <2> QED BY <2>1, <2>5, Zenon
<1>26. CASE L # 0
  <2>1. k > 0 BY ONLY <1>5, <1>20, <1>26
  <2>2. SubSeq(s, 1, k) = Stretch(w, n, n + k)
    <3>1. k <= b - n BY ONLY <1>5, <1>20
    <3>2. InPart(w, n, b, k) BY <1>5, <1>20, <3>1 DEF InPart
    <3>3. IsPart(w, n, b, k) BY <3>2, PartOf, Zenon
    <3> QED BY <1>5, <3>3, Zenon DEF IsPart
  <2>3. PICK y : y = Payload(f) OBVIOUS
  <2>4. y \in Seq(ByteSet) BY <1>9, <1>11, <2>3, PayloadIs
  <2>5. AppendBody(p.body, SubSeq(s, 1, k)) = Captured(y, r + k)
    <3>1. PICK rk : rk = r + k OBVIOUS
    <3>2. Fits(y, r, rk) BY <1>24, <2>3, <3>1, Zenon
    <3>3. AppendBody(Captured(y, r), Stretch(y, r, rk)) = Captured(y, rk) BY <2>4, <3>2, CaptureGrows
    <3>4. SubSeq(s, 1, k) = Stretch(y, r, rk) BY <1>24, <2>2, <2>3, <3>1, Zenon
    <3>5. p.body = Captured(y, r) BY <1>16, <1>17, <2>3, Zenon
    <3> QED BY <3>1, <3>3, <3>4, <3>5, Zenon
  <2>6. Captured(y, r + k) \in Captures BY <1>18, <1>20, <1>24, <2>3, <2>4, CapturedIs DEF Fits, Captures
  <2>7. Drop(s, k) \in Seq(ByteSet) BY <1>4, <1>5, <1>20, DroppedIs
  <2>8. PICK q : q = [p EXCEPT !.body = Captured(y, r + k), !.pending = Drop(s, k), !.left = l - k,
                               !.state = IF l = k THEN "terminator" ELSE "data"] OBVIOUS
  <2>9. FeedData(p) = q
    <3>1. FeedData(p) = [p EXCEPT !.body = AppendBody(@, SubSeq(s, 1, k)), !.pending = Drop(@, k), !.left = @ - k,
                                  !.state = IF l = k THEN "terminator" ELSE "data"]
      BY <1>22, <1>23, <1>26
    <3>2. FeedData(p) = [p EXCEPT !.body = AppendBody(p.body, SubSeq(s, 1, k)), !.pending = Drop(p.pending, k), !.left = p.left - k,
                                  !.state = IF l = k THEN "terminator" ELSE "data"]
      BY <1>21, <3>1 DEF Fed
    <3> QED BY <1>3, <1>8, <2>5, <2>8, <3>2, Zenon
  <2>10. l - k \in Nat BY ONLY <1>16, <1>20
  <2>11. /\ q \in Fed /\ q.verdict = "none" /\ q.pending = Drop(p.pending, k) /\ q.left = l - k /\ q.body = Captured(y, r + k)
         /\ q.state = IF l = k THEN "terminator" ELSE "data"
    BY <1>3, <1>21, <2>6, <2>7, <2>8, <2>10 DEF Fed, States
  <2>12. n + k \in 0..Follow(m) BY <1>5, <1>11, <1>20, <1>24
  <2>13. At(m, q.state, q.left, q.body, n + k)
    <3>1. CASE l = k
      <4>1. n + k = h + 3 + c /\ r + k = a + c BY ONLY <1>15, <1>16, <1>17, <3>1
      <4>2. n + k = Begin(z, j) + 3 + z[j] /\ q.body = Captured(Payload(f), Before(z, j) + z[j])
        BY <1>12, <1>13, <1>14, <2>3, <2>11, <4>1, Zenon
      <4>3. AtEnd(f, q.body, n + k) BY <1>9, <1>10, <4>2, Zenon DEF AtEnd
      <4>4. q.state = "terminator" BY <2>11, <3>1
      <4> QED BY <1>7, <2>10, <2>11, <2>12, <4>3, <4>4 DEF At
    <3>2. CASE l # k
      <4>1. n + k = h + 3 + (c - (l - k)) /\ r + k = a + (c - (l - k)) /\ l - k \in 1..c
        BY ONLY <1>15, <1>16, <1>17, <1>20, <3>2
      <4>2. PICK l2 : l2 = l - k OBVIOUS
      <4>3. /\ n + k = Begin(z, j) + 3 + (z[j] - l2) /\ q.body = Captured(Payload(f), Before(z, j) + (z[j] - l2))
            /\ l2 \in 1..z[j]
        BY <1>12, <1>13, <1>14, <2>3, <2>11, <4>1, <4>2, Zenon
      <4>4. AtData(f, l2, q.body, n + k) BY <1>9, <1>10, <4>3, Zenon DEF AtData
      <4>5. q.state = "data" /\ q.left = l2 BY <2>11, <3>2, <4>2
      <4> QED BY <1>7, <2>10, <2>11, <2>12, <4>4, <4>5 DEF At
    <3> QED BY <3>1, <3>2
  <2>14. k <= Len(p.pending) BY <1>3, <1>4, <1>20
  <2>15. Steps(m, b, p, q) BY <1>2, <1>20, <2>1, <2>11, <2>13, <2>14, Advances
  <2> QED BY <2>9, <2>15, Zenon
<1> QED BY <1>25, <1>26

(* CRLF at the front of the pending bytes. *)
LEMMA StartsIs ==
    ASSUME NEW s \in Seq(ByteSet), Len(s) >= 2
    PROVE  Starts(s, <<CR, LF>>) <=> s[1] = CR /\ s[2] = LF
<1>1. Fits(s, 0, 2) BY DEF Fits
<1>2. PICK t : t = SubSeq(s, 1, 2) OBVIOUS
<1>3. t = Stretch(s, 0, 2) BY <1>2 DEF Stretch
<1>4. t \in Seq(ByteSet) /\ Len(t) = 2 - 0 /\ \A i \in 1..(2 - 0) : t[i] = s[0 + i]
  <2>1. IsStretch(t, s, 0, 2) BY <1>1, <1>3, StretchOf, Zenon
  <2> QED BY <2>1, Zenon DEF IsStretch
<1>5. Len(t) = 2 /\ t[1] = s[1] /\ t[2] = s[2] BY <1>4
<1>6. t = <<CR, LF>> <=> t[1] = CR /\ t[2] = LF BY <1>4, <1>5, ByteKinds, SameSeq
<1>7. Len(<<CR, LF>>) = 2 OBVIOUS
<1> QED BY <1>2, <1>5, <1>6, <1>7 DEF Starts

(* Checking the terminator of a chunk is a step. *)
LEMMA EndSteps ==
    ASSUME NEW m, IsChunked(m), NEW b, NEW p, Feeding(m, b, p), p.verdict = "none", p.state = "terminator"
    PROVE  Steps(m, b, p, FeedTerminator(p))
<1>1. PICK w : w = Wire(m) OBVIOUS
<1>2. PICK n : n = b - Len(p.pending) OBVIOUS
<1>3. PICK s : s = p.pending OBVIOUS
<1>4. PICK L : L = Len(s) OBVIOUS
<1>5. /\ n \in Nat /\ b \in Nat /\ L \in Nat /\ n + L = b /\ b <= Len(w) /\ s \in Seq(ByteSet)
      /\ (\A i \in 1..L : s[i] = w[n + i]) /\ At(m, p.state, p.left, p.body, n)
  BY <1>1, <1>2, <1>3, <1>4, PendingIs
<1>6. n <= Follow(m) /\ AtEnd(Frame(m), p.body, n) /\ p.left \in Nat BY <1>5 DEF At
<1>7. PICK f : f = Frame(m) OBVIOUS
<1>8. PICK z : z = f.sizes OBVIOUS
<1>9. PICK j \in 1..Len(z) : n = Begin(z, j) + 3 + z[j] /\ p.body = Captured(Payload(f), Before(z, j) + z[j])
  BY <1>6, <1>7, <1>8, Zenon DEF AtEnd
<1>10. EndView(m, w, n) BY <1>1, <1>6, <1>7, <1>8, <1>9, EndViewIs
<1>11. z \in Seq(Nat) /\ Follow(m) \in Nat BY <1>7, <1>8, FrameIs, FollowIs
<1>12. p \in Fed BY DEF Feeding
<1>13. FeedTerminator(p) = IF L < 2 THEN Stop(p, "more") ELSE IF ~ Starts(s, <<CR, LF>>) THEN Stop(p, "invalid")
                           ELSE [p EXCEPT !.pending = Drop(@, 2), !.state = "size"]
  BY <1>3, <1>4, Zenon DEF FeedTerminator
<1>14. CASE L < 2
  <2>1. FeedTerminator(p) = Stop(p, "more") BY <1>13, <1>14
  <2>2. Len(p.pending) <= HeaderBytes BY <1>3, <1>4, <1>5, <1>14, LimitIs
  <2>3. m.flaw \in Whole => b < Len(Encoded(m))
    <3> SUFFICES ASSUME m.flaw \in Whole PROVE b < Len(Encoded(m)) OBVIOUS
    <3>1. Follow(m) = Len(Encoded(m)) BY Room
    <3>2. n + 2 <= Follow(m) BY <1>10 DEF EndView, Whole
    <3>3. b < Follow(m) BY ONLY <3>2, <1>5, <1>11, <1>14
    <3> QED BY <3>1, <3>3, Zenon
  <2>4. StopsWith(m, b, p, "more") BY <2>2, <2>3 DEF StopsWith
  <2>5. Steps(m, b, p, Stop(p, "more")) BY <2>4, StopSteps DEF Verdicts
  <2> QED BY <2>1, <2>5, Zenon
<1>15. CASE ~ (L < 2)
  <2>1. 1 \in 1..L /\ 2 \in 1..L BY <1>5, <1>15
  <2>2. s[1] = w[n + 1] /\ s[2] = w[n + 2] BY <1>5, <2>1
  <2>0. s \in Seq(ByteSet) /\ Len(s) >= 2 BY <1>4, <1>5, <1>15
  <2>3. Starts(s, <<CR, LF>>) <=> s[1] = CR /\ s[2] = LF BY ONLY <2>0, StartsIs
  <2>4. CASE m.flaw = "bad_end" /\ n + 1 <= Len(w) /\ w[n + 1] = Junk
    BY <1>13, <1>15, <2>2, <2>3, <2>4, ByteKinds, StopSteps DEF StopsWith, Verdicts
  <2>5. CASE m.flaw \in Agreeing /\ n + 2 <= Follow(m) /\ n + 2 <= Len(w) /\ w[n + 1] = CR /\ w[n + 2] = LF
    <3>1. Starts(s, <<CR, LF>>) BY <2>2, <2>3, <2>5
    <3>2. PICK q : q = [p EXCEPT !.pending = Drop(p.pending, 2), !.state = "size"] OBVIOUS
    <3>3. FeedTerminator(p) = q BY <1>12, <1>13, <1>15, <3>1, <3>2 DEF Fed
    <3>4. Drop(p.pending, 2) \in Seq(ByteSet) BY <1>3, <1>4, <1>5, <1>15, DroppedIs
    <3>5. /\ q \in Fed /\ q.verdict = "none" /\ q.pending = Drop(p.pending, 2) /\ q.left = p.left /\ q.body = p.body
          /\ q.state = "size"
      BY <1>12, <3>2, <3>4 DEF Fed, States
    <3>6. n + 2 \in 0..Follow(m) BY <1>5, <1>11, <2>5
    <3>7. n + 2 = Begin(z, j + 1) /\ Before(z, j) + z[j] = Before(z, j + 1) /\ j + 1 \in 1..(Len(z) + 1)
      <4>1. z[j] \in Nat /\ Begin(z, j + 1) = Begin(z, j) + 5 + z[j] /\ Before(z, j + 1) = Before(z, j) + z[j]
        BY <1>11, BeginSteps
      <4>2. j \in 1..(Len(z) + 1) /\ j + 1 \in 1..(Len(z) + 1) BY <1>11
      <4>3. Begin(z, j) \in Nat BY <1>11, <4>2, BeginSteps
      <4>4. PICK x : x = Begin(z, j) OBVIOUS
      <4>5. PICK y : y = z[j] OBVIOUS
      <4>6. x \in Nat /\ y \in Nat /\ n = x + 3 + y BY <1>9, <4>1, <4>3, <4>4, <4>5, Zenon
      <4>7. n + 2 = x + 5 + y BY ONLY <4>6
      <4> QED BY <4>1, <4>2, <4>4, <4>5, <4>7, Zenon
    <3>8. AtSize(f, q.body, n + 2) BY <1>8, <1>9, <3>5, <3>7, Zenon DEF AtSize
    <3>9. At(m, q.state, q.left, q.body, n + 2) BY <1>6, <1>7, <3>5, <3>6, <3>8 DEF At
    <3>10. 2 \in Nat /\ 2 > 0 /\ 2 <= Len(p.pending) BY <1>3, <1>4, <1>5, <1>15
    <3>11. Steps(m, b, p, q) BY <1>2, <3>5, <3>9, <3>10, Advances
    <3> QED BY <3>3, <3>11, Zenon
  <2> QED BY <1>10, <2>4, <2>5 DEF EndView
<1> QED BY <1>14, <1>15

(* An empty line behind a line. *)
Blank == <<CR, LF, CR, LF>>

(* The places in s where one ends. *)
Blanks(s) == {i \in 4..Len(s) : SubSeq(s, i - 3, i) = Blank}

(* How it is recognised from its four bytes. *)
LEMMA BlankIs ==
    ASSUME NEW s \in Seq(ByteSet), NEW i \in 4..Len(s)
    PROVE  /\ SubSeq(s, i - 3, i) = Blank => s[i - 3] = CR
           /\ s[i - 3] = CR /\ s[i - 2] = LF /\ s[i - 1] = CR /\ s[i] = LF => SubSeq(s, i - 3, i) = Blank
<1>1. PICK k : k = i - 4 OBVIOUS
<1>2. k \in Nat /\ i \in Nat /\ k + 1 = i - 3 /\ k + 2 = i - 2 /\ k + 3 = i - 1 /\ k + 4 = i /\ i - k = 4 /\ i <= Len(s) BY <1>1
<1>3. Fits(s, k, i) BY <1>2 DEF Fits
<1>4. PICK t : t = Stretch(s, k, i) OBVIOUS
<1>5. t = SubSeq(s, i - 3, i) BY <1>2, <1>4, Zenon DEF Stretch
<1>6. t \in Seq(ByteSet) /\ Len(t) = i - k /\ \A x \in 1..(i - k) : t[x] = s[k + x]
  BY <1>3, <1>4, StretchOf DEF IsStretch
<1>7. Len(t) = 4 /\ t[1] = s[k + 1] /\ t[2] = s[k + 2] /\ t[3] = s[k + 3] /\ t[4] = s[k + 4] BY <1>2, <1>6
<1>8. Blank \in Seq(ByteSet) /\ Len(Blank) = 4 /\ Blank[1] = CR /\ Blank[2] = LF /\ Blank[3] = CR /\ Blank[4] = LF
  BY ByteKinds DEF Blank
<1>9. ASSUME t = Blank PROVE s[i - 3] = CR BY <1>2, <1>7, <1>8, <1>9, Zenon
<1>10. ASSUME s[i - 3] = CR, s[i - 2] = LF, s[i - 1] = CR, s[i] = LF PROVE t = Blank
  BY <1>2, <1>6, <1>7, <1>8, <1>10, SameSeq
<1> QED BY <1>5, <1>9, <1>10, Zenon

(* Reading the trailers is a step: the message is complete exactly where the *)
(* encoding ends, and bytes behind it are an error.                          *)
LEMMA TrailSteps ==
    ASSUME NEW m, IsChunked(m), NEW b, NEW p, Feeding(m, b, p), p.verdict = "none", p.state = "trailers"
    PROVE  Steps(m, b, p, FeedTrailers(p))
<1>1. PICK w : w = Wire(m) OBVIOUS
<1>2. PICK n : n = b - Len(p.pending) OBVIOUS
<1>3. PICK s : s = p.pending OBVIOUS
<1>4. PICK L : L = Len(s) OBVIOUS
<1>5. /\ n \in Nat /\ b \in Nat /\ L \in Nat /\ n + L = b /\ b <= Len(w) /\ s \in Seq(ByteSet)
      /\ (\A i \in 1..L : s[i] = w[n + i]) /\ At(m, p.state, p.left, p.body, n)
  BY <1>1, <1>2, <1>3, <1>4, PendingIs
<1>6. n <= Follow(m) /\ AtTrailers(Frame(m), p.body, n) BY <1>5 DEF At
<1>7. PICK e : e = Encoded(m) OBVIOUS
<1>8. /\ n = Begin(Frame(m).sizes, Len(Frame(m).sizes) + 1) + 3
      /\ p.body = Captured(Payload(Frame(m)), Total(Frame(m).sizes))
  BY <1>6 DEF AtTrailers
<1>9. TrailView(m, w, e, n) BY <1>1, <1>6, <1>7, <1>8, TrailViewIs
<1>10. PICK T : T = Blanks(s) OBVIOUS
<1>11. FeedTrailers(p) = IF L < 2 THEN Stop(p, "more")
                         ELSE IF Starts(s, <<CR, LF>>) THEN Finish(p, 2)
                         ELSE IF L > HeaderBytes THEN Stop(p, "invalid")
                         ELSE IF T = {} THEN Stop(p, "more")
                         ELSE Finish(p, First(T)) BY <1>3, <1>4, <1>10 DEF FeedTrailers, Blanks, First, Blank
<1>12. \A k : Finish(p, k) = IF L = k THEN Stop(p, "complete") ELSE Stop(p, "invalid")
  BY <1>3, <1>4 DEF Finish
<1>13. HeaderBytes \in Nat /\ HeaderBytes >= 5 BY LimitIs
<1>14. CR # LF /\ Junk # LF /\ Junk # CR BY ByteKinds
<1>15. ASSUME L <= HeaderBytes, m.flaw \in Whole => b < Len(e) PROVE Steps(m, b, p, Stop(p, "more"))
  BY <1>3, <1>4, <1>7, <1>15, StopSteps DEF StopsWith, Verdicts
<1>16. ASSUME m.flaw \notin {"none", "trailer"} PROVE Steps(m, b, p, Stop(p, "invalid"))
  BY <1>16, StopSteps DEF StopsWith, Verdicts
<1>17. ASSUME L <= HeaderBytes, m.flaw \in Whole, b = Len(e) PROVE Steps(m, b, p, Stop(p, "complete"))
  BY <1>3, <1>4, <1>7, <1>8, <1>17, Room, StopSteps DEF StopsWith, Verdicts
<1>18. L >= 2 => (Starts(s, <<CR, LF>>) <=> s[1] = CR /\ s[2] = LF) BY <1>4, <1>5, StartsIs
<1>19. (L >= 1 => s[1] = w[n + 1]) /\ (L >= 2 => s[2] = w[n + 2]) BY <1>5
<1>20. CASE /\ m.flaw \in {"none", "extra"} /\ Len(e) = n + 2 /\ w[n + 1] = CR /\ w[n + 2] = LF
            /\ m.flaw = "none" => Len(w) = n + 2
            /\ m.flaw = "extra" => Len(w) = n + 3
  <2>1. CASE L < 2 BY <1>5, <1>11, <1>13, <1>15, <1>20, <2>1
  <2>2. CASE ~ (L < 2)
    <3>1. Starts(s, <<CR, LF>>) BY <1>5, <1>18, <1>19, <1>20, <2>2
    <3>2. FeedTrailers(p) = Finish(p, 2) BY <1>11, <2>2, <3>1, Zenon
    <3>3. CASE L = 2 BY <1>5, <1>12, <1>13, <1>17, <1>20, <3>2, <3>3 DEF Whole
    <3>4. CASE L # 2 BY <1>5, <1>12, <1>16, <1>20, <2>2, <3>2, <3>4
    <3> QED BY <3>3, <3>4
  <2> QED BY <2>1, <2>2
<1>21. CASE /\ m.flaw = "trailer" /\ Len(e) = n + 5 /\ Len(w) = n + 5 /\ w[n + 1] = Junk /\ w[n + 2] = CR /\ w[n + 3] = LF
            /\ w[n + 4] = CR /\ w[n + 5] = LF
  <2>0. L <= 5 /\ L <= HeaderBytes /\ ~ (L > HeaderBytes) BY <1>5, <1>13, <1>21
  <2>1. CASE L < 2
    <3>1. b < Len(e) BY <1>5, <1>21, <2>1
    <3> QED BY <1>11, <1>15, <2>0, <2>1, <3>1
  <2>2. CASE ~ (L < 2)
    <3>1. s[1] = Junk BY <1>5, <1>19, <1>21, <2>2
    <3>2. ~ Starts(s, <<CR, LF>>) BY <1>5, <1>14, <1>18, <2>2, <3>1
    <3>3. 4 \notin T BY <1>5, <1>10, <1>14, <3>1, BlankIs DEF Blanks
    <3>4. CASE L < 5
      <4>1. T = {} BY <1>4, <1>5, <1>10, <3>3, <3>4 DEF Blanks
      <4>2. b < Len(e) BY <1>5, <1>21, <3>4
      <4> QED BY <1>11, <1>15, <2>0, <2>2, <3>2, <4>1, <4>2
    <3>5. CASE ~ (L < 5)
      <4>1. L = 5 BY <1>5, <2>0, <3>5
      <4>2. s[2] = CR /\ s[3] = LF /\ s[4] = CR /\ s[5] = LF BY <1>5, <1>21, <4>1
      <4>3. 5 \in T
        <5>1. 5 \in 4..Len(s) BY <1>4, <4>1
        <5>2. s[5 - 3] = CR /\ s[5 - 2] = LF /\ s[5 - 1] = CR /\ s[5] = LF BY <4>2
        <5>3. SubSeq(s, 5 - 3, 5) = Blank BY <1>5, <5>1, <5>2, BlankIs
        <5> QED BY <1>10, <5>1, <5>3 DEF Blanks
      <4>4. T \subseteq Nat /\ \A i \in T : 5 <= i BY <1>4, <1>10, <3>3, <4>1 DEF Blanks
      <4>5. First(T) = 5 BY <4>3, <4>4, FirstIs
      <4>6. FeedTrailers(p) = Finish(p, 5) BY <1>11, <2>0, <2>2, <3>2, <4>3, <4>5
      <4>7. b = Len(e) /\ m.flaw \in Whole BY <1>5, <1>21, <4>1 DEF Whole
      <4> QED BY <1>12, <1>17, <2>0, <4>1, <4>6, <4>7
    <3> QED BY <3>4, <3>5
  <2> QED BY <2>1, <2>2
<1>22. CASE m.flaw = "cut" /\ Len(w) = n + 1 BY <1>5, <1>11, <1>13, <1>15, <1>22 DEF Whole
<1>23. CASE m.flaw = "long_trailer" /\ \A i \in (n + 1)..Len(w) : w[i] = Junk
  <2>1. \A i \in 1..L : s[i] = Junk
    <3> SUFFICES ASSUME NEW i \in 1..L PROVE s[i] = Junk OBVIOUS
    <3>1. n + i \in (n + 1)..Len(w) BY <1>5
    <3> QED BY <1>5, <1>23, <3>1
  <2>2. m.flaw \notin Whole /\ m.flaw \notin {"none", "trailer"} BY <1>23 DEF Whole
  <2>3. CASE L < 2 BY <1>5, <1>11, <1>13, <1>15, <2>2, <2>3
  <2>4. CASE ~ (L < 2)
    <3>1. 1 \in 1..L BY <1>5, <2>4
    <3>2. ~ Starts(s, <<CR, LF>>) BY <1>5, <1>14, <1>18, <2>1, <2>4, <3>1
    <3>3. CASE L > HeaderBytes BY <1>11, <1>16, <2>2, <2>4, <3>2, <3>3
    <3>4. CASE ~ (L > HeaderBytes)
      <4>1. T = {}
        <5> SUFFICES ASSUME NEW i \in T PROVE FALSE OBVIOUS
        <5>1. i \in 4..Len(s) /\ SubSeq(s, i - 3, i) = Blank BY <1>10 DEF Blanks
        <5>2. s[i - 3] = CR BY <1>5, <5>1, BlankIs
        <5>3. i - 3 \in 1..L BY <1>4, <1>5, <5>1
        <5> QED BY <1>14, <2>1, <5>2, <5>3
      <4>2. L <= HeaderBytes BY <1>5, <1>13, <3>4
      <4> QED BY <1>11, <1>15, <2>2, <2>4, <3>2, <3>4, <4>1, <4>2
    <3> QED BY <3>3, <3>4
  <2> QED BY <2>3, <2>4
<1> QED BY <1>9, <1>20, <1>21, <1>22, <1>23, Zenon DEF TrailView

(* Every step of the loop is a step. *)
LEMMA StepSteps ==
    ASSUME NEW m, IsChunked(m), NEW b, NEW p, Feeding(m, b, p)
    PROVE  Steps(m, b, p, FeedStep(p))
<1>1. p \in Fed BY DEF Feeding
<1>2. p.state \in States BY <1>1 DEF Fed
<1>3. CASE p.verdict # "none" BY <1>3 DEF FeedStep, Steps
<1>4. CASE p.verdict = "none" BY <1>2, <1>4, SizeSteps, DataSteps, EndSteps, TrailSteps DEF FeedStep, States
<1> QED BY <1>3, <1>4

(* One more round of the loop. *)
Again(x) == CHOOSE p \in {FeedStep(q) : q \in {x}} : TRUE

(* f is the recursive function Feed is defined by, for n rounds from a. *)
IsLoop(a, f, n) == f = [i \in 0..n |-> IF i = 0 THEN a ELSE Again(f[i - 1])]

(* A round is FeedStep. *)
LEMMA AgainIs == ASSUME NEW x PROVE Again(x) = FeedStep(x)
<1>1. {FeedStep(q) : q \in {x}} = {FeedStep(x)} OBVIOUS
<1>2. \E p \in {FeedStep(x)} : TRUE OBVIOUS
<1>3. (CHOOSE p \in {FeedStep(x)} : TRUE) \in {FeedStep(x)} BY <1>2
<1> QED BY <1>1, <1>3 DEF Again

(* The function exists for every number of rounds. *)
LEMMA LoopExists ==
    ASSUME NEW a, NEW m \in Nat
    PROVE  \E f : IsLoop(a, f, m)
<1> DEFINE B == {n \in Nat : ~ \E f : IsLoop(a, f, n)}
<1> SUFFICES ASSUME B # {} PROVE FALSE OBVIOUS
<1>1. PICK n \in B : \A y \in B : n <= y BY LeastNatural
<1>2. n \in Nat /\ ~ \E f : IsLoop(a, f, n) BY <1>1
<1>3. CASE n = 0
  <2> DEFINE g == [i \in 0..0 |-> a]
  <2>1. g = [i \in 0..0 |-> IF i = 0 THEN a ELSE Again(g[i - 1])] OBVIOUS
  <2>2. IsLoop(a, g, 0) BY <2>1 DEF IsLoop
  <2> QED BY <1>2, <1>3, <2>2
<1>4. CASE n # 0
  <2>1. n - 1 \in Nat /\ n - 1 \notin B BY <1>1, <1>2, <1>4
  <2>2. PICK f : IsLoop(a, f, n - 1) BY <2>1
  <2> DEFINE v == Again(f[n - 1])
             g == [i \in 0..n |-> IF i = n THEN v ELSE f[i]]
             h == [i \in 0..n |-> IF i = 0 THEN a ELSE Again(g[i - 1])]
  <2>3. \A i \in 0..n : g[i] = h[i] BY <1>2, <1>4, <2>2 DEF IsLoop
  <2>4. g = h BY <2>3
  <2>5. IsLoop(a, g, n) BY <2>4 DEF IsLoop
  <2> QED BY <2>5, <1>2
<1> QED BY <1>3, <1>4

(* The loop ends with a verdict: each round without one uses bytes up. *)
LEMMA LoopFeeds ==
    ASSUME NEW m, IsChunked(m), NEW b, NEW a, Feeding(m, b, a), NEW n, n = Len(a.pending) + 1, NEW f, IsLoop(a, f, n)
    PROVE  Feeding(m, b, f[n]) /\ f[n].verdict # "none"
<1>0. Len(a.pending) \in Nat BY DEF Feeding, Fed
<1>1. n \in Nat /\ n > 0 BY <1>0
<1>2. \A i \in 0..n : f[i] = IF i = 0 THEN a ELSE Again(f[i - 1]) BY DEF IsLoop
<1> DEFINE G(i) == Feeding(m, b, f[i]) /\ (f[i].verdict # "none" \/ Len(f[i].pending) + i <= Len(a.pending))
           B == {i \in 0..n : ~ G(i)}
<1>3. B = {}
  <2> SUFFICES ASSUME B # {} PROVE FALSE OBVIOUS
  <2>1. PICK k \in B : \A y \in B : k <= y
    <3>1. B \subseteq Nat OBVIOUS
    <3> HIDE DEF B
    <3> QED BY <3>1, LeastNatural
  <2>2. k \in 0..n /\ k \in Nat /\ ~ G(k) BY <2>1
  <2>3. CASE k = 0
    <3>1. f[0] = a BY <1>1, <1>2
    <3> QED BY <1>0, <2>2, <2>3, <3>1
  <2>4. CASE k # 0
    <3>1. k - 1 \in 0..n /\ ~ (k <= k - 1) BY <2>2, <2>4
    <3>2. k - 1 \notin B BY <2>1, <3>1, Zenon
    <3>3. G(k - 1) BY <3>1, <3>2
    <3>4. PICK x : x = f[k - 1] OBVIOUS
    <3>5. f[k] = FeedStep(x) BY <1>2, <2>2, <2>4, <3>4, AgainIs
    <3>6. Feeding(m, b, x) BY <3>3, <3>4
    <3>7. Steps(m, b, x, f[k]) BY <3>5, <3>6, StepSteps
    <3>8. PICK y : y = f[k] OBVIOUS
    <3>9. Feeding(m, b, y) /\ (y.verdict # "none" \/ Len(y.pending) < Len(x.pending)) BY <3>7, <3>8 DEF Steps
    <3>10. CASE x.verdict # "none" BY <2>2, <3>5, <3>8, <3>9, <3>10 DEF FeedStep
    <3>11. CASE x.verdict = "none"
      <4>1. Len(x.pending) + (k - 1) <= Len(a.pending) BY <3>3, <3>4, <3>11
      <4>2. x.pending \in Seq(ByteSet) /\ y.pending \in Seq(ByteSet) BY <3>6, <3>9 DEF Feeding, Fed
      <4>3. CASE y.verdict # "none" BY <2>2, <3>8, <3>9, <4>3
      <4>4. CASE Len(y.pending) < Len(x.pending)
        <5>0. Len(x.pending) \in Nat /\ Len(y.pending) \in Nat BY <4>2
        <5>1. Len(y.pending) + k <= Len(a.pending) BY ONLY <1>0, <2>2, <4>1, <4>4, <5>0
        <5> QED BY <2>2, <3>8, <3>9, <5>1
      <4> QED BY <3>9, <4>3, <4>4
    <3> QED BY <3>10, <3>11
  <2> QED BY <2>3, <2>4
<1>4. n \in 0..n BY <1>1
<1>5. G(n) BY <1>3, <1>4
<1>6. f[n].pending \in Seq(ByteSet) BY <1>5 DEF Feeding, Fed
<1>7. Len(f[n].pending) \in Nat BY <1>6
<1>8. ~ (Len(f[n].pending) + n <= Len(a.pending))
  <2>1. PICK x : x = Len(f[n].pending) OBVIOUS
  <2>2. PICK y : y = Len(a.pending) OBVIOUS
  <2>3. x \in Nat /\ y \in Nat /\ n = y + 1 BY <1>0, <1>7, <2>1, <2>2, Zenon
  <2>4. ~ (x + n <= y) BY ONLY <2>3
  <2> QED BY <2>1, <2>2, <2>4, Zenon
<1> QED BY <1>5, <1>8

(* The parser and its capture as new bytes are added. *)
FeedStart(p, c, bytes) ==
    [state |-> p.state, left |-> p.left, pending |-> p.pending \o bytes, body |-> c, verdict |-> "none"]

(* feed on any stretch of the wire leaves the parser at a boundary and gives *)
(* a verdict the message deserves.                                           *)
LEMMA FeedIs ==
    ASSUME NEW d, NEW h, NEW m, IsChunked(m), NEW b, Feeding(m, b, FeedStart(parser, capture[d], h)),
           parser.pending \in Seq(ByteSet), h \in Seq(ByteSet)
    PROVE  Feeding(m, b, Feed(d, h)) /\ Feed(d, h).verdict # "none"
<1>1. PICK a : a = FeedStart(parser, capture[d], h) OBVIOUS
<1>2. PICK n : n = Len(parser.pending) + Len(h) + 1 OBVIOUS
<1>3. Feed(d, h) = (CHOOSE f : IsLoop(FeedStart(parser, capture[d], h), f, Len(parser.pending) + Len(h) + 1))
                      [Len(parser.pending) + Len(h) + 1]
  BY Zenon DEF Feed, IsLoop, FeedStart, Again
<1>4. PICK f : f = (CHOOSE g : IsLoop(a, g, n)) OBVIOUS
<1>5. Feed(d, h) = f[n] BY <1>1, <1>2, <1>3, <1>4, Zenon
<1>6. Len(parser.pending) \in Nat /\ Len(h) \in Nat OBVIOUS
<1>7. n \in Nat BY <1>2, <1>6
<1>8. \E g : IsLoop(a, g, n) BY <1>7, LoopExists
<1>9. IsLoop(a, f, n) BY <1>4, <1>8, Zenon
<1>10. a.pending = parser.pending \o h BY <1>1 DEF FeedStart
<1>11. Len(a.pending) = Len(parser.pending) + Len(h) BY <1>10, ConcatProperties
<1>12. n = Len(a.pending) + 1 BY <1>2, <1>11
<1>13. Feeding(m, b, a) BY <1>1, Zenon
<1>14. Feeding(m, b, f[n]) /\ f[n].verdict # "none" BY <1>9, <1>12, <1>13, LoopFeeds
<1> QED BY <1>5, <1>14, Zenon

-----------------------------------------------------------------------------
(* One stretch of a body, by framing. *)

(* Types and lengths of wire, encoding and payload. *)
LEMMA WireType ==
    ASSUME NEW m, IsBody(m)
    PROVE  /\ Wire(m) \in Seq(ByteSet) /\ Encoded(m) \in Seq(ByteSet) /\ Len(Wire(m)) \in Nat /\ Len(Encoded(m)) \in Nat
           /\ Payload(m) \in Seq(ByteSet) /\ Len(Payload(m)) = Total(m.sizes) /\ Total(m.sizes) \in Nat
           /\ m.flaw \in {"none", "trailer"} => Len(Wire(m)) = Len(Encoded(m))
           /\ m.flaw \in Whole => Len(Encoded(m)) <= Len(Wire(m))
<1>1. OnWire(m, Wire(m), Encoded(m)) BY WireIs
<1>2. m.sizes \in Seq(Nat) BY BodyIs
<1>3. Wire(m) \in Seq(ByteSet) /\ Encoded(m) \in Seq(ByteSet) BY <1>1 DEF OnWire
<1>4. m.flaw \in {"none", "trailer"} => Len(Wire(m)) = Len(Encoded(m)) BY <1>1 DEF OnWire
<1>5. m.flaw \in Whole => Len(Encoded(m)) <= Len(Wire(m)) BY <1>1, <1>3, <1>4 DEF OnWire, Whole
<1> QED BY <1>2, <1>3, <1>4, <1>5, PayloadIs

(* Without chunks the wire is the payload, one byte more or one less. *)
LEMMA PlainWire ==
    ASSUME NEW m, IsBody(m), m.framing # "chunked"
    PROVE  /\ Encoded(m) = Payload(m) /\ m.flaw \in {"none", "extra", "cut"}
           /\ m.flaw = "none" => Len(Wire(m)) = Total(m.sizes)
           /\ m.flaw = "extra" => Len(Wire(m)) = Total(m.sizes) + 1
           /\ m.flaw = "cut" => Len(Wire(m)) = Total(m.sizes) - 1
           /\ \A k \in Nat : k <= Len(Wire(m)) /\ k <= Total(m.sizes) => Alike(Wire(m), Payload(m), k)
<1>1. OnWire(m, Wire(m), Encoded(m)) BY WireIs
<1>2. m.sizes \in Seq(Nat) /\ m.flaw \in Flaws /\ (m.flaw \in ChunkFlaws => m.framing = "chunked") BY BodyIs
<1>3. Encoded(m) = Payload(m) BY <1>2, EncodedType
<1>4. m.flaw \in {"none", "extra", "cut"} BY <1>2 DEF Flaws, ChunkFlaws
<1>5. PICK w : w = Wire(m) OBVIOUS
<1>6. PICK e : e = Payload(m) OBVIOUS
<1>7. PICK t : t = Total(m.sizes) OBVIOUS
<1>8. OnWire(m, w, e) /\ Len(e) = t /\ t \in Nat BY <1>1, <1>2, <1>3, <1>5, <1>6, <1>7, PayloadIs
<1>9. CASE m.flaw = "none" BY <1>3, <1>4, <1>5, <1>6, <1>7, <1>8, <1>9 DEF OnWire, Alike
<1>10. CASE m.flaw = "extra" BY <1>3, <1>4, <1>5, <1>6, <1>7, <1>8, <1>10 DEF OnWire, Alike
<1>11. CASE m.flaw = "cut" BY <1>3, <1>4, <1>5, <1>6, <1>7, <1>8, <1>11 DEF OnWire, Alike
<1> QED BY <1>4, <1>9, <1>10, <1>11

(* Of no payload nothing is captured. *)
LEMMA NothingCaptured ==
    ASSUME NEW p \in Seq(ByteSet)
    PROVE  Captured(p, 0) = NoCapture /\ NoCapture \in Captures
<1>1. Fits(p, 0, 0) BY DEF Fits
<1>2. 0 <= BodyLimit BY LimitIs
<1>3. Captured(p, 0) = [bytes |-> Stretch(p, 0, 0), whole |-> TRUE] BY <1>1, <1>2, CapturedIs
<1>4. Stretch(p, 0, 0) \in Seq(ByteSet) /\ Len(Stretch(p, 0, 0)) = 0 - 0 BY <1>1, StretchIs
<1>5. Stretch(p, 0, 0) = <<>> BY <1>4
<1>6. NoCapture \in Captures BY DEF NoCapture, Captures
<1> QED BY <1>3, <1>5, <1>6 DEF NoCapture

(* What was sent, as a place on the wire. *)
LEMMA HeadedIs ==
    ASSUME NEW m, IsBody(m), NEW o, Headed(m, o)
    PROVE  o \in Seq(ByteSet) /\ Len(o) \in Nat /\ Len(o) > 0 /\ Len(o) - 1 \in Nat /\ Fits(Wire(m), 0, Len(o) - 1)
<1>1. o \in Seq(ByteSet) /\ Len(o) > 0 /\ Len(o) - 1 <= Len(Wire(m)) BY DEF Headed
<1>2. Wire(m) \in Seq(ByteSet) BY WireType
<1>3. Len(o) - 1 \in Nat /\ Len(o) \in Nat BY <1>1
<1> QED BY <1>1, <1>2, <1>3 DEF Fits

(* What a peer has been sent when it accepts a bytes of h. *)
Sent(o, h, a) == o \o SubSeq(h, 1, a)

(* The next bytes are in hand and belong to the message. *)
Growing(m, o, g, h, a) ==
    /\ IsBody(m) /\ Headed(m, o) /\ g \in Nat /\ g <= Len(Wire(m)) /\ Len(o) - 1 <= g
    /\ h = Stretch(Wire(m), Len(o) - 1, g) /\ a \in 0..Len(h) /\ (m.flaw = "extra" => g <= Len(Encoded(m)))

(* Then what is sent stays a prefix of the message. *)
LEMMA SentIs ==
    ASSUME NEW m, NEW o, NEW g, NEW h, NEW a, Growing(m, o, g, h, a)
    PROVE  Headed(m, Sent(o, h, a)) /\ Len(Sent(o, h, a)) = Len(o) + a
<1>0. /\ IsBody(m) /\ Headed(m, o) /\ g \in Nat /\ g <= Len(Wire(m)) /\ Len(o) - 1 <= g
      /\ h = Stretch(Wire(m), Len(o) - 1, g) /\ a \in 0..Len(h) /\ (m.flaw = "extra" => g <= Len(Encoded(m)))
  BY Zenon DEF Growing
<1>1. PICK w : w = Wire(m) OBVIOUS
<1>2. PICK k : k = Len(o) - 1 OBVIOUS
<1>3. k \in Nat /\ Len(o) = k + 1 /\ o \in Seq(ByteSet) /\ w \in Seq(ByteSet) BY <1>0, <1>1, <1>2, HeadedIs, WireType
<1>4. g \in Nat /\ g <= Len(w) /\ k <= g /\ h = Stretch(w, k, g) BY <1>0, <1>1, <1>2, Zenon
<1>5. Fits(w, k, g) BY <1>3, <1>4 DEF Fits
<1>6. h \in Seq(ByteSet) /\ Len(h) = g - k /\ g - k \in Nat BY <1>4, <1>5, StretchIs
<1>7. a \in Nat /\ a <= g - k BY <1>0, <1>6
<1>8. PICK c : c = k + a OBVIOUS
<1>9. InPart(w, k, g, a) BY <1>5, <1>7 DEF InPart
<1>10. SubSeq(h, 1, a) = Stretch(w, k, c) BY <1>4, <1>8, <1>9, PartOf DEF IsPart
<1>11. c \in Nat /\ c <= g /\ k <= c BY <1>3, <1>4, <1>7, <1>8
<1>12. Fits(w, k, c) BY <1>3, <1>4, <1>11 DEF Fits
<1>13. o = <<HeadByte>> \o Stretch(w, 0, k) BY <1>0, <1>1, <1>2, Zenon DEF Headed
<1>14. PICK x : x = <<HeadByte>> \o Stretch(w, 0, c) OBVIOUS
<1>15. o \o SubSeq(h, 1, a) = x /\ x \in Seq(ByteSet) /\ Len(x) = c + 1 BY <1>10, <1>12, <1>13, <1>14, HeadGrows
<1>16. Len(x) - 1 = c /\ Len(x) > 0 /\ Len(x) = Len(o) + a BY <1>3, <1>7, <1>8, <1>11, <1>15
<1>17. c <= Len(w) BY <1>3, <1>4, <1>11
<1>18. m.flaw = "extra" => c <= Len(Encoded(m)) BY <1>0, <1>4, <1>11, WireType
<1>19. Headed(m, x) BY <1>1, <1>14, <1>15, <1>16, <1>17, <1>18, Zenon DEF Headed
<1> QED BY <1>15, <1>16, <1>19, Zenon DEF Sent

(* Behind the head a body starts with the bytes read too far. *)
LEMMA BodyStarts ==
    ASSUME NEW m, IsBody(m), NEW g, NEW h, HeldAt(m, g, h)
    PROVE  WritingAt(m, <<HeadByte>>, g, h, NoParser, NoCapture, 0)
<1>1. PICK w : w = Wire(m) OBVIOUS
<1>2. w \in Seq(ByteSet) /\ Len(w) \in Nat /\ Payload(m) \in Seq(ByteSet) /\ Total(m.sizes) \in Nat /\ Len(Encoded(m)) \in Nat
  BY <1>1, WireType
<1>3. PICK o : o = <<HeadByte>> OBVIOUS
<1>4. o \in Seq(ByteSet) /\ Len(o) = 1 /\ Len(o) - 1 = 0 /\ Len(o) > 0 BY <1>3, ByteKinds
<1>5. Fits(w, 0, 0) BY <1>2 DEF Fits
<1>6. Stretch(w, 0, 0) = <<>> BY <1>5, StretchIs
<1>7. o = <<HeadByte>> \o Stretch(w, 0, 0)
  <2>1. o \o <<>> = o BY <1>4, ConcatEmptySeq
  <2> QED BY <1>3, <1>6, <2>1, Zenon
<1>8. Headed(m, o) BY <1>1, <1>2, <1>4, <1>7 DEF Headed
<1>9. g \in Nat /\ g <= Len(w) /\ h = Stretch(w, 0, g) BY <1>1, Zenon DEF HeldAt
<1>10. NoCapture = Captured(Payload(m), 0) BY <1>2, NothingCaptured
<1>11. BodyAt(m, 0, NoParser, NoCapture, 0)
  <2>1. ASSUME m.framing = "chunked"
        PROVE  Parsed(m, 0, NoParser, NoCapture) /\ (m.flaw \in Whole => 0 < Len(Encoded(m)))
    <3>1. IsChunked(m) BY <2>1 DEF IsChunked
    <3>2. NoParser.pending = <<>> /\ Len(NoParser.pending) = 0 /\ NoParser.state = "size" /\ NoParser.left = 0 BY DEF NoParser
    <3>3. 0 - 0 = 0 /\ 0 <= HeaderBytes /\ 0 <= 0 BY LimitIs
    <3>4. PICK f : f = Frame(m) OBVIOUS
    <3>5. f.sizes \in Seq(Nat) BY <3>1, <3>4, FrameIs
    <3>6. Begin(f.sizes, 1) = 0 /\ Before(f.sizes, 1) = 0 /\ 1 \in 1..(Len(f.sizes) + 1) BY <3>5, BeginSteps
    <3>7. NoCapture = Captured(Payload(f), 0) BY <3>5, PayloadIs, NothingCaptured
    <3>8. AtSize(f, NoCapture, 0) BY <3>6, <3>7, Zenon DEF AtSize
    <3>9. Follow(m) \in Nat BY <3>1, FollowIs
    <3>10. 0 \in 0..Follow(m) /\ 0 \in Nat BY <3>9
    <3>11. At(m, "size", 0, NoCapture, 0) BY <3>4, <3>8, <3>10, Zenon DEF At
    <3>12. Parsed(m, 0, NoParser, NoCapture) BY <1>1, <1>6, <3>2, <3>3, <3>11, Zenon DEF Parsed
    <3>13. m.sizes \in Seq(Nat) BY BodyIs
    <3>14. Len(Encoded(m)) >= 5 BY <2>1, <3>13, EncodedType
    <3> QED BY <3>12, <3>14, <1>2
  <2>2. 0 <= Total(m.sizes) BY <1>2
  <2> QED BY <1>10, <2>1, <2>2, Zenon DEF BodyAt
<1>12. 0 <= g BY <1>9
<1> QED BY <1>1, <1>3, <1>4, <1>8, <1>9, <1>11, <1>12, Zenon DEF WritingAt

(* The capture of a body without chunks grows with each stretch. *)
LEMMA LengthBody ==
    ASSUME NEW m, IsBody(m), m.framing \in {"length", "eof"}, NEW o, NEW g, NEW h, NEW p, NEW c, NEW n,
           WritingAt(m, o, g, h, p, c, n), g <= Total(m.sizes)
    PROVE  /\ AppendBody(c, h) = Captured(Payload(m), g) /\ Captured(Payload(m), g) \in Captures
           /\ Len(Captured(Payload(m), g).bytes) <= BodyLimit
           /\ m.flaw = "extra" => g <= Len(Encoded(m))
           /\ g = Total(m.sizes) => m.flaw \in Whole
<1>1. PICK w : w = Wire(m) OBVIOUS
<1>2. PICK y : y = Payload(m) OBVIOUS
<1>3. PICK t : t = Total(m.sizes) OBVIOUS
<1>4. PICK k : k = Len(o) - 1 OBVIOUS
<1>5. w \in Seq(ByteSet) /\ y \in Seq(ByteSet) /\ Len(y) = t /\ t \in Nat BY <1>1, <1>2, <1>3, WireType
<1>6. /\ Headed(m, o) /\ g \in Nat /\ g <= Len(w) /\ k <= g /\ h = Stretch(w, k, g) /\ BodyAt(m, k, p, c, n)
  BY <1>1, <1>4, Zenon DEF WritingAt
<1>7. k \in Nat BY <1>4, <1>6, HeadedIs
<1>8. g <= t BY <1>3, Zenon
<1>9. m.framing # "chunked" OBVIOUS
<1>10. Alike(w, y, g) /\ Encoded(m) = y /\ m.flaw \in {"none", "extra", "cut"} /\ (m.flaw = "cut" => Len(w) = t - 1)
  BY <1>1, <1>2, <1>3, <1>6, <1>8, <1>9, PlainWire
<1>11. Fits(w, k, g) /\ Fits(y, k, g) /\ Fits(y, 0, g) BY <1>5, <1>6, <1>7, <1>8 DEF Fits
<1>12. h = Stretch(y, k, g) BY <1>6, <1>10, <1>11, SameStretch
<1>13. c = Captured(y, k) BY <1>2, <1>6, Zenon DEF BodyAt
<1>14. AppendBody(Captured(y, k), Stretch(y, k, g)) = Captured(y, g) BY <1>5, <1>11, CaptureGrows
<1>15. Captured(y, g) \in Captures /\ Len(Captured(y, g).bytes) <= BodyLimit BY <1>5, <1>11, CapturedIs DEF Captures
<1>16. g <= Len(Encoded(m)) BY <1>5, <1>8, <1>10
<1>17. g = t => m.flaw \in Whole BY <1>5, <1>6, <1>10 DEF Whole
<1> QED BY <1>2, <1>3, <1>12, <1>13, <1>14, <1>15, <1>16, <1>17, Zenon

(* The parser of a chunked body may be fed the bytes in hand. *)
LEMMA ChunkedStart ==
    ASSUME NEW m, IsBody(m), m.framing = "chunked", NEW o, NEW g, NEW h, NEW p, NEW c, NEW n,
           WritingAt(m, o, g, h, p, c, n), c \in Captures, p.pending \in Seq(ByteSet)
    PROVE  Feeding(m, g, FeedStart(p, c, h)) /\ h \in Seq(ByteSet)
<1>1. PICK w : w = Wire(m) OBVIOUS
<1>4. PICK k : k = Len(o) - 1 OBVIOUS
<1>5. w \in Seq(ByteSet) BY <1>1, WireType
<1>6. /\ Headed(m, o) /\ g \in Nat /\ g <= Len(w) /\ k <= g /\ h = Stretch(w, k, g) /\ BodyAt(m, k, p, c, n)
  BY <1>1, <1>4, Zenon DEF WritingAt
<1>7. k \in Nat BY <1>4, <1>6, HeadedIs
<1>8. PICK L : L = Len(p.pending) OBVIOUS
<1>9. L \in Nat BY <1>8
<1>10. PICK x : x = k - L OBVIOUS
<1>11. L <= k /\ p.pending = Stretch(w, x, k) /\ At(m, p.state, p.left, c, x)
  BY <1>1, <1>6, <1>8, <1>10 DEF BodyAt, Parsed
<1>12. x \in Nat /\ x <= k BY <1>7, <1>9, <1>10, <1>11
<1>13. Fits(w, x, k) /\ Fits(w, k, g) BY <1>5, <1>6, <1>7, <1>12 DEF Fits
<1>14. PICK q : q = p.pending \o h OBVIOUS
<1>15. q = Stretch(w, x, g) /\ Fits(w, x, g)
  <2>1. Stretch(w, x, k) \o Stretch(w, k, g) = Stretch(w, x, g) /\ Fits(w, x, g) BY <1>13, StretchCat
  <2> QED BY <1>6, <1>11, <1>14, <2>1, Zenon
<1>16. q \in Seq(ByteSet) /\ Len(q) = g - x BY <1>15, StretchIs
<1>17. h \in Seq(ByteSet) BY <1>6, <1>13, StretchIs
<1>18. g - Len(q) = x /\ Len(q) <= g BY <1>6, <1>7, <1>12, <1>16
<1>19. p.state \in States /\ p.left \in Nat BY <1>11 DEF At, States
<1>20. PICK a : a = FeedStart(p, c, h) OBVIOUS
<1>21. /\ a.state = p.state /\ a.left = p.left /\ a.pending = q /\ a.body = c /\ a.verdict = "none" /\ a \in Fed
  BY <1>14, <1>16, <1>19, <1>20 DEF FeedStart, Fed, Verdicts
<1>22. Outcome(m, g, a) BY <1>21 DEF Outcome
<1>23. Feeding(m, g, a) BY <1>1, <1>6, <1>11, <1>15, <1>18, <1>21, <1>22, Zenon DEF Feeding
<1> QED BY <1>17, <1>20, <1>23, Zenon

(* The parser without capture and verdict. *)
ParserOf(p) == [state |-> p.state, left |-> p.left, pending |-> p.pending]

(* What a verdict says of a chunked body. *)
LEMMA FedIs ==
    ASSUME NEW m, IsBody(m), m.framing = "chunked", NEW g, NEW q, Feeding(m, g, q)
    PROVE  /\ q.body \in Captures /\ Len(q.body.bytes) <= BodyLimit
           /\ ParserOf(q) \in [state : States, left : Nat, pending : Seq(ByteSet)]
           /\ q.verdict = "more" => BodyAt(m, g, ParserOf(q), q.body, g)
           /\ q.verdict = "more" /\ m.flaw = "extra" => g <= Len(Encoded(m))
           /\ q.verdict = "more" /\ m.flaw \in Whole => g < Len(Encoded(m))
           /\ q.verdict \in {"more", "complete"} => Len(q.pending) <= HeaderBytes
           /\ q.verdict = "complete" => m.flaw \in Whole /\ g = Len(Encoded(m)) /\ q.body = Captured(Payload(m), Total(m.sizes))
           /\ q.verdict = "invalid" => m.flaw \notin {"none", "trailer"}
<1>0. IsChunked(m) BY DEF IsChunked
<1>1. q \in Fed /\ g \in Nat BY DEF Feeding
<1>2. q.body \in Captures /\ q.state \in States /\ q.left \in Nat /\ q.pending \in Seq(ByteSet) BY <1>1 DEF Fed
<1>3. Outcome(m, g, q) BY DEF Feeding
<1>4. Len(Encoded(m)) \in Nat BY WireType
<1>5. Len(q.body.bytes) <= BodyLimit
  <2>1. PICK f : f = Frame(m) OBVIOUS
  <2>2. PICK n : n = g - Len(q.pending) OBVIOUS
  <2>3. At(m, q.state, q.left, q.body, n) BY <2>2, Zenon DEF Feeding
  <2>4. f.sizes \in Seq(Nat) BY <1>0, <2>1, FrameIs
  <2>5. PICK y : y = Payload(f) OBVIOUS
  <2>6. PICK s : s = f.sizes OBVIOUS
  <2>7. y \in Seq(ByteSet) /\ Len(y) = Total(s) /\ Total(s) \in Nat /\ s \in Seq(Nat) BY <2>4, <2>5, <2>6, PayloadIs
  <2>8. \E k \in Nat : k <= Total(s) /\ q.body = Captured(y, k)
    <3>1. CASE q.state = "size" /\ AtSize(Frame(m), q.body, n)
      BY <2>1, <2>5, <2>6, <2>7, <3>1, BeginSteps, BeforeBound DEF AtSize
    <3>2. CASE q.state = "data" /\ AtData(Frame(m), q.left, q.body, n)
      <4>1. PICK j \in 1..Len(s) : q.left \in 1..s[j] /\ q.body = Captured(y, Before(s, j) + (s[j] - q.left))
        BY <2>1, <2>5, <2>6, <3>2 DEF AtData
      <4>2. j \in 1..(Len(s) + 1) /\ j + 1 \in 1..(Len(s) + 1) BY <2>7
      <4>3. Before(s, j) \in Nat /\ s[j] \in Nat /\ Before(s, j + 1) = Before(s, j) + s[j] BY <2>7, <4>2, BeginSteps
      <4>4. Before(s, j + 1) <= Total(s) BY <2>7, <4>2, BeforeBound
      <4>5. PICK a : a = Before(s, j) OBVIOUS
      <4>6. PICK z : z = s[j] OBVIOUS
      <4>7. PICK l : l = q.left OBVIOUS
      <4>8. a \in Nat /\ z \in Nat /\ a + z <= Total(s) /\ l \in 1..z BY <4>1, <4>3, <4>4, <4>5, <4>6, <4>7, Zenon
      <4>9. a + (z - l) \in Nat /\ a + (z - l) <= Total(s) BY ONLY <2>7, <4>8
      <4> QED BY <4>1, <4>5, <4>6, <4>7, <4>9, Zenon
    <3>3. CASE q.state = "terminator" /\ AtEnd(Frame(m), q.body, n)
      <4>1. PICK j \in 1..Len(s) : q.body = Captured(y, Before(s, j) + s[j]) BY <2>1, <2>5, <2>6, <3>3 DEF AtEnd
      <4>2. j + 1 \in 1..(Len(s) + 1) BY <2>7
      <4>3. Before(s, j + 1) = Before(s, j) + s[j] BY <2>7, BeginSteps
      <4>4. Before(s, j + 1) <= Total(s) /\ Before(s, j + 1) \in Nat BY <2>7, <4>2, BeforeBound, BeginSteps
      <4> QED BY <4>1, <4>3, <4>4, Zenon
    <3>4. CASE q.state = "trailers" /\ AtTrailers(Frame(m), q.body, n)
      BY <2>1, <2>5, <2>6, <2>7, <3>4 DEF AtTrailers
    <3> QED BY <2>3, <3>1, <3>2, <3>3, <3>4, Zenon DEF At
  <2>9. PICK k \in Nat : k <= Total(s) /\ q.body = Captured(y, k) BY <2>8
  <2>10. PICK kk : kk = k OBVIOUS
  <2>11. Fits(y, 0, kk) BY <2>7, <2>9, <2>10 DEF Fits
  <2>12. Len(Captured(y, kk).bytes) <= BodyLimit BY <2>7, <2>11, CapturedIs
  <2> QED BY <2>9, <2>10, <2>12, Zenon
<1>6. PICK r : r = ParserOf(q) OBVIOUS
<1>7. r.state = q.state /\ r.left = q.left /\ r.pending = q.pending /\ r \in [state : States, left : Nat, pending : Seq(ByteSet)]
  BY <1>2, <1>6 DEF ParserOf
<1>8. ASSUME q.verdict = "more"
      PROVE  BodyAt(m, g, r, q.body, g) /\ Len(q.pending) <= HeaderBytes /\ (m.flaw \in Whole => g < Len(Encoded(m)))
  BY <1>3, <1>7, <1>8 DEF Outcome, Feeding, Parsed, BodyAt
<1>9. "extra" \in Whole BY DEF Whole
<1>10. q.verdict = "more" /\ m.flaw = "extra" => g <= Len(Encoded(m)) BY <1>1, <1>4, <1>8, <1>9
<1>11. ASSUME q.verdict = "complete"
       PROVE  /\ Len(q.pending) <= HeaderBytes
              /\ m.flaw \in Whole /\ g = Len(Encoded(m)) /\ q.body = Captured(Payload(m), Total(m.sizes))
  BY <1>3, <1>11, Zenon DEF Outcome
<1>12. q.verdict = "invalid" => m.flaw \notin {"none", "trailer"} BY <1>3, Zenon DEF Outcome
<1> QED BY <1>2, <1>5, <1>6, <1>7, <1>8, <1>10, <1>11, <1>12

(* A message without flaw is not yet all here. *)
Unfinished(m, g) ==
    m.flaw \in {"none", "trailer"} /\ m.framing \notin {"eof", "invalid"} => g # Len(Wire(m))

(* The total of no sizes is 0. *)
LEMMA NothingTotal == Total(<<>>) = 0
<1>1. <<>> \in Seq(Nat) OBVIOUS
<1> QED BY <1>1, TotalSteps

(* The bytes in hand, their type and number. *)
LEMMA WritingIs ==
    ASSUME NEW m, IsBody(m), NEW o, NEW g, NEW h, NEW p, NEW c, NEW n, WritingAt(m, o, g, h, p, c, n)
    PROVE  /\ Headed(m, o) /\ g \in Nat /\ g <= Len(Wire(m)) /\ Len(o) - 1 <= g /\ Len(o) - 1 \in Nat /\ Len(o) \in Nat
           /\ h = Stretch(Wire(m), Len(o) - 1, g) /\ BodyAt(m, Len(o) - 1, p, c, n)
           /\ h \in Seq(ByteSet) /\ Len(h) = g - (Len(o) - 1) /\ Len(h) \in Nat
           /\ h = <<>> => g = Len(o) - 1
<1>1. /\ Headed(m, o) /\ g \in Nat /\ g <= Len(Wire(m)) /\ Len(o) - 1 <= g
      /\ h = Stretch(Wire(m), Len(o) - 1, g) /\ BodyAt(m, Len(o) - 1, p, c, n)
  BY Zenon DEF WritingAt
<1>2. PICK k : k = Len(o) - 1 OBVIOUS
<1>3. k \in Nat /\ Len(o) \in Nat BY <1>1, <1>2, HeadedIs
<1>4. PICK w : w = Wire(m) OBVIOUS
<1>5. w \in Seq(ByteSet) BY <1>4, WireType
<1>6. Fits(w, k, g) BY <1>1, <1>2, <1>3, <1>4, <1>5 DEF Fits
<1>7. h = Stretch(w, k, g) BY <1>1, <1>2, <1>4, Zenon
<1>8. h \in Seq(ByteSet) /\ Len(h) = g - k /\ g - k \in Nat BY <1>6, <1>7, StretchIs
<1>9. h = <<>> => g = k
  <2>1. Len(<<>>) = 0 OBVIOUS
  <2> QED BY ONLY <2>1, <1>1, <1>3, <1>8
<1> QED BY <1>1, <1>2, <1>3, <1>8, <1>9, Zenon

(* A message without body is complete, or something follows it that is not *)
(* forwarded.                                                              *)
LEMMA EmptyBody ==
    ASSUME NEW m, IsBody(m), m.framing = "empty", NEW o, NEW g, NEW h, NEW p, NEW c, NEW n, WritingAt(m, o, g, h, p, c, n)
    PROVE  (h = <<>> => DoneAt(m, o, c, n)) /\ (h # <<>> => Unfinished(m, g))
<1>1. m.sizes = <<>> BY BodyIs
<1>2. Total(m.sizes) = 0 BY <1>1, NothingTotal
<1>3. /\ Headed(m, o) /\ g \in Nat /\ g <= Len(Wire(m)) /\ Len(h) = g - (Len(o) - 1) /\ Len(o) - 1 <= g
      /\ BodyAt(m, Len(o) - 1, p, c, n) /\ h \in Seq(ByteSet)
  BY WritingIs
<1>4. Len(o) - 1 = 0 /\ c = NoCapture /\ n = 0 BY <1>3 DEF BodyAt
<1>5. Payload(m) \in Seq(ByteSet) BY WireType
<1>6. c = Captured(Payload(m), Total(m.sizes)) BY <1>2, <1>4, <1>5, NothingCaptured
<1>7. m.flaw \in {"none", "extra"} BY BodyIs DEF Flaws, ChunkFlaws
<1>8. DoneAt(m, o, c, n) BY <1>3, <1>4, <1>6, <1>7 DEF DoneAt, Whole
<1>9. ASSUME h # <<>> PROVE Unfinished(m, g)
  <2>1. Len(h) > 0 BY <1>3, <1>9
  <2>2. g > 0 BY ONLY <2>1, <1>3, <1>4
  <2>3. m.flaw = "none" => Len(Wire(m)) = 0 BY <1>2, PlainWire
  <2>4. m.flaw # "none" BY <1>3, <2>2, <2>3
  <2> QED BY <1>7, <2>4 DEF Unfinished
<1> QED BY <1>8, <1>9

(* A stretch of a body with Content-Length, of which the peer accepts a *)
(* bytes: complete at the announced length, and not before.             *)
LEMMA LengthWrites ==
    ASSUME NEW m, IsBody(m), m.framing = "length", NEW o, NEW g, NEW h, NEW p, NEW c, NEW n, WritingAt(m, o, g, h, p, c, n),
           NEW a \in 0..Len(h), g <= Total(m.sizes)
    PROVE  /\ Headed(m, Sent(o, h, a)) /\ Sent(o, h, a) \in Seq(ByteSet)
           /\ AppendBody(c, h) \in Captures /\ Len(AppendBody(c, h).bytes) <= BodyLimit
           /\ g = Total(m.sizes) => /\ DoneAt(m, Sent(o, h, a), AppendBody(c, h), (Total(m.sizes) - Len(h)) + a)
                                    /\ (Total(m.sizes) - Len(h)) + a \in Nat
           /\ g # Total(m.sizes) => Unfinished(m, g)
           /\ g # Total(m.sizes) /\ a = Len(h) => ReadingAt(m, Sent(o, h, a), g, p, AppendBody(c, h), n)
<1>1. /\ Headed(m, o) /\ g \in Nat /\ g <= Len(Wire(m)) /\ Len(o) - 1 <= g /\ Len(o) - 1 \in Nat /\ Len(o) \in Nat
      /\ h = Stretch(Wire(m), Len(o) - 1, g) /\ BodyAt(m, Len(o) - 1, p, c, n)
      /\ h \in Seq(ByteSet) /\ Len(h) = g - (Len(o) - 1) /\ Len(h) \in Nat
  BY WritingIs
<1>2. /\ AppendBody(c, h) = Captured(Payload(m), g) /\ Captured(Payload(m), g) \in Captures
      /\ Len(Captured(Payload(m), g).bytes) <= BodyLimit
      /\ m.flaw = "extra" => g <= Len(Encoded(m))
      /\ g = Total(m.sizes) => m.flaw \in Whole
  BY LengthBody
<1>3. PICK x : x = Sent(o, h, a) OBVIOUS
<1>4. Headed(m, x) /\ Len(x) = Len(o) + a
  <2>1. Growing(m, o, g, h, a) BY <1>1, <1>2, Zenon DEF Growing
  <2> QED BY <1>3, <2>1, SentIs
<1>5. x \in Seq(ByteSet) BY <1>4, HeadedIs
<1>6. PICK t : t = Total(m.sizes) OBVIOUS
<1>7. t \in Nat /\ Len(Wire(m)) \in Nat /\ g <= t BY <1>6, WireType
<1>8. PICK z : z = Len(o) OBVIOUS
<1>9. PICK y : y = Len(h) OBVIOUS
<1>10. z \in Nat /\ y \in Nat /\ y = g - (z - 1) /\ z - 1 <= g /\ z - 1 \in Nat /\ a \in 0..y /\ Len(x) = z + a
  BY <1>1, <1>4, <1>8, <1>9, Zenon
<1>11. g = t => (t - y) + a = Len(x) - 1 /\ (t - y) + a \in Nat BY ONLY <1>1, <1>7, <1>10
<1>12. a = y => g = Len(x) - 1 BY ONLY <1>1, <1>7, <1>10
<1>13. g = t => DoneAt(m, x, AppendBody(c, h), (t - y) + a) BY <1>2, <1>4, <1>6, <1>11, Zenon DEF DoneAt
<1>14. g # t => Unfinished(m, g) BY <1>6, PlainWire DEF Unfinished
<1>15. ASSUME g # t, a = y PROVE ReadingAt(m, x, g, p, AppendBody(c, h), n)
  <2>1. g < t BY ONLY <1>1, <1>7, <1>15
  <2>2. BodyAt(m, g, p, AppendBody(c, h), n) BY <1>2, <1>6, <1>7 DEF BodyAt
  <2> QED BY <1>4, <1>6, <1>12, <1>15, <2>1, <2>2 DEF ReadingAt
<1> QED BY <1>2, <1>3, <1>4, <1>5, <1>6, <1>9, <1>11, <1>13, <1>14, <1>15, Zenon

(* A stretch of a body that ends with the connection. *)
LEMMA EofWrites ==
    ASSUME NEW m, IsBody(m), m.framing = "eof", NEW o, NEW g, NEW h, NEW p, NEW c, NEW n, WritingAt(m, o, g, h, p, c, n),
           NEW a \in 0..Len(h)
    PROVE  /\ Headed(m, Sent(o, h, a)) /\ Sent(o, h, a) \in Seq(ByteSet)
           /\ AppendBody(c, h) \in Captures /\ Len(AppendBody(c, h).bytes) <= BodyLimit /\ n + Len(h) \in Nat
           /\ a = Len(h) => ReadingAt(m, Sent(o, h, a), g, p, AppendBody(c, h), n + Len(h))
<1>1. /\ Headed(m, o) /\ g \in Nat /\ g <= Len(Wire(m)) /\ Len(o) - 1 <= g /\ Len(o) - 1 \in Nat /\ Len(o) \in Nat
      /\ h = Stretch(Wire(m), Len(o) - 1, g) /\ BodyAt(m, Len(o) - 1, p, c, n)
      /\ h \in Seq(ByteSet) /\ Len(h) = g - (Len(o) - 1) /\ Len(h) \in Nat
  BY WritingIs
<1>2. m.flaw = "none" BY BodyIs DEF Flaws, ChunkFlaws
<1>20. m.flaw = "extra" => g <= Len(Encoded(m)) BY <1>2
<1>3. g <= Total(m.sizes) BY <1>1, <1>2, PlainWire
<1>4. /\ AppendBody(c, h) = Captured(Payload(m), g) /\ Captured(Payload(m), g) \in Captures
      /\ Len(Captured(Payload(m), g).bytes) <= BodyLimit
  BY <1>3, LengthBody
<1>5. PICK x : x = Sent(o, h, a) OBVIOUS
<1>6. Headed(m, x) /\ Len(x) = Len(o) + a
  <2>1. Growing(m, o, g, h, a) BY <1>1, <1>20, Zenon DEF Growing
  <2> QED BY <1>5, <2>1, SentIs
<1>7. x \in Seq(ByteSet) BY <1>6, HeadedIs
<1>8. n = Len(o) - 1 BY <1>1 DEF BodyAt
<1>9. n + Len(h) = g BY ONLY <1>1, <1>8
<1>10. a = Len(h) => g = Len(x) - 1 BY ONLY <1>1, <1>6
<1>11. BodyAt(m, g, p, AppendBody(c, h), g) BY <1>3, <1>4 DEF BodyAt
<1>12. a = Len(h) => ReadingAt(m, x, g, p, AppendBody(c, h), g) BY <1>6, <1>10, <1>11 DEF ReadingAt
<1> QED BY <1>1, <1>4, <1>5, <1>6, <1>7, <1>9, <1>12, Zenon

(* A stretch of a chunked body that the parser let pass. *)
LEMMA ChunkedWrites ==
    ASSUME NEW m, IsBody(m), m.framing = "chunked", NEW o, NEW g, NEW h, NEW p, NEW c, NEW n, WritingAt(m, o, g, h, p, c, n),
           NEW a \in 0..Len(h), NEW q, Feeding(m, g, q), q.verdict \in {"more", "complete"}
    PROVE  /\ Headed(m, Sent(o, h, a)) /\ Sent(o, h, a) \in Seq(ByteSet) /\ n + a \in Nat /\ n + Len(h) \in Nat
           /\ q.verdict = "complete" => DoneAt(m, Sent(o, h, a), q.body, n + a)
           /\ q.verdict = "more" => Unfinished(m, g)
           /\ q.verdict = "more" /\ a = Len(h) => ReadingAt(m, Sent(o, h, a), g, ParserOf(q), q.body, n + Len(h))
<1>1. /\ Headed(m, o) /\ g \in Nat /\ g <= Len(Wire(m)) /\ Len(o) - 1 <= g /\ Len(o) - 1 \in Nat /\ Len(o) \in Nat
      /\ h = Stretch(Wire(m), Len(o) - 1, g) /\ BodyAt(m, Len(o) - 1, p, c, n)
      /\ h \in Seq(ByteSet) /\ Len(h) = g - (Len(o) - 1) /\ Len(h) \in Nat
  BY WritingIs
<1>2. /\ q.verdict = "more" => BodyAt(m, g, ParserOf(q), q.body, g)
      /\ q.verdict = "more" /\ m.flaw = "extra" => g <= Len(Encoded(m))
      /\ q.verdict = "more" /\ m.flaw \in Whole => g < Len(Encoded(m))
      /\ q.verdict = "complete" => m.flaw \in Whole /\ g = Len(Encoded(m)) /\ q.body = Captured(Payload(m), Total(m.sizes))
  BY FedIs
<1>3. m.flaw = "extra" => g <= Len(Encoded(m)) BY <1>1, <1>2
<1>4. PICK x : x = Sent(o, h, a) OBVIOUS
<1>5. Headed(m, x) /\ Len(x) = Len(o) + a
  <2>1. Growing(m, o, g, h, a) BY <1>1, <1>3, Zenon DEF Growing
  <2> QED BY <1>4, <2>1, SentIs
<1>6. x \in Seq(ByteSet) BY <1>5, HeadedIs
<1>7. n = Len(o) - 1 BY <1>1 DEF BodyAt
<1>8. n + Len(h) = g BY ONLY <1>1, <1>7
<1>9. a = Len(h) => g = Len(x) - 1 BY ONLY <1>1, <1>5
<1>10. a \in Nat BY ONLY <1>1, a \in 0..Len(h)
<1>11. n + a = Len(x) - 1 /\ n + a \in Nat BY ONLY <1>1, <1>5, <1>7, <1>10
<1>12. q.verdict = "complete" => DoneAt(m, x, q.body, n + a) BY <1>2, <1>5, <1>11, Zenon DEF DoneAt
<1>13. ASSUME q.verdict = "more" PROVE Unfinished(m, g) BY <1>1, <1>2, <1>13, WireType DEF Whole, Unfinished
<1>14. q.verdict = "more" /\ a = Len(h) => ReadingAt(m, x, g, ParserOf(q), q.body, g)
  BY <1>2, <1>5, <1>9 DEF ReadingAt
<1> QED BY <1>1, <1>4, <1>5, <1>6, <1>8, <1>11, <1>12, <1>13, <1>14, Zenon

(* With nothing in hand a chunked body is read on. *)
LEMMA ChunkedWaits ==
    ASSUME NEW m, IsBody(m), m.framing = "chunked", NEW o, NEW g, NEW p, NEW c, NEW n, WritingAt(m, o, g, <<>>, p, c, n)
    PROVE  ReadingAt(m, o, g, p, c, n)
<1>1. Headed(m, o) /\ BodyAt(m, Len(o) - 1, p, c, n) /\ g = Len(o) - 1 BY WritingIs
<1> QED BY <1>1 DEF ReadingAt

(* A read of k bytes puts the next k bytes of the wire in hand. *)
LEMMA ReadsMore ==
    ASSUME NEW m, IsBody(m), NEW o, NEW g, NEW p, NEW c, NEW n, ReadingAt(m, o, g, p, c, n), NEW k \in Nat, g + k <= Len(Wire(m))
    PROVE  /\ WritingAt(m, o, g + k, SubSeq(Wire(m), g + 1, g + k), p, c, n) /\ g + k \in Nat
           /\ SubSeq(Wire(m), g + 1, g + k) \in Seq(ByteSet)
<1>1. Headed(m, o) /\ g = Len(o) - 1 /\ BodyAt(m, g, p, c, n) BY DEF ReadingAt
<1>2. g \in Nat BY <1>1, HeadedIs
<1>3. PICK b : b = g + k OBVIOUS
<1>4. b \in Nat /\ g <= b /\ b <= Len(Wire(m)) BY <1>2, <1>3
<1>5. PICK h : h = Stretch(Wire(m), g, b) OBVIOUS
<1>6. SubSeq(Wire(m), g + 1, b) = h BY <1>5 DEF Stretch
<1>7. WritingAt(m, o, b, h, p, c, n) BY <1>1, <1>4, <1>5, Zenon DEF WritingAt
<1>8. h \in Seq(ByteSet) BY <1>7, WritingIs
<1> QED BY <1>3, <1>4, <1>6, <1>7, <1>8, Zenon

(* While a body is read it is unfinished, unless it ends with the *)
(* connection.                                                    *)
LEMMA ReadingIs ==
    ASSUME NEW m, IsBody(m), NEW o, NEW g, NEW p, NEW c, NEW n, ReadingAt(m, o, g, p, c, n)
    PROVE  /\ Unfinished(m, g) /\ g \in Nat
           /\ m.framing = "eof" /\ g = Len(Wire(m)) => DoneAt(m, o, c, n)
<1>1. /\ Headed(m, o) /\ g = Len(o) - 1 /\ BodyAt(m, g, p, c, n) /\ m.framing \in {"length", "chunked", "eof"}
      /\ m.framing = "length" => g < Total(m.sizes)
  BY DEF ReadingAt
<1>2. g \in Nat BY <1>1, HeadedIs
<1>3. /\ Len(Encoded(m)) \in Nat /\ (m.flaw \in {"none", "trailer"} => Len(Wire(m)) = Len(Encoded(m)))
      /\ Total(m.sizes) \in Nat
  BY WireType
<1>4. Unfinished(m, g) BY <1>1, <1>2, <1>3, PlainWire DEF Unfinished, BodyAt, Whole
<1>5. ASSUME m.framing = "eof", g = Len(Wire(m)) PROVE DoneAt(m, o, c, n)
  BY <1>1, <1>5, BodyIs, PlainWire DEF Flaws, ChunkFlaws, BodyAt, DoneAt, Whole
<1> QED BY <1>2, <1>4, <1>5

-----------------------------------------------------------------------------
(* A step that forwards, reads or ends a body. *)

(* A chunk parser. *)
Parsers == [state : States, left : Nat, pending : Seq(ByteSet)]

(* g is f in all directions but d. *)
Changed(f, g, d, T) == g \in [Directions -> T] /\ \A e \in Directions \ {d} : g[e] = f[e]

(* The phase that follows a complete message. *)
After(d) == IF d = "request" THEN "provider_head" ELSE "closing"

(* A step of direction d's body: it fails, reads on, writes or completes, *)
(* and leaves the rest alone.                                             *)
BodyStep(d) ==
    /\ UNCHANGED <<script, continued, gone, tunnelVars, hookVars>>
    /\ hand' \in Seq(ByteSet) /\ agentError' \in BOOLEAN
    /\ Changed(got, got', d, Nat) /\ Changed(out, out', d, Seq(ByteSet))
    /\ Changed(capture, capture', d, Captures) /\ Changed(counted, counted', d, Nat)
    /\ parser' \in Parsers /\ Len(parser'.pending) <= HeaderBytes
    /\ got'[d] <= Len(Wire(msg[d])) /\ Len(capture'[d].bytes) <= BodyLimit /\ Headed(msg[d], out'[d])
    /\ \/ phase' = "failed" /\ (d = "response" => Unfinished(msg[d], got'[d]))
       \/ phase' = Reading(d) /\ ReadingAt(msg[d], out'[d], got'[d], parser', capture'[d], counted'[d])
       \/ phase' = Writing(d) /\ WritingAt(msg[d], out'[d], got'[d], hand', parser', capture'[d], counted'[d])
       \/ phase' = After(d) /\ DoneAt(msg[d], out'[d], capture'[d], counted'[d])

(* One entry was replaced. *)
LEMMA Updated ==
    ASSUME NEW T, NEW f \in [Directions -> T], NEW d \in Directions, NEW v \in T, NEW g, g = [f EXCEPT ![d] = v]
    PROVE  Changed(f, g, d, T) /\ g[d] = v
BY DEF Changed

(* No entry was. *)
LEMMA Kept == ASSUME NEW T, NEW f \in [Directions -> T], NEW d PROVE Changed(f, f, d, T)
BY DEF Changed

(* The types, for one direction. *)
LEMMA TypedIs ==
    ASSUME Typed, NEW d \in Directions
    PROVE  /\ phase \in Phases /\ hand \in Seq(ByteSet) /\ Len(hand) \in Nat
           /\ got \in [Directions -> Nat] /\ out \in [Directions -> Seq(ByteSet)] /\ counted \in [Directions -> Nat]
           /\ capture \in [Directions -> Captures] /\ parser \in Parsers
           /\ agentError \in BOOLEAN /\ continued \in BOOLEAN /\ gone \subseteq {"agent", "provider"}
           /\ got[d] <= Len(Wire(msg[d])) /\ Len(capture[d].bytes) <= BodyLimit
           /\ out[d] = <<>> \/ Headed(msg[d], out[d])
           /\ Len(parser.pending) <= HeaderBytes
           /\ got[d] \in Nat /\ out[d] \in Seq(ByteSet) /\ counted[d] \in Nat /\ capture[d] \in Captures
           /\ parser.pending \in Seq(ByteSet)
<1>1. /\ phase \in Phases /\ hand \in Seq(ByteSet)
      /\ got \in [Directions -> Nat] /\ out \in [Directions -> Seq(ByteSet)] /\ counted \in [Directions -> Nat]
      /\ capture \in [Directions -> Captures] /\ parser \in Parsers
      /\ agentError \in BOOLEAN /\ continued \in BOOLEAN /\ gone \subseteq {"agent", "provider"}
      /\ Len(parser.pending) <= HeaderBytes
  BY Zenon DEF Typed, Captures, Parsers, States
<1>2. got[d] <= Len(Wire(msg[d])) /\ Len(capture[d].bytes) <= BodyLimit /\ (out[d] = <<>> \/ Headed(msg[d], out[d]))
  BY Zenon DEF Typed
<1>3. got[d] \in Nat /\ out[d] \in Seq(ByteSet) /\ counted[d] \in Nat /\ capture[d] \in Captures /\ Len(hand) \in Nat BY <1>1
<1>4. parser.pending \in Seq(ByteSet) BY <1>1 DEF Parsers
<1> QED BY <1>1, <1>2, <1>3, <1>4

(* A peer accepts at most what it is offered. *)
LEMMA AcceptsIs == ASSUME NEW d, NEW h, Len(h) \in Nat, NEW a \in Accepts(d, h) PROVE a \in 0..Len(h)
BY DEF Accepts

(* A write in the middle of a body is accepted whole, or the flow fails. *)
LEMMA MidBytes ==
    ASSUME NEW d, NEW count, ForwardBytes(d, count), Len(hand) \in Nat
    PROVE  \E a \in 0..Len(hand) :
              /\ out' = [out EXCEPT ![d] = Sent(out[d], hand, a)] /\ agentError' = agentError
              /\ \/ a = Len(hand) /\ phase' = Reading(d) /\ counted' = [counted EXCEPT ![d] = count]
                 \/ phase' = "failed" /\ counted' = counted
<1>1. PICK a \in Accepts(d, hand) :
        /\ Accept(d, hand, a)
        /\ IF a = Len(hand) THEN phase' = Reading(d) /\ counted' = [counted EXCEPT ![d] = count]
                            ELSE Fail /\ UNCHANGED counted
        /\ UNCHANGED agentError
  BY DEF ForwardBytes
<1>2. a \in 0..Len(hand) BY <1>1, AcceptsIs
<1>3. out' = [out EXCEPT ![d] = Sent(out[d], hand, a)] BY <1>1, Zenon DEF Accept, Sent
<1> QED BY <1>1, <1>2, <1>3, Zenon DEF Fail

(* The last write is counted as far as it was accepted; an agent that left *)
(* does not fail the flow.                                                 *)
LEMMA LastBytes ==
    ASSUME NEW d \in Directions, NEW before, ForwardLastBytes(d, before), Len(hand) \in Nat, agentError \in BOOLEAN
    PROVE  \E a \in 0..Len(hand) :
              /\ out' = [out EXCEPT ![d] = Sent(out[d], hand, a)] /\ agentError' \in BOOLEAN
              /\ counted' = [counted EXCEPT ![d] = before + a]
              /\ phase' = After(d) \/ (phase' = "failed" /\ d = "request")
<1>1. PICK a \in Accepts(d, hand) :
        /\ Accept(d, hand, a)
        /\ counted' = [counted EXCEPT ![d] = before + a]
        /\ IF a = Len(hand) THEN Complete(d) /\ UNCHANGED agentError
           ELSE IF d = "request" THEN Fail /\ UNCHANGED agentError
           ELSE Complete(d) /\ agentError' = TRUE
  BY DEF ForwardLastBytes
<1>2. a \in 0..Len(hand) BY <1>1, AcceptsIs
<1>3. out' = [out EXCEPT ![d] = Sent(out[d], hand, a)] BY <1>1, Zenon DEF Accept, Sent
<1>4. Complete(d) => phase' = After(d) \/ (phase' = "failed" /\ d = "request") BY DEF Complete, After, Fail, Directions
<1>5. Fail => phase' = "failed" BY DEF Fail
<1>6. agentError' \in BOOLEAN /\ (phase' = After(d) \/ (phase' = "failed" /\ d = "request")) BY <1>1, <1>4, <1>5
<1> QED BY <1>1, <1>2, <1>3, <1>6

(* Refusing a body is a step of it. *)
LEMMA RejectSteps ==
    ASSUME Typed, NEW d \in Directions, RejectBody, UNCHANGED <<script, hand, got, continued, gone, tunnelVars, hookVars>>,
           Headed(msg[d], out[d]), Unfinished(msg[d], got[d])
    PROVE  BodyStep(d)
<1>1. /\ phase' = "failed" /\ out' = out /\ capture' = capture /\ counted' = counted /\ parser' = parser
      /\ agentError' = agentError /\ hand' = hand /\ got' = got
  BY DEF RejectBody, Fail
<1>2. UNCHANGED <<script, continued, gone, tunnelVars, hookVars>> OBVIOUS
<1>3. /\ Changed(got, got', d, Nat) /\ Changed(out, out', d, Seq(ByteSet))
      /\ Changed(capture, capture', d, Captures) /\ Changed(counted, counted', d, Nat)
  BY <1>1, TypedIs, Kept
<1>4. /\ hand' \in Seq(ByteSet) /\ agentError' \in BOOLEAN /\ parser' \in Parsers /\ Len(parser'.pending) <= HeaderBytes
      /\ got'[d] <= Len(Wire(msg[d])) /\ Len(capture'[d].bytes) <= BodyLimit
  BY <1>1, TypedIs
<1> QED BY <1>1, <1>2, <1>3, <1>4, Zenon DEF BodyStep

(* So is forwarding no body. *)
LEMMA EmptySteps ==
    ASSUME Typed, NEW d \in Directions, IsBody(msg[d]), msg[d].framing = "empty",
           WritingAt(msg[d], out[d], got[d], hand, parser, capture[d], counted[d]),
           ForwardEmptyBody(d), UNCHANGED <<script, hand, got, continued, gone, tunnelVars, hookVars>>
    PROVE  BodyStep(d)
<1>1. /\ hand = <<>> => DoneAt(msg[d], out[d], capture[d], counted[d])
      /\ hand # <<>> => Unfinished(msg[d], got[d])
  BY EmptyBody
<1>2. Headed(msg[d], out[d]) BY WritingIs
<1>3. CASE hand # <<>> /\ RejectBody BY <1>1, <1>2, <1>3, RejectSteps
<1>4. ASSUME hand = <<>>,
             \/ Complete(d) /\ UNCHANGED agentError
             \/ /\ Sink(d) \in gone
                /\ IF d = "request" THEN Fail /\ UNCHANGED agentError ELSE Complete(d) /\ agentError' = TRUE,
             UNCHANGED <<out, capture, counted, parser>>
      PROVE  BodyStep(d) BY <1>1, <1>2, <1>4, TypedIs, Kept DEF Complete, After, Fail, Directions, BodyStep
<1> QED BY <1>3, <1>4, Zenon DEF ForwardEmptyBody

(* What makes a write a step of the body. *)
LEMMA WriteSteps ==
    ASSUME Typed, NEW d \in Directions, UNCHANGED <<script, hand, got, continued, gone, tunnelVars, hookVars>>,
           NEW x \in Seq(ByteSet), out' = [out EXCEPT ![d] = x], Headed(msg[d], x),
           NEW c \in Captures, capture' = [capture EXCEPT ![d] = c], Len(c.bytes) <= BodyLimit,
           NEW n \in Nat, counted' = [counted EXCEPT ![d] = n],
           NEW p \in Parsers, parser' = p, Len(p.pending) <= HeaderBytes, agentError' \in BOOLEAN,
           \/ phase' = "failed" /\ (d = "response" => Unfinished(msg[d], got[d]))
           \/ phase' = Reading(d) /\ ReadingAt(msg[d], x, got[d], p, c, n)
           \/ phase' = After(d) /\ DoneAt(msg[d], x, c, n)
    PROVE  BodyStep(d)
<1>1. hand' = hand /\ got' = got /\ UNCHANGED <<script, continued, gone, tunnelVars, hookVars>> OBVIOUS
<1>2. Changed(got, got', d, Nat) BY <1>1, TypedIs, Kept
<1>3. Changed(out, out', d, Seq(ByteSet)) /\ out'[d] = x BY TypedIs, Updated
<1>4. Changed(capture, capture', d, Captures) /\ capture'[d] = c BY TypedIs, Updated
<1>5. Changed(counted, counted', d, Nat) /\ counted'[d] = n BY TypedIs, Updated
<1>6. hand' \in Seq(ByteSet) /\ got'[d] <= Len(Wire(msg[d])) /\ got'[d] = got[d] BY <1>1, TypedIs
<1>7. \/ phase' = "failed" /\ (d = "response" => Unfinished(msg[d], got'[d]))
      \/ phase' = Reading(d) /\ ReadingAt(msg[d], out'[d], got'[d], parser', capture'[d], counted'[d])
      \/ phase' = After(d) /\ DoneAt(msg[d], out'[d], capture'[d], counted'[d])
  BY <1>3, <1>4, <1>5, <1>6, Zenon
<1>8. parser' \in Parsers /\ Len(parser'.pending) <= HeaderBytes /\ Len(capture'[d].bytes) <= BodyLimit /\ Headed(msg[d], out'[d])
  BY <1>3, <1>4
<1> QED BY <1>1, <1>2, <1>3, <1>4, <1>5, <1>6, <1>7, <1>8, Zenon DEF BodyStep

(* A count may be replaced by itself. *)
LEMMA SameCount == ASSUME Typed, NEW d \in Directions PROVE counted = [counted EXCEPT ![d] = counted[d]] /\ counted[d] \in Nat
<1>1. counted \in [Directions -> Nat] BY TypedIs
<1> QED BY <1>1

(* Forwarding a stretch of a body with Content-Length is a step of it. *)
LEMMA LengthSteps ==
    ASSUME Typed, NEW d \in Directions, IsBody(msg[d]), msg[d].framing = "length",
           WritingAt(msg[d], out[d], got[d], hand, parser, capture[d], counted[d]),
           ForwardContentLengthBody(d), UNCHANGED <<script, hand, got, continued, gone, tunnelVars, hookVars>>
    PROVE  BodyStep(d)
<1>1. PICK t : t = Total(msg[d].sizes) OBVIOUS
<1>2. t \in Nat BY <1>1, WireType
<1>3. got[d] \in Nat /\ Len(hand) \in Nat /\ agentError \in BOOLEAN BY TypedIs
<1>4. CASE got[d] > t
  BY <1>1, <1>2, <1>3, <1>4, WritingIs, PlainWire, RejectSteps DEF ForwardContentLengthBody, Unfinished
<1>5. CASE ~(got[d] > t)
  <2>1. PICK c : c = AppendBody(capture[d], hand) OBVIOUS
  <2>2. /\ capture' = [capture EXCEPT ![d] = AppendBody(@, hand)]
        /\ IF got[d] = t THEN ForwardLastBytes(d, t - Len(hand)) ELSE ForwardBytes(d, counted[d])
        /\ UNCHANGED parser
    BY <1>1, <1>5 DEF ForwardContentLengthBody
  <2>3. capture' = [capture EXCEPT ![d] = c] BY <2>1, <2>2, Zenon
  <2>4. got[d] <= t BY <1>2, <1>3, <1>5
  <2>5. parser' = parser /\ parser \in Parsers /\ Len(parser.pending) <= HeaderBytes BY <2>2, TypedIs
  <2>6. ASSUME NEW a \in 0..Len(hand)
        PROVE  /\ Headed(msg[d], Sent(out[d], hand, a)) /\ Sent(out[d], hand, a) \in Seq(ByteSet)
               /\ c \in Captures /\ Len(c.bytes) <= BodyLimit
               /\ got[d] = t => /\ DoneAt(msg[d], Sent(out[d], hand, a), c, (t - Len(hand)) + a)
                                /\ (t - Len(hand)) + a \in Nat
               /\ got[d] # t => Unfinished(msg[d], got[d])
               /\ got[d] # t /\ a = Len(hand) => ReadingAt(msg[d], Sent(out[d], hand, a), got[d], parser, c, counted[d])
    BY <1>1, <2>1, <2>4, <2>6, LengthWrites
  <2>7. CASE got[d] = t
    <3>1. ForwardLastBytes(d, t - Len(hand)) BY <2>2, <2>7
    <3>2. PICK a \in 0..Len(hand) :
              /\ out' = [out EXCEPT ![d] = Sent(out[d], hand, a)] /\ agentError' \in BOOLEAN
              /\ counted' = [counted EXCEPT ![d] = (t - Len(hand)) + a]
              /\ phase' = After(d) \/ (phase' = "failed" /\ d = "request")
      BY <1>3, <3>1, LastBytes
    <3>3. d = "request" => d # "response" OBVIOUS
    <3>4. \/ phase' = "failed" /\ (d = "response" => Unfinished(msg[d], got[d]))
          \/ phase' = After(d) /\ DoneAt(msg[d], Sent(out[d], hand, a), c, (t - Len(hand)) + a)
      BY <2>6, <2>7, <3>2, <3>3, Zenon
    <3> QED BY <2>3, <2>5, <2>6, <2>7, <3>2, <3>4, WriteSteps
  <2>8. CASE got[d] # t
    <3>1. ForwardBytes(d, counted[d]) BY <2>2, <2>8
    <3>2. PICK a \in 0..Len(hand) :
              /\ out' = [out EXCEPT ![d] = Sent(out[d], hand, a)] /\ agentError' = agentError
              /\ \/ a = Len(hand) /\ phase' = Reading(d) /\ counted' = [counted EXCEPT ![d] = counted[d]]
                 \/ phase' = "failed" /\ counted' = counted
      BY <1>3, <3>1, MidBytes
    <3>3. counted' = [counted EXCEPT ![d] = counted[d]] /\ counted[d] \in Nat BY <3>2, SameCount
    <3>4. \/ phase' = "failed" /\ (d = "response" => Unfinished(msg[d], got[d]))
          \/ phase' = Reading(d) /\ ReadingAt(msg[d], Sent(out[d], hand, a), got[d], parser, c, counted[d])
      BY <2>6, <2>8, <3>2, Zenon
    <3> QED BY <1>3, <2>3, <2>5, <2>6, <3>2, <3>3, <3>4, WriteSteps
  <2> QED BY <2>7, <2>8
<1> QED BY <1>4, <1>5

(* So is forwarding one of a body that ends with the connection. *)
LEMMA EofSteps ==
    ASSUME Typed, NEW d \in Directions, IsBody(msg[d]), msg[d].framing = "eof",
           WritingAt(msg[d], out[d], got[d], hand, parser, capture[d], counted[d]),
           ForwardUntilEofBody(d), UNCHANGED <<script, hand, got, continued, gone, tunnelVars, hookVars>>
    PROVE  BodyStep(d)
<1>1. got[d] \in Nat /\ Len(hand) \in Nat /\ agentError \in BOOLEAN BY TypedIs
<1>2. PICK c : c = AppendBody(capture[d], hand) OBVIOUS
<1>3. /\ capture' = [capture EXCEPT ![d] = c] /\ ForwardBytes(d, counted[d] + Len(hand)) /\ parser' = parser
  BY <1>2, Zenon DEF ForwardUntilEofBody
<1>4. parser \in Parsers /\ Len(parser.pending) <= HeaderBytes BY TypedIs
<1>5. PICK a \in 0..Len(hand) :
          /\ out' = [out EXCEPT ![d] = Sent(out[d], hand, a)] /\ agentError' = agentError
          /\ \/ a = Len(hand) /\ phase' = Reading(d) /\ counted' = [counted EXCEPT ![d] = counted[d] + Len(hand)]
             \/ phase' = "failed" /\ counted' = counted
  BY <1>1, <1>3, MidBytes
<1>6. /\ Headed(msg[d], Sent(out[d], hand, a)) /\ Sent(out[d], hand, a) \in Seq(ByteSet)
      /\ c \in Captures /\ Len(c.bytes) <= BodyLimit /\ counted[d] + Len(hand) \in Nat
      /\ a = Len(hand) => ReadingAt(msg[d], Sent(out[d], hand, a), got[d], parser, c, counted[d] + Len(hand))
  BY <1>2, EofWrites
<1>7. Unfinished(msg[d], got[d]) BY DEF Unfinished
<1>8. CASE phase' = "failed" /\ counted' = counted
  <2>1. counted' = [counted EXCEPT ![d] = counted[d]] /\ counted[d] \in Nat BY <1>8, SameCount
  <2> QED BY <1>1, <1>3, <1>4, <1>5, <1>6, <1>7, <1>8, <2>1, WriteSteps
<1>9. CASE a = Len(hand) /\ phase' = Reading(d) /\ counted' = [counted EXCEPT ![d] = counted[d] + Len(hand)]
  BY <1>1, <1>3, <1>4, <1>5, <1>6, <1>9, WriteSteps
<1> QED BY <1>5, <1>8, <1>9

(* So is forwarding one of a chunked body: the parser sees it first, and *)
(* nothing it refuses is sent.                                           *)
LEMMA ChunkedSteps ==
    ASSUME Typed, NEW d \in Directions, IsBody(msg[d]), msg[d].framing = "chunked",
           WritingAt(msg[d], out[d], got[d], hand, parser, capture[d], counted[d]),
           ForwardChunkedBody(d), UNCHANGED <<script, hand, got, continued, gone, tunnelVars, hookVars>>
    PROVE  BodyStep(d)
<1>1. got[d] \in Nat /\ Len(hand) \in Nat /\ agentError \in BOOLEAN /\ capture[d] \in Captures /\ parser.pending \in Seq(ByteSet)
  BY TypedIs
<1>2. PICK q : q = Feed(d, hand) OBVIOUS
<1>3. IF hand = <<>>
      THEN phase' = Reading(d) /\ UNCHANGED <<out, capture, counted, parser, agentError>>
      ELSE IF q.verdict = "invalid" THEN RejectBody
      ELSE /\ capture' = [capture EXCEPT ![d] = q.body]
           /\ IF q.verdict = "complete" THEN ForwardLastBytes(d, counted[d]) ELSE ForwardBytes(d, counted[d] + Len(hand))
           /\ parser' = ParserOf(q)
  BY <1>2, Zenon DEF ForwardChunkedBody, ParserOf
<1>4. Headed(msg[d], out[d]) /\ hand \in Seq(ByteSet) BY WritingIs
<1>5. CASE hand = <<>> BY <1>3, <1>4, <1>5, ChunkedWaits, TypedIs, Kept DEF BodyStep
<1>6. CASE hand # <<>>
  <2>1. Feeding(msg[d], got[d], FeedStart(parser, capture[d], hand)) BY <1>1, ChunkedStart
  <2>2. IsChunked(msg[d]) BY DEF IsChunked
  <2>3. Feeding(msg[d], got[d], q) /\ q.verdict # "none" BY <1>1, <1>2, <1>4, <2>1, <2>2, FeedIs
  <2>4. q.verdict \in {"more", "complete", "invalid"} BY <2>3 DEF Feeding, Fed, Verdicts
  <2>5. /\ q.body \in Captures /\ Len(q.body.bytes) <= BodyLimit /\ ParserOf(q) \in Parsers
        /\ q.verdict \in {"more", "complete"} => Len(q.pending) <= HeaderBytes
        /\ q.verdict = "invalid" => msg[d].flaw \notin {"none", "trailer"}
    BY <2>3, FedIs DEF Parsers
  <2>6. ParserOf(q).pending = q.pending BY DEF ParserOf
  <2>7. CASE q.verdict = "invalid" BY <1>3, <1>4, <1>6, <2>5, <2>7, RejectSteps DEF Unfinished
  <2>8. ASSUME q.verdict \in {"more", "complete"}, NEW a \in 0..Len(hand)
        PROVE  /\ Headed(msg[d], Sent(out[d], hand, a)) /\ Sent(out[d], hand, a) \in Seq(ByteSet)
               /\ counted[d] + a \in Nat /\ counted[d] + Len(hand) \in Nat
               /\ q.verdict = "complete" => DoneAt(msg[d], Sent(out[d], hand, a), q.body, counted[d] + a)
               /\ q.verdict = "more" => Unfinished(msg[d], got[d])
               /\ q.verdict = "more" /\ a = Len(hand) =>
                     ReadingAt(msg[d], Sent(out[d], hand, a), got[d], ParserOf(q), q.body, counted[d] + Len(hand))
    BY <2>3, <2>8, ChunkedWrites
  <2>9. CASE q.verdict = "complete"
    <3>1. /\ capture' = [capture EXCEPT ![d] = q.body] /\ ForwardLastBytes(d, counted[d]) /\ parser' = ParserOf(q)
      BY <1>3, <1>6, <2>9
    <3>2. PICK a \in 0..Len(hand) :
              /\ out' = [out EXCEPT ![d] = Sent(out[d], hand, a)] /\ agentError' \in BOOLEAN
              /\ counted' = [counted EXCEPT ![d] = counted[d] + a]
              /\ phase' = After(d) \/ (phase' = "failed" /\ d = "request")
      BY <1>1, <3>1, LastBytes
    <3>3. d = "request" => d # "response" OBVIOUS
    <3>4. \/ phase' = "failed" /\ (d = "response" => Unfinished(msg[d], got[d]))
          \/ phase' = After(d) /\ DoneAt(msg[d], Sent(out[d], hand, a), q.body, counted[d] + a)
      BY <2>8, <2>9, <3>2, <3>3
    <3>5. Len(ParserOf(q).pending) <= HeaderBytes BY <2>5, <2>6, <2>9
    <3> QED BY <2>5, <2>8, <2>9, <3>1, <3>2, <3>4, <3>5, WriteSteps
  <2>10. CASE q.verdict = "more"
    <3>1. /\ capture' = [capture EXCEPT ![d] = q.body] /\ ForwardBytes(d, counted[d] + Len(hand)) /\ parser' = ParserOf(q)
      BY <1>3, <1>6, <2>10
    <3>2. PICK a \in 0..Len(hand) :
              /\ out' = [out EXCEPT ![d] = Sent(out[d], hand, a)] /\ agentError' = agentError
              /\ \/ a = Len(hand) /\ phase' = Reading(d) /\ counted' = [counted EXCEPT ![d] = counted[d] + Len(hand)]
                 \/ phase' = "failed" /\ counted' = counted
      BY <1>1, <3>1, MidBytes
    <3>3. Len(ParserOf(q).pending) <= HeaderBytes BY <2>5, <2>6, <2>10
    <3>4. CASE phase' = "failed" /\ counted' = counted
      <4>1. counted' = [counted EXCEPT ![d] = counted[d]] /\ counted[d] \in Nat BY <3>4, SameCount
      <4> QED BY <1>1, <2>5, <2>8, <2>10, <3>1, <3>2, <3>3, <3>4, <4>1, WriteSteps
    <3>5. CASE a = Len(hand) /\ phase' = Reading(d) /\ counted' = [counted EXCEPT ![d] = counted[d] + Len(hand)]
      BY <1>1, <2>5, <2>8, <2>10, <3>1, <3>2, <3>3, <3>5, WriteSteps
    <3> QED BY <3>2, <3>4, <3>5
  <2> QED BY <2>4, <2>7, <2>9, <2>10
<1> QED BY <1>5, <1>6

(* Every message is a body. *)
LEMMA MessageIs == ASSUME ScriptOK, NEW d \in Directions PROVE IsBody(msg[d])
BY DEF ScriptOK

(* There are two directions. *)
LEMMA TwoWays == "request" \in Directions /\ "response" \in Directions /\ \A d \in Directions : d = "request" \/ d = "response"
BY DEF Directions

(* What a writing phase says of its direction. *)
LEMMA AtWriting ==
    ASSUME RequestPhase, ResponsePhase, NEW d \in Directions, phase = Writing(d)
    PROVE  WritingAt(msg[d], out[d], got[d], hand, parser, capture[d], counted[d])
<1>1. CASE d = "request" BY <1>1 DEF Writing, RequestPhase
<1>2. CASE d = "response" BY <1>2 DEF Writing, ResponsePhase
<1> QED BY <1>1, <1>2, TwoWays

(* What a reading phase says of its direction. *)
LEMMA AtReading ==
    ASSUME RequestPhase, ResponsePhase, NEW d \in Directions, phase = Reading(d)
    PROVE  ReadingAt(msg[d], out[d], got[d], parser, capture[d], counted[d])
<1>1. CASE d = "request" BY <1>1 DEF Reading, RequestPhase
<1>2. CASE d = "response" BY <1>2 DEF Reading, ResponsePhase
<1> QED BY <1>1, <1>2, TwoWays

(* ForwardBody is a step of the body. *)
LEMMA ForwardSteps ==
    ASSUME RelayInv, NEW d \in Directions, ForwardBody(d)
    PROVE  BodyStep(d)
<1>1. Typed /\ ScriptOK /\ RequestPhase /\ ResponsePhase BY DEF RelayInv
<1>2. IsBody(msg[d]) BY <1>1, MessageIs
<1>3. phase = Writing(d) /\ UNCHANGED <<script, hand, got, continued, gone, tunnelVars, hookVars>> BY DEF ForwardBody
<1>4. WritingAt(msg[d], out[d], got[d], hand, parser, capture[d], counted[d]) BY <1>1, <1>3, AtWriting
<1>5. msg[d].framing \in {"empty", "length", "chunked", "eof", "invalid"} BY <1>2, BodyIs
<1>6. CASE msg[d].framing = "empty" BY <1>1, <1>2, <1>3, <1>4, <1>6, EmptySteps DEF ForwardBody
<1>7. CASE msg[d].framing = "length" BY <1>1, <1>2, <1>3, <1>4, <1>7, LengthSteps DEF ForwardBody
<1>8. CASE msg[d].framing = "chunked" BY <1>1, <1>2, <1>3, <1>4, <1>8, ChunkedSteps DEF ForwardBody
<1>9. CASE msg[d].framing = "eof" BY <1>1, <1>2, <1>3, <1>4, <1>9, EofSteps DEF ForwardBody
<1>10. CASE msg[d].framing = "invalid"
  BY <1>1, <1>2, <1>3, <1>4, <1>10, WritingIs, RejectSteps DEF ForwardBody, Unfinished
<1> QED BY <1>5, <1>6, <1>7, <1>8, <1>9, <1>10

(* ReadBody is a step of the body. *)
LEMMA ReadSteps ==
    ASSUME RelayInv, NEW d \in Directions, ReadBody(d)
    PROVE  BodyStep(d)
<1>1. Typed /\ ScriptOK /\ RequestPhase /\ ResponsePhase BY DEF RelayInv
<1>2. IsBody(msg[d]) BY <1>1, MessageIs
<1>3. phase = Reading(d) /\ phase' = Writing(d) /\ UNCHANGED <<script, continued, gone, tunnelVars, hookVars>>
  BY DEF ReadBody
<1>4. out' = out /\ parser' = parser /\ capture' = capture /\ counted' = counted /\ agentError' = agentError BY DEF ReadBody
<1>5. PICK k \in 1..Readable(d) : hand' = Bytes(d, k) /\ got' = [got EXCEPT ![d] = @ + k] BY DEF ReadBody
<1>6. ReadingAt(msg[d], out[d], got[d], parser, capture[d], counted[d]) BY <1>1, <1>3, AtReading
<1>7. got[d] \in Nat /\ got[d] <= Len(Wire(msg[d])) /\ got \in [Directions -> Nat] BY <1>1, TypedIs
<1>8. Len(Wire(msg[d])) \in Nat /\ Total(msg[d].sizes) \in Nat BY <1>2, WireType
<1>9. k \in Nat /\ got[d] + k <= Len(Wire(msg[d]))
  <2>1. PICK w : w = Len(Wire(msg[d])) OBVIOUS
  <2>2. PICK t : t = Total(msg[d].sizes) OBVIOUS
  <2>3. PICK g : g = got[d] OBVIOUS
  <2>4. Due(d) = 0 \/ Due(d) = w - g BY <2>1, <2>3 DEF Due
  <2>5. Readable(d) = Due(d) \/ (Readable(d) = t - g /\ Due(d) > t - g) BY <2>2, <2>3 DEF Readable
  <2>6. w \in Nat /\ t \in Nat /\ g \in Nat /\ g <= w BY <1>7, <1>8, <2>1, <2>2, <2>3
  <2>7. k \in 1..Readable(d) BY <1>5
  <2>8. k \in Nat /\ g + k <= w BY ONLY <2>4, <2>5, <2>6, <2>7
  <2> QED BY <2>1, <2>3, <2>8
<1>10. PICK b : b = got[d] + k OBVIOUS
<1>11. PICK h : h = SubSeq(Wire(msg[d]), got[d] + 1, got[d] + k) OBVIOUS
<1>12. WritingAt(msg[d], out[d], b, h, parser, capture[d], counted[d]) /\ b \in Nat /\ h \in Seq(ByteSet)
  BY <1>2, <1>6, <1>9, <1>10, <1>11, ReadsMore
<1>13. hand' = h BY <1>5, <1>11 DEF Bytes
<1>14. got' = [got EXCEPT ![d] = b] BY <1>5, <1>10
<1>15. Changed(got, got', d, Nat) /\ got'[d] = b BY <1>7, <1>12, <1>14, Updated
<1>16. Changed(out, out', d, Seq(ByteSet)) /\ Changed(capture, capture', d, Captures) /\ Changed(counted, counted', d, Nat)
  BY <1>1, <1>4, TypedIs, Kept
<1>17. /\ parser' \in Parsers /\ Len(parser'.pending) <= HeaderBytes
       /\ Len(capture'[d].bytes) <= BodyLimit /\ agentError' \in BOOLEAN
  BY <1>1, <1>4, TypedIs
<1>18. got'[d] <= Len(Wire(msg[d])) /\ hand' \in Seq(ByteSet) BY <1>9, <1>10, <1>12, <1>13, <1>15
<1>19. Headed(msg[d], out'[d]) BY <1>4, <1>6, Zenon DEF ReadingAt
<1>20. WritingAt(msg[d], out'[d], got'[d], hand', parser', capture'[d], counted'[d]) BY <1>4, <1>12, <1>13, <1>15, Zenon
<1> QED BY <1>3, <1>15, <1>16, <1>17, <1>18, <1>19, <1>20, Zenon DEF BodyStep

(* ReadBodyEnds is a step of the body: only a body without length and chunks *)
(* is complete when the connection ends.                                     *)
LEMMA ReadEndSteps ==
    ASSUME RelayInv, NEW d \in Directions, ReadBodyEnds(d)
    PROVE  BodyStep(d)
<1>1. Typed /\ ScriptOK /\ RequestPhase /\ ResponsePhase BY DEF RelayInv
<1>2. IsBody(msg[d]) BY <1>1, MessageIs
<1>3. phase = Reading(d) /\ UNCHANGED <<script, continued, gone, tunnelVars, hookVars>> BY DEF ReadBodyEnds
<1>4. /\ hand' = hand /\ got' = got /\ out' = out /\ parser' = parser /\ capture' = capture /\ counted' = counted
      /\ agentError' = agentError
  BY DEF ReadBodyEnds, bodyVars
<1>5. ReadingAt(msg[d], out[d], got[d], parser, capture[d], counted[d]) BY <1>1, <1>3, AtReading
<1>6. /\ Unfinished(msg[d], got[d]) /\ Headed(msg[d], out[d])
      /\ msg[d].framing = "eof" /\ got[d] = Len(Wire(msg[d])) => DoneAt(msg[d], out[d], capture[d], counted[d])
  BY <1>2, <1>5, ReadingIs DEF ReadingAt
<1>7. Complete(d) => phase' = After(d) \/ phase' = "failed" BY DEF Complete, After, Fail, Directions
<1>8. Fail => phase' = "failed" BY DEF Fail
<1>9. phase' = "failed" \/ (phase' = After(d) /\ msg[d].framing = "eof" /\ got[d] = Len(Wire(msg[d])))
  BY <1>7, <1>8 DEF ReadBodyEnds
<1>10. /\ Changed(got, got', d, Nat) /\ Changed(out, out', d, Seq(ByteSet))
       /\ Changed(capture, capture', d, Captures) /\ Changed(counted, counted', d, Nat)
  BY <1>1, <1>4, TypedIs, Kept
<1>11. /\ hand' \in Seq(ByteSet) /\ parser' \in Parsers /\ Len(parser'.pending) <= HeaderBytes
       /\ got'[d] <= Len(Wire(msg[d])) /\ Len(capture'[d].bytes) <= BodyLimit /\ agentError' \in BOOLEAN
  BY <1>1, <1>4, TypedIs
<1>12. /\ Headed(msg[d], out'[d])
       /\ \/ phase' = "failed" /\ (d = "response" => Unfinished(msg[d], got'[d]))
          \/ phase' = After(d) /\ DoneAt(msg[d], out'[d], capture'[d], counted'[d])
  BY <1>4, <1>6, <1>9
<1> QED BY <1>3, <1>10, <1>11, <1>12, Zenon DEF BodyStep

(* What both peers will send does not change. *)
LEMMA ScriptKept == ASSUME ScriptOK, UNCHANGED script PROVE ScriptOK'
BY DEF ScriptOK, script

(* Steps that leave the tunnel and the hook alone keep Hooked. *)
LEMMA HooksKept ==
    ASSUME Hooked, UNCHANGED <<script, tunnelVars, hookVars>>,
           phase' \notin Ended \cup {"tunnel"} => phase \notin Ended \cup {"tunnel"}, phase' = "tunnel" => phase = "tunnel"
    PROVE  Hooked'
<1>1. /\ tunnel' = tunnel /\ taken' = taken /\ passed' = passed /\ sequence' = sequence
      /\ queue' = queue /\ observed' = observed /\ offered' = offered
  BY DEF script, tunnelVars, hookVars
<1>2. \A d, i : Offers(d, i)' = Offers(d, i) BY <1>1 DEF Offers
<1>3. Rising(observed \o queue)' = Rising(observed \o queue) BY <1>1 DEF Rising
<1>4. Exchange' = Exchange BY DEF Exchange
<1> QED BY <1>1, <1>2, <1>3, <1>4 DEF Hooked

(* Before its end nothing of the flow was offered. *)
LEMMA NotOffered ==
    ASSUME Hooked, phase \notin Ended \cup {"tunnel"}
    PROVE  offered = {} /\ Exchange \notin offered /\ observed \o queue = <<>> /\ sequence = 0
BY DEF Hooked

(* A step of a body keeps the types and bounds. *)
LEMMA BodyTyped ==
    ASSUME Typed, NEW d \in Directions, BodyStep(d)
    PROVE  Typed'
<1>1. UNCHANGED <<script, continued, gone, tunnelVars, hookVars>> BY Zenon DEF BodyStep
<1>2. msg' = msg /\ continued' = continued /\ gone' = gone BY <1>1 DEF script
<1>3. /\ hand' \in Seq(ByteSet) /\ agentError' \in BOOLEAN
      /\ Changed(got, got', d, Nat) /\ Changed(out, out', d, Seq(ByteSet))
      /\ Changed(capture, capture', d, Captures) /\ Changed(counted, counted', d, Nat)
      /\ parser' \in Parsers /\ Len(parser'.pending) <= HeaderBytes
      /\ got'[d] <= Len(Wire(msg[d])) /\ Len(capture'[d].bytes) <= BodyLimit /\ Headed(msg[d], out'[d])
  BY Zenon DEF BodyStep
<1>4. phase' \in {"failed", Reading(d), Writing(d), After(d)} BY DEF BodyStep
<1>5. phase' \in Phases BY <1>4 DEF Reading, Writing, After, Phases, Ended
<1>6. /\ got' \in [Directions -> Nat] /\ out' \in [Directions -> Seq(ByteSet)] /\ counted' \in [Directions -> Nat]
      /\ capture' \in [Directions -> Captures]
  BY <1>3, Zenon DEF Changed
<1>7. ASSUME NEW e \in Directions
      PROVE  got'[e] <= Len(Wire(msg'[e])) /\ Len(capture'[e].bytes) <= BodyLimit /\ (out'[e] = <<>> \/ Headed(msg'[e], out'[e]))
  BY <1>2, <1>3, TypedIs DEF Changed
<1>8. continued' \in BOOLEAN /\ gone' \subseteq {"agent", "provider"} BY <1>2, TypedIs
<1> QED BY <1>3, <1>5, <1>6, <1>7, <1>8, Zenon DEF Typed, Captures, Parsers, States

(* A step of the request's body keeps the invariant. *)
LEMMA RequestBodyKeeps ==
    ASSUME RelayInv, BodyStep("request"), phase \in {"request_read", "request_write"}
    PROVE  RelayInv'
<1>1. ScriptOK /\ Typed /\ RequestPhase /\ ResponsePhase /\ Hooked /\ Submitted BY DEF RelayInv
<1>2. UNCHANGED <<script, continued, gone, tunnelVars, hookVars>> BY Zenon DEF BodyStep
<1>3. UNCHANGED script /\ msg' = msg /\ accepted' = accepted /\ offered' = offered BY <1>2 DEF script, hookVars
<1>4. ScriptOK' BY <1>1, <1>3, ScriptKept
<1>5. Typed' BY <1>1, TwoWays, BodyTyped
<1>6. \/ phase' = "failed"
      \/ phase' = "request_read" /\ ReadingAt(msg["request"], out'["request"], got'["request"], parser', capture'["request"], counted'["request"])
      \/ phase' = "request_write" /\ WritingAt(msg["request"], out'["request"], got'["request"], hand', parser', capture'["request"], counted'["request"])
      \/ phase' = "provider_head" /\ DoneAt(msg["request"], out'["request"], capture'["request"], counted'["request"])
  BY DEF BodyStep, Reading, Writing, After
<1>7. /\ out'["response"] = out["response"] /\ capture'["response"] = capture["response"]
      /\ counted'["response"] = counted["response"] /\ got'["response"] = got["response"]
  BY TwoWays DEF BodyStep, Changed
<1>8. FreshAt(out["response"], capture["response"], counted["response"]) /\ got["response"] = 0 BY <1>1 DEF ResponsePhase
<1>9. FreshAt(out'["response"], capture'["response"], counted'["response"]) /\ got'["response"] = 0 BY <1>7, <1>8
<1>10. RequestPhase' BY <1>3, <1>6 DEF RequestPhase, RequestDone
<1>11. ResponsePhase' BY <1>6, <1>9 DEF ResponsePhase
<1>12. phase \notin Ended \cup {"tunnel"} BY DEF Ended
<1>13. Hooked'
  <2>1. phase' # "tunnel" BY <1>6
  <2> QED BY <1>1, <1>2, <1>12, <2>1, HooksKept
<1>14. Submitted'
  BY <1>1, <1>3, <1>6, <1>9, <1>12, NotOffered DEF Exchange, FreshAt, ResponseComplete, Submitted, CompleteIsObserved
<1> QED BY <1>4, <1>5, <1>10, <1>11, <1>13, <1>14 DEF RelayInv

(* A step of the response's body does: it fails only before the response is *)
(* complete, so no complete exchange is left unobserved.                    *)
LEMMA ResponseBodyKeeps ==
    ASSUME RelayInv, BodyStep("response"), phase \in {"response_read", "response_write"}
    PROVE  RelayInv'
<1>1. ScriptOK /\ Typed /\ RequestPhase /\ ResponsePhase /\ Hooked /\ Submitted BY DEF RelayInv
<1>2. UNCHANGED <<script, continued, gone, tunnelVars, hookVars>> BY Zenon DEF BodyStep
<1>3. UNCHANGED script /\ msg' = msg /\ accepted' = accepted /\ offered' = offered BY <1>2 DEF script, hookVars
<1>4. ScriptOK' BY <1>1, <1>3, ScriptKept
<1>5. Typed' BY <1>1, TwoWays, BodyTyped
<1>6. \/ phase' = "failed" /\ Unfinished(msg["response"], got'["response"])
      \/ phase' = "response_read" /\ ReadingAt(msg["response"], out'["response"], got'["response"], parser', capture'["response"], counted'["response"])
      \/ phase' = "response_write" /\ WritingAt(msg["response"], out'["response"], got'["response"], hand', parser', capture'["response"], counted'["response"])
      \/ phase' = "closing" /\ DoneAt(msg["response"], out'["response"], capture'["response"], counted'["response"])
  BY DEF BodyStep, Reading, Writing, After
<1>7. /\ out'["request"] = out["request"] /\ capture'["request"] = capture["request"]
      /\ counted'["request"] = counted["request"]
  BY TwoWays DEF BodyStep, Changed
<1>8. DoneAt(msg["request"], out["request"], capture["request"], counted["request"]) BY <1>1 DEF RequestPhase, RequestDone
<1>9. DoneAt(msg["request"], out'["request"], capture'["request"], counted'["request"]) BY <1>7, <1>8
<1>10. ~accepted BY <1>1 DEF ResponsePhase
<1>11. RequestPhase' BY <1>3, <1>6, <1>9 DEF RequestPhase
<1>12. ResponsePhase' BY <1>3, <1>6, <1>10 DEF ResponsePhase
<1>13. phase \notin Ended \cup {"tunnel"} BY DEF Ended
<1>14. Hooked'
  <2>1. phase' # "tunnel" BY <1>6
  <2> QED BY <1>1, <1>2, <1>13, <2>1, HooksKept
<1>15. Submitted'
  BY <1>1, <1>3, <1>6, <1>13, NotOffered DEF Exchange, Unfinished, ResponseComplete, Submitted, CompleteIsObserved
<1> QED BY <1>4, <1>5, <1>11, <1>12, <1>14, <1>15 DEF RelayInv

(* A step of either does. *)
LEMMA BodyKeeps ==
    ASSUME RelayInv, NEW d \in Directions, phase = Reading(d) \/ phase = Writing(d), BodyStep(d)
    PROVE  RelayInv'
<1>1. CASE d = "request" BY <1>1, RequestBodyKeeps DEF Reading, Writing
<1>2. CASE d = "response" BY <1>2, ResponseBodyKeeps DEF Reading, Writing
<1> QED BY <1>1, <1>2, TwoWays

-----------------------------------------------------------------------------
(* The hook queue. *)

(* Observed and queued events are in order, none above number n. *)
Seen(o, q, n) ==
    /\ o \in Seq(Events) /\ q \in Seq(Events) /\ n \in Nat /\ Rising(o \o q)
    /\ \A i \in 1..Len(o \o q) : (o \o q)[i].sequence <= n

(* An event has a number. *)
LEMMA EventIs == ASSUME NEW e \in Events PROVE e.sequence \in Nat
BY DEF Events

(* t is o and then r, element by element. *)
IsCat(t, o, r, a, b) ==
    /\ t \in Seq(Events) /\ Len(t) = a + b /\ (\A i \in 1..a : t[i] = o[i]) /\ \A i \in 1..b : t[a + i] = r[i]

(* A concatenation is that. *)
LEMMA CatIs ==
    ASSUME NEW o \in Seq(Events), NEW r \in Seq(Events), NEW a, NEW b, a = Len(o), b = Len(r)
    PROVE  IsCat(o \o r, o, r, a, b)
<1>1. /\ o \o r \in Seq(Events) /\ Len(o \o r) = Len(o) + Len(r)
      /\ \A i \in 1..(Len(o) + Len(r)) : (o \o r)[i] = IF i <= Len(o) THEN o[i] ELSE r[i - Len(o)]
  BY ConcatProperties
<1>2. PICK t : t = o \o r OBVIOUS
<1>3. a \in Nat /\ b \in Nat BY LenProperties
<1>4. \A i \in 1..(a + b) : t[i] = IF i <= a THEN o[i] ELSE r[i - a] BY <1>1, <1>2, Zenon
<1>5. \A i \in 1..a : t[i] = o[i] BY ONLY <1>3, <1>4
<1>6. ASSUME NEW i \in 1..b PROVE t[a + i] = r[i]
  <2>1. PICK k : k = a + i OBVIOUS
  <2>2. k \in 1..(a + b) /\ ~(k <= a) /\ k - a = i BY ONLY <1>3, <1>6, <2>1
  <2>3. t[k] = r[k - a] BY <1>4, <2>2, Zenon
  <2> QED BY <2>1, <2>2, <2>3
<1>7. t \in Seq(Events) /\ Len(t) = a + b BY <1>1, <1>2, Zenon
<1>8. IsCat(t, o, r, a, b) BY <1>5, <1>6, <1>7, Zenon DEF IsCat
<1> QED BY <1>2, <1>8, Zenon

(* An event with a higher number may be queued. *)
LEMMA SeenGrows ==
    ASSUME NEW o, NEW q, NEW n, Seen(o, q, n), NEW e \in Events, n < e.sequence
    PROVE  Seen(o, Append(q, e), e.sequence)
<1>1. /\ o \in Seq(Events) /\ q \in Seq(Events) /\ n \in Nat
      /\ \A i, j \in 1..Len(o \o q) : i < j => (o \o q)[i].sequence < (o \o q)[j].sequence
      /\ \A i \in 1..Len(o \o q) : (o \o q)[i].sequence <= n
  BY DEF Seen, Rising
<1>2. PICK s : s = o \o q OBVIOUS
<1>3. s \in Seq(Events) /\ o \o Append(q, e) = Append(s, e) BY <1>1, <1>2
<1>4. PICK t : t = Append(s, e) OBVIOUS
<1>5. t \in Seq(Events) /\ Len(t) = Len(s) + 1 /\ t[Len(s) + 1] = e /\ \A i \in 1..Len(s) : t[i] = s[i] BY <1>3, <1>4
<1>6. e.sequence \in Nat /\ \A i \in 1..Len(s) : s[i].sequence \in Nat BY <1>3, EventIs
<1>7. \A i \in 1..Len(t) : t[i].sequence <= e.sequence
  <2> TAKE i \in 1..Len(t)
  <2>1. CASE i \in 1..Len(s)
    <3>1. s[i].sequence <= n /\ t[i] = s[i] /\ s[i].sequence \in Nat BY <1>1, <1>2, <1>5, <1>6, <2>1
    <3> QED BY <1>1, <1>6, <3>1
  <2>2. CASE i = Len(s) + 1 BY <1>5, <1>6, <2>2
  <2> QED BY <1>3, <1>5, <2>1, <2>2
<1>8. Rising(t)
  <2> SUFFICES ASSUME NEW i \in 1..Len(t), NEW j \in 1..Len(t), i < j PROVE t[i].sequence < t[j].sequence BY DEF Rising
  <2>1. i \in 1..Len(s) BY <1>3, <1>5
  <2>2. CASE j \in 1..Len(s) BY <1>1, <1>2, <1>5, <2>1, <2>2
  <2>3. CASE j = Len(s) + 1
    <3>1. s[i].sequence <= n /\ t[i] = s[i] /\ s[i].sequence \in Nat /\ t[j] = e BY <1>1, <1>2, <1>5, <1>6, <2>1, <2>3
    <3> QED BY <1>1, <1>6, <3>1
  <2> QED BY <1>3, <1>5, <2>2, <2>3
<1>9. Append(q, e) \in Seq(Events) BY <1>1
<1> QED BY <1>1, <1>3, <1>4, <1>6, <1>7, <1>8, <1>9, Zenon DEF Seen

(* So may the first event. *)
LEMMA SeenStarts ==
    ASSUME NEW o \in Seq(Events), NEW q \in Seq(Events), o \o q = <<>>, NEW e \in Events
    PROVE  Seen(o, Append(q, e), e.sequence)
<1>1. Len(o) + Len(q) = 0 OBVIOUS
<1>2. o = <<>> /\ q = <<>> BY <1>1
<1>3. o \o Append(q, e) = <<e>> BY <1>2
<1>4. Append(q, e) \in Seq(Events) /\ e.sequence \in Nat BY EventIs
<1>5. Rising(<<e>>) BY DEF Rising
<1>6. \A i \in 1..Len(<<e>>) : <<e>>[i].sequence <= e.sequence BY <1>4
<1> QED BY <1>3, <1>4, <1>5, <1>6, Zenon DEF Seen

(* The head of the queue may be dropped or observed. *)
LEMMA SeenTail ==
    ASSUME NEW o, NEW q, NEW n, Seen(o, q, n), q # <<>>
    PROVE  Seen(o, Tail(q), n) /\ Seen(Append(o, Head(q)), Tail(q), n)
<1>1. /\ o \in Seq(Events) /\ q \in Seq(Events) /\ n \in Nat
      /\ \A i, j \in 1..Len(o \o q) : i < j => (o \o q)[i].sequence < (o \o q)[j].sequence
      /\ \A i \in 1..Len(o \o q) : (o \o q)[i].sequence <= n
  BY DEF Seen, Rising
<1>2. PICK r : r = Tail(q) OBVIOUS
<1>3. PICK f : f = Head(q) OBVIOUS
<1>4. r \in Seq(Events) /\ f \in Events /\ Len(q) > 0 /\ Len(r) = Len(q) - 1 /\ f = q[1] /\ \A i \in 1..Len(r) : r[i] = q[i + 1]
  BY <1>1, <1>2, <1>3
<1>5. PICK s : s = o \o q OBVIOUS
<1>6. PICK a : a = Len(o) OBVIOUS
<1>7. PICK b : b = Len(r) OBVIOUS
<1>8. a \in Nat /\ b \in Nat /\ Len(q) = b + 1 BY <1>1, <1>4, <1>6, <1>7
<1>9. /\ Len(s) = a + b + 1 /\ s \in Seq(Events) /\ (\A i \in 1..a : s[i] = o[i]) /\ s[a + 1] = q[1]
      /\ \A i \in 1..b : s[a + 1 + i] = q[i + 1]
  <2>1. /\ s \in Seq(Events) /\ Len(s) = a + (b + 1) /\ (\A i \in 1..a : s[i] = o[i])
        /\ \A i \in 1..(b + 1) : s[a + i] = q[i]
    <3>1. IsCat(o \o q, o, q, a, b + 1) BY <1>1, <1>6, <1>8, CatIs, Zenon
    <3> QED BY <1>5, <3>1, Zenon DEF IsCat
  <2>2. a + (b + 1) = a + b + 1 /\ 1 \in 1..(b + 1) BY <1>8
  <2>3. ASSUME NEW i \in 1..b PROVE s[a + 1 + i] = q[i + 1] BY <1>8, <2>1
  <2> QED BY <2>1, <2>2, <2>3
<1>10. Append(o, f) \o r = s
  <2>1. PICK u : u = Append(o, f) OBVIOUS
  <2>2. u \in Seq(Events) /\ Len(u) = a + 1 /\ (\A i \in 1..a : u[i] = o[i]) /\ u[a + 1] = f BY <1>1, <1>4, <1>6, <2>1
  <2>3. PICK v : v = u \o r OBVIOUS
  <2>4. /\ v \in Seq(Events) /\ Len(v) = a + 1 + b /\ (\A i \in 1..(a + 1) : v[i] = u[i])
        /\ \A i \in 1..b : v[a + 1 + i] = r[i]
    <3>1. IsCat(u \o r, u, r, a + 1, b) BY <1>4, <1>7, <2>2, CatIs, Zenon
    <3> QED BY <2>3, <3>1, Zenon DEF IsCat
  <2>5. ASSUME NEW i \in 1..(a + b + 1) PROVE v[i] = s[i]
    <3>1. CASE i \in 1..a BY <1>8, <1>9, <2>2, <2>4, <3>1
    <3>2. CASE i = a + 1 BY <1>4, <1>8, <1>9, <2>2, <2>4, <3>2
    <3>3. CASE i > a + 1
      <4>1. PICK k \in 1..b : i = a + 1 + k
        <5>1. i - (a + 1) \in 1..b /\ i = a + 1 + (i - (a + 1)) BY ONLY <1>8, <2>5, <3>3
        <5> QED BY <5>1
      <4> QED BY <1>4, <1>7, <1>9, <2>4, <4>1
    <3> QED BY <1>8, <3>1, <3>2, <3>3
  <2>6. v = s BY <1>8, <1>9, <2>4, <2>5, SeqEqual
  <2> QED BY <2>1, <2>3, <2>6, Zenon
<1>11. Append(o, f) \in Seq(Events) BY <1>1, <1>4
<1>12. Seen(Append(o, f), r, n) BY <1>4, <1>5, <1>10, <1>11, Zenon DEF Seen
<1>13. PICK t : t = o \o r OBVIOUS
<1>14. /\ Len(t) = a + b /\ (\A i \in 1..a : t[i] = o[i]) /\ \A i \in 1..b : t[a + i] = r[i]
  <2>1. IsCat(o \o r, o, r, a, b) BY <1>1, <1>4, <1>6, <1>7, CatIs, Zenon
  <2> QED BY <1>13, <2>1, Zenon DEF IsCat
<1>15. ASSUME NEW i \in 1..(a + b)
       PROVE  \E k \in 1..(a + b + 1) : t[i] = s[k] /\ (i <= a => k = i) /\ (i > a => k = i + 1)
  <2>1. CASE i <= a BY <1>8, <1>9, <1>14, <2>1
  <2>2. CASE i > a
    <3>1. PICK k \in 1..b : i = a + k
      <4>1. i - a \in 1..b /\ i = a + (i - a) BY ONLY <1>8, <1>15, <2>2
      <4> QED BY <4>1
    <3>2. t[i] = r[k] /\ r[k] = q[k + 1] /\ s[a + 1 + k] = q[k + 1] BY <1>4, <1>7, <1>9, <1>14, <3>1
    <3>3. a + 1 + k = i + 1 /\ i + 1 \in 1..(a + b + 1) /\ ~(i <= a) BY <1>8, <2>2, <3>1
    <3>4. t[i] = s[i + 1] BY <3>2, <3>3
    <3> QED BY <3>3, <3>4
  <2> QED BY <1>8, <2>1, <2>2
<1>16. Rising(t)
  <2> SUFFICES ASSUME NEW i \in 1..Len(t), NEW j \in 1..Len(t), i < j PROVE t[i].sequence < t[j].sequence BY DEF Rising
  <2>1. i \in 1..(a + b) /\ j \in 1..(a + b) BY <1>14
  <2>2. PICK k \in 1..(a + b + 1) : t[i] = s[k] /\ (i <= a => k = i) /\ (i > a => k = i + 1) BY <1>15, <2>1
  <2>3. PICK l \in 1..(a + b + 1) : t[j] = s[l] /\ (j <= a => l = j) /\ (j > a => l = j + 1) BY <1>15, <2>1
  <2>4. k < l BY ONLY <1>8, <2>1, <2>2, <2>3, i < j
  <2>5. k \in 1..Len(s) /\ l \in 1..Len(s) BY <1>9
  <2>6. s[k].sequence < s[l].sequence BY <1>1, <1>5, <2>4, <2>5
  <2> QED BY <2>2, <2>3, <2>6
<1>17. \A i \in 1..Len(t) : t[i].sequence <= n
  <2> TAKE i \in 1..Len(t)
  <2>1. PICK k \in 1..(a + b + 1) : t[i] = s[k] BY <1>14, <1>15
  <2>2. s[k].sequence <= n BY <1>1, <1>5, <1>9, <2>1
  <2> QED BY <2>1, <2>2
<1>18. Seen(o, r, n) BY <1>1, <1>4, <1>13, <1>16, <1>17, Zenon DEF Seen
<1> QED BY <1>2, <1>3, <1>12, <1>18, Zenon

-----------------------------------------------------------------------------
(* Heads, Expect and upgrades. *)

(* The phases in which no body is relayed. *)
EarlyPhases == {"agent_head", "request_out", "upgrade_out", "continue", "provider_head", "response_back", "upgrade_back"}

(* Steps that leave the bodies alone keep the types. *)
LEMMA TypedKept ==
    ASSUME Typed, msg' = msg, UNCHANGED bodyVars, phase' \in Phases, continued' \in BOOLEAN, gone' \subseteq {"agent", "provider"}
    PROVE  Typed'
<1>1. /\ hand' = hand /\ got' = got /\ out' = out /\ parser' = parser /\ capture' = capture /\ counted' = counted
      /\ agentError' = agentError
  BY DEF bodyVars
<1> QED BY <1>1, Zenon DEF Typed

(* In these phases nothing of the response was sent. *)
LEMMA EarlyFresh ==
    ASSUME ResponsePhase, phase \in EarlyPhases
    PROVE  FreshAt(out["response"], capture["response"], counted["response"]) /\ out["response"] = <<>>
BY DEF ResponsePhase, EarlyPhases, FreshAt

(* A failure in these phases keeps the invariant. *)
LEMMA FailKeeps ==
    ASSUME RelayInv, phase \in EarlyPhases, phase' = "failed", UNCHANGED <<script, bodyVars, continued, gone, tunnelVars, hookVars>>
    PROVE  RelayInv'
<1>1. ScriptOK /\ Typed /\ RequestPhase /\ ResponsePhase /\ Hooked /\ Submitted BY DEF RelayInv
<1>2. UNCHANGED script /\ msg' = msg /\ accepted' = accepted /\ offered' = offered /\ out' = out /\ continued' = continued /\ gone' = gone
  BY DEF script, hookVars, bodyVars
<1>3. ScriptOK' BY <1>1, <1>2, ScriptKept
<1>4. Typed' BY <1>1, <1>2, TypedKept DEF Phases, Ended, Typed
<1>5. RequestPhase' BY DEF RequestPhase, RequestDone
<1>6. ResponsePhase' BY DEF ResponsePhase
<1>7. phase \notin Ended \cup {"tunnel"} BY DEF Ended, EarlyPhases
<1>8. Hooked' BY <1>1, <1>7, HooksKept
<1>9. Submitted'
  BY <1>1, <1>2, <1>7, NotOffered, EarlyFresh DEF Exchange, ResponseComplete, Submitted, CompleteIsObserved
<1> QED BY <1>3, <1>4, <1>5, <1>6, <1>8, <1>9 DEF RelayInv

(* Steps before the end of a flow keep Submitted. *)
LEMMA QuietSubmitted ==
    ASSUME Hooked, phase \notin Ended \cup {"tunnel"}, phase' \notin Ended, offered' = offered
    PROVE  Submitted'
<1>1. Exchange' \notin offered' BY NotOffered DEF Exchange
<1> QED BY <1>1 DEF Submitted, CompleteIsObserved, Ended

(* A head read together with k bytes of the body holds these. *)
LEMMA HeadRead ==
    ASSUME Typed, ScriptOK, NEW d \in Directions, got[d] = 0, NEW k \in 0..Due(d), ReadHead(d, k)
    PROVE  /\ HeldAt(msg[d], got'[d], hand') /\ parser' = NoParser /\ hand' \in Seq(ByteSet)
           /\ Changed(got, got', d, Nat) /\ got'[d] <= Len(Wire(msg[d]))
           /\ out' = out /\ capture' = capture /\ counted' = counted /\ agentError' = agentError
<1>1. IsBody(msg[d]) BY MessageIs
<1>2. PICK w : w = Wire(msg[d]) OBVIOUS
<1>3. w \in Seq(ByteSet) /\ Len(w) \in Nat BY <1>1, <1>2, WireType
<1>4. Due(d) = 0 \/ Due(d) = Len(w) BY <1>2, <1>3 DEF Due
<1>5. k \in Nat /\ k <= Len(w) BY <1>3, <1>4
<1>6. got' = [got EXCEPT ![d] = k] /\ hand' = SubSeq(w, 0 + 1, 0 + k) /\ parser' = NoParser
      /\ out' = out /\ capture' = capture /\ counted' = counted /\ agentError' = agentError
  BY <1>2 DEF ReadHead, Bytes, NoParser
<1>7. Changed(got, got', d, Nat) /\ got'[d] = k BY <1>5, <1>6, TypedIs, Updated
<1>8. hand' = Stretch(w, 0, k) BY <1>5, <1>6 DEF Stretch
<1>9. Fits(w, 0, k) BY <1>3, <1>5 DEF Fits
<1>10. hand' \in Seq(ByteSet) BY <1>8, <1>9, StretchIs
<1>11. HeldAt(msg[d], got'[d], hand') BY <1>2, <1>5, <1>7, <1>8, Zenon DEF HeldAt
<1> QED BY <1>2, <1>5, <1>6, <1>7, <1>10, <1>11

(* Reading a head keeps the types. *)
LEMMA HeadReadTyped ==
    ASSUME Typed, ScriptOK, NEW d \in Directions, got[d] = 0, NEW k \in 0..Due(d), ReadHead(d, k), phase' \in Phases,
           msg' = msg, continued' = continued, gone' = gone
    PROVE  Typed'
<1>1. /\ parser' = NoParser /\ hand' \in Seq(ByteSet) /\ Changed(got, got', d, Nat) /\ got'[d] <= Len(Wire(msg[d]))
      /\ out' = out /\ capture' = capture /\ counted' = counted /\ agentError' = agentError
  BY HeadRead
<1>2. got' \in [Directions -> Nat] /\ \A e \in Directions \ {d} : got'[e] = got[e] BY <1>1 DEF Changed
<1>3. ASSUME NEW e \in Directions
      PROVE  got'[e] <= Len(Wire(msg'[e])) /\ Len(capture'[e].bytes) <= BodyLimit /\ (out'[e] = <<>> \/ Headed(msg'[e], out'[e]))
  BY <1>1, <1>2, TypedIs
<1>4. /\ parser' \in [state : {"size", "data", "terminator", "trailers"}, left : Nat, pending : Seq(ByteSet)]
      /\ Len(parser'.pending) <= HeaderBytes BY <1>1, LimitIs DEF NoParser
<1>5. /\ out' \in [Directions -> Seq(ByteSet)] /\ counted' \in [Directions -> Nat]
      /\ capture' \in [Directions -> [bytes : Seq(ByteSet), whole : BOOLEAN]] /\ agentError' \in BOOLEAN
      /\ continued' \in BOOLEAN /\ gone' \subseteq {"agent", "provider"}
  BY <1>1, Zenon DEF Typed
<1> QED BY <1>1, <1>2, <1>3, <1>4, <1>5, Zenon DEF Typed

(* Reading the request head keeps the invariant. *)
LEMMA ReadRequestHeadKeeps == ASSUME RelayInv, ReadRequestHead PROVE RelayInv'
<1>1. ScriptOK /\ Typed /\ RequestPhase /\ ResponsePhase /\ Hooked /\ Submitted BY DEF RelayInv
<1>2. phase = "agent_head" /\ UNCHANGED <<script, continued, gone, tunnelVars, hookVars>> BY DEF ReadRequestHead
<1>3. CASE Fail /\ UNCHANGED bodyVars BY <1>2, <1>3, FailKeeps DEF Fail, EarlyPhases
<1>4. ASSUME NEW k \in 0..Due("request"), ReadHead("request", k), phase' = IF upgrade THEN "upgrade_out" ELSE "request_out"
      PROVE  RelayInv'
  <2>1. UNCHANGED script /\ msg' = msg /\ upgrade' = upgrade /\ offered' = offered BY <1>2 DEF script, hookVars
  <2>2. got["request"] = 0 /\ FreshAt(out["request"], capture["request"], counted["request"]) BY <1>1, <1>2 DEF RequestPhase
  <2>3. got["response"] = 0 /\ FreshAt(out["response"], capture["response"], counted["response"]) BY <1>1, <1>2 DEF ResponsePhase
  <2>4. /\ HeldAt(msg["request"], got'["request"], hand') /\ parser' = NoParser
        /\ Changed(got, got', "request", Nat) /\ out' = out /\ capture' = capture /\ counted' = counted
    BY <1>1, <1>4, <2>2, TwoWays, HeadRead
  <2>5. got'["response"] = 0 BY <2>3, <2>4, TwoWays DEF Changed
  <2>6. phase' \in Phases /\ phase' \notin Ended \cup {"tunnel"} BY <1>4 DEF Phases, Ended
  <2>7. Typed' BY <1>1, <1>2, <1>4, <2>1, <2>2, <2>6, TwoWays, HeadReadTyped
  <2>8. ScriptOK' BY <1>1, <2>1, ScriptKept
  <2>9. RequestPhase' BY <1>4, <2>1, <2>2, <2>4 DEF RequestPhase, RequestDone
  <2>10. ResponsePhase' BY <1>4, <2>3, <2>4, <2>5 DEF ResponsePhase
  <2>11. Hooked' BY <1>1, <1>2, <2>6, HooksKept DEF Ended
  <2>12. Submitted' BY <1>1, <1>2, <2>1, <2>6, QuietSubmitted DEF Ended
  <2> QED BY <2>7, <2>8, <2>9, <2>10, <2>11, <2>12 DEF RelayInv
<1> QED BY <1>3, <1>4 DEF ReadRequestHead

(* Reading the response head keeps the invariant. *)
LEMMA ReadResponseHeadKeeps == ASSUME RelayInv, ReadResponseHead PROVE RelayInv'
<1>1. ScriptOK /\ Typed /\ RequestPhase /\ ResponsePhase /\ Hooked /\ Submitted BY DEF RelayInv
<1>2. phase = "provider_head" /\ UNCHANGED <<script, continued, gone, tunnelVars, hookVars>> BY DEF ReadResponseHead
<1>3. CASE Fail /\ UNCHANGED bodyVars BY <1>2, <1>3, FailKeeps DEF Fail, EarlyPhases
<1>4. ASSUME NEW k \in 0..Due("response"), ReadHead("response", k), phase' = IF accepted THEN "upgrade_back" ELSE "response_back"
      PROVE  RelayInv'
  <2>1. UNCHANGED script /\ msg' = msg /\ accepted' = accepted /\ offered' = offered BY <1>2 DEF script, hookVars
  <2>2. DoneAt(msg["request"], out["request"], capture["request"], counted["request"]) BY <1>1, <1>2 DEF RequestPhase, RequestDone
  <2>3. got["response"] = 0 /\ FreshAt(out["response"], capture["response"], counted["response"]) BY <1>1, <1>2 DEF ResponsePhase
  <2>4. /\ HeldAt(msg["response"], got'["response"], hand') /\ parser' = NoParser
        /\ out' = out /\ capture' = capture /\ counted' = counted
    BY <1>1, <1>4, <2>3, TwoWays, HeadRead
  <2>6. phase' \in Phases /\ phase' \notin Ended \cup {"tunnel"} BY <1>4 DEF Phases, Ended
  <2>7. Typed' BY <1>1, <1>2, <1>4, <2>1, <2>3, <2>6, TwoWays, HeadReadTyped
  <2>8. ScriptOK' BY <1>1, <2>1, ScriptKept
  <2>9. RequestPhase' BY <1>4, <2>1, <2>2, <2>4 DEF RequestPhase, RequestDone
  <2>10. ResponsePhase' BY <1>4, <2>1, <2>3, <2>4 DEF ResponsePhase
  <2>11. Hooked' BY <1>1, <1>2, <2>6, HooksKept DEF Ended
  <2>12. Submitted' BY <1>1, <1>2, <2>1, <2>6, QuietSubmitted DEF Ended
  <2> QED BY <2>7, <2>8, <2>9, <2>10, <2>11, <2>12 DEF RelayInv
<1> QED BY <1>3, <1>4 DEF ReadResponseHead

(* A head alone is the start of a message. *)
LEMMA HeadAlone == ASSUME NEW m, IsBody(m) PROVE Headed(m, <<HeadByte>>) /\ <<HeadByte>> \in Seq(ByteSet)
<1>1. PICK h : h = Stretch(Wire(m), 0, 0) OBVIOUS
<1>2. 0 \in Nat /\ 0 <= Len(Wire(m)) BY WireType
<1>3. HeldAt(m, 0, h) BY <1>1, <1>2 DEF HeldAt
<1>4. WritingAt(m, <<HeadByte>>, 0, h, NoParser, NoCapture, 0) BY <1>3, BodyStarts
<1>5. Headed(m, <<HeadByte>>) BY <1>4, Zenon DEF WritingAt
<1> QED BY <1>5, Zenon DEF Headed

(* Writing a head keeps the types. *)
LEMMA HeadSent ==
    ASSUME Typed, ScriptOK, NEW d \in Directions, out[d] = <<>>, AppendHead(d), phase' \in Phases, msg' = msg,
           UNCHANGED <<hand, got, parser, capture, counted, agentError, continued, gone>>
    PROVE  Typed' /\ out'[d] = <<HeadByte>> /\ \A e \in Directions \ {d} : out'[e] = out[e]
<1>1. IsBody(msg[d]) BY MessageIs
<1>2. Headed(msg[d], <<HeadByte>>) /\ <<HeadByte>> \in Seq(ByteSet) BY <1>1, HeadAlone
<1>3. out[d] \o SubSeq(<<HeadByte>>, 1, 1) = <<HeadByte>> BY <1>2, SubSeqFull, ConcatEmptySeq
<1>4. out' = [out EXCEPT ![d] = <<HeadByte>>] BY <1>3, Zenon DEF AppendHead, Accept
<1>5. Changed(out, out', d, Seq(ByteSet)) /\ out'[d] = <<HeadByte>> BY <1>2, <1>4, TypedIs, Updated
<1>6. out' \in [Directions -> Seq(ByteSet)] /\ \A e \in Directions \ {d} : out'[e] = out[e] BY <1>5 DEF Changed
<1>7. ASSUME NEW e \in Directions
      PROVE  got'[e] <= Len(Wire(msg'[e])) /\ Len(capture'[e].bytes) <= BodyLimit /\ (out'[e] = <<>> \/ Headed(msg'[e], out'[e]))
  BY <1>2, <1>5, <1>6, TypedIs
<1>8. /\ hand' = hand /\ got' = got /\ parser' = parser /\ capture' = capture /\ counted' = counted /\ agentError' = agentError
      /\ continued' = continued /\ gone' = gone
  OBVIOUS
<1>9. Typed' BY <1>6, <1>7, <1>8, Zenon DEF Typed
<1> QED BY <1>5, <1>6, <1>9

(* Writing the request head keeps the invariant. *)
LEMMA WriteRequestHeadKeeps == ASSUME RelayInv, WriteRequestHead PROVE RelayInv'
<1>1. ScriptOK /\ Typed /\ RequestPhase /\ ResponsePhase /\ Hooked /\ Submitted BY DEF RelayInv
<1>2. phase = "request_out" /\ UNCHANGED <<script, hand, got, parser, capture, counted, agentError, continued, gone, tunnelVars, hookVars>>
  BY DEF WriteRequestHead
<1>3. CASE Fail /\ UNCHANGED out BY <1>2, <1>3, FailKeeps DEF Fail, EarlyPhases, bodyVars
<1>4. ASSUME AppendHead("request"), phase' = IF Handled THEN "continue" ELSE "request_write"
      PROVE  RelayInv'
  <2>1. UNCHANGED script /\ msg' = msg /\ offered' = offered BY <1>2 DEF script, hookVars
  <2>2. /\ FreshAt(out["request"], capture["request"], counted["request"]) /\ HeldAt(msg["request"], got["request"], hand)
        /\ parser = NoParser
    BY <1>1, <1>2 DEF RequestPhase
  <2>3. FreshAt(out["response"], capture["response"], counted["response"]) /\ got["response"] = 0 BY <1>1, <1>2 DEF ResponsePhase
  <2>4. phase' \in Phases /\ phase' \notin Ended \cup {"tunnel"} /\ phase' \in {"continue", "request_write"} BY <1>4 DEF Phases, Ended
  <2>5. Typed' /\ out'["request"] = <<HeadByte>> /\ out'["response"] = out["response"]
    BY <1>1, <1>2, <1>4, <2>1, <2>2, <2>4, TwoWays, HeadSent DEF FreshAt
  <2>6. IsBody(msg["request"]) BY <1>1, TwoWays, MessageIs
  <2>7. WritingAt(msg["request"], <<HeadByte>>, got["request"], hand, NoParser, NoCapture, 0) BY <2>2, <2>6, BodyStarts
  <2>8. WritingAt(msg'["request"], out'["request"], got'["request"], hand', parser', capture'["request"], counted'["request"])
    BY <1>2, <2>1, <2>2, <2>5, <2>7 DEF FreshAt
  <2>9. RequestPhase' BY <2>4, <2>8 DEF RequestPhase, RequestDone
  <2>10. ResponsePhase' BY <1>2, <2>3, <2>4, <2>5 DEF ResponsePhase
  <2>11. ScriptOK' BY <1>1, <2>1, ScriptKept
  <2>12. Hooked' BY <1>1, <1>2, <2>4, HooksKept DEF Ended
  <2>13. Submitted' BY <1>1, <1>2, <2>1, <2>4, QuietSubmitted DEF Ended
  <2> QED BY <2>5, <2>9, <2>10, <2>11, <2>12, <2>13 DEF RelayInv
<1> QED BY <1>3, <1>4 DEF WriteRequestHead

(* Writing the response head keeps the invariant. *)
LEMMA WriteResponseHeadKeeps == ASSUME RelayInv, WriteResponseHead PROVE RelayInv'
<1>1. ScriptOK /\ Typed /\ RequestPhase /\ ResponsePhase /\ Hooked /\ Submitted BY DEF RelayInv
<1>2. phase = "response_back" /\ UNCHANGED <<script, hand, got, parser, capture, counted, agentError, continued, gone, tunnelVars, hookVars>>
  BY DEF WriteResponseHead
<1>3. CASE Fail /\ UNCHANGED out BY <1>2, <1>3, FailKeeps DEF Fail, EarlyPhases, bodyVars
<1>4. ASSUME AppendHead("response"), phase' = "response_write"
      PROVE  RelayInv'
  <2>1. UNCHANGED script /\ msg' = msg /\ offered' = offered /\ accepted' = accepted BY <1>2 DEF script, hookVars
  <2>2. /\ FreshAt(out["response"], capture["response"], counted["response"]) /\ HeldAt(msg["response"], got["response"], hand)
        /\ parser = NoParser /\ ~accepted
    BY <1>1, <1>2 DEF ResponsePhase
  <2>3. DoneAt(msg["request"], out["request"], capture["request"], counted["request"]) BY <1>1, <1>2 DEF RequestPhase, RequestDone
  <2>4. phase' \in Phases /\ phase' \notin Ended \cup {"tunnel"} BY <1>4 DEF Phases, Ended
  <2>5. Typed' /\ out'["response"] = <<HeadByte>> /\ out'["request"] = out["request"]
    BY <1>1, <1>2, <1>4, <2>1, <2>2, <2>4, TwoWays, HeadSent DEF FreshAt
  <2>6. IsBody(msg["response"]) BY <1>1, TwoWays, MessageIs
  <2>7. WritingAt(msg["response"], <<HeadByte>>, got["response"], hand, NoParser, NoCapture, 0) BY <2>2, <2>6, BodyStarts
  <2>8. WritingAt(msg'["response"], out'["response"], got'["response"], hand', parser', capture'["response"], counted'["response"])
    BY <1>2, <2>1, <2>2, <2>5, <2>7 DEF FreshAt
  <2>9. RequestPhase' BY <1>2, <1>4, <2>1, <2>3, <2>5 DEF RequestPhase, RequestDone
  <2>10. ResponsePhase' BY <1>4, <2>1, <2>2, <2>8 DEF ResponsePhase
  <2>11. ScriptOK' BY <1>1, <2>1, ScriptKept
  <2>12. Hooked' BY <1>1, <1>2, <2>4, HooksKept DEF Ended
  <2>13. Submitted' BY <1>1, <1>2, <2>1, <2>4, QuietSubmitted DEF Ended
  <2> QED BY <2>5, <2>9, <2>10, <2>11, <2>12, <2>13 DEF RelayInv
<1> QED BY <1>3, <1>4 DEF WriteResponseHead

(* Answering Expect keeps the invariant. *)
LEMMA SendContinueKeeps == ASSUME RelayInv, SendContinue PROVE RelayInv'
<1>1. ScriptOK /\ Typed /\ RequestPhase /\ ResponsePhase /\ Hooked /\ Submitted BY DEF RelayInv
<1>2. phase = "continue" /\ UNCHANGED <<script, bodyVars, gone, tunnelVars, hookVars>> BY DEF SendContinue
<1>3. CASE Fail /\ UNCHANGED continued BY <1>2, <1>3, FailKeeps DEF Fail, EarlyPhases
<1>4. CASE phase' = "request_write" /\ continued' = TRUE
  <2>1. UNCHANGED script /\ msg' = msg /\ offered' = offered /\ gone' = gone BY <1>2 DEF script, hookVars
  <2>2. phase' \in Phases /\ phase' \notin Ended \cup {"tunnel"} BY <1>4 DEF Phases, Ended
  <2>3. Typed' BY <1>1, <1>2, <1>4, <2>1, <2>2, TypedKept DEF Typed
  <2>4. /\ hand' = hand /\ got' = got /\ out' = out /\ parser' = parser /\ capture' = capture /\ counted' = counted
    BY <1>2 DEF bodyVars
  <2>5. WritingAt(msg["request"], out["request"], got["request"], hand, parser, capture["request"], counted["request"])
    BY <1>1, <1>2 DEF RequestPhase
  <2>6. FreshAt(out["response"], capture["response"], counted["response"]) /\ got["response"] = 0 BY <1>1, <1>2 DEF ResponsePhase
  <2>7. RequestPhase' BY <1>4, <2>1, <2>4, <2>5 DEF RequestPhase, RequestDone
  <2>8. ResponsePhase' BY <1>4, <2>4, <2>6 DEF ResponsePhase
  <2>9. ScriptOK' BY <1>1, <2>1, ScriptKept
  <2>10. Hooked' BY <1>1, <1>2, <2>2, HooksKept DEF Ended
  <2>11. Submitted' BY <1>1, <1>2, <2>1, <2>2, QuietSubmitted DEF Ended
  <2> QED BY <2>3, <2>7, <2>8, <2>9, <2>10, <2>11 DEF RelayInv
<1> QED BY <1>3, <1>4 DEF SendContinue

(* Writing the head of an upgrade keeps the invariant. *)
LEMMA WriteUpgradeHeadKeeps == ASSUME RelayInv, WriteUpgradeHead PROVE RelayInv'
<1>1. ScriptOK /\ Typed /\ RequestPhase /\ ResponsePhase /\ Hooked /\ Submitted BY DEF RelayInv
<1>2. phase = "upgrade_out" /\ UNCHANGED <<script, hand, got, parser, capture, counted, agentError, continued, gone, tunnelVars, hookVars>>
  BY DEF WriteUpgradeHead
<1>3. CASE Fail /\ UNCHANGED out BY <1>2, <1>3, FailKeeps DEF Fail, EarlyPhases, bodyVars
<1>4. ASSUME AppendHead("request"), phase' = "provider_head"
      PROVE  RelayInv'
  <2>1. UNCHANGED script /\ msg' = msg /\ offered' = offered BY <1>2 DEF script, hookVars
  <2>2. FreshAt(out["request"], capture["request"], counted["request"]) /\ upgrade BY <1>1, <1>2 DEF RequestPhase
  <2>3. FreshAt(out["response"], capture["response"], counted["response"]) /\ got["response"] = 0 BY <1>1, <1>2 DEF ResponsePhase
  <2>4. phase' \in Phases /\ phase' \notin Ended \cup {"tunnel"} BY <1>4 DEF Phases, Ended
  <2>5. Typed' /\ out'["request"] = <<HeadByte>> /\ out'["response"] = out["response"]
    BY <1>1, <1>2, <1>4, <2>1, <2>2, <2>4, TwoWays, HeadSent DEF FreshAt
  <2>6. IsBody(msg["request"]) /\ msg["request"].framing = "empty" BY <1>1, <2>2, TwoWays, MessageIs DEF ScriptOK
  <2>7. DoneAt(msg["request"], <<HeadByte>>, NoCapture, 0)
    <3>1. PICK m : m = msg["request"] OBVIOUS
    <3>2. PICK h : h = Stretch(Wire(m), 0, 0) OBVIOUS
    <3>3. IsBody(m) /\ m.framing = "empty" BY <2>6, <3>1
    <3>4. 0 \in Nat /\ 0 <= Len(Wire(m)) /\ Wire(m) \in Seq(ByteSet) BY <3>3, WireType
    <3>5. HeldAt(m, 0, h) BY <3>2, <3>4 DEF HeldAt
    <3>6. WritingAt(m, <<HeadByte>>, 0, h, NoParser, NoCapture, 0) BY <3>3, <3>5, BodyStarts
    <3>7. h = <<>> BY <3>2, <3>4, StretchIs DEF Fits
    <3>8. DoneAt(m, <<HeadByte>>, NoCapture, 0) BY <3>3, <3>6, <3>7, EmptyBody
    <3> QED BY <3>1, <3>8
  <2>8. capture' = capture /\ counted' = counted /\ capture["request"] = NoCapture /\ counted["request"] = 0 BY <1>2, <2>2 DEF FreshAt
  <2>9. RequestPhase' BY <1>4, <2>1, <2>5, <2>7, <2>8 DEF RequestPhase, RequestDone
  <2>10. ResponsePhase' BY <1>2, <1>4, <2>3, <2>5, <2>8 DEF ResponsePhase
  <2>11. ScriptOK' BY <1>1, <2>1, ScriptKept
  <2>12. Hooked' BY <1>1, <1>2, <2>4, HooksKept DEF Ended
  <2>13. Submitted' BY <1>1, <1>2, <2>1, <2>4, QuietSubmitted DEF Ended
  <2> QED BY <2>5, <2>9, <2>10, <2>11, <2>12, <2>13 DEF RelayInv
<1> QED BY <1>3, <1>4 DEF WriteUpgradeHead

-----------------------------------------------------------------------------
(* Peers that leave, the hook worker and the submission. *)

(* What the phases say is kept when phase and bodies are. *)
LEMMA PhasesKept ==
    ASSUME RequestPhase, ResponsePhase, UNCHANGED <<script, phase, bodyVars>>
    PROVE  RequestPhase' /\ ResponsePhase'
<1>1. /\ msg' = msg /\ upgrade' = upgrade /\ accepted' = accepted /\ phase' = phase /\ hand' = hand /\ got' = got
      /\ out' = out /\ parser' = parser /\ capture' = capture /\ counted' = counted
  BY DEF script, bodyVars
<1> QED BY <1>1, Zenon DEF RequestPhase, ResponsePhase

(* So is Submitted. *)
LEMMA SubmittedKept ==
    ASSUME Submitted, UNCHANGED <<script, phase, bodyVars, offered>>
    PROVE  Submitted'
<1>1. /\ msg' = msg /\ accepted' = accepted /\ phase' = phase /\ got' = got
      /\ out' = out /\ capture' = capture /\ counted' = counted /\ offered' = offered
  BY DEF script, bodyVars
<1>2. Exchange' = Exchange BY DEF Exchange
<1>3. ResponseComplete' = ResponseComplete BY <1>1 DEF ResponseComplete
<1> QED BY <1>1, <1>2, <1>3 DEF Submitted, CompleteIsObserved

(* A peer that leaves keeps the invariant. *)
LEMMA DisconnectKeeps == ASSUME RelayInv, NEW peer \in {"agent", "provider"}, Disconnect(peer) PROVE RelayInv'
<1>1. ScriptOK /\ Typed /\ RequestPhase /\ ResponsePhase /\ Hooked /\ Submitted BY DEF RelayInv
<1>2. UNCHANGED <<script, phase, bodyVars, continued, tunnelVars, hookVars>> /\ gone' = gone \cup {peer} BY DEF Disconnect
<1>3. UNCHANGED script /\ msg' = msg /\ offered' = offered /\ phase' = phase /\ continued' = continued BY <1>2 DEF script, hookVars
<1>4. Typed' BY <1>1, <1>2, <1>3, TypedKept DEF Typed
<1>5. ScriptOK' BY <1>1, <1>3, ScriptKept
<1>6. RequestPhase' /\ ResponsePhase' BY <1>1, <1>2, PhasesKept
<1>7. Hooked' BY <1>1, <1>2, <1>3, HooksKept
<1>8. Submitted' BY <1>1, <1>2, <1>3, SubmittedKept
<1> QED BY <1>4, <1>5, <1>6, <1>7, <1>8 DEF RelayInv

(* A step of nobody keeps the invariant. *)
LEMMA StutterKeeps == ASSUME RelayInv, UNCHANGED vars PROVE RelayInv'
<1>1. ScriptOK /\ Typed /\ RequestPhase /\ ResponsePhase /\ Hooked /\ Submitted BY DEF RelayInv
<1>2. UNCHANGED <<script, phase, bodyVars, continued, gone, tunnelVars, hookVars>> BY DEF vars
<1>3. UNCHANGED script /\ msg' = msg /\ offered' = offered /\ phase' = phase /\ continued' = continued /\ gone' = gone
  BY <1>2 DEF script, hookVars
<1>4. Typed' BY <1>1, <1>2, <1>3, TypedKept DEF Typed
<1>5. ScriptOK' BY <1>1, <1>3, ScriptKept
<1>6. RequestPhase' /\ ResponsePhase' BY <1>1, <1>2, PhasesKept
<1>7. Hooked' BY <1>1, <1>2, <1>3, HooksKept
<1>8. Submitted' BY <1>1, <1>2, <1>3, SubmittedKept
<1> QED BY <1>4, <1>5, <1>6, <1>7, <1>8 DEF RelayInv

(* What Hooked says of the queue. *)
LEMMA HookedIs ==
    ASSUME Hooked
    PROVE  Seen(observed, queue, sequence) /\ Len(queue) <= QueueCapacity /\ offered \subseteq Events /\ sequence \in Nat
BY DEF Hooked, Seen

(* The hook worker keeps the invariant: it takes the oldest event, and may *)
(* skip it.                                                                *)
LEMMA RunHookWorkerKeeps == ASSUME RelayInv, RunHookWorker PROVE RelayInv'
<1>1. ScriptOK /\ Typed /\ RequestPhase /\ ResponsePhase /\ Hooked /\ Submitted BY DEF RelayInv
<1>2. /\ queue # <<>> /\ queue' = Tail(queue) /\ observed' \in {observed, Append(observed, Head(queue))}
      /\ UNCHANGED <<script, phase, bodyVars, continued, gone, tunnelVars, offered>>
  BY DEF RunHookWorker
<1>3. UNCHANGED script /\ msg' = msg /\ offered' = offered /\ phase' = phase /\ continued' = continued /\ gone' = gone
  BY <1>2 DEF script
<1>4. Typed' BY <1>1, <1>2, <1>3, TypedKept DEF Typed
<1>5. ScriptOK' BY <1>1, <1>3, ScriptKept
<1>6. RequestPhase' /\ ResponsePhase' BY <1>1, <1>2, PhasesKept
<1>7. Submitted' BY <1>1, <1>2, <1>3, SubmittedKept
<1>8. Hooked'
  <2>1. Seen(observed, queue, sequence) /\ Len(queue) <= QueueCapacity BY <1>1, HookedIs
  <2>2. Seen(observed', queue', sequence) BY <1>2, <2>1, SeenTail
  <2>3. observed \in Seq(Events) /\ queue \in Seq(Events) BY <2>1 DEF Seen
  <2>4. Len(queue') <= QueueCapacity BY <1>2, <2>1, <2>3, LimitIs
  <2>5. observed \o queue # <<>> BY <1>2, <2>3
  <2>6. tunnel' = tunnel /\ taken' = taken /\ passed' = passed /\ sequence' = sequence BY <1>2 DEF script, tunnelVars
  <2>7. \A d, i : Offers(d, i)' = Offers(d, i) BY <1>3 DEF Offers
  <2>8. Exchange' = Exchange BY DEF Exchange
  <2>9. phase \in Ended \cup {"tunnel"} BY <1>1, <2>5 DEF Hooked
  <2>10. /\ queue' \in Seq(Events) /\ observed' \in Seq(Events) /\ Rising(observed' \o queue')
         /\ \A i \in 1..Len(observed' \o queue') : (observed' \o queue')[i].sequence <= sequence
    BY <2>2, Zenon DEF Seen
  <2> QED BY <1>1, <1>3, <2>4, <2>6, <2>7, <2>8, <2>9, <2>10, Zenon DEF Hooked, Rising
<1> QED BY <1>4, <1>5, <1>6, <1>7, <1>8 DEF RelayInv

(* Submitting an event keeps queue and order: a full queue drops it. *)
LEMMA SubmitSeen ==
    ASSUME NEW e \in Events, SubmitEvent(e), NEW n, Seen(observed, queue, n), n <= e.sequence,
           Seen(observed, Append(queue, e), e.sequence), Len(queue) <= QueueCapacity, offered \subseteq Events
    PROVE  /\ Seen(observed', queue', e.sequence) /\ Len(queue') <= QueueCapacity /\ offered' \subseteq Events
           /\ offered \subseteq offered' /\ e \in offered'
<1>1. /\ queue' = IF Len(queue) < QueueCapacity THEN Append(queue, e) ELSE queue
      /\ offered' = offered \cup {e} /\ observed' = observed
  BY DEF SubmitEvent
<1>2. queue \in Seq(Events) /\ n \in Nat /\ e.sequence \in Nat /\ observed \in Seq(Events) BY EventIs DEF Seen
<1>3. offered' \subseteq Events /\ offered \subseteq offered' /\ e \in offered' BY <1>1
<1>4. CASE Len(queue) < QueueCapacity BY <1>1, <1>2, <1>3, <1>4, LimitIs
<1>5. CASE ~(Len(queue) < QueueCapacity) BY <1>1, <1>2, <1>3, <1>5, EventIs DEF Seen
<1> QED BY <1>4, <1>5

(* The exchange is an event, with number 0. *)
LEMMA ExchangeIs == Exchange \in Events /\ Exchange.sequence = 0
BY DEF Exchange, Events, Directions

(* Submitting the exchange, which is the first event, keeps Hooked. *)
LEMMA ExchangeSubmitted ==
    ASSUME Hooked, SubmitEvent(Exchange), phase \notin Ended \cup {"tunnel"}, phase' \in Ended \cup {"tunnel"},
           UNCHANGED <<script, tunnelVars>>
    PROVE  Hooked' /\ Exchange \in offered'
<1>1. Seen(observed, queue, sequence) /\ Len(queue) <= QueueCapacity /\ offered \subseteq Events BY HookedIs
<1>2. observed \o queue = <<>> /\ sequence = 0 BY NotOffered
<1>3. Exchange \in Events /\ Exchange.sequence = 0 BY ExchangeIs
<1>4. Seen(observed, Append(queue, Exchange), 0) BY <1>1, <1>2, <1>3, SeenStarts DEF Seen
<1>5. /\ Seen(observed', queue', 0) /\ Len(queue') <= QueueCapacity /\ offered' \subseteq Events
      /\ offered \subseteq offered' /\ Exchange \in offered'
  <2>1. 0 <= 0 OBVIOUS
  <2> QED BY <1>1, <1>2, <1>3, <1>4, <2>1, SubmitSeen
<1>6. tunnel' = tunnel /\ taken' = taken /\ passed' = passed /\ sequence' = 0 BY <1>2 DEF script, tunnelVars
<1>7. \A d, i : Offers(d, i) => Offers(d, i)' BY <1>5 DEF Offers
<1>8. /\ queue' \in Seq(Events) /\ observed' \in Seq(Events) /\ Rising(observed' \o queue')
      /\ \A i \in 1..Len(observed' \o queue') : (observed' \o queue')[i].sequence <= 0
  BY <1>5, Zenon DEF Seen
<1>9. Exchange' = Exchange BY DEF Exchange
<1>10. /\ taken \in [Directions -> Nat] /\ passed \in [Directions -> Nat]
       /\ \A d \in Directions : /\ passed[d] <= taken[d] /\ taken[d] <= Len(tunnel[d])
                                /\ \A i \in 1..taken[d] : tunnel[d][i] = "text" => Offers(d, i)'
  BY <1>7 DEF Hooked
<1>11. 0 \in Nat OBVIOUS
<1>12. Hooked' BY <1>5, <1>6, <1>8, <1>9, <1>10, <1>11, Zenon DEF Hooked, Rising
<1> QED BY <1>5, <1>12

(* Submitting a complete exchange keeps the invariant, also when the agent *)
(* left before the last byte.                                              *)
LEMMA CloseAndSubmitKeeps == ASSUME RelayInv, CloseAndSubmit PROVE RelayInv'
<1>1. ScriptOK /\ Typed /\ RequestPhase /\ ResponsePhase /\ Hooked /\ Submitted BY DEF RelayInv
<1>2. /\ phase = "closing" /\ SubmitEvent(Exchange) /\ UNCHANGED <<script, bodyVars, continued, gone, tunnelVars>>
      /\ phase' \in {"done", "failed"}
  BY DEF CloseAndSubmit, Fail
<1>3. UNCHANGED script /\ msg' = msg /\ continued' = continued /\ gone' = gone BY <1>2 DEF script
<1>4. Typed' BY <1>1, <1>2, <1>3, TypedKept DEF Typed, Phases, Ended
<1>5. ScriptOK' BY <1>1, <1>3, ScriptKept
<1>6. RequestPhase' /\ ResponsePhase' BY <1>2 DEF RequestPhase, ResponsePhase, RequestDone
<1>7. Hooked' /\ Exchange \in offered' BY <1>1, <1>2, ExchangeSubmitted DEF Ended
<1>8. /\ DoneAt(msg["request"], out["request"], capture["request"], counted["request"])
      /\ DoneAt(msg["response"], out["response"], capture["response"], counted["response"])
  BY <1>1, <1>2 DEF RequestPhase, ResponsePhase, RequestDone
<1>9. out' = out /\ capture' = capture /\ counted' = counted BY <1>2 DEF bodyVars
<1>10. \A d \in Directions : DoneAt(msg'[d], out'[d], capture'[d], counted'[d]) BY <1>3, <1>8, <1>9, TwoWays
<1>11. Submitted' BY <1>2, <1>7, <1>10 DEF Submitted, CompleteIsObserved, Ended, Exchange
<1> QED BY <1>4, <1>5, <1>6, <1>7, <1>11 DEF RelayInv

(* Accepting an upgrade keeps the invariant: its exchange is offered before *)
(* any message.                                                             *)
LEMMA AcceptUpgradeKeeps == ASSUME RelayInv, AcceptUpgrade PROVE RelayInv'
<1>1. ScriptOK /\ Typed /\ RequestPhase /\ ResponsePhase /\ Hooked /\ Submitted BY DEF RelayInv
<1>2. phase = "upgrade_back" /\ UNCHANGED <<script, hand, got, parser, capture, counted, agentError, continued, gone, tunnelVars>>
  BY DEF AcceptUpgrade
<1>3. CASE Fail /\ UNCHANGED <<out, hookVars>> BY <1>2, <1>3, FailKeeps DEF Fail, EarlyPhases, bodyVars
<1>4. ASSUME AppendHead("response"), phase' = "tunnel", SubmitEvent(Exchange)
      PROVE  RelayInv'
  <2>1. UNCHANGED script /\ msg' = msg /\ accepted' = accepted BY <1>2 DEF script
  <2>2. FreshAt(out["response"], capture["response"], counted["response"]) /\ accepted BY <1>1, <1>2 DEF ResponsePhase
  <2>3. DoneAt(msg["request"], out["request"], capture["request"], counted["request"]) BY <1>1, <1>2 DEF RequestPhase, RequestDone
  <2>4. phase' \in Phases BY <1>4 DEF Phases
  <2>5. Typed' /\ out'["response"] = <<HeadByte>> /\ out'["request"] = out["request"]
    BY <1>1, <1>2, <1>4, <2>1, <2>2, <2>4, TwoWays, HeadSent DEF FreshAt
  <2>6. RequestPhase' BY <1>2, <1>4, <2>1, <2>3, <2>5 DEF RequestPhase, RequestDone
  <2>7. ResponsePhase' BY <1>4, <2>1, <2>2 DEF ResponsePhase
  <2>8. ScriptOK' BY <1>1, <2>1, ScriptKept
  <2>9. Hooked' BY <1>1, <1>2, <1>4, ExchangeSubmitted DEF Ended
  <2>10. Submitted' BY <1>4, <2>1, <2>2 DEF Submitted, CompleteIsObserved
  <2> QED BY <2>5, <2>6, <2>7, <2>8, <2>9, <2>10 DEF RelayInv
<1> QED BY <1>3, <1>4 DEF AcceptUpgrade

-----------------------------------------------------------------------------
(* The upgraded connection. *)

(* In the tunnel the upgrade was accepted and offered. *)
LEMMA TunnelIs ==
    ASSUME RelayInv, phase = "tunnel"
    PROVE  accepted /\ Exchange \in offered /\ \A d \in Directions : Len(tunnel[d]) \in Nat
<1>1. ScriptOK /\ ResponsePhase /\ Hooked BY DEF RelayInv
<1>2. \A d \in Directions : tunnel[d] \in Seq({"text", "ping", "close"}) BY <1>1 DEF ScriptOK
<1>3. \A d \in Directions : Len(tunnel[d]) \in Nat BY <1>2
<1> QED BY <1>1, <1>3 DEF ResponsePhase, Hooked

(* Steps in the tunnel leave both messages as they were. *)
LEMMA TunnelPhases ==
    ASSUME RelayInv, phase = "tunnel", phase' \in Ended \cup {"tunnel"}, UNCHANGED <<script, bodyVars, continued, gone>>
    PROVE  ScriptOK' /\ Typed' /\ RequestPhase' /\ ResponsePhase'
<1>1. ScriptOK /\ Typed /\ RequestPhase /\ ResponsePhase /\ Hooked /\ Submitted BY DEF RelayInv
<1>2. UNCHANGED script /\ msg' = msg /\ continued' = continued /\ gone' = gone /\ accepted' = accepted BY DEF script
<1>3. out' = out /\ capture' = capture /\ counted' = counted BY DEF bodyVars
<1>4. Typed' BY <1>1, <1>2, TypedKept DEF Typed, Phases
<1>5. ScriptOK' BY <1>1, <1>2, ScriptKept
<1>6. accepted BY TunnelIs
<1>7. DoneAt(msg["request"], out["request"], capture["request"], counted["request"]) BY <1>1 DEF RequestPhase, RequestDone
<1>8. phase' \in {"done", "failed", "tunnel"} BY DEF Ended
<1>9. RequestPhase' BY <1>2, <1>3, <1>7, <1>8 DEF RequestPhase, RequestDone
<1>10. ResponsePhase' BY <1>2, <1>6, <1>8 DEF ResponsePhase
<1> QED BY <1>4, <1>5, <1>9, <1>10

(* An accepted upgrade that was offered satisfies Submitted. *)
LEMMA AcceptedSubmitted ==
    ASSUME accepted', Exchange \in offered'
    PROVE  Submitted'
BY DEF Submitted, CompleteIsObserved, Exchange

(* The end of a tunnel keeps the invariant. *)
LEMMA TunnelEndsKeeps == ASSUME RelayInv, NEW d \in Directions, TunnelEnds(d) PROVE RelayInv'
<1>1. phase = "tunnel" /\ phase' \in Ended /\ UNCHANGED <<script, bodyVars, continued, gone, tunnelVars, hookVars>> BY DEF TunnelEnds
<1>2. accepted /\ Exchange \in offered BY <1>1, TunnelIs
<1>3. accepted' /\ Exchange \in offered' BY <1>1, <1>2 DEF script, hookVars
<1>4. ScriptOK' /\ Typed' /\ RequestPhase' /\ ResponsePhase' BY <1>1, TunnelPhases
<1>5. Hooked' BY <1>1, HooksKept DEF RelayInv, Ended
<1>6. Submitted' BY <1>3, AcceptedSubmitted
<1> QED BY <1>4, <1>5, <1>6 DEF RelayInv

(* A message is taken, numbered, offered, and passed on or lost. *)
Relayed(d) ==
    /\ taken' = [taken EXCEPT ![d] = @ + 1] /\ sequence' = sequence + 1
    /\ passed' = [passed EXCEPT ![d] = @ + 1] \/ passed' = passed
    /\ SubmitMessage(d, taken[d] + 1)

(* Relaying a message keeps Hooked: it is offered before it is passed. *)
LEMMA MessageHooks ==
    ASSUME Hooked, Exchange \in offered, phase' \in Ended \cup {"tunnel"}, tunnel' = tunnel,
           NEW d \in Directions, taken[d] < Len(tunnel[d]), Len(tunnel[d]) \in Nat, Relayed(d)
    PROVE  Hooked' /\ Exchange \in offered'
<1>1. Seen(observed, queue, sequence) /\ Len(queue) <= QueueCapacity /\ offered \subseteq Events /\ sequence \in Nat BY HookedIs
<1>2. /\ taken \in [Directions -> Nat] /\ passed \in [Directions -> Nat]
      /\ \A f \in Directions : /\ passed[f] <= taken[f] /\ taken[f] <= Len(tunnel[f])
                               /\ \A i \in 1..taken[f] : tunnel[f][i] = "text" => Offers(f, i)
  BY DEF Hooked
<1>3. PICK s : s = sequence OBVIOUS
<1>4. PICK k : k = taken[d] + 1 OBVIOUS
<1>5. k \in Nat /\ k <= Len(tunnel[d]) /\ s \in Nat /\ s + 1 \in Nat /\ s <= s + 1 /\ s < s + 1 BY <1>1, <1>2, <1>3, <1>4
<1>6. PICK e : e = [what |-> "message", direction |-> d, item |-> k, sequence |-> s + 1] OBVIOUS
<1>7. e \in Events /\ e.sequence = s + 1 /\ e.direction = d /\ e.item = k BY <1>5, <1>6 DEF Events
<1>8. IF tunnel[d][k] = "text" THEN SubmitEvent(e) ELSE UNCHANGED hookVars BY <1>3, <1>4, <1>6 DEF Relayed, SubmitMessage
<1>9. /\ Seen(observed', queue', s + 1) /\ Len(queue') <= QueueCapacity /\ offered' \subseteq Events /\ offered \subseteq offered'
      /\ tunnel[d][k] = "text" => e \in offered'
  <2>1. CASE tunnel[d][k] = "text"
    <3>1. Seen(observed, Append(queue, e), e.sequence) BY <1>1, <1>3, <1>5, <1>7, SeenGrows
    <3>2. SubmitEvent(e) BY <1>8, <2>1
    <3> QED BY <1>1, <1>3, <1>5, <1>7, <3>1, <3>2, SubmitSeen
  <2>2. CASE tunnel[d][k] # "text" BY <1>1, <1>3, <1>5, <1>8, <2>2, EventIs DEF hookVars, Seen
  <2> QED BY <2>1, <2>2
<1>10. \A f, i : Offers(f, i) => Offers(f, i)' BY <1>9 DEF Offers
<1>11. tunnel[d][k] = "text" => Offers(d, k)' BY <1>7, <1>9 DEF Offers
<1>12. sequence' = s + 1 BY <1>3 DEF Relayed
<1>13. taken' \in [Directions -> Nat] /\ taken'[d] = k /\ \A f \in Directions \ {d} : taken'[f] = taken[f]
  BY <1>2, <1>4, <1>5 DEF Relayed
<1>14. passed' \in [Directions -> Nat] /\ (passed'[d] = passed[d] + 1 \/ passed'[d] = passed[d])
       /\ \A f \in Directions \ {d} : passed'[f] = passed[f] BY <1>2 DEF Relayed
<1>15. ASSUME NEW f \in Directions
       PROVE  /\ passed'[f] <= taken'[f] /\ taken'[f] <= Len(tunnel[f])
              /\ \A i \in 1..taken'[f] : tunnel[f][i] = "text" => Offers(f, i)'
  <2>1. CASE f = d
    <3>1. passed[d] \in Nat /\ taken[d] \in Nat /\ passed[d] <= taken[d] BY <1>2
    <3>2. passed'[d] <= taken'[d] BY <1>4, <1>13, <1>14, <3>1
    <3>3. ASSUME NEW i \in 1..taken'[d], tunnel[d][i] = "text" PROVE Offers(d, i)'
      BY <1>2, <1>4, <1>10, <1>11, <1>13, <3>1, <3>3
    <3> QED BY <1>5, <1>13, <2>1, <3>2, <3>3
  <2>2. CASE f # d BY <1>2, <1>10, <1>13, <1>14, <2>2
  <2> QED BY <2>1, <2>2
<1>16. /\ queue' \in Seq(Events) /\ observed' \in Seq(Events) /\ Rising(observed' \o queue')
       /\ \A i \in 1..Len(observed' \o queue') : (observed' \o queue')[i].sequence <= s + 1
  BY <1>9, Zenon DEF Seen
<1>17. Exchange' = Exchange /\ Exchange \in offered' BY <1>9 DEF Exchange
<1>18. Hooked' BY <1>5, <1>9, <1>12, <1>13, <1>14, <1>15, <1>16, <1>17, Zenon DEF Hooked, Rising
<1> QED BY <1>17, <1>18

(* Relaying a message keeps the invariant. *)
LEMMA ForwardMessageKeeps == ASSUME RelayInv, NEW d \in Directions, ForwardMessage(d) PROVE RelayInv'
<1>1. phase = "tunnel" /\ taken[d] < Len(tunnel[d]) /\ UNCHANGED <<script, bodyVars, continued, gone>> BY DEF ForwardMessage
<1>2. accepted /\ Exchange \in offered /\ Len(tunnel[d]) \in Nat BY <1>1, TunnelIs
<1>3. phase' \in Ended \cup {"tunnel"} BY DEF ForwardMessage, Fail, Ended
<1>4. Relayed(d) BY DEF ForwardMessage, Relayed
<1>5. Hooked BY DEF RelayInv
<1>6. tunnel' = tunnel /\ accepted' BY <1>1, <1>2 DEF script
<1>7. Hooked' /\ Exchange \in offered' BY <1>1, <1>2, <1>3, <1>4, <1>5, <1>6, MessageHooks
<1>8. ScriptOK' /\ Typed' /\ RequestPhase' /\ ResponsePhase' BY <1>1, <1>3, TunnelPhases
<1>9. Submitted' BY <1>6, <1>7, AcceptedSubmitted
<1> QED BY <1>7, <1>8, <1>9 DEF RelayInv

(* A flow about to read its request head satisfies the invariant. *)
LEMMA InitRelay == Init => RelayInv
<1> SUFFICES ASSUME Init PROVE RelayInv OBVIOUS
<1>1. PICK q \in RequestBodies, r \in ResponseBodies : msg = [request |-> q, response |-> r] BY DEF Init
<1>2. IsBody(q) /\ IsBody(r) BY HttpRelayAssumption
<1>3. msg \in [Directions -> {m \in RequestBodies \cup ResponseBodies : IsBody(m)}] BY <1>1, <1>2 DEF Directions
<1>4. tunnel \in [Directions -> Seq({"text", "ping", "close"})]
  <2>1. CASE accepted BY <2>1, HttpRelayAssumption DEF Init
  <2>2. CASE ~accepted
    <3>1. tunnel = [d \in Directions |-> <<>>] BY <2>2 DEF Init
    <3> QED BY <3>1
  <2> QED BY <2>1, <2>2
<1>5. ScriptOK BY <1>3, <1>4 DEF Init, ScriptOK
<1>6. /\ phase = "agent_head" /\ hand = <<>> /\ got = [d \in Directions |-> 0] /\ out = [d \in Directions |-> <<>>]
      /\ parser = [state |-> "size", left |-> 0, pending |-> <<>>]
      /\ capture = [d \in Directions |-> [bytes |-> <<>>, whole |-> TRUE]] /\ counted = [d \in Directions |-> 0]
      /\ agentError = FALSE /\ continued = FALSE /\ gone = {}
      /\ taken = [d \in Directions |-> 0] /\ passed = [d \in Directions |-> 0] /\ sequence = 0
      /\ queue = <<>> /\ observed = <<>> /\ offered = {}
  BY DEF Init
<1>7. <<>> \in Seq(ByteSet) /\ <<>> \in Seq(Events) /\ Len(<<>>) = 0 OBVIOUS
<1>8. Typed
  <2>1. ASSUME NEW d \in Directions PROVE got[d] <= Len(Wire(msg[d])) /\ Len(capture[d].bytes) <= BodyLimit /\ out[d] = <<>>
    BY <1>5, <1>6, <1>7, MessageIs, WireType, LimitIs
  <2>2. phase \in Phases /\ hand \in Seq(ByteSet) /\ got \in [Directions -> Nat] /\ out \in [Directions -> Seq(ByteSet)]
    BY <1>6, <1>7 DEF Phases
  <2>3. counted \in [Directions -> Nat] /\ capture \in [Directions -> [bytes : Seq(ByteSet), whole : BOOLEAN]]
    BY <1>6, <1>7
  <2>4. /\ parser \in [state : {"size", "data", "terminator", "trailers"}, left : Nat, pending : Seq(ByteSet)]
        /\ Len(parser.pending) <= HeaderBytes
    BY <1>6, <1>7, LimitIs
  <2> QED BY <1>6, <2>1, <2>2, <2>3, <2>4 DEF Typed
<1>9. \A d \in Directions : FreshAt(out[d], capture[d], counted[d]) /\ got[d] = 0 BY <1>6 DEF FreshAt, NoCapture
<1>10. RequestPhase BY <1>6, <1>9, TwoWays DEF RequestPhase, RequestDone
<1>11. ResponsePhase BY <1>6, <1>9, TwoWays DEF ResponsePhase
<1>12. Hooked BY <1>4, <1>6, <1>7, ConcatEmptySeq, LimitIs DEF Rising, Hooked
<1>13. Submitted BY <1>6 DEF Submitted, CompleteIsObserved
<1> QED BY <1>5, <1>8, <1>10, <1>11, <1>12, <1>13 DEF RelayInv

(* Every step keeps the invariant. *)
LEMMA StepRelay == RelayInv /\ [Next]_vars => RelayInv'
<1> SUFFICES ASSUME RelayInv, [Next]_vars PROVE RelayInv' OBVIOUS
<1>1. CASE ReadRequestHead BY <1>1, ReadRequestHeadKeeps
<1>2. CASE WriteRequestHead BY <1>2, WriteRequestHeadKeeps
<1>3. CASE SendContinue BY <1>3, SendContinueKeeps
<1>4. CASE ReadResponseHead BY <1>4, ReadResponseHeadKeeps
<1>5. CASE WriteResponseHead BY <1>5, WriteResponseHeadKeeps
<1>6. CASE CloseAndSubmit BY <1>6, CloseAndSubmitKeeps
<1>7. CASE WriteUpgradeHead BY <1>7, WriteUpgradeHeadKeeps
<1>8. CASE AcceptUpgrade BY <1>8, AcceptUpgradeKeeps
<1>9. ASSUME NEW d \in Directions, ForwardBody(d) PROVE RelayInv' BY <1>9, ForwardSteps, BodyKeeps DEF ForwardBody
<1>10. ASSUME NEW d \in Directions, ReadBody(d) PROVE RelayInv' BY <1>10, ReadSteps, BodyKeeps DEF ReadBody
<1>11. ASSUME NEW d \in Directions, ReadBodyEnds(d) PROVE RelayInv'
  BY <1>11, ReadEndSteps, BodyKeeps DEF ReadBodyEnds
<1>12. ASSUME NEW d \in Directions, ForwardMessage(d) PROVE RelayInv' BY <1>12, ForwardMessageKeeps
<1>13. ASSUME NEW d \in Directions, TunnelEnds(d) PROVE RelayInv' BY <1>13, TunnelEndsKeeps
<1>14. ASSUME NEW peer \in {"agent", "provider"}, Disconnect(peer) PROVE RelayInv' BY <1>14, DisconnectKeeps
<1>15. CASE RunHookWorker BY <1>15, RunHookWorkerKeeps
<1>16. CASE UNCHANGED vars BY <1>16, StutterKeeps
<1> QED
  BY <1>1, <1>2, <1>3, <1>4, <1>5, <1>6, <1>7, <1>8, <1>9, <1>10, <1>11, <1>12, <1>13, <1>14, <1>15, <1>16, Zenon
  DEF Next, Relay

-----------------------------------------------------------------------------
(* What the invariant says of the flow. *)

(* A list is a prefix of itself and more. *)
LEMMA PrefixOfCat ==
    ASSUME NEW o \in Seq(ByteSet), NEW r \in Seq(ByteSet)
    PROVE  IsPrefix(o, o \o r)
<1>1. PICK t : t = o \o r OBVIOUS
<1>2. PICK n : n = Len(o) OBVIOUS
<1>3. n \in Nat /\ Len(r) \in Nat BY <1>2
<1>4. /\ t \in Seq(ByteSet) /\ Len(t) = n + Len(r)
      /\ \A i \in 1..(n + Len(r)) : t[i] = IF i <= n THEN o[i] ELSE r[i - n]
  BY <1>1, <1>2, ConcatProperties
<1>5. n <= Len(t) /\ 0 <= n BY <1>3, <1>4
<1>6. \A i \in 1..n : t[i] = o[i] BY ONLY <1>3, <1>4
<1>7. Fits(t, 0, n) BY <1>3, <1>4, <1>5 DEF Fits
<1>8. PICK s : s = Stretch(t, 0, n) OBVIOUS
<1>9. s \in Seq(ByteSet) /\ Len(s) = n - 0 /\ \A i \in 1..(n - 0) : s[i] = t[0 + i] BY <1>7, <1>8, StretchIs
<1>10. n - 0 = n /\ \A i \in 1..n : 0 + i = i BY <1>3
<1>11. \A i \in 1..n : s[i] = o[i] BY <1>6, <1>9, <1>10
<1>12. s = o BY <1>2, <1>9, <1>10, <1>11, SameSeq
<1>13. SubSeq(t, 1, n) = o BY <1>8, <1>12 DEF Stretch
<1>14. SubSeq(o, 1, n) = o BY <1>2, SubSeqFull
<1> QED BY <1>1, <1>2, <1>5, <1>13, <1>14, Zenon DEF IsPrefix

(* What was sent is a prefix of the one message. *)
LEMMA HeadedPrefix ==
    ASSUME NEW m, IsBody(m), NEW o, Headed(m, o), NEW e, e = IF m.flaw = "extra" THEN Encoded(m) ELSE Wire(m)
    PROVE  IsPrefix(o, <<HeadByte>> \o e)
<1>1. PICK w : w = Wire(m) OBVIOUS
<1>2. PICK k : k = Len(o) - 1 OBVIOUS
<1>3. w \in Seq(ByteSet) /\ e \in Seq(ByteSet) BY <1>1, WireType
<1>4. k \in Nat /\ o \in Seq(ByteSet) BY <1>2, HeadedIs
<1>5. k <= Len(w) /\ o = <<HeadByte>> \o Stretch(w, 0, k) /\ (m.flaw = "extra" => k <= Len(Encoded(m)))
  BY <1>1, <1>2, Zenon DEF Headed
<1>6. k <= Len(e) BY <1>1, <1>5
<1>7. Fits(w, 0, k) /\ Fits(e, 0, k) BY <1>3, <1>4, <1>5, <1>6 DEF Fits
<1>8. Alike(w, e, k)
  <2>1. CASE m.flaw = "extra"
    <3>1. OnWire(m, w, Encoded(m)) /\ e = Encoded(m) BY <1>1, <2>1, WireIs
    <3>2. Alike(w, e, Len(e)) BY <2>1, <3>1, Zenon DEF OnWire
    <3> QED BY <1>3, <1>4, <1>6, <3>2 DEF Alike
  <2>2. CASE m.flaw # "extra" BY <1>1, <2>2 DEF Alike
  <2> QED BY <2>1, <2>2
<1>9. Stretch(w, 0, k) = Stretch(e, 0, k) BY <1>7, <1>8, SameStretch
<1>10. PICK n : n = Len(e) OBVIOUS
<1>11. n \in Nat /\ Fits(e, k, n) /\ Fits(e, 0, n) BY <1>3, <1>4, <1>6, <1>10 DEF Fits
<1>12. PICK r : r = Stretch(e, k, n) OBVIOUS
<1>13. r \in Seq(ByteSet) BY <1>11, <1>12, StretchIs
<1>14. Stretch(e, 0, n) = e BY <1>3, <1>10, SubSeqFull DEF Stretch
<1>15. o \o r = <<HeadByte>> \o e
  <2>1. (<<HeadByte>> \o Stretch(e, 0, k)) \o Stretch(e, k, n) = <<HeadByte>> \o Stretch(e, 0, n) BY <1>11, HeadGrows
  <2> QED BY <1>5, <1>9, <1>12, <1>14, <2>1, Zenon
<1>16. IsPrefix(o, o \o r) BY <1>4, <1>13, PrefixOfCat
<1> QED BY <1>15, <1>16, Zenon

(* Nothing is a prefix of everything. *)
LEMMA EmptyPrefix == ASSUME NEW t \in Seq(ByteSet) PROVE IsPrefix(<<>>, t)
<1>1. Len(<<>>) = 0 /\ 0 <= Len(t) OBVIOUS
<1>2. SubSeq(t, 1, 0) = <<>> /\ SubSeq(<<>>, 1, 0) = <<>> BY SubSeqEmpty
<1> QED BY <1>1, <1>2 DEF IsPrefix

(* A complete message was captured exactly, up to the limit, and counted. *)
LEMMA DoneShows ==
    ASSUME NEW m, IsBody(m), NEW o, NEW c, NEW n, DoneAt(m, o, c, n), NEW p, p = Payload(m)
    PROVE  /\ m.flaw \in {"none", "trailer", "extra"} /\ n = Len(o) - 1
           /\ c.bytes = SubSeq(p, 1, IF Len(p) < BodyLimit THEN Len(p) ELSE BodyLimit)
           /\ c.whole = (Len(p) <= BodyLimit)
<1>1. Len(p) = Total(m.sizes) BY WireType
<1>2. c = Captured(p, Len(p)) BY <1>1, Zenon DEF DoneAt
<1>3. /\ c.bytes = SubSeq(p, 1, IF Len(p) < BodyLimit THEN Len(p) ELSE BodyLimit)
      /\ c.whole = (Len(p) <= BodyLimit)
  BY <1>2 DEF Captured, LeastOf
<1> QED BY <1>3 DEF DoneAt, Whole

(* The invariant implies the bounds. *)
LEMMA RelayBounded == RelayInv => BoundedMemory
BY DEF RelayInv, Typed, Hooked, BoundedMemory

(* The invariant implies that one message is forwarded. *)
LEMMA RelayForwards == RelayInv => ForwardsOneMessage
<1> SUFFICES ASSUME RelayInv, NEW d \in Directions
             PROVE  IsPrefix(out[d], <<HeadByte>> \o IF msg[d].flaw = "extra" THEN Encoded(msg[d]) ELSE Wire(msg[d]))
  BY DEF ForwardsOneMessage
<1>1. ScriptOK /\ Typed BY DEF RelayInv
<1>2. IsBody(msg[d]) BY <1>1, MessageIs
<1>3. out[d] = <<>> \/ Headed(msg[d], out[d]) BY <1>1, TypedIs
<1>4. PICK e : e = IF msg[d].flaw = "extra" THEN Encoded(msg[d]) ELSE Wire(msg[d]) OBVIOUS
<1>5. e \in Seq(ByteSet) BY <1>2, <1>4, WireType
<1>6. <<HeadByte>> \o e \in Seq(ByteSet) BY <1>2, <1>5, HeadAlone
<1>7. IsPrefix(out[d], <<HeadByte>> \o e) BY <1>2, <1>3, <1>4, <1>6, EmptyPrefix, HeadedPrefix
<1> QED BY <1>4, <1>7, Zenon

(* The invariant implies that a hook is shown the exchange. *)
LEMMA RelayExact == RelayInv => ExchangeExact
<1> SUFFICES ASSUME RelayInv PROVE ExchangeExact OBVIOUS
<1>1. ScriptOK /\ Typed /\ Hooked /\ Submitted BY DEF RelayInv
<1>2. TypeOK
  <2>1. /\ phase \in Phases /\ parser.state \in {"size", "data", "terminator", "trailers"} /\ parser.left \in Nat
        /\ agentError \in BOOLEAN /\ continued \in BOOLEAN /\ gone \subseteq {"agent", "provider"}
    BY <1>1, TwoWays, TypedIs DEF Parsers, States
  <2>2. ASSUME NEW d \in Directions
        PROVE  /\ got[d] \in 0..Len(Wire(msg[d])) /\ counted[d] \in Nat
               /\ passed[d] \in 0..taken[d] /\ taken[d] \in 0..Len(tunnel[d])
    BY <1>1, MessageIs, WireType, TypedIs DEF Hooked, ScriptOK
  <2> QED BY <2>1, <2>2 DEF TypeOK
<1>3. ASSUME Exchange \in offered, ~accepted, NEW d \in Directions
      PROVE  LET p == Payload(msg[d]) IN
             /\ msg[d].flaw \in {"none", "trailer", "extra"} /\ counted[d] = Len(out[d]) - 1
             /\ capture[d].bytes = SubSeq(p, 1, IF Len(p) < BodyLimit THEN Len(p) ELSE BodyLimit)
             /\ capture[d].whole = (Len(p) <= BodyLimit) BY <1>1, <1>3, MessageIs, DoneShows DEF Submitted
<1>4. CaptureMatches BY <1>3 DEF CaptureMatches
<1>5. CountsAccepted BY <1>3 DEF CountsAccepted
<1> QED BY <1>2, <1>4, <1>5 DEF ExchangeExact

(* The invariant implies that everything complete is observed. *)
LEMMA RelayObserved == RelayInv => ObservedInOrder
<1> SUFFICES ASSUME RelayInv PROVE ObservedInOrder OBVIOUS
<1>1. Hooked /\ Submitted BY DEF RelayInv
<1>2. CompleteIsObserved BY <1>1 DEF Submitted
<1>3. ASSUME NEW d \in Directions, NEW i \in 1..passed[d], tunnel[d][i] = "text"
      PROVE  \E e \in offered : e.direction = d /\ e.item = i BY <1>1, <1>3 DEF Hooked, Offers
<1>4. Rising(observed \o queue) BY <1>1 DEF Hooked
<1>5. TunnelObserved BY <1>3, <1>4 DEF TunnelObserved, Rising
<1> QED BY <1>2, <1>5 DEF ObservedInOrder

(* In every phase of a relayed flow the bytes sent, the bytes in hand, the *)
(* chunk parser, the capture and the count stand at the same place of the  *)
(* wire, for both messages (relay.rs, http1.rs).                           *)
THEOREM RelayInvariant == Spec => []RelayInv
BY InitRelay, StepRelay, PTL DEF Spec

(* Whatever the peers send, a capture never holds more than the body limit, *)
(* the chunk parser never keeps more than the header limit, and the hook    *)
(* queue never holds more than its capacity (append_body_for_capture, feed, *)
(* HookDispatcher).                                                         *)
THEOREM MemoryBounded == Spec => []BoundedMemory
BY RelayInvariant, RelayBounded, PTL

(* However reads cut the wire and whatever is wrong with it, each peer is    *)
(* sent the other one's bytes in order and from the first, and none of those *)
(* pipelined behind the end of the message (forward_chunked_body and its     *)
(* siblings in relay.rs).                                                    *)
THEOREM OneMessageForwarded == Spec => []ForwardsOneMessage
BY RelayInvariant, RelayForwards, PTL

(* An exchange the hook is offered was complete on both sides; of each body *)
(* it is shown exactly the payload up to the limit, marked as cut only when *)
(* it is longer, and the byte counts are those the peers accepted.          *)
THEOREM ExchangesExact == Spec => []ExchangeExact
BY RelayInvariant, RelayExact, PTL

(* A flow whose response is complete has been offered to the hook, even when *)
(* the agent left before the last byte; the hook sees the exchange first and *)
(* then the messages of the tunnel in the order of their numbers, and no     *)
(* message reaches its receiver that was not offered before.                 *)
THEOREM EverythingObserved == Spec => []ObservedInOrder
BY RelayInvariant, RelayObserved, PTL
=============================================================================
