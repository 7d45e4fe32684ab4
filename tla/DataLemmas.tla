----------------------------- MODULE DataLemmas -----------------------------
(***************************************************************************)
(* The data structures the models share: queues and free lists as          *)
(* sequences (what Append, Tail and Front do to the set of their elements  *)
(* and to their being free of duplicates) and the least element of a set   *)
(* of numbers.                                                             *)
(***************************************************************************)
EXTENDS Naturals, FiniteSets, Sequences, SequencesExt, FiniteSetsExt, SequenceTheorems, FiniteSetTheorems,
        WellFoundedInduction, TLAPS

\* An element of a sequence is found at some place in it.
LEMMA SeqElements ==
  ASSUME NEW S, NEW s \in Seq(S)
  PROVE  /\ Len(s) \in Nat /\ DOMAIN s = 1 .. Len(s)
         /\ \A i \in 1 .. Len(s) : s[i] \in S /\ s[i] \in Range(s)
         /\ \A x \in Range(s) : x \in S /\ \E i \in 1 .. Len(s) : s[i] = x
         /\ s = << >> <=> Len(s) = 0
  BY DEF Range

\* Append adds one element.
LEMMA AppendElements ==
  ASSUME NEW S, NEW s \in Seq(S), NEW x \in S
  PROVE  /\ Append(s, x) \in Seq(S) /\ Len(Append(s, x)) = Len(s) + 1
         /\ Range(Append(s, x)) = Range(s) \cup {x}
         /\ IsInjective(s) /\ x \notin Range(s) => IsInjective(Append(s, x))
  <1> DEFINE a == Append(s, x)
  <1>1. /\ a \in Seq(S) /\ Len(a) = Len(s) + 1 /\ Len(s) \in Nat
        /\ DOMAIN a = 1 .. Len(s) + 1 /\ DOMAIN s = 1 .. Len(s)
        /\ \A i \in 1 .. Len(s) : a[i] = s[i]
        /\ a[Len(s) + 1] = x
    OBVIOUS
  <1> HIDE DEF a
  <1>2. Range(a) = Range(s) \cup {x}
    BY <1>1 DEF Range
  <1>3. ASSUME IsInjective(s), x \notin Range(s) PROVE IsInjective(a)
    <2> SUFFICES ASSUME NEW i \in 1 .. Len(s) + 1, NEW j \in 1 .. Len(s) + 1, a[i] = a[j] PROVE i = j
      BY <1>1 DEF IsInjective
    <2>1. \A k \in 1 .. Len(s) : s[k] # x
      BY <1>1, <1>3 DEF Range
    <2> QED BY <1>1, <1>3, <2>1 DEF IsInjective
  <1> QED BY <1>1, <1>2, <1>3 DEF a

\* Tail removes the head, and the head only when there are no duplicates.
LEMMA TailElements ==
  ASSUME NEW S, NEW s \in Seq(S), s # << >>
  PROVE  /\ Head(s) \in S /\ Head(s) \in Range(s)
         /\ Tail(s) \in Seq(S) /\ Len(Tail(s)) = Len(s) - 1
         /\ Range(s) = Range(Tail(s)) \cup {Head(s)}
         /\ IsInjective(s) => IsInjective(Tail(s)) /\ Range(Tail(s)) = Range(s) \ {Head(s)}
  <1> DEFINE u == Tail(s)
  <1>1. /\ u \in Seq(S) /\ Len(u) = Len(s) - 1 /\ Len(s) \in Nat /\ Len(s) > 0
        /\ DOMAIN u = 1 .. Len(s) - 1 /\ DOMAIN s = 1 .. Len(s)
        /\ \A i \in 1 .. Len(s) - 1 : u[i] = s[i + 1]
        /\ Head(s) = s[1] /\ s[1] \in S
    OBVIOUS
  <1> HIDE DEF u
  <1>2. \A j \in 2 .. Len(s) : j - 1 \in 1 .. Len(s) - 1 /\ u[j - 1] = s[j]
    BY <1>1
  <1>3. \A j \in 1 .. Len(s) : j = 1 \/ j \in 2 .. Len(s)
    BY <1>1
  <1>4. Range(s) = Range(u) \cup {s[1]}
    <2>1. ASSUME NEW y \in Range(u) PROVE y \in Range(s)
      BY <1>1, <2>1 DEF Range
    <2>2. ASSUME NEW y \in Range(s) PROVE y \in Range(u) \cup {s[1]}
      <3>1. PICK j \in 1 .. Len(s) : s[j] = y
        BY <1>1, <2>2 DEF Range
      <3> QED BY <1>1, <1>2, <1>3, <3>1 DEF Range
    <2>3. s[1] \in Range(s)
      BY <1>1 DEF Range
    <2> QED BY <2>1, <2>2, <2>3
  <1>5. ASSUME IsInjective(s) PROVE IsInjective(u) /\ s[1] \notin Range(u)
    <2>1. IsInjective(u)
      BY <1>1, <1>5 DEF IsInjective
    <2>2. \A i \in 1 .. Len(s) - 1 : i + 1 \in 1 .. Len(s) /\ i + 1 # 1 /\ 1 \in 1 .. Len(s)
      BY <1>1
    <2>3. \A i \in 1 .. Len(s) - 1 : u[i] # s[1]
      BY <1>1, <1>5, <2>2 DEF IsInjective
    <2> QED BY <1>1, <2>1, <2>3 DEF Range
  <1> QED BY <1>1, <1>4, <1>5 DEF u

\* Front removes the last element.
LEMMA FrontElements ==
  ASSUME NEW S, NEW s \in Seq(S), s # << >>
  PROVE  /\ Last(s) \in S /\ Last(s) \in Range(s)
         /\ Front(s) \in Seq(S) /\ Len(Front(s)) = Len(s) - 1
         /\ IsInjective(s) => IsInjective(Front(s)) /\ Range(Front(s)) = Range(s) \ {Last(s)}
  <1> DEFINE u == Front(s)  n == Len(s) - 1
  <1>1. n \in Nat /\ Len(s) = n + 1 /\ DOMAIN s = 1 .. n + 1 /\ Last(s) = s[n + 1] /\ s[n + 1] \in S
        /\ \A i \in 1 .. n : s[i] \in S
    BY DEF Last
  <1>2. u = [i \in 1 .. n |-> s[i]]
    BY <1>1 DEF Front
  <1> HIDE DEF u, n
  <1>3. u \in Seq(S) /\ Len(u) = n /\ DOMAIN u = 1 .. n /\ \A i \in 1 .. n : u[i] = s[i]
    BY <1>1, <1>2
  <1>4. s[n + 1] \in Range(s)
    BY <1>1 DEF Range
  <1>5. ASSUME IsInjective(s) PROVE IsInjective(u)
    BY <1>1, <1>3, <1>5 DEF IsInjective
  <1>6. ASSUME IsInjective(s) PROVE Range(u) = Range(s) \ {s[n + 1]}
    <2>1. \A i \in 1 .. n : s[i] # s[n + 1]
      BY <1>1, <1>6 DEF IsInjective
    <2>2. \A i \in 1 .. n + 1 : i \in 1 .. n \/ i = n + 1
      BY <1>1
    <2> QED BY <1>1, <1>3, <2>1, <2>2 DEF Range
  <1> QED BY <1>1, <1>3, <1>4, <1>5, <1>6 DEF u, n

\* A concatenation has the elements of both parts.
LEMMA ConcatElements ==
  ASSUME NEW S, NEW s \in Seq(S), NEW t \in Seq(S)
  PROVE  /\ s \o t \in Seq(S) /\ Len(s \o t) = Len(s) + Len(t)
         /\ Range(s \o t) = Range(s) \cup Range(t)
         /\ IsInjective(s) /\ IsInjective(t) /\ Range(s) \cap Range(t) = {} => IsInjective(s \o t)
  <1> DEFINE u == s \o t  m == Len(s)  n == Len(t)
  <1>1. /\ u \in Seq(S) /\ Len(u) = m + n /\ m \in Nat /\ n \in Nat
        /\ DOMAIN u = 1 .. m + n /\ DOMAIN s = 1 .. m /\ DOMAIN t = 1 .. n
        /\ \A i \in 1 .. m + n : u[i] = IF i <= m THEN s[i] ELSE t[i - m]
    BY ConcatProperties
  <1> HIDE DEF u, m, n
  <1>2. \A i \in 1 .. m : i \in 1 .. m + n /\ u[i] = s[i]
    BY <1>1
  <1>3. \A i \in 1 .. n : i + m \in 1 .. m + n /\ u[i + m] = t[i]
    <2> SUFFICES ASSUME NEW i \in 1 .. n PROVE i + m \in 1 .. m + n /\ u[i + m] = t[i]
      OBVIOUS
    <2>1. i + m \in 1 .. m + n /\ ~ (i + m <= m) /\ i + m - m = i
      BY <1>1
    <2> QED BY <1>1, <2>1
  <1>4. \A i \in 1 .. m + n : i \in 1 .. m \/ (i - m \in 1 .. n /\ ~ (i <= m))
    BY <1>1
  <1>5. Range(u) = Range(s) \cup Range(t)
    <2>1. ASSUME NEW x \in Range(u) PROVE x \in Range(s) \cup Range(t)
      <3>1. PICK i \in 1 .. m + n : u[i] = x
        BY <1>1 DEF Range
      <3>2. CASE i \in 1 .. m
        BY <1>1, <1>2, <3>1, <3>2 DEF Range
      <3>3. CASE i - m \in 1 .. n /\ ~ (i <= m)
        BY <1>1, <3>1, <3>3 DEF Range
      <3> QED BY <1>4, <3>2, <3>3
    <2>2. \A x \in Range(s) : x \in Range(u)
      BY <1>1, <1>2 DEF Range
    <2>3. \A x \in Range(t) : x \in Range(u)
      BY <1>1, <1>3 DEF Range
    <2> QED BY <2>1, <2>2, <2>3
  <1>6. ASSUME IsInjective(s), IsInjective(t), Range(s) \cap Range(t) = {} PROVE IsInjective(u)
    <2> SUFFICES ASSUME NEW i \in 1 .. m + n, NEW j \in 1 .. m + n, u[i] = u[j] PROVE i = j
      BY <1>1 DEF IsInjective
    <2>1. \A a \in 1 .. m, b \in 1 .. n : s[a] # t[b]
      BY <1>1, <1>6 DEF Range
    <2>2. CASE i <= m /\ j <= m
      <3>1. i \in 1 .. m /\ j \in 1 .. m /\ s[i] = s[j]
        BY <1>1, <2>2
      <3> QED BY <1>1, <1>6, <3>1 DEF IsInjective
    <2>3. CASE ~ (i <= m) /\ ~ (j <= m)
      <3>1. i - m \in 1 .. n /\ j - m \in 1 .. n /\ t[i - m] = t[j - m]
        BY <1>1, <2>3
      <3>2. i - m = j - m
        BY <1>1, <1>6, <3>1 DEF IsInjective
      <3> QED BY <1>1, <3>2
    <2>4. CASE i <= m /\ ~ (j <= m)
      BY <1>1, <1>4, <2>1, <2>4
    <2>5. CASE ~ (i <= m) /\ j <= m
      BY <1>1, <1>4, <2>1, <2>5
    <2> QED BY <2>2, <2>3, <2>4, <2>5
  <1> QED BY <1>1, <1>5, <1>6 DEF u, m, n

\* A sequence is cut in two.
LEMMA SplitElements ==
  ASSUME NEW S, NEW t \in Seq(S), NEW k \in 0 .. Len(t)
  PROVE  LET a == SubSeq(t, 1, k)
             b == SubSeq(t, k + 1, Len(t)) IN
         /\ a \in Seq(S) /\ Len(a) = k /\ b \in Seq(S) /\ Len(b) = Len(t) - k
         /\ k = Len(t) => b = << >>
         /\ Range(t) = Range(a) \cup Range(b)
         /\ IsInjective(t) => IsInjective(a) /\ IsInjective(b) /\ Range(a) \cap Range(b) = {}
  <1> DEFINE n == Len(t)  a == SubSeq(t, 1, k)  b == SubSeq(t, k + 1, n)
  <1>1. n \in Nat /\ k \in Nat /\ k <= n /\ DOMAIN t = 1 .. n /\ \A i \in 1 .. n : t[i] \in S
    OBVIOUS
  <1> HIDE DEF n
  <1>2. \A i \in 1 .. k : i \in 1 .. n /\ t[i] \in S
    BY <1>1
  <1>3. \A i \in k + 1 .. n : i \in 1 .. n /\ t[i] \in S
    BY <1>1
  <1>4. a \in Seq(S) /\ Len(a) = k /\ \A i \in 1 .. k : a[i] = t[i]
    <2>1. /\ a \in Seq(S) /\ Len(a) = IF 1 <= k THEN k - 1 + 1 ELSE 0
          /\ \A i \in 1 .. k - 1 + 1 : a[i] = t[1 + i - 1]
      BY <1>1, <1>2, SubSeqProperties
    <2>2. k - 1 + 1 = k /\ \A i \in 1 .. k : 1 + i - 1 = i
      BY <1>1
    <2>3. Len(a) = k
      BY <1>1, <2>1
    <2> QED BY <2>1, <2>2, <2>3
  <1>5. b \in Seq(S) /\ Len(b) = n - k /\ \A i \in 1 .. n - k : b[i] = t[k + i]
    <2>1. k + 1 \in Int /\ n \in Int
      BY <1>1
    <2>2. /\ b \in Seq(S) /\ Len(b) = IF k + 1 <= n THEN n - (k + 1) + 1 ELSE 0
          /\ \A i \in 1 .. n - (k + 1) + 1 : b[i] = t[k + 1 + i - 1]
      BY <1>3, <2>1, SubSeqProperties
    <2>3. n - (k + 1) + 1 = n - k /\ \A i \in 1 .. n - k : k + 1 + i - 1 = k + i
      BY <1>1
    <2>4. Len(b) = n - k
      <3>1. k + 1 <= n => Len(b) = n - k
        BY <2>2, <2>3
      <3>2. CASE ~ (k + 1 <= n)
        <4>1. n - k = 0
          BY <1>1, <3>2
        <4>2. Len(b) = 0
          BY <2>2, <3>2
        <4> QED BY <4>1, <4>2
      <3> QED BY <3>1, <3>2
    <2> QED BY <2>2, <2>3, <2>4
  <1>6. DOMAIN a = 1 .. k /\ DOMAIN b = 1 .. n - k
    BY <1>4, <1>5
  <1>7. k = n => b = << >>
    BY <1>1, SubSeqEmpty
  <1> HIDE DEF a, b
  <1>8. \A i \in 1 .. n : i \in 1 .. k \/ (i - k \in 1 .. n - k /\ t[i] = b[i - k])
    <2> SUFFICES ASSUME NEW i \in 1 .. n, ~ (i \in 1 .. k) PROVE i - k \in 1 .. n - k /\ t[i] = b[i - k]
      OBVIOUS
    <2>1. i - k \in 1 .. n - k /\ k + (i - k) = i
      BY <1>1
    <2> QED BY <1>5, <2>1
  <1>9. \A i \in 1 .. n - k : k + i \in 1 .. n
    BY <1>1
  <1>10. Range(t) = Range(a) \cup Range(b)
    <2>1. \A x \in Range(t) : x \in Range(a) \cup Range(b)
      BY <1>1, <1>4, <1>6, <1>8 DEF Range
    <2>2. \A x \in Range(a) : x \in Range(t)
      BY <1>1, <1>2, <1>4, <1>6 DEF Range
    <2>3. \A x \in Range(b) : x \in Range(t)
      BY <1>1, <1>5, <1>6, <1>9 DEF Range
    <2> QED BY <2>1, <2>2, <2>3
  <1>11. ASSUME IsInjective(t) PROVE IsInjective(a) /\ IsInjective(b) /\ Range(a) \cap Range(b) = {}
    <2>1. IsInjective(a)
      BY <1>1, <1>2, <1>4, <1>6, <1>11 DEF IsInjective
    <2>2. IsInjective(b)
      <3> SUFFICES ASSUME NEW i \in 1 .. n - k, NEW j \in 1 .. n - k, b[i] = b[j] PROVE i = j
        BY <1>6 DEF IsInjective
      <3>1. k + i = k + j
        BY <1>1, <1>5, <1>9, <1>11 DEF IsInjective
      <3> QED BY <1>1, <3>1
    <2>3. \A i \in 1 .. k, j \in 1 .. n - k : a[i] # b[j]
      <3> SUFFICES ASSUME NEW i \in 1 .. k, NEW j \in 1 .. n - k, a[i] = b[j] PROVE FALSE
        OBVIOUS
      <3>1. i = k + j
        BY <1>1, <1>2, <1>4, <1>5, <1>9, <1>11 DEF IsInjective
      <3> QED BY <1>1, <3>1
    <2>4. Range(a) \cap Range(b) = {}
      BY <1>6, <2>3 DEF Range
    <2> QED BY <2>1, <2>2, <2>4
  <1> QED BY <1>4, <1>5, <1>7, <1>10, <1>11 DEF a, b, n

\* Reversing keeps the elements.
LEMMA ReverseElements ==
  ASSUME NEW S, NEW s \in Seq(S)
  PROVE  /\ Reverse(s) \in Seq(S) /\ Range(Reverse(s)) = Range(s)
         /\ IsInjective(s) => IsInjective(Reverse(s))
  <1> DEFINE n == Len(s)  u == Reverse(s)
  <1>1. n \in Nat /\ DOMAIN s = 1 .. n /\ \A i \in 1 .. n : s[i] \in S
    OBVIOUS
  <1>2. u = [i \in 1 .. n |-> s[(n - i) + 1]]
    BY DEF Reverse
  <1> HIDE DEF u, n
  <1>3. \A i \in 1 .. n : (n - i) + 1 \in 1 .. n /\ (n - ((n - i) + 1)) + 1 = i
    BY <1>1
  <1>4. u \in [1 .. n -> S] /\ DOMAIN u = 1 .. n /\ \A i \in 1 .. n : u[i] = s[(n - i) + 1]
    BY <1>1, <1>2, <1>3
  <1>5. u \in Seq(S)
    BY <1>1, <1>4
  <1>6. Range(u) = Range(s)
    <2>1. \A x \in Range(u) : x \in Range(s)
      BY <1>1, <1>3, <1>4 DEF Range
    <2>2. ASSUME NEW x \in Range(s) PROVE x \in Range(u)
      <3>1. PICK i \in 1 .. n : s[i] = x
        BY <1>1 DEF Range
      <3>2. (n - i) + 1 \in 1 .. n /\ u[(n - i) + 1] = s[i]
        BY <1>3, <1>4
      <3> QED BY <1>4, <3>1, <3>2 DEF Range
    <2> QED BY <2>1, <2>2
  <1>7. ASSUME IsInjective(s) PROVE IsInjective(u)
    <2> SUFFICES ASSUME NEW i \in 1 .. n, NEW j \in 1 .. n, u[i] = u[j] PROVE i = j
      BY <1>4 DEF IsInjective
    <2>1. (n - i) + 1 = (n - j) + 1
      BY <1>1, <1>3, <1>4, <1>7 DEF IsInjective
    <2> QED BY <1>1, <2>1
  <1> QED BY <1>5, <1>6, <1>7 DEF u

\* Without duplicates a sequence is no longer than its set of elements.
LEMMA InjectiveLength ==
  ASSUME NEW S, IsFiniteSet(S), NEW s \in Seq(S), IsInjective(s)
  PROVE  Len(s) <= Cardinality(S)
  <1>1. Len(s) \in Nat /\ s \in [1 .. Len(s) -> S]
    OBVIOUS
  <1>2. s \in Injection(1 .. Len(s), S)
    BY <1>1 DEF Injection
  <1>3. Cardinality(1 .. Len(s)) <= Cardinality(S)
    BY <1>2, FS_Injection
  <1>4. Cardinality(1 .. Len(s)) = Len(s)
    BY <1>1, FS_Interval
  <1> QED BY <1>3, <1>4

\* Without duplicates an element is at one place.
LEMMA PlaceCount ==
  ASSUME NEW S, NEW s \in Seq(S), IsInjective(s), NEW x
  PROVE  Cardinality({i \in DOMAIN s : s[i] = x}) = IF x \in Range(s) THEN 1 ELSE 0
  <1>1. CASE x \in Range(s)
    <2>1. PICK i \in DOMAIN s : s[i] = x
      BY <1>1 DEF Range
    <2>2. {j \in DOMAIN s : s[j] = x} = {i}
      BY <2>1 DEF IsInjective
    <2> QED BY <1>1, <2>2, FS_Singleton
  <1>2. CASE x \notin Range(s)
    <2>1. {j \in DOMAIN s : s[j] = x} = {}
      BY <1>2 DEF Range
    <2> QED BY <1>2, <2>1, FS_EmptySet
  <1> QED BY <1>1, <1>2

\* A nonempty set of numbers has a least element, and Min chooses it.  With
\* it a claim about all numbers is proved from its least counterexample.
LEMMA LeastNat ==
  ASSUME NEW S, S \subseteq Nat, S # {}
  PROVE  Min(S) \in S /\ \A y \in S : Min(S) <= y
  <1> DEFINE R == OpToRel(<, Nat)
  <1>1. IsWellFoundedOn(R, Nat)
    BY NatLessThanWellFounded
  <1>2. R = {ss \in Nat \X Nat : ss[1] < ss[2]}
    BY Zenon DEF OpToRel
  <1> HIDE DEF R
  <1>3. PICK x \in S : \A y \in S : ~ (<<y, x>> \in R)
    BY <1>1, WFMin
  <1>4. ASSUME NEW y \in Nat, NEW z \in Nat, y < z PROVE <<y, z>> \in R
    <2>1. <<y, z>> \in Nat \X Nat /\ <<y, z>>[1] = y /\ <<y, z>>[2] = z
      OBVIOUS
    <2> QED BY <1>2, <1>4, <2>1
  <1>5. ASSUME NEW y \in S PROVE x <= y
    <2>1. x \in Nat /\ y \in Nat
      OBVIOUS
    <2>2. ~ (y < x)
      BY <1>3, <1>4, <2>1
    <2> QED BY <2>1, <2>2
  <1> QED BY <1>3, <1>5 DEF Min

\* a applies R to x, n times in turn.
Iterates(a, R, x, n) ==
  a[0] = x /\ \A i \in 1 .. n : a[i] = R[a[i - 1]]

\* A function can be applied n times in turn.
LEMMA Iteration ==
  ASSUME NEW S, NEW R \in [S -> S], NEW x \in S, NEW n \in Nat
  PROVE  \E a \in [0 .. n -> S] : Iterates(a, R, x, n)
  <1> DEFINE Runs(a, m) == a \in [0 .. m -> S] /\ a[0] = x /\ \A i \in 1 .. m : a[i] = R[a[i - 1]]
             Missing == {m \in Nat : \A a : ~ Runs(a, m)}
  <1>1. Missing = {}
    <2> SUFFICES ASSUME Missing # {} PROVE FALSE
      OBVIOUS
    <2>1. PICK m \in Missing : \A y \in Missing : m <= y
      <3>1. Missing \subseteq Nat
        OBVIOUS
      <3> HIDE DEF Missing
      <3> QED BY <3>1, LeastNat
    <2>2. m \in Nat /\ \A a : ~ Runs(a, m)
      OBVIOUS
    <2>3. CASE m = 0
      <3>1. PICK a : a = [i \in 0 .. 0 |-> x]
        OBVIOUS
      <3>2. Runs(a, m)
        BY <2>3, <3>1
      <3> QED BY <2>2, <3>2
    <2>4. CASE m # 0
      <3>1. m - 1 \in Nat /\ m - 1 \notin Missing
        <4> HIDE DEF Missing
        <4> QED BY <2>1, <2>2, <2>4
      <3>2. PICK a : Runs(a, m - 1)
        BY <3>1
      <3>3. a[m - 1] \in S
        BY <2>2, <2>4, <3>2
      <3>4. PICK b : b = [i \in 0 .. m |-> IF i = m THEN R[a[m - 1]] ELSE a[i]]
        OBVIOUS
      <3>5. b \in [0 .. m -> S]
        BY <2>2, <2>4, <3>2, <3>3, <3>4
      <3>6. \A i \in 0 .. m - 1 : b[i] = a[i]
        BY <2>2, <3>4
      <3>7. b[0] = x
        BY <2>2, <2>4, <3>2, <3>6
      <3>8. ASSUME NEW i \in 1 .. m PROVE b[i] = R[b[i - 1]]
        <4>1. i - 1 \in 0 .. m - 1
          BY <2>2
        <4>2. CASE i = m
          BY <2>2, <3>4, <3>6, <4>1, <4>2
        <4>3. CASE i # m
          <5>1. i \in 1 .. m - 1 /\ i \in 0 .. m - 1
            BY <2>2, <4>3
          <5> QED BY <3>2, <3>6, <4>1, <5>1
        <4> QED BY <4>2, <4>3
      <3>9. Runs(b, m)
        BY <3>5, <3>7, <3>8
      <3> QED BY <2>2, <3>9
    <2> QED BY <2>3, <2>4
  <1>2. \E a : Runs(a, n)
    BY <1>1
  <1> QED BY <1>2 DEF Iterates
=============================================================================
