---------------------------- MODULE TimersProofs ----------------------------
(***************************************************************************)
(* Proofs about Timers, for every length of the pool, size of the clock's  *)
(* word, start of the clock and set of delays.  First the arithmetic of    *)
(* words, then the binary heap, then the invariant and its preservation.   *)
(***************************************************************************)
EXTENDS Timers, DataLemmas, TLAPS

\* The % operator under a name, so that the solver treats it as a function.
Mod(x, n) == x % n

\* % gives the rest of a division.
LEMMA ModRange ==
  ASSUME NEW n \in Nat \ {0}, NEW x \in Int
  PROVE  Mod(x, n) \in 0 .. n - 1 /\ \E q \in Int : x = q * n + Mod(x, n)
  <1>1. x % n \in 0 .. n - 1
    OBVIOUS
  <1>2. x \div n \in Int
    OBVIOUS
  <1>3. x = n * (x \div n) + (x % n)
    OBVIOUS
  <1>4. x = (x \div n) * n + (x % n)
    BY <1>1, <1>2, <1>3
  <1> QED BY <1>1, <1>2, <1>4 DEF Mod

\* What % does within a turn of zero, on either side.
LEMMA ModNear ==
  ASSUME NEW n \in Nat \ {0}, NEW x \in Int, -n <= x, x < n + n
  PROVE  Mod(x, n) = IF x < 0 THEN x + n ELSE IF x < n THEN x ELSE x - n
  BY DEF Mod

\* A multiple of n of less than two turns.
LEMMA Multiple ==
  ASSUME NEW n \in Nat \ {0}, NEW q \in Int, -(n + n) < q * n, q * n < n + n
  PROVE  q * n \in {-n, 0, n}
  <1>1. CASE q >= 2
    BY <1>1
  <1>2. CASE q <= -2
    BY <1>2
  <1>3. CASE q \in {-1, 0, 1}
    BY <1>3
  <1> QED BY <1>1, <1>2, <1>3

\* A word is a word.
LEMMA WordRange ==
  ASSUME NEW x \in Int
  PROVE  Word(x) \in 0 .. Wrap - 1
  <1>1. Wrap \in Nat \ {0}
    BY ClockAssumption
  <1>2. Word(x) = Mod(x, Wrap)
    BY DEF Word, Mod
  <1> QED BY <1>1, <1>2, ModRange

\* Adding a delay to the word of a time gives the word of the sum, as the code
\* computes deadlines.
LEMMA WordSum ==
  ASSUME NEW a \in Int, NEW b \in Nat, b < Wrap
  PROVE  Word(Word(a) + b) = Word(a + b)
  <1>1. PICK w \in Nat \ {0} : w = Wrap
    BY ClockAssumption
  <1>2. PICK r : r = Mod(a, w)
    OBVIOUS
  <1>3. r \in 0 .. w - 1 /\ \E q \in Int : a = q * w + r
    BY <1>2, ModRange
  <1>4. PICK q \in Int : a = q * w + r
    BY <1>3
  <1>5. PICK s : s = Mod(a + b, w)
    OBVIOUS
  <1>6. a + b \in Int
    OBVIOUS
  <1>7. s \in 0 .. w - 1 /\ \E t \in Int : a + b = t * w + s
    BY <1>5, <1>6, ModRange
  <1>8. PICK t \in Int : a + b = t * w + s
    BY <1>7
  <1>9. (t - q) * w = (r + b) - s
    <2>1. (t - q) * w = t * w - q * w
      OBVIOUS
    <2>2. t * w \in Int /\ q * w \in Int /\ r \in Int /\ s \in Int
      BY <1>3, <1>7
    <2>3. t * w - q * w = (r + b) - s
      BY <1>4, <1>8, <2>2
    <2> QED BY <2>1, <2>3
  <1>10. (t - q) * w \in {-w, 0, w}
    <2>1. t - q \in Int /\ -(w + w) < (t - q) * w /\ (t - q) * w < w + w
      BY <1>1, <1>3, <1>7, <1>9
    <2> QED BY <2>1, Multiple
  <1>11. Mod(r + b, w) = s
    <2>1. PICK x : x = r + b
      OBVIOUS
    <2>2. x \in Int /\ -w <= x /\ x < w + w
      BY <1>1, <1>3, <2>1
    <2>3. Mod(x, w) = IF x < 0 THEN x + w ELSE IF x < w THEN x ELSE x - w
      BY <2>2, ModNear
    <2>4. x - s = (t - q) * w
      BY <1>9, <2>1, Zenon
    <2>5. x - s \in {-w, 0, w}
      BY <1>10, <2>4, Zenon
    <2> QED BY <1>3, <1>7, <2>1, <2>2, <2>3, <2>5
  <1> QED BY <1>1, <1>2, <1>5, <1>11 DEF Word, Mod

\* The difference of two words is that of the numbers, in the upper half when negative.
LEMMA WordDiff ==
  ASSUME NEW a \in Int, NEW b \in Int, -Wrap < a - b, a - b < Wrap
  PROVE  Word(Word(a) - Word(b)) = IF a < b THEN a - b + Wrap ELSE a - b
  <1>1. PICK w \in Nat \ {0} : w = Wrap
    BY ClockAssumption
  <1>2. PICK r : r = Mod(a, w)
    OBVIOUS
  <1>3. r \in 0 .. w - 1 /\ \E q \in Int : a = q * w + r
    BY <1>2, ModRange
  <1>4. PICK q \in Int : a = q * w + r
    BY <1>3
  <1>5. PICK s : s = Mod(b, w)
    OBVIOUS
  <1>7. s \in 0 .. w - 1 /\ \E t \in Int : b = t * w + s
    BY <1>5, ModRange
  <1>8. PICK t \in Int : b = t * w + s
    BY <1>7
  <1>9. (t - q) * w = (b - a) + (r - s)
    <2>1. (t - q) * w = t * w - q * w
      OBVIOUS
    <2>2. t * w \in Int /\ q * w \in Int /\ r \in Int /\ s \in Int
      BY <1>3, <1>7
    <2>3. t * w - q * w = (b - a) + (r - s)
      BY <1>4, <1>8, <2>2
    <2> QED BY <2>1, <2>3
  <1>10. (t - q) * w \in {-w, 0, w}
    <2>1. t - q \in Int /\ -(w + w) < (t - q) * w /\ (t - q) * w < w + w
      BY <1>1, <1>3, <1>7, <1>9
    <2> QED BY <2>1, Multiple
  <1>11. Mod(r - s, w) = IF a < b THEN a - b + w ELSE a - b
    <2>1. r - s \in Int /\ -w <= r - s /\ r - s < w + w
      BY <1>1, <1>3, <1>7
    <2>2. Mod(r - s, w) = IF r - s < 0 THEN r - s + w ELSE IF r - s < w THEN r - s ELSE r - s - w
      BY <2>1, ModNear
    <2>3. (b - a) + (r - s) \in {-w, 0, w}
      BY <1>9, <1>10
    <2> QED BY <1>1, <1>3, <1>7, <2>2, <2>3
  <1> QED BY <1>1, <1>2, <1>5, <1>11 DEF Word, Mod

\* Within half a turn the code's comparison is that of the true times.
LEMMA BeforeIsLess ==
  ASSUME NEW a \in Int, NEW b \in Int, 2 * (a - b) < Wrap, 2 * (b - a) < Wrap
  PROVE  TimeBefore(Word(a), Word(b)) <=> a < b
  <1>1. PICK w \in Nat \ {0} : w = Wrap
    BY ClockAssumption
  <1>2. -w < a - b /\ a - b < w
    BY <1>1
  <1>3. Word(Word(a) - Word(b)) = IF a < b THEN a - b + w ELSE a - b
    BY <1>1, <1>2, WordDiff
  <1>4. PICK d : d = Word(Word(a) - Word(b))
    OBVIOUS
  <1>5. 2 * d >= w <=> a < b
    BY <1>1, <1>3, <1>4
  <1> QED BY <1>1, <1>4, <1>5 DEF TimeBefore

-----------------------------------------------------------------------------
\* Positions and their parents.
Parent(i) == i \div 2

\* A position is one of the two children of its parent, and above it.
LEMMA ParentBelow ==
  ASSUME NEW i \in Nat, i >= 2
  PROVE  Parent(i) \in Nat /\ Parent(i) >= 1 /\ Parent(i) < i /\ (i = 2 * Parent(i) \/ i = 2 * Parent(i) + 1)
  BY DEF Parent

\* The positions SiftDown looks at.
LEMMA Children ==
  ASSUME NEW i \in Nat
  PROVE  Parent(2 * i) = i /\ Parent(2 * i + 1) = i
  BY DEF Parent

\* The keys c of n positions are in heap order, ...
InOrder(c, n) == \A i \in 2 .. n : c[Parent(i)] <= c[i]

\* ... or but for the entry at pos, which may have to go up, ...
UpOrder(c, n, pos) ==
  \A i \in 2 .. n : /\ i # pos => c[Parent(i)] <= c[i]
                    /\ Parent(i) = pos /\ pos > 1 => c[Parent(pos)] <= c[i]

\* ... or down.
DownOrder(c, n, pos) ==
  \A i \in 2 .. n : /\ Parent(i) # pos => c[Parent(i)] <= c[i]
                    /\ Parent(i) = pos /\ pos > 1 => c[Parent(pos)] <= c[i]

\* d is c with the entries at i and j exchanged.
Swapped(c, d, n, i, j) ==
  d[i] = c[j] /\ d[j] = c[i] /\ \A x \in 1 .. n : x # i /\ x # j => d[x] = c[x]

\* One swap of SiftUp moves the only place out of order one level up.
LEMMA UpStep ==
  ASSUME NEW n \in Nat, NEW c \in [1 .. n -> Int], NEW d \in [1 .. n -> Int], NEW pos \in 2 .. n, NEW q,
         q = Parent(pos), Swapped(c, d, n, pos, q), c[pos] < c[q], UpOrder(c, n, pos)
  PROVE  UpOrder(d, n, q)
  <1>1. q \in 1 .. n /\ q < pos
    BY ParentBelow
  <1>2. ASSUME NEW i \in 2 .. n PROVE Parent(i) \in 1 .. n /\ Parent(i) < i
    BY ParentBelow
  <1>3. ASSUME NEW i \in 2 .. n, i # q PROVE d[Parent(i)] <= d[i]
    <2>0. Parent(i) \in 1 .. n /\ Parent(i) < i
      BY <1>2
    <2>1. CASE i = pos
      BY <1>1, <2>0, <2>1 DEF Swapped
    <2>2. CASE i # pos /\ Parent(i) = q
      <3>1. c[q] <= c[i]
        BY <2>2 DEF UpOrder
      <3>2. d[i] = c[i] /\ d[q] = c[pos]
        BY <1>3, <2>2 DEF Swapped
      <3> QED BY <1>1, <2>2, <3>1, <3>2
    <2>3. CASE i # pos /\ Parent(i) = pos
      <3>1. c[q] <= c[i]
        BY <2>3 DEF UpOrder
      <3>2. d[i] = c[i] /\ d[pos] = c[q]
        BY <1>3, <2>3 DEF Swapped
      <3> QED BY <2>3, <3>1, <3>2
    <2>4. CASE i # pos /\ Parent(i) # q /\ Parent(i) # pos
      <3>1. c[Parent(i)] <= c[i]
        BY <2>4 DEF UpOrder
      <3>2. d[i] = c[i] /\ d[Parent(i)] = c[Parent(i)]
        BY <1>3, <2>0, <2>4 DEF Swapped
      <3> QED BY <3>1, <3>2
    <2> QED BY <2>1, <2>2, <2>3, <2>4
  <1>4. ASSUME NEW i \in 2 .. n, Parent(i) = q, q > 1 PROVE d[Parent(q)] <= d[i]
    <2>1. q \in 2 .. n
      BY <1>1, <1>4
    <2>2. Parent(q) \in 1 .. n /\ Parent(q) < q
      BY <1>2, <2>1
    <2>3. d[Parent(q)] = c[Parent(q)]
      BY <1>1, <2>2 DEF Swapped
    <2>4. c[Parent(q)] <= c[q]
      BY <1>1, <2>1 DEF UpOrder
    <2>5. i # q
      BY <1>2, <1>4
    <2>6. CASE i = pos
      BY <2>3, <2>4, <2>6 DEF Swapped
    <2>7. CASE i # pos
      <3>1. c[q] <= c[i] /\ d[i] = c[i]
        BY <1>4, <2>5, <2>7 DEF UpOrder, Swapped
      <3>2. c[Parent(q)] \in Int /\ c[q] \in Int /\ c[i] \in Int
        BY <1>1, <2>2
      <3> QED BY <2>3, <2>4, <3>1, <3>2
    <2> QED BY <2>6, <2>7
  <1> QED BY <1>3, <1>4 DEF UpOrder

\* When the entry may stay, the heap is in order.
LEMMA UpDone ==
  ASSUME NEW n \in Nat, NEW c \in [1 .. n -> Int], NEW pos \in 1 .. n,
         UpOrder(c, n, pos), pos > 1 => c[Parent(pos)] <= c[pos]
  PROVE  InOrder(c, n)
  BY DEF UpOrder, InOrder

\* One swap of SiftDown with the smaller child moves the only place out of
\* order one level down.
LEMMA DownStep ==
  ASSUME NEW n \in Nat, NEW c \in [1 .. n -> Int], NEW d \in [1 .. n -> Int], NEW pos \in 1 .. n, NEW s \in 2 .. n,
         Parent(s) = pos, Swapped(c, d, n, pos, s), c[s] < c[pos], DownOrder(c, n, pos),
         \A i \in 2 .. n : Parent(i) = pos => c[s] <= c[i]
  PROVE  DownOrder(d, n, s)
  <1>1. pos < s
    BY ParentBelow
  <1>2. ASSUME NEW i \in 2 .. n PROVE Parent(i) \in 1 .. n /\ Parent(i) < i
    BY ParentBelow
  <1>3. ASSUME NEW i \in 2 .. n, Parent(i) # s PROVE d[Parent(i)] <= d[i]
    <2>0. Parent(i) \in 1 .. n /\ Parent(i) < i
      BY <1>2
    <2>1. CASE i = s
      BY <2>1 DEF Swapped
    <2>2. CASE i # s /\ Parent(i) = pos
      <3>1. c[s] <= c[i]
        BY <2>2
      <3>2. d[i] = c[i] /\ d[pos] = c[s]
        BY <2>0, <2>2 DEF Swapped
      <3> QED BY <2>2, <3>1, <3>2
    <2>3. CASE i = pos
      <3>1. c[Parent(pos)] <= c[s]
        BY <2>3 DEF DownOrder
      <3>2. d[Parent(pos)] = c[Parent(pos)] /\ d[pos] = c[s]
        BY <1>1, <2>0, <2>3 DEF Swapped
      <3> QED BY <2>3, <3>1, <3>2
    <2>4. CASE i # s /\ i # pos /\ Parent(i) # pos
      <3>1. c[Parent(i)] <= c[i]
        BY <2>4 DEF DownOrder
      <3>2. d[i] = c[i] /\ d[Parent(i)] = c[Parent(i)]
        BY <1>3, <2>0, <2>4 DEF Swapped
      <3> QED BY <3>1, <3>2
    <2> QED BY <2>1, <2>2, <2>3, <2>4
  <1>4. ASSUME NEW i \in 2 .. n, Parent(i) = s, s > 1 PROVE d[Parent(s)] <= d[i]
    <2>1. i # s /\ i # pos /\ Parent(i) # pos
      BY <1>1, <1>2, <1>4
    <2>2. c[s] <= c[i]
      BY <1>4, <2>1 DEF DownOrder
    <2>3. d[pos] = c[s] /\ d[i] = c[i]
      BY <2>1 DEF Swapped
    <2> QED BY <2>2, <2>3
  <1> QED BY <1>3, <1>4 DEF DownOrder

\* When no child is smaller, the heap is in order.
LEMMA DownDone ==
  ASSUME NEW n \in Nat, NEW c \in [1 .. n -> Int], NEW pos \in 1 .. n,
         DownOrder(c, n, pos), \A i \in 2 .. n : Parent(i) = pos => c[pos] <= c[i]
  PROVE  InOrder(c, n)
  BY DEF DownOrder, InOrder

\* The root has the least key.
LEMMA RootLeast ==
  ASSUME NEW n \in Nat, NEW c \in [1 .. n -> Int], InOrder(c, n), NEW j \in 1 .. n
  PROVE  c[1] <= c[j]
  <1> DEFINE Bad == {i \in Nat : i \in 1 .. n /\ c[i] < c[1]}
  <1>1. Bad = {}
    <2> SUFFICES ASSUME Bad # {} PROVE FALSE
      OBVIOUS
    <2>1. PICK m \in Bad : \A y \in Bad : m <= y
      <3>1. Bad \subseteq Nat
        OBVIOUS
      <3> HIDE DEF Bad
      <3> QED BY <3>1, LeastNat
    <2>2. m \in 2 .. n /\ c[m] < c[1]
      OBVIOUS
    <2>3. Parent(m) \in 1 .. n /\ Parent(m) < m /\ c[Parent(m)] <= c[m]
      BY <2>2, ParentBelow DEF InOrder
    <2>4. Parent(m) \in Bad
      BY <2>2, <2>3
    <2> QED BY <2>1, <2>2, <2>3, <2>4
  <1> QED BY <1>1

-----------------------------------------------------------------------------
\* g holds the entries of h, in some order.
Perm(h, g) ==
  /\ g \in Seq(Slot) /\ Len(g) = Len(h) /\ Range(g) = Range(h)
  /\ IsInjective(h) => IsInjective(g)

\* HeapSwap exchanges two entries.
LEMMA SwapPerm ==
  ASSUME NEW h \in Seq(Slot), NEW i \in 1 .. Len(h), NEW j \in 1 .. Len(h)
  PROVE  Perm(h, HeapSwap(h, i, j)) /\ Swapped(h, HeapSwap(h, i, j), Len(h), i, j)
  <1>1. PICK n \in Nat : n = Len(h)
    OBVIOUS
  <1>2. h \in [1 .. n -> Slot] /\ DOMAIN h = 1 .. n
    BY <1>1
  <1>3. PICK g : g = HeapSwap(h, i, j)
    OBVIOUS
  <1>4. g = [x \in 1 .. n |-> IF x = j THEN h[i] ELSE IF x = i THEN h[j] ELSE h[x]]
    BY <1>1, <1>2, <1>3 DEF HeapSwap
  <1>5. g \in [1 .. n -> Slot] /\ DOMAIN g = 1 .. n
    BY <1>1, <1>2, <1>4
  <1>6. g \in Seq(Slot) /\ Len(g) = n
    BY <1>5
  <1>7. Swapped(h, g, n, i, j)
    BY <1>1, <1>4 DEF Swapped
  <1>8. Range(g) = Range(h)
    <2>1. ASSUME NEW x \in 1 .. n PROVE g[x] \in Range(h)
      BY <1>1, <1>2, <1>4 DEF Range
    <2>2. ASSUME NEW x \in 1 .. n PROVE h[x] \in Range(g)
      <3>1. g[i] = h[j] /\ g[j] = h[i] /\ (x # i /\ x # j => g[x] = h[x])
        BY <1>7 DEF Swapped
      <3> QED BY <1>1, <1>5, <3>1 DEF Range
    <2> QED BY <1>2, <1>5, <2>1, <2>2 DEF Range
  <1>9. IsInjective(h) => IsInjective(g)
    BY <1>1, <1>2, <1>4, <1>5 DEF IsInjective
  <1> QED BY <1>1, <1>3, <1>6, <1>7, <1>8, <1>9 DEF Perm

\* Reordering twice is reordering.
LEMMA PermTrans ==
  ASSUME NEW h, NEW g, NEW e, Perm(h, g), Perm(g, e)
  PROVE  Perm(h, e)
  BY DEF Perm

\* The keys of the entries, by position.
Keys(k, h) == [i \in 1 .. Len(h) |-> k[h[i]]]

\* The code's comparison of the timers in S is that of the keys k.
Agree(p, k, S) == \A a, b \in S : TimeBefore(p[a].deadline, p[b].deadline) <=> k[a] < k[b]

\* The code's comparison of two heap entries is that of their keys.
LEMMA EarlierKeys ==
  ASSUME NEW p, NEW k, NEW h \in Seq(Slot), Agree(p, k, Range(h)), NEW i \in 1 .. Len(h), NEW j \in 1 .. Len(h)
  PROVE  Earlier(p, h, i, j) <=> Keys(k, h)[i] < Keys(k, h)[j]
  <1>1. h[i] \in Range(h) /\ h[j] \in Range(h)
    BY DEF Range
  <1>2. Keys(k, h)[i] = k[h[i]] /\ Keys(k, h)[j] = k[h[j]]
    BY DEF Keys
  <1> QED BY <1>1, <1>2 DEF Earlier, Agree

\* The keys by position are numbers.
LEMMA KeysType ==
  ASSUME NEW k \in [Slot -> Int], NEW h \in Seq(Slot)
  PROVE  Keys(k, h) \in [1 .. Len(h) -> Int]
  BY DEF Keys

\* Swapping entries swaps their keys.
LEMMA SwapKeys ==
  ASSUME NEW k, NEW h \in Seq(Slot), NEW g \in Seq(Slot), Len(g) = Len(h),
         NEW i \in 1 .. Len(h), NEW j \in 1 .. Len(h), Swapped(h, g, Len(h), i, j)
  PROVE  Swapped(Keys(k, h), Keys(k, g), Len(h), i, j)
  BY DEF Swapped, Keys

\* The states of the two sifting loops on a heap of n entries.
Sifting(n) == [h : {h \in Seq(Slot) : Len(h) = n}, pos : 1 .. n]

\* A round of SiftUp only reorders, and stays in the heap.
LEMMA SiftUpRoundType ==
  ASSUME NEW p, NEW n \in Nat, NEW a \in Sifting(n)
  PROVE  SiftUpRound(p, a) \in Sifting(n) /\ Perm(a.h, SiftUpRound(p, a).h)
  <1>1. a.h \in Seq(Slot) /\ Len(a.h) = n /\ a.pos \in 1 .. n
    BY DEF Sifting
  <1>2. Perm(a.h, a.h)
    BY <1>1 DEF Perm
  <1>3. CASE a.pos > 1 /\ Earlier(p, a.h, a.pos, a.pos \div 2)
    <2>1. PICK q : q = a.pos \div 2
      OBVIOUS
    <2>2. q \in 1 .. n
      BY <1>1, <1>3, <2>1
    <2>3. Perm(a.h, HeapSwap(a.h, a.pos, q))
      BY <1>1, <2>2, SwapPerm
    <2>4. SiftUpRound(p, a) = [h |-> HeapSwap(a.h, a.pos, q), pos |-> q]
      BY <1>3, <2>1 DEF SiftUpRound
    <2> QED BY <1>1, <2>2, <2>3, <2>4 DEF Sifting, Perm
  <1>4. CASE ~ (a.pos > 1 /\ Earlier(p, a.h, a.pos, a.pos \div 2))
    <2>1. SiftUpRound(p, a) = a
      BY <1>4, Zenon DEF SiftUpRound
    <2> QED BY <1>2, <2>1
  <1> QED BY <1>3, <1>4

\* The smallest of an entry and its children is one of them.
LEMMA SmallestType ==
  ASSUME NEW p, NEW h \in Seq(Slot), NEW pos \in 1 .. Len(h)
  PROVE  /\ Smallest(p, h, pos) \in 1 .. Len(h)
         /\ Smallest(p, h, pos) # pos => Smallest(p, h, pos) \in 2 .. Len(h) /\ Parent(Smallest(p, h, pos)) = pos
  <1>1. Len(h) \in Nat /\ Parent(2 * pos) = pos /\ Parent(2 * pos + 1) = pos
    BY Children
  <1>2. PICK s : s = IF 2 * pos <= Len(h) /\ Earlier(p, h, 2 * pos, pos) THEN 2 * pos ELSE pos
    OBVIOUS
  <1>3. Smallest(p, h, pos) = IF 2 * pos + 1 <= Len(h) /\ Earlier(p, h, 2 * pos + 1, s) THEN 2 * pos + 1 ELSE s
    BY <1>2 DEF Smallest
  <1>4. s = pos \/ (s = 2 * pos /\ 2 * pos <= Len(h))
    BY <1>2
  <1>5. Smallest(p, h, pos) = s \/ (Smallest(p, h, pos) = 2 * pos + 1 /\ 2 * pos + 1 <= Len(h))
    BY <1>3
  <1> QED BY <1>1, <1>4, <1>5

\* ... and no child has a smaller key.
LEMMA SmallestKey ==
  ASSUME NEW p, NEW k \in [Slot -> Int], NEW h \in Seq(Slot), Agree(p, k, Range(h)), NEW pos \in 1 .. Len(h),
         NEW c, c = Keys(k, h), NEW s, s = Smallest(p, h, pos)
  PROVE  /\ s # pos => c[s] < c[pos]
         /\ \A i \in 2 .. Len(h) : Parent(i) = pos => c[s] <= c[i]
  <1>1. PICK n \in Nat : n = Len(h)
    OBVIOUS
  <1>2. c \in [1 .. n -> Int]
    BY <1>1, KeysType
  <1>3. \A i, j \in 1 .. n : Earlier(p, h, i, j) <=> c[i] < c[j]
    BY <1>1, EarlierKeys
  <1>4. PICK l, r : l = 2 * pos /\ r = 2 * pos + 1
    OBVIOUS
  <1>5. PICK m : m = IF l <= n /\ Earlier(p, h, l, pos) THEN l ELSE pos
    OBVIOUS
  <1>6. s = IF r <= n /\ Earlier(p, h, r, m) THEN r ELSE m
    BY <1>1, <1>4, <1>5 DEF Smallest
  <1>7. pos \in 1 .. n /\ l \in Nat /\ r \in Nat /\ l >= 1 /\ r >= 1
    BY <1>1, <1>4
  <1>8. m \in 1 .. n /\ c[m] <= c[pos] /\ (l <= n => c[m] <= c[l]) /\ (m # pos => c[m] < c[pos])
    <2>1. CASE l <= n /\ Earlier(p, h, l, pos)
      BY <1>2, <1>3, <1>5, <1>7, <2>1
    <2>2. CASE ~ (l <= n /\ Earlier(p, h, l, pos))
      BY <1>2, <1>3, <1>5, <1>7, <2>2
    <2> QED BY <2>1, <2>2
  <1>9. s \in 1 .. n /\ c[s] <= c[m] /\ (r <= n => c[s] <= c[r]) /\ (s # m => c[s] < c[m])
    <2>1. CASE r <= n /\ Earlier(p, h, r, m)
      BY <1>2, <1>3, <1>6, <1>7, <1>8, <2>1
    <2>2. CASE ~ (r <= n /\ Earlier(p, h, r, m))
      BY <1>2, <1>3, <1>6, <1>7, <1>8, <2>2
    <2> QED BY <2>1, <2>2
  <1>10. c[s] \in Int /\ c[m] \in Int /\ c[pos] \in Int
    BY <1>2, <1>7, <1>8, <1>9
  <1>11. s # pos => c[s] < c[pos]
    BY <1>8, <1>9, <1>10
  <1>12. ASSUME NEW i \in 2 .. n, Parent(i) = pos PROVE c[s] <= c[i]
    <2>1. i = l \/ i = r
      BY <1>4, <1>12, ParentBelow
    <2>2. c[i] \in Int
      BY <1>2
    <2> QED BY <1>8, <1>9, <1>10, <2>1, <2>2
  <1> QED BY <1>1, <1>11, <1>12

\* SiftUp is the end of a run of its rounds.
LEMMA SiftUpRuns ==
  ASSUME NEW p, NEW h \in Seq(Slot), NEW from \in 1 .. Len(h)
  PROVE  \E f : /\ f[0] = [h |-> h, pos |-> from]
               /\ \A i \in 1 .. Len(h) : f[i] = SiftUpRound(p, f[i - 1])
               /\ SiftUp(p, h, from) = f[Len(h)].h
  <1>1. PICK n \in Nat : n = Len(h)
    OBVIOUS
  <1>2. PICK x, S : x = [h |-> h, pos |-> from] /\ S = Sifting(n)
    OBVIOUS
  <1>3. x \in S
    BY <1>1, <1>2 DEF Sifting
  <1>4. PICK R : R = [a \in S |-> SiftUpRound(p, a)]
    OBVIOUS
  <1>5. R \in [S -> S]
    BY <1>2, <1>4, SiftUpRoundType
  <1>6. PICK a \in [0 .. n -> S] : a[0] = x /\ \A i \in 1 .. n : a[i] = R[a[i - 1]]
    <2>1. \E a \in [0 .. n -> S] : Iterates(a, R, x, n)
      BY <1>3, <1>5, Iteration
    <2> QED BY <2>1 DEF Iterates
  <1> DEFINE Step(f) == [i \in 0 .. n |-> IF i = 0 THEN x ELSE SiftUpRound(p, f[i - 1])]
  <1>7. a = Step(a)
    <2>1. ASSUME NEW i \in 0 .. n PROVE a[i] = IF i = 0 THEN x ELSE SiftUpRound(p, a[i - 1])
      <3>1. CASE i = 0
        BY <1>6, <3>1
      <3>2. CASE i # 0
        <4>1. i \in 1 .. n /\ i - 1 \in 0 .. n
          BY <3>2
        <4>2. a[i - 1] \in S
          BY <4>1
        <4> QED BY <1>4, <1>6, <3>2, <4>1, <4>2
      <3> QED BY <3>1, <3>2
    <2> QED BY <2>1
  <1>8. PICK f : f = CHOOSE g : g = Step(g)
    OBVIOUS
  <1>9. f = Step(f)
    BY <1>7, <1>8, Zenon
  <1>10. \A i \in 0 .. n : f[i] = IF i = 0 THEN x ELSE SiftUpRound(p, f[i - 1])
    BY <1>9, Zenon
  <1>11. f[0] = x /\ \A i \in 1 .. n : f[i] = SiftUpRound(p, f[i - 1])
    <2>1. 0 \in 0 .. n /\ \A i \in 1 .. n : i \in 0 .. n /\ i # 0
      OBVIOUS
    <2> QED BY <1>10, <2>1, Zenon
  <1>12. SiftUp(p, h, from) = f[n].h
    BY <1>1, <1>2, <1>8, Zenon DEF SiftUp
  <1> QED BY <1>1, <1>2, <1>11, <1>12

\* SiftUp keeps the entries, and restores the order when only the entry at
\* from may have to go up.
LEMMA SiftUpSorts ==
  ASSUME NEW p, NEW h \in Seq(Slot), NEW from \in 1 .. Len(h)
  PROVE  /\ Perm(h, SiftUp(p, h, from))
         /\ \A k \in [Slot -> Int] :
              Agree(p, k, Range(h)) /\ UpOrder(Keys(k, h), Len(h), from)
              => InOrder(Keys(k, SiftUp(p, h, from)), Len(h))
  <1>1. PICK n \in Nat : n = Len(h)
    OBVIOUS
  <1>2. PICK f : /\ f[0] = [h |-> h, pos |-> from]
                 /\ \A i \in 1 .. n : f[i] = SiftUpRound(p, f[i - 1])
                 /\ SiftUp(p, h, from) = f[n].h
    BY <1>1, SiftUpRuns
  <1> DEFINE Settled(k, a) == a.pos > 1 => Keys(k, a.h)[Parent(a.pos)] <= Keys(k, a.h)[a.pos]
             Sorting(k, a, i) == /\ UpOrder(Keys(k, a.h), n, a.pos)
                                 /\ a.pos <= n - i \/ Settled(k, a)
             Given(k) == k \in [Slot -> Int] /\ Agree(p, k, Range(h)) /\ UpOrder(Keys(k, h), n, from)
             Fine(a, i) == /\ a \in Sifting(n) /\ Perm(h, a.h)
                           /\ \A k : Given(k) => Sorting(k, a, i)
             Bad == {i \in Nat : i <= n /\ ~ Fine(f[i], i)}
  <1>3. Fine(f[0], 0)
    <2>1. Perm(h, h)
      BY DEF Perm
    <2> QED BY <1>1, <1>2, <2>1 DEF Sifting
  <1>4. ASSUME NEW i \in 1 .. n, Fine(f[i - 1], i - 1) PROVE Fine(f[i], i)
    <2>1. PICK a : a = f[i - 1]
      OBVIOUS
    <2>2. PICK b : b = f[i]
      OBVIOUS
    <2>3. b = SiftUpRound(p, a) /\ a \in Sifting(n) /\ Perm(h, a.h)
      BY <1>2, <1>4, <2>1, <2>2
    <2>4. b \in Sifting(n) /\ Perm(a.h, b.h)
      BY <2>3, SiftUpRoundType
    <2>5. Perm(h, b.h)
      BY <2>3, <2>4, PermTrans
    <2>6. a.h \in Seq(Slot) /\ Len(a.h) = n /\ a.pos \in 1 .. n /\ b.h \in Seq(Slot) /\ Len(b.h) = n
      BY <2>3, <2>4 DEF Sifting
    <2>7. ASSUME NEW k, Given(k) PROVE Sorting(k, b, i)
      <3>1. Sorting(k, a, i - 1)
        BY <1>4, <2>1, <2>7
      <3>2. PICK c, d : c = Keys(k, a.h) /\ d = Keys(k, b.h)
        OBVIOUS
      <3>3. c \in [1 .. n -> Int] /\ d \in [1 .. n -> Int]
        BY <2>6, <2>7, <3>2, KeysType
      <3>4. Agree(p, k, Range(a.h))
        BY <2>3, <2>7 DEF Perm
      <3>5. PICK pos, q : pos = a.pos /\ q = Parent(pos)
        OBVIOUS
      <3>6. CASE pos > 1 /\ Earlier(p, a.h, pos, q)
        <4>1. pos \in 2 .. n /\ q \in 1 .. n /\ q < pos
          BY <2>6, <3>5, <3>6, ParentBelow
        <4>2. b = [h |-> HeapSwap(a.h, pos, q), pos |-> q]
          BY <2>3, <3>5, <3>6 DEF SiftUpRound, Parent
        <4>3. Swapped(a.h, b.h, n, pos, q)
          BY <2>6, <4>1, <4>2, SwapPerm
        <4>4. Swapped(c, d, n, pos, q)
          <5>1. PICK g, e : g = a.h /\ e = b.h
            OBVIOUS
          <5>2. /\ g \in Seq(Slot) /\ e \in Seq(Slot) /\ Len(g) = n /\ Len(e) = n
                /\ c = Keys(k, g) /\ d = Keys(k, e) /\ Swapped(g, e, n, pos, q)
            BY <2>6, <3>2, <4>3, <5>1
          <5>3. pos \in 1 .. Len(g) /\ q \in 1 .. Len(g) /\ Len(e) = Len(g)
            BY <4>1, <5>2
          <5> QED BY <5>2, <5>3, SwapKeys
        <4>5. c[pos] < c[q]
          BY <2>6, <3>2, <3>4, <3>6, <4>1, EarlierKeys
        <4>6. UpOrder(c, n, pos) /\ (pos <= n - (i - 1) \/ ~ (c[pos] < c[q]))
          <5>1. UpOrder(c, n, pos) /\ (pos <= n - (i - 1) \/ Settled(k, a))
            BY <3>1, <3>2, <3>5
          <5>2. Settled(k, a) => c[q] <= c[pos]
            BY <3>2, <3>5, <4>1
          <5>3. c[q] \in Int /\ c[pos] \in Int
            BY <3>3, <4>1
          <5> HIDE DEF Settled
          <5> QED BY <5>1, <5>2, <5>3
        <4>7. UpOrder(d, n, q)
          BY <3>3, <3>5, <4>1, <4>4, <4>5, <4>6, UpStep
        <4>8. q <= n - i
          BY <4>1, <4>5, <4>6
        <4>9. b.pos = q
          BY <4>2
        <4> QED BY <3>2, <4>7, <4>8, <4>9
      <3>7. CASE ~ (pos > 1 /\ Earlier(p, a.h, pos, q))
        <4>1. b = a
          BY <2>3, <3>5, <3>7, Zenon DEF SiftUpRound, Parent
        <4>2. ASSUME pos > 1 PROVE c[q] <= c[pos]
          <5>1. pos \in 1 .. n /\ q \in 1 .. n
            BY <2>6, <3>5, <4>2, ParentBelow
          <5>2. ~ (c[pos] < c[q])
            BY <2>6, <3>2, <3>4, <3>7, <4>2, <5>1, EarlierKeys
          <5> QED BY <3>3, <5>1, <5>2
        <4>3. Settled(k, a)
          BY <3>2, <3>5, <4>2
        <4> QED BY <3>1, <4>1, <4>3
      <3> QED BY <3>6, <3>7
    <2> QED BY <2>2, <2>4, <2>5, <2>7
  <1>5. Fine(f[n], n)
    <2> SUFFICES ASSUME ~ Fine(f[n], n) PROVE FALSE
      OBVIOUS
    <2> HIDE DEF Fine
    <2>1. Bad # {} /\ Bad \subseteq Nat
      OBVIOUS
    <2>2. PICK m \in Bad : \A y \in Bad : m <= y
      <3> HIDE DEF Bad
      <3> QED BY <2>1, LeastNat
    <2>3. m \in Nat /\ m <= n /\ ~ Fine(f[m], m) /\ m # 0
      BY <1>3
    <2>4. m - 1 \notin Bad /\ m - 1 \in Nat /\ m - 1 <= n
      <3> HIDE DEF Bad
      <3> QED BY <2>2, <2>3
    <2>5. Fine(f[m - 1], m - 1) /\ m \in 1 .. n
      BY <2>3, <2>4
    <2> QED BY <1>4, <2>3, <2>5
  <1>6. PICK a : a = f[n]
    OBVIOUS
  <1>7. a \in Sifting(n) /\ Perm(h, a.h) /\ \A k : Given(k) => Sorting(k, a, n)
    BY <1>5, <1>6
  <1>8. ASSUME NEW k, Given(k) PROVE InOrder(Keys(k, a.h), n)
    <2>1. Sorting(k, a, n)
      BY <1>7, <1>8
    <2>2. a.h \in Seq(Slot) /\ Len(a.h) = n /\ a.pos \in 1 .. n
      BY <1>7 DEF Sifting
    <2>3. PICK c, pos : c = Keys(k, a.h) /\ pos = a.pos
      OBVIOUS
    <2>4. c \in [1 .. n -> Int] /\ pos \in 1 .. n
      BY <1>8, <2>2, <2>3, KeysType
    <2>5. UpOrder(c, n, pos) /\ (pos > 1 => c[Parent(pos)] <= c[pos])
      BY <2>1, <2>3, <2>4
    <2> QED BY <2>3, <2>4, <2>5, UpDone
  <1> QED BY <1>1, <1>2, <1>6, <1>7, <1>8

\* A round of SiftDown only reorders, and stays in the heap.
LEMMA SiftDownRoundType ==
  ASSUME NEW p, NEW n \in Nat, NEW a \in Sifting(n)
  PROVE  SiftDownRound(p, a) \in Sifting(n) /\ Perm(a.h, SiftDownRound(p, a).h)
  <1>1. a.h \in Seq(Slot) /\ Len(a.h) = n /\ a.pos \in 1 .. n
    BY DEF Sifting
  <1>2. PICK h, pos, s : h = a.h /\ pos = a.pos /\ s = Smallest(p, h, pos)
    OBVIOUS
  <1>3. h \in Seq(Slot) /\ Len(h) = n /\ pos \in 1 .. Len(h)
    BY <1>1, <1>2
  <1>4. s \in 1 .. Len(h)
    BY <1>2, <1>3, SmallestType
  <1>5. Perm(h, HeapSwap(h, pos, s))
    BY <1>3, <1>4, SwapPerm
  <1>6. SiftDownRound(p, a) = [h |-> HeapSwap(h, pos, s), pos |-> s]
    BY <1>2 DEF SiftDownRound
  <1> QED BY <1>2, <1>3, <1>4, <1>5, <1>6 DEF Sifting, Perm

\* SiftDown is the end of a run of its rounds.
LEMMA SiftDownRuns ==
  ASSUME NEW p, NEW h \in Seq(Slot), NEW from \in 1 .. Len(h)
  PROVE  \E f : /\ f[0] = [h |-> h, pos |-> from]
               /\ \A i \in 1 .. Len(h) : f[i] = SiftDownRound(p, f[i - 1])
               /\ SiftDown(p, h, from) = f[Len(h)].h
  <1>1. PICK n \in Nat : n = Len(h)
    OBVIOUS
  <1>2. PICK x, S : x = [h |-> h, pos |-> from] /\ S = Sifting(n)
    OBVIOUS
  <1>3. x \in S
    BY <1>1, <1>2 DEF Sifting
  <1>4. PICK R : R = [a \in S |-> SiftDownRound(p, a)]
    OBVIOUS
  <1>5. R \in [S -> S]
    BY <1>2, <1>4, SiftDownRoundType
  <1>6. PICK a \in [0 .. n -> S] : a[0] = x /\ \A i \in 1 .. n : a[i] = R[a[i - 1]]
    <2>1. \E a \in [0 .. n -> S] : Iterates(a, R, x, n)
      BY <1>3, <1>5, Iteration
    <2> QED BY <2>1 DEF Iterates
  <1> DEFINE Step(f) == [i \in 0 .. n |-> IF i = 0 THEN x ELSE SiftDownRound(p, f[i - 1])]
  <1>7. a = Step(a)
    <2>1. ASSUME NEW i \in 0 .. n PROVE a[i] = IF i = 0 THEN x ELSE SiftDownRound(p, a[i - 1])
      <3>1. CASE i = 0
        BY <1>6, <3>1
      <3>2. CASE i # 0
        <4>1. i \in 1 .. n /\ i - 1 \in 0 .. n
          BY <3>2
        <4>2. a[i - 1] \in S
          BY <4>1
        <4> QED BY <1>4, <1>6, <3>2, <4>1, <4>2
      <3> QED BY <3>1, <3>2
    <2> QED BY <2>1
  <1>8. PICK f : f = CHOOSE g : g = Step(g)
    OBVIOUS
  <1>9. f = Step(f)
    BY <1>7, <1>8, Zenon
  <1>10. \A i \in 0 .. n : f[i] = IF i = 0 THEN x ELSE SiftDownRound(p, f[i - 1])
    BY <1>9, Zenon
  <1>11. f[0] = x /\ \A i \in 1 .. n : f[i] = SiftDownRound(p, f[i - 1])
    <2>1. 0 \in 0 .. n /\ \A i \in 1 .. n : i \in 0 .. n /\ i # 0
      OBVIOUS
    <2> QED BY <1>10, <2>1, Zenon
  <1>12. SiftDown(p, h, from) = f[n].h
    BY <1>1, <1>2, <1>8, Zenon DEF SiftDown
  <1> QED BY <1>1, <1>2, <1>11, <1>12

\* SiftDown keeps the entries, and restores the order when only the entry at
\* from may have to go down.
LEMMA SiftDownSorts ==
  ASSUME NEW p, NEW h \in Seq(Slot), NEW from \in 1 .. Len(h)
  PROVE  /\ Perm(h, SiftDown(p, h, from))
         /\ \A k \in [Slot -> Int] :
              Agree(p, k, Range(h)) /\ DownOrder(Keys(k, h), Len(h), from)
              => InOrder(Keys(k, SiftDown(p, h, from)), Len(h))
  <1>1. PICK n \in Nat : n = Len(h)
    OBVIOUS
  <1>2. PICK f : /\ f[0] = [h |-> h, pos |-> from]
                 /\ \A i \in 1 .. n : f[i] = SiftDownRound(p, f[i - 1])
                 /\ SiftDown(p, h, from) = f[n].h
    BY <1>1, SiftDownRuns
  <1> DEFINE Settled(k, a) == \A j \in 2 .. n : Parent(j) = a.pos => Keys(k, a.h)[a.pos] <= Keys(k, a.h)[j]
             Sorting(k, a, i) == /\ DownOrder(Keys(k, a.h), n, a.pos)
                                 /\ a.pos > i \/ Settled(k, a)
             Given(k) == k \in [Slot -> Int] /\ Agree(p, k, Range(h)) /\ DownOrder(Keys(k, h), n, from)
             Fine(a, i) == /\ a \in Sifting(n) /\ Perm(h, a.h)
                           /\ \A k : Given(k) => Sorting(k, a, i)
             Bad == {i \in Nat : i <= n /\ ~ Fine(f[i], i)}
  <1>3. Fine(f[0], 0)
    <2>1. Perm(h, h)
      BY DEF Perm
    <2> QED BY <1>1, <1>2, <2>1 DEF Sifting
  <1>4. ASSUME NEW i \in 1 .. n, Fine(f[i - 1], i - 1) PROVE Fine(f[i], i)
    <2>1. PICK a : a = f[i - 1]
      OBVIOUS
    <2>2. PICK b : b = f[i]
      OBVIOUS
    <2>3. b = SiftDownRound(p, a) /\ a \in Sifting(n) /\ Perm(h, a.h)
      BY <1>2, <1>4, <2>1, <2>2
    <2>4. b \in Sifting(n) /\ Perm(a.h, b.h)
      BY <2>3, SiftDownRoundType
    <2>5. Perm(h, b.h)
      BY <2>3, <2>4, PermTrans
    <2>6. PICK g, e, pos : g = a.h /\ e = b.h /\ pos = a.pos
      OBVIOUS
    <2>7. g \in Seq(Slot) /\ Len(g) = n /\ pos \in 1 .. n /\ e \in Seq(Slot) /\ Len(e) = n
      BY <2>3, <2>4, <2>6 DEF Sifting
    <2>8. PICK s : s = Smallest(p, g, pos)
      OBVIOUS
    <2>9. e = HeapSwap(g, pos, s) /\ b.pos = s
      BY <2>3, <2>6, <2>8 DEF SiftDownRound
    <2>10. /\ s \in 1 .. n /\ (s # pos => s \in 2 .. n /\ Parent(s) = pos)
      BY <2>7, <2>8, SmallestType
    <2>11. Swapped(g, e, n, pos, s)
      BY <2>7, <2>9, <2>10, SwapPerm
    <2>12. ASSUME NEW k, Given(k) PROVE Sorting(k, b, i)
      <3>1. Sorting(k, a, i - 1)
        BY <1>4, <2>1, <2>12
      <3>2. PICK c, d : c = Keys(k, g) /\ d = Keys(k, e)
        OBVIOUS
      <3>3. c \in [1 .. n -> Int] /\ d \in [1 .. n -> Int]
        BY <2>7, <2>12, <3>2, KeysType
      <3>4. Agree(p, k, Range(g)) /\ k \in [Slot -> Int]
        BY <2>3, <2>6, <2>12 DEF Perm
      <3>5. /\ s # pos => c[s] < c[pos]
            /\ \A j \in 2 .. n : Parent(j) = pos => c[s] <= c[j]
        <4>1. pos \in 1 .. Len(g)
          BY <2>7
        <4> QED BY <2>7, <2>8, <3>2, <3>4, <4>1, SmallestKey
      <3>6. DownOrder(c, n, pos) /\ (pos > i - 1 \/ \A j \in 2 .. n : Parent(j) = pos => c[pos] <= c[j])
        BY <2>6, <3>1, <3>2
      <3>7. CASE s # pos
        <4>1. Swapped(c, d, n, pos, s)
          <5>1. pos \in 1 .. Len(g) /\ s \in 1 .. Len(g) /\ Len(e) = Len(g) /\ Swapped(g, e, Len(g), pos, s)
            BY <2>7, <2>10, <2>11
          <5> QED BY <2>7, <3>2, <5>1, SwapKeys
        <4>2. s \in 2 .. n /\ Parent(s) = pos /\ c[s] < c[pos]
          BY <2>10, <3>5, <3>7
        <4>3. DownOrder(d, n, s)
          BY <2>7, <3>3, <3>5, <3>6, <4>1, <4>2, DownStep
        <4>4. pos > i - 1
          <5>1. c[s] \in Int /\ c[pos] \in Int
            BY <2>7, <2>10, <3>3
          <5> QED BY <3>6, <4>2, <5>1
        <4>5. s > i
          BY <2>7, <4>2, <4>4, ParentBelow
        <4>6. DownOrder(Keys(k, b.h), n, b.pos) /\ b.pos > i
          BY <2>6, <2>9, <3>2, <4>3, <4>5
        <4> QED BY <4>6
      <3>8. CASE s = pos
        <4>1. c = d
          <5>1. \A x \in 1 .. n : e[x] = g[x]
            BY <2>11, <3>8 DEF Swapped
          <5> QED BY <2>7, <3>2, <5>1 DEF Keys
        <4>2. Keys(k, b.h) = c /\ b.pos = pos
          BY <2>6, <2>9, <3>2, <3>8, <4>1
        <4>3. DownOrder(Keys(k, b.h), n, b.pos)
          BY <3>6, <4>2
        <4>4. \A j \in 2 .. n : Parent(j) = pos => c[pos] <= c[j]
          BY <3>5, <3>8
        <4>5. Settled(k, b)
          BY <4>2, <4>4
        <4> QED BY <4>3, <4>5
      <3> QED BY <3>7, <3>8
    <2> QED BY <2>2, <2>4, <2>5, <2>12
  <1>5. Fine(f[n], n)
    <2> SUFFICES ASSUME ~ Fine(f[n], n) PROVE FALSE
      OBVIOUS
    <2> HIDE DEF Fine
    <2>1. Bad # {} /\ Bad \subseteq Nat
      OBVIOUS
    <2>2. PICK m \in Bad : \A y \in Bad : m <= y
      <3> HIDE DEF Bad
      <3> QED BY <2>1, LeastNat
    <2>3. m \in Nat /\ m <= n /\ ~ Fine(f[m], m) /\ m # 0
      BY <1>3
    <2>4. m - 1 \notin Bad /\ m - 1 \in Nat /\ m - 1 <= n
      <3> HIDE DEF Bad
      <3> QED BY <2>2, <2>3
    <2>5. Fine(f[m - 1], m - 1) /\ m \in 1 .. n
      BY <2>3, <2>4
    <2> QED BY <1>4, <2>3, <2>5
  <1>6. PICK a : a = f[n]
    OBVIOUS
  <1>7. a \in Sifting(n) /\ Perm(h, a.h) /\ \A k : Given(k) => Sorting(k, a, n)
    BY <1>5, <1>6
  <1>8. ASSUME NEW k, Given(k) PROVE InOrder(Keys(k, a.h), n)
    <2>1. Sorting(k, a, n)
      BY <1>7, <1>8
    <2>2. a.h \in Seq(Slot) /\ Len(a.h) = n /\ a.pos \in 1 .. n
      BY <1>7 DEF Sifting
    <2>3. PICK c, pos : c = Keys(k, a.h) /\ pos = a.pos
      OBVIOUS
    <2>4. c \in [1 .. n -> Int] /\ pos \in 1 .. n
      BY <1>8, <2>2, <2>3, KeysType
    <2>5. DownOrder(c, n, pos) /\ \A j \in 2 .. n : Parent(j) = pos => c[pos] <= c[j]
      BY <2>1, <2>3, <2>4
    <2> QED BY <2>3, <2>4, <2>5, DownDone
  <1> QED BY <1>1, <1>2, <1>6, <1>7, <1>8

\* The keys of h are in heap order.
Heaped(k, h) == InOrder(Keys(k, h), Len(h))

\* What HeapPush promises of its result g.
Pushed(p, h, s, g) ==
  /\ g \in Seq(Slot) /\ Len(g) = Len(h) + 1 /\ Range(g) = Range(h) \cup {s}
  /\ IsInjective(h) /\ s \notin Range(h) => IsInjective(g)
  /\ \A k \in [Slot -> Int] : Agree(p, k, Range(h) \cup {s}) /\ Heaped(k, h) => Heaped(k, g)

\* HeapPush adds one entry and keeps the heap in order.
LEMMA PushHeap ==
  ASSUME NEW p, NEW h \in Seq(Slot), NEW s \in Slot
  PROVE  Pushed(p, h, s, HeapPush(p, h, s))
  <1>1. PICK n \in Nat : n = Len(h)
    OBVIOUS
  <1>2. PICK u : u = Append(h, s)
    OBVIOUS
  <1>3. /\ u \in Seq(Slot) /\ Len(u) = n + 1 /\ Range(u) = Range(h) \cup {s}
        /\ IsInjective(h) /\ s \notin Range(h) => IsInjective(u)
    BY <1>1, <1>2, AppendElements
  <1>4. \A i \in 1 .. n : u[i] = h[i]
    BY <1>1, <1>2
  <1>5. PICK g : g = SiftUp(p, u, n + 1)
    OBVIOUS
  <1>6. n + 1 \in 1 .. Len(u)
    BY <1>3
  <1>7. /\ Perm(u, g)
        /\ \A k \in [Slot -> Int] : Agree(p, k, Range(u)) /\ UpOrder(Keys(k, u), n + 1, n + 1)
                                      => InOrder(Keys(k, g), n + 1)
    BY <1>3, <1>5, <1>6, SiftUpSorts
  <1>8. ASSUME NEW k \in [Slot -> Int], Heaped(k, h) PROVE UpOrder(Keys(k, u), n + 1, n + 1)
    <2>1. PICK c, d : c = Keys(k, h) /\ d = Keys(k, u)
      OBVIOUS
    <2>2. \A i \in 1 .. n : d[i] = c[i]
      BY <1>1, <1>3, <1>4, <2>1 DEF Keys
    <2>3. InOrder(c, n)
      BY <1>1, <1>8, <2>1 DEF Heaped
    <2>4. ASSUME NEW i \in 2 .. n + 1 PROVE Parent(i) \in 1 .. n /\ Parent(i) # n + 1
      BY ParentBelow
    <2>5. ASSUME NEW i \in 2 .. n + 1, i # n + 1 PROVE d[Parent(i)] <= d[i]
      <3>1. i \in 2 .. n /\ i \in 1 .. n /\ Parent(i) \in 1 .. n
        BY <2>4, <2>5
      <3> QED BY <2>2, <2>3, <3>1 DEF InOrder
    <2>6. UpOrder(d, n + 1, n + 1)
      BY <2>4, <2>5 DEF UpOrder
    <2> QED BY <2>1, <2>6
  <1>9. g \in Seq(Slot) /\ Len(g) = n + 1 /\ Range(g) = Range(u) /\ (IsInjective(u) => IsInjective(g))
    BY <1>3, <1>7 DEF Perm
  <1>10. ASSUME NEW k \in [Slot -> Int], Agree(p, k, Range(h) \cup {s}), Heaped(k, h) PROVE Heaped(k, g)
    <2>1. InOrder(Keys(k, g), n + 1)
      BY <1>3, <1>7, <1>8, <1>10
    <2> QED BY <1>9, <2>1 DEF Heaped
  <1>11. Pushed(p, h, s, g)
    BY <1>1, <1>3, <1>9, <1>10 DEF Pushed
  <1> QED BY <1>1, <1>2, <1>5, <1>11 DEF HeapPush

\* What HeapPop promises of its result g: the root is gone, the rest is there.
Popped(p, h, g) ==
  /\ g \in Seq(Slot) /\ Len(g) = Len(h) - 1 /\ Range(h) = Range(g) \cup {h[1]}
  /\ IsInjective(h) => IsInjective(g) /\ h[1] \notin Range(g)
  /\ \A k \in [Slot -> Int] : Agree(p, k, Range(h)) /\ Heaped(k, h) => Heaped(k, g)

\* HeapPop takes the root and keeps the heap in order.
LEMMA PopHeap ==
  ASSUME NEW p, NEW h \in Seq(Slot), h # << >>
  PROVE  Popped(p, h, HeapPop(p, h))
  <1>1. PICK n \in Nat : n = Len(h)
    OBVIOUS
  <1>2. n >= 1 /\ DOMAIN h = 1 .. n /\ h \in [1 .. n -> Slot]
    BY <1>1
  <1>3. CASE n = 1
    <2>1. PICK g : g = << >>
      OBVIOUS
    <2>2. HeapPop(p, h) = g
      BY <1>1, <1>3, <2>1 DEF HeapPop
    <2>3. g \in Seq(Slot) /\ Len(g) = 0 /\ Range(g) = {}
      BY <2>1 DEF Range
    <2>4. Range(h) = {h[1]}
      BY <1>2, <1>3 DEF Range
    <2>5. IsInjective(g)
      BY <2>1 DEF IsInjective
    <2>6. \A k : Heaped(k, g)
      BY <2>3 DEF Heaped, InOrder
    <2>7. Popped(p, h, g)
      BY <1>1, <1>3, <2>3, <2>4, <2>5, <2>6 DEF Popped
    <2> QED BY <2>2, <2>7
  <1>4. CASE n > 1
    <2>1. PICK m \in Nat : m = n - 1
      BY <1>4
    <2>2. PICK u : u = [i \in 1 .. m |-> IF i = 1 THEN h[n] ELSE h[i]]
      OBVIOUS
    <2>3. u = [Front(h) EXCEPT ![1] = Last(h)]
      <3>1. Front(h) = [i \in 1 .. m |-> h[i]]
        BY <1>1, <2>1 DEF Front
      <3>2. Last(h) = h[n]
        BY <1>1 DEF Last
      <3> QED BY <2>2, <3>1, <3>2
    <2>4. u \in [1 .. m -> Slot] /\ u \in Seq(Slot) /\ Len(u) = m /\ DOMAIN u = 1 .. m
      BY <1>2, <1>4, <2>1, <2>2
    <2>5. m >= 1 /\ n = m + 1 /\ 1 \in 1 .. Len(u)
      BY <1>4, <2>1, <2>4
    <2>6. u[1] = h[n] /\ \A i \in 2 .. m : u[i] = h[i]
      BY <2>2, <2>5
    <2>7. Range(h) = Range(u) \cup {h[1]}
      <3>1. ASSUME NEW i \in 1 .. m PROVE u[i] \in Range(h)
        BY <1>2, <2>2, <2>5 DEF Range
      <3>2. ASSUME NEW i \in 1 .. n PROVE h[i] \in Range(u) \cup {h[1]}
        <4>1. CASE i = 1
          BY <4>1
        <4>2. CASE i = n
          BY <2>4, <2>5, <2>6, <4>2 DEF Range
        <4>3. CASE i # 1 /\ i # n
          <5>1. i \in 2 .. m /\ i \in 1 .. m
            BY <2>5, <4>3
          <5> QED BY <2>4, <2>6, <5>1 DEF Range
        <4> QED BY <4>1, <4>2, <4>3
      <3>3. h[1] \in Range(h)
        BY <1>2 DEF Range
      <3> QED BY <1>2, <2>4, <3>1, <3>2, <3>3 DEF Range
    <2>8. ASSUME IsInjective(h) PROVE IsInjective(u) /\ h[1] \notin Range(u)
      <3>1. \A i, j \in 1 .. n : h[i] = h[j] => i = j
        BY <1>2, <2>8 DEF IsInjective
      <3>2. ASSUME NEW i \in 1 .. m, NEW j \in 1 .. m, u[i] = u[j] PROVE i = j
        BY <2>2, <2>5, <3>1, <3>2
      <3>3. ASSUME NEW i \in 1 .. m PROVE u[i] # h[1]
        BY <1>4, <2>2, <2>5, <3>1
      <3> QED BY <2>4, <3>2, <3>3 DEF IsInjective, Range
    <2>9. PICK g : g = SiftDown(p, u, 1)
      OBVIOUS
    <2>10. /\ Perm(u, g)
           /\ \A k \in [Slot -> Int] : Agree(p, k, Range(u)) /\ DownOrder(Keys(k, u), m, 1)
                                         => InOrder(Keys(k, g), m)
      BY <2>4, <2>5, <2>9, SiftDownSorts
    <2>11. g \in Seq(Slot) /\ Len(g) = m /\ Range(g) = Range(u) /\ (IsInjective(u) => IsInjective(g))
      BY <2>4, <2>10 DEF Perm
    <2>12. ASSUME NEW k \in [Slot -> Int], Agree(p, k, Range(h)), Heaped(k, h) PROVE Heaped(k, g)
      <3>1. Agree(p, k, Range(u))
        BY <2>7, <2>12 DEF Agree
      <3>2. PICK c, d : c = Keys(k, h) /\ d = Keys(k, u)
        OBVIOUS
      <3>3. InOrder(c, n)
        BY <1>1, <2>12, <3>2 DEF Heaped
      <3>4. \A i \in 2 .. m : d[i] = c[i]
        <4>1. c = [i \in 1 .. n |-> k[h[i]]] /\ d = [i \in 1 .. m |-> k[u[i]]]
          BY <1>1, <2>4, <3>2 DEF Keys
        <4>2. \A i \in 2 .. m : i \in 1 .. m /\ i \in 1 .. n
          BY <2>5
        <4> QED BY <2>6, <4>1, <4>2
      <3>5. ASSUME NEW i \in 2 .. m, Parent(i) # 1 PROVE d[Parent(i)] <= d[i]
        <4>1. Parent(i) \in 2 .. m /\ i \in 2 .. n
          BY <2>5, <3>5, ParentBelow
        <4> QED BY <3>3, <3>4, <4>1 DEF InOrder
      <3>6. DownOrder(d, m, 1)
        BY <3>5 DEF DownOrder
      <3>7. InOrder(Keys(k, g), m)
        BY <2>10, <3>1, <3>2, <3>6
      <3> QED BY <2>11, <3>7 DEF Heaped
    <2>13. Popped(p, h, g)
      BY <1>1, <2>1, <2>7, <2>8, <2>11, <2>12 DEF Popped
    <2>14. HeapPop(p, h) = g
      <3>1. Len(h) # 1
        BY <1>1, <1>4
      <3> QED BY <2>3, <2>9, <3>1, Zenon DEF HeapPop
    <2> QED BY <2>13, <2>14
  <1> QED BY <1>2, <1>3, <1>4

\* A round of Purge gives a heap of slots.
LEMMA PurgeRoundType ==
  ASSUME NEW p, NEW h \in Seq(Slot)
  PROVE  PurgeRound(p, h) \in Seq(Slot)
  <1>1. CASE h # << >> /\ ~ p[h[1]].active
    <2>1. PurgeRound(p, h) = HeapPop(p, h)
      BY <1>1 DEF PurgeRound
    <2>2. Popped(p, h, HeapPop(p, h))
      BY <1>1, PopHeap
    <2> QED BY <2>1, <2>2 DEF Popped
  <1>2. CASE ~ (h # << >> /\ ~ p[h[1]].active)
    BY <1>2 DEF PurgeRound
  <1> QED BY <1>1, <1>2

\* f is the run of Purge's rounds.
PurgeRun(f, p, h) ==
  /\ f[0] = h
  /\ \A i \in 1 .. Len(h) : f[i] = PurgeRound(p, f[i - 1])
  /\ Purge(p, h) = f[Len(h)]

\* Purge is the end of a run of its rounds.
LEMMA PurgeRuns ==
  ASSUME NEW p, NEW h \in Seq(Slot)
  PROVE  \E f : PurgeRun(f, p, h)
  <1>1. PICK n \in Nat : n = Len(h)
    OBVIOUS
  <1>2. PICK x, S : x = h /\ S = Seq(Slot)
    OBVIOUS
  <1>3. x \in S
    BY <1>1, <1>2
  <1>4. PICK R : R = [a \in S |-> PurgeRound(p, a)]
    OBVIOUS
  <1>5. R \in [S -> S]
    BY <1>2, <1>4, PurgeRoundType
  <1>6. PICK a \in [0 .. n -> S] : a[0] = x /\ \A i \in 1 .. n : a[i] = R[a[i - 1]]
    <2>1. \E a \in [0 .. n -> S] : Iterates(a, R, x, n)
      BY <1>3, <1>5, Iteration
    <2> QED BY <2>1 DEF Iterates
  <1> DEFINE Step(f) == [i \in 0 .. n |-> IF i = 0 THEN x ELSE PurgeRound(p, f[i - 1])]
  <1>7. a = Step(a)
    <2>1. ASSUME NEW i \in 0 .. n PROVE a[i] = IF i = 0 THEN x ELSE PurgeRound(p, a[i - 1])
      <3>1. CASE i = 0
        BY <1>6, <3>1
      <3>2. CASE i # 0
        <4>1. i \in 1 .. n /\ i - 1 \in 0 .. n
          BY <3>2
        <4>2. a[i - 1] \in S
          BY <4>1
        <4> QED BY <1>4, <1>6, <3>2, <4>1, <4>2
      <3> QED BY <3>1, <3>2
    <2> QED BY <2>1
  <1>8. PICK f : f = CHOOSE g : g = Step(g)
    OBVIOUS
  <1>9. f = Step(f)
    BY <1>7, <1>8, Zenon
  <1>10. \A i \in 0 .. n : f[i] = IF i = 0 THEN x ELSE PurgeRound(p, f[i - 1])
    BY <1>9, Zenon
  <1>11. f[0] = x /\ \A i \in 1 .. n : f[i] = PurgeRound(p, f[i - 1])
    <2>1. 0 \in 0 .. n /\ \A i \in 1 .. n : i \in 0 .. n /\ i # 0
      OBVIOUS
    <2> QED BY <1>10, <2>1, Zenon
  <1>12. Purge(p, h) = f[n]
    BY <1>1, <1>2, <1>8, Zenon DEF Purge
  <1>13. PurgeRun(f, p, h)
    BY <1>1, <1>2, <1>11, <1>12 DEF PurgeRun
  <1> QED BY <1>13

\* What Purge keeps: every active timer, each entry at most as often, and the order.
Thinned(p, h, g) ==
  /\ g \in Seq(Slot) /\ Len(g) <= Len(h) /\ Range(g) \subseteq Range(h)
  /\ \A s \in Range(h) : p[s].active => s \in Range(g)
  /\ IsInjective(h) => IsInjective(g)
  /\ \A k \in [Slot -> Int] : Agree(p, k, Range(h)) /\ Heaped(k, h) => Heaped(k, g)

\* Nothing is left, or the root is active.
Topped(p, g) == g # << >> => p[g[1]].active

\* Popping an inactive root loses no active timer.
LEMMA ThinnedStep ==
  ASSUME NEW p, NEW h \in Seq(Slot), NEW g \in Seq(Slot), g # << >>, ~ p[g[1]].active, Thinned(p, h, g),
         NEW e, Popped(p, g, e)
  PROVE  Thinned(p, h, e)
  <1>1. e \in Seq(Slot) /\ Len(e) = Len(g) - 1 /\ Range(g) = Range(e) \cup {g[1]}
    BY DEF Popped
  <1>2. Len(e) <= Len(h)
    <2>1. Len(g) \in Nat /\ Len(h) \in Nat /\ Len(g) <= Len(h)
      BY DEF Thinned
    <2> QED BY <1>1, <2>1
  <1>3. Range(e) \subseteq Range(h)
    BY <1>1 DEF Thinned
  <1>4. \A s \in Range(h) : p[s].active => s \in Range(e)
    BY <1>1 DEF Thinned
  <1>5. IsInjective(h) => IsInjective(e)
    BY DEF Thinned, Popped
  <1>6. ASSUME NEW k \in [Slot -> Int], Agree(p, k, Range(h)), Heaped(k, h) PROVE Heaped(k, e)
    <2>1. Heaped(k, g)
      BY <1>6 DEF Thinned
    <2>2. Agree(p, k, Range(g))
      BY <1>6 DEF Thinned, Agree
    <2> QED BY <2>1, <2>2 DEF Popped
  <1> QED BY <1>1, <1>2, <1>3, <1>4, <1>5, <1>6 DEF Thinned

\* Purge drops inactive entries only, and ends at an active root or nothing.
LEMMA PurgeHeap ==
  ASSUME NEW p, NEW h \in Seq(Slot)
  PROVE  Thinned(p, h, Purge(p, h)) /\ Topped(p, Purge(p, h))
  <1>1. PICK n \in Nat : n = Len(h)
    OBVIOUS
  <1>2. PICK f : /\ f[0] = h
                 /\ \A i \in 1 .. n : f[i] = PurgeRound(p, f[i - 1])
                 /\ Purge(p, h) = f[n]
    <2>1. PICK f : PurgeRun(f, p, h)
      BY PurgeRuns
    <2>2. f[0] = h /\ Purge(p, h) = f[n] /\ \A i \in 1 .. n : f[i] = PurgeRound(p, f[i - 1])
      BY <1>1, <2>1 DEF PurgeRun
    <2> QED BY <2>2
  <1> DEFINE Fine(g, i) == Thinned(p, h, g) /\ (Len(g) <= n - i \/ Topped(p, g))
             Bad == {i \in Nat : i <= n /\ ~ Fine(f[i], i)}
  <1>3. Fine(f[0], 0)
    <2>1. Thinned(p, h, h)
      BY <1>1 DEF Thinned
    <2> QED BY <1>1, <1>2, <2>1
  <1>4. ASSUME NEW i \in 1 .. n, Fine(f[i - 1], i - 1) PROVE Fine(f[i], i)
    <2>1. PICK g, e : g = f[i - 1] /\ e = f[i]
      OBVIOUS
    <2>2. e = PurgeRound(p, g) /\ Thinned(p, h, g) /\ (Len(g) <= n - (i - 1) \/ Topped(p, g))
      BY <1>2, <1>4, <2>1
    <2>3. g \in Seq(Slot) /\ Len(g) \in Nat
      BY <2>2 DEF Thinned
    <2>4. CASE g # << >> /\ ~ p[g[1]].active
      <3>1. Popped(p, g, e)
        BY <2>2, <2>3, <2>4, PopHeap DEF PurgeRound
      <3>2. Thinned(p, h, e)
        BY <2>2, <2>3, <2>4, <3>1, ThinnedStep
      <3>3. Len(g) <= n - (i - 1)
        BY <2>2, <2>4 DEF Topped
      <3>4. Len(e) = Len(g) - 1
        BY <3>1 DEF Popped
      <3>5. Len(e) <= n - i
        BY <2>3, <3>3, <3>4
      <3> QED BY <2>1, <3>2, <3>5
    <2>5. CASE ~ (g # << >> /\ ~ p[g[1]].active)
      <3>1. e = g
        BY <2>2, <2>5, Zenon DEF PurgeRound
      <3>2. Topped(p, g)
        BY <2>5 DEF Topped
      <3> QED BY <2>1, <2>2, <3>1, <3>2
    <2> QED BY <2>4, <2>5
  <1>5. Fine(f[n], n)
    <2> SUFFICES ASSUME ~ Fine(f[n], n) PROVE FALSE
      OBVIOUS
    <2> HIDE DEF Fine
    <2>1. Bad # {} /\ Bad \subseteq Nat
      OBVIOUS
    <2>2. PICK m \in Bad : \A y \in Bad : m <= y
      <3> HIDE DEF Bad
      <3> QED BY <2>1, LeastNat
    <2>3. m \in Nat /\ m <= n /\ ~ Fine(f[m], m) /\ m # 0
      BY <1>3
    <2>4. m - 1 \notin Bad /\ m - 1 \in Nat /\ m - 1 <= n
      <3> HIDE DEF Bad
      <3> QED BY <2>2, <2>3
    <2>5. Fine(f[m - 1], m - 1) /\ m \in 1 .. n
      BY <2>3, <2>4
    <2> QED BY <1>4, <2>3, <2>5
  <1>6. PICK g : g = f[n]
    OBVIOUS
  <1>7. Thinned(p, h, g) /\ (Len(g) <= n - n \/ Topped(p, g))
    BY <1>5, <1>6
  <1>8. Topped(p, g)
    <2>1. g \in Seq(Slot) /\ Len(g) \in Nat
      BY <1>7 DEF Thinned
    <2>2. Len(g) <= 0 => g = << >>
      BY <2>1
    <2>3. n - n = 0
      OBVIOUS
    <2> QED BY <1>7, <2>2, <2>3 DEF Topped
  <1> QED BY <1>2, <1>6, <1>7, <1>8

-----------------------------------------------------------------------------
Entry == [deadline : 0 .. Wrap - 1, interval : Delays \cup {0}, id : 0 .. MaxSets, active : BOOLEAN]

\* The word of slot s is that of its true deadline, which is not before the
\* start and no more than a delay ahead of the clock.
Window(p, k, c, s) ==
  p[s].deadline = Word(k[s]) /\ Start <= k[s] /\ \E d \in Delays : k[s] <= c + d

Windows == \A s \in Range(heap) : Window(pool, due, clock, s)

\* The ids of armed timers are in use once, and not gone.
Ids ==
  /\ gone \subseteq 1 .. nextId - 1
  /\ \A s \in Active : pool[s].id \in 1 .. nextId - 1 /\ pool[s].id \notin gone
  /\ \A s, t \in Active : pool[s].id = pool[t].id => s = t

Shape ==
  /\ heap \in Seq(Slot) /\ pool \in [Slot -> Entry] /\ due \in [Slot -> Nat]
  /\ nextId \in 1 .. MaxSets + 1 /\ clock \in Start .. MaxClock
  /\ ticking \in BOOLEAN /\ fired \in 0 .. MaxSets /\ wait \in -2 .. Wrap
  /\ gone \subseteq 1 .. MaxSets /\ clean \in BOOLEAN /\ overrun \in BOOLEAN

CleanOrder == clean => Heaped(due, heap)
NoAnswerWhileTicking == ticking => wait = NoAnswer

IInv ==
  /\ Shape /\ Windows /\ Ids
  /\ ActiveInHeap /\ CleanHeap /\ CleanOrder
  /\ NoAnswerWhileTicking /\ CleanNextDeadline

\* Shape is TypeOK with the types of the two arrays spelled out.
LEMMA ShapeType ==
  ASSUME Shape
  PROVE  TypeOK
  <1>1. \A i \in DOMAIN heap : heap[i] \in Slot
    BY DEF Shape
  <1>2. ASSUME NEW s \in Slot
        PROVE  /\ pool[s].deadline \in 0 .. Wrap - 1 /\ pool[s].interval \in Delays \cup {0}
               /\ pool[s].id \in 0 .. MaxSets /\ pool[s].active \in BOOLEAN
    <2>1. pool[s] \in Entry
      BY DEF Shape
    <2> QED BY <2>1 DEF Entry
  <1> QED BY <1>1, <1>2 DEF Shape, TypeOK

\* What the assumptions say of a delay and a time of the clock.
LEMMA Clocks ==
  ASSUME NEW d \in Delays, NEW c \in Start .. MaxClock
  PROVE  /\ Start \in Nat /\ MaxClock \in Nat /\ Wrap \in Nat /\ Wrap > 0 /\ d \in Nat /\ c \in Nat
         /\ 2 * (MaxClock - Start + d) < Wrap /\ d < Wrap /\ Start <= c /\ c <= MaxClock
  BY ClockAssumption, SizesAssumption

\* In the window the code's comparisons are those of the true times.
LEMMA WindowTimes ==
  ASSUME NEW p, NEW k \in [Slot -> Nat], NEW c \in Start .. MaxClock, NEW s \in Slot, Window(p, k, c, s)
  PROVE  /\ TimeBefore(p[s].deadline, Word(c)) <=> k[s] < c
         /\ TimeBefore(Word(c), p[s].deadline) <=> c < k[s]
         /\ k[s] >= c => Word(p[s].deadline - Word(c)) = k[s] - c
  <1>1. PICK d \in Delays : k[s] <= c + d
    BY DEF Window
  <1>2. PICK x : x = k[s]
    OBVIOUS
  <1>3. p[s].deadline = Word(x) /\ x \in Nat /\ Start <= x /\ x <= c + d
    BY <1>1, <1>2 DEF Window
  <1>4. /\ Start \in Nat /\ MaxClock \in Nat /\ Wrap \in Nat /\ Wrap > 0 /\ d \in Nat /\ c \in Nat
        /\ 2 * (MaxClock - Start + d) < Wrap /\ Start <= c /\ c <= MaxClock
    BY Clocks
  <1>5. x \in Int /\ c \in Int /\ 2 * (x - c) < Wrap /\ 2 * (c - x) < Wrap /\ -Wrap < x - c /\ x - c < Wrap
    BY <1>3, <1>4
  <1>6. TimeBefore(Word(x), Word(c)) <=> x < c
    BY <1>5, BeforeIsLess
  <1>7. TimeBefore(Word(c), Word(x)) <=> c < x
    BY <1>5, BeforeIsLess
  <1>8. Word(Word(x) - Word(c)) = IF x < c THEN x - c + Wrap ELSE x - c
    BY <1>5, WordDiff
  <1>9. x >= c => Word(Word(x) - Word(c)) = x - c
    BY <1>3, <1>4, <1>8
  <1> QED BY <1>2, <1>3, <1>6, <1>7, <1>9

\* For timers in the window, comparing words is comparing true deadlines.
LEMMA WindowsAgree ==
  ASSUME NEW p, NEW k \in [Slot -> Nat], NEW c \in Start .. MaxClock, NEW S \in SUBSET Slot,
         \A s \in S : Window(p, k, c, s)
  PROVE  Agree(p, k, S)
  <1> SUFFICES ASSUME NEW a \in S, NEW b \in S
               PROVE  TimeBefore(p[a].deadline, p[b].deadline) <=> k[a] < k[b]
    BY DEF Agree
  <1>1. PICK d \in Delays : k[a] <= c + d
    BY DEF Window
  <1>2. PICK e \in Delays : k[b] <= c + e
    BY DEF Window
  <1>3. PICK x, y : x = k[a] /\ y = k[b]
    OBVIOUS
  <1>4. /\ p[a].deadline = Word(x) /\ x \in Nat /\ Start <= x /\ x <= c + d
        /\ p[b].deadline = Word(y) /\ y \in Nat /\ Start <= y /\ y <= c + e
    BY <1>1, <1>2, <1>3 DEF Window
  <1>5. /\ Start \in Nat /\ MaxClock \in Nat /\ Wrap \in Nat /\ d \in Nat /\ c \in Nat
        /\ 2 * (MaxClock - Start + d) < Wrap /\ c <= MaxClock
    BY Clocks
  <1>6. e \in Nat /\ 2 * (MaxClock - Start + e) < Wrap
    BY Clocks
  <1>7. x \in Int /\ y \in Int /\ 2 * (x - y) < Wrap /\ 2 * (y - x) < Wrap
    BY <1>4, <1>5, <1>6
  <1>8. TimeBefore(Word(x), Word(y)) <=> x < y
    BY <1>7, BeforeIsLess
  <1> QED BY <1>3, <1>4, <1>8

\* The order of a heap depends on the keys of its entries only.
LEMMA SameKeys ==
  ASSUME NEW h \in Seq(Slot), NEW k, NEW l, \A s \in Range(h) : k[s] = l[s], Heaped(k, h)
  PROVE  Heaped(l, h)
  <1>1. \A i \in 1 .. Len(h) : h[i] \in Range(h)
    BY DEF Range
  <1>2. Keys(k, h) = Keys(l, h)
    BY <1>1 DEF Keys
  <1> QED BY <1>2 DEF Heaped

\* In a heap in order no entry is due before the root.
LEMMA HeapedRoot ==
  ASSUME NEW k \in [Slot -> Nat], NEW h \in Seq(Slot), Heaped(k, h), NEW s \in Range(h)
  PROVE  k[h[1]] <= k[s]
  <1>1. PICK n \in Nat : n = Len(h)
    OBVIOUS
  <1>2. PICK j \in 1 .. n : h[j] = s
    BY <1>1 DEF Range
  <1>3. PICK c : c = Keys(k, h)
    OBVIOUS
  <1>4. c \in [1 .. n -> Int] /\ InOrder(c, n)
    BY <1>1, <1>3 DEF Keys, Heaped
  <1>5. c[1] <= c[j]
    BY <1>4, RootLeast
  <1>6. c[1] = k[h[1]] /\ c[j] = k[s]
    BY <1>1, <1>2, <1>3 DEF Keys
  <1> QED BY <1>5, <1>6

\* What the heap is after the inactive roots are gone.
Trimmed(h) ==
  /\ h \in Seq(Slot) /\ Len(h) <= Len(heap) /\ Range(h) \subseteq Range(heap)
  /\ Active \subseteq Range(h)
  /\ clean => IsInjective(h) /\ Heaped(due, h)
  /\ h # << >> => h[1] \in Active /\ h[1] \in Range(h)
  /\ clean => \A s \in Active : due[h[1]] <= due[s]

\* Purge leaves such a heap.
LEMMA Trims ==
  ASSUME IInv
  PROVE  Trimmed(Purge(pool, heap))
  <1>1. heap \in Seq(Slot) /\ due \in [Slot -> Nat] /\ clock \in Start .. MaxClock
    BY DEF IInv, Shape
  <1>2. PICK h : h = Purge(pool, heap)
    OBVIOUS
  <1>3. Thinned(pool, heap, h) /\ Topped(pool, h)
    BY <1>1, <1>2, PurgeHeap
  <1>4. h \in Seq(Slot) /\ Len(h) <= Len(heap) /\ Range(h) \subseteq Range(heap)
    BY <1>3 DEF Thinned
  <1>5. Active \subseteq Range(h)
    <2> SUFFICES ASSUME NEW s \in Active PROVE s \in Range(h)
      OBVIOUS
    <2>1. s \in Range(heap) /\ pool[s].active
      BY DEF IInv, ActiveInHeap, Active
    <2> QED BY <1>3, <2>1 DEF Thinned
  <1>6. ASSUME h # << >> PROVE h[1] \in Active /\ h[1] \in Range(h)
    <2>1. h[1] \in Slot /\ h[1] \in Range(h)
      <3>1. 1 \in DOMAIN h
        BY <1>4, <1>6
      <3> QED BY <1>4, <3>1 DEF Range
    <2>2. pool[h[1]].active
      BY <1>3, <1>6 DEF Topped
    <2> QED BY <2>1, <2>2 DEF Active
  <1>7. ASSUME clean PROVE IsInjective(h) /\ Heaped(due, h)
    <2>1. IsInjective(heap) /\ Heaped(due, heap)
      BY <1>7 DEF IInv, CleanHeap, CleanOrder
    <2>2. Range(heap) \in SUBSET Slot /\ \A s \in Range(heap) : Window(pool, due, clock, s)
      <3>1. \A s \in Range(heap) : Window(pool, due, clock, s)
        BY DEF IInv, Windows
      <3>2. Range(heap) \subseteq Slot
        BY <1>1 DEF Range
      <3> QED BY <3>1, <3>2
    <2>3. Agree(pool, due, Range(heap))
      BY <1>1, <2>2, WindowsAgree
    <2>4. due \in [Slot -> Int]
      BY <1>1
    <2> QED BY <1>3, <2>1, <2>3, <2>4 DEF Thinned
  <1>8. ASSUME clean, NEW s \in Active PROVE due[h[1]] <= due[s]
    <2>1. s \in Range(h)
      BY <1>5
    <2> QED BY <1>1, <1>4, <1>7, <1>8, <2>1, HeapedRoot
  <1>9. Trimmed(h)
    BY <1>4, <1>5, <1>6, <1>7, <1>8 DEF Trimmed
  <1> QED BY <1>2, <1>9

\* The queue Create makes satisfies the invariant.
LEMMA InitOK ==
  ASSUME Init
  PROVE  IInv
  <1>1. heap = << >> /\ heap \in Seq(Slot) /\ Len(heap) = 0 /\ Range(heap) = {}
    BY DEF Init, Range
  <1>2. pool \in [Slot -> Entry]
    <2>1. Wrap \in Nat /\ Wrap > 0 /\ MaxSets \in Nat
      BY ClockAssumption, SizesAssumption
    <2>2. [deadline |-> 0, interval |-> 0, id |-> 0, active |-> FALSE] \in Entry
      BY <2>1 DEF Entry
    <2> QED BY <2>2 DEF Init
  <1>3. Active = {}
    BY DEF Init, Active
  <1>4. Shape
    <2>1. clock = Start /\ fired = 0 /\ nextId = 1 /\ wait = -2 /\ ticking = FALSE /\ overrun = FALSE /\ gone = {}
      BY DEF Init, NoAnswer
    <2>2. due \in [Slot -> Nat] /\ clean \in BOOLEAN
      BY DEF Init
    <2>3. clock \in Start .. MaxClock
      BY <2>1, ClockAssumption DEF Init
    <2>4. nextId \in 1 .. MaxSets + 1 /\ fired \in 0 .. MaxSets /\ wait \in -2 .. Wrap
      BY <2>1, ClockAssumption, SizesAssumption
    <2> QED BY <1>1, <1>2, <2>1, <2>2, <2>3, <2>4 DEF Shape
  <1>5. Windows /\ Ids /\ ActiveInHeap
    BY <1>1, <1>3 DEF Windows, Ids, ActiveInHeap, Init
  <1>6. CleanHeap /\ CleanOrder
    <2>1. IsInjective(heap)
      BY <1>1 DEF IsInjective
    <2>2. Heaped(due, heap)
      BY <1>1 DEF Heaped, InOrder
    <2> QED BY <2>1, <2>2 DEF CleanHeap, CleanOrder, Init
  <1>7. NoAnswerWhileTicking /\ CleanNextDeadline
    BY DEF Init, NoAnswerWhileTicking, CleanNextDeadline
  <1> QED BY <1>4, <1>5, <1>6, <1>7 DEF IInv

\* SetTimeout and SetInterval preserve the invariant.
LEMMA SetStep ==
  ASSUME IInv, NEW delay \in Delays, NEW interval \in Delays \cup {0}, Set(delay, interval)
  PROVE  IInv'
  <1>1. /\ heap \in Seq(Slot) /\ pool \in [Slot -> Entry] /\ due \in [Slot -> Nat]
        /\ nextId \in 1 .. MaxSets + 1 /\ clock \in Start .. MaxClock
    BY DEF IInv, Shape
  <1>2. PICK s : s = AllocSlot
    OBVIOUS
  <1>3. s \in Slot /\ ~ pool[s].active /\ s \notin Active
    <2>1. Inactive \subseteq Nat /\ Inactive # {}
      BY SizesAssumption DEF Set, Inactive, Slot
    <2>2. s \in Inactive
      BY <1>2, <2>1, LeastNat DEF AllocSlot
    <2> QED BY <2>2 DEF Inactive, Active
  <1>4. PICK rec : rec = [deadline |-> Word(now + delay), interval |-> interval, id |-> nextId, active |-> TRUE]
    OBVIOUS
  <1>5. PICK p : p = [pool EXCEPT ![s] = rec]
    OBVIOUS
  <1>6. pool' = p /\ heap' = HeapPush(p, heap, s)
    BY <1>2, <1>4, <1>5 DEF Set
  <1>7. p[s] = rec /\ \A t \in Slot : t # s => p[t] = pool[t]
    BY <1>1, <1>3, <1>5
  <1>8. rec.deadline = Word(clock + delay) /\ rec.deadline \in 0 .. Wrap - 1
    <2>1. clock \in Int /\ delay \in Nat /\ delay < Wrap /\ clock + delay \in Int
      BY <1>1, Clocks
    <2>2. Word(Word(clock) + delay) = Word(clock + delay)
      BY <2>1, WordSum
    <2>3. rec.deadline = Word(clock + delay)
      BY <1>4, <2>2 DEF now
    <2> QED BY <2>1, <2>3, WordRange
  <1>9. rec.interval = interval /\ rec.id = nextId /\ rec.active = TRUE
    BY <1>4
  <1>10. nextId \in 1 .. MaxSets
    BY <1>1, SizesAssumption DEF Set
  <1>11. p \in [Slot -> Entry]
    <2>1. rec \in Entry
      BY <1>4, <1>8, <1>10 DEF Entry
    <2> QED BY <1>1, <1>3, <1>5, <2>1
  <1>12. /\ due' = [due EXCEPT ![s] = clock + delay] /\ nextId' = nextId + 1 /\ fired' = 0 /\ wait' = NoAnswer
         /\ overrun' = (Len(heap) = MaxTimers) /\ clock' = clock /\ ticking' = ticking /\ gone' = gone
         /\ clean' = (clean /\ s \notin Range(heap))
    BY <1>2 DEF Set
  <1>13. due' \in [Slot -> Nat] /\ due'[s] = clock + delay /\ \A t \in Slot : t # s => due'[t] = due[t]
    <2>1. clock + delay \in Nat
      BY <1>1, Clocks
    <2> QED BY <1>1, <1>3, <1>12, <2>1
  <1>14. Pushed(p, heap, s, heap')
    BY <1>1, <1>3, <1>6, PushHeap
  <1>15. heap' \in Seq(Slot) /\ Range(heap') = Range(heap) \cup {s}
    BY <1>14 DEF Pushed
  <1>16. Range(heap) \subseteq Slot
    BY <1>1 DEF Range
  <1>17. Active' = Active \cup {s}
    BY <1>3, <1>6, <1>7, <1>9 DEF Active
  <1>18. Shape'
    <2>1. nextId' \in 1 .. MaxSets + 1 /\ fired' \in 0 .. MaxSets /\ wait' \in -2 .. Wrap
      BY <1>10, <1>12, ClockAssumption, SizesAssumption DEF NoAnswer
    <2>2. overrun' \in BOOLEAN
      BY <1>12
    <2>3. gone' \subseteq 1 .. MaxSets /\ clean' \in BOOLEAN /\ ticking' \in BOOLEAN /\ clock' \in Start .. MaxClock
      BY <1>12 DEF IInv, Shape
    <2> QED BY <1>6, <1>11, <1>13, <1>15, <2>1, <2>2, <2>3 DEF Shape
  <1>19. ASSUME NEW t \in Range(heap) \cup {s} PROVE Window(p, due', clock, t)
    <2>1. CASE t = s
      <3>1. Start <= clock + delay /\ clock + delay <= clock + delay
        BY <1>1, Clocks
      <3> QED BY <1>7, <1>8, <1>13, <2>1, <3>1 DEF Window
    <2>2. CASE t # s
      <3>1. t \in Range(heap) /\ t \in Slot
        BY <1>16, <2>2
      <3>2. Window(pool, due, clock, t)
        BY <3>1 DEF IInv, Windows
      <3> QED BY <1>7, <1>13, <2>2, <3>1, <3>2 DEF Window
    <2> QED BY <2>1, <2>2
  <1>20. Windows'
    BY <1>6, <1>12, <1>15, <1>19 DEF Windows
  <1>21. Ids'
    <2>1. /\ gone \subseteq 1 .. nextId - 1
          /\ \A t \in Active : pool[t].id \in 1 .. nextId - 1 /\ pool[t].id \notin gone
          /\ \A t, u \in Active : pool[t].id = pool[u].id => t = u
      BY DEF IInv, Ids
    <2>2. \A t \in Active : t \in Slot /\ t # s /\ p[t] = pool[t]
      BY <1>3, <1>7 DEF Active
    <2>3. p[s].id = nextId
      BY <1>7, <1>9
    <2>4. nextId \notin gone /\ \A t \in Active : p[t].id # nextId
      BY <1>10, <2>1, <2>2
    <2>5. gone' \subseteq 1 .. nextId' - 1
      BY <1>10, <1>12, <2>1
    <2>6. \A t \in Active' : pool'[t].id \in 1 .. nextId' - 1 /\ pool'[t].id \notin gone'
      BY <1>6, <1>10, <1>12, <1>17, <2>1, <2>2, <2>3, <2>4
    <2>7. \A t, u \in Active' : pool'[t].id = pool'[u].id => t = u
      BY <1>6, <1>17, <2>1, <2>2, <2>3, <2>4
    <2> QED BY <2>5, <2>6, <2>7 DEF Ids
  <1>22. ActiveInHeap'
    BY <1>15, <1>17 DEF IInv, ActiveInHeap
  <1>23. ASSUME clean' PROVE overrun' = FALSE /\ IsInjective(heap') /\ Heaped(due', heap')
    <2>1. clean /\ s \notin Range(heap)
      BY <1>12, <1>23
    <2>2. IsInjective(heap) /\ Heaped(due, heap)
      BY <2>1 DEF IInv, CleanHeap, CleanOrder
    <2>3. IsInjective(heap')
      BY <1>14, <2>1, <2>2 DEF Pushed
    <2>4. Len(heap) # MaxTimers
      <3>1. Len(heap') = Len(heap) + 1
        BY <1>14 DEF Pushed
      <3>2. IsFiniteSet(Slot) /\ Cardinality(Slot) = MaxTimers
        BY SizesAssumption, FS_Interval DEF Slot
      <3>3. Len(heap') <= Cardinality(Slot)
        BY <1>15, <2>3, <3>2, InjectiveLength
      <3>4. Len(heap) \in Nat
        BY <1>1
      <3> QED BY <3>1, <3>2, <3>3, <3>4, SizesAssumption
    <2>5. Heaped(due', heap)
      <3>1. \A t \in Range(heap) : due[t] = due'[t]
        BY <1>13, <1>16, <2>1
      <3> QED BY <1>1, <2>2, <3>1, SameKeys
    <2>6. Agree(p, due', Range(heap) \cup {s})
      <3>1. Range(heap) \cup {s} \in SUBSET Slot
        BY <1>3, <1>16
      <3> QED BY <1>1, <1>13, <1>19, <3>1, WindowsAgree
    <2>7. due' \in [Slot -> Int]
      BY <1>13
    <2>8. Heaped(due', heap')
      BY <1>14, <2>5, <2>6, <2>7 DEF Pushed
    <2> QED BY <1>12, <2>3, <2>4, <2>8
  <1>24. CleanHeap' /\ CleanOrder'
    BY <1>12, <1>23 DEF CleanHeap, CleanOrder
  <1>25. NoAnswerWhileTicking' /\ CleanNextDeadline'
    BY <1>12 DEF NoAnswerWhileTicking, CleanNextDeadline
  <1> QED BY <1>18, <1>20, <1>21, <1>22, <1>24, <1>25 DEF IInv

\* Cancel preserves the invariant: the entry stays, with its deadline.
LEMMA CancelStep ==
  ASSUME IInv, NEW id \in 1 .. MaxSets, Cancel(id)
  PROVE  IInv'
  <1>1. PICK s \in Slot : HasId(s, id) /\ pool' = [pool EXCEPT ![s] = Cancelled(@)]
    BY DEF Cancel
  <1>2. /\ heap \in Seq(Slot) /\ pool \in [Slot -> Entry]
    BY DEF IInv, Shape
  <1>3. /\ gone' = gone \cup {id} /\ fired' = 0 /\ wait' = NoAnswer
        /\ heap' = heap /\ nextId' = nextId /\ clock' = clock /\ ticking' = ticking /\ due' = due
        /\ clean' = clean /\ overrun' = overrun
    BY DEF Cancel
  <1>4. PICK e : e = Cancelled(pool[s])
    OBVIOUS
  <1>5. pool' = [pool EXCEPT ![s] = e] /\ pool[s] \in Entry
    BY <1>1, <1>2, <1>4
  <1>6. /\ e \in Entry /\ e.active = FALSE /\ e.deadline = pool[s].deadline
    BY <1>4, <1>5 DEF Cancelled, Entry
  <1>7. pool' \in [Slot -> Entry] /\ pool'[s] = e /\ \A t \in Slot : t # s => pool'[t] = pool[t]
    BY <1>2, <1>5, <1>6
  <1>8. s \in Active /\ pool[s].id = id
    BY <1>1 DEF HasId, Active
  <1>9. Active' = Active \ {s}
    BY <1>6, <1>7 DEF Active
  <1>10. Shape'
    <2>1. fired' \in 0 .. MaxSets /\ wait' \in -2 .. Wrap
      BY <1>3, ClockAssumption, SizesAssumption DEF NoAnswer
    <2>2. gone' \subseteq 1 .. MaxSets
      BY <1>3 DEF IInv, Shape
    <2> QED BY <1>3, <1>7, <2>1, <2>2 DEF IInv, Shape
  <1>11. Windows'
    <2> SUFFICES ASSUME NEW t \in Range(heap) PROVE Window(pool', due, clock, t)
      BY <1>3 DEF Windows
    <2>1. Window(pool, due, clock, t) /\ t \in Slot
      BY <1>2 DEF IInv, Windows, Range
    <2>2. pool'[t].deadline = pool[t].deadline
      BY <1>6, <1>7, <2>1
    <2> QED BY <2>1, <2>2 DEF Window
  <1>12. Ids'
    <2>1. /\ gone \subseteq 1 .. nextId - 1
          /\ \A t \in Active : pool[t].id \in 1 .. nextId - 1 /\ pool[t].id \notin gone
          /\ \A t, u \in Active : pool[t].id = pool[u].id => t = u
      BY DEF IInv, Ids
    <2>2. \A t \in Active' : t \in Active /\ t # s /\ pool'[t] = pool[t]
      BY <1>7, <1>9 DEF Active
    <2>3. gone' \subseteq 1 .. nextId' - 1
      BY <1>3, <1>8, <2>1
    <2>4. \A t \in Active' : pool'[t].id \in 1 .. nextId' - 1 /\ pool'[t].id \notin gone'
      BY <1>3, <1>8, <2>1, <2>2
    <2>5. \A t, u \in Active' : pool'[t].id = pool'[u].id => t = u
      BY <2>1, <2>2
    <2> QED BY <2>3, <2>4, <2>5 DEF Ids
  <1>13. ActiveInHeap' /\ CleanHeap' /\ CleanOrder'
    BY <1>3, <1>9 DEF IInv, ActiveInHeap, CleanHeap, CleanOrder
  <1>14. NoAnswerWhileTicking' /\ CleanNextDeadline'
    BY <1>3 DEF NoAnswerWhileTicking, CleanNextDeadline
  <1> QED BY <1>10, <1>11, <1>12, <1>13, <1>14 DEF IInv

\* Calling Tick preserves the invariant.
LEMMA TickStep ==
  ASSUME IInv, Tick
  PROVE  IInv'
  <1>1. /\ ticking' = TRUE /\ fired' = 0 /\ wait' = NoAnswer
        /\ heap' = heap /\ pool' = pool /\ nextId' = nextId /\ clock' = clock /\ due' = due /\ gone' = gone
        /\ clean' = clean /\ overrun' = overrun
    BY DEF Tick
  <1>2. Active' = Active
    BY <1>1 DEF Active
  <1>3. Shape'
    <2>1. fired' \in 0 .. MaxSets /\ wait' \in -2 .. Wrap
      BY <1>1, ClockAssumption, SizesAssumption DEF NoAnswer
    <2> QED BY <1>1, <2>1 DEF IInv, Shape
  <1>4. Windows' /\ Ids'
    BY <1>1, <1>2 DEF IInv, Windows, Ids
  <1>5. ActiveInHeap' /\ CleanHeap' /\ CleanOrder'
    BY <1>1, <1>2 DEF IInv, ActiveInHeap, CleanHeap, CleanOrder
  <1>6. NoAnswerWhileTicking' /\ CleanNextDeadline'
    BY <1>1 DEF NoAnswerWhileTicking, CleanNextDeadline
  <1> QED BY <1>3, <1>4, <1>5, <1>6 DEF IInv

\* The passing of time preserves the invariant.
LEMMA AdvanceStep ==
  ASSUME IInv, Advance
  PROVE  IInv'
  <1>1. /\ clock < MaxClock /\ clock' = clock + 1 /\ fired' = 0 /\ wait' = NoAnswer
        /\ heap' = heap /\ pool' = pool /\ nextId' = nextId /\ ticking' = ticking /\ due' = due /\ gone' = gone
        /\ clean' = clean /\ overrun' = overrun
    BY DEF Advance
  <1>2. Active' = Active
    BY <1>1 DEF Active
  <1>3. Shape'
    <2>1. fired' \in 0 .. MaxSets /\ wait' \in -2 .. Wrap
      BY <1>1, ClockAssumption, SizesAssumption DEF NoAnswer
    <2>2. clock' \in Start .. MaxClock
      BY <1>1, ClockAssumption DEF IInv, Shape
    <2> QED BY <1>1, <2>1, <2>2 DEF IInv, Shape
  <1>4. Windows'
    <2> SUFFICES ASSUME NEW t \in Range(heap) PROVE Window(pool, due, clock', t)
      BY <1>1 DEF Windows
    <2>1. Window(pool, due, clock, t) /\ t \in Slot
      BY DEF IInv, Shape, Windows, Range
    <2>2. PICK d \in Delays : due[t] <= clock + d
      BY <2>1 DEF Window
    <2>3. clock \in Nat /\ d \in Nat /\ due[t] \in Nat
      BY <2>1, ClockAssumption, SizesAssumption DEF IInv, Shape
    <2>4. due[t] <= clock' + d
      BY <1>1, <2>2, <2>3
    <2> QED BY <2>1, <2>4 DEF Window
  <1>5. Ids'
    BY <1>1, <1>2 DEF IInv, Ids
  <1>6. ActiveInHeap' /\ CleanHeap' /\ CleanOrder'
    BY <1>1, <1>2 DEF IInv, ActiveInHeap, CleanHeap, CleanOrder
  <1>7. NoAnswerWhileTicking' /\ CleanNextDeadline'
    BY <1>1 DEF NoAnswerWhileTicking, CleanNextDeadline
  <1> QED BY <1>3, <1>4, <1>5, <1>6, <1>7 DEF IInv

\* Purging keeps what the invariant says of the heap.
LEMMA TrimmedOK ==
  ASSUME IInv, NEW h, Trimmed(h)
  PROVE  /\ h \in Seq(Slot) /\ \A s \in Active : s \in Range(h)
         /\ \A s \in Range(h) : s \in Slot /\ Window(pool, due, clock, s)
         /\ clean => ~ overrun /\ IsInjective(h) /\ Heaped(due, h)
  <1>1. heap \in Seq(Slot)
    BY DEF IInv, Shape
  <1>2. \A s \in Range(h) : s \in Slot /\ Window(pool, due, clock, s)
    <2>1. Range(heap) \subseteq Slot
      BY <1>1 DEF Range
    <2> QED BY <2>1 DEF Trimmed, IInv, Windows
  <1> QED BY <1>2 DEF Trimmed, IInv, CleanHeap

\* The root of a purged heap: the code's comparisons with now are those of the
\* true times.
LEMMA RootTimes ==
  ASSUME IInv, NEW h, Trimmed(h), h # << >>, NEW s, s = h[1]
  PROVE  /\ s \in Slot /\ s \in Active /\ s \in Range(h) /\ due[s] \in Nat /\ clock \in Nat
         /\ TimeBefore(pool[s].deadline, now) <=> due[s] < clock
         /\ TimeBefore(now, pool[s].deadline) <=> clock < due[s]
         /\ due[s] >= clock => Word(pool[s].deadline - now) = due[s] - clock
  <1>1. s \in Active /\ s \in Range(h) /\ s \in Slot
    BY DEF Trimmed, Active
  <1>2. Window(pool, due, clock, s)
    BY <1>1, TrimmedOK
  <1>3. due \in [Slot -> Nat] /\ clock \in Start .. MaxClock /\ due[s] \in Nat /\ clock \in Nat
    BY <1>1, ClockAssumption DEF IInv, Shape
  <1> QED BY <1>1, <1>2, <1>3, WindowTimes DEF now

\* The least of a set of natural numbers, and the larger of two numbers.
LEMMA MinIs ==
  ASSUME NEW S, S \subseteq Nat, NEW m \in S, \A y \in S : m <= y
  PROVE  Min(S) = m
  <1>1. Min(S) \in S /\ \A y \in S : Min(S) <= y
    BY LeastNat
  <1>2. PICK x : x = Min(S)
    OBVIOUS
  <1>3. x \in Nat /\ m \in Nat /\ x <= m /\ m <= x
    BY <1>1, <1>2
  <1> QED BY <1>2, <1>3

\* The larger of zero and a number.
LEMMA MaxWithZero ==
  ASSUME NEW x \in Int
  PROVE  Max({0, x}) = IF x < 0 THEN 0 ELSE x
  <1>1. PICK m : m = IF x < 0 THEN 0 ELSE x
    OBVIOUS
  <1>2. m \in {0, x} /\ m \in Int /\ \A y \in {0, x} : m >= y
    BY <1>1
  <1>3. PICK z : z = CHOOSE w \in {0, x} : \A y \in {0, x} : w >= y
    OBVIOUS
  <1>4. z \in {0, x} /\ \A y \in {0, x} : z >= y
    BY <1>2, <1>3, Zenon
  <1>5. z = m
    BY <1>2, <1>4
  <1>6. Max({0, x}) = z
    BY <1>3, Zenon DEF Max
  <1> QED BY <1>1, <1>5, <1>6

\* What NextDeadline answers, for the clients that never reuse a slot too soon.
LEMMA AnswerExact ==
  ASSUME IInv, NEW h, Trimmed(h), clean
  PROVE  LET w == IF h = << >> THEN -1
                  ELSE IF TimeBefore(pool[h[1]].deadline, now) THEN 0 ELSE Word(pool[h[1]].deadline - now) IN
         w = IF Active = {} THEN -1 ELSE Max({0, Min({due[s] : s \in Active}) - clock})
  <1>1. CASE h = << >>
    <2>1. Range(h) = {}
      BY <1>1 DEF Range
    <2>2. Active = {}
      BY <2>1 DEF Trimmed
    <2> QED BY <1>1, <2>2
  <1>2. CASE h # << >>
    <2>1. PICK s : s = h[1]
      OBVIOUS
    <2>2. /\ s \in Slot /\ s \in Active /\ due[s] \in Nat /\ clock \in Nat
          /\ TimeBefore(pool[s].deadline, now) <=> due[s] < clock
          /\ due[s] >= clock => Word(pool[s].deadline - now) = due[s] - clock
      BY <1>2, <2>1, RootTimes
    <2>3. PICK D : D = {due[t] : t \in Active}
      OBVIOUS
    <2>4. D \subseteq Nat /\ due[s] \in D /\ \A y \in D : due[s] <= y
      <3>1. \A t \in Active : due[s] <= due[t] /\ due[t] \in Nat
        BY <2>1 DEF Trimmed, Active, IInv, Shape
      <3> QED BY <2>2, <2>3, <3>1
    <2>5. Min(D) = due[s]
      BY <2>4, MinIs
    <2>6. PICK x : x = due[s] - clock
      OBVIOUS
    <2>7. x \in Int /\ (due[s] < clock <=> x < 0)
      BY <2>2, <2>6
    <2>8. Max({0, x}) = IF x < 0 THEN 0 ELSE x
      BY <2>7, MaxWithZero
    <2>9. CASE due[s] < clock
      <3>1. TimeBefore(pool[h[1]].deadline, now) /\ Max({0, x}) = 0
        BY <2>1, <2>2, <2>7, <2>8, <2>9
      <3> QED BY <1>2, <2>2, <2>3, <2>5, <2>6, <3>1
    <2>10. CASE ~ (due[s] < clock)
      <3>1. ~ TimeBefore(pool[h[1]].deadline, now) /\ Max({0, x}) = x /\ Word(pool[h[1]].deadline - now) = x
        BY <2>1, <2>2, <2>6, <2>7, <2>8, <2>10
      <3> QED BY <1>2, <2>2, <2>3, <2>5, <2>6, <3>1
    <2> QED BY <2>9, <2>10
  <1> QED BY <1>1, <1>2

\* NextDeadline's answer is -1 or a word.
LEMMA AnswerType ==
  ASSUME IInv, NEW h, Trimmed(h)
  PROVE  (IF h = << >> THEN -1
          ELSE IF TimeBefore(pool[h[1]].deadline, now) THEN 0 ELSE Word(pool[h[1]].deadline - now)) \in -2 .. Wrap
  <1>1. Wrap \in Nat /\ Wrap > 0
    BY ClockAssumption
  <1>2. CASE h = << >>
    BY <1>1, <1>2
  <1>3. CASE h # << >>
    <2>1. PICK s : s = h[1]
      OBVIOUS
    <2>2. s \in Slot
      BY <1>3, <2>1, RootTimes
    <2>3. pool[s].deadline \in Int /\ now \in Int
      <3>1. pool[s] \in Entry /\ clock \in Int
        BY <2>2, ClockAssumption DEF IInv, Shape
      <3>2. pool[s].deadline \in Int
        BY <1>1, <3>1 DEF Entry
      <3> QED BY <1>1, <3>1, <3>2, WordRange DEF now
    <2>4. PICK x : x = pool[s].deadline - now
      OBVIOUS
    <2>5. Word(x) \in 0 .. Wrap - 1
      BY <2>3, <2>4, WordRange
    <2> QED BY <1>1, <1>3, <2>1, <2>4, <2>5
  <1> QED BY <1>2, <1>3

\* NextDeadline preserves the invariant.
LEMMA NextDeadlineStep ==
  ASSUME IInv, NextDeadline
  PROVE  IInv'
  <1>1. PICK h : h = Purge(pool, heap)
    OBVIOUS
  <1>2. Trimmed(h)
    BY <1>1, Trims
  <1>3. PICK w : w = IF h = << >> THEN -1
                     ELSE IF TimeBefore(pool[h[1]].deadline, now) THEN 0 ELSE Word(pool[h[1]].deadline - now)
    OBVIOUS
  <1>4. /\ heap' = h /\ wait' = w /\ fired' = 0 /\ ~ ticking
        /\ pool' = pool /\ nextId' = nextId /\ clock' = clock /\ ticking' = ticking /\ due' = due /\ gone' = gone
        /\ clean' = clean /\ overrun' = overrun
    BY <1>1, <1>3 DEF NextDeadline
  <1>5. /\ h \in Seq(Slot) /\ \A s \in Active : s \in Range(h)
        /\ \A s \in Range(h) : s \in Slot /\ Window(pool, due, clock, s)
        /\ clean => ~ overrun /\ IsInjective(h) /\ Heaped(due, h)
    BY <1>2, TrimmedOK
  <1>6. Active' = Active
    BY <1>4 DEF Active
  <1>7. Shape'
    <2>1. wait' \in -2 .. Wrap
      BY <1>2, <1>3, <1>4, AnswerType
    <2>2. fired' \in 0 .. MaxSets
      BY <1>4, SizesAssumption
    <2> QED BY <1>4, <1>5, <2>1, <2>2 DEF IInv, Shape
  <1>8. Windows' /\ Ids'
    BY <1>4, <1>5, <1>6 DEF IInv, Windows, Ids
  <1>9. ActiveInHeap' /\ CleanHeap' /\ CleanOrder'
    BY <1>4, <1>5, <1>6 DEF ActiveInHeap, CleanHeap, CleanOrder
  <1>10. NoAnswerWhileTicking'
    BY <1>4 DEF NoAnswerWhileTicking
  <1>11. CleanNextDeadline'
    <2>1. clean => w = IF Active = {} THEN -1 ELSE Max({0, Min({due[s] : s \in Active}) - clock})
      BY <1>2, <1>3, AnswerExact
    <2> QED BY <1>4, <1>6, <2>1 DEF CleanNextDeadline
  <1> QED BY <1>7, <1>8, <1>9, <1>10, <1>11 DEF IInv

\* Leaving the loop of Tick preserves the invariant, and nothing is left due.
LEMMA TickReturnStep ==
  ASSUME IInv, TickReturn
  PROVE  IInv' /\ (clean => \A s \in Active : due[s] > clock)
  <1>1. PICK h : h = Purge(pool, heap)
    OBVIOUS
  <1>2. Trimmed(h)
    BY <1>1, Trims
  <1>3. /\ heap' = h /\ fired' = 0 /\ ticking /\ ticking' = FALSE /\ wait' = wait
        /\ pool' = pool /\ nextId' = nextId /\ clock' = clock /\ due' = due /\ gone' = gone
        /\ clean' = clean /\ overrun' = overrun
    BY <1>1 DEF TickReturn
  <1>4. /\ h \in Seq(Slot) /\ \A s \in Active : s \in Range(h)
        /\ \A s \in Range(h) : s \in Slot /\ Window(pool, due, clock, s)
        /\ clean => ~ overrun /\ IsInjective(h) /\ Heaped(due, h)
    BY <1>2, TrimmedOK
  <1>5. Active' = Active
    BY <1>3 DEF Active
  <1>6. Shape'
    <2>1. fired' \in 0 .. MaxSets
      BY <1>3, SizesAssumption
    <2> QED BY <1>3, <1>4, <2>1 DEF IInv, Shape
  <1>7. Windows' /\ Ids'
    BY <1>3, <1>4, <1>5 DEF IInv, Windows, Ids
  <1>8. ActiveInHeap' /\ CleanHeap' /\ CleanOrder'
    BY <1>3, <1>4, <1>5 DEF ActiveInHeap, CleanHeap, CleanOrder
  <1>9. wait = NoAnswer
    BY <1>3 DEF IInv, NoAnswerWhileTicking
  <1>10. NoAnswerWhileTicking' /\ CleanNextDeadline'
    BY <1>3, <1>9 DEF NoAnswerWhileTicking, CleanNextDeadline
  <1>11. ASSUME clean, NEW s \in Active PROVE due[s] > clock
    <2>1. s \in Range(h)
      BY <1>4
    <2>2. h # << >>
      BY <2>1 DEF Range
    <2>3. PICK r : r = h[1]
      OBVIOUS
    <2>4. TimeBefore(now, pool[r].deadline)
      <3>1. ~ RootDue(h)
        BY <1>1, <1>3 DEF TickReturn
      <3> QED BY <2>2, <2>3, <3>1 DEF RootDue
    <2>5. due[r] \in Nat /\ clock \in Nat /\ clock < due[r]
      BY <1>2, <2>2, <2>3, <2>4, RootTimes
    <2>6. due[r] <= due[s] /\ due[s] \in Nat
      BY <1>2, <1>11, <2>3 DEF Trimmed, Active, IInv, Shape
    <2> QED BY <2>5, <2>6
  <1> QED BY <1>6, <1>7, <1>8, <1>10, <1>11 DEF IInv

\* The timer at the root, popped: what is left of the heap.
LEMMA RootPopped ==
  ASSUME IInv, NEW h, Trimmed(h), h # << >>, NEW s, s = h[1], NEW g, g = HeapPop(pool, h)
  PROVE  /\ g \in Seq(Slot) /\ Range(g) \subseteq Range(h)
         /\ \A t \in Active : t # s => t \in Range(g)
         /\ clean => IsInjective(g) /\ s \notin Range(g) /\ Heaped(due, g)
  <1>1. /\ h \in Seq(Slot) /\ \A t \in Active : t \in Range(h)
        /\ \A t \in Range(h) : t \in Slot /\ Window(pool, due, clock, t)
        /\ clean => IsInjective(h) /\ Heaped(due, h)
    BY TrimmedOK
  <1>2. Popped(pool, h, g)
    BY <1>1, PopHeap
  <1>3. g \in Seq(Slot) /\ Range(h) = Range(g) \cup {s} /\ (IsInjective(h) => IsInjective(g) /\ s \notin Range(g))
    BY <1>2 DEF Popped
  <1>4. ASSUME clean PROVE Heaped(due, g)
    <2>1. due \in [Slot -> Nat] /\ clock \in Start .. MaxClock /\ due \in [Slot -> Int]
      BY DEF IInv, Shape
    <2>2. Range(h) \in SUBSET Slot
      BY <1>1
    <2>3. Agree(pool, due, Range(h))
      BY <1>1, <2>1, <2>2, WindowsAgree
    <2> QED BY <1>1, <1>2, <1>4, <2>1, <2>3 DEF Popped
  <1> QED BY <1>1, <1>3, <1>4

\* Firing a one-shot preserves the invariant.
LEMMA FireOnce ==
  ASSUME IInv, TickFire, NEW h, h = Purge(pool, heap), NEW s, s = h[1], ~ (pool[s].interval > 0)
  PROVE  IInv'
  <1>1. Trimmed(h) /\ h # << >>
    BY Trims DEF TickFire, RootDue
  <1>2. s \in Slot /\ s \in Active /\ pool \in [Slot -> Entry]
    BY <1>1, RootTimes DEF IInv, Shape
  <1>3. PICK g : g = HeapPop(pool, h)
    OBVIOUS
  <1>4. /\ pool' = [pool EXCEPT ![s].active = FALSE] /\ heap' = g /\ gone' = gone \cup {pool[s].id} /\ due' = due
        /\ fired' \in {pool[s].id, 0} /\ ticking /\ ticking' = ticking
        /\ nextId' = nextId /\ clock' = clock /\ wait' = wait /\ clean' = clean /\ overrun' = overrun
    BY <1>3 DEF TickFire
  <1>5. /\ g \in Seq(Slot) /\ Range(g) \subseteq Range(h)
        /\ \A t \in Active : t # s => t \in Range(g)
        /\ clean => IsInjective(g) /\ Heaped(due, g)
    BY <1>1, <1>3, RootPopped
  <1>6. PICK e : e = [pool[s] EXCEPT !.active = FALSE]
    OBVIOUS
  <1>7. pool' = [pool EXCEPT ![s] = e] /\ pool[s] \in Entry
    BY <1>2, <1>4, <1>6
  <1>8. e \in Entry /\ e.active = FALSE /\ e.deadline = pool[s].deadline
    BY <1>6, <1>7 DEF Entry
  <1>9. pool' \in [Slot -> Entry] /\ pool'[s] = e /\ \A t \in Slot : t # s => pool'[t] = pool[t]
    BY <1>2, <1>7, <1>8
  <1>10. Active' = Active \ {s}
    BY <1>8, <1>9 DEF Active
  <1>11. /\ gone \subseteq 1 .. nextId - 1
         /\ \A t \in Active : pool[t].id \in 1 .. nextId - 1 /\ pool[t].id \notin gone
         /\ \A t, u \in Active : pool[t].id = pool[u].id => t = u
    BY DEF IInv, Ids
  <1>12. nextId \in 1 .. MaxSets + 1 /\ MaxSets \in Nat
    BY SizesAssumption DEF IInv, Shape
  <1>13. pool[s].id \in 1 .. MaxSets
    BY <1>2, <1>11, <1>12
  <1>14. Shape'
    <2>1. fired' \in 0 .. MaxSets
      BY <1>4, <1>12, <1>13
    <2>2. gone' \subseteq 1 .. MaxSets
      BY <1>4, <1>13 DEF IInv, Shape
    <2> QED BY <1>4, <1>5, <1>9, <2>1, <2>2 DEF IInv, Shape
  <1>15. Windows'
    <2> SUFFICES ASSUME NEW t \in Range(g) PROVE Window(pool', due, clock, t)
      BY <1>4 DEF Windows
    <2>1. Window(pool, due, clock, t) /\ t \in Slot
      BY <1>1, <1>5, TrimmedOK
    <2>2. pool'[t].deadline = pool[t].deadline
      BY <1>8, <1>9, <2>1
    <2> QED BY <2>1, <2>2 DEF Window
  <1>16. Ids'
    <2>1. \A t \in Active' : t \in Active /\ t # s /\ pool'[t] = pool[t]
      BY <1>9, <1>10 DEF Active
    <2>2. gone' \subseteq 1 .. nextId' - 1
      BY <1>2, <1>4, <1>11
    <2>3. \A t \in Active' : pool'[t].id \in 1 .. nextId' - 1 /\ pool'[t].id \notin gone'
      BY <1>2, <1>4, <1>11, <2>1
    <2>4. \A t, u \in Active' : pool'[t].id = pool'[u].id => t = u
      BY <1>11, <2>1
    <2> QED BY <2>2, <2>3, <2>4 DEF Ids
  <1>17. ActiveInHeap'
    BY <1>4, <1>5, <1>10 DEF ActiveInHeap
  <1>18. CleanHeap' /\ CleanOrder'
    BY <1>4, <1>5 DEF IInv, CleanHeap, CleanOrder
  <1>19. wait = NoAnswer
    BY <1>4 DEF IInv, NoAnswerWhileTicking
  <1>20. NoAnswerWhileTicking' /\ CleanNextDeadline'
    BY <1>4, <1>19 DEF NoAnswerWhileTicking, CleanNextDeadline
  <1> QED BY <1>14, <1>15, <1>16, <1>17, <1>18, <1>20 DEF IInv

\* Firing a repeating timer and pushing it again preserves the invariant.
LEMMA FireAgain ==
  ASSUME IInv, TickFire, NEW h, h = Purge(pool, heap), NEW s, s = h[1], pool[s].interval > 0
  PROVE  IInv'
  <1>1. Trimmed(h) /\ h # << >> /\ ~ TimeBefore(now, pool[s].deadline)
    BY Trims DEF TickFire, RootDue
  <1>2. /\ s \in Slot /\ s \in Active /\ s \in Range(h) /\ due[s] \in Nat /\ clock \in Nat /\ due[s] <= clock
    BY <1>1, RootTimes
  <1>3. /\ pool \in [Slot -> Entry] /\ due \in [Slot -> Nat] /\ clock \in Start .. MaxClock
    BY DEF IInv, Shape
  <1>4. PICK g : g = HeapPop(pool, h)
    OBVIOUS
  <1>5. PICK iv : iv = pool[s].interval
    OBVIOUS
  <1>6. PICK p : p = [pool EXCEPT ![s].deadline = Word(@ + iv)]
    OBVIOUS
  <1>7. /\ pool' = p /\ heap' = HeapPush(p, g, s) /\ due' = [due EXCEPT ![s] = @ + iv] /\ gone' = gone
        /\ fired' \in {pool[s].id, 0} /\ ticking /\ ticking' = ticking
        /\ nextId' = nextId /\ clock' = clock /\ wait' = wait /\ clean' = clean /\ overrun' = overrun
    BY <1>4, <1>5, <1>6 DEF TickFire
  <1>8. /\ g \in Seq(Slot) /\ Range(g) \subseteq Range(h)
        /\ \A t \in Active : t # s => t \in Range(g)
        /\ clean => IsInjective(g) /\ s \notin Range(g) /\ Heaped(due, g)
    BY <1>1, <1>4, RootPopped
  <1>9. pool[s] \in Entry /\ iv \in Delays /\ iv \in Nat /\ iv < Wrap
    <2>1. pool[s] \in Entry
      BY <1>2, <1>3
    <2>2. iv \in Delays
      BY <1>5, <2>1 DEF Entry
    <2> QED BY <1>3, <2>1, <2>2, Clocks
  <1>10. Window(pool, due, clock, s)
    BY <1>1, <1>2, TrimmedOK
  <1>11. PICK e : e = [pool[s] EXCEPT !.deadline = Word(@ + iv)]
    OBVIOUS
  <1>12. p = [pool EXCEPT ![s] = e]
    BY <1>2, <1>3, <1>6, <1>11
  <1>13. e.deadline = Word(due[s] + iv) /\ e.deadline \in 0 .. Wrap - 1
    <2>1. PICK x : x = due[s]
      OBVIOUS
    <2>2. x \in Int /\ x + iv \in Int /\ pool[s].deadline = Word(x)
      BY <1>2, <1>9, <1>10, <2>1 DEF Window
    <2>3. Word(Word(x) + iv) = Word(x + iv)
      BY <1>9, <2>2, WordSum
    <2>4. e.deadline = Word(pool[s].deadline + iv)
      BY <1>9, <1>11 DEF Entry
    <2>5. Word(x + iv) \in 0 .. Wrap - 1
      BY <2>2, WordRange
    <2> QED BY <2>1, <2>2, <2>3, <2>4, <2>5
  <1>14. e \in Entry /\ e.id = pool[s].id /\ e.active = pool[s].active
    <2>1. e.id = pool[s].id /\ e.active = pool[s].active /\ e.interval = pool[s].interval
      BY <1>9, <1>11 DEF Entry
    <2>2. e = [deadline |-> e.deadline, interval |-> e.interval, id |-> e.id, active |-> e.active]
      BY <1>9, <1>11 DEF Entry
    <2> QED BY <1>9, <1>13, <2>1, <2>2 DEF Entry
  <1>15. p \in [Slot -> Entry] /\ p[s] = e /\ \A t \in Slot : t # s => p[t] = pool[t]
    BY <1>2, <1>3, <1>12, <1>14
  <1>16. due' \in [Slot -> Nat] /\ due'[s] = due[s] + iv /\ \A t \in Slot : t # s => due'[t] = due[t]
    BY <1>2, <1>3, <1>7, <1>9
  <1>17. Active' = Active
    BY <1>7, <1>14, <1>15 DEF Active
  <1>18. Pushed(p, g, s, heap')
    BY <1>2, <1>7, <1>8, PushHeap
  <1>19. heap' \in Seq(Slot) /\ Range(heap') = Range(g) \cup {s}
    BY <1>18 DEF Pushed
  <1>20. /\ gone \subseteq 1 .. nextId - 1
         /\ \A t \in Active : pool[t].id \in 1 .. nextId - 1 /\ pool[t].id \notin gone
         /\ \A t, u \in Active : pool[t].id = pool[u].id => t = u
    BY DEF IInv, Ids
  <1>21. Shape'
    <2>1. nextId \in 1 .. MaxSets + 1 /\ MaxSets \in Nat
      BY SizesAssumption DEF IInv, Shape
    <2>2. pool[s].id \in 1 .. MaxSets
      BY <1>2, <1>20, <2>1
    <2>3. fired' \in 0 .. MaxSets
      BY <1>7, <2>1, <2>2
    <2> QED BY <1>7, <1>15, <1>16, <1>19, <2>3 DEF IInv, Shape
  <1>22. ASSUME NEW t \in Range(g) \cup {s} PROVE t \in Slot /\ Window(p, due', clock, t)
    <2>1. CASE t = s
      <3>1. Start <= due[s] + iv /\ due[s] + iv <= clock + iv
        <4>1. Start <= due[s] /\ Start \in Nat
          BY <1>10, ClockAssumption DEF Window
        <4> QED BY <1>2, <1>9, <4>1
      <3> QED BY <1>2, <1>9, <1>13, <1>15, <1>16, <2>1, <3>1 DEF Window
    <2>2. CASE t # s
      <3>1. Window(pool, due, clock, t) /\ t \in Slot
        BY <1>1, <1>8, <2>2, TrimmedOK
      <3> QED BY <1>15, <1>16, <2>2, <3>1 DEF Window
    <2> QED BY <2>1, <2>2
  <1>23. Windows'
    BY <1>7, <1>19, <1>22 DEF Windows
  <1>24. Ids'
    <2>1. \A t \in Active : pool'[t].id = pool[t].id
      BY <1>7, <1>14, <1>15 DEF Active
    <2> QED BY <1>7, <1>17, <1>20, <2>1 DEF Ids
  <1>25. ActiveInHeap'
    BY <1>8, <1>17, <1>19 DEF ActiveInHeap
  <1>26. ASSUME clean PROVE IsInjective(heap') /\ Heaped(due', heap')
    <2>1. IsInjective(heap')
      BY <1>8, <1>18, <1>26 DEF Pushed
    <2>2. Heaped(due', g)
      <3>1. \A t \in Range(g) : due[t] = due'[t]
        BY <1>8, <1>16, <1>22, <1>26
      <3> QED BY <1>8, <1>26, <3>1, SameKeys
    <2>3. Agree(p, due', Range(g) \cup {s})
      <3>1. Range(g) \cup {s} \in SUBSET Slot
        BY <1>22
      <3> QED BY <1>3, <1>16, <1>22, <3>1, WindowsAgree
    <2>4. due' \in [Slot -> Int]
      BY <1>16
    <2> QED BY <1>18, <2>1, <2>2, <2>3, <2>4 DEF Pushed
  <1>27. CleanHeap' /\ CleanOrder'
    BY <1>7, <1>26 DEF IInv, CleanHeap, CleanOrder
  <1>28. wait = NoAnswer
    BY <1>7 DEF IInv, NoAnswerWhileTicking
  <1>29. NoAnswerWhileTicking' /\ CleanNextDeadline'
    BY <1>7, <1>28 DEF NoAnswerWhileTicking, CleanNextDeadline
  <1> QED BY <1>21, <1>23, <1>24, <1>25, <1>27, <1>29 DEF IInv

\* What Tick fires is due, and was neither cancelled nor a one-shot fired before.
LEMMA FireDue ==
  ASSUME IInv, TickFire
  PROVE  fired' # 0 => fired' \notin gone /\ \E s \in Slot : pool[s].id = fired' /\ due[s] <= clock
  <1>1. PICK h, s : h = Purge(pool, heap) /\ s = h[1]
    OBVIOUS
  <1>2. Trimmed(h) /\ h # << >> /\ ~ TimeBefore(now, pool[s].deadline) /\ fired' \in {pool[s].id, 0}
    BY <1>1, Trims DEF TickFire, RootDue
  <1>3. s \in Slot /\ s \in Active /\ due[s] \in Nat /\ clock \in Nat /\ due[s] <= clock
    BY <1>1, <1>2, RootTimes
  <1>4. pool[s].id \notin gone
    BY <1>3 DEF IInv, Ids
  <1> QED BY <1>2, <1>3, <1>4

\* Every step preserves the invariant.
LEMMA NextOK ==
  ASSUME IInv, [Next]_vars
  PROVE  IInv'
  <1>1. CASE \E d \in Delays : SetTimeout(d) \/ SetInterval(d)
    <2>1. PICK d \in Delays : SetTimeout(d) \/ SetInterval(d)
      BY <1>1
    <2> QED BY <2>1, SetStep DEF SetTimeout, SetInterval
  <1>2. CASE \E id \in 1 .. MaxSets : Cancel(id)
    BY <1>2, CancelStep
  <1>3. CASE NextDeadline
    BY <1>3, NextDeadlineStep
  <1>4. CASE Tick
    BY <1>4, TickStep
  <1>5. CASE TickFire
    <2>1. PICK h, s : h = Purge(pool, heap) /\ s = h[1]
      OBVIOUS
    <2> QED BY <1>5, <2>1, FireOnce, FireAgain
  <1>6. CASE TickReturn
    BY <1>6, TickReturnStep
  <1>7. CASE Advance
    BY <1>7, AdvanceStep
  <1>8. CASE UNCHANGED vars
    <2>1. /\ heap' = heap /\ pool' = pool /\ nextId' = nextId /\ clock' = clock /\ ticking' = ticking
          /\ fired' = fired /\ wait' = wait /\ due' = due /\ gone' = gone /\ clean' = clean /\ overrun' = overrun
      BY <1>8 DEF vars
    <2>2. Active' = Active
      BY <2>1 DEF Active
    <2>3. Shape' /\ Windows' /\ Ids'
      BY <2>1, <2>2 DEF IInv, Shape, Windows, Ids
    <2>4. ActiveInHeap' /\ CleanHeap' /\ CleanOrder'
      BY <2>1, <2>2 DEF IInv, ActiveInHeap, CleanHeap, CleanOrder
    <2>5. NoAnswerWhileTicking' /\ CleanNextDeadline'
      BY <2>1, <2>2 DEF IInv, NoAnswerWhileTicking, CleanNextDeadline
    <2> QED BY <2>3, <2>4, <2>5 DEF IInv
  <1> QED BY <1>1, <1>2, <1>3, <1>4, <1>5, <1>6, <1>7, <1>8 DEF Next

\* The invariant holds in every behaviour.
LEMMA Invariant ==
  Spec => []IInv
  <1>1. Init => IInv
    BY InitOK
  <1>2. IInv /\ [Next]_vars => IInv'
    BY NextOK
  <1> QED BY <1>1, <1>2, PTL DEF Spec

\* Every armed timer is in the heap under an id of its own; until a slot is taken
\* again while its old entry is there, the array is never overrun, each timer is in
\* the heap once, in the order of deadlines, and NextDeadline answers exactly the
\* time to the next one, across the wrap of the clock: for every pool size, word
\* size and set of delays (Timers.mod).
THEOREM HeapHolds ==
  Spec => []HeapInv
  <1>1. ASSUME IInv PROVE HeapInv
    <2>1. TypeOK /\ CleanHeap /\ ActiveInHeap /\ CleanNextDeadline
      BY <1>1, ShapeType DEF IInv
    <2>2. IdsUnique
      BY <1>1 DEF IInv, Ids, IdsUnique
    <2>3. ASSUME clean, NEW i \in 2 .. Len(heap) PROVE due[heap[i \div 2]] <= due[heap[i]]
      <3>1. heap \in Seq(Slot) /\ Heaped(due, heap)
        BY <1>1, <2>3 DEF IInv, Shape, CleanOrder
      <3>2. i \in 1 .. Len(heap) /\ Parent(i) \in 1 .. Len(heap)
        BY <2>3, <3>1, ParentBelow
      <3>3. Keys(due, heap)[Parent(i)] = due[heap[Parent(i)]] /\ Keys(due, heap)[i] = due[heap[i]]
        BY <3>2 DEF Keys
      <3> QED BY <3>1, <3>2, <3>3 DEF Heaped, InOrder, Parent
    <2> QED BY <2>1, <2>2, <2>3 DEF HeapInv, InDeadlineOrder
  <1> QED BY <1>1, Invariant, PTL

\* Tick enqueues a callback not before its deadline, never for a cancelled timer
\* and for a one-shot at most once, whatever has reused its slot (Timers.mod, Tick).
THEOREM FiringHolds ==
  Spec => FiresWhenDue
  <1>1. ASSUME IInv, [Next]_vars
        PROVE  [fired' # 0 => fired' \notin gone /\ \E s \in Slot : pool[s].id = fired' /\ due[s] <= clock]_vars
    <2>1. CASE TickFire
      BY <1>1, <2>1, FireDue
    <2>2. CASE Next /\ ~ TickFire
      <3>1. fired' = 0
        BY <2>2 DEF Next, SetTimeout, SetInterval, Set, Cancel, NextDeadline, Tick, TickReturn, Advance
      <3> QED BY <3>1
    <2>3. CASE UNCHANGED vars
      BY <2>3
    <2> QED BY <1>1, <2>1, <2>2, <2>3
  <1> QED BY <1>1, Invariant, PTL DEF Spec, FiresWhenDue

\* As long as no slot was taken again while its old entry was in the heap, no armed
\* timer is due when Tick returns (Timers.mod, Tick).
THEOREM TickHolds ==
  Spec => CleanTickComplete
  <1>1. ASSUME IInv, [Next]_vars
        PROVE  [clean /\ ticking /\ ~ ticking' => \A s \in Active : due[s] > clock]_vars
    <2>1. CASE TickReturn
      BY <1>1, <2>1, TickReturnStep
    <2>2. CASE Next /\ ~ TickReturn
      <3>1. ticking' = ticking \/ ticking' = TRUE
        BY <2>2 DEF Next, SetTimeout, SetInterval, Set, Cancel, NextDeadline, Tick, TickFire, Advance
      <3> QED BY <3>1
    <2>3. CASE UNCHANGED vars
      BY <2>3
    <2> QED BY <1>1, <2>1, <2>2, <2>3
  <1> QED BY <1>1, Invariant, PTL DEF Spec, CleanTickComplete
=============================================================================
