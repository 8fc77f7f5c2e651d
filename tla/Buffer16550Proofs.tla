------------------------- MODULE Buffer16550Proofs --------------------------
(***************************************************************************)
(* Proofs about Buffer16550, for rings, calls and lines of any size: the   *)
(* rings hold what was put into them (RingsStayIntact), and no interrupt   *)
(* is left disabled that is needed (InterruptsStayArmed), wherever the     *)
(* handler comes in between the accesses of a call.                        *)
(***************************************************************************)
EXTENDS Buffer16550, TLAPS, SequenceTheorems, FiniteSetTheorems, WellFoundedInduction

(***************************************************************************)
(* The least of a set of numbers.                                          *)
(***************************************************************************)
LEMMA LeastNat ==
  ASSUME NEW T, T \subseteq Nat, T # {}
  PROVE  \E x \in T : \A y \in T : x <= y
<1> DEFINE Less == {ss \in Nat \X Nat : ss[1] < ss[2]}
<1>1. IsWellFoundedOn(Less, Nat)
  BY NatLessThanWellFounded DEF OpToRel
<1> HIDE DEF Less
<1>2. \E x \in T : \A y \in T : ~(<<y, x>> \in Less)
  BY <1>1, WFMin
<1>3. ASSUME NEW x \in T, NEW y \in T PROVE <<y, x>> \in Less <=> ~(x <= y)
  <2>1. x \in Nat /\ y \in Nat
    OBVIOUS
  <2>2. QED
    BY <2>1 DEF Less
<1>4. PICK x \in T : \A y \in T : ~(<<y, x>> \in Less)
  BY <1>2
<1>5. \A y \in T : x <= y
  BY <1>3, <1>4
<1>6. QED
  BY <1>5

(***************************************************************************)
(* What the bytes of a line are turned into.                               *)
(***************************************************************************)
\* FlattenSeq is what its recursive definition says.
LEMMA FlattenDefined ==
  ASSUME NEW s \in Seq(Seq(Int)), s # <<>>
  PROVE  \E f : /\ f = [i \in 1..Len(s) |-> IF i = 1 THEN s[i] ELSE f[i - 1] \o s[i]]
                /\ FlattenSeq(s) = f[Len(s)]
<1> DEFINE N == Len(s)
           At_(g, i) == IF i = 1 THEN s[i] ELSE g[i - 1] \o s[i]
           Upto(g, m) == g = [i \in 1..N |-> g[i]] /\ \A i \in 1..m : g[i] = At_(g, i)
           T == {m \in 1..N : ~ \E g : Upto(g, m)}
<1>1. N \in Nat \ {0}
  OBVIOUS
<1>2. T = {}
  <2> SUFFICES ASSUME T # {} PROVE FALSE
    OBVIOUS
  <2>1. PICK m \in T : \A n \in T : m <= n
    <3>1. T \subseteq Nat
      BY <1>1
    <3> HIDE DEF T
    <3>2. QED
      BY <3>1, LeastNat
  <2>2. m \in 1..N /\ m \in Nat /\ m # 0
    BY <1>1, <2>1
  <2>3. CASE m = 1
    <3> DEFINE g == [i \in 1..N |-> s[i]]
    <3>1. g = [i \in 1..N |-> g[i]] /\ \A i \in 1..1 : g[i] = At_(g, i)
      BY <2>2, <2>3
    <3>2. Upto(g, m)
      BY <2>3, <3>1
    <3>3. QED
      BY <2>1, <3>2
  <2>4. CASE m # 1
    <3>1. m - 1 \in 1..N /\ ~(m <= m - 1)
      BY <1>1, <2>2, <2>4
    <3>2. m - 1 \notin T
      <4> HIDE DEF T
      <4>1. QED
        BY <2>1, <3>1
    <3>3. PICK g : Upto(g, m - 1)
      BY <3>1, <3>2
    <3> DEFINE h == [i \in 1..N |-> IF i = m THEN At_(g, m) ELSE g[i]]
    <3>4. ASSUME NEW i \in 1..m PROVE h[i] = At_(h, i)
      <4>1. i \in 1..N /\ (i # 1 => i - 1 \in 1..N /\ i - 1 # m) /\ (i # m => i \in 1..(m - 1))
        BY <1>1, <2>2, SMTT(30)
      <4>2. i # 1 => h[i - 1] = g[i - 1]
        BY <4>1
      <4>3. At_(h, i) = At_(g, i)
        BY <4>2
      <4>4. h[i] = At_(g, i)
        BY <3>3, <4>1
      <4>5. QED
        BY <4>3, <4>4
    <3>5. Upto(h, m)
      BY <3>4
    <3> HIDE DEF h, Upto
    <3>6. QED
      BY <2>1, <3>5
  <2>5. QED
    BY <2>3, <2>4
<1>3. PICK g : Upto(g, N)
  <2>1. N \notin T
    <3> HIDE DEF T
    <3>1. QED
      BY <1>2
  <2>2. N \in 1..N
    BY <1>1
  <2> HIDE DEF Upto
  <2>3. QED
    BY <2>1, <2>2
<1>4. g = [i \in 1..N |-> At_(g, i)]
  BY <1>3
<1> DEFINE f == CHOOSE f : f = [i \in 1..N |-> IF i = 1 THEN s[i] ELSE f[i - 1] \o s[i]]
<1>5. f = [i \in 1..N |-> IF i = 1 THEN s[i] ELSE f[i - 1] \o s[i]]
  BY <1>4
<1>6. FlattenSeq(s) = f[N]
  BY <1>1 DEF FlattenSeq
<1> HIDE DEF f
<1>7. QED
  BY <1>5, <1>6

\* Nothing is lost: as many bytes come out as sequences go in.
LEMMA Flattened ==
  ASSUME NEW s \in Seq(Seq(Int))
  PROVE  /\ FlattenSeq(s) \in Seq(Int)
         /\ (\A i \in 1..Len(s) : s[i] # <<>>) => Len(FlattenSeq(s)) >= Len(s)
<1>1. CASE s = <<>>
  BY <1>1 DEF FlattenSeq
<1>2. CASE s # <<>>
  <2> DEFINE N == Len(s)
  <2>1. PICK f : /\ f = [i \in 1..N |-> IF i = 1 THEN s[i] ELSE f[i - 1] \o s[i]]
                 /\ FlattenSeq(s) = f[N]
    BY <1>2, FlattenDefined
  <2> DEFINE Good(i) == f[i] \in Seq(Int) /\ ((\A j \in 1..N : s[j] # <<>>) => Len(f[i]) >= i)
             T == {i \in 1..N : ~Good(i)}
  <2>2. N \in Nat \ {0} /\ \A i \in 1..N : s[i] \in Seq(Int) /\ (s[i] # <<>> => Len(s[i]) >= 1)
    BY <1>2
  <2>3. T = {}
    <3> SUFFICES ASSUME T # {} PROVE FALSE
      OBVIOUS
    <3>1. PICK m \in T : \A n \in T : m <= n
      <4>1. T \subseteq Nat
        BY <2>2
      <4> HIDE DEF T
      <4>2. QED
        BY <4>1, LeastNat
    <3>2. m \in 1..N /\ m \in Nat /\ m # 0 /\ ~Good(m)
      BY <2>2, <3>1
    <3>3. CASE m = 1
      <4>1. f[1] = s[1]
        BY <2>1, <2>2
      <4>2. Good(1)
        BY <2>2, <4>1
      <4>3. QED
        BY <3>2, <3>3, <4>2
    <3>4. CASE m # 1
      <4>1. m - 1 \in 1..N /\ ~(m <= m - 1)
        BY <2>2, <3>2, <3>4
      <4>2. m - 1 \notin T
        <5> HIDE DEF T
        <5>1. QED
          BY <3>1, <4>1
      <4>3. Good(m - 1)
        <5> HIDE DEF Good
        <5>1. QED
          BY <4>1, <4>2
      <4>4. f[m] = f[m - 1] \o s[m]
        BY <2>1, <3>2, <3>4
      <4>5. f[m] \in Seq(Int) /\ Len(f[m]) = Len(f[m - 1]) + Len(s[m]) /\ Len(f[m - 1]) \in Nat
        BY <2>2, <3>2, <4>3, <4>4
      <4>6. ASSUME \A j \in 1..N : s[j] # <<>> PROVE Len(f[m]) >= m
        <5>1. Len(f[m - 1]) >= m - 1
          BY <4>3, <4>6
        <5>2. Len(s[m]) >= 1 /\ Len(s[m]) \in Nat
          BY <2>2, <3>2, <4>6
        <5>3. m \in Nat
          BY <3>2
        <5>4. Len(f[m]) = Len(f[m - 1]) + Len(s[m]) /\ Len(f[m - 1]) \in Nat
          BY <4>5
        <5>5. \A a, b \in Nat : a >= m - 1 /\ b >= 1 => a + b >= m
          BY <5>3
        <5> HIDE DEF Good, T
        <5>6. Len(f[m - 1]) + Len(s[m]) >= m
          BY <5>1, <5>2, <5>4, <5>5
        <5>7. QED
          BY <5>4, <5>6
      <4>7. Good(m)
        BY <4>5, <4>6
      <4> HIDE DEF Good
      <4>8. QED
        BY <3>2, <4>7
    <3>5. QED
      BY <3>3, <3>4
  <2>4. Good(N)
    <3>1. N \notin T
      <4> HIDE DEF T
      <4>1. QED
        BY <2>3
    <3>2. N \in 1..N
      BY <2>2
    <3> HIDE DEF Good
    <3>3. QED
      BY <3>1, <3>2
  <2>5. QED
    BY <2>1, <2>4
<1>3. QED
  BY <1>1, <1>2

\* What is written at once is bytes again.
LEMMA Outputs ==
  ASSUME NEW items \in Seq(Seq(Int)), NEW n \in 0..Len(items)
  PROVE  Output(items, n) \in Seq(Int)
<1>1. SubSeq(items, 1, n) \in Seq(Seq(Int))
  OBVIOUS
<1>2. QED
  BY <1>1, Flattened DEF Output

\* A chunk of a line takes at least one item, and none that is not there.
LEMMA ChunkInItems ==
  ASSUME NEW items \in Seq(Seq(Int)), items # <<>>, \A i \in 1..Len(items) : items[i] # <<>>
  PROVE  ChunkLen(items) \in 1..Len(items)
<1> DEFINE S == { n \in DOMAIN items : Len(Output(items, n)) >= Min2(Len(items), OutputSize - 1) }
<1>1. DOMAIN items = 1..Len(items) /\ Len(items) \in Nat \ {0}
  OBVIOUS
<1>2. Len(items) \in S
  <2>1. SubSeq(items, 1, Len(items)) = items
    OBVIOUS
  <2>2. Len(FlattenSeq(items)) >= Len(items) /\ FlattenSeq(items) \in Seq(Int)
    BY Flattened
  <2>3. Output(items, Len(items)) = FlattenSeq(items)
    BY <2>1 DEF Output
  <2>4. Len(FlattenSeq(items)) \in Nat
    BY <2>2
  <2>5. Len(Output(items, Len(items))) >= Min2(Len(items), OutputSize - 1)
    BY <1>1, <2>2, <2>3, <2>4, BufferAssumption DEF Min2
  <2>6. QED
    BY <1>1, <2>5
<1>3. S \subseteq 1..Len(items) /\ S \subseteq Nat
  BY <1>1
<1> HIDE DEF S
<1>4. \E x \in S : \A y \in S : x <= y
  BY <1>2, <1>3, LeastNat
<1>5. Min(S) \in S
  BY <1>4 DEF Min
<1>6. QED
  BY <1>3, <1>5 DEF ChunkLen, S

-----------------------------------------------------------------------------
(***************************************************************************)
(* A ring.                                                                 *)
(***************************************************************************)
Rings == [0 .. BufferSize - 1 -> Int]

\* The remainder of a number that is not further from the ring than once or twice around.
LEMMA Around ==
  /\ \A a \in 0 .. BufferSize - 1 : a % BufferSize = a
  /\ \A a \in BufferSize .. 2 * BufferSize - 1 : a % BufferSize = a - BufferSize
  /\ \A a \in (-BufferSize) .. (-1) : a % BufferSize = a + BufferSize
  /\ \A a \in (-2 * BufferSize) .. (-BufferSize - 1) : a % BufferSize = a + 2 * BufferSize
  /\ \A a \in Int : a % BufferSize \in 0 .. BufferSize - 1
  /\ \A a \in 0 .. 2 * BufferSize - 1 : \/ a % BufferSize = a
                                        \/ a % BufferSize = a - BufferSize /\ a >= BufferSize
<1>0. BufferSize \in Nat \ {0}
  BY BufferAssumption
<1>1. ASSUME NEW a \in 0 .. BufferSize - 1 PROVE a % BufferSize = a
  BY <1>0
<1>2. ASSUME NEW a \in BufferSize .. 2 * BufferSize - 1 PROVE a % BufferSize = a - BufferSize
  BY <1>0
<1>3. ASSUME NEW a \in (-BufferSize) .. (-1) PROVE a % BufferSize = a + BufferSize
  BY <1>0
<1>4. ASSUME NEW a \in (-2 * BufferSize) .. (-BufferSize - 1)
      PROVE  a % BufferSize = a + 2 * BufferSize
  BY <1>0
<1>5. ASSUME NEW a \in Int PROVE a % BufferSize \in 0 .. BufferSize - 1
  BY <1>0
<1>6. ASSUME NEW a \in 0 .. 2 * BufferSize - 1
      PROVE  a % BufferSize = a \/ (a % BufferSize = a - BufferSize /\ a >= BufferSize)
  <2>1. CASE a \in 0 .. BufferSize - 1
    BY <1>1, <2>1
  <2>2. CASE a \in BufferSize .. 2 * BufferSize - 1
    BY <1>0, <1>2, <2>2
  <2>3. QED
    BY <1>0, <2>1, <2>2
<1>7. QED
  BY <1>1, <1>2, <1>3, <1>4, <1>5, <1>6

\* What a ring holds is a sequence of bytes as long as its level.
LEMMA RingType ==
  ASSUME NEW ring \in Rings, NEW from \in 0 .. BufferSize - 1, NEW count \in 0..BufferSize
  PROVE  /\ Ring(ring, from, count) \in Seq(Int) /\ Len(Ring(ring, from, count)) = count
         /\ \A k \in 1..count : Ring(ring, from, count)[k] = ring[(from + k - 1) % BufferSize]
<1>0. BufferSize \in Nat \ {0} /\ count \in Nat
  BY BufferAssumption
<1>1. \A k \in 1..count : (from + k - 1) % BufferSize \in 0 .. BufferSize - 1
  BY <1>0, Around
<1>2. \A k \in 1..count : ring[(from + k - 1) % BufferSize] \in Int
  BY <1>1 DEF Rings
<1>3. QED
  BY <1>0, <1>2 DEF Ring

\* Bytes written behind those that are there.
LEMMA RingFilled ==
  ASSUME NEW ring \in Rings, NEW from \in 0 .. BufferSize - 1, NEW level_ \in 0..BufferSize,
         NEW bytes \in Seq(Int), level_ + Len(bytes) <= BufferSize
  PROVE  /\ Filled(ring, from + level_, bytes) \in Rings
         /\ Ring(Filled(ring, from + level_, bytes), from, level_ + Len(bytes))
              = Ring(ring, from, level_) \o bytes
<1> DEFINE B == BufferSize
           end == from + level_
           new == Filled(ring, end, bytes)
           n == level_ + Len(bytes)
<1>0. /\ B \in Nat \ {0} /\ Len(bytes) \in Nat /\ level_ \in Nat /\ n \in 0..B /\ from \in Nat
      /\ end \in 0 .. 2 * B - 1
  BY BufferAssumption
<1>1. \A p \in 0 .. B - 1 :
        new[p] = IF 1 + ((p - end) % B) <= Len(bytes) THEN bytes[1 + ((p - end) % B)] ELSE ring[p]
  BY DEF Filled, Rings
<1>2. new \in Rings
  <2>1. ASSUME NEW p \in 0 .. B - 1 PROVE new[p] \in Int
    <3>1. p - end \in Int
      BY <1>0
    <3>2. (p - end) % B \in 0 .. B - 1
      BY <3>1, Around
    <3>3. 1 + ((p - end) % B) <= Len(bytes) => 1 + ((p - end) % B) \in 1..Len(bytes)
      BY <1>0, <3>2
    <3>4. QED
      BY <1>1, <3>3, SMTT(30) DEF Rings
  <2>2. new = [p \in 0 .. B - 1 |-> new[p]]
    BY DEF Filled, Rings
  <2> HIDE DEF new
  <2>3. QED
    BY <2>1, <2>2 DEF Rings
<1> HIDE DEF new
<1>3. /\ Ring(new, from, n) \in Seq(Int) /\ Len(Ring(new, from, n)) = n
      /\ \A k \in 1..n : Ring(new, from, n)[k] = new[(from + k - 1) % B]
  BY <1>0, <1>2, RingType
<1>4. /\ Ring(ring, from, level_) \in Seq(Int) /\ Len(Ring(ring, from, level_)) = level_
      /\ \A k \in 1..level_ : Ring(ring, from, level_)[k] = ring[(from + k - 1) % B]
  BY RingType
<1>5. ASSUME NEW k \in 1..n
      PROVE  new[(from + k - 1) % B] = IF k <= level_ THEN ring[(from + k - 1) % B] ELSE bytes[k - level_]
  <2> DEFINE p == (from + k - 1) % B
  <2>1. from + k - 1 \in 0 .. 2 * B - 1 /\ k \in Nat /\ k # 0 /\ k <= B
    BY <1>0
  <2>2. p \in 0 .. B - 1 /\ (p = from + k - 1 \/ p = from + k - 1 - B)
    <3> DEFINE x == from + k - 1
    <3>1. x \in 0 .. 2 * B - 1 /\ x \in Int
      BY <1>0, <2>1
    <3> HIDE DEF x
    <3>2. x % B \in 0 .. B - 1 /\ (x % B = x \/ x % B = x - B)
      BY <3>1, Around
    <3>3. x - B = from + k - 1 - B
      BY <1>0, <2>1 DEF x
    <3>4. QED
      BY <3>2, <3>3 DEF x
  <2> HIDE DEF p
  <2>3. p - end = k - 1 - level_ \/ p - end = k - 1 - level_ - B
    BY <1>0, <2>1, <2>2
  <2>4. CASE k <= level_
    <3>1. (p - end) % B = k - 1 - level_ + B
      <4>1. k - 1 - level_ \in (-B) .. (-1) /\ k - 1 - level_ - B \in (-2 * B) .. (-B - 1)
        BY <1>0, <2>1, <2>4
      <4>2. (k - 1 - level_) % B = k - 1 - level_ + B
        BY <4>1, Around
      <4>3. (k - 1 - level_ - B) % B = k - 1 - level_ - B + 2 * B
        BY <4>1, Around
      <4>4. k - 1 - level_ - B + 2 * B = k - 1 - level_ + B
        BY <1>0, <2>1
      <4>5. QED
        BY <2>3, <4>2, <4>3, <4>4
    <3>2. ~(1 + ((p - end) % B) <= Len(bytes))
      BY <1>0, <2>1, <3>1
    <3>3. QED
      BY <1>1, <2>2, <2>4, <3>2 DEF p
  <2>5. CASE ~(k <= level_)
    <3>1. (p - end) % B = k - 1 - level_
      <4>1. k - 1 - level_ \in 0 .. B - 1 /\ k - 1 - level_ - B \in (-B) .. (-1)
        BY <1>0, <2>1, <2>5
      <4>2. (k - 1 - level_) % B = k - 1 - level_
        BY <4>1, Around
      <4>3. (k - 1 - level_ - B) % B = k - 1 - level_ - B + B
        BY <4>1, Around
      <4>4. k - 1 - level_ - B + B = k - 1 - level_
        BY <1>0, <2>1
      <4>5. QED
        BY <2>3, <4>2, <4>3, <4>4
    <3>2. 1 + ((p - end) % B) = k - level_ /\ k - level_ <= Len(bytes)
      BY <1>0, <2>1, <3>1
    <3>3. QED
      BY <1>1, <2>2, <2>5, <3>2 DEF p
  <2>6. QED
    BY <2>4, <2>5
<1> DEFINE s == Ring(ring, from, level_)
<1>6. /\ s \o bytes \in Seq(Int) /\ Len(s \o bytes) = n
      /\ \A k \in 1..n : (s \o bytes)[k] = IF k <= level_ THEN s[k] ELSE bytes[k - level_]
  <2> HIDE DEF s
  <2>1. s \in Seq(Int) /\ Len(s) = level_
    BY <1>4 DEF s
  <2>2. QED
    BY <2>1, ConcatProperties
<1>7. ASSUME NEW k \in 1..n PROVE Ring(new, from, n)[k] = (s \o bytes)[k]
  <2>1. Ring(new, from, n)[k] =
          IF k <= level_ THEN ring[(from + k - 1) % B] ELSE bytes[k - level_]
    BY <1>3, <1>5
  <2>2. k <= level_ => s[k] = ring[(from + k - 1) % B]
    <3>1. k <= level_ => k \in 1..level_
      BY <1>0
    <3>2. QED
      BY <1>4, <3>1
  <2> HIDE DEF s
  <2>3. QED
    BY <1>6, <2>1, <2>2
<1>8. Ring(new, from, n) = s \o bytes
  <2> HIDE DEF s
  <2>1. QED
    BY <1>3, <1>6, <1>7, SeqEqual
<1>9. QED
  BY <1>2, <1>8 DEF new

\* The bytes taken out of the front.
LEMMA RingSplit ==
  ASSUME NEW ring \in Rings, NEW from \in 0 .. BufferSize - 1, NEW count \in 0..BufferSize,
         NEW n \in 0..count
  PROVE  /\ (from + n) % BufferSize \in 0 .. BufferSize - 1
         /\ Ring(ring, from, count) = Ring(ring, from, n) \o Ring(ring, (from + n) % BufferSize, count - n)
<1> DEFINE B == BufferSize
           then == (from + n) % B
<1>0. B \in Nat \ {0} /\ count \in Nat /\ n \in Nat /\ n \in 0..B /\ count - n \in 0..B /\ from \in Nat
  BY BufferAssumption
<1>1. then \in 0 .. B - 1 /\ (then = from + n \/ then = from + n - B)
  <2> DEFINE x == from + n
  <2>1. x \in 0 .. 2 * B - 1 /\ x \in Int
    BY <1>0
  <2> HIDE DEF x
  <2>2. x % B \in 0 .. B - 1 /\ (x % B = x \/ x % B = x - B)
    BY <2>1, Around
  <2>3. x - B = from + n - B
    BY <1>0 DEF x
  <2>4. QED
    BY <2>2, <2>3 DEF x
<1> HIDE DEF then
<1>2. /\ Ring(ring, from, count) \in Seq(Int) /\ Len(Ring(ring, from, count)) = count
      /\ \A k \in 1..count : Ring(ring, from, count)[k] = ring[(from + k - 1) % B]
  BY RingType
<1>3. /\ Ring(ring, from, n) \in Seq(Int) /\ Len(Ring(ring, from, n)) = n
      /\ \A k \in 1..n : Ring(ring, from, n)[k] = ring[(from + k - 1) % B]
  BY <1>0, RingType
<1>4. /\ Ring(ring, then, count - n) \in Seq(Int) /\ Len(Ring(ring, then, count - n)) = count - n
      /\ \A k \in 1..(count - n) : Ring(ring, then, count - n)[k] = ring[(then + k - 1) % B]
  BY <1>0, <1>1, RingType
<1>5. ASSUME NEW k \in 1..(count - n) PROVE (then + k - 1) % B = (from + (n + k) - 1) % B
  <2>1. k \in Nat /\ then \in Nat /\ from + (n + k) - 1 \in Nat
    BY <1>0, <1>1
  <2>2. then + k - 1 = from + (n + k) - 1 \/ then + k - 1 = from + (n + k) - 1 - B
    BY <1>0, <1>1, <2>1
  <2>3. CASE then + k - 1 = from + (n + k) - 1
    BY <2>3
  <2>4. CASE then + k - 1 = from + (n + k) - 1 - B
    <3> DEFINE x == from + (n + k) - 1
    <3>1. x \in B .. 2 * B - 1 /\ x - B \in 0 .. B - 1
      <4>1. x <= 2 * B - 1 /\ x >= B
        BY <1>0, <1>1, <2>1, <2>4
      <4>2. QED
        BY <1>0, <2>1, <4>1
    <3> HIDE DEF x
    <3>2. x % B = x - B /\ (x - B) % B = x - B
      BY <3>1, Around
    <3>3. then + k - 1 = x - B
      BY <1>0, <1>1, <2>1, <2>4 DEF x
    <3>4. (then + k - 1) % B = x % B
      BY <3>2, <3>3
    <3>5. QED
      BY <3>4 DEF x
  <2>5. QED
    BY <2>2, <2>3, <2>4
<1> DEFINE s == Ring(ring, from, n)
           t == Ring(ring, then, count - n)
<1>6. /\ s \in Seq(Int) /\ Len(s) = n /\ t \in Seq(Int) /\ Len(t) = count - n
      /\ \A k \in 1..n : s[k] = ring[(from + k - 1) % B]
      /\ \A k \in 1..(count - n) : t[k] = ring[(then + k - 1) % B]
  BY <1>3, <1>4
<1> HIDE DEF s, t
<1>7. /\ s \o t \in Seq(Int) /\ Len(s \o t) = count
      /\ \A k \in 1..count : (s \o t)[k] = IF k <= n THEN s[k] ELSE t[k - n]
  <2>1. /\ s \o t \in Seq(Int) /\ Len(s \o t) = Len(s) + Len(t)
        /\ \A k \in 1 .. Len(s) + Len(t) : (s \o t)[k] = IF k <= Len(s) THEN s[k] ELSE t[k - Len(s)]
    BY <1>6, ConcatProperties
  <2>2. Len(s) + Len(t) = count /\ Len(s) = n
    BY <1>0, <1>6
  <2>3. QED
    BY <2>1, <2>2
<1>8. ASSUME NEW k \in 1..count PROVE ring[(from + k - 1) % B] = (s \o t)[k]
  <2>1. CASE k <= n
    <3>1. k \in 1..n
      BY <1>0, <2>1
    <3>2. QED
      BY <1>6, <1>7, <2>1, <3>1
  <2>2. CASE ~(k <= n)
    <3>1. k - n \in 1..(count - n) /\ n + (k - n) = k
      BY <1>0, <2>2
    <3>2. t[k - n] = ring[(then + (k - n) - 1) % B]
      BY <1>6, <3>1
    <3>3. (then + (k - n) - 1) % B = (from + (n + (k - n)) - 1) % B
      BY <1>5, <3>1
    <3>4. QED
      BY <1>7, <2>2, <3>1, <3>2, <3>3
  <2>3. QED
    BY <2>1, <2>2
<1>9. Ring(ring, from, count) = s \o t
  BY <1>2, <1>7, <1>8, SeqEqual
<1>10. QED
  BY <1>1, <1>9 DEF s, t, then

-----------------------------------------------------------------------------
(***************************************************************************)
(* The invariant.                                                          *)
(***************************************************************************)
BufferFields ==
  {"status", "rx_buffer", "rx_start", "rx_level", "rx_nl_count", "tx_buffer", "tx_start", "tx_level",
   "echo_enable", "echo_inject_lf", "echo_char"}

Typed ==
  /\ TypeOK /\ DOMAIN buffer = BufferFields
  /\ Len(uart.shift) <= 1
  /\ received \in Nat /\ written \in Nat

Places == {"Idle", "DisableRead", "DisableWrite", "Section", "Lower", "Store", "EnableRead",
           "EnableWrite", "NextChunk"}
Reads  == {"read_raw", "read_line"}
Writes == {"write_raw", "write_line"}

Progs ==
  [at : Places, call : {"none", "level_rx", "level_tx"} \cup Reads \cup Writes, size : Nat,
   bytes : Seq(Int), ier : SUBSET Enables, place : Nat, left : Seq(Int)]

\* Where the program and the handler are, and what they have in their variables.
ProgOK ==
  /\ prog \in Progs
  /\ prog.at = "Lower" => prog.call \in Reads /\ prog.place <= buffer.rx_level
  /\ prog.at = "Store" => /\ prog.call \in Writes
                          /\ prog.place = Behind /\ Len(prog.bytes) <= Room
  /\ prog.at = "NextChunk" => prog.call = "write_line"
  /\ prog.call = "none" <=> prog.at = "Idle"

IsrOK ==
  /\ isr \in [at : {"None", "RxLevel", "RxCopy", "Echo", "TxLevel", "TxCopy", "Line"},
              copy_size : Nat, echo : Seq(Seq(Int))]
  /\ isr.at = "RxCopy" => isr.copy_size <= Len(uart.rx)
  /\ isr.at \in {"RxCopy", "Echo"} => isr.copy_size <= BufferSize - buffer.rx_level
  /\ isr.at = "TxLevel" => Len(uart.tx) <= TxTrigger
  /\ isr.at = "TxCopy" => isr.copy_size <= buffer.tx_level
  /\ isr.at # "Echo" => isr.echo = <<>>

\* The handler does not come, for the same direction, into the section of a call.
Exclusive ==
  /\ prog.call \in Reads \cup {"level_rx"} /\ prog.at \in {"Section", "Lower", "EnableRead", "EnableWrite"} =>
       "ERBFI" \notin uart.ier /\ isr.at \notin {"RxLevel", "RxCopy", "Echo"}
  /\ EchoModes = {} =>
       (prog.call \in Writes \cup {"level_tx"} /\ prog.at \in {"Section", "Store", "EnableRead", "EnableWrite"} =>
          "ETBEI" \notin uart.ier /\ isr.at \notin {"TxLevel", "TxCopy"})

\* Who writes to the TX buffer.
Writers ==
  /\ buffer.echo_enable \/ isr.echo # <<>> => EchoModes # {}
  /\ prog.call \in Writes => MaxWritten # 0

RxIntact == Ring(buffer.rx_buffer, buffer.rx_start, Waiting) \o uart.rx = unread
TxIntact == uart.shift \o uart.tx \o TxRing = unsent

\* What a call has read from the enable register is not less than what is in it.
Armed ==
  EchoModes = {} =>
    /\ InterruptsArmed
    /\ prog.at \in {"DisableWrite", "EnableWrite"} => uart.ier \subseteq prog.ier
    /\ prog.at = "NextChunk" /\ buffer.tx_level > 0 => "ETBEI" \in uart.ier

IInv == Typed /\ ProgOK /\ IsrOK /\ Exclusive /\ Writers /\ RxIntact /\ TxIntact /\ Armed

\* Nobody but the program, or nobody but the echo, writes to the TX buffer.
OneWriter == EchoModes = {} \/ MaxWritten = 0

(***************************************************************************)
(* The program.                                                            *)
(***************************************************************************)
LEMMA TypedSame ==
  ASSUME Typed, uart' = uart, buffer' = buffer, received' \in Nat, written' \in Nat
  PROVE  Typed'
<1>1. UartTypeOK'
  <2>1. UartTypeOK
    BY DEF Typed, TypeOK
  <2>2. QED
    BY <2>1, Zenon DEF UartTypeOK
<1>2. TypeOK'
  <2>1. TypeOK
    BY DEF Typed
  <2>2. QED
    BY <1>1, <2>1 DEF TypeOK
<1>3. QED
  BY <1>2, Zenon DEF Typed

\* What stays when only the program moves, outside of the step between its two assignments.
LEMMA ProgMoves ==
  ASSUME IInv, UNCHANGED <<uart, buffer, isr, received, unread, unsent>>, written' \in Nat,
         prog.at # "Lower", prog'.at # "Lower"
  PROVE  Typed' /\ IsrOK' /\ RxIntact' /\ TxIntact'
<1>0. uart' = uart /\ buffer' = buffer /\ isr' = isr /\ received' = received /\ unread' = unread
      /\ unsent' = unsent
  OBVIOUS
<1>1. Typed'
  BY <1>0, TypedSame DEF IInv, Typed
<1>2. IsrOK'
  BY DEF IInv, IsrOK
<1>3. RxIntact'
  BY DEF IInv, RxIntact, Waiting
<1>4. TxIntact'
  BY DEF IInv, TxIntact, TxRing
<1>5. QED
  BY <1>1, <1>2, <1>3, <1>4

\* A call begins.
LEMMA BeginStep ==
  ASSUME IInv, NEW call \in {"level_rx", "level_tx"} \cup Reads \cup Writes, NEW size \in Nat,
         NEW bytes \in Seq(Int), Begin(call, size, bytes), prog.at = "Idle", isr.at = "None",
         UNCHANGED <<uart, buffer, isr, received, unread, unsent>>, written' \in Nat,
         call \in Writes => MaxWritten # 0
  PROVE  IInv'
<1>1. /\ prog' \in Progs
      /\ prog'.at = "DisableRead" /\ prog'.call = call
  <2>1. prog' = [at |-> "DisableRead", call |-> call, size |-> size, bytes |-> bytes, ier |-> {},
                 place |-> 0, left |-> <<>>]
    BY DEF Begin, Idle
  <2>2. <<>> \in Seq(Int) /\ {} \in SUBSET Enables /\ 0 \in Nat /\ "DisableRead" \in Places
    BY DEF Places
  <2>3. QED
    BY <2>1, <2>2 DEF Progs
<1>2. Typed' /\ IsrOK' /\ RxIntact' /\ TxIntact'
  BY <1>1, ProgMoves
<1>3. ProgOK'
  BY <1>1 DEF ProgOK, Reads, Writes
<1>4. Exclusive'
  BY <1>1 DEF Exclusive
<1>5. Writers'
  BY <1>1 DEF IInv, Writers
<1>6. Armed'
  <2>1. prog.call = "none"
    BY DEF IInv, ProgOK
  <2>2. QED
    BY <1>1, <2>1 DEF IInv, Armed, InterruptsArmed, RxArmed, TxArmed, Waiting
<1>7. QED
  BY <1>2, <1>3, <1>4, <1>5, <1>6 DEF IInv

\* What is in the state.
LEMMA StateTypes ==
  ASSUME IInv
  PROVE  /\ DOMAIN buffer = BufferFields
         /\ buffer.rx_buffer \in Rings /\ buffer.tx_buffer \in Rings
         /\ BufferSize \in Nat /\ BufferSize # 0
         /\ buffer.rx_start \in 0 .. BufferSize - 1 /\ buffer.rx_level \in 0..BufferSize
         /\ buffer.tx_start \in 0 .. BufferSize - 1 /\ buffer.tx_level \in 0..BufferSize
         /\ DOMAIN uart = {"rx", "tx", "shift", "ier", "overrun"}
         /\ uart.rx \in Seq(Nat) /\ uart.rx \in Seq(Int)
         /\ uart.tx \in Seq(Int) /\ uart.shift \in Seq(Int) /\ Len(uart.shift) <= 1
         /\ uart.ier \subseteq Enables /\ uart.overrun \in BOOLEAN
         /\ buffer.status \in {"SUCCESS", "UART_OE"}
         /\ buffer.rx_nl_count \in Nat /\ buffer.rx_nl_count < 65536
         /\ received \in Nat /\ written \in Nat
<1>1. TypeOK /\ DOMAIN buffer = BufferFields /\ Len(uart.shift) <= 1 /\ received \in Nat /\ written \in Nat
  BY DEF IInv, Typed
<1>2. /\ DOMAIN uart = {"rx", "tx", "shift", "ier", "overrun"}
      /\ uart.rx \in Seq(Nat)
      /\ uart.tx \in Seq(Int) /\ uart.shift \in Seq(Int)
      /\ uart.ier \subseteq Enables /\ uart.overrun \in BOOLEAN
  BY <1>1 DEF TypeOK, UartTypeOK
<1>3. uart.rx \in Seq(Int)
  BY <1>2
<1>4. /\ buffer.rx_buffer \in Rings /\ buffer.tx_buffer \in Rings
      /\ buffer.rx_start \in 0 .. BufferSize - 1 /\ buffer.rx_level \in 0..BufferSize
      /\ buffer.tx_start \in 0 .. BufferSize - 1 /\ buffer.tx_level \in 0..BufferSize
      /\ buffer.status \in {"SUCCESS", "UART_OE"}
      /\ buffer.rx_nl_count \in Nat /\ buffer.rx_nl_count < 65536
  BY <1>1 DEF TypeOK, Rings
<1>5. QED
  BY <1>1, <1>2, <1>3, <1>4, BufferAssumption

\* What is in the state that follows.
LEMMA TypedFrom ==
  ASSUME DOMAIN buffer' = BufferFields,
         buffer'.status \in {"SUCCESS", "UART_OE"},
         buffer'.rx_buffer \in Rings, buffer'.tx_buffer \in Rings,
         buffer'.rx_start \in 0 .. BufferSize - 1, buffer'.rx_level \in 0..BufferSize,
         buffer'.tx_start \in 0 .. BufferSize - 1, buffer'.tx_level \in 0..BufferSize,
         buffer'.rx_nl_count \in Nat, buffer'.rx_nl_count < 65536,
         DOMAIN uart' = {"rx", "tx", "shift", "ier", "overrun"},
         uart'.rx \in Seq(Nat), uart'.tx \in Seq(Int), uart'.shift \in Seq(Int), Len(uart'.shift) <= 1,
         uart'.ier \subseteq Enables, uart'.overrun \in BOOLEAN,
         received' \in Nat, written' \in Nat
  PROVE  Typed'
<1>1. UartTypeOK'
  BY DEF UartTypeOK
<1>2. TypeOK'
  BY <1>1, SMTT(60) DEF TypeOK, Rings
<1>3. QED
  BY <1>2 DEF Typed

\* What the program writes is a sequence of bytes.
LEMMA NewBytesType ==
  ASSUME written \in Nat, NEW size \in Nat
  PROVE  NewBytes(size) \in Seq(Int)
<1>1. \A k \in 1..size : -written - k \in Int
  OBVIOUS
<1>2. QED
  BY <1>1 DEF NewBytes

\* alt_16550_buffer_write_line gets its first bytes.
LEMMA write_lineStep ==
  ASSUME IInv, NEW size \in Sizes, write_line(size)
  PROVE  IInv'
<1>1. /\ written \in Nat /\ size \in Nat /\ size # 0 /\ MaxWritten \in Nat /\ written + size <= MaxWritten
  BY BufferAssumption, StateTypes DEF write_line
<1>2. /\ prog' \in Progs
      /\ prog'.at = "NextChunk" /\ prog'.call = "write_line" /\ written' \in Nat
      /\ prog.at = "Idle" /\ isr.at = "None"
  <2>1. prog' = [at |-> "NextChunk", call |-> "write_line", size |-> size, bytes |-> <<>>, ier |-> {},
                 place |-> 0, left |-> NewBytes(size)]
    BY DEF write_line, Idle
  <2>2. <<>> \in Seq(Int) /\ {} \in SUBSET Enables /\ 0 \in Nat /\ "NextChunk" \in Places
        /\ NewBytes(size) \in Seq(Int)
    BY <1>1, NewBytesType DEF Places
  <2>3. "write_line" \in {"none", "level_rx", "level_tx"} \cup Reads \cup Writes
    BY DEF Writes
  <2>4. prog.at = "Idle" /\ isr.at = "None" /\ written' \in Nat
    BY <1>1 DEF write_line
  <2>5. QED
    BY <1>1, <2>1, <2>2, <2>3, <2>4 DEF Progs
<1>3. UNCHANGED <<uart, buffer, isr, received, unread, unsent>>
  BY DEF write_line
<1>4. Typed' /\ IsrOK' /\ RxIntact' /\ TxIntact'
  BY <1>2, <1>3, ProgMoves
<1>5. ProgOK'
  BY <1>2 DEF ProgOK, Reads, Writes
<1>6. Exclusive'
  BY <1>2 DEF Exclusive
<1>7. Writers'
  BY <1>1, <1>2, <1>3 DEF IInv, Writers
<1>8. Armed'
  <2>1. prog.call = "none"
    BY <1>2 DEF IInv, ProgOK
  <2>2. QED
    BY <1>2, <1>3, <2>1 DEF IInv, Armed, InterruptsArmed, RxArmed, TxArmed, Waiting
<1>9. QED
  BY <1>4, <1>5, <1>6, <1>7, <1>8 DEF IInv

\* The settings of the echo are nobody else's business.
LEMMA EchoSet ==
  ASSUME IInv, UNCHANGED <<uart, prog, isr, received, written, unread, unsent>>,
         DOMAIN buffer' = BufferFields,
         \A f \in BufferFields \ {"echo_enable", "echo_inject_lf", "echo_char"} : buffer'[f] = buffer[f],
         buffer'.echo_enable => EchoModes # {}
  PROVE  IInv'
<1>1. /\ buffer'.status = buffer.status
      /\ buffer'.rx_buffer = buffer.rx_buffer /\ buffer'.tx_buffer = buffer.tx_buffer
      /\ buffer'.rx_start = buffer.rx_start /\ buffer'.rx_level = buffer.rx_level
      /\ buffer'.tx_start = buffer.tx_start /\ buffer'.tx_level = buffer.tx_level
      /\ buffer'.rx_nl_count = buffer.rx_nl_count
  BY DEF BufferFields
<1>2. Typed'
  BY <1>1, SMTT(60) DEF IInv, Typed, TypeOK, UartTypeOK
<1>3. ProgOK' /\ IsrOK'
  BY <1>1 DEF IInv, ProgOK, IsrOK, Behind, Room
<1>4. Exclusive' /\ Writers'
  BY <1>1 DEF IInv, Exclusive, Writers
<1>5. RxIntact' /\ TxIntact'
  BY <1>1 DEF IInv, RxIntact, TxIntact, Waiting, TxRing
<1>6. Armed'
  BY <1>1 DEF IInv, Armed, InterruptsArmed, RxArmed, TxArmed, Waiting
<1>7. QED
  BY <1>2, <1>3, <1>4, <1>5, <1>6 DEF IInv

\* The calls.
LEMMA CallStep ==
  ASSUME IInv, Call
  PROVE  IInv'
<1>1. ASSUME NEW size \in Sizes, read_raw(size) \/ read_line(size) PROVE IInv'
  <2>1. PICK call \in Reads : Begin(call, size, <<>>)
    BY <1>1 DEF read_raw, read_line, Reads
  <2>2. /\ prog.at = "Idle" /\ isr.at = "None" /\ UNCHANGED <<uart, buffer, isr, history>>
    BY <1>1 DEF read_raw, read_line
  <2>3. size \in Nat /\ <<>> \in Seq(Int) /\ call \notin Writes /\ written' \in Nat
    BY <2>2, BufferAssumption, StateTypes DEF Reads, Writes, history
  <2>4. QED
    BY <2>1, <2>2, <2>3, BeginStep DEF history
<1>2. ASSUME NEW size \in Sizes, write_raw(size) PROVE IInv'
  <2>1. /\ Begin("write_raw", size, NewBytes(size)) /\ prog.at = "Idle" /\ isr.at = "None"
        /\ UNCHANGED <<uart, buffer, isr, received, unread, unsent>>
        /\ written' = written + size /\ written + size <= MaxWritten
    BY <1>2 DEF write_raw
  <2>2. size \in Nat /\ size # 0 /\ written \in Nat /\ MaxWritten \in Nat
    BY BufferAssumption, StateTypes
  <2>3. NewBytes(size) \in Seq(Int) /\ written' \in Nat /\ MaxWritten # 0
    BY <2>1, <2>2, NewBytesType
  <2>4. "write_raw" \in {"level_rx", "level_tx"} \cup Reads \cup Writes
    BY DEF Writes
  <2>5. QED
    BY <2>1, <2>2, <2>3, <2>4, BeginStep
<1>3. ASSUME NEW call \in {"level_rx", "level_tx"}, level(call) PROVE IInv'
  <2>1. Begin(call, 0, <<>>) /\ prog.at = "Idle" /\ isr.at = "None" /\ UNCHANGED <<uart, buffer, isr, history>>
    BY <1>3 DEF level
  <2>2. 0 \in Nat /\ <<>> \in Seq(Int) /\ call \notin Writes /\ written' \in Nat
    BY <2>1, StateTypes DEF Writes, history
  <2>3. QED
    BY <2>1, <2>2, BeginStep DEF history
<1>4. ASSUME NEW mode \in EchoModes, echo_enable(mode[1], mode[2]) PROVE IInv'
  <2>1. /\ prog.at = "Idle" /\ isr.at = "None"
        /\ buffer' = [buffer EXCEPT !.echo_enable = TRUE, !.echo_inject_lf = mode[1], !.echo_char = mode[2]]
        /\ UNCHANGED <<uart, prog, isr, received, written, unread, unsent>>
    BY <1>4 DEF echo_enable, history
  <2>2. /\ DOMAIN buffer' = BufferFields
        /\ \A f \in BufferFields \ {"echo_enable", "echo_inject_lf", "echo_char"} : buffer'[f] = buffer[f]
    <3>1. DOMAIN buffer = BufferFields
      BY StateTypes
    <3>2. QED
      BY <2>1, <3>1 DEF BufferFields
  <2>3. QED
    BY <2>1, <2>2, EchoSet
<1>5. ASSUME echo_disable PROVE IInv'
  <2>1. /\ prog.at = "Idle" /\ isr.at = "None"
        /\ buffer' = [buffer EXCEPT !.echo_enable = FALSE]
        /\ UNCHANGED <<uart, prog, isr, received, written, unread, unsent>>
    BY <1>5 DEF echo_disable, history
  <2>2. /\ DOMAIN buffer' = BufferFields /\ buffer'.echo_enable = FALSE
        /\ \A f \in BufferFields \ {"echo_enable", "echo_inject_lf", "echo_char"} : buffer'[f] = buffer[f]
    <3>1. DOMAIN buffer = BufferFields
      BY StateTypes
    <3>2. QED
      BY <2>1, <3>1 DEF BufferFields
  <2>3. QED
    BY <2>1, <2>2, EchoSet
<1>6. QED
  BY <1>1, <1>2, <1>3, <1>4, <1>5, write_lineStep DEF Call

-----------------------------------------------------------------------------
\* The program goes on and leaves all else alone.
LEMMA ProgStep ==
  ASSUME IInv, UNCHANGED <<uart, buffer, isr, history>>, prog.at # "Lower",
         prog' \in Progs, prog'.at \notin {"Lower", "Store"},
         prog'.at = "NextChunk" => prog'.call = "write_line",
         prog'.call \in {prog.call, "none"}, prog'.call = "none" <=> prog'.at = "Idle",
         prog'.at \in {"Section", "EnableRead", "EnableWrite"} =>
           prog.at \in {"Section", "EnableRead", "EnableWrite"},
         Armed'
  PROVE  IInv'
<1>1. Typed' /\ IsrOK' /\ RxIntact' /\ TxIntact'
  <2>1. written' \in Nat
    BY StateTypes DEF history
  <2>2. QED
    BY <2>1, ProgMoves DEF history
<1>2. ProgOK'
  BY DEF ProgOK
<1>3. Exclusive'
  BY DEF IInv, Exclusive, Reads, Writes
<1>4. Writers'
  BY DEF IInv, Writers, Writes
<1>5. QED
  BY <1>1, <1>2, <1>3, <1>4 DEF IInv

\* A program between two calls.
LEMMA IdleProg ==
  Idle \in Progs /\ Idle.at = "Idle" /\ Idle.call = "none"
<1>1. <<>> \in Seq(Int) /\ {} \in SUBSET Enables /\ 0 \in Nat
  OBVIOUS
<1>2. QED
  BY <1>1 DEF Idle, Progs, Places

\* A call reads the enable register: what it has read is not less than what is in it.
LEMMA ReadIerStep ==
  ASSUME IInv, ReadIer("DisableRead", "DisableWrite") \/ ReadIer("EnableRead", "EnableWrite")
  PROVE  IInv'
<1>1. /\ UNCHANGED <<uart, buffer, isr, history>>
      /\ \/ prog.at = "DisableRead" /\ prog' = [prog EXCEPT !.at = "DisableWrite", !.ier = uart.ier]
         \/ prog.at = "EnableRead" /\ prog' = [prog EXCEPT !.at = "EnableWrite", !.ier = uart.ier]
  BY DEF ReadIer
<1>2. prog \in Progs /\ prog.call # "none" /\ uart.ier \subseteq Enables
  BY <1>1, StateTypes DEF IInv, ProgOK
<1>3. /\ prog' \in Progs /\ prog'.call = prog.call /\ prog'.ier = uart.ier
      /\ \/ prog.at = "DisableRead" /\ prog'.at = "DisableWrite"
         \/ prog.at = "EnableRead" /\ prog'.at = "EnableWrite"
  BY <1>1, <1>2 DEF Progs, Places
<1>4. Armed'
  BY <1>1, <1>3 DEF IInv, Armed, InterruptsArmed, RxArmed, TxArmed, Waiting
<1>5. QED
  BY <1>1, <1>2, <1>3, <1>4, ProgStep

\* What write_line makes of the bytes of a line: one or two bytes of each.
LEMMA LineItemsType ==
  ASSUME NEW bytes \in Seq(Int)
  PROVE  /\ LineItems(bytes) \in Seq(Seq(Int)) /\ Len(LineItems(bytes)) = Len(bytes)
         /\ \A k \in 1..Len(bytes) : LineItems(bytes)[k] # <<>>
<1>1. \A k \in 1..Len(bytes) : bytes[k] \in Int
  OBVIOUS
<1>2. DOMAIN bytes = 1..Len(bytes) /\ Len(bytes) \in Nat
  OBVIOUS
<1>3. \A x \in Int : <<x>> \in Seq(Int) /\ <<Injected, x>> \in Seq(Int) /\ <<x>> # <<>> /\ <<Injected, x>> # <<>>
  BY DEF Injected
<1>4. QED
  BY <1>1, <1>2, <1>3 DEF LineItems

\* write_line puts the next chunk together.
LEMMA NextChunkStep ==
  ASSUME IInv, NextChunk
  PROVE  IInv'
<1> DEFINE n == ChunkLen(LineItems(prog.left))
           output == Output(LineItems(prog.left), n)
<1>1. /\ prog.at = "NextChunk" /\ prog.left # <<>>
      /\ prog' = IF buffer.status # "SUCCESS" THEN Idle
                 ELSE [prog EXCEPT !.left = Rest(@, n), !.bytes = output,
                                   !.at = IF buffer.tx_level = BufferSize THEN "NextChunk"
                                                                          ELSE "DisableRead"]
      /\ UNCHANGED <<uart, buffer, isr, history>>
  BY DEF NextChunk
<1>2. prog \in Progs /\ prog.call = "write_line" /\ prog.left \in Seq(Int)
  BY <1>1 DEF IInv, ProgOK, Progs
<1>3. n \in 1..Len(prog.left) /\ output \in Seq(Int)
  <2>1. /\ LineItems(prog.left) \in Seq(Seq(Int)) /\ Len(LineItems(prog.left)) = Len(prog.left)
        /\ \A k \in 1..Len(prog.left) : LineItems(prog.left)[k] # <<>>
    BY <1>2, LineItemsType
  <2>2. Len(prog.left) # 0 /\ LineItems(prog.left) # <<>>
    BY <1>1, <1>2, <2>1
  <2>3. n \in 1..Len(prog.left)
    BY <2>1, <2>2, ChunkInItems
  <2> HIDE DEF n
  <2>4. n \in 0..Len(LineItems(prog.left))
    BY <2>1, <2>3
  <2>5. output \in Seq(Int)
    BY <2>1, <2>4, Outputs
  <2>6. QED
    BY <2>3, <2>5
<1> HIDE DEF n, output
<1>4. Rest(prog.left, n) \in Seq(Int)
  BY <1>2, <1>3 DEF Rest
<1>5. /\ prog' \in Progs
      /\ \/ prog'.at = "Idle" /\ prog'.call = "none"
         \/ prog'.at \in {"NextChunk", "DisableRead"} /\ prog'.call = "write_line"
  <2>1. CASE buffer.status # "SUCCESS"
    BY <1>1, <2>1, IdleProg
  <2>2. CASE buffer.status = "SUCCESS"
    BY <1>1, <1>2, <1>3, <1>4, <2>2 DEF Progs, Places
  <2>3. QED
    BY <2>1, <2>2
<1>6. Armed'
  BY <1>1, <1>2, <1>5 DEF IInv, Armed, InterruptsArmed, RxArmed, TxArmed, Waiting
<1>7. QED
  BY <1>1, <1>2, <1>5, <1>6, ProgStep

\* write_line has come to the end of the line.
LEMMA LineWrittenStep ==
  ASSUME IInv, LineWritten
  PROVE  IInv'
<1>1. prog.at = "NextChunk" /\ prog' = Idle /\ UNCHANGED <<uart, buffer, isr, history>>
  BY DEF LineWritten
<1>2. prog.call = "write_line"
  BY <1>1 DEF IInv, ProgOK
<1>3. prog' \in Progs /\ prog'.at = "Idle" /\ prog'.call = "none"
  BY <1>1, IdleProg
<1>4. Armed'
  BY <1>1, <1>2, <1>3 DEF IInv, Armed, InterruptsArmed, RxArmed, TxArmed, Waiting
<1>5. QED
  BY <1>1, <1>3, <1>4, ProgStep

\* A call that leaves its interrupt disabled: the buffer is full, or empty.
LEMMA LineNotFoundStep ==
  ASSUME IInv, LineNotFound
  PROVE  IInv'
<1>1. /\ prog.at = "Section" /\ prog.call = "read_line" /\ isr.at = "None"
      /\ prog' = IF buffer.rx_level < BufferSize THEN [prog EXCEPT !.at = "EnableRead"] ELSE Idle
      /\ UNCHANGED <<uart, buffer, isr, history>>
  BY DEF LineNotFound
<1>2. prog \in Progs /\ buffer.rx_level \in 0..BufferSize /\ BufferSize \in Nat
  BY StateTypes DEF IInv, ProgOK
<1>3. /\ prog' \in Progs
      /\ \/ prog'.at = "Idle" /\ prog'.call = "none" /\ ~(buffer.rx_level < BufferSize)
         \/ prog'.at = "EnableRead" /\ prog'.call = "read_line"
  <2>1. CASE buffer.rx_level < BufferSize
    BY <1>1, <1>2, <2>1 DEF Progs, Places
  <2>2. CASE ~(buffer.rx_level < BufferSize)
    BY <1>1, <2>2, IdleProg
  <2>3. QED
    BY <2>1, <2>2
<1>4. Armed'
  <2>1. CASE prog'.at = "EnableRead" /\ prog'.call = "read_line"
    BY <1>1, <2>1 DEF IInv, Armed, InterruptsArmed, RxArmed, TxArmed, Waiting
  <2>2. CASE prog'.at = "Idle" /\ prog'.call = "none" /\ ~(buffer.rx_level < BufferSize)
    <3>1. ~(Waiting < BufferSize)'
      BY <1>1, <1>2, <2>2 DEF Waiting
    <3>2. QED
      BY <1>1, <2>2, <3>1 DEF IInv, Armed, InterruptsArmed, RxArmed, TxArmed
  <2>3. QED
    BY <1>3, <2>1, <2>2
<1>5. QED
  BY <1>1, <1>3, <1>4, ProgStep

\* The two calls that only ask for a level.
LEMMA LevelSectionStep ==
  ASSUME IInv, LevelSection
  PROVE  IInv'
<1>1. /\ prog.at = "Section" /\ isr.at = "None" /\ UNCHANGED <<uart, buffer, isr, history>>
      /\ \/ /\ prog.call = "level_rx"
            /\ prog' = IF buffer.rx_level < BufferSize THEN [prog EXCEPT !.at = "EnableRead"] ELSE Idle
         \/ /\ prog.call = "level_tx"
            /\ prog' = IF buffer.tx_level > 0 THEN [prog EXCEPT !.at = "EnableRead"] ELSE Idle
  BY DEF LevelSection
<1>2. /\ prog \in Progs /\ buffer.rx_level \in 0..BufferSize /\ BufferSize \in Nat
  BY StateTypes DEF IInv, ProgOK
<1>3. /\ prog' \in Progs
      /\ \/ prog'.at = "Idle" /\ prog'.call = "none" /\ prog.call = "level_rx" /\ ~(buffer.rx_level < BufferSize)
         \/ prog'.at = "Idle" /\ prog'.call = "none" /\ prog.call = "level_tx" /\ ~(buffer.tx_level > 0)
         \/ prog'.at = "EnableRead" /\ prog'.call = prog.call /\ prog.call # "none"
  <2>1. [prog EXCEPT !.at = "EnableRead"] \in Progs /\ [prog EXCEPT !.at = "EnableRead"].at = "EnableRead"
        /\ [prog EXCEPT !.at = "EnableRead"].call = prog.call
    BY <1>2 DEF Progs, Places
  <2>2. CASE prog.call = "level_rx"
    BY <1>1, <2>1, <2>2, IdleProg
  <2>3. CASE prog.call = "level_tx"
    BY <1>1, <2>1, <2>3, IdleProg
  <2>4. QED
    BY <1>1, <2>2, <2>3
<1>4. Armed'
  <2>1. CASE prog'.at = "EnableRead" /\ prog'.call = prog.call
    BY <1>1, <2>1 DEF IInv, Armed, InterruptsArmed, RxArmed, TxArmed, Waiting
  <2>2. CASE prog'.at = "Idle" /\ prog.call = "level_rx" /\ ~(buffer.rx_level < BufferSize)
    <3>1. ~(Waiting < BufferSize)'
      BY <1>1, <1>2, <2>2 DEF Waiting
    <3>2. QED
      BY <1>1, <2>2, <3>1 DEF IInv, Armed, InterruptsArmed, RxArmed, TxArmed
  <2>3. CASE prog'.at = "Idle" /\ prog.call = "level_tx" /\ ~(buffer.tx_level > 0)
    BY <1>1, <2>3 DEF IInv, Armed, InterruptsArmed, RxArmed, TxArmed, Waiting
  <2>4. QED
    BY <1>3, <2>1, <2>2, <2>3
<1>5. QED
  BY <1>1, <1>3, <1>4, ProgStep

\* A write of the enable register.
LEMMA IerMoves ==
  ASSUME IInv, NEW ier \in SUBSET Enables, uart' = [uart EXCEPT !.ier = ier],
         UNCHANGED <<buffer, isr, history>>
  PROVE  /\ uart'.ier = ier /\ uart'.rx = uart.rx /\ uart'.tx = uart.tx /\ uart'.shift = uart.shift
         /\ Typed' /\ IsrOK' /\ TxIntact'
<1>1. /\ DOMAIN uart' = {"rx", "tx", "shift", "ier", "overrun"}
      /\ uart'.ier = ier /\ uart'.rx = uart.rx /\ uart'.tx = uart.tx /\ uart'.shift = uart.shift
      /\ uart'.overrun = uart.overrun
  BY StateTypes
<1>2. buffer' = buffer /\ isr' = isr /\ received' = received /\ written' = written /\ unsent' = unsent
  BY DEF history
<1>3. Typed'
  BY <1>1, <1>2, StateTypes, TypedFrom
<1>4. IsrOK'
  BY <1>1, <1>2 DEF IInv, IsrOK
<1>5. TxIntact'
  BY <1>1, <1>2 DEF IInv, TxIntact, TxRing
<1>6. QED
  BY <1>1, <1>3, <1>4, <1>5

\* A call writes the enable register without its interrupt.
LEMMA DisableWriteStep ==
  ASSUME IInv, DisableWrite
  PROVE  IInv'
<1>1. /\ prog.at = "DisableWrite" /\ isr.at = "None" /\ uart' = [uart EXCEPT !.ier = prog.ier \ Flag]
      /\ prog' = [prog EXCEPT !.at = "Section", !.ier = {}]
      /\ UNCHANGED <<buffer, isr, history>>
  BY DEF DisableWrite, ier_mask_clr_helper
<1>2. prog \in Progs /\ prog.call # "none" /\ prog.ier \subseteq Enables
  BY <1>1 DEF IInv, ProgOK, Progs
<1>3. prog' \in Progs /\ prog'.at = "Section" /\ prog'.call = prog.call
  BY <1>1, <1>2 DEF Progs, Places
<1>4. /\ uart'.ier = prog.ier \ Flag /\ uart'.rx = uart.rx /\ uart'.tx = uart.tx
      /\ Typed' /\ IsrOK' /\ TxIntact'
  BY <1>1, <1>2, IerMoves
<1>5. RxIntact'
  BY <1>1, <1>3, <1>4 DEF IInv, RxIntact, Waiting, history
<1>6. ProgOK'
  BY <1>2, <1>3 DEF ProgOK
<1>7. Exclusive'
  BY <1>1, <1>3, <1>4 DEF Exclusive, Flag, Reads, Writes
<1>8. Writers'
  BY <1>1, <1>3 DEF IInv, Writers
<1>9. Armed'
  <2>1. \/ Flag = {"ERBFI"} /\ prog.call \in {"read_raw", "read_line", "level_rx"}
        \/ Flag = {"ETBEI"} /\ prog.call \in {"write_raw", "write_line", "level_tx"}
    <3>1. prog.call \in {"level_rx", "level_tx", "read_raw", "read_line", "write_raw", "write_line"}
      BY <1>2 DEF Progs, Reads, Writes
    <3>2. QED
      BY <3>1 DEF Flag
  <2>2. QED
    BY <1>1, <1>3, <1>4, <2>1 DEF IInv, Armed, InterruptsArmed, RxArmed, TxArmed, Waiting
<1>10. QED
  BY <1>4, <1>5, <1>6, <1>7, <1>8, <1>9 DEF IInv

\* A call writes the enable register with its interrupt, which the handler may have changed.
LEMMA EnableWriteStep ==
  ASSUME IInv, EnableWrite
  PROVE  IInv'
<1>1. /\ prog.at = "EnableWrite" /\ isr.at = "None" /\ uart' = [uart EXCEPT !.ier = prog.ier \cup Flag]
      /\ prog' = Returned
      /\ UNCHANGED <<buffer, isr, history>>
  BY DEF EnableWrite, ier_mask_set_helper
<1>2. prog \in Progs /\ prog.call # "none" /\ prog.ier \cup Flag \subseteq Enables
  BY <1>1 DEF IInv, ProgOK, Progs, Flag, Enables
<1>3. /\ prog' \in Progs
      /\ \/ prog'.at = "NextChunk" /\ prog'.call = "write_line" /\ prog.call = "write_line"
         \/ prog'.at = "Idle" /\ prog'.call = "none"
  <2>1. CASE prog.call = "write_line"
    BY <1>1, <1>2, <2>1 DEF Returned, Progs, Places
  <2>2. CASE prog.call # "write_line"
    BY <1>1, <2>2, IdleProg DEF Returned
  <2>3. QED
    BY <2>1, <2>2
<1>4. /\ uart'.ier = prog.ier \cup Flag /\ uart'.rx = uart.rx /\ uart'.tx = uart.tx
      /\ Typed' /\ IsrOK' /\ TxIntact'
  BY <1>1, <1>2, IerMoves
<1>5. RxIntact'
  BY <1>1, <1>3, <1>4 DEF IInv, RxIntact, Waiting, history
<1>6. ProgOK'
  BY <1>2, <1>3 DEF ProgOK
<1>7. Exclusive'
  BY <1>3 DEF Exclusive
<1>8. Writers'
  BY <1>1, <1>3 DEF IInv, Writers, Writes
<1>9. Armed'
  <2>1. \/ Flag = {"ERBFI"} /\ prog.call \in {"read_raw", "read_line", "level_rx"}
        \/ Flag = {"ETBEI"} /\ prog.call \in {"write_raw", "write_line", "level_tx"}
    <3>1. prog.call \in {"level_rx", "level_tx", "read_raw", "read_line", "write_raw", "write_line"}
      BY <1>2 DEF Progs, Reads, Writes
    <3>2. QED
      BY <3>1 DEF Flag
  <2>2. QED
    BY <1>1, <1>3, <1>4, <2>1 DEF IInv, Armed, InterruptsArmed, RxArmed, TxArmed, Waiting
<1>10. QED
  BY <1>4, <1>5, <1>6, <1>7, <1>8, <1>9 DEF IInv

-----------------------------------------------------------------------------
\* Three sequences after each other.
LEMMA ConcatThree ==
  ASSUME NEW s \in Seq(Int), NEW t \in Seq(Int), NEW u \in Seq(Int)
  PROVE  (s \o t) \o u = s \o (t \o u) /\ s \o t \in Seq(Int) /\ t \o u \in Seq(Int)
<1>1. (s \o t) \o u = s \o (t \o u)
  BY ConcatAssociative, SMTT(30)
<1>2. QED
  BY <1>1, ConcatProperties

\* Taking bytes out from the front.
LEMMA RestOfConcat ==
  ASSUME NEW s \in Seq(Int), NEW t \in Seq(Int)
  PROVE  Rest(s \o t, Len(s)) = t
<1> DEFINE u == s \o t
           r == Rest(u, Len(s))
<1>1. /\ u \in Seq(Int) /\ Len(u) = Len(s) + Len(t)
      /\ \A i \in 1 .. Len(s) + Len(t) : u[i] = IF i <= Len(s) THEN s[i] ELSE t[i - Len(s)]
  BY ConcatProperties
<1> HIDE DEF u
<1>2. Len(s) \in Nat /\ Len(t) \in Nat
  OBVIOUS
<1>3. \A i \in (Len(s) + 1) .. Len(u) : u[i] \in Int
  BY <1>1, <1>2
<1>4. /\ r \in Seq(Int)
      /\ Len(r) = IF Len(s) + 1 <= Len(u) THEN Len(u) - (Len(s) + 1) + 1 ELSE 0
      /\ \A i \in 1 .. Len(u) - (Len(s) + 1) + 1 : r[i] = u[(Len(s) + 1) + i - 1]
  <2>1. Len(s) + 1 \in Int /\ Len(u) \in Int
    BY <1>1, <1>2
  <2>2. QED
    BY <1>3, <2>1, SubSeqProperties DEF Rest
<1> HIDE DEF r
<1>5. Len(r) = Len(t)
  BY <1>1, <1>2, <1>4
<1>6. ASSUME NEW i \in 1..Len(t) PROVE r[i] = t[i]
  <2>1. i \in 1 .. Len(u) - (Len(s) + 1) + 1 /\ (Len(s) + 1) + i - 1 = Len(s) + i
    BY <1>1, <1>2
  <2>2. Len(s) + i \in 1 .. Len(s) + Len(t) /\ ~(Len(s) + i <= Len(s)) /\ (Len(s) + i) - Len(s) = i
    BY <1>2
  <2>3. QED
    BY <1>1, <1>4, <2>1, <2>2
<1>7. r = t
  BY <1>4, <1>5, <1>6, SeqEqual
<1>8. QED
  BY <1>7 DEF r, u

\* The program takes bytes out of the RX buffer ...
LEMMA TakeOutStep ==
  ASSUME IInv, NEW count \in 0 .. buffer.rx_level, NEW lines \in Int, TakeOut(count, lines),
         prog.at = "Section", prog.call \in Reads, isr.at = "None"
  PROVE  IInv'
<1> DEFINE ends == (buffer.rx_nl_count - lines) % 65536
<1>1. /\ buffer' = [buffer EXCEPT !.rx_start = (@ + count) % BufferSize, !.rx_nl_count = ends]
      /\ unread' = Rest(unread, count)
      /\ prog' = [prog EXCEPT !.at = "Lower", !.place = count]
      /\ UNCHANGED <<uart, isr, received, written, unsent>>
  BY DEF TakeOut
<1>0. ends \in Nat /\ ends < 65536
  <2>1. buffer.rx_nl_count - lines \in Int
    BY StateTypes
  <2>2. QED
    BY <2>1
<1> HIDE DEF ends
<1>2. /\ DOMAIN buffer' = BufferFields
      /\ buffer'.rx_start = (buffer.rx_start + count) % BufferSize
      /\ buffer'.rx_nl_count = ends
      /\ buffer'.rx_buffer = buffer.rx_buffer /\ buffer'.rx_level = buffer.rx_level
      /\ buffer'.tx_buffer = buffer.tx_buffer /\ buffer'.tx_start = buffer.tx_start
      /\ buffer'.tx_level = buffer.tx_level /\ buffer'.status = buffer.status
      /\ buffer'.echo_enable = buffer.echo_enable
  <2>1. DOMAIN buffer = BufferFields
    BY StateTypes
  <2>2. QED
    BY <1>1, <2>1 DEF BufferFields
<1>3. prog \in Progs /\ count \in Nat /\ buffer.rx_level \in 0..BufferSize /\ count \in 0..BufferSize
      /\ BufferSize \in Nat /\ buffer.rx_start \in 0 .. BufferSize - 1 /\ count <= buffer.rx_level
  <2>1. buffer.rx_level \in 0..BufferSize /\ BufferSize \in Nat /\ buffer.rx_start \in 0 .. BufferSize - 1
    BY StateTypes
  <2>2. QED
    BY <2>1 DEF IInv, ProgOK
<1>4. prog' \in Progs /\ prog'.at = "Lower" /\ prog'.place = count /\ prog'.call = prog.call
  BY <1>1, <1>3 DEF Progs, Places
<1>5. /\ (buffer.rx_start + count) % BufferSize \in 0 .. BufferSize - 1
      /\ Ring(buffer.rx_buffer, buffer.rx_start, buffer.rx_level)
           = Ring(buffer.rx_buffer, buffer.rx_start, count)
             \o Ring(buffer.rx_buffer, (buffer.rx_start + count) % BufferSize, buffer.rx_level - count)
  <2>1. buffer.rx_buffer \in Rings
    BY StateTypes
  <2>2. QED
    BY <1>3, <2>1, RingSplit
<1>7. Typed'
  BY <1>0, <1>1, <1>2, <1>5, StateTypes, TypedFrom
<1>8. ProgOK'
  BY <1>2, <1>3, <1>4 DEF ProgOK, Reads
<1>9. IsrOK'
  BY <1>1, <1>2 DEF IInv, IsrOK
<1>10. Exclusive' /\ Writers'
  BY <1>1, <1>2, <1>4 DEF IInv, Exclusive, Writers, Reads, Writes
<1>11. RxIntact'
  <2> DEFINE s == Ring(buffer.rx_buffer, buffer.rx_start, count)
             t == Ring(buffer.rx_buffer, (buffer.rx_start + count) % BufferSize, buffer.rx_level - count)
  <2>1. Waiting = buffer.rx_level /\ Waiting' = buffer.rx_level - count
    BY <1>1, <1>2, <1>3, <1>4 DEF Waiting
  <2>2. s \in Seq(Int) /\ Len(s) = count /\ t \in Seq(Int) /\ uart.rx \in Seq(Int)
    <3>1. buffer.rx_buffer \in Rings /\ uart.rx \in Seq(Int)
      BY StateTypes
    <3>2. buffer.rx_level - count \in 0..BufferSize
      BY <1>3
    <3>3. QED
      BY <1>3, <1>5, <3>1, <3>2, RingType
  <2>3. unread = (s \o t) \o uart.rx
    BY <1>5, <2>1 DEF IInv, RxIntact
  <2> HIDE DEF s, t
  <2>4. (s \o t) \o uart.rx = s \o (t \o uart.rx) /\ t \o uart.rx \in Seq(Int)
    BY <2>2, ConcatThree, ZenonT(60)
  <2>5. Rest(s \o (t \o uart.rx), count) = t \o uart.rx
    BY <2>2, <2>4, RestOfConcat
  <2>6. unread' = t \o uart.rx
    BY <1>1, <2>3, <2>4, <2>5
  <2>7. QED
    BY <1>1, <1>2, <2>1, <2>6 DEF RxIntact, t
<1>12. TxIntact'
  BY <1>1, <1>2 DEF IInv, TxIntact, TxRing
<1>13. Armed'
  BY <1>1, <1>2, <1>4 DEF IInv, Armed, InterruptsArmed, RxArmed, TxArmed, Reads
<1>14. QED
  BY <1>7, <1>8, <1>9, <1>10, <1>11, <1>12, <1>13 DEF IInv

\* The two reads, between disabling and enabling the receive interrupt.
LEMMA ReadSectionStep ==
  ASSUME IInv, ReadSection
  PROVE  IInv'
<1> DEFINE copy_size == Min2(prog.size, buffer.rx_level)
<1>1. /\ prog.at = "Section" /\ prog.call = "read_raw" /\ isr.at = "None"
      /\ \E lines \in 0..copy_size : TakeOut(copy_size, lines)
  BY DEF ReadSection
<1>2. prog.size \in Nat /\ buffer.rx_level \in Nat
  <2>1. buffer.rx_level \in 0..BufferSize /\ BufferSize \in Nat
    BY StateTypes
  <2>2. QED
    BY <2>1 DEF IInv, ProgOK, Progs
<1>3. copy_size \in 0 .. buffer.rx_level
  BY <1>2 DEF Min2
<1> HIDE DEF copy_size
<1>4. PICK lines \in 0..copy_size : TakeOut(copy_size, lines)
  BY <1>1
<1>5. QED
  BY <1>1, <1>3, <1>4, TakeOutStep DEF Reads

\* read_line has found a line in the RX buffer, or not.
LEMMA LineSectionStep ==
  ASSUME IInv, LineSection
  PROVE  IInv'
<1>1. PICK n \in 1..BufferSize : Found(n) /\ TakeOut(n, 1)
  BY DEF LineSection
<1>2. prog.at = "Section" /\ prog.call = "read_line" /\ isr.at = "None"
  BY DEF LineSection
<1>3. prog.size \in Nat /\ buffer.rx_level \in Nat
  <2>1. buffer.rx_level \in 0..BufferSize /\ BufferSize \in Nat
    BY StateTypes
  <2>2. QED
    BY <2>1 DEF IInv, ProgOK, Progs
<1>4. n \in 0 .. buffer.rx_level
  BY <1>1, <1>3 DEF Found, Seen, Min2
<1>5. QED
  BY <1>1, <1>2, <1>4, TakeOutStep DEF Reads

\* ... and discounts them.
LEMMA LowerLevelStep ==
  ASSUME IInv, LowerLevel
  PROVE  IInv'
<1>1. /\ prog.at = "Lower" /\ isr.at = "None"
      /\ buffer' = [buffer EXCEPT !.rx_level = @ - prog.place]
      /\ prog' = [prog EXCEPT !.at = "EnableRead", !.place = 0]
      /\ UNCHANGED <<uart, isr, received, written, unread, unsent>>
  BY DEF LowerLevel, history
<1>2. /\ DOMAIN buffer' = BufferFields /\ buffer'.rx_level = buffer.rx_level - prog.place
      /\ buffer'.rx_start = buffer.rx_start /\ buffer'.rx_nl_count = buffer.rx_nl_count
      /\ buffer'.rx_buffer = buffer.rx_buffer
      /\ buffer'.tx_buffer = buffer.tx_buffer /\ buffer'.tx_start = buffer.tx_start
      /\ buffer'.tx_level = buffer.tx_level /\ buffer'.status = buffer.status
      /\ buffer'.echo_enable = buffer.echo_enable
  <2>1. DOMAIN buffer = BufferFields
    BY StateTypes
  <2>2. QED
    BY <1>1, <2>1 DEF BufferFields
<1>3. prog \in Progs /\ prog.place \in 0 .. buffer.rx_level /\ prog.call \in Reads
  <2>1. buffer.rx_level \in 0..BufferSize /\ BufferSize \in Nat
    BY StateTypes
  <2>2. prog \in Progs /\ prog.place \in Nat /\ prog.place <= buffer.rx_level /\ prog.call \in Reads
    BY <1>1 DEF IInv, ProgOK, Progs
  <2>3. QED
    BY <2>1, <2>2
<1>4. buffer'.rx_level \in 0..BufferSize
  <2>1. buffer.rx_level \in 0..BufferSize /\ BufferSize \in Nat
    BY StateTypes
  <2>2. QED
    BY <1>2, <1>3, <2>1
<1>5. prog' \in Progs /\ prog'.at = "EnableRead" /\ prog'.call = prog.call
  BY <1>1, <1>3 DEF Progs, Places
<1>6. Typed'
  BY <1>1, <1>2, <1>4, StateTypes, TypedFrom
<1>7. ProgOK' /\ IsrOK'
  BY <1>1, <1>2, <1>3, <1>5 DEF IInv, ProgOK, IsrOK, Reads
<1>8. Exclusive' /\ Writers'
  BY <1>1, <1>2, <1>3, <1>5 DEF IInv, Exclusive, Writers, Reads, Writes
<1>9. Waiting' = Waiting
  <2>1. buffer.rx_level \in Int /\ prog.place \in Int
    <3>1. buffer.rx_level \in 0..BufferSize /\ BufferSize \in Nat
      BY StateTypes
    <3>2. QED
      BY <1>3, <3>1
  <2>2. QED
    BY <1>1, <1>2, <1>5, <2>1 DEF Waiting
<1>10. RxIntact' /\ TxIntact'
  BY <1>1, <1>2, <1>9 DEF IInv, RxIntact, TxIntact, TxRing
<1>11. Armed'
  BY <1>1, <1>2, <1>5, <1>9 DEF IInv, Armed, InterruptsArmed, RxArmed, TxArmed
<1>12. QED
  BY <1>6, <1>7, <1>8, <1>10, <1>11 DEF IInv

-----------------------------------------------------------------------------
\* What is copied from the caller's memory.
LEMMA FromCallerType ==
  ASSUME NEW bytes \in Seq(Int), NEW count \in Nat, NEW part1 \in Nat
  PROVE  FromCaller(bytes, count, part1) \in Seq(Int) /\ Len(FromCaller(bytes, count, part1)) = count
<1>1. Unknown \in Int
  BY BufferAssumption DEF Unknown
<1>2. ASSUME NEW k \in 1..count
      PROVE  (LET i == IF k <= part1 THEN k ELSE k + part1 IN
              IF i <= Len(bytes) THEN bytes[i] ELSE Unknown) \in Int
  <2> DEFINE i == IF k <= part1 THEN k ELSE k + part1
  <2>1. i \in Nat \ {0} /\ Len(bytes) \in Nat
    OBVIOUS
  <2> HIDE DEF i
  <2>2. i <= Len(bytes) => bytes[i] \in Int
    BY <2>1
  <2>3. QED
    BY <1>1, <2>2 DEF i
<1>3. QED
  BY <1>2 DEF FromCaller

\* What fits.
LEMMA RoomType ==
  ASSUME IInv
  PROVE  /\ Room \in 0..BufferSize /\ BufferSize \in Nat
         /\ \A n \in Nat : Min2(n, Room) \in Nat /\ Min2(n, Room) <= Room /\ Part1(Behind, Min2(n, Room)) \in Nat
<1>1. /\ BufferSize \in Nat /\ buffer.tx_level \in 0..BufferSize
      /\ buffer.tx_start \in 0 .. BufferSize - 1
  BY StateTypes
<1>2. Room \in 0..BufferSize /\ Behind \in Nat
  BY <1>1 DEF Room, Behind
<1>3. ASSUME NEW n \in Nat
      PROVE  Min2(n, Room) \in Nat /\ Min2(n, Room) <= Room
  BY <1>1, <1>2 DEF Min2
<1>4. ASSUME NEW n \in Nat PROVE Part1(Behind, n) \in Nat
  BY <1>1, <1>2 DEF Part1
<1>5. QED
  BY <1>1, <1>2, <1>3, <1>4

\* The two writes copy into the free part of the TX buffer.
LEMMA WriteSectionStep ==
  ASSUME IInv, WriteSection
  PROVE  IInv'
<1> DEFINE n == Min2(Len(prog.bytes), Room)
           stored == FromCaller(prog.bytes, n, Part1(Behind, n))
<1>1. /\ prog.at = "Section" /\ prog.call \in Writes /\ isr.at = "None"
      /\ prog' = [prog EXCEPT !.at = "Store", !.place = Behind, !.bytes = stored]
      /\ UNCHANGED <<uart, buffer, isr, received, written, unread, unsent>>
  BY DEF WriteSection, Writes, history
<1>2. prog \in Progs /\ prog.bytes \in Seq(Int) /\ Len(prog.bytes) \in Nat
  BY DEF IInv, ProgOK, Progs
<1>3. stored \in Seq(Int) /\ Len(stored) <= Room /\ Behind \in Nat
  <2>1. n \in Nat /\ n <= Room /\ Part1(Behind, n) \in Nat
    BY <1>2, RoomType
  <2>2. buffer.tx_level \in 0..BufferSize /\ buffer.tx_start \in 0 .. BufferSize - 1 /\ BufferSize \in Nat
    BY StateTypes
  <2>3. Behind \in Nat
    BY <2>2 DEF Behind
  <2> HIDE DEF n
  <2>4. stored \in Seq(Int) /\ Len(stored) = n
    BY <1>2, <2>1, FromCallerType
  <2>5. QED
    BY <2>1, <2>3, <2>4
<1> HIDE DEF n, stored
<1>4. /\ prog' \in Progs /\ prog'.at = "Store" /\ prog'.call = prog.call
      /\ prog'.place = Behind /\ prog'.bytes = stored
  BY <1>1, <1>2, <1>3 DEF Progs, Places
<1>5. Typed' /\ IsrOK' /\ RxIntact' /\ TxIntact'
  <2>1. written' \in Nat
    BY <1>1, StateTypes
  <2>2. QED
    BY <1>1, <1>4, <2>1, ProgMoves
<1>6. Behind' = Behind /\ Room' = Room
  BY <1>1 DEF Behind, Room
<1>7. ProgOK'
  BY <1>1, <1>3, <1>4, <1>6 DEF ProgOK, Writes
<1>8. Exclusive' /\ Writers'
  BY <1>1, <1>4 DEF IInv, Exclusive, Writers, Reads, Writes
<1>9. Armed'
  BY <1>1, <1>4 DEF IInv, Armed, InterruptsArmed, RxArmed, TxArmed, Waiting
<1>10. QED
  BY <1>5, <1>7, <1>8, <1>9 DEF IInv

\* What is written into the TX buffer is sent behind what is there.
LEMMA TxAppended ==
  ASSUME IInv, NEW bytes \in Seq(Int), Len(bytes) <= Room
  PROVE  LET ring == Filled(buffer.tx_buffer, Behind, bytes) IN
           /\ ring \in Rings
           /\ buffer.tx_level + Len(bytes) \in 0..BufferSize
           /\ uart.shift \o uart.tx \o Ring(ring, buffer.tx_start, buffer.tx_level + Len(bytes))
                = unsent \o bytes
<1> DEFINE ring == Filled(buffer.tx_buffer, Behind, bytes)
<1>1. /\ BufferSize \in Nat /\ buffer.tx_level \in 0..BufferSize
      /\ buffer.tx_start \in 0 .. BufferSize - 1 /\ buffer.tx_buffer \in Rings
      /\ uart.shift \in Seq(Int) /\ uart.tx \in Seq(Int)
  BY StateTypes
<1>2. Len(bytes) \in Nat
  OBVIOUS
<1>3. buffer.tx_level + Len(bytes) \in 0..BufferSize /\ buffer.tx_level + Len(bytes) <= BufferSize
  BY <1>1, <1>2 DEF Room
<1>4. /\ ring \in Rings
      /\ Ring(ring, buffer.tx_start, buffer.tx_level + Len(bytes)) = TxRing \o bytes
  BY <1>1, <1>3, RingFilled DEF Behind, TxRing
<1>5. TxRing \in Seq(Int)
  BY <1>1, RingType DEF TxRing
<1> DEFINE s == uart.shift \o uart.tx
<1>6. s \in Seq(Int)
  BY <1>1, ConcatProperties
<1> HIDE DEF s
<1>7. (s \o TxRing) \o bytes = s \o (TxRing \o bytes)
  BY <1>5, <1>6, ConcatThree
<1>8. unsent = s \o TxRing
  BY DEF IInv, TxIntact, s
<1>9. s \o Ring(ring, buffer.tx_start, buffer.tx_level + Len(bytes)) = unsent \o bytes
  BY <1>4, <1>7, <1>8
<1>10. QED
  BY <1>3, <1>4, <1>9 DEF s

\* A write makes what it has copied part of the ring.
LEMMA StoreStep ==
  ASSUME IInv, OneWriter, Store
  PROVE  IInv'
<1> DEFINE ring == Filled(buffer.tx_buffer, prog.place, prog.bytes)
<1>1. /\ prog.at = "Store" /\ isr.at = "None"
      /\ buffer' = [buffer EXCEPT !.tx_buffer = ring, !.tx_level = @ + Len(prog.bytes)]
      /\ unsent' = unsent \o prog.bytes
      /\ prog' = [prog EXCEPT !.at = "EnableRead", !.bytes = <<>>, !.place = 0]
      /\ UNCHANGED <<uart, isr, received, written, unread>>
  BY DEF Store
<1> HIDE DEF ring
<1>2. /\ DOMAIN buffer' = BufferFields /\ buffer'.rx_level = buffer.rx_level
      /\ buffer'.rx_start = buffer.rx_start /\ buffer'.rx_nl_count = buffer.rx_nl_count
      /\ buffer'.rx_buffer = buffer.rx_buffer
      /\ buffer'.tx_buffer = ring /\ buffer'.tx_start = buffer.tx_start
      /\ buffer'.tx_level = buffer.tx_level + Len(prog.bytes) /\ buffer'.status = buffer.status
      /\ buffer'.echo_enable = buffer.echo_enable
  <2>1. DOMAIN buffer = BufferFields
    BY StateTypes
  <2>2. QED
    BY <1>1, <2>1 DEF BufferFields
<1>3. /\ prog \in Progs /\ prog.call \in Writes /\ prog.bytes \in Seq(Int)
      /\ prog.place = Behind /\ Len(prog.bytes) <= Room
  BY <1>1 DEF IInv, ProgOK, Progs
<1>4. prog' \in Progs /\ prog'.at = "EnableRead" /\ prog'.call = prog.call
  <2>1. <<>> \in Seq(Int)
    OBVIOUS
  <2>2. QED
    BY <1>1, <1>3, <2>1 DEF Progs, Places
<1>5. /\ ring \in Rings
      /\ buffer.tx_level + Len(prog.bytes) \in 0..BufferSize
      /\ uart.shift \o uart.tx \o Ring(ring, buffer.tx_start, buffer.tx_level + Len(prog.bytes))
           = unsent \o prog.bytes
  BY <1>3, TxAppended DEF ring
<1>6. Typed'
  BY <1>1, <1>2, <1>5, StateTypes, TypedFrom
<1>7. ProgOK'
  BY <1>3, <1>4 DEF ProgOK, Writes
<1>8. IsrOK'
  BY <1>1, <1>2 DEF IInv, IsrOK
<1>9. Exclusive' /\ Writers'
  BY <1>1, <1>2, <1>3, <1>4 DEF IInv, Exclusive, Writers, Reads, Writes
<1>10. RxIntact'
  BY <1>1, <1>2, <1>4 DEF IInv, RxIntact, Waiting
<1>11. TxIntact'
  BY <1>1, <1>2, <1>5 DEF TxIntact, TxRing
<1>12. Armed'
  BY <1>1, <1>2, <1>3, <1>4 DEF IInv, Armed, InterruptsArmed, RxArmed, TxArmed, Waiting, Writes
<1>13. QED
  BY <1>6, <1>7, <1>8, <1>9, <1>10, <1>11, <1>12 DEF IInv

\* Every step of the program.
LEMMA ProgramStep ==
  ASSUME IInv, OneWriter, Program
  PROVE  IInv'
  BY NextChunkStep, LineWrittenStep, ReadIerStep, DisableWriteStep, ReadSectionStep, LineSectionStep,
     LowerLevelStep, LineNotFoundStep, LevelSectionStep, WriteSectionStep, StoreStep, EnableWriteStep
  DEF Program

-----------------------------------------------------------------------------
\* The handler comes in only for an interrupt that is enabled.
LEMMA EnterStep ==
  ASSUME IInv, NEW step \in {"RxLevel", "TxLevel", "Line"}, Enter(step),
         step = "RxLevel" => "ERBFI" \in uart.ier,
         step = "TxLevel" => "ETBEI" \in uart.ier /\ Len(uart.tx) <= TxTrigger
  PROVE  IInv'
<1>1. /\ isr.at = "None" /\ isr' = [isr EXCEPT !.at = step]
      /\ UNCHANGED <<uart, buffer, prog, received, written, unread, unsent>>
  BY DEF Enter, history
<1>2. isr' = [at |-> step, copy_size |-> isr.copy_size, echo |-> <<>>] /\ isr.copy_size \in Nat
  BY <1>1 DEF IInv, IsrOK
<1>3. Typed'
  BY <1>1, TypedSame DEF IInv, Typed
<1>4. ProgOK'
  BY <1>1 DEF IInv, ProgOK, Behind, Room
<1>5. IsrOK'
  <2>1. <<>> \in Seq(Seq(Int))
    OBVIOUS
  <2>2. isr' \in [at : {"None", "RxLevel", "RxCopy", "Echo", "TxLevel", "TxCopy", "Line"},
                 copy_size : Nat, echo : Seq(Seq(Int))]
    BY <1>2, <2>1
  <2>3. QED
    BY <1>1, <1>2, <2>2 DEF IsrOK
<1>6. Exclusive' /\ Writers'
  BY <1>1, <1>2 DEF IInv, Exclusive, Writers
<1>7. Waiting' = Waiting
  BY <1>1, <1>2 DEF Waiting
<1>8. RxIntact' /\ TxIntact'
  BY <1>1, <1>7 DEF IInv, RxIntact, TxIntact, TxRing
<1>9. Armed'
  BY <1>1, <1>7 DEF IInv, Armed, InterruptsArmed, RxArmed, TxArmed
<1>10. QED
  BY <1>3, <1>4, <1>5, <1>6, <1>8, <1>9 DEF IInv

\* The handler comes in, for whichever interrupt.
LEMMA CallbackStep ==
  ASSUME IInv, int_callback
  PROVE  IInv'
<1>1. CASE RxInt
  BY <1>1, EnterStep DEF RxInt, RX_DATA, RX_TIMEOUT, DataPending
<1>2. CASE TxInt
  BY <1>2, EnterStep DEF TxInt, TX_QUARTER
<1>3. CASE LineInt
  BY <1>3, EnterStep DEF LineInt
<1>4. QED
  BY <1>1, <1>2, <1>3 DEF int_callback

\* Only the handler's variables change, and it stays on the same side.
LEMMA HandlerMoves ==
  ASSUME IInv, UNCHANGED <<uart, buffer, prog, received, written, unread, unsent>>, IsrOK',
         isr'.at \in {"RxCopy", "Echo"} => isr.at \in {"RxLevel", "RxCopy", "Echo"},
         isr'.at = "TxCopy" => isr.at = "TxLevel",
         isr'.at \notin {"RxLevel", "TxLevel"},
         isr'.at = "Echo" <=> isr.at = "Echo",
         isr'.at = "Echo" => isr'.copy_size = isr.copy_size,
         isr'.echo # <<>> => isr.echo # <<>>
  PROVE  IInv'
<1>1. Typed'
  BY TypedSame DEF IInv, Typed
<1>2. ProgOK'
  BY DEF IInv, ProgOK, Behind, Room
<1>3. Exclusive' /\ Writers'
  BY DEF IInv, Exclusive, Writers
<1>4. Waiting' = Waiting
  BY DEF Waiting
<1>5. RxIntact' /\ TxIntact'
  BY <1>4 DEF IInv, RxIntact, TxIntact, TxRing
<1>6. Armed'
  BY <1>4 DEF IInv, Armed, InterruptsArmed, RxArmed, TxArmed
<1>7. QED
  BY <1>1, <1>2, <1>3, <1>5, <1>6 DEF IInv

\* The handler takes the number of bytes it will read from the UART.
LEMMA RxLevelStep ==
  ASSUME IInv, RxLevel
  PROVE  IInv'
<1> DEFINE n == Min2(Len(uart.rx), BufferSize - buffer.rx_level)
<1>1. /\ isr.at = "RxLevel" /\ isr' = [isr EXCEPT !.at = "RxCopy", !.copy_size = n]
      /\ UNCHANGED <<uart, buffer, prog, received, written, unread, unsent>>
  BY DEF RxLevel, fifo_level_get_rx, history
<1>2. n \in Nat /\ n <= Len(uart.rx) /\ n <= BufferSize - buffer.rx_level
  <2>1. Len(uart.rx) \in Nat /\ buffer.rx_level \in 0..BufferSize /\ BufferSize \in Nat
    BY StateTypes
  <2>2. QED
    BY <2>1 DEF Min2
<1> HIDE DEF n
<1>3. isr' = [at |-> "RxCopy", copy_size |-> n, echo |-> <<>>]
  BY <1>1 DEF IInv, IsrOK
<1>4. IsrOK'
  <2>1. <<>> \in Seq(Seq(Int))
    OBVIOUS
  <2>2. isr' \in [at : {"None", "RxLevel", "RxCopy", "Echo", "TxLevel", "TxCopy", "Line"},
                 copy_size : Nat, echo : Seq(Seq(Int))]
    BY <1>2, <1>3, <2>1
  <2>3. isr'.at = "RxCopy" /\ isr'.copy_size = n /\ isr'.echo = <<>>
    BY <1>3
  <2>6. uart' = uart /\ buffer' = buffer
    BY <1>1
  <2>4. QED
    BY <1>2, <2>2, <2>3, <2>6 DEF IsrOK
<1>5. QED
  BY <1>1, <1>3, <1>4, HandlerMoves

\* The handler takes the number of bytes it will hand to the UART.
LEMMA TxLevelStep ==
  ASSUME IInv, TxLevel
  PROVE  IInv'
<1> DEFINE n == Min2(FifoSize - Len(uart.tx), buffer.tx_level)
<1>1. /\ isr.at = "TxLevel" /\ isr' = [isr EXCEPT !.at = "TxCopy", !.copy_size = n]
      /\ UNCHANGED <<uart, buffer, prog, received, written, unread, unsent>>
  BY DEF TxLevel, fifo_level_get_tx, history
<1>2. n \in Nat /\ n <= buffer.tx_level
  <2>1. buffer.tx_level \in 0..BufferSize /\ BufferSize \in Nat /\ Len(uart.tx) \in Nat
    BY StateTypes
  <2>2. FifoSize \in Nat /\ FifoSize - Len(uart.tx) \in Nat
    <3>1. Len(uart.tx) <= TxTrigger /\ TxTrigger \in 0 .. FifoSize - 1 /\ FifoSize \in Nat
      BY <1>1, BufferAssumption, FifoAssumption DEF IInv, IsrOK
    <3>2. QED
      BY <2>1, <3>1
  <2>3. QED
    BY <2>1, <2>2 DEF Min2
<1> HIDE DEF n
<1>3. isr' = [at |-> "TxCopy", copy_size |-> n, echo |-> <<>>]
  BY <1>1 DEF IInv, IsrOK
<1>4. IsrOK'
  <2>1. <<>> \in Seq(Seq(Int))
    OBVIOUS
  <2>2. isr' \in [at : {"None", "RxLevel", "RxCopy", "Echo", "TxLevel", "TxCopy", "Line"},
                 copy_size : Nat, echo : Seq(Seq(Int))]
    BY <1>2, <1>3, <2>1
  <2>3. isr'.at = "TxCopy" /\ isr'.copy_size = n /\ isr'.echo = <<>>
    BY <1>3
  <2>6. uart' = uart /\ buffer' = buffer
    BY <1>1
  <2>4. QED
    BY <1>2, <2>2, <2>3, <2>6 DEF IsrOK
<1>5. QED
  BY <1>1, <1>3, <1>4, HandlerMoves

\* The handler goes on to the second part of what it has received.
LEMMA NextPartStep ==
  ASSUME IInv, NextPart
  PROVE  IInv'
<1>1. /\ isr.at = "Echo" /\ isr.echo # <<>> /\ isr' = [isr EXCEPT !.echo = Tail(isr.echo)]
      /\ UNCHANGED <<uart, buffer, prog, received, written, unread, unsent>>
  BY DEF NextPart, history
<1>2. isr.echo \in Seq(Seq(Int)) /\ isr.copy_size \in Nat
  BY DEF IInv, IsrOK
<1>3. Tail(isr.echo) \in Seq(Seq(Int))
  BY <1>1, <1>2
<1>4. isr' = [at |-> "Echo", copy_size |-> isr.copy_size, echo |-> Tail(isr.echo)]
  BY <1>1 DEF IInv, IsrOK
<1>5. IsrOK'
  BY <1>1, <1>2, <1>3, <1>4 DEF IInv, IsrOK
<1>6. QED
  BY <1>1, <1>4, <1>5, HandlerMoves

\* alt_16550_buffer_int_callback_line.
LEMMA LineStep ==
  ASSUME IInv, Line
  PROVE  IInv'
<1>1. /\ isr.at = "Line" /\ isr' = NoInt
      /\ uart' = [uart EXCEPT !.overrun = FALSE]
      /\ buffer' = [buffer EXCEPT !.status = "UART_OE"]
      /\ UNCHANGED <<prog, received, written, unread, unsent>>
  BY DEF Line, line_status_get, history
<1>2. /\ DOMAIN buffer' = BufferFields /\ buffer'.status = "UART_OE"
      /\ \A f \in BufferFields \ {"status"} : buffer'[f] = buffer[f]
  <2>1. DOMAIN buffer = BufferFields
    BY StateTypes
  <2>2. QED
    BY <1>1, <2>1 DEF BufferFields
<1>3. /\ buffer'.rx_buffer = buffer.rx_buffer /\ buffer'.tx_buffer = buffer.tx_buffer
      /\ buffer'.rx_start = buffer.rx_start /\ buffer'.rx_level = buffer.rx_level
      /\ buffer'.tx_start = buffer.tx_start /\ buffer'.tx_level = buffer.tx_level
      /\ buffer'.rx_nl_count = buffer.rx_nl_count /\ buffer'.echo_enable = buffer.echo_enable
  BY <1>2 DEF BufferFields
<1>4. /\ DOMAIN uart' = {"rx", "tx", "shift", "ier", "overrun"} /\ uart'.overrun = FALSE
      /\ uart'.rx = uart.rx /\ uart'.tx = uart.tx /\ uart'.shift = uart.shift /\ uart'.ier = uart.ier
  <2>1. DOMAIN uart = {"rx", "tx", "shift", "ier", "overrun"}
    BY StateTypes
  <2>2. QED
    BY <1>1, <2>1
<1>5. isr' = [at |-> "None", copy_size |-> 0, echo |-> <<>>]
  BY <1>1 DEF NoInt
<1>6. Typed'
  BY <1>1, <1>2, <1>3, <1>4, StateTypes, TypedFrom
<1>7. ProgOK'
  BY <1>1, <1>3 DEF IInv, ProgOK, Behind, Room
<1>8. IsrOK'
  BY <1>5 DEF IsrOK
<1>9. Exclusive' /\ Writers'
  BY <1>1, <1>3, <1>4, <1>5 DEF IInv, Exclusive, Writers
<1>10. Waiting' = Waiting
  BY <1>1, <1>3, <1>5 DEF Waiting
<1>11. RxIntact' /\ TxIntact'
  BY <1>1, <1>3, <1>4, <1>10 DEF IInv, RxIntact, TxIntact, TxRing
<1>12. Armed'
  BY <1>1, <1>3, <1>4, <1>10 DEF IInv, Armed, InterruptsArmed, RxArmed, TxArmed
<1>13. QED
  BY <1>6, <1>7, <1>8, <1>9, <1>11, <1>12 DEF IInv

\* The handler has echoed everything: the level rises, and a full ring disables its interrupt.
LEMMA RxDoneStep ==
  ASSUME IInv, RxDone
  PROVE  IInv'
<1>1. /\ isr.at = "Echo" /\ isr.echo = <<>> /\ isr' = NoInt
      /\ buffer' = [buffer EXCEPT !.rx_level = @ + isr.copy_size]
      /\ \/ buffer.rx_level + isr.copy_size = BufferSize
            /\ uart' = [uart EXCEPT !.ier = uart.ier \ {"ERBFI"}]
         \/ buffer.rx_level + isr.copy_size # BufferSize /\ uart' = uart
      /\ UNCHANGED <<prog, received, written, unread, unsent>>
  BY DEF RxDone, ier_mask_clr_helper, history
<1>2. /\ DOMAIN buffer' = BufferFields /\ buffer'.rx_level = buffer.rx_level + isr.copy_size
      /\ \A f \in BufferFields \ {"rx_level"} : buffer'[f] = buffer[f]
  <2>1. DOMAIN buffer = BufferFields
    BY StateTypes
  <2>2. QED
    BY <1>1, <2>1 DEF BufferFields
<1>3. /\ buffer'.rx_buffer = buffer.rx_buffer /\ buffer'.tx_buffer = buffer.tx_buffer
      /\ buffer'.rx_start = buffer.rx_start /\ buffer'.status = buffer.status
      /\ buffer'.tx_start = buffer.tx_start /\ buffer'.tx_level = buffer.tx_level
      /\ buffer'.rx_nl_count = buffer.rx_nl_count /\ buffer'.echo_enable = buffer.echo_enable
  BY <1>2 DEF BufferFields
<1>4. /\ DOMAIN uart' = {"rx", "tx", "shift", "ier", "overrun"} /\ uart'.overrun = uart.overrun
      /\ uart'.rx = uart.rx /\ uart'.tx = uart.tx /\ uart'.shift = uart.shift
      /\ uart'.ier \subseteq uart.ier /\ uart.ier \subseteq uart'.ier \cup {"ERBFI"}
      /\ buffer.rx_level + isr.copy_size # BufferSize => uart'.ier = uart.ier
  <2>1. DOMAIN uart = {"rx", "tx", "shift", "ier", "overrun"}
    BY StateTypes
  <2>2. QED
    BY <1>1, <2>1
<1>5. isr' = [at |-> "None", copy_size |-> 0, echo |-> <<>>]
  BY <1>1 DEF NoInt
<1>6. /\ buffer.rx_level \in Nat /\ isr.copy_size \in Nat /\ BufferSize \in Nat
      /\ buffer.rx_level + isr.copy_size \in 0..BufferSize
  <2>1. buffer.rx_level \in 0..BufferSize /\ BufferSize \in Nat
    BY StateTypes
  <2>2. isr.copy_size \in Nat /\ isr.copy_size <= BufferSize - buffer.rx_level
    BY <1>1 DEF IInv, IsrOK
  <2>3. QED
    BY <2>1, <2>2
<1>7. Typed'
  <2>1. uart'.ier \subseteq Enables
    BY <1>4, StateTypes
  <2>2. QED
    BY <1>1, <1>2, <1>3, <1>4, <1>6, <2>1, StateTypes, TypedFrom
<1>0. prog \in Progs /\ prog.at # "Lower"
  BY <1>1 DEF IInv, ProgOK, Exclusive
<1>8. ProgOK'
  BY <1>0, <1>1, <1>3 DEF IInv, ProgOK, Behind, Room
<1>9. IsrOK'
  BY <1>5 DEF IsrOK
<1>10. Exclusive' /\ Writers'
  BY <1>1, <1>3, <1>4, <1>5 DEF IInv, Exclusive, Writers
<1>11. Waiting' = Waiting /\ Waiting' = buffer.rx_level + isr.copy_size
  BY <1>0, <1>1, <1>2, <1>5, <1>6 DEF Waiting
<1>12. RxIntact' /\ TxIntact'
  BY <1>1, <1>3, <1>4, <1>11 DEF IInv, RxIntact, TxIntact, TxRing
<1>13. Armed'
  <2>1. RxArmed => RxArmed'
    BY <1>1, <1>4, <1>6, <1>11 DEF RxArmed
  <2>2. QED
    BY <1>1, <1>3, <1>4, <2>1 DEF IInv, Armed, InterruptsArmed, TxArmed
<1>14. QED
  BY <1>7, <1>8, <1>9, <1>10, <1>12, <1>13 DEF IInv

-----------------------------------------------------------------------------
\* A sequence and the part in front of a place.
LEMMA SplitAt ==
  ASSUME NEW s \in Seq(Int), NEW n \in 0..Len(s)
  PROVE  /\ SubSeq(s, 1, n) \in Seq(Int) /\ Len(SubSeq(s, 1, n)) = n
         /\ Rest(s, n) \in Seq(Int)
         /\ SubSeq(s, 1, n) \o Rest(s, n) = s
<1> DEFINE a == SubSeq(s, 1, n)
           b == Rest(s, n)
<1>0. Len(s) \in Nat /\ n \in Nat /\ n <= Len(s) /\ n + 1 \in Int
  OBVIOUS
<1>1. /\ a \in Seq(Int) /\ Len(a) = n
      /\ \A i \in 1..n : a[i] = s[i]
  <2>1. \A i \in 1..n : s[i] \in Int
    BY <1>0
  <2>2. /\ a \in Seq(Int) /\ Len(a) = IF 1 <= n THEN n - 1 + 1 ELSE 0
        /\ \A i \in 1 .. n - 1 + 1 : a[i] = s[1 + i - 1]
    BY <1>0, <2>1, SubSeqProperties
  <2> HIDE DEF a
  <2>3. QED
    BY <1>0, <2>2
<1>2. /\ b \in Seq(Int) /\ Len(b) = Len(s) - n
      /\ \A i \in 1 .. Len(s) - n : b[i] = s[n + i]
  <2>1. \A i \in (n + 1)..Len(s) : s[i] \in Int
    BY <1>0
  <2>2. /\ b \in Seq(Int) /\ Len(b) = IF n + 1 <= Len(s) THEN Len(s) - (n + 1) + 1 ELSE 0
        /\ \A i \in 1 .. Len(s) - (n + 1) + 1 : b[i] = s[(n + 1) + i - 1]
    BY <1>0, <2>1, SubSeqProperties DEF Rest
  <2> HIDE DEF b
  <2>3. QED
    BY <1>0, <2>2
<1> HIDE DEF a, b
<1>3. /\ a \o b \in Seq(Int) /\ Len(a \o b) = Len(s)
      /\ \A i \in 1..Len(s) : (a \o b)[i] = IF i <= n THEN a[i] ELSE b[i - n]
  <2>1. /\ a \o b \in Seq(Int) /\ Len(a \o b) = Len(a) + Len(b)
        /\ \A i \in 1 .. Len(a) + Len(b) : (a \o b)[i] = IF i <= Len(a) THEN a[i] ELSE b[i - Len(a)]
    BY <1>1, <1>2, ConcatProperties
  <2>2. Len(a) + Len(b) = Len(s) /\ Len(a) = n
    BY <1>0, <1>1, <1>2
  <2>3. QED
    BY <2>1, <2>2
<1>4. ASSUME NEW i \in 1..Len(s) PROVE (a \o b)[i] = s[i]
  <2>1. CASE i <= n
    BY <1>0, <1>1, <1>3, <2>1
  <2>2. CASE ~(i <= n)
    <3>1. i - n \in 1 .. Len(s) - n /\ n + (i - n) = i
      BY <1>0, <2>2
    <3>2. QED
      BY <1>2, <1>3, <2>2, <3>1
  <2>3. QED
    BY <2>1, <2>2
<1>5. a \o b = s
  BY <1>3, <1>4, SeqEqual
<1>6. QED
  BY <1>1, <1>2, <1>5 DEF a, b

\* The number of line ends among some bytes.
LEMMA LinesInType ==
  ASSUME NEW bytes \in Seq(Int)
  PROVE  LinesIn(bytes) \in Nat
<1> DEFINE T == {k \in DOMAIN bytes : bytes[k] \in LineEnds /\ \A i \in 1..k : bytes[i] \notin Nuls}
<1>1. DOMAIN bytes = 1..Len(bytes) /\ Len(bytes) \in Nat
  OBVIOUS
<1>2. IsFiniteSet(1..Len(bytes))
  BY <1>1, FS_Interval
<1>3. T \in SUBSET (1..Len(bytes))
  BY <1>1
<1>4. LinesIn(bytes) = Cardinality(T)
  BY DEF LinesIn, Quantify
<1> HIDE DEF T
<1>5. IsFiniteSet(T)
  BY <1>2, <1>3, FS_Subset
<1>6. QED
  BY <1>4, <1>5, FS_CardinalityType

\* alt_16550_buffer_int_callback_rx: the bytes move from the FIFO into the ring.
LEMMA RxCopyStep ==
  ASSUME IInv, RxCopy
  PROVE  IInv'
<1> DEFINE c == isr.copy_size
           bytes == SubSeq(uart.rx, 1, c)
           others == Rest(uart.rx, c)
           part1 == Part1(RxEnd, c)
           front == LinesIn(SubSeq(bytes, 1, part1))
           behind == LinesIn(Rest(bytes, part1))
           ends == (buffer.rx_nl_count + front + behind) % 65536
           ring == Filled(buffer.rx_buffer, RxEnd, bytes)
           parts == IF buffer.echo_enable THEN <<SubSeq(bytes, 1, part1), Rest(bytes, part1)>> ELSE <<>>
<1>1. /\ isr.at = "RxCopy"
      /\ uart' = [uart EXCEPT !.rx = others]
      /\ buffer' = [buffer EXCEPT !.rx_buffer = ring, !.rx_nl_count = ends]
      /\ isr' = [isr EXCEPT !.at = "Echo", !.echo = parts]
      /\ UNCHANGED <<prog, received, written, unread, unsent>>
  BY DEF RxCopy, fifo_read, FirstBytes, Rest, history
<1>2. /\ BufferSize \in Nat /\ buffer.rx_level \in 0..BufferSize /\ buffer.rx_start \in 0 .. BufferSize - 1
      /\ buffer.rx_buffer \in Rings /\ uart.rx \in Seq(Int) /\ uart.rx \in Seq(Nat)
      /\ buffer.rx_nl_count \in Nat
  BY StateTypes
<1>3. /\ c \in 0..Len(uart.rx) /\ c \in Nat /\ buffer.rx_level + c \in 0..BufferSize
      /\ buffer.rx_level + c <= BufferSize
  <2>1. c \in Nat /\ c <= Len(uart.rx) /\ c <= BufferSize - buffer.rx_level
    BY <1>1 DEF IInv, IsrOK
  <2>2. Len(uart.rx) \in Nat
    BY <1>2
  <2>3. QED
    BY <1>2, <2>1, <2>2
<1>4. /\ bytes \in Seq(Int) /\ Len(bytes) = c /\ others \in Seq(Int)
      /\ bytes \o others = uart.rx
  BY <1>2, <1>3, SplitAt
<1>5. others \in Seq(Nat)
  <2>1. \A i \in (c + 1)..Len(uart.rx) : uart.rx[i] \in Nat
    BY <1>2, <1>3, SMTT(60)
  <2>2. QED
    BY <1>2, <1>3, <2>1, SubSeqProperties DEF Rest
<1>6. part1 \in 0..c
  BY <1>2, <1>3 DEF Part1, RxEnd
<1> HIDE DEF part1, bytes, others
<1>7. SubSeq(bytes, 1, part1) \in Seq(Int) /\ Rest(bytes, part1) \in Seq(Int)
  BY <1>4, <1>6, SplitAt
<1>23. ends \in Nat /\ ends < 65536
  <2>1. front \in Nat /\ behind \in Nat
    BY <1>7, LinesInType
  <2> DEFINE x == buffer.rx_nl_count + front + behind
  <2> HIDE DEF front, behind
  <2>2. x \in Nat
    BY <1>2, <2>1
  <2> HIDE DEF x
  <2>3. x % 65536 \in Nat /\ x % 65536 < 65536
    BY <2>2
  <2>4. QED
    BY <2>3 DEF x
<1> HIDE DEF ends
<1>8. parts \in Seq(Seq(Int)) /\ (parts # <<>> => buffer.echo_enable)
  BY <1>7
<1>9. /\ ring \in Rings
      /\ Ring(ring, buffer.rx_start, buffer.rx_level + c)
           = Ring(buffer.rx_buffer, buffer.rx_start, buffer.rx_level) \o bytes
  <2>1. buffer.rx_level + Len(bytes) <= BufferSize
    BY <1>3, <1>4
  <2>2. /\ ring \in Rings
        /\ Ring(ring, buffer.rx_start, buffer.rx_level + Len(bytes))
             = Ring(buffer.rx_buffer, buffer.rx_start, buffer.rx_level) \o bytes
    <3>1. ring = Filled(buffer.rx_buffer, buffer.rx_start + buffer.rx_level, bytes)
      BY DEF RxEnd
    <3> HIDE DEF ring
    <3>2. QED
      BY <1>2, <1>4, <2>1, <3>1, RingFilled
  <2> HIDE DEF ring
  <2>3. QED
    BY <1>4, <2>2
<1> HIDE DEF ring, parts
<1>10. /\ DOMAIN buffer' = BufferFields /\ buffer'.rx_buffer = ring /\ buffer'.rx_nl_count = ends
       /\ buffer'.rx_level = buffer.rx_level /\ buffer'.rx_start = buffer.rx_start
       /\ buffer'.tx_buffer = buffer.tx_buffer /\ buffer'.tx_start = buffer.tx_start
       /\ buffer'.tx_level = buffer.tx_level /\ buffer'.status = buffer.status
       /\ buffer'.echo_enable = buffer.echo_enable
  <2>1. DOMAIN buffer = BufferFields
    BY StateTypes
  <2>2. QED
    BY <1>1, <2>1 DEF BufferFields
<1>11. /\ DOMAIN uart' = {"rx", "tx", "shift", "ier", "overrun"} /\ uart'.overrun = uart.overrun
       /\ uart'.rx = others /\ uart'.tx = uart.tx /\ uart'.shift = uart.shift
       /\ uart'.ier = uart.ier
  <2>1. DOMAIN uart = {"rx", "tx", "shift", "ier", "overrun"}
    BY StateTypes
  <2>2. QED
    BY <1>1, <2>1
<1>12. isr' = [at |-> "Echo", copy_size |-> c, echo |-> parts] /\ c <= BufferSize - buffer.rx_level
  BY <1>1 DEF IInv, IsrOK
<1>13. Typed'
  BY <1>1, <1>5, <1>9, <1>10, <1>11, <1>23, StateTypes, TypedFrom
<1>14. prog.at # "Lower" /\ prog' = prog
  BY <1>1 DEF IInv, ProgOK, Exclusive
<1>15. ProgOK'
  BY <1>10, <1>14 DEF IInv, ProgOK, Behind, Room
<1>16. IsrOK'
  BY <1>3, <1>8, <1>10, <1>12 DEF IsrOK
<1>17. Exclusive' /\ Writers'
  BY <1>1, <1>8, <1>10, <1>11, <1>12, <1>14 DEF IInv, Exclusive, Writers
<1>18. Waiting = buffer.rx_level /\ Waiting' = buffer.rx_level + c
  BY <1>1, <1>2, <1>3, <1>10, <1>12, <1>14 DEF Waiting
<1>19. RxIntact'
  <2> DEFINE s == Ring(buffer.rx_buffer, buffer.rx_start, buffer.rx_level)
  <2>1. s \in Seq(Int)
    BY <1>2, RingType
  <2>2. unread = s \o uart.rx
    BY <1>18 DEF IInv, RxIntact
  <2>3. Ring(ring, buffer.rx_start, buffer.rx_level + c) = s \o bytes
    BY <1>9
  <2> HIDE DEF s
  <2>4. (s \o bytes) \o others = s \o (bytes \o others)
    BY <1>4, <2>1, ConcatThree
  <2>5. QED
    BY <1>1, <1>4, <1>10, <1>11, <1>18, <2>2, <2>3, <2>4 DEF RxIntact
<1>20. TxIntact'
  BY <1>1, <1>10, <1>11 DEF IInv, TxIntact, TxRing
<1>21. Armed'
  <2>1. Waiting' < BufferSize => Waiting < BufferSize
    BY <1>2, <1>3, <1>18
  <2>2. QED
    BY <1>10, <1>11, <1>14, <2>1 DEF IInv, Armed, InterruptsArmed, RxArmed, TxArmed
<1>22. QED
  BY <1>13, <1>15, <1>16, <1>17, <1>19, <1>20, <1>21 DEF IInv

\* alt_16550_buffer_int_callback_tx: the bytes move from the ring into the FIFO.
LEMMA TxCopyStep ==
  ASSUME IInv, OneWriter, TxCopy
  PROVE  IInv'
<1> DEFINE c == isr.copy_size
           then == (buffer.tx_start + c) % BufferSize
           a == Ring(buffer.tx_buffer, buffer.tx_start, c)
           b == Ring(buffer.tx_buffer, then, buffer.tx_level - c)
<1>1. /\ isr.at = "TxCopy" /\ isr' = NoInt
      /\ uart' = [uart EXCEPT !.tx = @ \o a]
      /\ buffer' = [buffer EXCEPT !.tx_start = then, !.tx_level = @ - c]
      /\ UNCHANGED <<prog, received, written, unread, unsent>>
  BY DEF TxCopy, fifo_write, history
<1>2. /\ BufferSize \in Nat /\ buffer.tx_level \in 0..BufferSize /\ buffer.tx_start \in 0 .. BufferSize - 1
      /\ buffer.tx_buffer \in Rings /\ uart.tx \in Seq(Int) /\ uart.shift \in Seq(Int)
  BY StateTypes
<1>3. /\ c \in 0..buffer.tx_level /\ c \in Nat /\ c \in 0..BufferSize
      /\ buffer.tx_level - c \in 0..BufferSize
  <2>1. c \in Nat /\ c <= buffer.tx_level
    BY <1>1 DEF IInv, IsrOK
  <2>2. QED
    BY <1>2, <2>1
<1>4. then \in 0 .. BufferSize - 1 /\ TxRing = a \o b
  BY <1>2, <1>3, RingSplit DEF TxRing
<1> HIDE DEF then
<1>5. a \in Seq(Int) /\ b \in Seq(Int)
  BY <1>2, <1>3, <1>4, RingType
<1> HIDE DEF a
<1>6. /\ DOMAIN buffer' = BufferFields /\ buffer'.tx_start = then
      /\ buffer'.tx_level = buffer.tx_level - c
      /\ buffer'.rx_buffer = buffer.rx_buffer /\ buffer'.rx_nl_count = buffer.rx_nl_count
      /\ buffer'.rx_level = buffer.rx_level /\ buffer'.rx_start = buffer.rx_start
      /\ buffer'.tx_buffer = buffer.tx_buffer /\ buffer'.status = buffer.status
      /\ buffer'.echo_enable = buffer.echo_enable
  <2>1. DOMAIN buffer = BufferFields
    BY StateTypes
  <2>2. QED
    BY <1>1, <2>1 DEF BufferFields
<1>7. /\ DOMAIN uart' = {"rx", "tx", "shift", "ier", "overrun"} /\ uart'.overrun = uart.overrun
      /\ uart'.rx = uart.rx /\ uart'.tx = uart.tx \o a /\ uart'.shift = uart.shift
      /\ uart'.ier = uart.ier
  <2>1. DOMAIN uart = {"rx", "tx", "shift", "ier", "overrun"}
    BY StateTypes
  <2>2. QED
    BY <1>1, <2>1
<1>8. isr' = [at |-> "None", copy_size |-> 0, echo |-> <<>>]
  BY <1>1 DEF NoInt
<1>9. Typed'
  <2>1. uart.tx \o a \in Seq(Int)
    BY <1>2, <1>5, ConcatProperties
  <2>2. QED
    BY <1>1, <1>3, <1>4, <1>6, <1>7, <2>1, StateTypes, TypedFrom
<1>10. prog.at # "Store" /\ prog' = prog
  <2>1. prog' = prog
    BY <1>1
  <2>2. ASSUME prog.at = "Store" PROVE FALSE
    <3>1. prog.call \in Writes /\ MaxWritten # 0
      BY <2>2 DEF IInv, ProgOK, Writers
    <3>2. EchoModes = {}
      BY <3>1 DEF OneWriter
    <3>3. QED
      BY <1>1, <2>2, <3>1, <3>2 DEF IInv, Exclusive
  <2>3. QED
    BY <2>1, <2>2
<1>11. ProgOK'
  BY <1>6, <1>10 DEF IInv, ProgOK
<1>12. IsrOK'
  BY <1>8 DEF IsrOK
<1>13. Exclusive' /\ Writers'
  BY <1>6, <1>7, <1>8, <1>10 DEF IInv, Exclusive, Writers
<1>14. Waiting' = Waiting
  BY <1>1, <1>6, <1>8, <1>10 DEF Waiting
<1>15. RxIntact'
  BY <1>1, <1>6, <1>7, <1>14 DEF IInv, RxIntact
<1>16. TxIntact'
  <2> DEFINE s == uart.shift
             t == uart.tx
  <2>1. unsent = (s \o t) \o (a \o b)
    BY <1>4 DEF IInv, TxIntact
  <2>2. s \in Seq(Int) /\ t \in Seq(Int)
    BY <1>2
  <2>3. TxRing' = b
    BY <1>6 DEF TxRing
  <2>4. uart'.shift \o uart'.tx = s \o (t \o a)
    BY <1>7
  <2> HIDE DEF s, t, b
  <2>5. s \o t \in Seq(Int) /\ (s \o t) \o a = s \o (t \o a)
    BY <1>5, <2>2, ConcatThree, SMTT(60)
  <2>6. ((s \o t) \o a) \o b = (s \o t) \o (a \o b)
    BY <1>5, <2>5, ConcatThree
  <2>7. unsent' = unsent
    BY <1>1
  <2>8. QED
    BY <2>1, <2>3, <2>4, <2>5, <2>6, <2>7 DEF TxIntact
<1>17. Armed'
  <2>1. buffer'.tx_level > 0 => buffer.tx_level > 0
    BY <1>2, <1>3, <1>6
  <2>2. QED
    BY <1>6, <1>7, <1>10, <1>14, <2>1 DEF IInv, Armed, InterruptsArmed, RxArmed, TxArmed
<1>18. QED
  BY <1>9, <1>11, <1>12, <1>13, <1>15, <1>16, <1>17 DEF IInv

-----------------------------------------------------------------------------
\* What is echoed for some bytes.
LEMMA EchoItemsType ==
  ASSUME NEW bytes \in Seq(Int)
  PROVE  /\ EchoItems(bytes) \in Seq(Seq(Int)) /\ Len(EchoItems(bytes)) = Len(bytes)
         /\ \A i \in 1..Len(EchoItems(bytes)) : EchoItems(bytes)[i] # <<>>
<1>1. Star \in Int /\ Injected \in Int
  BY BufferAssumption DEF Star, Injected
<1>2. DOMAIN bytes = 1..Len(bytes) /\ Len(bytes) \in Nat /\ \A k \in 1..Len(bytes) : bytes[k] \in Int
  OBVIOUS
<1> DEFINE Item(k) == IF buffer.echo_inject_lf /\ bytes[k] \in LineEnds THEN <<bytes[k], Injected>>
                      ELSE IF buffer.echo_char THEN <<Star>> ELSE <<bytes[k]>>
<1>3. ASSUME NEW k \in 1..Len(bytes) PROVE Item(k) \in Seq(Int) /\ Item(k) # <<>>
  <2>1. bytes[k] \in Int
    BY <1>2
  <2>2. <<bytes[k], Injected>> \in Seq(Int) /\ <<Star>> \in Seq(Int) /\ <<bytes[k]>> \in Seq(Int)
    BY <1>1, <2>1
  <2>3. <<bytes[k], Injected>> # <<>> /\ <<Star>> # <<>> /\ <<bytes[k]>> # <<>>
    OBVIOUS
  <2>4. QED
    BY <2>2, <2>3
<1>4. EchoItems(bytes) = [k \in 1..Len(bytes) |-> Item(k)]
  BY <1>2 DEF EchoItems
<1> HIDE DEF Item
<1>5. QED
  BY <1>2, <1>3, <1>4

\* alt_16550_buffer_echo writes to the TX buffer as the program does.
LEMMA EchoStep ==
  ASSUME IInv, OneWriter, Echo
  PROVE  IInv'
<1> DEFINE bytes  == Head(isr.echo)
           n      == IF buffer.echo_inject_lf THEN ChunkLen(EchoItems(bytes))
                     ELSE IF buffer.echo_char THEN Min2(Len(bytes), OutputSize) ELSE Len(bytes)
           output == Output(EchoItems(bytes), n)
           stored == Echoed(output)
           done   == IF buffer.echo_inject_lf THEN n ELSE Len(stored)
           ring   == Filled(buffer.tx_buffer, Behind, stored)
           rest   == Rest(bytes, done)
<1>1. /\ isr.at = "Echo" /\ isr.echo # <<>> /\ bytes # <<>>
      /\ buffer' = [buffer EXCEPT !.tx_buffer = ring, !.tx_level = @ + Len(stored)]
      /\ unsent' = unsent \o stored
      /\ IF stored = <<>> THEN UNCHANGED uart ELSE ier_mask_set_helper(uart.ier, {"ETBEI"})
      /\ isr' = [isr EXCEPT !.echo[1] = rest]
      /\ UNCHANGED <<prog, received, written, unread>>
  BY DEF Echo
<1>2. isr.echo \in Seq(Seq(Int)) /\ isr.copy_size \in Nat
  BY DEF IInv, IsrOK
<1>3. bytes \in Seq(Int) /\ Len(bytes) \in Nat /\ bytes # <<>>
  BY <1>1, <1>2
<1> HIDE DEF bytes
<1>4. n \in 0..Len(bytes)
  <2>1. EchoItems(bytes) # <<>>
    BY <1>3, EchoItemsType
  <2>2. ChunkLen(EchoItems(bytes)) \in 1..Len(EchoItems(bytes))
    BY <1>3, <2>1, EchoItemsType, ChunkInItems
  <2>3. ChunkLen(EchoItems(bytes)) \in 1..Len(bytes)
    BY <1>3, <2>2, EchoItemsType
  <2>4. Min2(Len(bytes), OutputSize) \in 0..Len(bytes)
    BY <1>3, BufferAssumption DEF Min2
  <2>5. QED
    BY <1>3, <2>3, <2>4
<1> HIDE DEF n
<1>5. output \in Seq(Int)
  <2>1. n \in 0..Len(EchoItems(bytes))
    BY <1>3, <1>4, EchoItemsType
  <2>2. QED
    BY <1>3, <2>1, EchoItemsType, Outputs
<1> HIDE DEF output
<1>6. stored \in Seq(Int) /\ Len(stored) \in Nat /\ Len(stored) <= Room
  <2>1. Len(output) \in Nat
    BY <1>5
  <2>2. /\ Min2(Len(output), Room) \in Nat /\ Min2(Len(output), Room) <= Room
        /\ Part1(Behind, Min2(Len(output), Room)) \in Nat /\ Room \in Nat
    BY <2>1, RoomType
  <2> DEFINE m == Min2(Len(output), Room)
             taken == FromCaller(output, m, Part1(Behind, m))
  <2>3. taken \in Seq(Int) /\ Len(taken) = m
    <3> HIDE DEF m
    <3>1. m \in Nat /\ Part1(Behind, m) \in Nat
      BY <2>2 DEF m
    <3>2. QED
      BY <1>5, <3>1, FromCallerType
  <2>4. stored = <<>> \/ stored = taken
    BY DEF Echoed
  <2>5. <<>> \in Seq(Int) /\ Len(<<>>) = 0
    OBVIOUS
  <2>6. m \in Nat /\ m <= Room
    BY <2>2
  <2>7. 0 <= Room
    BY <2>2
  <2> HIDE DEF taken, stored, m
  <2>8. CASE stored = <<>>
    BY <2>5, <2>7, <2>8
  <2>9. CASE stored = taken
    BY <2>3, <2>6, <2>9
  <2>10. QED
    BY <2>4, <2>8, <2>9
<1> HIDE DEF stored
<1>7. done \in Nat
  BY <1>3, <1>4, <1>6
<1> HIDE DEF done
<1>8. rest \in Seq(Int)
  <2>1. \A i \in (done + 1)..Len(bytes) : bytes[i] \in Int
    BY <1>3, <1>7
  <2>2. QED
    BY <1>3, <1>7, <2>1, SubSeqProperties DEF Rest
<1> HIDE DEF rest
<1>9. /\ ring \in Rings /\ buffer.tx_level + Len(stored) \in 0..BufferSize
      /\ uart.shift \o uart.tx \o Ring(ring, buffer.tx_start, buffer.tx_level + Len(stored))
           = unsent \o stored
  BY <1>6, TxAppended
<1> HIDE DEF ring
<1>10. /\ DOMAIN buffer' = BufferFields /\ buffer'.tx_buffer = ring
       /\ buffer'.tx_level = buffer.tx_level + Len(stored) /\ buffer'.tx_start = buffer.tx_start
       /\ buffer'.rx_buffer = buffer.rx_buffer /\ buffer'.rx_nl_count = buffer.rx_nl_count
       /\ buffer'.rx_level = buffer.rx_level /\ buffer'.rx_start = buffer.rx_start
       /\ buffer'.status = buffer.status /\ buffer'.echo_enable = buffer.echo_enable
  <2>1. DOMAIN buffer = BufferFields
    BY StateTypes
  <2>2. QED
    BY <1>1, <2>1 DEF BufferFields
<1>11. /\ DOMAIN uart' = {"rx", "tx", "shift", "ier", "overrun"} /\ uart'.overrun = uart.overrun
       /\ uart'.rx = uart.rx /\ uart'.tx = uart.tx /\ uart'.shift = uart.shift
       /\ (uart'.ier = uart.ier \/ uart'.ier = uart.ier \cup {"ETBEI"})
  <2>1. DOMAIN uart = {"rx", "tx", "shift", "ier", "overrun"}
    BY StateTypes
  <2>2. CASE stored = <<>>
    BY <1>1, <2>1, <2>2
  <2>3. CASE stored # <<>>
    <3>1. uart' = [uart EXCEPT !.ier = uart.ier \cup {"ETBEI"}]
      BY <1>1, <2>3 DEF ier_mask_set_helper
    <3>2. QED
      BY <2>1, <3>1
  <2>4. QED
    BY <2>2, <2>3
<1>12. uart'.ier \subseteq Enables /\ ("ERBFI" \in uart'.ier => "ERBFI" \in uart.ier)
  <2>1. uart.ier \subseteq Enables
    BY StateTypes
  <2>2. QED
    BY <1>11, <2>1 DEF Enables
<1>13. /\ isr' = [at |-> "Echo", copy_size |-> isr.copy_size, echo |-> [isr.echo EXCEPT ![1] = rest]]
       /\ isr.copy_size <= BufferSize - buffer.rx_level
  BY <1>1 DEF IInv, IsrOK
<1>14. [isr.echo EXCEPT ![1] = rest] \in Seq(Seq(Int))
  <2> DEFINE e == isr.echo
             new == [e EXCEPT ![1] = rest]
  <2>1. e \in Seq(Seq(Int)) /\ DOMAIN e = 1..Len(e) /\ Len(e) \in Nat /\ e = [k \in 1..Len(e) |-> e[k]]
    BY <1>2
  <2> HIDE DEF e
  <2>2. \A k \in 1..Len(e) : e[k] \in Seq(Int)
    BY <2>1
  <2>3. new = [k \in 1..Len(e) |-> IF k = 1 THEN rest ELSE e[k]]
    BY <2>1
  <2>4. \A k \in 1..Len(e) : (IF k = 1 THEN rest ELSE e[k]) \in Seq(Int)
    BY <1>8, <2>2
  <2> HIDE DEF new
  <2>5. new \in Seq(Seq(Int))
    BY <2>1, <2>3, <2>4
  <2>6. QED
    BY <2>5 DEF new, e
<1>15. EchoModes # {} /\ prog.call \notin Writes /\ prog' = prog
  BY <1>1 DEF IInv, Writers, OneWriter
<1>16. Typed'
  BY <1>1, <1>9, <1>10, <1>11, <1>12, StateTypes, TypedFrom
<1>17. ProgOK'
  BY <1>10, <1>15 DEF IInv, ProgOK
<1>18. IsrOK'
  BY <1>2, <1>10, <1>13, <1>14 DEF IsrOK
<1>19. Exclusive'
  BY <1>1, <1>12, <1>13, <1>15 DEF IInv, Exclusive
<1>20. Writers'
  BY <1>15 DEF Writers
<1>21. Waiting' = Waiting
  BY <1>1, <1>10, <1>13, <1>15 DEF Waiting
<1>22. RxIntact'
  BY <1>1, <1>10, <1>11, <1>21 DEF IInv, RxIntact
<1>23. TxIntact'
  BY <1>1, <1>9, <1>10, <1>11 DEF TxIntact, TxRing
<1>24. Armed'
  BY <1>15 DEF Armed
<1>25. QED
  BY <1>16, <1>17, <1>18, <1>19, <1>20, <1>22, <1>23, <1>24 DEF IInv

\* Every step of the handler.
LEMMA HandlerStep ==
  ASSUME IInv, OneWriter, Handler
  PROVE  IInv'
  BY RxLevelStep, RxCopyStep, EchoStep, NextPartStep, RxDoneStep, TxLevelStep, TxCopyStep, LineStep
  DEF Handler

(***************************************************************************)
(* The line.                                                               *)
(***************************************************************************)
\* What stays when only the FIFOs change.
LEMMA LineMoves ==
  ASSUME IInv, UNCHANGED <<buffer, prog, isr, written>>, received' \in Nat,
         DOMAIN uart' = {"rx", "tx", "shift", "ier", "overrun"}, uart'.ier = uart.ier,
         uart'.overrun \in BOOLEAN, uart'.rx \in Seq(Nat), Len(uart'.rx) >= Len(uart.rx),
         uart'.tx \in Seq(Int), Len(uart'.tx) <= Len(uart.tx),
         uart'.shift \in Seq(Int), Len(uart'.shift) <= 1,
         RxIntact', TxIntact'
  PROVE  IInv'
<1>0. buffer' = buffer /\ prog' = prog /\ isr' = isr /\ written' = written
  OBVIOUS
<1>1. Typed'
  <2>1. uart'.ier \subseteq Enables
    BY StateTypes
  <2>2. QED
    BY <1>0, <2>1, StateTypes, TypedFrom
<1>2. ProgOK'
  BY <1>0 DEF IInv, ProgOK, Behind, Room
<1>3. IsrOK'
  <2>1. Len(uart.rx) \in Nat /\ Len(uart'.rx) \in Nat
    <3>1. uart.rx \in Seq(Nat)
      BY StateTypes
    <3>2. QED
      BY <3>1
  <2>2. isr.at = "RxCopy" => isr.copy_size <= Len(uart'.rx)
    <3>1. isr.copy_size \in Nat /\ (isr.at = "RxCopy" => isr.copy_size <= Len(uart.rx))
      BY DEF IInv, IsrOK
    <3>2. QED
      BY <2>1, <3>1
  <2>3. isr.at = "TxLevel" => Len(uart'.tx) <= TxTrigger
    <3>1. Len(uart.tx) \in Nat
      <4>1. uart.tx \in Seq(Int)
        BY StateTypes
      <4>2. QED
        BY <4>1
    <3>5. Len(uart'.tx) \in Nat
      OBVIOUS
    <3>4. TxTrigger \in Int
      BY BufferAssumption, FifoAssumption
    <3>2. isr.at = "TxLevel" => Len(uart.tx) <= TxTrigger
      BY DEF IInv, IsrOK
    <3>3. QED
      BY <3>1, <3>2, <3>4, <3>5
  <2>4. QED
    BY <1>0, <2>2, <2>3 DEF IInv, IsrOK
<1>4. Exclusive' /\ Writers'
  BY <1>0 DEF IInv, Exclusive, Writers
<1>5. Armed'
  BY <1>0 DEF IInv, Armed, InterruptsArmed, RxArmed, TxArmed, Waiting
<1>6. QED
  BY <1>1, <1>2, <1>3, <1>4, <1>5 DEF IInv

\* A byte arrives at the UART.
LEMMA LineReceivesStep ==
  ASSUME IInv, LineReceives
  PROVE  IInv'
<1>1. /\ uart' = IF Len(uart.rx) < FifoSize THEN [uart EXCEPT !.rx = Append(@, received + 1)]
                                            ELSE [uart EXCEPT !.overrun = TRUE]
      /\ received' = received + 1
      /\ unread' = IF Len(uart.rx) < FifoSize THEN Append(unread, received + 1) ELSE unread
      /\ UNCHANGED <<buffer, prog, isr, written, unsent>>
  BY DEF LineReceives, Receive
<1>2. /\ received \in Nat /\ received + 1 \in Nat /\ uart.rx \in Seq(Nat) /\ uart.rx \in Seq(Int)
      /\ DOMAIN uart = {"rx", "tx", "shift", "ier", "overrun"} /\ uart.overrun \in BOOLEAN
      /\ uart.tx \in Seq(Int) /\ uart.shift \in Seq(Int) /\ Len(uart.shift) <= 1
      /\ buffer.rx_buffer \in Rings /\ buffer.rx_start \in 0 .. BufferSize - 1
  BY StateTypes
<1> DEFINE e == received + 1
           s == Ring(buffer.rx_buffer, buffer.rx_start, Waiting)
<1>3. Waiting' = Waiting
  BY <1>1 DEF Waiting
<1>4. unread = s \o uart.rx /\ s \in Seq(Int)
  <2>1. unread = s \o uart.rx
    BY DEF IInv, RxIntact
  <2>2. Waiting \in 0..BufferSize
    <3>1. buffer.rx_level \in 0..BufferSize /\ BufferSize \in Nat
      BY StateTypes
    <3>2. isr.copy_size \in Nat /\ (isr.at = "Echo" => isr.copy_size <= BufferSize - buffer.rx_level)
      BY DEF IInv, IsrOK
    <3>3. prog.place \in Nat /\ (prog.at = "Lower" => prog.place <= buffer.rx_level)
      BY DEF IInv, ProgOK, Progs
    <3>4. ~(prog.at = "Lower" /\ isr.at = "Echo")
      BY DEF IInv, ProgOK, Exclusive
    <3>5. QED
      BY <3>1, <3>2, <3>3, <3>4 DEF Waiting
  <2>3. QED
    BY <1>2, <2>1, <2>2, RingType
<1>5. TxIntact'
  BY <1>1, <1>2 DEF IInv, TxIntact, TxRing
<1>6. CASE Len(uart.rx) < FifoSize
  <2>1. uart'.rx = Append(uart.rx, e) /\ unread' = Append(unread, e)
    BY <1>1, <1>2, <1>6
  <2>2. /\ DOMAIN uart' = {"rx", "tx", "shift", "ier", "overrun"} /\ uart'.overrun = uart.overrun
        /\ uart'.tx = uart.tx /\ uart'.shift = uart.shift /\ uart'.ier = uart.ier
    BY <1>1, <1>2, <1>6
  <2>3. /\ Append(uart.rx, e) \in Seq(Nat) /\ Len(Append(uart.rx, e)) >= Len(uart.rx)
        /\ Len(uart.tx) <= Len(uart.tx)
    BY <1>2
  <2>4. Append(s \o uart.rx, e) = s \o Append(uart.rx, e)
    <3> HIDE DEF s
    <3>1. e \in Int
      BY <1>2
    <3> HIDE DEF e
    <3>2. s \o uart.rx \in Seq(Int) /\ <<e>> \in Seq(Int)
      BY <1>2, <1>4, <3>1, ConcatProperties
    <3>3. Append(s \o uart.rx, e) = (s \o uart.rx) \o <<e>> /\ Append(uart.rx, e) = uart.rx \o <<e>>
      BY <1>2, <3>1, <3>2, AppendIsConcat
    <3>4. (s \o uart.rx) \o <<e>> = s \o (uart.rx \o <<e>>)
      BY <1>2, <1>4, <3>2, ConcatThree, SMTT(60)
    <3>5. QED
      BY <3>3, <3>4
  <2>5. RxIntact'
    BY <1>1, <1>3, <1>4, <2>1, <2>4 DEF RxIntact
  <2>6. QED
    BY <1>1, <1>2, <1>5, <2>1, <2>2, <2>3, <2>5, LineMoves
<1>7. CASE ~(Len(uart.rx) < FifoSize)
  <2>1. unread' = unread
    BY <1>1, <1>7
  <2>2. /\ DOMAIN uart' = {"rx", "tx", "shift", "ier", "overrun"} /\ uart'.overrun = TRUE
        /\ uart'.rx = uart.rx /\ uart'.tx = uart.tx /\ uart'.shift = uart.shift /\ uart'.ier = uart.ier
    BY <1>1, <1>2, <1>7
  <2>3. RxIntact'
    BY <1>1, <1>3, <1>4, <2>1, <2>2 DEF RxIntact
  <2>4. Len(uart'.rx) >= Len(uart.rx) /\ Len(uart'.tx) <= Len(uart.tx)
    BY <1>2, <2>2
  <2>5. QED
    BY <1>1, <1>2, <1>5, <2>2, <2>3, <2>4, LineMoves
<1>8. QED
  BY <1>6, <1>7

\* The UART takes a byte from its FIFO to send it.
LEMMA ShiftStep ==
  ASSUME IInv, ShiftNext
  PROVE  IInv'
<1>1. /\ uart.shift = <<>> /\ uart.tx # <<>>
      /\ uart' = [uart EXCEPT !.shift = <<Head(uart.tx)>>, !.tx = Tail(uart.tx)]
      /\ UNCHANGED <<buffer, prog, isr, received, written, unread, unsent>>
  BY DEF ShiftNext, Shift, history
<1>2. /\ received \in Nat /\ uart.rx \in Seq(Nat)
      /\ DOMAIN uart = {"rx", "tx", "shift", "ier", "overrun"} /\ uart.overrun \in BOOLEAN
      /\ uart.tx \in Seq(Int)
  BY StateTypes
<1>3. /\ DOMAIN uart' = {"rx", "tx", "shift", "ier", "overrun"} /\ uart'.overrun = uart.overrun
      /\ uart'.rx = uart.rx /\ uart'.tx = Tail(uart.tx) /\ uart'.shift = <<Head(uart.tx)>>
      /\ uart'.ier = uart.ier
  BY <1>1, <1>2
<1>4. /\ Head(uart.tx) \in Int /\ Tail(uart.tx) \in Seq(Int) /\ <<Head(uart.tx)>> \in Seq(Int)
      /\ Len(<<Head(uart.tx)>>) <= 1 /\ Len(uart.rx) >= Len(uart.rx)
      /\ Len(Tail(uart.tx)) <= Len(uart.tx)
  BY <1>1, <1>2
<1>5. <<Head(uart.tx)>> \o Tail(uart.tx) = <<>> \o uart.tx
  BY <1>1, <1>2, <1>4
<1>6. TxIntact'
  <2>1. unsent = (uart.shift \o uart.tx) \o TxRing
    BY DEF IInv, TxIntact
  <2>2. uart'.shift \o uart'.tx = uart.shift \o uart.tx
    BY <1>1, <1>3, <1>5
  <2>3. TxRing' = TxRing /\ unsent' = unsent
    BY <1>1 DEF TxRing
  <2>4. QED
    BY <2>1, <2>2, <2>3 DEF TxIntact
<1>7. RxIntact'
  BY <1>1, <1>3 DEF IInv, RxIntact, Waiting
<1>8. QED
  BY <1>1, <1>2, <1>3, <1>4, <1>6, <1>7, LineMoves

\* A byte has left the UART.
LEMMA LineSendsStep ==
  ASSUME IInv, LineSends
  PROVE  IInv'
<1>1. /\ uart.shift # <<>> /\ uart' = [uart EXCEPT !.shift = <<>>]
      /\ unsent' = Tail(unsent)
      /\ UNCHANGED <<buffer, prog, isr, received, written, unread>>
  BY DEF LineSends, ShiftOut
<1>2. /\ received \in Nat /\ uart.rx \in Seq(Nat)
      /\ DOMAIN uart = {"rx", "tx", "shift", "ier", "overrun"} /\ uart.overrun \in BOOLEAN
      /\ uart.tx \in Seq(Int) /\ uart.shift \in Seq(Int) /\ Len(uart.shift) <= 1
      /\ buffer.tx_buffer \in Rings /\ buffer.tx_start \in 0 .. BufferSize - 1
      /\ buffer.tx_level \in 0..BufferSize
  BY StateTypes
<1>3. /\ DOMAIN uart' = {"rx", "tx", "shift", "ier", "overrun"} /\ uart'.overrun = uart.overrun
      /\ uart'.rx = uart.rx /\ uart'.tx = uart.tx /\ uart'.shift = <<>> /\ uart'.ier = uart.ier
  BY <1>1, <1>2
<1>4. TxIntact'
  <2> DEFINE s == uart.shift
             t == uart.tx
             u == TxRing
  <2>1. s \in Seq(Int) /\ Len(s) = 1 /\ t \in Seq(Int) /\ s # <<>>
    <3>1. s \in Seq(Int) /\ s # <<>> /\ Len(s) <= 1 /\ t \in Seq(Int)
      BY <1>1, <1>2
    <3> HIDE DEF s, t
    <3>2. Len(s) \in Nat /\ Len(s) # 0
      BY <3>1
    <3>3. \A n \in Nat : n # 0 /\ n <= 1 => n = 1
      OBVIOUS
    <3>4. QED
      BY <3>1, <3>2, <3>3
  <2>2. u \in Seq(Int)
    BY <1>2, RingType DEF TxRing
  <2>3. unsent = (s \o t) \o u
    BY DEF IInv, TxIntact
  <2>4. TxRing' = u
    BY <1>1 DEF TxRing
  <2>5. uart'.shift \o uart'.tx = <<>> \o t
    BY <1>3
  <2> HIDE DEF s, t, u
  <2>6. (s \o t) \o u = s \o (t \o u) /\ t \o u \in Seq(Int)
    BY <2>1, <2>2, ConcatThree, ZenonT(60)
  <2> DEFINE v == t \o u
             w == s \o v
  <2>7. w \in Seq(Int) /\ w # <<>> /\ Rest(w, Len(s)) = v
    <3>1. v \in Seq(Int)
      BY <2>6
    <3> HIDE DEF v
    <3>2. Rest(w, Len(s)) = v
      BY <2>1, <3>1, RestOfConcat
    <3>3. w \in Seq(Int) /\ Len(w) = Len(s) + Len(v) /\ Len(v) \in Nat
      <4>1. s \in Seq(Int)
        BY <2>1
      <4>2. s \o v \in Seq(Int) /\ Len(s \o v) = Len(s) + Len(v)
        BY <3>1, <4>1, ConcatProperties
      <4>3. Len(v) \in Nat
        BY <3>1
      <4>4. QED
        BY <4>2, <4>3
    <3> HIDE DEF w
    <3>4. Len(w) # 0
      BY <2>1, <3>3
    <3>5. QED
      BY <3>2, <3>3, <3>4
  <2>8. Tail(w) = v
    <3> HIDE DEF w, v
    <3>1. Tail(w) = SubSeq(w, 2, Len(w))
      BY <2>7, TailIsSubSeq
    <3>2. Rest(w, 1) = SubSeq(w, 2, Len(w))
      BY DEF Rest
    <3>3. QED
      BY <2>1, <2>7, <3>1, <3>2
  <2>9. <<>> \o t = t
    BY <2>1, ConcatEmptySeq
  <2>10. unsent' = t \o u
    BY <1>1, <2>3, <2>6, <2>8
  <2>11. QED
    BY <2>4, <2>5, <2>9, <2>10 DEF TxIntact
<1>5. RxIntact'
  BY <1>1, <1>3 DEF IInv, RxIntact, Waiting
<1>6. /\ <<>> \in Seq(Int) /\ Len(<<>>) <= 1 /\ Len(uart.rx) >= Len(uart.rx)
      /\ Len(uart.tx) <= Len(uart.tx)
  BY <1>2
<1>7. QED
  BY <1>1, <1>2, <1>3, <1>4, <1>5, <1>6, LineMoves

(***************************************************************************)
(* The behaviours.                                                         *)
(***************************************************************************)
LEMMA BufferStarts ==
  ASSUME BufferInit
  PROVE  IInv
<1> DEFINE zero == [p \in 0 .. BufferSize - 1 |-> Unknown]
<1>1. /\ uart = [rx |-> <<>>, tx |-> <<>>, shift |-> <<>>, ier |-> {"ERBFI", "ELSI"}, overrun |-> FALSE]
      /\ prog = [at |-> "Idle", call |-> "none", size |-> 0, bytes |-> <<>>, ier |-> {},
                 place |-> 0, left |-> <<>>]
      /\ isr = [at |-> "None", copy_size |-> 0, echo |-> <<>>]
      /\ received = 0 /\ written = 0 /\ unread = <<>> /\ unsent = <<>>
  BY DEF BufferInit, Init, Idle, NoInt
<1>2. /\ DOMAIN buffer = BufferFields /\ buffer.status = "SUCCESS"
      /\ buffer.rx_buffer = zero /\ buffer.rx_start = 0 /\ buffer.rx_level = 0 /\ buffer.rx_nl_count = 0
      /\ buffer.tx_buffer = zero /\ buffer.tx_start = 0 /\ buffer.tx_level = 0
      /\ buffer.echo_enable = FALSE
  <2> HIDE DEF zero
  <2>1. buffer = [status |-> "SUCCESS", rx_buffer |-> zero,
                rx_start |-> 0, rx_level |-> 0, rx_nl_count |-> 0,
                tx_buffer |-> zero, tx_start |-> 0, tx_level |-> 0,
                echo_enable |-> FALSE, echo_inject_lf |-> FALSE, echo_char |-> FALSE]
    BY DEF BufferInit, zero
  <2>2. QED
    BY <2>1 DEF BufferFields
<1>3. /\ BufferSize \in Nat /\ BufferSize # 0 /\ Unknown \in Int
      /\ 0 \in 0..BufferSize /\ 0 \in 0 .. BufferSize - 1 /\ 0 < 65536
  BY BufferAssumption DEF Unknown
<1>4. zero \in Rings
  BY <1>3 DEF Rings
<1> HIDE DEF zero
<1>5. <<>> \in Seq(Int) /\ <<>> \in Seq(Nat) /\ <<>> \in Seq(Seq(Int)) /\ Len(<<>>) = 0
  OBVIOUS
<1>6. Typed
  <2>1. UartTypeOK
    BY <1>1, <1>5 DEF UartTypeOK, Enables
  <2>2. TypeOK
    BY <1>2, <1>3, <1>4, <2>1 DEF TypeOK, Rings
  <2>3. QED
    BY <1>1, <1>2, <1>5, <2>2 DEF Typed
<1>7. ProgOK
  <2>1. prog \in Progs
    BY <1>1, <1>5 DEF Progs, Places
  <2>2. QED
    BY <1>1, <2>1 DEF ProgOK
<1>8. IsrOK
  BY <1>1, <1>5 DEF IsrOK
<1>9. Exclusive /\ Writers
  BY <1>1, <1>2 DEF Exclusive, Writers, Reads, Writes
<1>10. Ring(zero, 0, 0) = <<>>
  <2>1. Ring(zero, 0, 0) \in Seq(Int) /\ Len(Ring(zero, 0, 0)) = 0
    BY <1>3, <1>4, RingType
  <2>2. QED
    BY <2>1
<1>11. <<>> \o <<>> = <<>> /\ (<<>> \o <<>>) \o <<>> = <<>>
  BY <1>5, ConcatEmptySeq
<1>12. Waiting = 0
  BY <1>1, <1>2 DEF Waiting
<1>13. RxIntact /\ TxIntact
  BY <1>1, <1>2, <1>10, <1>11, <1>12 DEF RxIntact, TxIntact, TxRing
<1>14. Armed
  BY <1>1, <1>2 DEF Armed, InterruptsArmed, RxArmed, TxArmed
<1>15. QED
  BY <1>6, <1>7, <1>8, <1>9, <1>13, <1>14 DEF IInv

\* No step of the program, the handler or the line leaves the invariant.
LEMMA NextStep ==
  ASSUME IInv, OneWriter, [Next]_vars
  PROVE  IInv'
<1>1. CASE Next
  BY <1>1, CallStep, ProgramStep, CallbackStep, HandlerStep, LineReceivesStep, ShiftStep, LineSendsStep
  DEF Next
<1>2. CASE UNCHANGED vars
  <2>1. /\ uart' = uart /\ buffer' = buffer /\ prog' = prog /\ isr' = isr /\ received' = received
        /\ written' = written /\ unread' = unread /\ unsent' = unsent
    BY <1>2 DEF vars, history
  <2>2. received' \in Nat /\ written' \in Nat
    BY <2>1, StateTypes
  <2>3. Typed'
    BY <2>1, <2>2, TypedSame DEF IInv
  <2>4. ProgOK' /\ IsrOK'
    BY <2>1 DEF IInv, ProgOK, IsrOK, Behind, Room
  <2>5. Exclusive' /\ Writers'
    BY <2>1 DEF IInv, Exclusive, Writers
  <2>6. RxIntact' /\ TxIntact'
    BY <2>1 DEF IInv, RxIntact, TxIntact, TxRing, Waiting
  <2>7. Armed'
    BY <2>1 DEF IInv, Armed, InterruptsArmed, RxArmed, TxArmed, Waiting
  <2>8. QED
    BY <2>3, <2>4, <2>5, <2>6, <2>7 DEF IInv
<1>3. QED
  BY <1>1, <1>2

\* The invariant holds in every reachable state.
LEMMA Inductive ==
  ASSUME OneWriter
  PROVE  Spec => []IInv
<1>1. BufferInit => IInv
  BY BufferStarts
<1>2. IInv /\ [Next]_vars => IInv'
  BY NextStep
<1>3. QED
  BY <1>1, <1>2, PTL DEF Spec

\* The handler never hands the UART more than its transmit FIFO takes: what it finds in the FIFO
\* before it copies only leaves the FIFO until then.
FifoKept ==
  /\ Len(uart.tx) <= FifoSize
  /\ isr.at = "TxCopy" => Len(uart.tx) + isr.copy_size <= FifoSize

\* Steps that put nothing into the transmit FIFO and do not begin a copy.
LEMMA FifoLeft ==
  ASSUME IInv, FifoKept, uart'.tx \in Seq(Int), Len(uart'.tx) <= Len(uart.tx),
         isr'.at = "TxCopy" => isr' = isr
  PROVE  FifoKept'
<1>1. isr.copy_size \in Nat
  BY DEF IInv, IsrOK
<1>2. Len(uart.tx) \in Nat
  <2>1. uart.tx \in Seq(Int)
    BY StateTypes
  <2>2. QED
    BY <2>1
<1>3. Len(uart'.tx) \in Nat
  OBVIOUS
<1>4. FifoSize \in Nat
  BY FifoAssumption
<1>5. QED
  BY <1>1, <1>2, <1>3, <1>4 DEF FifoKept

\* A call touches neither the transmit FIFO nor what the handler remembers.
LEMMA ProgramKeeps ==
  ASSUME DOMAIN uart = {"rx", "tx", "shift", "ier", "overrun"}, Program
  PROVE  uart'.tx = uart.tx /\ isr' = isr
<1>1. CASE DisableWrite \/ EnableWrite
  BY <1>1 DEF DisableWrite, EnableWrite, ier_mask_set_helper, ier_mask_clr_helper
<1>2. CASE ReadSection \/ LineSection
  <2>1. \E count, lines : TakeOut(count, lines)
    BY <1>2 DEF ReadSection, LineSection
  <2>2. QED
    BY <2>1 DEF TakeOut
<1>3. CASE ReadIer("DisableRead", "DisableWrite") \/ ReadIer("EnableRead", "EnableWrite")
  BY <1>3 DEF ReadIer
<1>4. CASE NextChunk \/ LineWritten
  BY <1>4 DEF NextChunk, LineWritten
<1>5. CASE LowerLevel \/ LineNotFound \/ LevelSection
  BY <1>5 DEF LowerLevel, LineNotFound, LevelSection
<1>6. CASE WriteSection \/ Store
  BY <1>6 DEF WriteSection, Store
<1>7. QED
  BY <1>1, <1>2, <1>3, <1>4, <1>5, <1>6 DEF Program

LEMMA FifoStep ==
  ASSUME IInv, FifoKept, [Next]_vars
  PROVE  FifoKept'
<1>1. /\ uart.tx \in Seq(Int) /\ Len(uart.tx) \in Nat /\ Len(uart.tx) <= Len(uart.tx)
      /\ DOMAIN uart = {"rx", "tx", "shift", "ier", "overrun"}
      /\ FifoSize \in Nat /\ BufferSize \in Nat
  BY StateTypes, FifoAssumption, BufferAssumption
<1>2. CASE Call \/ Program \/ int_callback \/ LineReceives \/ UNCHANGED vars
  <2>1. uart'.tx = uart.tx
    <3>1. CASE Call \/ int_callback \/ UNCHANGED vars
      <4>1. uart' = uart
        BY <3>1 DEF Call, int_callback, RxInt, TxInt, LineInt, Enter, read_raw, read_line, write_raw,
           write_line, level, echo_enable, echo_disable, vars
      <4>2. QED
        BY <4>1
    <3>2. CASE Program
      BY <1>1, <3>2, ProgramKeeps
    <3>3. CASE LineReceives
      BY <1>1, <3>3 DEF LineReceives, Receive
    <3>4. QED
      BY <1>2, <3>1, <3>2, <3>3
  <2>2. isr'.at = "TxCopy" => isr' = isr
    <3>1. CASE int_callback
      <4>1. PICK step \in {"RxLevel", "TxLevel", "Line"} : isr' = [isr EXCEPT !.at = step]
        BY <3>1 DEF int_callback, RxInt, TxInt, LineInt, Enter
      <4>2. isr'.at = step
        BY <4>1 DEF IInv, IsrOK
      <4>3. QED
        BY <4>1, <4>2
    <3>2. CASE Call \/ LineReceives \/ UNCHANGED vars
      BY <3>2 DEF Call, LineReceives, read_raw, read_line, write_raw,
         write_line, level, echo_enable, echo_disable, vars
    <3>3. CASE Program
      BY <1>1, <3>3, ProgramKeeps
    <3>4. QED
      BY <1>2, <3>1, <3>2, <3>3
  <2>3. QED
    BY <1>1, <2>1, <2>2, FifoLeft
<1>3. CASE ShiftNext \/ LineSends
  <2>1. isr' = isr
    BY <1>3 DEF ShiftNext, LineSends
  <2>2. uart'.tx \in Seq(Int) /\ Len(uart'.tx) <= Len(uart.tx)
    <3>1. CASE ShiftNext
      <4>1. uart.tx # <<>> /\ uart'.tx = Tail(uart.tx)
        BY <1>1, <3>1 DEF ShiftNext, Shift
      <4>2. QED
        BY <1>1, <4>1
    <3>2. CASE LineSends
      BY <1>1, <3>2 DEF LineSends, ShiftOut
    <3>3. QED
      BY <1>3, <3>1, <3>2
  <2>3. QED
    BY <2>1, <2>2, FifoLeft
<1>4. CASE RxLevel \/ RxCopy \/ Echo \/ NextPart \/ RxDone \/ Line
  <2>1. uart'.tx = uart.tx
    <3>1. uart' = uart \/ (\E ier : uart' = [uart EXCEPT !.ier = ier])
            \/ (\E rx : uart' = [uart EXCEPT !.rx = rx]) \/ uart' = [uart EXCEPT !.overrun = FALSE]
      BY <1>4 DEF RxLevel, RxCopy, Echo, NextPart, RxDone, Line, fifo_read, line_status_get,
         ier_mask_set_helper, ier_mask_clr_helper
    <3>2. QED
      BY <1>1, <3>1
  <2>2. isr'.at # "TxCopy"
    <3>1. isr \in [at : {"None", "RxLevel", "RxCopy", "Echo", "TxLevel", "TxCopy", "Line"},
                   copy_size : Nat, echo : Seq(Seq(Int))]
      BY DEF IInv, IsrOK
    <3>2. CASE RxLevel
      BY <3>1, <3>2 DEF RxLevel
    <3>3. CASE RxCopy
      <4> DEFINE bytes == FirstBytes(isr.copy_size)
                 part1 == Part1(RxEnd, isr.copy_size)
                 parts == IF buffer.echo_enable THEN <<SubSeq(bytes, 1, part1), Rest(bytes, part1)>>
                                                ELSE <<>>
      <4>1. isr' = [isr EXCEPT !.at = "Echo", !.echo = parts]
        BY <3>3 DEF RxCopy
      <4> HIDE DEF parts
      <4>2. QED
        BY <3>1, <4>1
    <3>4. CASE Echo
      <4>1. isr.at = "Echo" /\ (\E echo : isr' = [isr EXCEPT !.echo = echo])
        BY <3>4 DEF Echo
      <4>2. QED
        BY <3>1, <4>1
    <3>5. CASE NextPart
      BY <3>1, <3>5 DEF NextPart
    <3>6. CASE RxDone \/ Line
      BY <3>6 DEF RxDone, Line, NoInt
    <3>7. QED
      BY <1>4, <3>2, <3>3, <3>4, <3>5, <3>6
  <2>3. QED
    BY <1>1, <2>1, <2>2, FifoLeft
<1>5. CASE TxLevel
  <2> DEFINE n == Min2(FifoSize - Len(uart.tx), buffer.tx_level)
  <2>1. uart' = uart /\ isr'.copy_size = n
    BY <1>5 DEF TxLevel, fifo_level_get_tx, IInv, IsrOK
  <2>2. buffer.tx_level \in Nat
    BY StateTypes
  <2>3. n <= FifoSize - Len(uart.tx)
    BY <1>1, <2>2 DEF Min2
  <2>4. n \in Int
    BY <1>1, <2>2 DEF Min2
  <2> HIDE DEF n
  <2>5. QED
    BY <1>1, <2>1, <2>3, <2>4 DEF FifoKept
<1>6. CASE TxCopy
  <2> DEFINE a == Ring(buffer.tx_buffer, buffer.tx_start, isr.copy_size)
  <2>1. isr.at = "TxCopy" /\ isr'.at = "None" /\ uart'.tx = uart.tx \o a
    BY <1>1, <1>6 DEF TxCopy, fifo_write, NoInt
  <2>2. isr.copy_size \in Nat /\ isr.copy_size <= buffer.tx_level
    BY <2>1 DEF IInv, IsrOK
  <2>3. a \in Seq(Int) /\ Len(a) = isr.copy_size
    <3>1. /\ buffer.tx_level \in 0..BufferSize /\ buffer.tx_start \in 0 .. BufferSize - 1
          /\ buffer.tx_buffer \in Rings
      BY StateTypes
    <3>2. isr.copy_size \in 0..BufferSize
      BY <1>1, <2>2, <3>1
    <3>3. QED
      BY <3>1, <3>2, RingType
  <2> HIDE DEF a
  <2>4. Len(uart.tx \o a) = Len(uart.tx) + Len(a)
    BY <1>1, <2>3, ConcatProperties
  <2>5. QED
    BY <2>1, <2>3, <2>4 DEF FifoKept
<1>7. QED
  BY <1>2, <1>3, <1>4, <1>5, <1>6 DEF Next, Handler

\* RingsIntact: what the RX ring and the UART hold is what was received and not yet read, in
\* order, and what the TX ring and the UART hold is what was written or echoed and not yet sent,
\* for rings of any size, wherever they wrap and wherever the handler interrupts a call.  A write
\* of the program copies behind what it has found in the TX ring and then raises the level, with
\* the transmit interrupt disabled; the echo calls the same write in the receive interrupt, which
\* is not: hence only one of the two may write.  The transmit FIFO, into which the handler copies
\* while bytes wait in it and the line goes on, is never handed more than it takes.
THEOREM RingsStayIntact ==
  ASSUME OneWriter
  PROVE  Spec => []RingsIntact
<1>1. BufferInit => FifoKept
  <2>1. BufferInit => uart.tx = <<>> /\ isr.at = "None" /\ FifoSize \in Nat
    BY FifoAssumption DEF BufferInit, Init, NoInt
  <2>2. QED
    BY <2>1 DEF FifoKept
<1>2. IInv /\ FifoKept /\ [Next]_vars => FifoKept'
  BY FifoStep
<1>3. IInv /\ FifoKept => RingsIntact
  BY DEF IInv, Typed, FifoKept, RxIntact, TxIntact, RingsIntact
<1>4. QED
  BY <1>1, <1>2, <1>3, Inductive, PTL DEF Spec

\* InterruptsArmed: outside the calls that disable it, the receive interrupt is enabled unless the RX
\* ring is full, and the transmit interrupt if there is anything to send, although calls write
\* back an enable register that the handler may have changed since they read it.
THEOREM InterruptsStayArmed ==
  ASSUME EchoModes = {}
  PROVE  Spec => []InterruptsArmed
<1>1. IInv => InterruptsArmed
  BY DEF IInv, Armed
<1>2. OneWriter
  BY DEF OneWriter
<1>3. QED
  BY <1>1, <1>2, Inductive, PTL
=============================================================================
