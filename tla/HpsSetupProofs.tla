--------------------------- MODULE HpsSetupProofs ---------------------------
(***************************************************************************)
(* Proofs about HpsSetup, for any banks, interrupts, preloaders, lines and *)
(* settings: between two calls the handle knows whether the UART has a     *)
(* divisor and its FIFOs (HandlesMatch), main's setup leaves no window in  *)
(* which an interrupt meets what is not there yet (SetupIsSafe), and a     *)
(* callback gets the context it was registered with (ContextsMatch).       *)
(***************************************************************************)
EXTENDS HpsSetup, TLAPS, WellFoundedInduction

(***************************************************************************)
(* What is left of a call.                                                 *)
(***************************************************************************)
IsCall(s) == \E S : s \in Seq(S)

\* Two parts of a call, one after the other.
LEMMA Concat ==
  ASSUME NEW s, NEW t, IsCall(s), IsCall(t)
  PROVE  /\ IsCall(s \o t)
         /\ Len(s) \in Nat /\ Len(t) \in Nat /\ Len(s \o t) = Len(s) + Len(t)
         /\ \A k \in 1..Len(s) : (s \o t)[k] = s[k]
         /\ \A k \in 1..Len(t) : (s \o t)[Len(s) + k] = t[k]
         /\ \A k \in 1..Len(s \o t) :
              \/ k \in 1..Len(s)
              \/ k - Len(s) \in 1..Len(t) /\ k = Len(s) + (k - Len(s))
<1>1. PICK S, T : s \in Seq(S) /\ t \in Seq(T)
  BY DEF IsCall
<1> DEFINE U == S \cup T
<1>2. s \in Seq(U) /\ t \in Seq(U)
  BY <1>1
<1> HIDE DEF U
<1>3. /\ s \o t \in Seq(U)
      /\ Len(s) \in Nat /\ Len(t) \in Nat /\ Len(s \o t) = Len(s) + Len(t)
      /\ \A k \in 1..Len(s) : (s \o t)[k] = s[k]
      /\ \A k \in 1..Len(t) : (s \o t)[Len(s) + k] = t[k]
  BY <1>2
<1>4. QED
  BY <1>3 DEF IsCall

\* What is left after the first access.
LEMMA Rest ==
  ASSUME NEW s, IsCall(s), s # <<>>
  PROVE  /\ IsCall(Tail(s)) /\ Head(s) = s[1]
         /\ Len(s) \in Nat \ {0} /\ Len(Tail(s)) = Len(s) - 1
         /\ \A k \in 1..Len(Tail(s)) : Tail(s)[k] = s[k + 1] /\ k + 1 \in 2..Len(s)
         /\ \A k \in 2..Len(s) : k - 1 \in 1..Len(Tail(s)) /\ Tail(s)[k - 1] = s[k]
         /\ Tail(s) = <<>> <=> Len(s) = 1
<1>1. PICK S : s \in Seq(S)
  BY DEF IsCall
<1>2. /\ Tail(s) \in Seq(S) /\ Head(s) = s[1]
      /\ Len(s) \in Nat \ {0} /\ Len(Tail(s)) = Len(s) - 1
      /\ \A k \in 1..Len(Tail(s)) : Tail(s)[k] = s[k + 1]
  BY <1>1
<1>3. Tail(s) = <<>> <=> Len(s) = 1
  BY <1>1, <1>2
<1>4. \A k \in 2..Len(s) : k - 1 \in 1..Len(Tail(s)) /\ Tail(s)[k - 1] = s[k]
  <2> SUFFICES ASSUME NEW k \in 2..Len(s)
               PROVE  k - 1 \in 1..Len(Tail(s)) /\ Tail(s)[k - 1] = s[k]
    OBVIOUS
  <2>1. k - 1 \in 1..Len(Tail(s)) /\ (k - 1) + 1 = k
    BY <1>2
  <2>2. QED
    BY <1>2, <2>1
<1>5. QED
  BY <1>2, <1>3, <1>4 DEF IsCall

\* The call that does nothing.
LEMMA NoAccess == IsCall(<<>>) /\ Len(<<>>) = 0
<1>1. <<>> \in Seq({})
  OBVIOUS
<1>2. QED
  BY <1>1 DEF IsCall

\* A call of one access ...
LEMMA OneAccess ==
  ASSUME NEW a
  PROVE  IsCall(<<a>>) /\ Len(<<a>>) = 1 /\ <<a>>[1] = a
<1>1. <<a>> \in Seq({a})
  OBVIOUS
<1>2. QED
  BY <1>1 DEF IsCall

\* ... of two ...
LEMMA TwoAccesses ==
  ASSUME NEW a, NEW b
  PROVE  IsCall(<<a, b>>) /\ Len(<<a, b>>) = 2 /\ <<a, b>>[1] = a /\ <<a, b>>[2] = b
<1>1. <<a, b>> \in Seq({a, b})
  OBVIOUS
<1>2. QED
  BY <1>1 DEF IsCall

\* ... and of three.
LEMMA ThreeAccesses ==
  ASSUME NEW a, NEW b, NEW c
  PROVE  /\ IsCall(<<a, b, c>>) /\ Len(<<a, b, c>>) = 3
         /\ <<a, b, c>>[1] = a /\ <<a, b, c>>[2] = b /\ <<a, b, c>>[3] = c
<1>1. <<a, b, c>> \in Seq({a, b, c})
  OBVIOUS
<1>2. QED
  BY <1>1 DEF IsCall

(***************************************************************************)
(* The least of a set of numbers.                                          *)
(***************************************************************************)
\* A set of numbers has a least one: what stands in for an induction.
LEMMA LeastNat ==
  ASSUME NEW T, T \subseteq Nat, T # {}
  PROVE  \E x \in T : \A y \in T : x <= y
<1> DEFINE Less == {ss \in Nat \X Nat : ss[1] < ss[2]}
<1>1. IsWellFoundedOn(Less, Nat)
  BY NatLessThanWellFounded DEF OpToRel
<1> HIDE DEF Less
<1>2. \E x \in T : \A y \in T : ~(<<y, x>> \in Less)
  BY <1>1, WFMin
<1>3. ASSUME NEW x \in T, NEW y \in T PROVE <<y, x>> \in Less <=> ~(x <= y)
  <2>1. x \in Nat /\ y \in Nat
    OBVIOUS
  <2>2. QED
    BY <2>1 DEF Less
<1>4. PICK x \in T : \A y \in T : ~(<<y, x>> \in Less)
  BY <1>2
<1>5. \A y \in T : x <= y
  BY <1>3, <1>4
<1>6. QED
  BY <1>5

\* Of the interrupts that can be signalled there is one of highest priority.
LEMMA HighestSignalled ==
  ASSUME NEW asserted, Signalled(asserted) # {}, gic.icdiser \subseteq Implemented,
         gic.icdipr \in [Implemented -> Nat]
  PROVE  Highest(asserted) \in Signalled(asserted)
<1> DEFINE S == Signalled(asserted)
           P == {gic.icdipr[i] : i \in S}
<1>1. S \subseteq Implemented /\ Implemented \subseteq Nat
  BY InterruptsAssumption DEF Signalled
<1> HIDE DEF S
<1>2. P \subseteq Nat /\ P # {}
  BY <1>1 DEF S
<1>3. PICK m \in P : \A p \in P : m <= p
  <2> HIDE DEF P
  <2>1. QED
    BY <1>2, LeastNat
<1> DEFINE M == {i \in S : gic.icdipr[i] = m}
<1>4. M \subseteq Nat /\ M # {}
  BY <1>1, <1>3
<1>5. PICK i \in M : \A j \in M : i <= j
  <2> HIDE DEF M
  <2>1. QED
    BY <1>4, LeastNat
<1>6. \A j \in S \ {i} :
        gic.icdipr[i] < gic.icdipr[j] \/ (gic.icdipr[i] = gic.icdipr[j] /\ i < j)
  <2> SUFFICES ASSUME NEW j \in S \ {i}
               PROVE  gic.icdipr[i] < gic.icdipr[j] \/ (gic.icdipr[i] = gic.icdipr[j] /\ i < j)
    OBVIOUS
  <2>1. /\ gic.icdipr[i] = m /\ m <= gic.icdipr[j] /\ i \in Nat /\ j \in Nat /\ i # j
        /\ gic.icdipr[i] \in Nat /\ gic.icdipr[j] \in Nat
    BY <1>1, <1>3, <1>5
  <2>2. gic.icdipr[j] = m => i <= j
    BY <1>5
  <2>3. QED
    BY <2>1, <2>2
<1>7. \E i_1 \in S : \A j \in S \ {i_1} :
        gic.icdipr[i_1] < gic.icdipr[j] \/ (gic.icdipr[i_1] = gic.icdipr[j] /\ i_1 < j)
  BY <1>5, <1>6
<1>8. QED
  BY <1>7 DEF Highest, S

(***************************************************************************)
(* alt_int_global_init                                                     *)
(***************************************************************************)
LastBank == Provision \div 32

\* The definition of Banks is one: the function can be made from the last bank on.
LEMMA BanksDefined ==
  Banks = [n \in 0..LastBank |->
             IF n = LastBank THEN <<>>
             ELSE When(Bank(n) # {}, DiscoverBank(n)) \o Banks[n + 1]]
<1> DEFINE BanksAt(g, n) == IF n = LastBank THEN <<>>
                        ELSE When(Bank(n) # {}, DiscoverBank(n)) \o g[n + 1]
           From(g, m) == g = [n \in 0..LastBank |-> g[n]] /\ \A n \in m..LastBank : g[n] = BanksAt(g, n)
           T == {m \in 0..LastBank : \E g : From(g, m)}
<1>1. LastBank \in Nat
  BY InterruptsAssumption DEF LastBank
<1>2. LastBank \in T
  <2> DEFINE g == [n \in 0..LastBank |-> <<>>]
  <2>1. From(g, LastBank)
    BY <1>1
  <2>2. QED
    BY <1>1, <2>1
<1>3. PICK m \in T : \A n \in T : m <= n
  <2>1. T \subseteq Nat /\ T # {}
    BY <1>1, <1>2
  <2> HIDE DEF T
  <2>2. QED
    BY <2>1, LeastNat
<1>4. m = 0
  <2> SUFFICES ASSUME m # 0 PROVE FALSE
    OBVIOUS
  <2>1. m \in Nat /\ m - 1 \in 0..LastBank /\ m - 1 < LastBank /\ m <= LastBank
    BY <1>1, <1>3
  <2>2. PICK g : From(g, m)
    BY <1>3
  <2> DEFINE h == [n \in 0..LastBank |-> IF n = m - 1 THEN BanksAt(g, n) ELSE g[n]]
  <2>3. \A n \in (m - 1)..LastBank : h[n] = BanksAt(h, n)
    <3> SUFFICES ASSUME NEW n \in (m - 1)..LastBank PROVE h[n] = BanksAt(h, n)
      OBVIOUS
    <3>1. n \in 0..LastBank /\ (n # LastBank => n + 1 \in 0..LastBank /\ n + 1 # m - 1)
      BY <1>1, <2>1
    <3>2. n # LastBank => h[n + 1] = g[n + 1]
      BY <3>1
    <3>3. BanksAt(h, n) = BanksAt(g, n)
      BY <3>2
    <3>4. n # m - 1 => n \in m..LastBank
      BY <1>1, <2>1
    <3>5. h[n] = BanksAt(g, n)
      BY <2>2, <3>1, <3>4
    <3>6. QED
      BY <3>3, <3>5
  <2>4. From(h, m - 1)
    BY <2>3
  <2> HIDE DEF h
  <2>5. m - 1 \in T
    BY <2>1, <2>4
  <2> HIDE DEF T
  <2>6. QED
    BY <1>3, <2>1, <2>5
<1>5. PICK g : From(g, 0)
  BY <1>3, <1>4
<1>6. g = [n \in 0..LastBank |-> BanksAt(g, n)]
  BY <1>5
<1>7. QED
  BY <1>6 DEF Banks, LastBank

\* Access a turns interrupt i off.
TurnsOff(a, i) == a.op = "bits" /\ a.reg = "icdiser" /\ i \in a.clr /\ i \notin a.set

\* A program turns interrupts on only to see which there are: each is turned off again.
TurnedOff(t) ==
  \A k \in 1..Len(t), i \in Implemented :
    t[k].op = "bits" /\ i \in t[k].set => \E j \in 1..Len(t) : k < j /\ TurnsOff(t[j], i)

Discovers(t) ==
  \A k \in 1..Len(t) :
    \/ t[k] \in {Bits("icdiser", c, s) : c \in SUBSET Implemented, s \in SUBSET Implemented}
    \/ \E b : t[k] = Discover(b)

\* Two programs that discover one after the other are one that discovers.
LEMMA TurnedOffConcat ==
  ASSUME NEW s, NEW t, IsCall(s), IsCall(t), TurnedOff(s), TurnedOff(t), Discovers(s), Discovers(t)
  PROVE  TurnedOff(s \o t) /\ Discovers(s \o t)
<1> DEFINE u == s \o t
<1>0. /\ IsCall(u) /\ Len(s) \in Nat /\ Len(t) \in Nat /\ Len(u) = Len(s) + Len(t)
      /\ \A k \in 1..Len(s) : u[k] = s[k]
      /\ \A k \in 1..Len(t) : u[Len(s) + k] = t[k]
      /\ \A k \in 1..Len(u) : k \in 1..Len(s)
                              \/ (k - Len(s) \in 1..Len(t) /\ k = Len(s) + (k - Len(s)))
  BY Concat
<1> HIDE DEF u
<1>1. ASSUME NEW k \in 1..Len(u), NEW i \in Implemented, u[k].op = "bits", i \in u[k].set
      PROVE  \E j \in 1..Len(u) : k < j /\ TurnsOff(u[j], i)
  <2>1. CASE k \in 1..Len(s)
    <3>1. PICK j \in 1..Len(s) : k < j /\ TurnsOff(s[j], i)
      BY <1>0, <1>1, <2>1 DEF TurnedOff
    <3>2. j \in 1..Len(u) /\ u[j] = s[j]
      BY <1>0
    <3>3. QED
      BY <3>1, <3>2
  <2>2. CASE k - Len(s) \in 1..Len(t) /\ k = Len(s) + (k - Len(s))
    <3>1. u[k] = t[k - Len(s)]
      BY <1>0, <2>2
    <3>2. PICK j \in 1..Len(t) : k - Len(s) < j /\ TurnsOff(t[j], i)
      BY <1>1, <2>2, <3>1 DEF TurnedOff
    <3>3. Len(s) + j \in 1..Len(u) /\ u[Len(s) + j] = t[j] /\ k < Len(s) + j
      BY <1>0, <3>2
    <3>4. QED
      BY <3>2, <3>3
  <2>3. QED
    BY <1>0, <2>1, <2>2
<1>2. ASSUME NEW k \in 1..Len(u)
      PROVE  \/ u[k] \in {Bits("icdiser", c, r) : c \in SUBSET Implemented, r \in SUBSET Implemented}
             \/ \E b : u[k] = Discover(b)
  <2>1. CASE k \in 1..Len(s)
    BY <1>0, <2>1 DEF Discovers
  <2>2. CASE k - Len(s) \in 1..Len(t) /\ k = Len(s) + (k - Len(s))
    <3>1. u[k] = t[k - Len(s)]
      BY <1>0, <2>2
    <3>2. QED
      BY <2>2, <3>1 DEF Discovers
  <2>3. QED
    BY <1>0, <2>1, <2>2
<1>3. TurnedOff(u)
  BY <1>1 DEF TurnedOff
<1>4. Discovers(u)
  BY <1>2 DEF Discovers
<1>5. QED
  BY <1>3, <1>4 DEF u

\* The three accesses for a bank enable its interrupts, look and turn them all off.
LEMMA BankTurnedOff ==
  ASSUME NEW n
  PROVE  /\ IsCall(DiscoverBank(n)) /\ Len(DiscoverBank(n)) = 3
         /\ TurnedOff(DiscoverBank(n)) /\ Discovers(DiscoverBank(n))
         /\ \A i \in Bank(n) : TurnsOff(DiscoverBank(n)[3], i)
<1> DEFINE t == DiscoverBank(n)
<1>1. /\ IsCall(t) /\ Len(t) = 3 /\ t[1] = Bits("icdiser", {}, Bank(n)) /\ t[2] = Discover(Bank(n))
      /\ t[3] = Bits("icdiser", Bank(n), {})
  BY ThreeAccesses DEF DiscoverBank
<1> HIDE DEF t
<1>2. Bank(n) \subseteq Implemented
  BY DEF Bank
<1>3. \A i \in Bank(n) : TurnsOff(t[3], i)
  BY <1>1 DEF TurnsOff, Bits
<1>4. TurnedOff(t)
  <2> SUFFICES ASSUME NEW k \in 1..3, NEW i \in Implemented, t[k].op = "bits", i \in t[k].set
               PROVE  \E j \in 1..3 : k < j /\ TurnsOff(t[j], i)
    BY <1>1 DEF TurnedOff
  <2>1. k = 1 /\ i \in Bank(n)
    BY <1>1 DEF Bits, Discover
  <2>2. QED
    BY <1>3, <2>1
<1>5. Discovers(t)
  BY <1>1, <1>2 DEF Discovers
<1>6. QED
  BY <1>1, <1>3, <1>4, <1>5 DEF t

\* From any bank on, all interrupts are turned off.
LEMMA AllTurnedOff ==
  /\ IsCall(Banks[0]) /\ TurnedOff(Banks[0]) /\ Discovers(Banks[0])
  /\ \A i \in Implemented : \E j \in 1..Len(Banks[0]) : TurnsOff(Banks[0][j], i)
<1> DEFINE Good(n) == /\ IsCall(Banks[n]) /\ TurnedOff(Banks[n]) /\ Discovers(Banks[n])
                      /\ \A i \in Implemented : i \div 32 >= n =>
                           \E j \in 1..Len(Banks[n]) : TurnsOff(Banks[n][j], i)
           T == {n \in 0..LastBank : Good(n)}
<1>1. /\ LastBank \in Nat /\ Implemented \subseteq Nat
      /\ \A i \in Implemented : i \div 32 \in 0..(LastBank - 1)
  <2>1. Provision \in Nat /\ Provision = 32 * LastBank /\ LastBank \in Nat
    BY InterruptsAssumption DEF LastBank
  <2>2. QED
    BY <2>1, InterruptsAssumption
<1>2. LastBank \in T
  <2>1. Banks[LastBank] = <<>>
    BY <1>1, BanksDefined
  <2>2. Good(LastBank)
    BY <1>1, <2>1, NoAccess DEF TurnedOff, Discovers
  <2> HIDE DEF Good
  <2>3. QED
    BY <1>1, <2>2
<1>3. PICK m \in T : \A n \in T : m <= n
  <2>1. T \subseteq Nat /\ T # {}
    BY <1>1, <1>2
  <2> HIDE DEF T
  <2>2. QED
    BY <2>1, LeastNat
<1>4. m = 0
  <2> SUFFICES ASSUME m # 0 PROVE FALSE
    OBVIOUS
  <2> DEFINE n == m - 1
             s == When(Bank(n) # {}, DiscoverBank(n))
             t == Banks[m]
             u == Banks[n]
  <2>1. m \in Nat /\ n \in 0..LastBank /\ n # LastBank /\ n + 1 = m /\ n < m /\ Good(m)
    <3>1. m \in 0..LastBank /\ Good(m)
      BY <1>3
    <3> HIDE DEF Good, T
    <3>2. m \in Nat /\ n \in 0..LastBank /\ n # LastBank /\ n + 1 = m /\ n < m
      BY <1>1, <3>1
    <3>3. QED
      BY <3>1, <3>2
  <2>2. u = s \o t
    BY <2>1, BanksDefined
  <2>3. /\ IsCall(s) /\ TurnedOff(s) /\ Discovers(s)
        /\ Bank(n) # {} => Len(s) = 3 /\ \A i \in Bank(n) : TurnsOff(s[3], i)
    <3>1. CASE Bank(n) = {}
      BY <3>1, NoAccess DEF When, TurnedOff, Discovers
    <3>2. CASE Bank(n) # {}
      BY <3>2, BankTurnedOff DEF When
    <3>3. QED
      BY <3>1, <3>2
  <2>4. IsCall(t) /\ TurnedOff(t) /\ Discovers(t)
    BY <2>1
  <2>5. \A i \in Implemented : i \div 32 >= m => \E j \in 1..Len(t) : TurnsOff(t[j], i)
    BY <2>1
  <2> HIDE DEF s, t, u, Good
  <2>6. TurnedOff(u) /\ Discovers(u)
    BY <2>2, <2>3, <2>4, TurnedOffConcat
  <2>7. /\ IsCall(u) /\ Len(s) \in Nat /\ Len(t) \in Nat /\ Len(u) = Len(s) + Len(t)
        /\ \A k \in 1..Len(s) : u[k] = s[k]
        /\ \A k \in 1..Len(t) : u[Len(s) + k] = t[k]
    BY <2>2, <2>3, <2>4, Concat
  <2>8. ASSUME NEW i \in Implemented, i \div 32 >= n
        PROVE  \E j \in 1..Len(u) : TurnsOff(u[j], i)
    <3>1. CASE i \div 32 >= m
      <4>1. PICK j \in 1..Len(t) : TurnsOff(t[j], i)
        BY <2>5, <3>1
      <4>2. Len(s) + j \in 1..Len(u) /\ u[Len(s) + j] = t[j]
        BY <2>7
      <4>3. QED
        BY <4>1, <4>2
    <3>2. CASE ~(i \div 32 >= m)
      <4>1. i \div 32 = n
        BY <1>1, <2>1, <2>8, <3>2
      <4>2. i \in Bank(n)
        BY <4>1 DEF Bank
      <4>3. Len(s) = 3 /\ TurnsOff(s[3], i) /\ 3 \in 1..Len(u) /\ u[3] = s[3]
        BY <2>3, <2>7, <4>2
      <4>4. QED
        BY <4>3
    <3>3. QED
      BY <3>1, <3>2
  <2>9. Good(n)
    BY <2>6, <2>7, <2>8 DEF Good, u
  <2>10. n \in T
    BY <2>1, <2>9
  <2> HIDE DEF T
  <2>11. QED
    BY <1>3, <2>1, <2>10
<1>5. Good(0)
  BY <1>3, <1>4
<1>6. QED
  BY <1>1, <1>5

(***************************************************************************)
(* What the accesses do to the interrupt controller and its driver.        *)
(***************************************************************************)
PlainAccess(a) ==
  \/ /\ a.op = "bits" /\ a.reg \in {"icdisr", "icdiser", "icdispr", "icdicfr"}
     /\ a.clr \subseteq Implemented /\ a.set \subseteq Implemented
  \/ a.op = "ctl" /\ a.reg \in {"icddcr", "iccicr"}
  \/ a.op = "put" /\ a.reg = "icdipr" /\ a.val \in Nat /\ a.id \in Implemented
  \/ a.op = "put" /\ a.reg = "icdiptr"
  \/ a.op = "word" /\ a.reg \in {"iccpmr", "iccbpr", "iccabpr"}
  \/ a.op \in {"static", "discover", "cpsr"}

GicAccesses(a) ==
  /\ a.dev = "gic"
  /\ PlainAccess(a) \/ (a.op = "dispatch" /\ a.id \in Implemented /\ a.field \in {"callback", "context"})

\* The accesses left belong to a call of alt_interrupt.c ...
GicCall(t) == IsCall(t) /\ \A k \in 1..Len(t) : GicAccesses(t[k])

\* ... other than a registration.
PlainCall(t) == IsCall(t) /\ \A k \in 1..Len(t) : t[k].dev = "gic" /\ PlainAccess(t[k])

GicFields == {"icddcr", "icdisr", "icdiser", "icdispr", "icdabr", "icdipr", "icdiptr", "icdicfr",
              "iccicr", "iccpmr", "iccbpr", "iccabpr"}

GicTyped ==
  /\ DOMAIN gic = GicFields
  /\ gic.icdiser \subseteq Implemented /\ gic.icdipr \in [Implemented -> Nat]
  /\ DOMAIN driver = {"flag", "dispatch", "count_cpu"}
  /\ driver.flag \subseteq Implemented /\ DOMAIN driver.dispatch = Implemented
  /\ \A i \in Implemented : DOMAIN driver.dispatch[i] = {"callback", "context"}

GicMoves(a) ==
  /\ gic'.icdiser = IF a.op = "bits" /\ a.reg = "icdiser" THEN (gic.icdiser \ a.clr) \cup a.set
                                                          ELSE gic.icdiser
  /\ irq' = IF a.op = "cpsr" THEN a.irq ELSE irq
  /\ a.op = "static" => driver'.dispatch = [i \in Implemented |-> NoCallback]
  /\ a.op = "dispatch" => driver'.dispatch = [driver.dispatch EXCEPT ![a.id][a.field] = a.val]
  /\ a.op \notin {"static", "dispatch"} => driver'.dispatch = driver.dispatch

\* One access of a call of alt_interrupt.c: what it may do to controller and driver.
LEMMA GicAccessMoves ==
  ASSUME GicTyped, NEW a, GicAccesses(a), GicAccess(a)
  PROVE  GicTyped' /\ GicMoves(a)
<1>0. /\ DOMAIN gic = GicFields /\ gic.icdiser \subseteq Implemented /\ gic.icdipr \in [Implemented -> Nat]
      /\ DOMAIN driver = {"flag", "dispatch", "count_cpu"}
      /\ driver.flag \subseteq Implemented /\ DOMAIN driver.dispatch = Implemented
      /\ \A i \in Implemented : DOMAIN driver.dispatch[i] = {"callback", "context"}
  BY DEF GicTyped
<1>1. CASE a.op = "bits"
  <2>1. /\ gic' = [gic EXCEPT ![a.reg] = (@ \ a.clr) \cup a.set] /\ irq' = irq /\ driver' = driver
        /\ a.reg \in {"icdisr", "icdiser", "icdispr", "icdicfr"}
        /\ a.clr \subseteq Implemented /\ a.set \subseteq Implemented
    BY <1>1 DEF GicAccess, GicAccesses, PlainAccess
  <2>2. DOMAIN gic' = GicFields
    BY <1>0, <2>1
  <2>3. gic'.icdipr = gic.icdipr
    BY <1>0, <2>1 DEF GicFields
  <2>4. gic'.icdiser = IF a.reg = "icdiser" THEN (gic.icdiser \ a.clr) \cup a.set ELSE gic.icdiser
    BY <1>0, <2>1 DEF GicFields
  <2>5. QED
    BY <1>0, <1>1, <2>1, <2>2, <2>3, <2>4 DEF GicTyped, GicMoves
<1>2. CASE a.op = "ctl"
  <2>1. /\ gic' = [gic EXCEPT ![a.reg] = (@ \ a.off) \cup a.on] /\ irq' = irq /\ driver' = driver
        /\ a.reg \in {"icddcr", "iccicr"}
    BY <1>2 DEF GicAccess, GicAccesses, PlainAccess
  <2>2. DOMAIN gic' = GicFields /\ gic'.icdipr = gic.icdipr /\ gic'.icdiser = gic.icdiser
    BY <1>0, <2>1 DEF GicFields
  <2>3. QED
    BY <1>0, <1>2, <2>1, <2>2 DEF GicTyped, GicMoves
<1>3. CASE a.op = "put"
  <2>1. /\ gic' = [gic EXCEPT ![a.reg][a.id] = a.val] /\ irq' = irq /\ driver' = driver
    BY <1>3 DEF GicAccess
  <2>2. CASE a.reg = "icdipr" /\ a.val \in Nat /\ a.id \in Implemented
    <3>1. /\ DOMAIN gic' = GicFields /\ gic'.icdiser = gic.icdiser
          /\ gic'.icdipr = [gic.icdipr EXCEPT ![a.id] = a.val]
      BY <1>0, <2>1, <2>2 DEF GicFields
    <3>2. gic'.icdipr \in [Implemented -> Nat]
      BY <1>0, <2>2, <3>1
    <3>3. QED
      BY <1>0, <1>3, <2>1, <3>1, <3>2 DEF GicTyped, GicMoves
  <2>3. CASE a.reg = "icdiptr"
    <3>1. /\ DOMAIN gic' = GicFields /\ gic'.icdiser = gic.icdiser /\ gic'.icdipr = gic.icdipr
      BY <1>0, <2>1, <2>3 DEF GicFields
    <3>2. QED
      BY <1>0, <1>3, <2>1, <3>1 DEF GicTyped, GicMoves
  <2>4. QED
    BY <1>3, <2>2, <2>3 DEF GicAccesses, PlainAccess
<1>4. CASE a.op = "word"
  <2>1. /\ gic' = [gic EXCEPT ![a.reg] = a.val] /\ irq' = irq /\ driver' = driver
        /\ a.reg \in {"iccpmr", "iccbpr", "iccabpr"}
    BY <1>4 DEF GicAccess, GicAccesses, PlainAccess
  <2>2. DOMAIN gic' = GicFields /\ gic'.icdipr = gic.icdipr /\ gic'.icdiser = gic.icdiser
    BY <1>0, <2>1 DEF GicFields
  <2>3. QED
    BY <1>0, <1>4, <2>1, <2>2 DEF GicTyped, GicMoves
<1>5. CASE a.op = "static"
  <2>1. /\ gic' = gic /\ irq' = irq
        /\ driver' = [flag |-> {}, dispatch |-> [i \in Implemented |-> NoCallback], count_cpu |-> Processors]
    BY <1>5 DEF GicAccess
  <2>2. /\ DOMAIN driver' = {"flag", "dispatch", "count_cpu"} /\ driver'.flag = {}
        /\ driver'.dispatch = [i \in Implemented |-> NoCallback]
    BY <2>1
  <2>3. \A i \in Implemented : driver'.dispatch[i] = NoCallback
    BY <2>2
  <2>4. DOMAIN NoCallback = {"callback", "context"}
    BY DEF NoCallback
  <2>5. DOMAIN driver'.dispatch = Implemented
    BY <2>2
  <2>6. \A i \in Implemented : DOMAIN driver'.dispatch[i] = {"callback", "context"}
    BY <2>3, <2>4
  <2>7. QED
    BY <1>0, <1>5, <2>1, <2>2, <2>5, <2>6 DEF GicTyped, GicMoves
<1>6. CASE a.op = "discover"
  <2>1. /\ gic' = gic /\ irq' = irq /\ driver' = [driver EXCEPT !.flag = @ \cup (gic.icdiser \cap a.bank)]
    BY <1>6 DEF GicAccess
  <2>2. /\ DOMAIN driver' = DOMAIN driver /\ driver'.flag = driver.flag \cup (gic.icdiser \cap a.bank)
        /\ driver'.dispatch = driver.dispatch
    BY <1>0, <2>1
  <2>3. QED
    BY <1>0, <1>6, <2>1, <2>2 DEF GicTyped, GicMoves
<1>7. CASE a.op = "dispatch"
  <2>1. /\ gic' = gic /\ irq' = irq /\ driver' = [driver EXCEPT !.dispatch[a.id][a.field] = a.val]
        /\ a.id \in Implemented /\ a.field \in {"callback", "context"}
    BY <1>7 DEF GicAccess, GicAccesses, PlainAccess
  <2>2. /\ DOMAIN driver' = DOMAIN driver /\ driver'.flag = driver.flag
        /\ driver'.dispatch = [driver.dispatch EXCEPT ![a.id][a.field] = a.val]
    BY <1>0, <2>1
  <2>3. DOMAIN driver'.dispatch = Implemented
    BY <1>0, <2>2
  <2>4. \A i \in Implemented : DOMAIN driver'.dispatch[i] = {"callback", "context"}
    <3>1. \A i \in Implemented : driver'.dispatch[i] =
            IF i = a.id THEN [driver.dispatch[i] EXCEPT ![a.field] = a.val] ELSE driver.dispatch[i]
      BY <1>0, <2>2
    <3>2. QED
      BY <1>0, <3>1
  <2>5. QED
    BY <1>0, <1>7, <2>1, <2>2, <2>3, <2>4 DEF GicTyped, GicMoves
<1>8. CASE a.op = "cpsr"
  <2>1. gic' = gic /\ driver' = driver /\ irq' = a.irq
    BY <1>8 DEF GicAccess
  <2>2. QED
    BY <1>0, <1>8, <2>1 DEF GicTyped, GicMoves
<1>9. QED
  BY <1>1, <1>2, <1>3, <1>4, <1>5, <1>6, <1>7, <1>8 DEF GicAccess

(***************************************************************************)
(* The calls of alt_interrupt.c.                                           *)
(***************************************************************************)
\* A refused call registers nothing.
LEMMA NonePlain == PlainCall(<<>>)
  BY NoAccess DEF PlainCall

\* One access that is no registration ...
LEMMA OnePlain ==
  ASSUME NEW a, a.dev = "gic", PlainAccess(a)
  PROVE  PlainCall(<<a>>)
<1>1. \A k \in 1..Len(<<a>>) : k = 1
  BY OneAccess
<1>2. QED
  BY <1>1, OneAccess DEF PlainCall

\* ... two ...
LEMMA TwoPlain ==
  ASSUME NEW a, NEW b, a.dev = "gic", b.dev = "gic", PlainAccess(a), PlainAccess(b)
  PROVE  PlainCall(<<a, b>>)
<1>1. \A k \in 1..Len(<<a, b>>) : k = 1 \/ k = 2
  BY TwoAccesses
<1>2. QED
  BY <1>1, TwoAccesses DEF PlainCall

\* ... and two programs of them.
LEMMA BothPlain ==
  ASSUME NEW s, NEW t, PlainCall(s), PlainCall(t)
  PROVE  PlainCall(s \o t)
<1>1. IsCall(s) /\ IsCall(t)
  BY DEF PlainCall
<1>2. /\ IsCall(s \o t)
      /\ \A k \in 1..Len(s) : (s \o t)[k] = s[k]
      /\ \A k \in 1..Len(t) : (s \o t)[Len(s) + k] = t[k]
      /\ \A k \in 1..Len(s \o t) :
           k \in 1..Len(s) \/ (k - Len(s) \in 1..Len(t) /\ k = Len(s) + (k - Len(s)))
  BY <1>1, Concat
<1>3. ASSUME NEW k \in 1..Len(s \o t) PROVE (s \o t)[k].dev = "gic" /\ PlainAccess((s \o t)[k])
  <2>1. CASE k \in 1..Len(s)
    BY <1>2, <2>1 DEF PlainCall
  <2>2. CASE k - Len(s) \in 1..Len(t) /\ k = Len(s) + (k - Len(s))
    <3>1. (s \o t)[k] = t[k - Len(s)]
      BY <1>2, <2>2
    <3>2. QED
      BY <2>2, <3>1 DEF PlainCall
  <2>3. QED
    BY <1>2, <2>1, <2>2
<1>4. QED
  BY <1>2, <1>3 DEF PlainCall

\* A program that is left out unless the arguments are right.
LEMMA WhenPlain ==
  ASSUME NEW c, NEW t, c => PlainCall(t)
  PROVE  PlainCall(When(c, t))
  BY NonePlain DEF When

\* The accesses the calls are made of.
LEMMA PlainOnes ==
  /\ \A reg \in {"icdisr", "icdiser", "icdispr", "icdicfr"}, clr \in SUBSET Implemented, set \in SUBSET Implemented :
       PlainCall(<<Bits(reg, clr, set)>>)
  /\ \A reg \in {"icddcr", "iccicr"} : \A off, on : PlainCall(<<Ctl(reg, off, on)>>)
  /\ \A id \in Implemented, val \in Nat : PlainCall(<<Put("icdipr", id, val)>>)
  /\ \A id, val : PlainCall(<<Put("icdiptr", id, val)>>)
  /\ \A reg \in {"iccpmr", "iccbpr", "iccabpr"} : \A val : PlainCall(<<Word(reg, val)>>)
  /\ PlainCall(<<Static>>)
<1>1. ASSUME NEW reg \in {"icdisr", "icdiser", "icdispr", "icdicfr"},
             NEW clr \in SUBSET Implemented, NEW set \in SUBSET Implemented
      PROVE  PlainCall(<<Bits(reg, clr, set)>>)
  <2>1. Bits(reg, clr, set).dev = "gic" /\ PlainAccess(Bits(reg, clr, set))
    BY DEF Bits, PlainAccess
  <2>2. QED
    BY <2>1, OnePlain
<1>2. ASSUME NEW reg \in {"icddcr", "iccicr"}, NEW off, NEW on
      PROVE  PlainCall(<<Ctl(reg, off, on)>>)
  <2>1. Ctl(reg, off, on).dev = "gic" /\ PlainAccess(Ctl(reg, off, on))
    BY DEF Ctl, PlainAccess
  <2>2. QED
    BY <2>1, OnePlain
<1>3. ASSUME NEW id \in Implemented, NEW val \in Nat PROVE PlainCall(<<Put("icdipr", id, val)>>)
  <2>1. Put("icdipr", id, val).dev = "gic" /\ PlainAccess(Put("icdipr", id, val))
    BY DEF Put, PlainAccess
  <2>2. QED
    BY <2>1, OnePlain
<1>4. ASSUME NEW id, NEW val PROVE PlainCall(<<Put("icdiptr", id, val)>>)
  <2>1. Put("icdiptr", id, val).dev = "gic" /\ PlainAccess(Put("icdiptr", id, val))
    BY DEF Put, PlainAccess
  <2>2. QED
    BY <2>1, OnePlain
<1>5. ASSUME NEW reg \in {"iccpmr", "iccbpr", "iccabpr"}, NEW val PROVE PlainCall(<<Word(reg, val)>>)
  <2>1. Word(reg, val).dev = "gic" /\ PlainAccess(Word(reg, val))
    BY DEF Word, PlainAccess
  <2>2. QED
    BY <2>1, OnePlain
<1>6. Static.dev = "gic" /\ PlainAccess(Static)
  BY DEF Static, PlainAccess
<1>7. QED
  BY <1>1, <1>2, <1>3, <1>4, <1>5, <1>6, OnePlain

\* alt_int_global_init registers nothing; all its accesses are in the controller.
LEMMA GlobalInitPlain == PlainCall(alt_int_global_init)
<1>1. PlainCall(<<Static>>) /\ PlainCall(alt_int_global_disable)
  BY PlainOnes DEF alt_int_global_disable
<1>2. IsCall(Banks[0]) /\ Discovers(Banks[0])
  BY AllTurnedOff
<1>3. /\ \A c \in SUBSET Implemented, s \in SUBSET Implemented :
           Bits("icdiser", c, s).dev = "gic" /\ PlainAccess(Bits("icdiser", c, s))
      /\ \A b : Discover(b).dev = "gic" /\ PlainAccess(Discover(b))
  BY DEF Bits, Discover, PlainAccess
<1>4. PlainCall(Banks[0])
  BY <1>2, <1>3 DEF Discovers, PlainCall
<1>5. PlainCall(<<Static>> \o alt_int_global_disable)
  BY <1>1, BothPlain
<1>6. PlainCall((<<Static>> \o alt_int_global_disable) \o Banks[0])
  BY <1>4, <1>5, BothPlain
<1>7. QED
  BY <1>6 DEF alt_int_global_init

\* Nor do the calls for one interrupt of the distributor ...
LEMMA DistributorPlain ==
  ASSUME GicTyped
  PROVE  /\ \A id : /\ PlainCall(alt_int_dist_secure_enable(id)) /\ PlainCall(alt_int_dist_secure_disable(id))
                    /\ PlainCall(alt_int_dist_enable(id)) /\ PlainCall(alt_int_dist_disable(id))
                    /\ PlainCall(alt_int_dist_pending_set(id)) /\ PlainCall(alt_int_dist_pending_clear(id))
         /\ \A id, priority : priority \in Nat => PlainCall(alt_int_dist_priority_set(id, priority))
         /\ \A id, target : PlainCall(alt_int_dist_target_set(id, target))
         /\ \A id, type : PlainCall(alt_int_dist_trigger_set(id, type))
         /\ \A id, filter, target, secure : PlainCall(alt_int_sgi_trigger(id, filter, target, secure))
<1>0. \A id : Valid(id) => id \in Implemented
  BY DEF Valid, GicTyped
<1>1. ASSUME NEW id
      PROVE  /\ PlainCall(alt_int_dist_secure_enable(id)) /\ PlainCall(alt_int_dist_secure_disable(id))
             /\ PlainCall(alt_int_dist_enable(id)) /\ PlainCall(alt_int_dist_disable(id))
             /\ PlainCall(alt_int_dist_pending_set(id)) /\ PlainCall(alt_int_dist_pending_clear(id))
  <2>1. Valid(id) => \A reg \in {"icdisr", "icdiser", "icdispr"} :
          PlainCall(<<Bits(reg, {id}, {})>>) /\ PlainCall(<<Bits(reg, {}, {id})>>)
    <3>1. Valid(id) => {id} \in SUBSET Implemented /\ {} \in SUBSET Implemented
      BY <1>0
    <3>2. QED
      BY <3>1, PlainOnes
  <2>2. QED
    BY <2>1, NonePlain
    DEF alt_int_dist_secure_enable, alt_int_dist_secure_disable, alt_int_dist_enable, alt_int_dist_disable,
        alt_int_dist_pending_set, alt_int_dist_pending_clear, When
<1>2. ASSUME NEW id, NEW priority, priority \in Nat
      PROVE  PlainCall(alt_int_dist_priority_set(id, priority))
  BY <1>0, <1>2, PlainOnes, NonePlain DEF alt_int_dist_priority_set, When
<1>3. ASSUME NEW id, NEW target PROVE PlainCall(alt_int_dist_target_set(id, target))
  BY PlainOnes, NonePlain DEF alt_int_dist_target_set, When
<1>4. ASSUME NEW id, NEW type PROVE PlainCall(alt_int_dist_trigger_set(id, type))
  <2>1. ASSUME Valid(id), NEW x
        PROVE PlainCall(<<IF x = "EDGE" THEN Bits("icdicfr", {}, {id}) ELSE Bits("icdicfr", {id}, {})>>)
    <3>1. {id} \in SUBSET Implemented /\ {} \in SUBSET Implemented
      BY <1>0, <2>1
    <3>2. PlainCall(<<Bits("icdicfr", {}, {id})>>) /\ PlainCall(<<Bits("icdicfr", {id}, {})>>)
      BY <3>1, PlainOnes
    <3>3. QED
      BY <3>2
  <2>2. QED
    BY <2>1, NonePlain DEF alt_int_dist_trigger_set, When
<1>5. ASSUME NEW id, NEW filter, NEW target, NEW secure
      PROVE  PlainCall(alt_int_sgi_trigger(id, filter, target, secure))
  <2>1. id \in (0..15) \cap Implemented => PlainCall(<<Bits("icdispr", {}, {id})>>)
    BY PlainOnes
  <2>2. QED
    BY <2>1, NonePlain DEF alt_int_sgi_trigger, When
<1>6. QED
  BY <1>1, <1>2, <1>3, <1>4, <1>5

\* ... nor those for the controller as a whole and for the processor.
LEMMA ControllerPlain ==
  /\ PlainCall(alt_int_global_init)
  /\ PlainCall(alt_int_global_enable) /\ PlainCall(alt_int_global_disable)
  /\ PlainCall(alt_int_global_enable_ns) /\ PlainCall(alt_int_global_disable_ns)
  /\ PlainCall(alt_int_global_enable_all) /\ PlainCall(alt_int_global_disable_all)
  /\ PlainCall(alt_int_cpu_init) /\ PlainCall(alt_int_cpu_enable) /\ PlainCall(alt_int_cpu_disable)
  /\ PlainCall(alt_int_cpu_enable_ns) /\ PlainCall(alt_int_cpu_disable_ns)
  /\ PlainCall(alt_int_cpu_enable_all) /\ PlainCall(alt_int_cpu_disable_all)
  /\ \A set : PlainCall(alt_int_cpu_config_set(set))
  /\ \A mask : PlainCall(alt_int_cpu_priority_mask_set(mask))
  /\ \A point : PlainCall(alt_int_cpu_binary_point_set(point)) /\ PlainCall(alt_int_cpu_binary_point_set_ns(point))
<1>1. /\ PlainCall(alt_int_global_enable) /\ PlainCall(alt_int_global_disable)
      /\ PlainCall(alt_int_global_enable_ns) /\ PlainCall(alt_int_global_disable_ns)
      /\ PlainCall(alt_int_global_enable_all) /\ PlainCall(alt_int_global_disable_all)
      /\ PlainCall(alt_int_cpu_enable_ns) /\ PlainCall(alt_int_cpu_disable_ns)
      /\ PlainCall(alt_int_cpu_enable_all) /\ PlainCall(alt_int_cpu_disable_all)
      /\ \A set : PlainCall(alt_int_cpu_config_set(set))
  BY PlainOnes
  DEF alt_int_global_enable, alt_int_global_disable, alt_int_global_enable_ns, alt_int_global_disable_ns,
      alt_int_global_enable_all, alt_int_global_disable_all, alt_int_cpu_enable_ns, alt_int_cpu_disable_ns,
      alt_int_cpu_enable_all, alt_int_cpu_disable_all, alt_int_cpu_config_set
<1>2. PlainCall(alt_int_cpu_enable) /\ PlainCall(alt_int_cpu_disable)
  <2>1. \A b : Cpsr(b).dev = "gic" /\ PlainAccess(Cpsr(b))
    BY DEF Cpsr, PlainAccess
  <2>2. \A off, on : Ctl("iccicr", off, on).dev = "gic" /\ PlainAccess(Ctl("iccicr", off, on))
    BY DEF Ctl, PlainAccess
  <2>3. QED
    BY <2>1, <2>2, TwoPlain DEF alt_int_cpu_enable, alt_int_cpu_disable
<1>3. \A mask : PlainCall(alt_int_cpu_priority_mask_set(mask))
  BY PlainOnes, WhenPlain DEF alt_int_cpu_priority_mask_set
<1>4. \A point : PlainCall(alt_int_cpu_binary_point_set(point)) /\ PlainCall(alt_int_cpu_binary_point_set_ns(point))
  BY PlainOnes, WhenPlain DEF alt_int_cpu_binary_point_set, alt_int_cpu_binary_point_set_ns
<1>5. PlainCall(alt_int_cpu_init)
  BY <1>3, <1>4, BothPlain DEF alt_int_cpu_init
<1>6. QED
  BY <1>1, <1>2, <1>3, <1>4, <1>5, GlobalInitPlain

\* A registration is two assignments, or refused.
Registration(t, id, callback, context) ==
  t = <<Dispatch(id, "callback", callback), Dispatch(id, "context", context)>> /\ id \in Implemented

\* alt_int_isr_register is the registration of its arguments, or refused.
LEMMA RegisterCall ==
  ASSUME NEW id \in Implemented \cup {Provision}, NEW callback, NEW context
  PROVE  LET t == alt_int_isr_register(id, callback, context)
         IN  t = <<>> \/ Registration(t, id, callback, context)
<1>1. Provision \in Nat
  BY InterruptsAssumption
<1>2. ~(Provision < Provision)
  BY <1>1
<1>3. QED
  BY <1>2 DEF alt_int_isr_register, When, Registration

\* A registration is a call of alt_interrupt.c ...
LEMMA RegistrationGic ==
  ASSUME NEW t, NEW id, NEW callback, NEW context, Registration(t, id, callback, context)
  PROVE  GicCall(t)
<1>1. \A f \in {"callback", "context"} : \A x : GicAccesses(Dispatch(id, f, x))
  BY DEF Dispatch, GicAccesses, Registration
<1>2. t = <<Dispatch(id, "callback", callback), Dispatch(id, "context", context)>>
  BY DEF Registration
<1>3. /\ IsCall(t) /\ Len(t) = 2 /\ t[1] = Dispatch(id, "callback", callback) /\ t[2] = Dispatch(id, "context", context)
  BY <1>2, TwoAccesses
<1>4. QED
  BY <1>1, <1>3 DEF GicCall

\* ... and so is a call that registers nothing.
LEMMA PlainGic ==
  ASSUME NEW t, PlainCall(t)
  PROVE  GicCall(t) /\ \A k \in 1..Len(t) : t[k].op # "dispatch"
  BY DEF PlainCall, GicCall, GicAccesses, PlainAccess

(***************************************************************************)
(* What the accesses do to the UART and to its handle.                     *)
(***************************************************************************)
Sets(a, f) == a.op = "handle" /\ f \in DOMAIN a.new

UartAccesses(a) ==
  \/ a.op = "reg" /\ a.reg \in {"lcr", "ier", "mcr"}
  \/ a.op = "latch" /\ a.reg \in {"dll", "dlh"} /\ a.val \in Nat
  \/ a.op \in {"fcr", "srr", "rbr"}
  \/ a.op = "hold" /\ a.held \in BOOLEAN
  \/ /\ a.op = "handle"
     /\ \/ \E f \in {"located", "enabled", "stale"} : DOMAIN a.new = {f} /\ a.new[f] \in BOOLEAN
        \/ DOMAIN a.new = {"divisor"} /\ a.new["divisor"] \in Nat
        \/ DOMAIN a.new = {"fcr"}

HandleFields == {"device", "located", "divisor", "enabled", "fcr", "stale"}
UartFields   == {"dll", "dlh", "lcr", "ier", "mcr", "fcr", "rx", "overrun", "held"}

HandleTyped ==
  /\ DOMAIN handle = HandleFields
  /\ handle.located \in BOOLEAN /\ handle.enabled \in BOOLEAN /\ handle.stale \in BOOLEAN
  /\ handle.divisor \in Nat
  /\ DOMAIN uart = UartFields
  /\ uart.held \in BOOLEAN /\ uart.dll \in Nat /\ uart.dlh \in Nat

Lost == uart'.dll = 0 /\ uart'.dlh = 0 /\ uart'.fcr = {} /\ uart'.lcr = {}

Moves(a) ==
  /\ l4_sp' = l4_sp
  /\ DOMAIN handle' = HandleFields /\ handle'.device = handle.device
  /\ \A f \in HandleFields \ {"device"} : handle'[f] = IF Sets(a, f) THEN a.new[f] ELSE handle[f]
  /\ DOMAIN uart' = UartFields
  /\ a.op = "hold" => uart'.held = a.held /\ Lost
  /\ a.op # "hold" => uart'.held = uart.held
  /\ a.op = "srr" /\ "UR" \in a.set /\ Reached => Lost
  /\ ~(a.op = "hold" \/ (a.op = "srr" /\ "UR" \in a.set /\ Reached)) =>
       /\ \A r \in {"dll", "dlh"} :
            uart'[r] = IF Reached /\ a.op = "latch" /\ a.reg = r THEN a.val ELSE uart[r]
       /\ uart'.fcr = IF Reached /\ a.op = "fcr" THEN a.set \ {"RFIFOR", "XFIFOR"} ELSE uart.fcr
       /\ uart'.lcr = IF Reached /\ a.op = "reg" /\ a.reg = "lcr" THEN (uart.lcr \ a.off) \cup a.on
                                                                  ELSE uart.lcr

\* What a reset of the UART leaves.
LEMMA ResetFields ==
  /\ DOMAIN UartReset = UartFields /\ UartReset.held = FALSE
  /\ UartReset.dll = 0 /\ UartReset.dlh = 0 /\ UartReset.fcr = {} /\ UartReset.lcr = {}
  BY DEF UartReset, UartFields

\* An access sets the fields of the handle it is about, and no others.
LEMMA HandleMoves ==
  ASSUME HandleTyped, NEW a, UartAccesses(a), UartAccess(a)
  PROVE  /\ DOMAIN handle' = HandleFields /\ handle'.device = handle.device
         /\ \A f \in HandleFields \ {"device"} : handle'[f] = IF Sets(a, f) THEN a.new[f] ELSE handle[f]
<1>1. CASE a.op = "handle"
  <2>1. handle' = [f \in DOMAIN handle |-> IF f \in DOMAIN a.new THEN a.new[f] ELSE handle[f]]
    BY <1>1 DEF UartAccess
  <2>2. "device" \notin DOMAIN a.new
    BY <1>1 DEF UartAccesses
  <2>3. DOMAIN handle = HandleFields
    BY DEF HandleTyped
  <2>4. /\ DOMAIN handle' = HandleFields
        /\ \A f \in HandleFields : handle'[f] = IF f \in DOMAIN a.new THEN a.new[f] ELSE handle[f]
    BY <2>1, <2>3
  <2>5. QED
    BY <1>1, <2>2, <2>4 DEF Sets, HandleFields
<1>2. CASE a.op # "handle"
  BY <1>2 DEF UartAccess, Sets, HandleTyped
<1>3. QED
  BY <1>1, <1>2

\* An access reaches the latches, the FIFO register and the line register of a UART that is
\* located and not held in reset; a reset destroys them.
LEMMA UartMoves ==
  ASSUME HandleTyped, NEW a, UartAccesses(a), UartAccess(a)
  PROVE  /\ DOMAIN uart' = UartFields
         /\ a.op = "hold" => uart'.held = a.held /\ Lost
         /\ a.op # "hold" => uart'.held = uart.held
         /\ a.op = "srr" /\ "UR" \in a.set /\ Reached => Lost
         /\ ~(a.op = "hold" \/ (a.op = "srr" /\ "UR" \in a.set /\ Reached)) =>
              /\ \A r \in {"dll", "dlh"} :
                   uart'[r] = IF Reached /\ a.op = "latch" /\ a.reg = r THEN a.val ELSE uart[r]
              /\ uart'.fcr = IF Reached /\ a.op = "fcr" THEN a.set \ {"RFIFOR", "XFIFOR"} ELSE uart.fcr
              /\ uart'.lcr = IF Reached /\ a.op = "reg" /\ a.reg = "lcr" THEN (uart.lcr \ a.off) \cup a.on
                                                                         ELSE uart.lcr
<1>0. DOMAIN uart = UartFields /\ uart.held \in BOOLEAN
  BY DEF HandleTyped
<1>1. CASE a.op = "hold"
  <2>1. uart' = [UartReset EXCEPT !.held = a.held]
    BY <1>1 DEF UartAccess
  <2>2. QED
    BY <1>1, <2>1, ResetFields DEF UartFields, Lost
<1>2. CASE a.op # "hold" /\ (a.op = "handle" \/ ~Reached)
  <2>1. uart' = uart
    BY <1>2 DEF UartAccess, Reached
  <2>2. QED
    BY <1>0, <1>2, <2>1
<1>3. CASE Reached /\ a.op = "reg"
  <2>1. uart' = IF a.reg = "ier" /\ "DLAB" \in uart.lcr THEN uart
                ELSE [uart EXCEPT ![a.reg] = (@ \ a.off) \cup a.on]
    BY <1>3 DEF UartAccess, Reached
  <2>2. a.reg \in {"lcr", "ier", "mcr"}
    BY <1>3 DEF UartAccesses
  <2>3. QED
    BY <1>0, <1>3, <2>1, <2>2 DEF UartFields
<1>4. CASE Reached /\ a.op = "latch"
  <2>1. uart' = [uart EXCEPT ![a.reg] = a.val]
    BY <1>4 DEF UartAccess, Reached
  <2>2. a.reg \in {"dll", "dlh"}
    BY <1>4 DEF UartAccesses
  <2>3. QED
    BY <1>0, <1>4, <2>1, <2>2 DEF UartFields
<1>5. CASE Reached /\ a.op = "fcr"
  <2>1. uart' = FcrWritten(uart, a.set)
    BY <1>5 DEF UartAccess, Reached
  <2>2. /\ DOMAIN uart' = UartFields /\ uart'.fcr = a.set \ {"RFIFOR", "XFIFOR"}
        /\ uart'.held = uart.held /\ uart'.dll = uart.dll /\ uart'.dlh = uart.dlh /\ uart'.lcr = uart.lcr
    BY <1>0, <2>1 DEF UartFields, FcrWritten
  <2>3. QED
    BY <1>5, <2>2
<1>6. CASE Reached /\ a.op = "srr"
  <2>1. uart' = IF "UR" \in a.set THEN UartReset
                ELSE IF "RFR" \in a.set THEN [uart EXCEPT !.rx = 0] ELSE uart
    BY <1>6 DEF UartAccess, Reached
  <2>2. uart.held = FALSE
    BY <1>0, <1>6 DEF Reached
  <2>3. CASE "UR" \in a.set
    BY <1>6, <2>1, <2>2, <2>3, ResetFields DEF Lost
  <2>4. CASE "UR" \notin a.set
    BY <1>0, <1>6, <2>1, <2>4 DEF UartFields
  <2>5. QED
    BY <2>3, <2>4
<1>7. CASE Reached /\ a.op = "rbr"
  <2>1. uart' = [uart EXCEPT !.rx = IF @ > 0 THEN @ - 1 ELSE 0]
    BY <1>7 DEF UartAccess, Reached
  <2>2. QED
    BY <1>0, <1>7, <2>1 DEF UartFields
<1>8. QED
  BY <1>1, <1>2, <1>3, <1>4, <1>5, <1>6, <1>7 DEF UartAccesses

\* One access of a call of the UART driver.
LEMMA AccessMoves ==
  ASSUME HandleTyped, NEW a, UartAccesses(a), UartAccess(a)
  PROVE  Moves(a)
<1>1. l4_sp' = l4_sp
  BY DEF UartAccess
<1>2. QED
  BY <1>1, HandleMoves, UartMoves DEF Moves

\* An access of a call of alt_16550_uart.c.
Ok(a) == a.dev = "uart" /\ UartAccesses(a)

\* What the calls of alt_16550_uart.c depend on, and a reset destroys.
View ==
  [located |-> handle.located, divisor |-> handle.divisor, enabled |-> handle.enabled,
   fcr |-> handle.fcr, stale |-> handle.stale,
   dll |-> uart.dll, dlh |-> uart.dlh, reg |-> uart.fcr, open |-> uart.lcr \cap {"DLAB"}, held |-> uart.held]

\* The accesses that do nothing to it.
Still(a) ==
  \/ a.op = "reg" /\ (a.reg = "lcr" => "DLAB" \notin a.off /\ "DLAB" \notin a.on)
  \/ a.op = "rbr"
  \/ a.op = "srr" /\ "UR" \notin a.set

ToHandle(v, a, f) == IF Sets(a, f) THEN a.new[f] ELSE v[f]

Resets(v, a) == a.op = "hold" \/ (a.op = "srr" /\ v.located /\ ~v.held)

ToLatch(v, a, r) ==
  IF Resets(v, a) THEN 0
  ELSE IF v.located /\ ~v.held /\ a.op = "latch" /\ a.reg = r THEN a.val ELSE v[r]

ToFcr(v, a) ==
  IF Resets(v, a) THEN {}
  ELSE IF v.located /\ ~v.held /\ a.op = "fcr" THEN a.set \ {"RFIFOR", "XFIFOR"} ELSE v.reg

ToOpen(v, a) ==
  IF Resets(v, a) THEN {}
  ELSE IF v.located /\ ~v.held /\ a.op = "reg" /\ a.reg = "lcr"
  THEN (v.open \ a.off) \cup (a.on \cap {"DLAB"}) ELSE v.open

\* What an access makes of it.
Effect(v, a) ==
  IF Still(a) THEN v
  ELSE [located |-> ToHandle(v, a, "located"), divisor |-> ToHandle(v, a, "divisor"),
        enabled |-> ToHandle(v, a, "enabled"), fcr |-> ToHandle(v, a, "fcr"),
        stale |-> ToHandle(v, a, "stale"),
        dll |-> ToLatch(v, a, "dll"), dlh |-> ToLatch(v, a, "dlh"), reg |-> ToFcr(v, a), open |-> ToOpen(v, a),
        held |-> IF a.op = "hold" THEN a.held ELSE v.held]

\* The accesses t, one after the other, make w of v.
Runs(v, t, w) ==
  \E r : /\ r[0] = v /\ r[Len(t)] = w
         /\ \A k \in 1..Len(t) : Ok(t[k]) /\ r[k] = Effect(r[k - 1], t[k])

\* No access, no change.
LEMMA NothingRuns ==
  ASSUME NEW v
  PROVE  /\ Runs(v, <<>>, v)
         /\ \A w : Runs(v, <<>>, w) => w = v
<1>1. Len(<<>>) = 0 /\ \A k \in 1..Len(<<>>) : FALSE
  OBVIOUS
<1>2. [k \in {0} |-> v][0] = v
  OBVIOUS
<1>3. Runs(v, <<>>, v)
  BY <1>1, <1>2 DEF Runs
<1>4. QED
  BY <1>1, <1>3 DEF Runs

\* The first access.
LEMMA FirstRuns ==
  ASSUME NEW v, NEW t, NEW w, IsCall(t), t # <<>>, Runs(v, t, w)
  PROVE  Ok(t[1]) /\ Runs(Effect(v, t[1]), Tail(t), w)
<1>1. PICK r : /\ r[0] = v /\ r[Len(t)] = w
               /\ \A k \in 1..Len(t) : Ok(t[k]) /\ r[k] = Effect(r[k - 1], t[k])
  BY DEF Runs
<1>2. /\ Len(t) \in Nat \ {0} /\ Len(Tail(t)) = Len(t) - 1
      /\ \A k \in 1..Len(Tail(t)) : Tail(t)[k] = t[k + 1] /\ k + 1 \in 2..Len(t)
  BY Rest
<1>3. 1 \in 1..Len(t) /\ 1 - 1 = 0
  BY <1>2
<1>4. Ok(t[1]) /\ r[1] = Effect(v, t[1])
  BY <1>1, <1>3
<1> DEFINE q == [k \in 0..Len(Tail(t)) |-> r[k + 1]]
<1>5. 0 \in 0..Len(Tail(t)) /\ Len(Tail(t)) \in 0..Len(Tail(t)) /\ 0 + 1 = 1 /\ Len(Tail(t)) + 1 = Len(t)
  BY <1>2
<1>6. q[0] = r[1] /\ q[Len(Tail(t))] = w
  BY <1>1, <1>5
<1>7. ASSUME NEW k \in 1..Len(Tail(t))
      PROVE  Ok(Tail(t)[k]) /\ q[k] = Effect(q[k - 1], Tail(t)[k])
  <2>1. /\ k \in 0..Len(Tail(t)) /\ k - 1 \in 0..Len(Tail(t)) /\ (k - 1) + 1 = k /\ (k + 1) - 1 = k
        /\ k + 1 \in 1..Len(t)
    BY <1>2
  <2>2. q[k] = r[k + 1] /\ q[k - 1] = r[k]
    BY <2>1
  <2>3. Ok(t[k + 1]) /\ r[k + 1] = Effect(r[k], t[k + 1])
    BY <1>1, <2>1
  <2>4. QED
    BY <1>2, <2>2, <2>3
<1> HIDE DEF q
<1>8. QED
  BY <1>4, <1>6, <1>7 DEF Runs

\* Two parts of a call.
LEMMA BothRun ==
  ASSUME NEW u, NEW s, NEW v, NEW t, NEW w, IsCall(s), IsCall(t), Runs(u, s, v), Runs(v, t, w)
  PROVE  IsCall(s \o t) /\ Runs(u, s \o t, w)
<1>1. PICK q : /\ q[0] = u /\ q[Len(s)] = v
               /\ \A k \in 1..Len(s) : Ok(s[k]) /\ q[k] = Effect(q[k - 1], s[k])
  BY DEF Runs
<1>2. PICK r : /\ r[0] = v /\ r[Len(t)] = w
               /\ \A k \in 1..Len(t) : Ok(t[k]) /\ r[k] = Effect(r[k - 1], t[k])
  BY DEF Runs
<1> DEFINE c == s \o t
           m == Len(s)
           n == Len(t)
           p == [k \in 0..(m + n) |-> IF k <= m THEN q[k] ELSE r[k - m]]
<1>3. /\ IsCall(c) /\ m \in Nat /\ n \in Nat /\ Len(c) = m + n
      /\ \A k \in 1..m : c[k] = s[k]
      /\ \A k \in 1..n : c[m + k] = t[k]
  BY Concat
<1> HIDE DEF c, m, n
<1>4. 0 \in 0..(m + n) /\ 0 <= m /\ m + n \in 0..(m + n) /\ (m + n <= m => n = 0) /\ (m + n) - m = n
  BY <1>3
<1>5. p[0] = u
  BY <1>1, <1>4
<1>6. p[m + n] = w
  BY <1>1, <1>2, <1>3, <1>4 DEF m, n
<1>7. ASSUME NEW k \in 1..(m + n)
      PROVE  Ok(c[k]) /\ p[k] = Effect(p[k - 1], c[k])
  <2>0. k \in Int /\ k \in 0..(m + n) /\ k - 1 \in 0..(m + n)
    BY <1>3
  <2>1. CASE k <= m
    <3>1. k \in 1..m /\ k - 1 <= m
      BY <1>3, <2>0, <2>1
    <3>2. p[k] = q[k] /\ p[k - 1] = q[k - 1]
      BY <2>0, <2>1, <3>1
    <3>3. QED
      BY <1>1, <1>3, <3>1, <3>2 DEF m
  <2>2. CASE k > m
    <3>1. k - m \in 1..n /\ m + (k - m) = k /\ ~(k <= m) /\ (k - 1) - m = (k - m) - 1
      BY <1>3, <2>0, <2>2
    <3>2. p[k] = r[k - m]
      BY <2>0, <3>1
    <3>3. p[k - 1] = r[(k - m) - 1]
      <4>1. CASE k - 1 <= m
        <5>1. k - 1 = m /\ (k - m) - 1 = 0
          BY <1>3, <2>0, <2>2, <4>1
        <5>2. p[k - 1] = q[m]
          BY <2>0, <4>1, <5>1
        <5>3. QED
          BY <1>1, <1>2, <5>1, <5>2 DEF m
      <4>2. CASE ~(k - 1 <= m)
        BY <2>0, <3>1, <4>2
      <4>3. QED
        BY <4>1, <4>2
    <3>4. Ok(t[k - m]) /\ r[k - m] = Effect(r[(k - m) - 1], t[k - m])
      BY <1>2, <3>1 DEF n
    <3>5. c[k] = t[k - m]
      BY <1>3, <3>1
    <3>6. QED
      BY <3>2, <3>3, <3>4, <3>5
  <2>3. QED
    BY <1>3, <2>0, <2>1, <2>2
<1> HIDE DEF p
<1>8. \A k \in 1..Len(c) : Ok(c[k]) /\ p[k] = Effect(p[k - 1], c[k])
  BY <1>3, <1>7
<1>9. Runs(u, c, w)
  BY <1>3, <1>5, <1>6, <1>8 DEF Runs
<1>10. QED
  BY <1>3, <1>9 DEF c

\* Accesses that do nothing to the view.
LEMMA StillRuns ==
  ASSUME NEW v, NEW t, IsCall(t), \A k \in 1..Len(t) : Ok(t[k]) /\ Still(t[k])
  PROVE  Runs(v, t, v)
<1> DEFINE r == [k \in 0..Len(t) |-> v]
<1>1. Len(t) \in Nat
  BY DEF IsCall
<1>2. 0 \in 0..Len(t) /\ Len(t) \in 0..Len(t) /\ \A k \in 1..Len(t) : k \in 0..Len(t) /\ k - 1 \in 0..Len(t)
  BY <1>1
<1>3. r[0] = v /\ r[Len(t)] = v /\ \A k \in 1..Len(t) : r[k] = v /\ r[k - 1] = v
  BY <1>2
<1> HIDE DEF r
<1>4. QED
  BY <1>3 DEF Runs, Effect

\* A call of one access ...
LEMMA OneRuns ==
  ASSUME NEW v, NEW a, Ok(a)
  PROVE  IsCall(<<a>>) /\ Runs(v, <<a>>, Effect(v, a))
<1> DEFINE r == [k \in 0..1 |-> IF k = 0 THEN v ELSE Effect(v, a)]
<1>1. r[0] = v /\ r[1] = Effect(v, a) /\ 1 - 1 = 0
  OBVIOUS
<1> HIDE DEF r
<1>2. \A k \in 1..Len(<<a>>) : k = 1
  BY OneAccess
<1>3. QED
  BY <1>1, <1>2, OneAccess DEF Runs

\* ... of two ...
LEMMA TwoRun ==
  ASSUME NEW v, NEW a, NEW b, Ok(a), Ok(b)
  PROVE  IsCall(<<a, b>>) /\ Runs(v, <<a, b>>, Effect(Effect(v, a), b))
<1> DEFINE r == [k \in 0..2 |-> IF k = 0 THEN v ELSE IF k = 1 THEN Effect(v, a) ELSE Effect(Effect(v, a), b)]
<1>1. r[0] = v /\ r[1] = Effect(v, a) /\ r[2] = Effect(Effect(v, a), b) /\ 1 - 1 = 0 /\ 2 - 1 = 1
  OBVIOUS
<1> HIDE DEF r
<1>2. \A k \in 1..Len(<<a, b>>) : k = 1 \/ k = 2
  BY TwoAccesses
<1>3. QED
  BY <1>1, <1>2, TwoAccesses DEF Runs

\* ... and of three.
LEMMA ThreeRun ==
  ASSUME NEW v, NEW a, NEW b, NEW c, Ok(a), Ok(b), Ok(c)
  PROVE  IsCall(<<a, b, c>>) /\ Runs(v, <<a, b, c>>, Effect(Effect(Effect(v, a), b), c))
<1>1. <<a, b, c>> = <<a, b>> \o <<c>>
  OBVIOUS
<1>2. IsCall(<<a, b>>) /\ Runs(v, <<a, b>>, Effect(Effect(v, a), b))
  BY TwoRun
<1>3. IsCall(<<c>>) /\ Runs(Effect(Effect(v, a), b), <<c>>, Effect(Effect(Effect(v, a), b), c))
  BY OneRuns
<1>4. IsCall(<<a, b>> \o <<c>>) /\ Runs(v, <<a, b>> \o <<c>>, Effect(Effect(Effect(v, a), b), c))
  BY <1>2, <1>3, BothRun
<1>5. QED
  BY <1>1, <1>4

(***************************************************************************)
(* What the steps do to the view.                                          *)
(***************************************************************************)
\* The view after an access, field by field.
LEMMA EffectFields ==
  ASSUME NEW v, NEW a, ~Still(a)
  PROVE  /\ \A f \in {"located", "divisor", "enabled", "fcr", "stale"} : Effect(v, a)[f] = ToHandle(v, a, f)
         /\ Effect(v, a).dll = ToLatch(v, a, "dll") /\ Effect(v, a).dlh = ToLatch(v, a, "dlh")
         /\ Effect(v, a).reg = ToFcr(v, a) /\ Effect(v, a).open = ToOpen(v, a)
         /\ Effect(v, a).held = (IF a.op = "hold" THEN a.held ELSE v.held)
  BY DEF Effect

\* An access does to the view what Effect says.
LEMMA ViewMoves ==
  ASSUME HandleTyped, NEW a, UartAccesses(a), Moves(a)
  PROVE  View' = Effect(View, a)
<1>1. CASE Still(a)
  <2>1. \A f \in HandleFields \ {"device"} : ~Sets(a, f)
    BY <1>1 DEF Still, Sets
  <2>2. /\ handle'.located = handle.located /\ handle'.divisor = handle.divisor
        /\ handle'.enabled = handle.enabled /\ handle'.fcr = handle.fcr /\ handle'.stale = handle.stale
    BY <2>1 DEF Moves, HandleFields
  <2>3. a.op \notin {"hold", "latch", "fcr"} /\ ~(a.op = "srr" /\ "UR" \in a.set)
    BY <1>1 DEF Still
  <2>4. uart'.dll = uart.dll /\ uart'.dlh = uart.dlh /\ uart'.fcr = uart.fcr /\ uart'.held = uart.held
    BY <2>3 DEF Moves
  <2>5. uart'.lcr \cap {"DLAB"} = uart.lcr \cap {"DLAB"}
    <3>1. uart'.lcr = IF Reached /\ a.op = "reg" /\ a.reg = "lcr" THEN (uart.lcr \ a.off) \cup a.on ELSE uart.lcr
      BY <2>3 DEF Moves
    <3>2. a.op = "reg" /\ a.reg = "lcr" => "DLAB" \notin a.off /\ "DLAB" \notin a.on
      BY <1>1 DEF Still
    <3>3. QED
      BY <3>1, <3>2
  <2>6. View' = View
    BY <2>2, <2>4, <2>5 DEF View
  <2>7. QED
    BY <1>1, <2>6 DEF Effect
<1>2. CASE ~Still(a)
  <2>0. View.located = handle.located /\ View.held = uart.held /\ View.dll = uart.dll /\ View.dlh = uart.dlh
        /\ View.reg = uart.fcr /\ View.divisor = handle.divisor /\ View.enabled = handle.enabled
        /\ View.fcr = handle.fcr /\ View.stale = handle.stale /\ View.open = uart.lcr \cap {"DLAB"}
    BY DEF View
  <2>1. /\ handle'.located = ToHandle(View, a, "located") /\ handle'.divisor = ToHandle(View, a, "divisor")
        /\ handle'.enabled = ToHandle(View, a, "enabled") /\ handle'.fcr = ToHandle(View, a, "fcr")
        /\ handle'.stale = ToHandle(View, a, "stale")
    BY <2>0 DEF Moves, HandleFields, ToHandle
  <2>2. Resets(View, a) <=> a.op = "hold" \/ (a.op = "srr" /\ "UR" \in a.set /\ Reached)
    BY <1>2, <2>0 DEF Resets, Reached, Still
  <2>3. uart'.dll = ToLatch(View, a, "dll") /\ uart'.dlh = ToLatch(View, a, "dlh") /\ uart'.fcr = ToFcr(View, a)
    <3>1. CASE Resets(View, a)
      BY <2>2, <3>1 DEF Moves, Lost, ToLatch, ToFcr
    <3>2. CASE ~Resets(View, a)
      BY <2>0, <2>2, <3>2 DEF Moves, ToLatch, ToFcr, Reached
    <3>3. QED
      BY <3>1, <3>2
  <2>4. uart'.held = IF a.op = "hold" THEN a.held ELSE View.held
    BY <2>0 DEF Moves
  <2>5. uart'.lcr \cap {"DLAB"} = ToOpen(View, a)
    <3>1. CASE Resets(View, a)
      BY <2>2, <3>1 DEF Moves, Lost, ToOpen
    <3>2. CASE ~Resets(View, a)
      <4>1. uart'.lcr = IF Reached /\ a.op = "reg" /\ a.reg = "lcr" THEN (uart.lcr \ a.off) \cup a.on ELSE uart.lcr
        BY <2>2, <3>2 DEF Moves
      <4>2. QED
        BY <2>0, <3>2, <4>1 DEF ToOpen, Reached
    <3>3. QED
      BY <3>1, <3>2
  <2>6. QED
    BY <1>2, <2>1, <2>3, <2>4, <2>5 DEF Effect, View
<1>3. QED
  BY <1>1, <1>2

\* An access leaves the handle and the registers what they are.
LEMMA TypedMoves ==
  ASSUME HandleTyped, NEW a, UartAccesses(a), Moves(a)
  PROVE  HandleTyped'
<1>1. DOMAIN handle' = HandleFields /\ DOMAIN uart' = UartFields
  BY DEF Moves
<1>2. /\ handle'.located \in BOOLEAN /\ handle'.enabled \in BOOLEAN /\ handle'.stale \in BOOLEAN
      /\ handle'.divisor \in Nat
  <2>1. CASE a.op = "handle"
    BY <2>1 DEF Moves, HandleTyped, HandleFields, UartAccesses, Sets
  <2>2. CASE a.op # "handle"
    BY <2>2 DEF Moves, HandleTyped, HandleFields, Sets
  <2>3. QED
    BY <2>1, <2>2
<1>3. uart'.held \in BOOLEAN
  BY DEF Moves, HandleTyped, UartAccesses
<1>4. uart'.dll \in Nat /\ uart'.dlh \in Nat
  <2>1. CASE a.op = "hold" \/ (a.op = "srr" /\ "UR" \in a.set /\ Reached)
    BY <2>1 DEF Moves, Lost
  <2>2. CASE ~(a.op = "hold" \/ (a.op = "srr" /\ "UR" \in a.set /\ Reached))
    BY <2>2 DEF Moves, HandleTyped, UartAccesses
  <2>3. QED
    BY <2>1, <2>2
<1>5. QED
  BY <1>1, <1>2, <1>3, <1>4 DEF HandleTyped

(***************************************************************************)
(* The invariant.                                                          *)
(***************************************************************************)
\* There is a UART to be found.
Present == ~Soc \/ l4_sp

\* Behind a call: the divisor latch is closed, and the handle knows the UART.
Agreed(v) ==
  /\ v.divisor \in Nat
  /\ v.located => Present
  /\ v.open = {}
  /\ v.located /\ ~v.held /\ ~v.stale =>
       /\ v.enabled <=> v.dll # 0 \/ v.dlh # 0
       /\ "FIFOE" \in v.fcr <=> "FIFOE" \in v.reg

\* That is where the accesses lead.
Fine(t) == IsCall(t) /\ \E w : Runs(View, t, w) /\ Agreed(w)

\* A call of alt_interrupt.c leaves the UART alone.
HandleInv == HandleTyped /\ ((GicCall(todo) /\ Agreed(View)) \/ Fine(todo))

\* What the invariant is for: between two calls handle and UART agree.
LEMMA InvMatches ==
  ASSUME HandleInv
  PROVE  HandleMatches /\ (todo = <<>> => Agreed(View)) /\ IsCall(todo)
<1>1. todo = <<>> => Agreed(View)
  BY NothingRuns, ZenonT(60) DEF HandleInv, Fine
<1>2. Agreed(View) /\ Reached /\ ~handle.stale =>
        /\ handle.enabled <=> uart.dll # 0 \/ uart.dlh # 0
        /\ "FIFOE" \in handle.fcr <=> "FIFOE" \in uart.fcr
  BY DEF Agreed, View, Reached
<1>3. uart.dll # 0 \/ uart.dlh # 0 <=> <<uart.dll, uart.dlh>> # <<0, 0>>
  OBVIOUS
<1>4. IsCall(todo)
  BY DEF HandleInv, Fine, GicCall
<1>5. QED
  BY <1>1, <1>2, <1>3, <1>4 DEF HandleMatches, FifosOn

\* The steps that leave all this alone.
LEMMA HandleStays ==
  ASSUME HandleInv, HandleTyped', View' = View, handle'.device = handle.device, l4_sp' = l4_sp, todo' = todo
  PROVE  HandleInv'
<1>1. Present' <=> Present
  BY DEF Present, Soc
<1>2. \A w : Agreed(w) => Agreed(w)'
  BY <1>1 DEF Agreed
<1>3. CASE GicCall(todo) /\ Agreed(View)
  <2>1. GicCall(todo)' /\ Agreed(View)'
    BY <1>2, <1>3 DEF GicCall, GicAccesses, PlainAccess
  <2>2. QED
    BY <2>1 DEF HandleInv
<1>4. CASE Fine(todo)
  <2>1. PICK w : Runs(View, todo, w) /\ Agreed(w)
    BY <1>4 DEF Fine
  <2>2. Runs(View', todo', w) /\ Agreed(w)' /\ IsCall(todo')
    BY <1>2, <1>4, <2>1 DEF Fine
  <2>3. QED
    BY <2>2 DEF HandleInv, Fine
<1>5. QED
  BY <1>3, <1>4 DEF HandleInv

\* A call begins.
LEMMA CallBegins ==
  ASSUME HandleInv, UNCHANGED uartVars, Fine(todo') \/ (GicCall(todo') /\ Agreed(View))
  PROVE  HandleInv'
<1>1. uart' = uart /\ handle' = handle /\ l4_sp' = l4_sp
  BY DEF uartVars
<1>2. View' = View /\ (Present' <=> Present) /\ HandleTyped'
  BY <1>1 DEF View, Present, Soc, HandleInv, HandleTyped
<1>3. \A w : Agreed(w) => Agreed(w)'
  BY <1>2 DEF Agreed
<1>4. CASE GicCall(todo') /\ Agreed(View)
  <2>1. GicCall(todo)' /\ Agreed(View)'
    BY <1>2, <1>3, <1>4 DEF GicCall, GicAccesses, PlainAccess
  <2>2. QED
    BY <1>2, <2>1 DEF HandleInv
<1>5. CASE Fine(todo')
  <2>1. PICK w : Runs(View, todo', w) /\ Agreed(w)
    BY <1>5 DEF Fine
  <2>2. QED
    BY <1>2, <1>3, <1>5, <2>1 DEF HandleInv, Fine
<1>6. QED
  BY <1>4, <1>5

\* The next access, and to what.
LEMMA NextAccess ==
  ASSUME HandleInv, Access
  PROVE  /\ todo # <<>> /\ todo' = Tail(todo) /\ IsCall(todo)
         /\ main' = main /\ calls' = calls /\ other' = other
         /\ \/ /\ GicCall(todo) /\ GicAccesses(todo[1]) /\ GicAccess(todo[1])
               /\ isr' = isr /\ UNCHANGED uartVars
            \/ /\ ~GicCall(todo) /\ Fine(todo) /\ todo[1].dev = "uart" /\ UartAccesses(todo[1])
               /\ UartAccess(todo[1]) /\ Moves(todo[1]) /\ UNCHANGED interruptVars
<1>1. todo # <<>> /\ todo' = Tail(todo) /\ main' = main /\ calls' = calls /\ other' = other
  BY DEF Access
<1>2. IsCall(todo) /\ Head(todo) = todo[1] /\ 1 \in 1..Len(todo)
  <2>1. IsCall(todo)
    BY InvMatches
  <2>2. QED
    BY <1>1, <2>1, Rest
<1>3. CASE GicCall(todo)
  <2>1. GicAccesses(todo[1]) /\ todo[1].dev = "gic"
    BY <1>2, <1>3 DEF GicCall, GicAccesses
  <2>2. GicAccess(todo[1]) /\ isr' = isr /\ UNCHANGED uartVars
    BY <1>2, <2>1 DEF Access
  <2>3. QED
    BY <1>1, <1>2, <1>3, <2>1, <2>2
<1>4. CASE ~GicCall(todo)
  <2>1. Fine(todo)
    BY <1>4 DEF HandleInv
  <2>2. PICK w : Runs(View, todo, w) /\ Agreed(w)
    BY <2>1 DEF Fine
  <2>3. Ok(todo[1])
    BY <1>1, <1>2, <2>2, FirstRuns
  <2>4. todo[1].dev = "uart" /\ UartAccesses(todo[1])
    BY <2>3 DEF Ok
  <2>5. UartAccess(todo[1]) /\ UNCHANGED interruptVars
    BY <1>2, <2>4 DEF Access
  <2>6. Moves(todo[1])
    BY <2>4, <2>5, AccessMoves DEF HandleInv
  <2>7. QED
    BY <1>1, <1>2, <1>4, <2>1, <2>4, <2>5, <2>6
<1>5. QED
  BY <1>3, <1>4

\* An access is made.
LEMMA AccessStep ==
  ASSUME HandleInv, Access
  PROVE  HandleInv'
<1>1. /\ todo # <<>> /\ todo' = Tail(todo) /\ IsCall(todo)
      /\ \/ GicCall(todo) /\ UNCHANGED uartVars
         \/ ~GicCall(todo) /\ Fine(todo) /\ UartAccesses(todo[1]) /\ Moves(todo[1])
  BY NextAccess
<1>2. /\ IsCall(Tail(todo))
      /\ \A k \in 1..Len(Tail(todo)) : Tail(todo)[k] = todo[k + 1] /\ k + 1 \in 2..Len(todo)
  BY <1>1, Rest
<1>3. CASE GicCall(todo) /\ UNCHANGED uartVars
  <2>1. GicCall(Tail(todo))
    <3>1. \A k \in 1..Len(Tail(todo)) : k + 1 \in 1..Len(todo)
      BY <1>2
    <3>2. QED
      BY <1>2, <1>3, <3>1 DEF GicCall
  <2>2. Agreed(View) \/ Fine(todo)
    BY DEF HandleInv
  <2>3. Agreed(View)
    <3>1. CASE Fine(todo)
      <4>1. PICK w : Runs(View, todo, w) /\ Agreed(w)
        BY <3>1 DEF Fine
      <4>2. Ok(todo[1])
        BY <1>1, <4>1, FirstRuns
      <4>3. 1 \in 1..Len(todo)
        BY <1>1, Rest
      <4>4. QED
        BY <1>3, <4>2, <4>3 DEF Ok, GicCall, GicAccesses
    <3>2. QED
      BY <2>2, <3>1
  <2>4. QED
    BY <1>1, <1>3, <2>1, <2>3, CallBegins
<1>4. CASE Fine(todo) /\ UartAccesses(todo[1]) /\ Moves(todo[1])
  <2>1. PICK w : Runs(View, todo, w) /\ Agreed(w)
    BY <1>4 DEF Fine
  <2>2. Runs(Effect(View, todo[1]), Tail(todo), w)
    BY <1>1, <2>1, FirstRuns
  <2>3. View' = Effect(View, todo[1]) /\ HandleTyped'
    BY <1>4, ViewMoves, TypedMoves DEF HandleInv
  <2>4. Present' <=> Present
    BY <1>4 DEF Moves, Present, Soc
  <2>5. Runs(View', todo', w) /\ Agreed(w)' /\ IsCall(todo')
    BY <1>1, <1>2, <2>1, <2>2, <2>3, <2>4 DEF Agreed
  <2>6. QED
    BY <2>3, <2>5 DEF HandleInv, Fine
<1>5. QED
  BY <1>1, <1>3, <1>4

(***************************************************************************)
(* Calls that do not touch what the handle knows.                          *)
(***************************************************************************)
StillCall(t) == IsCall(t) /\ \A k \in 1..Len(t) : Ok(t[k]) /\ Still(t[k])

\* A refused call does not.
LEMMA NoneStill == StillCall(<<>>)
  BY NoAccess DEF StillCall

\* Nor one access that does not ...
LEMMA OneStill ==
  ASSUME NEW a, Ok(a), Still(a)
  PROVE  StillCall(<<a>>)
<1>1. \A k \in 1..Len(<<a>>) : k = 1
  BY OneAccess
<1>2. QED
  BY <1>1, OneAccess DEF StillCall

\* ... two ...
LEMMA TwoStill ==
  ASSUME NEW a, NEW b, Ok(a), Ok(b), Still(a), Still(b)
  PROVE  StillCall(<<a, b>>)
<1>1. \A k \in 1..Len(<<a, b>>) : k = 1 \/ k = 2
  BY TwoAccesses
<1>2. QED
  BY <1>1, TwoAccesses DEF StillCall

\* ... or two parts of a call.
LEMMA BothStill ==
  ASSUME NEW s, NEW t, StillCall(s), StillCall(t)
  PROVE  StillCall(s \o t)
<1>1. IsCall(s) /\ IsCall(t)
  BY DEF StillCall
<1>2. /\ IsCall(s \o t)
      /\ \A k \in 1..Len(s) : (s \o t)[k] = s[k]
      /\ \A k \in 1..Len(t) : (s \o t)[Len(s) + k] = t[k]
      /\ \A k \in 1..Len(s \o t) :
           k \in 1..Len(s) \/ (k - Len(s) \in 1..Len(t) /\ k = Len(s) + (k - Len(s)))
  BY <1>1, Concat
<1>3. ASSUME NEW k \in 1..Len(s \o t) PROVE Ok((s \o t)[k]) /\ Still((s \o t)[k])
  <2>1. CASE k \in 1..Len(s)
    BY <1>2, <2>1 DEF StillCall
  <2>2. CASE k - Len(s) \in 1..Len(t) /\ k = Len(s) + (k - Len(s))
    <3>1. (s \o t)[k] = t[k - Len(s)]
      BY <1>2, <2>2
    <3>2. QED
      BY <2>2, <3>1 DEF StillCall
  <2>3. QED
    BY <1>2, <2>1, <2>2
<1>4. QED
  BY <1>2, <1>3 DEF StillCall

\* Such a call leaves handle and UART in agreement.
LEMMA StillFine ==
  ASSUME NEW t, StillCall(t), Agreed(View)
  PROVE  Fine(t)
<1>1. IsCall(t) /\ Runs(View, t, View)
  BY StillRuns DEF StillCall
<1>2. QED
  BY <1>1 DEF Fine

\* The accesses that do not: to the other registers, and to the bits of the line register
\* that do not open the latch.
LEMMA UartStill ==
  /\ \A reg \in {"lcr", "ier", "mcr"} : \A off, on : Ok(Reg(reg, off, on))
  /\ \A reg \in {"ier", "mcr"} : \A off, on : Still(Reg(reg, off, on))
  /\ \A off, on : "DLAB" \notin off /\ "DLAB" \notin on => Still(Reg("lcr", off, on))
  /\ \A set : "UR" \notin set => Ok(Srr(set)) /\ Still(Srr(set))
  /\ Ok(ReadRbr) /\ Still(ReadRbr)
  BY DEF Ok, Still, UartAccesses, Reg, Srr, ReadRbr

\* A call that is refused unless its arguments are right.
LEMMA WhenStill ==
  ASSUME NEW c, NEW t, StillCall(t)
  PROVE  StillCall(Allowed(c, t))
  BY NoneStill DEF Allowed

(***************************************************************************)
(* What the other accesses do to the view.                                 *)
(***************************************************************************)
\* An assignment to a field of the handle changes that field only.
LEMMA HandleEffect ==
  ASSUME NEW v, NEW f \in {"located", "divisor", "enabled", "fcr", "stale"}, NEW x
  PROVE  /\ Effect(v, Handle(f, x))[f] = x
         /\ \A g \in {"located", "divisor", "enabled", "fcr", "stale"} \ {f} : Effect(v, Handle(f, x))[g] = v[g]
         /\ Effect(v, Handle(f, x)).dll = v.dll /\ Effect(v, Handle(f, x)).dlh = v.dlh
         /\ Effect(v, Handle(f, x)).reg = v.reg /\ Effect(v, Handle(f, x)).held = v.held
         /\ Effect(v, Handle(f, x)).open = v.open
<1> DEFINE a == Handle(f, x)
<1>1. /\ a.op = "handle" /\ ~Still(a)
      /\ \A g : Sets(a, g) <=> g = f
      /\ a.new[f] = x
  BY DEF Handle, Sets, Still
<1> HIDE DEF a
<1>2. /\ Effect(v, a)[f] = x
      /\ \A g \in {"located", "divisor", "enabled", "fcr", "stale"} \ {f} : Effect(v, a)[g] = v[g]
  BY <1>1, EffectFields DEF ToHandle
<1>3. /\ Effect(v, a).dll = v.dll /\ Effect(v, a).dlh = v.dlh /\ Effect(v, a).reg = v.reg /\ Effect(v, a).held = v.held
      /\ Effect(v, a).open = v.open
  BY <1>1, EffectFields, ZenonT(60) DEF ToLatch, ToFcr, ToOpen, Resets
<1>4. QED
  BY <1>2, <1>3 DEF a

\* The same for each field: for stale, ...
LEMMA StaleEffect ==
  ASSUME NEW v, NEW x
  PROVE  /\ Effect(v, Handle("stale", x)).stale = x
         /\ \A g \in {"located", "divisor", "enabled", "fcr"} : Effect(v, Handle("stale", x))[g] = v[g]
         /\ Effect(v, Handle("stale", x)).dll = v.dll /\ Effect(v, Handle("stale", x)).dlh = v.dlh
         /\ Effect(v, Handle("stale", x)).reg = v.reg /\ Effect(v, Handle("stale", x)).held = v.held
         /\ Effect(v, Handle("stale", x)).open = v.open
<1>1. PICK f \in {"located", "divisor", "enabled", "fcr", "stale"} : f = "stale"
  OBVIOUS
<1>2. QED
  BY <1>1, HandleEffect

\* ... location, ...
LEMMA LocatedEffect ==
  ASSUME NEW v, NEW x
  PROVE  /\ Effect(v, Handle("located", x)).located = x
         /\ \A g \in {"divisor", "enabled", "fcr", "stale"} : Effect(v, Handle("located", x))[g] = v[g]
         /\ Effect(v, Handle("located", x)).dll = v.dll /\ Effect(v, Handle("located", x)).dlh = v.dlh
         /\ Effect(v, Handle("located", x)).reg = v.reg /\ Effect(v, Handle("located", x)).held = v.held
         /\ Effect(v, Handle("located", x)).open = v.open
<1>1. PICK f \in {"located", "divisor", "enabled", "fcr", "stale"} : f = "located"
  OBVIOUS
<1>2. QED
  BY <1>1, HandleEffect

\* ... divisor, ...
LEMMA DivisorEffect ==
  ASSUME NEW v, NEW x
  PROVE  /\ Effect(v, Handle("divisor", x)).divisor = x
         /\ \A g \in {"located", "enabled", "fcr", "stale"} : Effect(v, Handle("divisor", x))[g] = v[g]
         /\ Effect(v, Handle("divisor", x)).dll = v.dll /\ Effect(v, Handle("divisor", x)).dlh = v.dlh
         /\ Effect(v, Handle("divisor", x)).reg = v.reg /\ Effect(v, Handle("divisor", x)).held = v.held
         /\ Effect(v, Handle("divisor", x)).open = v.open
<1>1. PICK f \in {"located", "divisor", "enabled", "fcr", "stale"} : f = "divisor"
  OBVIOUS
<1>2. QED
  BY <1>1, HandleEffect

\* ... whether the UART is enabled ...
LEMMA EnabledEffect ==
  ASSUME NEW v, NEW x
  PROVE  /\ Effect(v, Handle("enabled", x)).enabled = x
         /\ \A g \in {"located", "divisor", "fcr", "stale"} : Effect(v, Handle("enabled", x))[g] = v[g]
         /\ Effect(v, Handle("enabled", x)).dll = v.dll /\ Effect(v, Handle("enabled", x)).dlh = v.dlh
         /\ Effect(v, Handle("enabled", x)).reg = v.reg /\ Effect(v, Handle("enabled", x)).held = v.held
         /\ Effect(v, Handle("enabled", x)).open = v.open
<1>1. PICK f \in {"located", "divisor", "enabled", "fcr", "stale"} : f = "enabled"
  OBVIOUS
<1>2. QED
  BY <1>1, HandleEffect

\* ... and the copy of the FIFO register.
LEMMA FcrFieldEffect ==
  ASSUME NEW v, NEW x
  PROVE  /\ Effect(v, Handle("fcr", x)).fcr = x
         /\ \A g \in {"located", "divisor", "enabled", "stale"} : Effect(v, Handle("fcr", x))[g] = v[g]
         /\ Effect(v, Handle("fcr", x)).dll = v.dll /\ Effect(v, Handle("fcr", x)).dlh = v.dlh
         /\ Effect(v, Handle("fcr", x)).reg = v.reg /\ Effect(v, Handle("fcr", x)).held = v.held
         /\ Effect(v, Handle("fcr", x)).open = v.open
<1>1. PICK f \in {"located", "divisor", "enabled", "fcr", "stale"} : f = "fcr"
  OBVIOUS
<1>2. QED
  BY <1>1, HandleEffect

\* The accesses to the handle belong to the calls of alt_16550_uart.c.
LEMMA HandleOk ==
  /\ \A x \in BOOLEAN : Ok(Handle("located", x)) /\ Ok(Handle("enabled", x)) /\ Ok(Handle("stale", x))
  /\ \A x \in Nat : Ok(Handle("divisor", x))
  /\ \A x : Ok(Handle("fcr", x))
<1>1. ASSUME NEW f, NEW x
      PROVE  /\ Handle(f, x).dev = "uart" /\ Handle(f, x).op = "handle"
             /\ DOMAIN Handle(f, x).new = {f} /\ Handle(f, x).new[f] = x
  BY DEF Handle
<1>2. QED
  BY <1>1 DEF Ok, UartAccesses

\* The fields of the handle stay.
SameHandle(v, w) ==
  \A g \in {"located", "divisor", "enabled", "fcr", "stale"} : w[g] = v[g]

\* A write to the FIFO register, of which the reset bits do not stay.
LEMMA FcrEffect ==
  ASSUME NEW v, NEW set
  PROVE  /\ Ok(Fcr(set)) /\ SameHandle(v, Effect(v, Fcr(set)))
         /\ Effect(v, Fcr(set)).dll = v.dll /\ Effect(v, Fcr(set)).dlh = v.dlh
         /\ Effect(v, Fcr(set)).held = v.held /\ Effect(v, Fcr(set)).open = v.open
         /\ v.located /\ ~v.held => Effect(v, Fcr(set)).reg = set \ {"RFIFOR", "XFIFOR"}
<1> DEFINE a == Fcr(set)
<1>1. a.dev = "uart" /\ a.op = "fcr" /\ a.set = set /\ ~Still(a) /\ \A g : ~Sets(a, g)
  BY DEF Fcr, Sets, Still
<1> HIDE DEF a
<1>2. ~Resets(v, a) /\ Ok(a)
  BY <1>1 DEF Resets, Ok, UartAccesses
<1>3. /\ SameHandle(v, Effect(v, a))
      /\ Effect(v, a).dll = v.dll /\ Effect(v, a).dlh = v.dlh /\ Effect(v, a).held = v.held
      /\ Effect(v, a).open = v.open
  BY <1>1, <1>2, EffectFields, ZenonT(60) DEF SameHandle, ToHandle, ToLatch, ToOpen
<1>4. v.located /\ ~v.held => Effect(v, a).reg = set \ {"RFIFOR", "XFIFOR"}
  BY <1>1, <1>2, EffectFields DEF ToFcr
<1>5. QED
  BY <1>2, <1>3, <1>4 DEF a

\* A write to one of the divisor latches.
LEMMA LatchEffect ==
  ASSUME NEW v, NEW r \in {"dll", "dlh"}, NEW x \in Nat
  PROVE  /\ Ok(Latch(r, x)) /\ SameHandle(v, Effect(v, Latch(r, x)))
         /\ Effect(v, Latch(r, x)).held = v.held /\ Effect(v, Latch(r, x)).reg = v.reg
         /\ Effect(v, Latch(r, x)).open = v.open
         /\ \A q \in {"dll", "dlh"} :
              Effect(v, Latch(r, x))[q] = IF v.located /\ ~v.held /\ q = r THEN x ELSE v[q]
<1> DEFINE a == Latch(r, x)
<1>1. a.dev = "uart" /\ a.op = "latch" /\ a.reg = r /\ a.val = x /\ ~Still(a) /\ \A g : ~Sets(a, g)
  BY DEF Latch, Sets, Still
<1> HIDE DEF a
<1>2. ~Resets(v, a) /\ Ok(a)
  BY <1>1 DEF Resets, Ok, UartAccesses
<1>3. /\ SameHandle(v, Effect(v, a)) /\ Effect(v, a).held = v.held /\ Effect(v, a).reg = v.reg
      /\ Effect(v, a).open = v.open
  BY <1>1, <1>2, EffectFields, ZenonT(60) DEF SameHandle, ToHandle, ToFcr, ToOpen
<1>4. \A q \in {"dll", "dlh"} : Effect(v, a)[q] = ToLatch(v, a, q)
  BY <1>1, EffectFields
<1>5. \A q \in {"dll", "dlh"} : Effect(v, a)[q] = IF v.located /\ ~v.held /\ q = r THEN x ELSE v[q]
  BY <1>1, <1>2, <1>4 DEF ToLatch
<1>6. QED
  BY <1>2, <1>3, <1>5 DEF a

\* Both resets clear the registers; that of the module holds them until it is taken back.
LEMMA ResetEffect ==
  ASSUME NEW v
  PROVE  /\ Ok(Srr({"UR"})) /\ SameHandle(v, Effect(v, Srr({"UR"})))
         /\ Effect(v, Srr({"UR"})).held = v.held
         /\ v.open = {} => Effect(v, Srr({"UR"})).open = {}
         /\ v.located /\ ~v.held => /\ Effect(v, Srr({"UR"})).dll = 0 /\ Effect(v, Srr({"UR"})).dlh = 0
                                    /\ Effect(v, Srr({"UR"})).reg = {}
<1> DEFINE a == Srr({"UR"})
<1>1. a.dev = "uart" /\ a.op = "srr" /\ ~Still(a) /\ \A g : ~Sets(a, g)
  BY DEF Srr, Sets, Still
<1> HIDE DEF a
<1>2. Ok(a) /\ (Resets(v, a) <=> v.located /\ ~v.held)
  BY <1>1 DEF Resets, Ok, UartAccesses
<1>3. SameHandle(v, Effect(v, a)) /\ Effect(v, a).held = v.held /\ (v.open = {} => Effect(v, a).open = {})
  BY <1>1, EffectFields DEF SameHandle, ToHandle, ToOpen
<1>4. v.located /\ ~v.held => Effect(v, a).dll = 0 /\ Effect(v, a).dlh = 0 /\ Effect(v, a).reg = {}
  BY <1>1, <1>2, EffectFields DEF ToLatch, ToFcr
<1>5. QED
  BY <1>2, <1>3, <1>4 DEF a

\* The reset of the module, taken or taken back.
LEMMA HoldEffect ==
  ASSUME NEW v, NEW b \in BOOLEAN
  PROVE  /\ Ok(Hold(b)) /\ SameHandle(v, Effect(v, Hold(b))) /\ Effect(v, Hold(b)).held = b
         /\ Effect(v, Hold(b)).dll = 0 /\ Effect(v, Hold(b)).dlh = 0 /\ Effect(v, Hold(b)).reg = {}
         /\ Effect(v, Hold(b)).open = {}
<1> DEFINE a == Hold(b)
<1>1. a.dev = "uart" /\ a.op = "hold" /\ a.held = b /\ ~Still(a) /\ \A g : ~Sets(a, g)
  BY DEF Hold, Sets, Still
<1> HIDE DEF a
<1>2. Ok(a) /\ Resets(v, a)
  BY <1>1 DEF Resets, Ok, UartAccesses
<1>3. SameHandle(v, Effect(v, a)) /\ Effect(v, a).held = b
  BY <1>1, EffectFields DEF SameHandle, ToHandle
<1>4. Effect(v, a).dll = 0 /\ Effect(v, a).dlh = 0 /\ Effect(v, a).reg = {} /\ Effect(v, a).open = {}
  BY <1>1, <1>2, EffectFields DEF ToLatch, ToFcr, ToOpen
<1>5. QED
  BY <1>2, <1>3, <1>4 DEF a

\* The bit that opens the divisor latch, and closes it.
LEMMA OpenEffect ==
  ASSUME NEW v, NEW off, NEW on, "DLAB" \in off \/ "DLAB" \in on
  PROVE  /\ SameHandle(v, Effect(v, Reg("lcr", off, on)))
         /\ Effect(v, Reg("lcr", off, on)).dll = v.dll /\ Effect(v, Reg("lcr", off, on)).dlh = v.dlh
         /\ Effect(v, Reg("lcr", off, on)).reg = v.reg /\ Effect(v, Reg("lcr", off, on)).held = v.held
         /\ Effect(v, Reg("lcr", off, on)).open =
              IF v.located /\ ~v.held THEN (v.open \ off) \cup (on \cap {"DLAB"}) ELSE v.open
<1> DEFINE a == Reg("lcr", off, on)
<1>1. /\ a.op = "reg" /\ a.reg = "lcr" /\ a.off = off /\ a.on = on
      /\ ~Still(a) /\ \A g : ~Sets(a, g)
  BY DEF Reg, Sets, Still
<1> HIDE DEF a
<1>2. ~Resets(v, a)
  BY <1>1 DEF Resets
<1>3. /\ SameHandle(v, Effect(v, a)) /\ Effect(v, a).held = v.held /\ Effect(v, a).reg = v.reg
      /\ Effect(v, a).dll = v.dll /\ Effect(v, a).dlh = v.dlh
  BY <1>1, <1>2, EffectFields, ZenonT(60) DEF SameHandle, ToHandle, ToFcr, ToLatch
<1>4. Effect(v, a).open = IF v.located /\ ~v.held THEN (v.open \ off) \cup (on \cap {"DLAB"}) ELSE v.open
  BY <1>1, <1>2, EffectFields DEF ToOpen
<1>5. QED
  BY <1>3, <1>4 DEF a

(***************************************************************************)
(* The parts of the calls.                                                 *)
(***************************************************************************)
\* An access that does nothing to the view.
LEMMA StillEffect ==
  ASSUME NEW v, NEW a, Still(a)
  PROVE  Effect(v, a) = v
  BY DEF Effect

\* Handle and register get the same word.
GivesFcr(v, w, fcr) ==
  /\ \A g \in {"located", "divisor", "enabled", "stale"} : w[g] = v[g]
  /\ w.fcr = fcr /\ w.dll = v.dll /\ w.dlh = v.dlh /\ w.held = v.held /\ w.open = v.open
  /\ v.located /\ ~v.held => w.reg = fcr \ {"RFIFOR", "XFIFOR"}

\* The FIFO register is written to the handle and to the UART.
LEMMA FcrRuns ==
  ASSUME NEW v, NEW fcr
  PROVE  \E w : /\ IsCall(<<Handle("fcr", fcr), Fcr(fcr)>>) /\ Runs(v, <<Handle("fcr", fcr), Fcr(fcr)>>, w)
                /\ GivesFcr(v, w, fcr)
<1> DEFINE u == Effect(v, Handle("fcr", fcr))
           w == Effect(u, Fcr(fcr))
<1>1. IsCall(<<Handle("fcr", fcr), Fcr(fcr)>>) /\ Runs(v, <<Handle("fcr", fcr), Fcr(fcr)>>, w)
  BY HandleOk, FcrEffect, TwoRun
<1>2. /\ \A g \in {"located", "divisor", "enabled", "stale"} : u[g] = v[g]
      /\ u.fcr = fcr /\ u.dll = v.dll /\ u.dlh = v.dlh /\ u.held = v.held /\ u.open = v.open
  BY HandleEffect
<1> HIDE DEF u
<1>3. /\ SameHandle(u, w) /\ w.dll = u.dll /\ w.dlh = u.dlh /\ w.held = u.held /\ w.open = u.open
      /\ u.located /\ ~u.held => w.reg = fcr \ {"RFIFOR", "XFIFOR"}
  BY FcrEffect
<1> HIDE DEF w
<1>4. QED
  BY <1>1, <1>2, <1>3 DEF SameHandle, GivesFcr

\* The divisor goes to the latches, and whether there is one to the handle.
GivesDivisor(v, w, d) ==
  /\ \A g \in {"located", "divisor", "fcr", "stale"} : w[g] = v[g]
  /\ w.enabled = (d # 0) /\ w.reg = v.reg /\ w.held = v.held
  /\ v.open = {} => w.open = {}
  /\ v.located /\ ~v.held => w.dll = d % 256 /\ w.dlh = d \div 256

\* alt_16550_write_divisor_helper gives the latches the two bytes of the divisor.
LEMMA DivisorRuns ==
  ASSUME NEW v, NEW d \in Nat
  PROVE  \E w : /\ IsCall(alt_16550_write_divisor_helper(d)) /\ Runs(v, alt_16550_write_divisor_helper(d), w)
                /\ GivesDivisor(v, w, d)
<1> DEFINE s1 == <<Reg("lcr", {}, {"DLAB"}), Latch("dll", d % 256), Latch("dlh", d \div 256)>>
           s2 == <<Reg("lcr", {"DLAB"}, {}), Handle("enabled", d # 0)>>
           v1 == Effect(v, Reg("lcr", {}, {"DLAB"}))
           v2 == Effect(v1, Latch("dll", d % 256))
           v3 == Effect(v2, Latch("dlh", d \div 256))
           v4 == Effect(v3, Reg("lcr", {"DLAB"}, {}))
           w  == Effect(v4, Handle("enabled", d # 0))
<1>0. d % 256 \in Nat /\ d \div 256 \in Nat /\ (d # 0) \in BOOLEAN
  OBVIOUS
<1>1. alt_16550_write_divisor_helper(d) = s1 \o s2
  BY DEF alt_16550_write_divisor_helper
<1>2. Ok(Reg("lcr", {}, {"DLAB"})) /\ Ok(Latch("dll", d % 256)) /\ Ok(Latch("dlh", d \div 256))
  BY <1>0, UartStill, LatchEffect
<1>3. Ok(Reg("lcr", {"DLAB"}, {})) /\ Ok(Handle("enabled", d # 0))
  BY <1>0, UartStill, HandleOk
<1>4. IsCall(s1) /\ Runs(v, s1, v3)
  BY <1>2, ThreeRun
<1>5. IsCall(s2) /\ Runs(v3, s2, w)
  BY <1>3, TwoRun
<1>6. IsCall(s1 \o s2) /\ Runs(v, s1 \o s2, w)
  BY <1>4, <1>5, BothRun
<1>7. /\ SameHandle(v, v1) /\ v1.held = v.held /\ v1.reg = v.reg
      /\ v.open = {} => v1.open \subseteq {"DLAB"} /\ (~(v.located /\ ~v.held) => v1.open = {})
  <2>1. PICK off, on : off = {} /\ on = {"DLAB"} /\ ("DLAB" \in off \/ "DLAB" \in on)
    OBVIOUS
  <2>2. v1 = Effect(v, Reg("lcr", off, on))
    BY <2>1
  <2> HIDE DEF v1
  <2>3. /\ SameHandle(v, v1) /\ v1.dll = v.dll /\ v1.dlh = v.dlh /\ v1.held = v.held /\ v1.reg = v.reg
        /\ v1.open = IF v.located /\ ~v.held THEN (v.open \ off) \cup (on \cap {"DLAB"}) ELSE v.open
    BY <2>1, <2>2, OpenEffect
  <2>4. QED
    BY <2>1, <2>3
<1> HIDE DEF v1
<1>8. /\ SameHandle(v1, v2) /\ v2.held = v1.held /\ v2.reg = v1.reg /\ v2.open = v1.open
      /\ \A q \in {"dll", "dlh"} : v2[q] = IF v1.located /\ ~v1.held /\ q = "dll" THEN d % 256 ELSE v1[q]
  <2>1. \A x \in Nat : LET l == Effect(v1, Latch("dll", x)) IN
          /\ SameHandle(v1, l) /\ l.held = v1.held /\ l.reg = v1.reg /\ l.open = v1.open
          /\ \A q \in {"dll", "dlh"} : l[q] = IF v1.located /\ ~v1.held /\ q = "dll" THEN x ELSE v1[q]
    BY LatchEffect
  <2>2. QED
    BY <1>0, <2>1
<1>9. /\ SameHandle(v2, v3) /\ v3.held = v2.held /\ v3.reg = v2.reg /\ v3.open = v2.open
      /\ \A q \in {"dll", "dlh"} : v3[q] = IF v2.located /\ ~v2.held /\ q = "dlh" THEN d \div 256 ELSE v2[q]
  BY <1>0, LatchEffect
<1> HIDE DEF v2, v3
<1>10. /\ SameHandle(v3, v4) /\ v4.dll = v3.dll /\ v4.dlh = v3.dlh /\ v4.held = v3.held /\ v4.reg = v3.reg
       /\ v3.open \subseteq {"DLAB"} /\ ((v3.located /\ ~v3.held) \/ v3.open = {}) => v4.open = {}
  <2>1. PICK off, on : off = {"DLAB"} /\ on = {} /\ ("DLAB" \in off \/ "DLAB" \in on)
    OBVIOUS
  <2>2. v4 = Effect(v3, Reg("lcr", off, on))
    BY <2>1
  <2> HIDE DEF v4
  <2>3. /\ SameHandle(v3, v4) /\ v4.dll = v3.dll /\ v4.dlh = v3.dlh /\ v4.held = v3.held /\ v4.reg = v3.reg
        /\ v4.open = IF v3.located /\ ~v3.held THEN (v3.open \ off) \cup (on \cap {"DLAB"}) ELSE v3.open
    <3>1. \A x, y : "DLAB" \in x \/ "DLAB" \in y =>
            /\ SameHandle(v3, Effect(v3, Reg("lcr", x, y)))
            /\ Effect(v3, Reg("lcr", x, y)).dll = v3.dll /\ Effect(v3, Reg("lcr", x, y)).dlh = v3.dlh
            /\ Effect(v3, Reg("lcr", x, y)).reg = v3.reg /\ Effect(v3, Reg("lcr", x, y)).held = v3.held
            /\ Effect(v3, Reg("lcr", x, y)).open =
                 IF v3.located /\ ~v3.held THEN (v3.open \ x) \cup (y \cap {"DLAB"}) ELSE v3.open
      BY OpenEffect
    <3>2. "DLAB" \in off \/ "DLAB" \in on
      BY <2>1
    <3>3. /\ SameHandle(v3, Effect(v3, Reg("lcr", off, on)))
          /\ Effect(v3, Reg("lcr", off, on)).dll = v3.dll /\ Effect(v3, Reg("lcr", off, on)).dlh = v3.dlh
          /\ Effect(v3, Reg("lcr", off, on)).reg = v3.reg /\ Effect(v3, Reg("lcr", off, on)).held = v3.held
          /\ Effect(v3, Reg("lcr", off, on)).open =
               IF v3.located /\ ~v3.held THEN (v3.open \ off) \cup (on \cap {"DLAB"}) ELSE v3.open
      BY <3>1, <3>2
    <3>4. QED
      BY <2>2, <3>3
  <2>4. QED
    BY <2>1, <2>3
<1> HIDE DEF v4
<1>11. /\ \A g \in {"located", "divisor", "fcr", "stale"} : w[g] = v4[g]
       /\ w.enabled = (d # 0) /\ w.dll = v4.dll /\ w.dlh = v4.dlh /\ w.reg = v4.reg /\ w.held = v4.held
       /\ w.open = v4.open
  BY HandleEffect
<1> HIDE DEF s1, s2, w
<1>12. /\ \A g \in {"located", "divisor", "fcr", "stale"} : w[g] = v[g]
       /\ w.enabled = (d # 0) /\ w.reg = v.reg /\ w.held = v.held
  BY <1>7, <1>8, <1>9, <1>10, <1>11 DEF SameHandle
<1>13. v.located /\ ~v.held => w.dll = d % 256 /\ w.dlh = d \div 256
  BY <1>7, <1>8, <1>9, <1>10, <1>11 DEF SameHandle
<1>14. v.open = {} => w.open = {}
  BY <1>7, <1>8, <1>9, <1>10, <1>11 DEF SameHandle
<1>15. GivesDivisor(v, w, d)
  BY <1>12, <1>13, <1>14 DEF GivesDivisor
<1>16. QED
  BY <1>1, <1>6, <1>15

(***************************************************************************)
(* The calls of the UART driver.                                           *)
(***************************************************************************)
\* The calls that have nothing to do with divisor and FIFOs.
LEMMA PlainStill ==
  /\ \A source : StillCall(alt_16550_int_enable(source)) /\ StillCall(alt_16550_int_disable(source))
  /\ StillCall(alt_16550_int_disable_all)
  /\ \A frame : StillCall(alt_16550_line_config_set(frame))
  /\ StillCall(alt_16550_line_break_enable) /\ StillCall(alt_16550_line_break_disable)
  /\ StillCall(alt_16550_flowcontrol_enable) /\ StillCall(alt_16550_flowcontrol_disable)
  /\ StillCall(alt_16550_loopback_enable) /\ StillCall(alt_16550_loopback_disable)
  /\ \A signal : StillCall(alt_16550_modem_enable(signal)) /\ StillCall(alt_16550_modem_disable(signal))
  /\ StillCall(alt_16550_read)
<1>1. /\ \A off, on : StillCall(<<Reg("ier", off, on)>>) /\ StillCall(<<Reg("mcr", off, on)>>)
      /\ \A off, on : "DLAB" \notin off /\ "DLAB" \notin on => StillCall(<<Reg("lcr", off, on)>>)
  BY UartStill, OneStill
<1>2. StillCall(<<ReadRbr>>)
  BY UartStill, OneStill
<1>3. \A c, off, on : StillCall(Allowed(c, <<Reg("mcr", off, on)>>))
  BY <1>1, WhenStill
<1>4. StillCall(alt_16550_read)
  BY <1>2, WhenStill DEF alt_16550_read
<1>5. \A mask : /\ StillCall(alt_16550_ier_mask_set_helper(mask)) /\ StillCall(alt_16550_ier_mask_clr_helper(mask))
                /\ StillCall(alt_16550_mcr_mask_set_helper(mask)) /\ StillCall(alt_16550_mcr_mask_clr_helper(mask))
                /\ \A c : StillCall(Allowed(c, alt_16550_mcr_mask_set_helper(mask)))
  BY <1>1, <1>3 DEF alt_16550_ier_mask_set_helper, alt_16550_ier_mask_clr_helper,
    alt_16550_mcr_mask_set_helper, alt_16550_mcr_mask_clr_helper
<1>6. /\ StillCall(alt_16550_line_break_enable) /\ StillCall(alt_16550_line_break_disable)
      /\ \A frame : StillCall(alt_16550_line_config_set(frame))
  <2>1. "DLAB" \notin {} /\ "DLAB" \notin {"BREAK"} /\ "DLAB" \notin Frames
    BY DEF Frames
  <2>2. StillCall(alt_16550_line_break_enable) /\ StillCall(alt_16550_line_break_disable)
    BY <1>1, <2>1 DEF alt_16550_line_break_enable, alt_16550_line_break_disable
  <2>3. ASSUME NEW frame PROVE StillCall(alt_16550_line_config_set(frame))
    <3>1. CASE frame \in Frames
      <4>1. "DLAB" \notin {frame}
        BY <2>1, <3>1
      <4>2. StillCall(<<Reg("lcr", Frames, {frame})>>)
        BY <1>1, <2>1, <4>1
      <4>3. QED
        BY <4>2, WhenStill DEF alt_16550_line_config_set
    <3>2. CASE frame \notin Frames
      BY <3>2, NoneStill DEF alt_16550_line_config_set, Allowed
    <3>3. QED
      BY <3>1, <3>2
  <2>4. QED
    BY <2>2, <2>3
<1>7. QED
  BY <1>4, <1>5, <1>6 DEF alt_16550_int_enable, alt_16550_int_disable, alt_16550_int_disable_all,
    alt_16550_flowcontrol_enable, alt_16550_flowcontrol_disable, alt_16550_loopback_enable,
    alt_16550_loopback_disable, alt_16550_modem_enable, alt_16550_modem_disable

\* A call that is refused.
LEMMA RefusedFine ==
  ASSUME Agreed(View), NEW c, NEW t, c => Fine(t)
  PROVE  Fine(Allowed(c, t))
<1>1. Fine(<<>>)
  BY NoneStill, StillFine
<1>2. QED
  BY <1>1 DEF Allowed

\* A call that writes the FIFO register to both.
LEMMA FcrFine ==
  ASSUME Agreed(View), NEW fcr
  PROVE  Fine(<<Handle("fcr", fcr), Fcr(fcr)>>)
<1>1. PICK w :
        /\ IsCall(<<Handle("fcr", fcr), Fcr(fcr)>>) /\ Runs(View, <<Handle("fcr", fcr), Fcr(fcr)>>, w)
        /\ GivesFcr(View, w, fcr)
  BY FcrRuns
<1>2. Agreed(w)
  BY <1>1 DEF Agreed, GivesFcr
<1>3. QED
  BY <1>1, <1>2 DEF Fine

\* The FIFO calls leave handle and UART in agreement ...
LEMMA FifosFine ==
  ASSUME Agreed(View)
  PROVE  /\ Fine(alt_16550_fifo_enable) /\ Fine(alt_16550_fifo_disable)
         /\ \A trigger : /\ Fine(alt_16550_fifo_trigger_set_rx(trigger))
                         /\ Fine(alt_16550_fifo_trigger_set_tx(trigger))
<1>1. Fine(alt_16550_fifo_enable)
  BY FcrFine DEF alt_16550_fifo_enable
<1>2. Fine(alt_16550_fifo_disable)
  BY FcrFine DEF alt_16550_fifo_disable, FifoDisable
<1>3. ASSUME NEW trigger PROVE Fine(alt_16550_fifo_trigger_set_rx(trigger))
  BY FcrFine, RefusedFine DEF alt_16550_fifo_trigger_set_rx
<1>4. ASSUME NEW trigger PROVE Fine(alt_16550_fifo_trigger_set_tx(trigger))
  BY FcrFine, RefusedFine DEF alt_16550_fifo_trigger_set_tx
<1>5. QED
  BY <1>1, <1>2, <1>3, <1>4

\* ... and so do those that empty a FIFO.
LEMMA ClearedFine ==
  ASSUME Agreed(View), NEW srr, NEW fcr, "UR" \notin srr
  PROVE  Fine(Cleared(srr, fcr))
<1>1. Fine(<<Srr(srr)>>)
  BY UartStill, OneStill, StillFine
<1>2. ASSUME FifosOn PROVE Fine(<<Fcr(handle.fcr \cup fcr)>>)
  <2> DEFINE a == Fcr(handle.fcr \cup fcr)
             w == Effect(View, a)
  <2>1. /\ Ok(a) /\ SameHandle(View, w) /\ w.dll = View.dll /\ w.dlh = View.dlh /\ w.held = View.held
        /\ w.open = View.open
        /\ View.located /\ ~View.held => w.reg = (handle.fcr \cup fcr) \ {"RFIFOR", "XFIFOR"}
    BY FcrEffect
  <2> HIDE DEF a
  <2>2. IsCall(<<a>>) /\ Runs(View, <<a>>, w)
    BY <2>1, OneRuns
  <2> HIDE DEF w
  <2>3. View.fcr = handle.fcr
    BY DEF View
  <2>4. Agreed(w)
    BY <1>2, <2>1, <2>3 DEF Agreed, SameHandle, FifosOn
  <2>5. Fine(<<a>>)
    BY <2>2, <2>4 DEF Fine
  <2>6. QED
    BY <2>5 DEF a
<1>3. FifosOn => Fine(IF Soc THEN <<Srr(srr)>> ELSE <<Fcr(handle.fcr \cup fcr)>>)
  BY <1>1, <1>2
<1>4. QED
  BY <1>3, RefusedFine DEF Cleared

\* alt_16550_divisor_set gives the handle a divisor, and the UART nothing yet ...
LEMMA DivisorSetRuns ==
  ASSUME NEW v, v.divisor \in Nat, NEW d \in Int
  PROVE  \E w : /\ IsCall(alt_16550_divisor_set(d)) /\ Runs(v, alt_16550_divisor_set(d), w)
                /\ \A g \in {"located", "enabled", "fcr", "stale"} : w[g] = v[g]
                /\ w.dll = v.dll /\ w.dlh = v.dlh /\ w.reg = v.reg /\ w.held = v.held /\ w.open = v.open
                /\ w.divisor \in Nat
<1>1. CASE d > 0 /\ d < 65536
  <2>1. alt_16550_divisor_set(d) = <<Handle("divisor", d)>> /\ d \in Nat
    BY <1>1 DEF alt_16550_divisor_set, Allowed
  <2>2. Ok(Handle("divisor", d))
    BY <2>1, HandleOk
  <2>3. IsCall(<<Handle("divisor", d)>>) /\ Runs(v, <<Handle("divisor", d)>>, Effect(v, Handle("divisor", d)))
    BY <2>2, OneRuns
  <2>4. QED
    BY <2>1, <2>3, HandleEffect
<1>2. CASE ~(d > 0 /\ d < 65536)
  <2>1. alt_16550_divisor_set(d) = <<>>
    BY <1>2 DEF alt_16550_divisor_set, Allowed
  <2>2. QED
    BY <2>1, NothingRuns, NoAccess
<1>3. QED
  BY <1>1, <1>2

\* ... and so does alt_16550_baudrate_set with the divisor it computes.
LEMMA BaudrateRuns ==
  ASSUME NEW v, v.divisor \in Nat, NEW b \in Nat
  PROVE  \E w : /\ IsCall(alt_16550_baudrate_set(b)) /\ Runs(v, alt_16550_baudrate_set(b), w)
                /\ \A g \in {"located", "enabled", "fcr", "stale"} : w[g] = v[g]
                /\ w.dll = v.dll /\ w.dlh = v.dlh /\ w.reg = v.reg /\ w.held = v.held /\ w.open = v.open
                /\ w.divisor \in Nat
<1>1. CASE b = 0
  <2>1. alt_16550_baudrate_set(b) = <<>>
    BY <1>1 DEF alt_16550_baudrate_set
  <2>2. QED
    BY <2>1, NothingRuns, NoAccess
<1>2. CASE b # 0
  <2>1. (Clock + 8 * b) \div (16 * b) \in Int
    <3>1. Clock + 8 * b \in Int /\ 16 * b \in Int /\ 16 * b > 0
      BY <1>2, UartAssumption
    <3>2. \A x \in Int, y \in Int : y > 0 => x \div y \in Int
      OBVIOUS
    <3>3. QED
      BY <3>1, <3>2
  <2>2. alt_16550_baudrate_set(b) = alt_16550_divisor_set((Clock + 8 * b) \div (16 * b))
    BY <1>2 DEF alt_16550_baudrate_set
  <2>3. QED
    BY <2>1, <2>2, DivisorSetRuns
<1>3. QED
  BY <1>1, <1>2

\* Both leave handle and UART in agreement.
LEMMA DivisorFine ==
  ASSUME Agreed(View)
  PROVE  /\ \A d \in Int : Fine(alt_16550_divisor_set(d))
         /\ \A b \in Nat : Fine(alt_16550_baudrate_set(b))
<1>1. ASSUME NEW d \in Int PROVE Fine(alt_16550_divisor_set(d))
  <2>1. View.divisor \in Nat
    BY DEF Agreed
  <2>2. PICK w : /\ IsCall(alt_16550_divisor_set(d)) /\ Runs(View, alt_16550_divisor_set(d), w)
                 /\ \A g \in {"located", "enabled", "fcr", "stale"} : w[g] = View[g]
                 /\ w.dll = View.dll /\ w.dlh = View.dlh /\ w.reg = View.reg /\ w.held = View.held
                 /\ w.open = View.open /\ w.divisor \in Nat
    BY <2>1, DivisorSetRuns
  <2>3. Agreed(w)
    BY <2>2 DEF Agreed
  <2>4. QED
    BY <2>2, <2>3 DEF Fine
<1>2. ASSUME NEW b \in Nat PROVE Fine(alt_16550_baudrate_set(b))
  <2>1. View.divisor \in Nat
    BY DEF Agreed
  <2>2. PICK w : /\ IsCall(alt_16550_baudrate_set(b)) /\ Runs(View, alt_16550_baudrate_set(b), w)
                 /\ \A g \in {"located", "enabled", "fcr", "stale"} : w[g] = View[g]
                 /\ w.dll = View.dll /\ w.dlh = View.dlh /\ w.reg = View.reg /\ w.held = View.held
                 /\ w.open = View.open /\ w.divisor \in Nat
    BY <2>1, BaudrateRuns
  <2>3. Agreed(w)
    BY <2>2 DEF Agreed
  <2>4. QED
    BY <2>2, <2>3 DEF Fine
<1>3. QED
  BY <1>1, <1>2

\* The divisor is 0 exactly if both of its bytes are.
LEMMA DivisorBytes ==
  ASSUME NEW d \in Nat
  PROVE  d # 0 <=> d % 256 # 0 \/ d \div 256 # 0
<1>1. d = 0 => d % 256 = 0 /\ d \div 256 = 0
  OBVIOUS
<1>2. d # 0 /\ d < 256 => d % 256 # 0
  OBVIOUS
<1>3. d >= 256 => d \div 256 # 0
  OBVIOUS
<1>4. QED
  BY <1>1, <1>2, <1>3

\* So do alt_16550_enable, which writes the divisor if it is stale, and alt_16550_disable.
LEMMA EnableFine ==
  ASSUME Agreed(View)
  PROVE  Fine(alt_16550_enable) /\ Fine(alt_16550_disable)
<1>1. ASSUME NEW d \in Nat, NEW s, StillCall(s)
      PROVE  Fine(alt_16550_write_divisor_helper(d)) /\ Fine(s \o alt_16550_write_divisor_helper(d))
  <2> DEFINE t == alt_16550_write_divisor_helper(d)
  <2>1. PICK w : /\ IsCall(t) /\ Runs(View, t, w)
                 /\ GivesDivisor(View, w, d)
    BY DivisorRuns
  <2> HIDE DEF t
  <2>2. d # 0 <=> d % 256 # 0 \/ d \div 256 # 0
    BY DivisorBytes
  <2>3. Agreed(w)
    <3> DEFINE m == d % 256
               n == d \div 256
    <3>1. /\ w.enabled <=> m # 0 \/ n # 0
          /\ View.located /\ ~View.held => w.dll = m /\ w.dlh = n
      BY <2>1, <2>2 DEF GivesDivisor
    <3> HIDE DEF m, n
    <3>2. /\ \A g \in {"located", "divisor", "fcr", "stale"} : w[g] = View[g]
          /\ w.reg = View.reg /\ w.held = View.held /\ (View.open = {} => w.open = {})
      BY <2>1 DEF GivesDivisor
    <3>3. QED
      BY <3>1, <3>2 DEF Agreed
  <2>4. IsCall(s) /\ Runs(View, s, View)
    BY <1>1, StillRuns DEF StillCall
  <2>5. IsCall(s \o t) /\ Runs(View, s \o t, w)
    BY <2>1, <2>4, BothRun
  <2>6. Fine(t) /\ Fine(s \o t)
    BY <2>1, <2>3, <2>5 DEF Fine
  <2>7. QED
    BY <2>6 DEF t
<1>2. handle.divisor \in Nat
  BY DEF Agreed, View
<1>3. StillCall(alt_16550_modem_enable("DTR") \o alt_16550_modem_enable("RTS"))
  BY PlainStill, BothStill
<1>4. Fine(alt_16550_enable)
  BY <1>1, <1>2, <1>3 DEF alt_16550_enable
<1>5. 0 \in Nat
  OBVIOUS
<1>6. Fine(alt_16550_disable)
  BY <1>1, <1>3, <1>5 DEF alt_16550_disable
<1>7. QED
  BY <1>4, <1>6

\* What is the same behind a part of a call that only gives the handle a divisor.
Keeps(v, w) ==
  /\ \A g \in {"located", "enabled", "fcr", "stale"} : w[g] = v[g]
  /\ w.dll = v.dll /\ w.dlh = v.dlh /\ w.reg = v.reg /\ w.held = v.held /\ w.open = v.open

\* The second half of a reset.
Configure(enable_init, divisor) ==
  Allowed(enable_init,
    <<Reg("ier", {}, {"PTIME"})>> \o alt_16550_line_config_set("8N1")
    \o Allowed(divisor = 0, alt_16550_baudrate_set(DEFAULT_BAUD)))

\* It gives the handle a divisor and writes the modem and line registers.
LEMMA ConfigureRuns ==
  ASSUME NEW v, v.divisor \in Nat, NEW enable_init, NEW divisor
  PROVE  \E w : /\ IsCall(Configure(enable_init, divisor)) /\ Runs(v, Configure(enable_init, divisor), w)
                /\ Keeps(v, w) /\ w.divisor \in Nat
<1> DEFINE s == <<Reg("ier", {}, {"PTIME"})>> \o alt_16550_line_config_set("8N1")
           t == Allowed(divisor = 0, alt_16550_baudrate_set(DEFAULT_BAUD))
<1>1. StillCall(s)
  <2>1. StillCall(<<Reg("ier", {}, {"PTIME"})>>)
    BY UartStill, OneStill
  <2>2. QED
    BY <2>1, PlainStill, BothStill
<1>2. IsCall(s) /\ Runs(v, s, v)
  BY <1>1, StillRuns DEF StillCall
<1>3. Runs(v, <<>>, v) /\ IsCall(<<>>) /\ Keeps(v, v)
  BY NothingRuns, NoAccess DEF Keeps
<1>4. \E w : IsCall(t) /\ Runs(v, t, w) /\ Keeps(v, w) /\ w.divisor \in Nat
  <2>1. CASE divisor = 0
    <3>1. t = alt_16550_baudrate_set(DEFAULT_BAUD)
      BY <2>1 DEF Allowed
    <3>2. DEFAULT_BAUD \in Nat
      BY UartAssumption
    <3>3. QED
      BY <3>1, <3>2, BaudrateRuns DEF Keeps
  <2>2. CASE divisor # 0
    <3>1. t = <<>>
      BY <2>2 DEF Allowed
    <3>2. QED
      BY <1>3, <3>1
  <2>3. QED
    BY <2>1, <2>2
<1>5. PICK w : IsCall(t) /\ Runs(v, t, w) /\ Keeps(v, w) /\ w.divisor \in Nat
  BY <1>4
<1> HIDE DEF s, t
<1>6. IsCall(s \o t) /\ Runs(v, s \o t, w)
  BY <1>2, <1>5, BothRun
<1>7. CASE enable_init
  BY <1>5, <1>6, <1>7 DEF Configure, Allowed, s, t
<1>8. CASE ~enable_init
  <2>1. Configure(enable_init, divisor) = <<>>
    BY <1>8 DEF Configure, Allowed
  <2>2. QED
    BY <1>3, <2>1
<1>9. QED
  BY <1>7, <1>8

\* What a reset does: the UART of the SoC loses everything and the handle is not told, for the
\* one in the fabric both are turned off.
ResetTo(v, w, fcr) ==
  /\ w.located = v.located /\ w.held = v.held /\ w.divisor \in Nat
  /\ v.open = {} => w.open = {}
  /\ v.located /\ ~v.held => w.dll = 0 /\ w.dlh = 0
  /\ Soc => /\ w.stale = TRUE /\ w.enabled = v.enabled /\ w.fcr = v.fcr
            /\ v.located /\ ~v.held => w.reg = {}
  /\ ~Soc => /\ w.stale = v.stale /\ w.enabled = FALSE /\ w.fcr = fcr \ {"FIFOE"}
             /\ v.located /\ ~v.held => w.reg = (fcr \ {"FIFOE"}) \ {"RFIFOR", "XFIFOR"}

ClearUart(fcr) ==
  IF Soc THEN <<Handle("stale", TRUE), Srr({"UR"})>>
  ELSE alt_16550_write_divisor_helper(0) \o alt_16550_int_disable_all
       \o FifoDisable(fcr) \o <<Reg("mcr", Flows, {})>>

\* That is what the first half does, in either UART ...
LEMMA ClearRuns ==
  ASSUME NEW v, v.divisor \in Nat, NEW fcr
  PROVE  \E w : IsCall(ClearUart(fcr)) /\ Runs(v, ClearUart(fcr), w) /\ ResetTo(v, w, fcr)
<1>1. CASE Soc
  <2> DEFINE a == Handle("stale", TRUE)
             b == Srr({"UR"})
             u == Effect(v, a)
             w == Effect(u, b)
  <2>1. Ok(a) /\ Ok(b)
    BY HandleOk, ResetEffect
  <2>2. IsCall(<<a, b>>) /\ Runs(v, <<a, b>>, w)
    BY <2>1, TwoRun
  <2>3. \A x : LET e == Effect(v, Handle("stale", x))
               IN  /\ \A g \in {"located", "divisor", "enabled", "fcr"} : e[g] = v[g]
                   /\ e.stale = x /\ e.dll = v.dll /\ e.dlh = v.dlh /\ e.reg = v.reg /\ e.held = v.held
                   /\ e.open = v.open
    BY StaleEffect, SMTT(30)
  <2>4. /\ \A g \in {"located", "divisor", "enabled", "fcr"} : u[g] = v[g]
        /\ u.stale = TRUE /\ u.dll = v.dll /\ u.dlh = v.dlh /\ u.reg = v.reg /\ u.held = v.held
        /\ u.open = v.open
    BY <2>3
  <2> HIDE DEF u
  <2>5. /\ SameHandle(u, w) /\ w.held = u.held /\ (u.open = {} => w.open = {})
        /\ u.located /\ ~u.held => w.dll = 0 /\ w.dlh = 0 /\ w.reg = {}
    BY ResetEffect
  <2>6. ClearUart(fcr) = <<a, b>>
    BY <1>1 DEF ClearUart
  <2> HIDE DEF a, b, w
  <2>7. ResetTo(v, w, fcr)
    BY <1>1, <2>4, <2>5 DEF ResetTo, SameHandle
  <2>8. QED
    BY <2>2, <2>6, <2>7
<1>2. CASE ~Soc
  <2> DEFINE s == alt_16550_write_divisor_helper(0)
             i == alt_16550_int_disable_all
             f == FifoDisable(fcr)
             m == <<Reg("mcr", Flows, {})>>
  <2>0. 0 \in Nat /\ 0 % 256 = 0 /\ 0 \div 256 = 0
    OBVIOUS
  <2>1. PICK u : IsCall(s) /\ Runs(v, s, u) /\ GivesDivisor(v, u, 0)
    BY <2>0, DivisorRuns
  <2>2. IsCall(i) /\ Runs(u, i, u)
    BY PlainStill, StillRuns DEF StillCall
  <2>3. PICK w : IsCall(f) /\ Runs(u, f, w) /\ GivesFcr(u, w, fcr \ {"FIFOE"})
    BY FcrRuns DEF FifoDisable
  <2>4. StillCall(m)
    BY UartStill, OneStill
  <2>5. IsCall(m) /\ Runs(w, m, w)
    BY <2>4, StillRuns DEF StillCall
  <2>6. ClearUart(fcr) = ((s \o i) \o f) \o m
    BY <1>2 DEF ClearUart
  <2> HIDE DEF s, i, f, m
  <2>7. IsCall(s \o i) /\ Runs(v, s \o i, u)
    BY <2>1, <2>2, BothRun
  <2>8. IsCall((s \o i) \o f) /\ Runs(v, (s \o i) \o f, w)
    BY <2>3, <2>7, BothRun
  <2>9. IsCall(((s \o i) \o f) \o m) /\ Runs(v, ((s \o i) \o f) \o m, w)
    BY <2>5, <2>8, BothRun
  <2>10. ResetTo(v, w, fcr)
    <3>1. /\ \A g \in {"located", "divisor", "fcr", "stale"} : u[g] = v[g]
          /\ u.enabled = FALSE /\ u.reg = v.reg /\ u.held = v.held /\ (v.open = {} => u.open = {})
          /\ v.located /\ ~v.held => u.dll = 0 /\ u.dlh = 0
      BY <2>0, <2>1 DEF GivesDivisor
    <3>2. QED
      BY <1>2, <2>3, <3>1 DEF ResetTo, GivesFcr
  <2>11. QED
    BY <2>6, <2>9, <2>10
<1>3. QED
  BY <1>1, <1>2

\* ... and the whole.
LEMMA ResetRuns ==
  ASSUME NEW v, v.divisor \in Nat, NEW enable_init, NEW divisor, NEW fcr
  PROVE  \E w : /\ IsCall(alt_16550_reset_helper(enable_init, divisor, fcr))
                /\ Runs(v, alt_16550_reset_helper(enable_init, divisor, fcr), w) /\ ResetTo(v, w, fcr)
<1> DEFINE s == ClearUart(fcr)
           t == Configure(enable_init, divisor)
<1>1. PICK u : IsCall(s) /\ Runs(v, s, u) /\ ResetTo(v, u, fcr)
  BY ClearRuns
<1>2. u.divisor \in Nat
  BY <1>1 DEF ResetTo
<1>3. PICK w : IsCall(t) /\ Runs(u, t, w) /\ Keeps(u, w) /\ w.divisor \in Nat
  BY <1>2, ConfigureRuns
<1>4. alt_16550_reset_helper(enable_init, divisor, fcr) = s \o t
  BY DEF alt_16550_reset_helper, ClearUart, Configure
<1> HIDE DEF s, t
<1>5. IsCall(s \o t) /\ Runs(v, s \o t, w)
  BY <1>1, <1>3, BothRun
<1>6. ResetTo(v, w, fcr)
  BY <1>1, <1>3 DEF ResetTo, Keeps
<1>7. QED
  BY <1>4, <1>5, <1>6

\* alt_16550_reset leaves handle and UART in agreement ...
LEMMA ResetFine ==
  ASSUME Agreed(View)
  PROVE  Fine(alt_16550_reset)
<1> DEFINE t == alt_16550_reset_helper(TRUE, handle.divisor, handle.fcr)
<1>1. View.divisor \in Nat
  BY DEF Agreed
<1>2. PICK w : IsCall(t) /\ Runs(View, t, w) /\ ResetTo(View, w, handle.fcr)
  BY <1>1, ResetRuns
<1> HIDE DEF t
<1>3. Agreed(w)
  BY <1>2 DEF ResetTo, Agreed
<1>4. Fine(t)
  BY <1>2, <1>3 DEF Fine
<1>5. QED
  BY <1>4 DEF t, alt_16550_reset

\* ... and so does alt_16550_uninit.
LEMMA UninitFine ==
  ASSUME Agreed(View)
  PROVE  Fine(alt_16550_uninit)
<1>0. View.divisor \in Nat
  BY DEF Agreed
<1>1. CASE Soc
  <2> DEFINE a == Handle("stale", TRUE)
             b == Hold(TRUE)
             u == Effect(View, a)
             w == Effect(u, b)
  <2>1. Ok(a) /\ Ok(b)
    BY HandleOk, HoldEffect
  <2>2. IsCall(<<a, b>>) /\ Runs(View, <<a, b>>, w)
    BY <2>1, TwoRun
  <2>3. \A g \in {"located", "divisor", "enabled", "fcr"} : u[g] = View[g]
    BY StaleEffect
  <2> HIDE DEF u
  <2>4. SameHandle(u, w) /\ w.held = TRUE /\ w.open = {}
    BY HoldEffect
  <2>5. alt_16550_uninit = <<a, b>>
    BY <1>1 DEF alt_16550_uninit
  <2> HIDE DEF a, b, w
  <2>6. Agreed(w)
    BY <2>3, <2>4 DEF Agreed, SameHandle
  <2>7. QED
    BY <2>2, <2>5, <2>6 DEF Fine
<1>2. CASE ~Soc
  <2> DEFINE t == alt_16550_reset_helper(FALSE, handle.divisor, handle.fcr)
  <2>1. PICK w : IsCall(t) /\ Runs(View, t, w) /\ ResetTo(View, w, handle.fcr)
    BY <1>0, ResetRuns
  <2> HIDE DEF t
  <2>2. Agreed(w)
    BY <1>2, <2>1 DEF ResetTo, Agreed
  <2>3. Fine(t)
    BY <2>1, <2>2 DEF Fine
  <2>4. QED
    BY <1>2, <2>3 DEF t, alt_16550_uninit
<1>3. QED
  BY <1>1, <1>2

\* alt_16550_init starts from scratch.
LEMMA InitFine ==
  ASSUME Agreed(View), HandleTyped
  PROVE  Fine(alt_16550_init)
<1> DEFINE s  == <<Handle("divisor", 0), Handle("enabled", FALSE), Handle("fcr", {})>>
           a  == Handle("located", TRUE)
           h  == Allowed(Soc /\ uart.held, <<Hold(FALSE)>>)
           rh == alt_16550_reset_helper(TRUE, 0, {})
           b  == Handle("stale", FALSE)
<1>1. \E u : /\ IsCall(s) /\ Runs(View, s, u)
             /\ u.divisor = 0 /\ u.enabled = FALSE /\ u.fcr = {} /\ u.located = View.located /\ u.held = View.held
             /\ u.open = View.open
  <2> DEFINE u1 == Effect(View, Handle("divisor", 0))
             u2 == Effect(u1, Handle("enabled", FALSE))
             u3 == Effect(u2, Handle("fcr", {}))
  <2>1. Ok(Handle("divisor", 0)) /\ Ok(Handle("enabled", FALSE)) /\ Ok(Handle("fcr", {}))
    BY HandleOk
  <2>2. IsCall(s) /\ Runs(View, s, u3)
    BY <2>1, ThreeRun
  <2>3. u1.divisor = 0 /\ u1.located = View.located /\ u1.held = View.held /\ u1.open = View.open
    BY DivisorEffect
  <2> HIDE DEF u1
  <2>4. u2.enabled = FALSE /\ u2.divisor = u1.divisor /\ u2.located = u1.located /\ u2.held = u1.held /\ u2.open = u1.open
    <3>1. \A x : LET e == Effect(u1, Handle("enabled", x)) IN
            /\ e.enabled = x /\ e.open = u1.open /\ e.held = u1.held
            /\ \A g \in {"located", "divisor", "fcr", "stale"} : e[g] = u1[g]
      BY EnabledEffect
    <3>2. QED
      BY <3>1
  <2> HIDE DEF u2
  <2>5. u3.fcr = {} /\ u3.enabled = u2.enabled /\ u3.divisor = u2.divisor /\ u3.located = u2.located /\ u3.held = u2.held
        /\ u3.open = u2.open
    BY FcrFieldEffect
  <2> HIDE DEF u3, s
  <2>6. QED
    BY <2>2, <2>3, <2>4, <2>5
<1>2. PICK u : /\ IsCall(s) /\ Runs(View, s, u)
               /\ u.divisor = 0 /\ u.enabled = FALSE /\ u.fcr = {} /\ u.located = View.located /\ u.held = View.held
               /\ u.open = View.open
  BY <1>1
<1>3. CASE ~Present
  <2>1. Agreed(u)
    BY <1>2, <1>3 DEF Agreed
  <2>2. IsCall(s \o <<>>) /\ Runs(View, s \o <<>>, u)
    BY <1>2, NothingRuns, NoAccess, BothRun
  <2>3. alt_16550_init = s \o <<>>
    BY <1>3 DEF alt_16550_init, Allowed, Present
  <2>4. QED
    BY <2>1, <2>2, <2>3 DEF Fine
<1>4. CASE Present
  <2> HIDE DEF s
  <2>1. PICK u1 : /\ IsCall(<<a>>) /\ Runs(u, <<a>>, u1)
                  /\ u1.located = TRUE /\ u1.divisor = 0 /\ u1.enabled = FALSE /\ u1.fcr = {} /\ u1.held = u.held
                  /\ u1.open = u.open
    <3>1. IsCall(<<a>>) /\ Runs(u, <<a>>, Effect(u, a))
      BY HandleOk, OneRuns
    <3>2. \A x : LET e == Effect(u, Handle("located", x))
                 IN  /\ e.located = x /\ e.divisor = u.divisor /\ e.enabled = u.enabled
                     /\ e.fcr = u.fcr /\ e.held = u.held /\ e.open = u.open
      BY LocatedEffect, SMTT(30)
    <3>3. /\ Effect(u, a).located = TRUE /\ Effect(u, a).divisor = u.divisor /\ Effect(u, a).enabled = u.enabled
          /\ Effect(u, a).fcr = u.fcr /\ Effect(u, a).held = u.held /\ Effect(u, a).open = u.open
      BY <3>2
    <3> HIDE DEF a
    <3>4. QED
      BY <1>2, <3>1, <3>3
  <2>2. PICK u2 : /\ IsCall(h) /\ Runs(u1, h, u2) /\ SameHandle(u1, u2)
                  /\ (u1.open = {} => u2.open = {}) /\ (Soc => u2.held = FALSE)
    <3>1. CASE Soc /\ uart.held
      <4>1. h = <<Hold(FALSE)>>
        BY <3>1 DEF Allowed
      <4>2. /\ IsCall(<<Hold(FALSE)>>) /\ Runs(u1, <<Hold(FALSE)>>, Effect(u1, Hold(FALSE)))
            /\ SameHandle(u1, Effect(u1, Hold(FALSE))) /\ Effect(u1, Hold(FALSE)).held = FALSE
            /\ Effect(u1, Hold(FALSE)).open = {}
        BY HoldEffect, OneRuns
      <4>3. QED
        BY <4>1, <4>2
    <3>2. CASE ~(Soc /\ uart.held)
      <4>1. h = <<>>
        BY <3>2 DEF Allowed
      <4>2. u1.held = uart.held
        BY <1>2, <2>1 DEF View
      <4>3. uart.held \in BOOLEAN
        BY DEF HandleTyped
      <4>4. QED
        BY <3>2, <4>1, <4>2, <4>3, NothingRuns, NoAccess DEF SameHandle
    <3>3. QED
      BY <3>1, <3>2
  <2>3. u2.divisor \in Nat
    BY <2>1, <2>2 DEF SameHandle
  <2>4. PICK u3 : IsCall(rh) /\ Runs(u2, rh, u3) /\ ResetTo(u2, u3, {})
    BY <2>3, ResetRuns
  <2>5. PICK w : /\ IsCall(<<b>>) /\ Runs(u3, <<b>>, w)
                 /\ \A g \in {"located", "divisor", "enabled", "fcr"} : w[g] = u3[g]
                 /\ w.dll = u3.dll /\ w.dlh = u3.dlh /\ w.reg = u3.reg /\ w.held = u3.held
                 /\ w.open = u3.open
    <3>1. IsCall(<<b>>) /\ Runs(u3, <<b>>, Effect(u3, b))
      BY HandleOk, OneRuns
    <3>2. /\ \A g \in {"located", "divisor", "enabled", "fcr"} : Effect(u3, b)[g] = u3[g]
          /\ Effect(u3, b).dll = u3.dll /\ Effect(u3, b).dlh = u3.dlh
          /\ Effect(u3, b).reg = u3.reg /\ Effect(u3, b).held = u3.held /\ Effect(u3, b).open = u3.open
      BY StaleEffect, ZenonT(60)
    <3> HIDE DEF b
    <3>3. QED
      BY <3>1, <3>2
  <2>6. alt_16550_init = s \o (((<<a>> \o h) \o rh) \o <<b>>)
    BY <1>4 DEF alt_16550_init, Allowed, Present, s
  <2> HIDE DEF a, h, rh, b
  <2>7. IsCall(<<a>> \o h) /\ Runs(u, <<a>> \o h, u2)
    BY <2>1, <2>2, BothRun
  <2>8. IsCall((<<a>> \o h) \o rh) /\ Runs(u, (<<a>> \o h) \o rh, u3)
    BY <2>4, <2>7, BothRun
  <2>9. IsCall(((<<a>> \o h) \o rh) \o <<b>>) /\ Runs(u, ((<<a>> \o h) \o rh) \o <<b>>, w)
    BY <2>5, <2>8, BothRun
  <2>10. /\ IsCall(s \o (((<<a>> \o h) \o rh) \o <<b>>))
         /\ Runs(View, s \o (((<<a>> \o h) \o rh) \o <<b>>), w)
    BY <1>2, <2>9, BothRun
  <2>11. Agreed(w)
    <3>1. u2.located = TRUE /\ u2.divisor = 0 /\ u2.enabled = FALSE /\ u2.fcr = {}
      BY <2>1, <2>2 DEF SameHandle
    <3>0. u2.open = {}
      BY <1>2, <2>1, <2>2 DEF Agreed
    <3>2. CASE Soc
      BY <1>4, <2>2, <2>4, <2>5, <3>0, <3>1, <3>2 DEF Agreed, ResetTo
    <3>3. CASE ~Soc
      BY <1>4, <2>4, <2>5, <3>0, <3>1, <3>3 DEF Agreed, ResetTo
    <3>4. QED
      BY <3>2, <3>3
  <2>12. QED
    BY <2>6, <2>10, <2>11 DEF Fine
<1>5. QED
  BY <1>3, <1>4

\* So does every call of the UART driver.
LEMMA UartCallFine ==
  ASSUME Agreed(View), HandleTyped, UartCall
  PROVE  Fine(todo')
<1>1. ASSUME NEW t, StillCall(t) PROVE Fine(t)
  BY <1>1, StillFine
<1>2. /\ Fine(alt_16550_fifo_clear_rx) /\ Fine(alt_16550_fifo_clear_tx) /\ Fine(alt_16550_fifo_clear_all)
  <2>1. "UR" \notin {"RFR"} /\ "UR" \notin {"XFR"} /\ "UR" \notin {"RFR", "XFR"}
    OBVIOUS
  <2>2. QED
    BY <2>1, ClearedFine DEF alt_16550_fifo_clear_rx, alt_16550_fifo_clear_tx, alt_16550_fifo_clear_all
<1>3. /\ \A divisor \in Divisors : Fine(alt_16550_divisor_set(divisor))
      /\ \A baudrate \in Bauds : Fine(alt_16550_baudrate_set(baudrate))
  <2>1. \A divisor \in Divisors : divisor \in Int
    BY SetupAssumption
  <2>2. \A baudrate \in Bauds : baudrate \in Nat
    BY SetupAssumption
  <2>3. QED
    BY <2>1, <2>2, DivisorFine
<1>4. CASE todo' \in {alt_16550_init, alt_16550_uninit, alt_16550_reset, alt_16550_enable, alt_16550_disable,
                      alt_16550_fifo_enable, alt_16550_fifo_disable,
                      alt_16550_fifo_clear_rx, alt_16550_fifo_clear_tx, alt_16550_fifo_clear_all}
  BY <1>2, <1>4, InitFine, UninitFine, ResetFine, EnableFine, FifosFine
<1>5. CASE \/ \E trigger : \/ todo' = alt_16550_fifo_trigger_set_rx(trigger)
                           \/ todo' = alt_16550_fifo_trigger_set_tx(trigger)
           \/ \E divisor \in Divisors : todo' = alt_16550_divisor_set(divisor)
           \/ \E baudrate \in Bauds : todo' = alt_16550_baudrate_set(baudrate)
  BY <1>3, <1>5, FifosFine
<1>6. CASE StillCall(todo')
  BY <1>1, <1>6
<1>7. QED
  BY <1>4, <1>5, <1>6, PlainStill DEF UartCall, Call

\* main's calls, one by one.
LEMMA SetupCalls ==
  /\ Len(Setup) = 16
  /\ Accesses(Setup[1]) = alt_16550_init
  /\ Accesses(Setup[2]) = alt_16550_line_config_set("8N1")
  /\ Accesses(Setup[3]) = alt_16550_divisor_set(5)
  /\ Accesses(Setup[4]) = alt_16550_enable
  /\ Accesses(Setup[5]) = alt_int_global_init
  /\ Accesses(Setup[6]) = alt_int_cpu_init
  /\ Accesses(Setup[7]) = alt_int_cpu_enable
  /\ Accesses(Setup[8]) = alt_int_global_enable
  /\ Accesses(Setup[9]) = alt_16550_fifo_enable
  /\ Accesses(Setup[10]) = alt_16550_fifo_trigger_set_rx("RX_HALF_FULL")
  /\ Accesses(Setup[11]) = alt_16550_fifo_trigger_set_tx("TX_EMPTY")
  /\ Accesses(Setup[12]) = alt_16550_int_enable("ERBFI")
  /\ Accesses(Setup[13]) = alt_16550_int_enable("ELSI")
  /\ Accesses(Setup[14]) = alt_int_isr_register(UART0, "uart_callback", "NULL")
  /\ Accesses(Setup[15]) = alt_int_dist_target_set(UART0, (2 ^ driver.count_cpu) - 1)
  /\ Accesses(Setup[16]) = alt_int_dist_enable(UART0)
<1>1. /\ Len(Setup) = 16
      /\ Setup[1] = "alt_16550_init" /\ Setup[2] = "alt_16550_line_config_set"
      /\ Setup[3] = "alt_16550_divisor_set" /\ Setup[4] = "alt_16550_enable"
      /\ Setup[5] = "alt_int_global_init" /\ Setup[6] = "alt_int_cpu_init"
      /\ Setup[7] = "alt_int_cpu_enable" /\ Setup[8] = "alt_int_global_enable"
      /\ Setup[9] = "alt_16550_fifo_enable" /\ Setup[10] = "alt_16550_fifo_trigger_set_rx"
      /\ Setup[11] = "alt_16550_fifo_trigger_set_tx" /\ Setup[12] = "alt_16550_int_enable_rx"
      /\ Setup[13] = "alt_16550_int_enable_line" /\ Setup[14] = "alt_int_isr_register"
      /\ Setup[15] = "alt_int_dist_target_set" /\ Setup[16] = "alt_int_dist_enable"
  BY DEF Setup
<1>2. /\ Accesses("alt_16550_init") = alt_16550_init
      /\ Accesses("alt_16550_line_config_set") = alt_16550_line_config_set("8N1")
      /\ Accesses("alt_16550_divisor_set") = alt_16550_divisor_set(5)
      /\ Accesses("alt_16550_enable") = alt_16550_enable
      /\ Accesses("alt_int_global_init") = alt_int_global_init
      /\ Accesses("alt_int_cpu_init") = alt_int_cpu_init
      /\ Accesses("alt_int_cpu_enable") = alt_int_cpu_enable
      /\ Accesses("alt_int_global_enable") = alt_int_global_enable
  BY DEF Accesses
<1>3. /\ Accesses("alt_16550_fifo_enable") = alt_16550_fifo_enable
      /\ Accesses("alt_16550_fifo_trigger_set_rx") = alt_16550_fifo_trigger_set_rx("RX_HALF_FULL")
      /\ Accesses("alt_16550_fifo_trigger_set_tx") = alt_16550_fifo_trigger_set_tx("TX_EMPTY")
      /\ Accesses("alt_16550_int_enable_rx") = alt_16550_int_enable("ERBFI")
      /\ Accesses("alt_16550_int_enable_line") = alt_16550_int_enable("ELSI")
      /\ Accesses("alt_int_isr_register") = alt_int_isr_register(UART0, "uart_callback", "NULL")
      /\ Accesses("alt_int_dist_target_set") = alt_int_dist_target_set(UART0, (2 ^ driver.count_cpu) - 1)
      /\ Accesses("alt_int_dist_enable") = alt_int_dist_enable(UART0)
  BY DEF Accesses
<1>4. QED
  BY <1>1, <1>2, <1>3

\* main's calls of the UART driver leave handle and UART in agreement.
LEMMA SetupFine ==
  ASSUME Agreed(View), HandleTyped, NEW n \in 1..16, n \notin {5, 6, 7, 8, 14, 15, 16}
  PROVE  Fine(Accesses(Setup[n]))
<1>1. n = 1 \/ n = 2 \/ n = 3 \/ n = 4 \/ n = 9 \/ n = 10 \/ n = 11 \/ n = 12 \/ n = 13
  OBVIOUS
<1>2. ASSUME NEW t, StillCall(t) PROVE Fine(t)
  BY <1>2, StillFine
<1>3. 5 \in Int
  OBVIOUS
<1>4. /\ Fine(alt_16550_init) /\ Fine(alt_16550_line_config_set("8N1")) /\ Fine(alt_16550_divisor_set(5))
      /\ Fine(alt_16550_enable) /\ Fine(alt_16550_fifo_enable)
      /\ Fine(alt_16550_fifo_trigger_set_rx("RX_HALF_FULL")) /\ Fine(alt_16550_fifo_trigger_set_tx("TX_EMPTY"))
      /\ Fine(alt_16550_int_enable("ERBFI")) /\ Fine(alt_16550_int_enable("ELSI"))
  BY <1>2, <1>3, InitFine, EnableFine, FifosFine, DivisorFine, PlainStill
<1>5. QED
  BY <1>1, <1>4, SetupCalls

\* The calls of alt_interrupt.c in it.
LEMMA SetupGic ==
  ASSUME GicTyped
  PROVE  /\ \A n \in {5, 6, 7, 8, 15, 16} : PlainCall(Accesses(Setup[n]))
         /\ \/ PlainCall(Accesses(Setup[14]))
            \/ Registration(Accesses(Setup[14]), UART0, "uart_callback", "NULL")
         /\ GicCall(Accesses(Setup[14]))
<1>1. /\ PlainCall(alt_int_global_init) /\ PlainCall(alt_int_cpu_init) /\ PlainCall(alt_int_cpu_enable)
      /\ PlainCall(alt_int_global_enable)
  BY ControllerPlain
<1>2. /\ PlainCall(alt_int_dist_target_set(UART0, (2 ^ driver.count_cpu) - 1))
      /\ PlainCall(alt_int_dist_enable(UART0))
  BY DistributorPlain
<1>3. \A n \in {5, 6, 7, 8, 15, 16} : PlainCall(Accesses(Setup[n]))
  BY <1>1, <1>2, SetupCalls
<1> DEFINE t == alt_int_isr_register(UART0, "uart_callback", "NULL")
<1>4. UART0 \in Implemented \cup {Provision}
  BY SetupAssumption
<1>5. t = <<>> \/ Registration(t, UART0, "uart_callback", "NULL")
  BY <1>4, RegisterCall
<1> HIDE DEF t
<1>6. PlainCall(t) \/ Registration(t, UART0, "uart_callback", "NULL")
  BY <1>5, NonePlain
<1>7. GicCall(t)
  BY <1>6, PlainGic, RegistrationGic
<1>8. Accesses(Setup[14]) = t
  BY SetupCalls DEF t
<1>9. QED
  BY <1>3, <1>6, <1>7, <1>8

\* Later calls of alt_interrupt.c.
LEMMA LaterGic ==
  ASSUME GicTyped, DistributorCall \/ ControllerCall
  PROVE  \/ PlainCall(todo')
         \/ \E id \in Implemented, p \in {<<"callback", "context">>, <<"0", "0">>} :
              Registration(todo', id, p[1], p[2])
<1>1. CASE ControllerCall
  BY <1>1, ControllerPlain DEF ControllerCall, Call
<1>2. CASE DistributorCall
  <2>1. ASSUME NEW id \in Implemented \cup {Provision},
               todo' = alt_int_isr_register(id, "callback", "context") \/ todo' = alt_int_isr_unregister(id)
        PROVE  \/ PlainCall(todo')
               \/ \E i \in Implemented, p \in {<<"callback", "context">>, <<"0", "0">>} :
                    Registration(todo', i, p[1], p[2])
    <3>1. PICK p \in {<<"callback", "context">>, <<"0", "0">>} : todo' = alt_int_isr_register(id, p[1], p[2])
      BY <2>1 DEF alt_int_isr_unregister
    <3>2. \A x, y : LET t == alt_int_isr_register(id, x, y) IN t = <<>> \/ Registration(t, id, x, y)
      BY <2>1, RegisterCall
    <3>3. todo' = <<>> \/ Registration(todo', id, p[1], p[2])
      BY <3>1, <3>2
    <3>4. Registration(todo', id, p[1], p[2]) => id \in Implemented
      BY DEF Registration
    <3>5. QED
      BY <3>3, <3>4, NonePlain
  <2>2. \A priority \in Priorities : priority \in Nat
    BY SetupAssumption
  <2>3. QED
    BY <1>2, <2>1, <2>2, DistributorPlain DEF DistributorCall, Call
<1>3. QED
  BY <1>1, <1>2

\* A step of the program.
LEMMA ProgramStep ==
  ASSUME HandleInv, GicTyped, main \in 1..17, Program
  PROVE  HandleInv'
<1>1. CASE Access
  BY <1>1, AccessStep
<1>2. CASE MainCall
  <2>1. /\ todo = <<>> /\ main \in 1..16 /\ todo' = Accesses(Setup[main]) /\ UNCHANGED uartVars
    BY <1>2, SetupCalls DEF MainCall, SetUp
  <2>2. Agreed(View) /\ HandleTyped
    BY <2>1, InvMatches DEF HandleInv
  <2>3. Fine(todo') \/ GicCall(todo')
    <3>1. CASE main \in {5, 6, 7, 8, 15, 16}
      BY <2>1, <3>1, SetupGic, PlainGic
    <3>2. CASE main = 14
      BY <2>1, <3>2, SetupGic
    <3>3. CASE main \notin {5, 6, 7, 8, 14, 15, 16}
      BY <2>1, <2>2, <3>3, SetupFine
    <3>4. QED
      BY <3>1, <3>2, <3>3
  <2>4. QED
    BY <2>1, <2>2, <2>3, CallBegins
<1>3. CASE DistributorCall \/ ControllerCall \/ UartCall
  <2>1. todo = <<>> /\ UNCHANGED uartVars
    BY <1>3 DEF DistributorCall, ControllerCall, UartCall, Free, Call
  <2>2. Agreed(View) /\ HandleTyped
    BY <2>1, InvMatches DEF HandleInv
  <2>3. Fine(todo') \/ GicCall(todo')
    BY <1>3, <2>2, LaterGic, PlainGic, RegistrationGic, UartCallFine
  <2>4. QED
    BY <2>1, <2>2, <2>3, CallBegins
<1>4. QED
  BY <1>1, <1>2, <1>3 DEF Program

\* Handler and line do not touch what the handle knows.
LEMMA UartStays ==
  ASSUME HandleInv, handle' = handle, l4_sp' = l4_sp, todo' = todo, DOMAIN uart' = UartFields,
         uart'.dll = uart.dll, uart'.dlh = uart.dlh, uart'.fcr = uart.fcr, uart'.held = uart.held, uart'.lcr = uart.lcr
  PROVE  HandleInv' /\ View' = View
<1>1. HandleTyped' /\ View' = View
  BY DEF HandleInv, HandleTyped, View
<1>2. QED
  BY <1>1, HandleStays

\* A step of the interrupt handler, of a device or of the line.
LEMMA OtherStep ==
  ASSUME HandleInv, Handler \/ Environment
  PROVE  /\ HandleInv' /\ View' = View /\ handle' = handle
         /\ main' = main /\ todo' = todo /\ calls' = calls
<1>0. DOMAIN uart = UartFields
  BY DEF HandleInv, HandleTyped
<1>1. CASE UNCHANGED <<uartVars, main, todo, calls>>
  BY <1>0, <1>1, UartStays DEF uartVars
<1>2. CASE Callback /\ UNCHANGED <<main, todo, calls>>
  <2>1. CASE UNCHANGED uartVars
    BY <1>0, <1>2, <2>1, UartStays DEF uartVars
  <2>2. CASE ServeUart
    <3>1. handle' = handle /\ l4_sp' = l4_sp
      BY <2>2 DEF ServeUart
    <3>2. \/ uart' = uart \/ uart' = [uart EXCEPT !.overrun = FALSE]
          \/ uart' = [uart EXCEPT !.rx = 0] \/ uart' = [uart EXCEPT !.ier = @ \ {"ETBEI"}]
      BY <2>2 DEF ServeUart
    <3>3. /\ DOMAIN uart' = UartFields
          /\ uart'.dll = uart.dll /\ uart'.dlh = uart.dlh /\ uart'.fcr = uart.fcr /\ uart'.held = uart.held
          /\ uart'.lcr = uart.lcr
      BY <1>0, <3>2 DEF UartFields
    <3>4. QED
      BY <1>2, <3>1, <3>3, UartStays
  <2>3. QED
    BY <1>2, <2>1, <2>2 DEF Callback
<1>3. CASE Received /\ UNCHANGED <<main, todo, calls>>
  <2>1. handle' = handle /\ l4_sp' = l4_sp
    BY <1>3 DEF Received
  <2>2. uart' = [uart EXCEPT !.rx = @ + 1] \/ uart' = [uart EXCEPT !.overrun = TRUE]
    BY <1>3 DEF Received
  <2>3. /\ DOMAIN uart' = UartFields
        /\ uart'.dll = uart.dll /\ uart'.dlh = uart.dlh /\ uart'.fcr = uart.fcr /\ uart'.held = uart.held
        /\ uart'.lcr = uart.lcr
    BY <1>0, <2>2 DEF UartFields
  <2>4. QED
    BY <1>3, <2>1, <2>3, UartStays
<1>4. QED
  BY <1>1, <1>2, <1>3 DEF Handler, Environment, Line

\* At reset nothing has been written.
LEMMA HandleStarts ==
  ASSUME Init
  PROVE  HandleInv /\ main \in 1..17
<1>1. UartInit /\ main = 1 /\ todo = <<>>
  BY DEF Init
<1>2. /\ handle \in [device : {"SOCFPGA_UART0", "ALTERA_16550_UART"}, located : {FALSE},
                     divisor : {0}, enabled : {FALSE}, fcr : {{}}, stale : {FALSE}]
      /\ uart \in {[UartReset EXCEPT !.held = TRUE],
                   [UartReset EXCEPT !.dll = 54, !.lcr = {"8N1"}, !.fcr = {"FIFOE"}]}
  BY <1>1 DEF UartInit
<1>3. /\ DOMAIN handle = HandleFields /\ handle.located = FALSE /\ handle.divisor = 0
      /\ handle.enabled = FALSE /\ handle.stale = FALSE
  BY <1>2 DEF HandleFields
<1>4. DOMAIN uart = UartFields /\ uart.held \in BOOLEAN /\ uart.dll \in Nat /\ uart.dlh \in Nat
  <2>1. CASE uart = [UartReset EXCEPT !.held = TRUE]
    BY <2>1, ResetFields DEF UartFields
  <2>2. CASE uart = [UartReset EXCEPT !.dll = 54, !.lcr = {"8N1"}, !.fcr = {"FIFOE"}]
    <3>1. DOMAIN uart = DOMAIN UartReset
      BY <2>2
    <3>2. "dll" \in DOMAIN UartReset /\ uart.dlh = UartReset.dlh /\ uart.held = UartReset.held
      BY <2>2, ResetFields DEF UartFields
    <3>3. uart.dll = 54
      BY <2>2, ResetFields DEF UartFields
    <3>4. uart.held = FALSE /\ uart.dlh = 0 /\ DOMAIN uart = UartFields
      BY <3>1, <3>2, ResetFields
    <3>5. uart.held \in BOOLEAN
      BY <3>4
    <3>6. uart.dll \in Nat /\ uart.dlh \in Nat
      BY <3>3, <3>4
    <3>7. QED
      BY <3>4, <3>5, <3>6
  <2>3. QED
    BY <1>2, <2>1, <2>2
<1>5. Agreed(View)
  <2>1. uart.lcr \cap {"DLAB"} = {}
    <3>1. CASE uart = [UartReset EXCEPT !.held = TRUE]
      BY <3>1, ResetFields DEF UartFields
    <3>2. CASE uart = [UartReset EXCEPT !.dll = 54, !.lcr = {"8N1"}, !.fcr = {"FIFOE"}]
      <4>1. uart.lcr = {"8N1"}
        BY <3>2, ResetFields DEF UartFields
      <4>2. QED
        BY <4>1
    <3>3. QED
      BY <1>2, <3>1, <3>2
  <2>2. QED
    BY <1>3, <2>1 DEF Agreed, View
<1>6. Fine(<<>>)
  BY <1>5, NoneStill, StillFine
<1>7. /\ handle.located \in BOOLEAN /\ handle.enabled \in BOOLEAN /\ handle.stale \in BOOLEAN
      /\ handle.divisor \in Nat
  <2>1. handle.located \in BOOLEAN
    BY <1>3
  <2>2. handle.enabled \in BOOLEAN
    BY <1>3
  <2>3. handle.stale \in BOOLEAN
    BY <1>3
  <2>4. handle.divisor \in Nat
    BY <1>3
  <2>5. QED
    BY <2>1, <2>2, <2>3, <2>4
<1>8. HandleTyped
  BY <1>3, <1>4, <1>7 DEF HandleTyped
<1>9. QED
  BY <1>1, <1>6, <1>8 DEF HandleInv

(***************************************************************************)
(* The controller, step by step.                                           *)
(***************************************************************************)
\* Handler and world leave alone what the program has enabled and registered.
LEMMA OtherGic ==
  ASSUME GicTyped, Handler \/ Environment
  PROVE  GicTyped' /\ gic'.icdiser = gic.icdiser /\ irq' = irq /\ driver' = driver
<1>0. DOMAIN gic = GicFields
  BY DEF GicTyped
<1>1. irq' = irq /\ driver' = driver
  BY DEF Handler, Environment, Interrupt, Acknowledge, EndOfInterrupt, Callback, Line, Received, interruptVars
<1>2. \/ gic' = gic
      \/ \E b, p : gic' = [gic EXCEPT !.icdabr = b, !.icdispr = p]
      \/ \E b : gic' = [gic EXCEPT !.icdabr = b]
      \/ \E p : gic' = [gic EXCEPT !.icdispr = p]
  <2>1. CASE Handler
    <3>1. CASE Acknowledge(Asserted)
      BY <3>1 DEF Acknowledge
    <3>2. CASE EndOfInterrupt
      BY <3>2 DEF EndOfInterrupt
    <3>3. CASE Interrupt(Asserted) \/ Callback
      BY <3>3 DEF Interrupt, Callback
    <3>4. QED
      BY <2>1, <3>1, <3>2, <3>3 DEF Handler
  <2>2. CASE Environment
    BY <2>2 DEF Environment, Line, Received, interruptVars
  <2>3. QED
    BY <2>1, <2>2
<1>3. DOMAIN gic' = GicFields /\ gic'.icdiser = gic.icdiser /\ gic'.icdipr = gic.icdipr
  <2>1. CASE gic' = gic
    BY <1>0, <2>1
  <2>2. CASE \E b, p : gic' = [gic EXCEPT !.icdabr = b, !.icdispr = p]
    BY <1>0, <2>2 DEF GicFields
  <2>3. CASE \E b : gic' = [gic EXCEPT !.icdabr = b]
    BY <1>0, <2>3 DEF GicFields
  <2>4. CASE \E p : gic' = [gic EXCEPT !.icdispr = p]
    BY <1>0, <2>4 DEF GicFields
  <2>5. QED
    BY <1>2, <2>1, <2>2, <2>3, <2>4
<1>4. QED
  BY <1>1, <1>3 DEF GicTyped

\* A step that does not touch controller and driver.
LEMMA GicStays ==
  ASSUME GicTyped, gic' = gic, driver' = driver
  PROVE  GicTyped'
  BY DEF GicTyped

\* At reset nothing is registered and no interrupt is taken.
LEMMA GicStarts ==
  ASSUME Init
  PROVE  GicTyped /\ irq = FALSE /\ isr.at = "none"
         /\ driver.dispatch = [i \in Implemented |-> NoCallback]
<1>1. PICK p \in Preloaders :
        gic = [GicReset EXCEPT !.icddcr = p.icddcr, !.icdiser = p.icdiser, !.iccicr = p.iccicr,
                               !.iccpmr = p.iccpmr,
                               !.icdiptr = [i \in Implemented |-> IF i \in p.icdiser THEN 1 ELSE 0]]
  BY DEF Init, InterruptInit
<1>2. DOMAIN GicReset = GicFields /\ GicReset.icdipr = [i \in Implemented |-> 0]
  BY DEF GicReset, GicFields
<1>3. DOMAIN gic = GicFields /\ gic.icdiser = p.icdiser /\ gic.icdipr = [i \in Implemented |-> 0]
  BY <1>1, <1>2 DEF GicFields
<1>4. gic.icdiser \subseteq Implemented /\ gic.icdipr \in [Implemented -> Nat]
  BY <1>3, InterruptsAssumption
<1>5. /\ driver = [flag |-> {}, dispatch |-> [i \in Implemented |-> NoCallback], count_cpu |-> 0]
      /\ irq = FALSE /\ isr = [at |-> "none"]
  BY DEF Init, InterruptInit
<1>6. /\ DOMAIN driver = {"flag", "dispatch", "count_cpu"} /\ driver.flag = {}
      /\ driver.dispatch = [i \in Implemented |-> NoCallback]
  BY <1>5
<1>7. DOMAIN NoCallback = {"callback", "context"}
  BY DEF NoCallback
<1>8. DOMAIN driver.dispatch = Implemented
  BY <1>6
<1>9. \A i \in Implemented : driver.dispatch[i] = NoCallback
  BY <1>6
<1>10. GicTyped
  BY <1>3, <1>4, <1>6, <1>7, <1>8, <1>9 DEF GicTyped
<1>11. QED
  BY <1>5, <1>6, <1>10

\* Where main is.
CallsTyped == main \in 1..17 /\ calls \in Nat /\ (calls > 0 => main = 17)

\* A call begins, or an access is made; the handler is not under way.
LEMMA ProgramMoves ==
  ASSUME HandleInv, GicTyped, CallsTyped, Program
  PROVE  /\ GicTyped' /\ CallsTyped' /\ isr' = isr /\ isr.at = "none"
         /\ \/ Access
            \/ /\ todo = <<>> /\ UNCHANGED <<interruptVars, uartVars>>
               /\ \/ main \in 1..16 /\ calls = 0 /\ main' = main + 1 /\ calls' = calls /\ todo' = Accesses(Setup[main])
                  \/ calls' > 0 /\ main' = 17 /\ main = 17 /\ (DistributorCall \/ ControllerCall \/ UartCall)
<1>1. CASE Access
  <2>1. /\ main' = main /\ calls' = calls
        /\ \/ GicAccesses(todo[1]) /\ GicAccess(todo[1]) /\ isr' = isr
           \/ UNCHANGED interruptVars
    BY <1>1, NextAccess
  <2>2. GicTyped' /\ isr' = isr
    BY <2>1, GicAccessMoves, GicStays DEF interruptVars
  <2>3. isr.at = "none"
    BY <1>1 DEF Access, Running
  <2>4. QED
    BY <1>1, <2>1, <2>2, <2>3 DEF CallsTyped
<1>2. CASE MainCall
  <2>1. /\ todo = <<>> /\ UNCHANGED <<interruptVars, uartVars>> /\ main \in 1..16 /\ main' = main + 1 /\ calls' = calls
        /\ todo' = Accesses(Setup[main]) /\ isr.at = "none"
    BY <1>2, SetupCalls DEF MainCall, SetUp, CallsTyped, Running
  <2>2. GicTyped' /\ isr' = isr
    BY <2>1, GicStays DEF interruptVars
  <2>3. calls = 0 /\ main' \in 1..17
    BY <2>1 DEF CallsTyped
  <2>4. QED
    BY <2>1, <2>2, <2>3 DEF CallsTyped
<1>3. CASE DistributorCall \/ ControllerCall \/ UartCall
  <2>1. /\ todo = <<>> /\ UNCHANGED <<interruptVars, uartVars>> /\ calls' = calls + 1 /\ main' = main
        /\ main > 16 /\ isr.at = "none"
    BY <1>3, SetupCalls DEF DistributorCall, ControllerCall, UartCall, Free, Call, Running, SetUp
  <2>2. GicTyped' /\ isr' = isr
    BY <2>1, GicStays DEF interruptVars
  <2>3. calls' \in Nat /\ calls' > 0 /\ main = 17
    BY <2>1 DEF CallsTyped
  <2>4. QED
    BY <1>3, <2>1, <2>2, <2>3 DEF CallsTyped
<1>4. QED
  BY <1>1, <1>2, <1>3 DEF Program

(***************************************************************************)
(* What is registered.                                                     *)
(***************************************************************************)
Pairs == {NoCallback, [callback |-> "uart_callback", context |-> "NULL"],
          [callback |-> "callback", context |-> "context"]}

\* The callback of main's setup is registered by its fourteenth call only.
Setting(p) == p.callback = "uart_callback" => calls = 0 /\ main = 15

\* Callback and context belong together, but for a registration that is under way: the
\* accesses left of it make them so.
NoneUnderWay(t) ==
  /\ \A k \in 1..Len(t) : t[k].op # "dispatch"
  /\ \A i \in Implemented : driver.dispatch[i] \in Pairs

BothLeft(t, id, p) ==
  /\ t = <<Dispatch(id, "callback", p.callback), Dispatch(id, "context", p.context)>>
  /\ \A i \in Implemented : driver.dispatch[i] \in Pairs
  /\ Setting(p)

OneLeft(t, id, p) ==
  /\ t = <<Dispatch(id, "context", p.context)>>
  /\ driver.dispatch[id].callback = p.callback
  /\ \A i \in Implemented \ {id} : driver.dispatch[i] \in Pairs
  /\ Setting(p)

Registered(t) ==
  \/ NoneUnderWay(t)
  \/ \E id \in Implemented, p \in Pairs : BothLeft(t, id, p) \/ OneLeft(t, id, p)

\* Between two calls every interrupt has the context of its callback.
LEMMA BetweenCalls ==
  ASSUME Registered(<<>>)
  PROVE  \A i \in Implemented : driver.dispatch[i] \in Pairs
<1>1. \A a, b : <<a, b>> # <<>> /\ <<a>> # <<>>
  OBVIOUS
<1>2. QED
  BY <1>1 DEF Registered, NoneUnderWay, BothLeft, OneLeft

\* A call begins.
LEMMA RegisteredBegins ==
  ASSUME Registered(<<>>), driver' = driver,
         \/ PlainCall(todo') \/ Fine(todo')
         \/ \E id \in Implemented, p \in Pairs : Registration(todo', id, p.callback, p.context) /\ Setting(p)'
  PROVE  Registered(todo)'
<1>1. \A i \in Implemented : driver'.dispatch[i] \in Pairs
  BY BetweenCalls
<1>2. CASE PlainCall(todo')
  <2>1. \A k \in 1..Len(todo') : todo'[k].op # "dispatch"
    BY <1>2, PlainGic
  <2>2. QED
    BY <1>1, <2>1 DEF Registered, NoneUnderWay
<1>3. CASE Fine(todo')
  <2>1. \A k \in 1..Len(todo') : Ok(todo'[k])
    BY <1>3 DEF Fine, Runs
  <2>2. \A k \in 1..Len(todo') : todo'[k].op # "dispatch"
    BY <2>1 DEF Ok, UartAccesses
  <2>3. QED
    BY <1>1, <2>2 DEF Registered, NoneUnderWay
<1>4. ASSUME NEW id \in Implemented, NEW p \in Pairs, Registration(todo', id, p.callback, p.context), Setting(p)'
      PROVE  Registered(todo)'
  <2>1. todo' = <<Dispatch(id, "callback", p.callback), Dispatch(id, "context", p.context)>>
    BY <1>4 DEF Registration
  <2>2. BothLeft(todo, id, p)'
    BY <1>1, <1>4, <2>1 DEF BothLeft
  <2>3. QED
    BY <2>2 DEF Registered
<1>5. QED
  BY <1>2, <1>3, <1>4

\* An access is made.
LEMMA RegisteredAccess ==
  ASSUME HandleInv, GicTyped, Registered(todo), Access
  PROVE  Registered(todo)'
<1>1. /\ todo # <<>> /\ todo' = Tail(todo) /\ IsCall(todo) /\ main' = main /\ calls' = calls
      /\ \/ GicAccesses(todo[1]) /\ GicAccess(todo[1])
         \/ Ok(todo[1]) /\ driver' = driver
  BY NextAccess DEF interruptVars, Ok
<1>2. /\ 1 \in 1..Len(todo)
      /\ \A k \in 1..Len(Tail(todo)) : Tail(todo)[k] = todo[k + 1] /\ k + 1 \in 1..Len(todo)
  BY <1>1, Rest
<1>3. DOMAIN driver.dispatch = Implemented /\ \A i \in Implemented : DOMAIN driver.dispatch[i] = {"callback", "context"}
  BY DEF GicTyped
<1>4. \A p : Setting(p)' <=> Setting(p)
  BY <1>1 DEF Setting
<1>5. CASE NoneUnderWay(todo)
  <2>1. \A k \in 1..Len(todo') : todo'[k].op # "dispatch"
    BY <1>1, <1>2, <1>5 DEF NoneUnderWay
  <2>2. todo[1].op # "dispatch"
    BY <1>2, <1>5 DEF NoneUnderWay
  <2>3. driver'.dispatch = driver.dispatch \/ driver'.dispatch = [i \in Implemented |-> NoCallback]
    BY <1>1, <2>2, GicAccessMoves DEF GicMoves
  <2>4. \A i \in Implemented : driver'.dispatch[i] \in Pairs
    <3>1. \A i \in Implemented : driver.dispatch[i] \in Pairs
      BY <1>5 DEF NoneUnderWay
    <3>2. NoCallback \in Pairs
      BY DEF Pairs
    <3>3. QED
      BY <2>3, <3>1, <3>2
  <2>5. QED
    BY <2>1, <2>4 DEF Registered, NoneUnderWay
<1>6. ASSUME NEW id \in Implemented, NEW p \in Pairs, BothLeft(todo, id, p)
      PROVE  Registered(todo)'
  <2> DEFINE a == Dispatch(id, "callback", p.callback)
             b == Dispatch(id, "context", p.context)
  <2>1. todo = <<a, b>>
    BY <1>6 DEF BothLeft
  <2>2. a.op = "dispatch" /\ a.id = id /\ a.field = "callback" /\ a.val = p.callback
    BY DEF Dispatch
  <2> HIDE DEF a, b
  <2>3. todo[1] = a /\ Tail(todo) = <<b>>
    BY <2>1
  <2>4. driver'.dispatch = [driver.dispatch EXCEPT ![a.id][a.field] = a.val]
    <3>1. ~Ok(a)
      BY <2>2 DEF Ok, UartAccesses
    <3>2. QED
      BY <1>1, <2>2, <2>3, <3>1, GicAccessMoves DEF GicMoves
  <2>5. driver'.dispatch[id].callback = p.callback
    BY <1>3, <2>2, <2>4
  <2>6. \A i \in Implemented \ {id} : driver'.dispatch[i] = driver.dispatch[i]
    BY <1>3, <2>2, <2>4
  <2>7. \A i \in Implemented \ {id} : driver'.dispatch[i] \in Pairs
    BY <1>6, <2>6 DEF BothLeft
  <2>8. todo' = <<Dispatch(id, "context", p.context)>>
    BY <1>1, <2>3 DEF b
  <2>9. Setting(p)'
    BY <1>4, <1>6 DEF BothLeft
  <2>10. OneLeft(todo, id, p)'
    BY <2>5, <2>7, <2>8, <2>9 DEF OneLeft
  <2>11. QED
    BY <2>10 DEF Registered
<1>7. ASSUME NEW id \in Implemented, NEW p \in Pairs, OneLeft(todo, id, p)
      PROVE  Registered(todo)'
  <2> DEFINE b == Dispatch(id, "context", p.context)
  <2>1. todo = <<b>>
    BY <1>7 DEF OneLeft
  <2>2. b.op = "dispatch" /\ b.id = id /\ b.field = "context" /\ b.val = p.context
    BY DEF Dispatch
  <2> HIDE DEF b
  <2>3. todo[1] = b /\ Tail(todo) = <<>>
    BY <2>1
  <2>4. driver'.dispatch = [driver.dispatch EXCEPT ![b.id][b.field] = b.val]
    <3>1. ~Ok(b)
      BY <2>2 DEF Ok, UartAccesses
    <3>2. QED
      BY <1>1, <2>2, <2>3, <3>1, GicAccessMoves DEF GicMoves
  <2>5. driver'.dispatch[id] = [driver.dispatch[id] EXCEPT !["context"] = p.context]
    BY <1>3, <2>2, <2>4
  <2>6. driver'.dispatch[id] = p
    <3>1. driver.dispatch[id].callback = p.callback /\ DOMAIN driver.dispatch[id] = {"callback", "context"}
      BY <1>3, <1>7 DEF OneLeft
    <3>2. driver'.dispatch[id] = [callback |-> p.callback, context |-> p.context]
      <4> DEFINE f == driver.dispatch[id]
                 g == driver'.dispatch[id]
      <4>1. g = [f EXCEPT !["context"] = p.context] /\ f.callback = p.callback /\ DOMAIN f = {"callback", "context"}
        BY <2>5, <3>1
      <4> HIDE DEF f, g
      <4>2. DOMAIN g = {"callback", "context"} /\ g["callback"] = p.callback /\ g["context"] = p.context
        BY <4>1
      <4>3. g = [x \in {"callback", "context"} |-> g[x]]
        BY <4>1, <4>2
      <4>4. g = [callback |-> p.callback, context |-> p.context]
        BY <4>2, <4>3
      <4>5. QED
        BY <4>4 DEF g
    <3>3. p = [callback |-> p.callback, context |-> p.context]
      BY DEF Pairs, NoCallback
    <3>4. QED
      BY <3>2, <3>3
  <2>7. \A i \in Implemented \ {id} : driver'.dispatch[i] = driver.dispatch[i]
    BY <1>3, <2>2, <2>4
  <2>8. \A i \in Implemented : driver'.dispatch[i] \in Pairs
    BY <1>7, <2>6, <2>7 DEF OneLeft
  <2>9. todo' = <<>> /\ Len(todo') = 0
    BY <1>1, <2>3, NoAccess
  <2>10. \A k \in 1..Len(todo') : FALSE
    BY <2>9
  <2>11. NoneUnderWay(todo)'
    BY <2>8, <2>10 DEF NoneUnderWay
  <2>12. QED
    BY <2>11 DEF Registered
<1>8. QED
  BY <1>5, <1>6, <1>7 DEF Registered

(***************************************************************************)
(* The interrupt handler.                                                  *)
(***************************************************************************)
\* While a callback runs its interrupt is one the hardware has, and is registered.
HandlerTyped ==
  isr.at = "callback" =>
    /\ DOMAIN isr = {"at", "id"} /\ isr.id \in Implemented
    /\ driver.dispatch[isr.id].callback # "0"

\* Where the handler may go.
LEMMA HandlerMoves ==
  ASSUME GicTyped, HandlerTyped, Handler \/ Environment
  PROVE  \/ isr' = isr
         \/ isr.at = "none" /\ isr'.at = "acknowledge" /\ irq /\ gic.icdiser # {}
         \/ isr.at # "none" /\ isr'.at = "none"
         \/ isr.at = "acknowledge" /\ isr'.at = "end" /\ isr'.id \in {1022, 1023}
         \/ /\ isr.at = "acknowledge" /\ isr'.id \in gic.icdiser
            /\ \/ isr'.at = "end"
               \/ isr'.at = "callback" /\ DOMAIN isr' = {"at", "id"} /\ driver.dispatch[isr'.id].callback # "0"
         \/ isr.at = "callback" /\ isr'.at = "end" /\ isr'.id = isr.id
<1>0. gic.icdiser \subseteq Implemented /\ gic.icdipr \in [Implemented -> Nat]
  BY DEF GicTyped
<1>1. CASE Environment
  BY <1>1 DEF Environment, Line, Received, interruptVars
<1>2. CASE Interrupt(Asserted)
  BY <1>2 DEF Interrupt, Interrupted, Signalled
<1>3. CASE EndOfInterrupt
  BY <1>3 DEF EndOfInterrupt
<1>4. CASE Callback
  <2>1. isr.at = "callback" /\ isr' = [isr EXCEPT !.at = "end"] /\ DOMAIN isr = {"at", "id"}
    BY <1>4 DEF Callback, HandlerTyped
  <2>2. isr'.at = "end" /\ isr'.id = isr.id
    BY <2>1
  <2>3. QED
    BY <2>1, <2>2
<1>5. CASE Acknowledge(Asserted)
  <2> DEFINE id == Highest(Asserted)
             none == Signalled(Asserted) = {}
             refused == Group(id) = "ns" /\ "ack" \notin gic.iccicr
  <2>1. /\ isr.at = "acknowledge"
        /\ none \/ refused => isr' = [at |-> "end", id |-> IF none THEN 1023 ELSE 1022]
        /\ ~(none \/ refused) =>
             isr' = [at |-> IF driver.dispatch[id].callback # "0" THEN "callback" ELSE "end", id |-> id]
    BY <1>5 DEF Acknowledge
  <2>2. ~none => id \in gic.icdiser
    <3>1. ~none => id \in Signalled(Asserted)
      BY <1>0, HighestSignalled
    <3>2. QED
      BY <3>1 DEF Signalled
  <2> HIDE DEF id, none, refused
  <2>3. CASE none \/ refused
    <3>1. isr'.at = "end" /\ isr'.id = (IF none THEN 1023 ELSE 1022)
      BY <2>1, <2>3
    <3>2. QED
      BY <2>1, <3>1
  <2>4. CASE ~(none \/ refused)
    <3>1. /\ isr'.at = (IF driver.dispatch[id].callback # "0" THEN "callback" ELSE "end")
          /\ isr'.id = id /\ DOMAIN isr' = {"at", "id"}
      BY <2>1, <2>4
    <3>2. QED
      BY <2>1, <2>2, <2>4, <3>1
  <2>5. QED
    BY <2>3, <2>4
<1>6. QED
  BY <1>1, <1>2, <1>3, <1>4, <1>5 DEF Handler

\* A step of the handler keeps that.
LEMMA HandlerTypedStep ==
  ASSUME GicTyped, HandlerTyped, Handler \/ Environment
  PROVE  HandlerTyped'
<1>1. driver' = driver /\ gic.icdiser \subseteq Implemented
  BY OtherGic DEF GicTyped
<1>2. CASE isr' = isr
  BY <1>1, <1>2 DEF HandlerTyped
<1>3. CASE isr'.at # "callback"
  BY <1>3 DEF HandlerTyped
<1>4. CASE /\ isr.at = "acknowledge" /\ isr'.id \in gic.icdiser
           /\ isr'.at = "callback" /\ DOMAIN isr' = {"at", "id"} /\ driver.dispatch[isr'.id].callback # "0"
  BY <1>1, <1>4 DEF HandlerTyped
<1>5. QED
  BY <1>2, <1>3, <1>4, HandlerMoves

\* A step of the program keeps callback and context together.
LEMMA RegisteredProgram ==
  ASSUME HandleInv, GicTyped, CallsTyped, Registered(todo), Program
  PROVE  Registered(todo)'
<1>1. CASE Access
  BY <1>1, RegisteredAccess
<1>2. CASE /\ todo = <<>> /\ UNCHANGED <<interruptVars, uartVars>>
           /\ main \in 1..16 /\ calls = 0 /\ main' = main + 1 /\ calls' = calls /\ todo' = Accesses(Setup[main])
  <2>1. Registered(<<>>) /\ driver' = driver
    BY <1>2 DEF interruptVars
  <2>2. Agreed(View) /\ HandleTyped
    BY <1>2, InvMatches DEF HandleInv
  <2>3. CASE main \in {5, 6, 7, 8, 15, 16}
    <3>1. PlainCall(todo')
      BY <1>2, <2>3, SetupGic
    <3>2. QED
      BY <2>1, <3>1, RegisteredBegins
  <2>4. CASE main = 14
    <3>1. PICK p \in Pairs : p = [callback |-> "uart_callback", context |-> "NULL"]
      BY DEF Pairs
    <3>2. p.callback = "uart_callback" /\ p.context = "NULL"
      BY <3>1
    <3>3. PlainCall(todo') \/ Registration(todo', UART0, p.callback, p.context)
      BY <1>2, <2>4, <3>2, SetupGic
    <3>4. Setting(p)' /\ UART0 \in Implemented
      BY <1>2, <2>4, SetupAssumption DEF Setting
    <3>5. QED
      BY <2>1, <3>3, <3>4, RegisteredBegins
  <2>5. CASE main \notin {5, 6, 7, 8, 14, 15, 16}
    <3>1. Fine(todo')
      BY <1>2, <2>2, <2>5, SetupFine
    <3>2. QED
      BY <2>1, <3>1, RegisteredBegins
  <2>6. QED
    BY <2>3, <2>4, <2>5
<1>3. CASE /\ todo = <<>> /\ UNCHANGED <<interruptVars, uartVars>>
           /\ DistributorCall \/ ControllerCall \/ UartCall
  <2>1. Registered(<<>>) /\ driver' = driver
    BY <1>3 DEF interruptVars
  <2>2. Agreed(View) /\ HandleTyped
    BY <1>3, InvMatches DEF HandleInv
  <2>3. CASE UartCall
    <3>1. Fine(todo')
      BY <2>2, <2>3, UartCallFine
    <3>2. QED
      BY <2>1, <3>1, RegisteredBegins
  <2>4. CASE DistributorCall \/ ControllerCall
    <3>1. CASE PlainCall(todo')
      BY <2>1, <3>1, RegisteredBegins
    <3>2. ASSUME NEW id \in Implemented, NEW c \in {<<"callback", "context">>, <<"0", "0">>},
                 Registration(todo', id, c[1], c[2])
          PROVE  Registered(todo)'
      <4>1. PICK p \in Pairs : p.callback = c[1] /\ p.context = c[2] /\ p.callback # "uart_callback"
        <5>1. CASE c = <<"callback", "context">>
          <6>1. PICK q \in Pairs : q = [callback |-> "callback", context |-> "context"]
            BY DEF Pairs
          <6>2. QED
            BY <5>1, <6>1
        <5>2. CASE c = <<"0", "0">>
          <6>1. NoCallback \in Pairs /\ NoCallback.callback = "0" /\ NoCallback.context = "0"
            BY DEF Pairs, NoCallback
          <6>2. QED
            BY <5>2, <6>1
        <5>3. QED
          BY <5>1, <5>2
      <4>2. Registration(todo', id, p.callback, p.context) /\ Setting(p)'
        BY <3>2, <4>1 DEF Setting
      <4>3. QED
        BY <2>1, <4>2, RegisteredBegins
    <3>3. QED
      BY <2>4, <3>1, <3>2, LaterGic
  <2>5. QED
    BY <1>3, <2>3, <2>4
<1>4. QED
  BY <1>1, <1>2, <1>3, ProgramMoves

\* So does a step that does not touch driver and program.
LEMMA RegisteredStays ==
  ASSUME Registered(todo), driver' = driver, todo' = todo, calls' = calls, main' = main
  PROVE  Registered(todo)'
<1>1. \A p : Setting(p)' <=> Setting(p)
  BY DEF Setting
<1>2. NoneUnderWay(todo) => NoneUnderWay(todo)'
  BY DEF NoneUnderWay
<1>3. \A id, p : BothLeft(todo, id, p) => BothLeft(todo, id, p)'
  BY <1>1 DEF BothLeft
<1>4. \A id, p : OneLeft(todo, id, p) => OneLeft(todo, id, p)'
  BY <1>1 DEF OneLeft
<1>5. QED
  BY <1>2, <1>3, <1>4 DEF Registered

\* A callback that runs has its context, or the accesses left are about to give it that.
LEMMA RegisteredMatches ==
  ASSUME Registered(todo), HandlerTyped, isr.at # "none" /\ calls = 0 => main = 17
  PROVE  ContextMatches
<1> SUFFICES ASSUME isr.at = "callback"
             PROVE  \/ driver.dispatch[isr.id] \in
                         {[callback |-> "uart_callback", context |-> "NULL"],
                          [callback |-> "callback", context |-> "context"]}
                    \/ todo # <<>> /\ Head(todo) = Dispatch(isr.id, "context", "context")
  BY DEF ContextMatches
<1>1. isr.id \in Implemented /\ driver.dispatch[isr.id].callback # "0"
  BY DEF HandlerTyped
<1>2. NoCallback.callback = "0"
  BY DEF NoCallback
<1>3. driver.dispatch[isr.id] \in Pairs =>
        driver.dispatch[isr.id] \in {[callback |-> "uart_callback", context |-> "NULL"],
                                     [callback |-> "callback", context |-> "context"]}
  BY <1>1, <1>2 DEF Pairs
<1>4. ASSUME NEW p \in Pairs, OneLeft(todo, isr.id, p)
      PROVE  todo # <<>> /\ Head(todo) = Dispatch(isr.id, "context", "context")
  <2>1. p.callback # "0"
    BY <1>1, <1>4 DEF OneLeft
  <2>2. p.callback # "uart_callback"
    BY <1>4 DEF OneLeft, Setting
  <2>3. p = [callback |-> "callback", context |-> "context"]
    <3>1. p # NoCallback
      BY <1>2, <2>1
    <3>2. p # [callback |-> "uart_callback", context |-> "NULL"]
      BY <2>2
    <3>3. QED
      BY <3>1, <3>2 DEF Pairs
  <2>4. p.context = "context"
    BY <2>3
  <2>5. todo = <<Dispatch(isr.id, "context", "context")>>
    BY <1>4, <2>4 DEF OneLeft
  <2>6. QED
    BY <2>5
<1>5. CASE NoneUnderWay(todo)
  BY <1>1, <1>3, <1>5 DEF NoneUnderWay
<1>6. ASSUME NEW id \in Implemented, NEW p \in Pairs, BothLeft(todo, id, p) \/ OneLeft(todo, id, p)
      PROVE  driver.dispatch[isr.id] \in Pairs \/ OneLeft(todo, isr.id, p)
  BY <1>1, <1>6 DEF BothLeft, OneLeft
<1>7. QED
  BY <1>3, <1>4, <1>5, <1>6 DEF Registered

(***************************************************************************)
(* The accesses of main's setup, stage by stage: what the calls before     *)
(* main's call n + 1 do not do.                                            *)
(***************************************************************************)
TurnsOn(a, i) == a.op = "bits" /\ a.reg = "icdiser" /\ i \in a.set

Staged(n, a) ==
  /\ n <= 7 => a.op # "cpsr"
  /\ n >= 7 /\ n <= 16 => ~(a.op = "bits" /\ a.reg = "icdiser")
  /\ n = 17 => \A i \in Implemented : TurnsOn(a, i) => i = UART0
  /\ n >= 15 => /\ a.op # "static"
                /\ a.op = "dispatch" /\ a.field = "callback" => a.val = "uart_callback"

AllStaged(n, t) == \A k \in 1..Len(t) : Staged(n, t[k])

\* No access.
LEMMA NoneStaged ==
  ASSUME NEW n
  PROVE  AllStaged(n, <<>>)
<1>1. \A k \in 1..Len(<<>>) : FALSE
  OBVIOUS
<1>2. QED
  BY <1>1 DEF AllStaged

\* One access ...
LEMMA OneStaged ==
  ASSUME NEW n, NEW a, Staged(n, a)
  PROVE  IsCall(<<a>>) /\ AllStaged(n, <<a>>)
<1>1. \A k \in 1..Len(<<a>>) : k = 1
  BY OneAccess
<1>2. QED
  BY <1>1, OneAccess DEF AllStaged

\* ... two ...
LEMMA TwoStaged ==
  ASSUME NEW n, NEW a, NEW b, Staged(n, a), Staged(n, b)
  PROVE  AllStaged(n, <<a, b>>)
<1>1. \A k \in 1..Len(<<a, b>>) : k = 1 \/ k = 2
  BY TwoAccesses
<1>2. QED
  BY <1>1, TwoAccesses DEF AllStaged

\* ... and two parts of a call.
LEMMA BothStaged ==
  ASSUME NEW n, NEW s, NEW t, IsCall(s), IsCall(t), AllStaged(n, s), AllStaged(n, t)
  PROVE  IsCall(s \o t) /\ AllStaged(n, s \o t)
<1>1. /\ IsCall(s \o t)
      /\ \A k \in 1..Len(s) : (s \o t)[k] = s[k]
      /\ \A k \in 1..Len(t) : (s \o t)[Len(s) + k] = t[k]
      /\ \A k \in 1..Len(s \o t) :
           k \in 1..Len(s) \/ (k - Len(s) \in 1..Len(t) /\ k = Len(s) + (k - Len(s)))
  BY Concat
<1>2. ASSUME NEW k \in 1..Len(s \o t) PROVE Staged(n, (s \o t)[k])
  <2>1. CASE k \in 1..Len(s)
    BY <1>1, <2>1 DEF AllStaged
  <2>2. CASE k - Len(s) \in 1..Len(t) /\ k = Len(s) + (k - Len(s))
    <3>1. (s \o t)[k] = t[k - Len(s)]
      BY <1>1, <2>2
    <3>2. QED
      BY <2>2, <3>1 DEF AllStaged
  <2>3. QED
    BY <1>1, <2>1, <2>2
<1>3. QED
  BY <1>1, <1>2 DEF AllStaged

\* An access of the UART driver.
LEMMA UartStaged ==
  ASSUME NEW n, NEW t, Fine(t)
  PROVE  AllStaged(n, t)
<1>1. \A k \in 1..Len(t) : Ok(t[k])
  BY DEF Fine, Runs
<1>2. \A a : Ok(a) => Staged(n, a)
  BY DEF Ok, UartAccesses, Staged, TurnsOn
<1>3. QED
  BY <1>1, <1>2 DEF AllStaged

\* alt_int_global_init does not touch the processor ...
LEMMA GlobalInitStaged == AllStaged(6, alt_int_global_init)
<1>1. Staged(6, Static) /\ Staged(6, Ctl("icddcr", {"secure"}, {}))
  BY DEF Staged, Static, Ctl
<1>2. /\ \A c, s : Staged(6, Bits("icdiser", c, s))
      /\ \A b : Staged(6, Discover(b))
  BY DEF Staged, Bits, Discover
<1>3. IsCall(Banks[0]) /\ AllStaged(6, Banks[0])
  BY <1>2, AllTurnedOff DEF Discovers, AllStaged
<1>4. IsCall(<<Static>> \o alt_int_global_disable) /\ AllStaged(6, <<Static>> \o alt_int_global_disable)
  BY <1>1, OneStaged, BothStaged DEF alt_int_global_disable
<1>5. AllStaged(6, (<<Static>> \o alt_int_global_disable) \o Banks[0])
  BY <1>3, <1>4, BothStaged
<1>6. QED
  BY <1>5 DEF alt_int_global_init

\* ... and leaves no interrupt enabled.
Quiets(t) ==
  \A i \in Implemented :
    /\ \E k \in 1..Len(t) : TurnsOff(t[k], i)
    /\ \A k \in 1..Len(t) : TurnsOn(t[k], i) => \E j \in 1..Len(t) : k < j /\ TurnsOff(t[j], i)

\* Two accesses as two parts.
LEMMA TwoParts ==
  ASSUME NEW a, NEW b
  PROVE  /\ IsCall(<<a>> \o <<b>>) /\ Len(<<a>> \o <<b>>) = 2
         /\ (<<a>> \o <<b>>)[1] = a /\ (<<a>> \o <<b>>)[2] = b
<1>1. /\ IsCall(<<a>>) /\ Len(<<a>>) = 1 /\ <<a>>[1] = a
      /\ IsCall(<<b>>) /\ Len(<<b>>) = 1 /\ <<b>>[1] = b
  BY OneAccess
<1>2. /\ IsCall(<<a>> \o <<b>>) /\ Len(<<a>> \o <<b>>) = Len(<<a>>) + Len(<<b>>)
      /\ \A k \in 1..Len(<<a>>) : (<<a>> \o <<b>>)[k] = <<a>>[k]
      /\ \A k \in 1..Len(<<b>>) : (<<a>> \o <<b>>)[Len(<<a>>) + k] = <<b>>[k]
  BY <1>1, Concat
<1>3. 1 \in 1..Len(<<a>>) /\ 1 \in 1..Len(<<b>>) /\ Len(<<a>>) + 1 = 2 /\ Len(<<a>>) + Len(<<b>>) = 2
  BY <1>1
<1>4. QED
  BY <1>1, <1>2, <1>3

\* Whatever was enabled before it: see Banks, which turns each interrupt off.
LEMMA GlobalInitQuiets == Quiets(alt_int_global_init)
<1> DEFINE s == <<Static>> \o alt_int_global_disable
           t == Banks[0]
           u == s \o t
<1>1. /\ IsCall(s) /\ Len(s) = 2 /\ s[1] = Static /\ s[2] = Ctl("icddcr", {"secure"}, {})
  <2> DEFINE a == Static
             b == Ctl("icddcr", {"secure"}, {})
  <2>1. s = <<a>> \o <<b>>
    BY DEF alt_int_global_disable
  <2> HIDE DEF s, a, b
  <2>2. QED
    BY <2>1, TwoParts DEF a, b
<1>2. \A k \in 1..Len(s) : s[k].op # "bits"
  <2>1. Static.op # "bits" /\ Ctl("icddcr", {"secure"}, {}).op # "bits"
    BY DEF Static, Ctl
  <2>2. \A k \in 1..Len(s) : k = 1 \/ k = 2
    BY <1>1
  <2>3. QED
    BY <1>1, <2>1, <2>2
<1>3. /\ IsCall(t) /\ TurnedOff(t)
      /\ \A i \in Implemented : \E j \in 1..Len(t) : TurnsOff(t[j], i)
  BY AllTurnedOff
<1> HIDE DEF s, t
<1>0. IsCall(s) /\ IsCall(t)
  BY <1>1, <1>3
<1>4. /\ Len(s) \in Nat /\ Len(t) \in Nat /\ Len(u) = Len(s) + Len(t)
      /\ \A k \in 1..Len(s) : u[k] = s[k]
      /\ \A k \in 1..Len(t) : u[Len(s) + k] = t[k]
      /\ \A k \in 1..Len(u) : k \in 1..Len(s) \/ (k - Len(s) \in 1..Len(t) /\ k = Len(s) + (k - Len(s)))
  BY <1>0, Concat
<1> HIDE DEF u
<1>5. ASSUME NEW i \in Implemented PROVE \E k \in 1..Len(u) : TurnsOff(u[k], i)
  <2>1. PICK j \in 1..Len(t) : TurnsOff(t[j], i)
    BY <1>3
  <2>2. Len(s) + j \in 1..Len(u) /\ u[Len(s) + j] = t[j]
    BY <1>4
  <2>3. QED
    BY <2>1, <2>2
<1>6. ASSUME NEW i \in Implemented, NEW k \in 1..Len(u), TurnsOn(u[k], i)
      PROVE  \E j \in 1..Len(u) : k < j /\ TurnsOff(u[j], i)
  <2>1. k - Len(s) \in 1..Len(t) /\ k = Len(s) + (k - Len(s)) /\ u[k] = t[k - Len(s)]
    <3>1. ~(k \in 1..Len(s))
      BY <1>2, <1>4, <1>6 DEF TurnsOn
    <3>2. k - Len(s) \in 1..Len(t) /\ k = Len(s) + (k - Len(s))
      BY <1>4, <3>1
    <3>3. u[Len(s) + (k - Len(s))] = t[k - Len(s)]
      BY <1>4, <3>2
    <3>4. QED
      BY <3>2, <3>3
  <2>2. PICK j \in 1..Len(t) : k - Len(s) < j /\ TurnsOff(t[j], i)
    BY <1>3, <1>6, <2>1 DEF TurnedOff, TurnsOn
  <2>3. Len(s) + j \in 1..Len(u) /\ u[Len(s) + j] = t[j] /\ k < Len(s) + j
    BY <1>4, <2>2
  <2>4. QED
    BY <2>2, <2>3
<1>7. Quiets(u)
  BY <1>5, <1>6 DEF Quiets
<1>8. QED
  BY <1>7 DEF alt_int_global_init, u, s, t

\* The other calls.
LEMMA ControllerStaged ==
  /\ AllStaged(7, alt_int_cpu_init)
  /\ AllStaged(8, alt_int_cpu_enable)
  /\ AllStaged(9, alt_int_global_enable)
  /\ AllStaged(15, alt_int_isr_register(UART0, "uart_callback", "NULL"))
  /\ \A target : AllStaged(16, alt_int_dist_target_set(UART0, target))
  /\ AllStaged(17, alt_int_dist_enable(UART0))
<1>1. \A r, x : Staged(7, Word(r, x))
  BY DEF Staged, Word
<1>2. AllStaged(7, alt_int_cpu_init)
  <2>1. \A c, r, x : IsCall(When(c, <<Word(r, x)>>)) /\ AllStaged(7, When(c, <<Word(r, x)>>))
    BY <1>1, OneStaged, NoneStaged, NoAccess DEF When
  <2>2. QED
    BY <2>1, BothStaged DEF alt_int_cpu_init, alt_int_cpu_priority_mask_set, alt_int_cpu_binary_point_set
<1>3. AllStaged(8, alt_int_cpu_enable)
  <2>1. Staged(8, Ctl("iccicr", {}, {"secure"})) /\ Staged(8, Cpsr(TRUE))
    BY DEF Staged, Ctl, Cpsr
  <2>2. QED
    BY <2>1, TwoStaged DEF alt_int_cpu_enable
<1>4. AllStaged(9, alt_int_global_enable)
  <2>1. Staged(9, Ctl("icddcr", {}, {"secure"}))
    BY DEF Staged, Ctl
  <2>2. QED
    BY <2>1, OneStaged DEF alt_int_global_enable
<1>5. AllStaged(15, alt_int_isr_register(UART0, "uart_callback", "NULL"))
  <2>1. /\ Staged(15, Dispatch(UART0, "callback", "uart_callback"))
        /\ Staged(15, Dispatch(UART0, "context", "NULL"))
    BY DEF Staged, Dispatch
  <2>2. QED
    BY <2>1, TwoStaged, NoneStaged DEF alt_int_isr_register, When
<1>6. \A target : AllStaged(16, alt_int_dist_target_set(UART0, target))
  <2>1. \A target : Staged(16, Put("icdiptr", UART0, target))
    BY DEF Staged, Put
  <2>2. QED
    BY <2>1, OneStaged, NoneStaged DEF alt_int_dist_target_set, When
<1>7. AllStaged(17, alt_int_dist_enable(UART0))
  <2>1. Staged(17, Bits("icdiser", {}, {UART0}))
    BY DEF Staged, Bits, TurnsOn
  <2>2. QED
    BY <2>1, OneStaged, NoneStaged DEF alt_int_dist_enable, When
<1>8. QED
  BY <1>2, <1>3, <1>4, <1>5, <1>6, <1>7

\* Each of main's calls does what its stage allows.
LEMMA SetupStaged ==
  ASSUME Agreed(View), HandleTyped, NEW n \in 1..16
  PROVE  AllStaged(n + 1, Accesses(Setup[n]))
<1>1. CASE n \notin {5, 6, 7, 8, 14, 15, 16}
  <2>1. Fine(Accesses(Setup[n]))
    BY <1>1, SetupFine
  <2>2. QED
    BY <2>1, UartStaged
<1>2. CASE n \in {5, 6, 7, 8, 14, 15, 16}
  <2>1. 5 + 1 = 6 /\ 6 + 1 = 7 /\ 7 + 1 = 8 /\ 8 + 1 = 9 /\ 14 + 1 = 15 /\ 15 + 1 = 16 /\ 16 + 1 = 17
    OBVIOUS
  <2>2. QED
    BY <1>2, <2>1, SetupCalls, GlobalInitStaged, ControllerStaged
<1>3. QED
  BY <1>1, <1>2

(***************************************************************************)
(* The FIFOs.                                                              *)
(***************************************************************************)
\* The accesses left turn them on, or leave them on.
FifosComing(t) == IsCall(t) /\ \E w : Runs(View, t, w) /\ "FIFOE" \in w.fcr

\* A write of the FIFO register with the FIFOs on.
LEMMA FcrComing ==
  ASSUME NEW fcr, "FIFOE" \in fcr
  PROVE  FifosComing(<<Handle("fcr", fcr), Fcr(fcr)>>)
<1>1. PICK w :
        /\ IsCall(<<Handle("fcr", fcr), Fcr(fcr)>>) /\ Runs(View, <<Handle("fcr", fcr), Fcr(fcr)>>, w)
        /\ GivesFcr(View, w, fcr)
  BY FcrRuns
<1>2. QED
  BY <1>1 DEF FifosComing, GivesFcr

\* A call that does not touch them.
LEMMA StillComing ==
  ASSUME NEW t, StillCall(t), FifosOn
  PROVE  FifosComing(t)
<1>1. IsCall(t) /\ Runs(View, t, View) /\ View.fcr = handle.fcr
  BY StillRuns DEF StillCall, View
<1>2. QED
  BY <1>1 DEF FifosComing, FifosOn

\* When no access is left they are on.
LEMMA NothingComing ==
  ASSUME FifosComing(<<>>)
  PROVE  FifosOn
<1>1. View.fcr = handle.fcr
  BY DEF View
<1>2. QED
  BY <1>1, NothingRuns DEF FifosComing, FifosOn

\* alt_16550_fifo_enable turns them on, and the calls after it leave them on.
LEMMA SetupComing ==
  /\ FifosComing(Accesses(Setup[9]))
  /\ FifosOn => \A n \in {10, 11, 12, 13} : FifosComing(Accesses(Setup[n]))
<1>1. FifosComing(alt_16550_fifo_enable)
  <2>1. "FIFOE" \in handle.fcr \cup {"FIFOE", "RFIFOR", "XFIFOR"}
    OBVIOUS
  <2>2. QED
    BY <2>1, FcrComing DEF alt_16550_fifo_enable
<1>2. FifosOn => FifosComing(alt_16550_fifo_trigger_set_rx("RX_HALF_FULL"))
  <2>1. FifosOn => "FIFOE" \in (handle.fcr \ RxTriggers) \cup {"RX_HALF_FULL"}
    BY DEF FifosOn, RxTriggers
  <2>2. "RX_HALF_FULL" \in RxTriggers
    BY DEF RxTriggers
  <2>3. QED
    BY <2>1, <2>2, FcrComing DEF alt_16550_fifo_trigger_set_rx, Allowed
<1>3. FifosOn => FifosComing(alt_16550_fifo_trigger_set_tx("TX_EMPTY"))
  <2>1. FifosOn => "FIFOE" \in (handle.fcr \ TxTriggers) \cup {"TX_EMPTY"}
    BY DEF FifosOn, TxTriggers
  <2>2. "TX_EMPTY" \in TxTriggers
    BY DEF TxTriggers
  <2>3. QED
    BY <2>1, <2>2, FcrComing DEF alt_16550_fifo_trigger_set_tx, Allowed
<1>4. FifosOn => FifosComing(alt_16550_int_enable("ERBFI")) /\ FifosComing(alt_16550_int_enable("ELSI"))
  BY PlainStill, StillComing
<1>5. QED
  BY <1>1, <1>2, <1>3, <1>4, SetupCalls

(***************************************************************************)
(* The invariant of main's setup.                                          *)
(***************************************************************************)
\* The accesses left leave no interrupt enabled.
LeftQuiet(t) ==
  \A i \in Implemented :
    /\ i \in gic.icdiser => \E k \in 1..Len(t) : TurnsOff(t[k], i)
    /\ \A k \in 1..Len(t) : TurnsOn(t[k], i) => \E j \in 1..Len(t) : k < j /\ TurnsOff(t[j], i)

CallbackSet == driver.dispatch[UART0].callback = "uart_callback"

CallbackComing(t) == \E k \in 1..Len(t) : t[k] = Dispatch(UART0, "callback", "uart_callback")

\* Whatever the preloader has left enabled: before the processor takes interrupts they are all
\* turned off, and they stay off until the FIFOs are on and the callback is registered.
Masked ==
  /\ main <= 7 => ~irq
  /\ main = 6 => LeftQuiet(todo)
  /\ main >= 7 /\ main <= 16 => gic.icdiser = {}
  /\ main = 17 => gic.icdiser \subseteq {UART0} /\ GicCall(todo)

Interrupting ==
  /\ isr.at # "none" => main = 17
  /\ isr.at \in {"callback", "end"} => isr.id \in {UART0, 1022, 1023}

Fifos == main >= 10 => (GicCall(todo) /\ FifosOn) \/ FifosComing(todo)

Callbacks ==
  /\ main = 15 => CallbackSet \/ CallbackComing(todo)
  /\ main >= 16 => CallbackSet

SetupInv == calls = 0 => AllStaged(main, todo) /\ Masked /\ Interrupting /\ Fifos /\ Callbacks

(***************************************************************************)
(* The steps of main's setup.                                              *)
(***************************************************************************)
\* One of main's calls begins.
LEMMA SetupBegins ==
  ASSUME HandleInv, GicTyped, CallsTyped, SetupInv, isr.at = "none",
         todo = <<>>, UNCHANGED <<interruptVars, uartVars>>,
         main \in 1..16, calls = 0, main' = main + 1, calls' = calls, todo' = Accesses(Setup[main])
  PROVE  SetupInv'
<1>1. /\ Agreed(View) /\ HandleTyped /\ View' = View /\ handle' = handle
      /\ gic' = gic /\ irq' = irq /\ driver' = driver /\ isr' = isr
  BY InvMatches DEF HandleInv, View, uartVars, interruptVars
<1>2. Masked /\ Interrupting /\ Fifos /\ Callbacks
  BY DEF SetupInv
<1>3. AllStaged(main, todo)'
  <2>1. AllStaged(main + 1, Accesses(Setup[main]))
    BY <1>1, SetupStaged
  <2>2. AllStaged(main', todo')
    BY <2>1
  <2>3. QED
    BY <2>2 DEF AllStaged, Staged, TurnsOn
<1>4. Masked'
  <2>1. main' <= 7 => ~irq'
    BY <1>1, <1>2 DEF Masked
  <2>2. main' = 6 => LeftQuiet(todo)'
    <3> SUFFICES ASSUME main' = 6 PROVE LeftQuiet(todo)'
      OBVIOUS
    <3>1. main = 5
      OBVIOUS
    <3>2. todo' = alt_int_global_init
      BY <3>1, SetupCalls
    <3>3. Quiets(todo')
      BY <3>2, GlobalInitQuiets
    <3>4. QED
      BY <3>3 DEF Quiets, LeftQuiet, TurnsOn, TurnsOff
  <2>3. main' >= 7 /\ main' <= 16 => gic'.icdiser = {}
    <3>1. CASE main = 6
      <4>1. LeftQuiet(<<>>)
        BY <1>2, <3>1 DEF Masked
      <4>2. \A k \in 1..Len(<<>>) : FALSE
        OBVIOUS
      <4>3. \A i \in Implemented : i \notin gic.icdiser
        BY <4>1, <4>2 DEF LeftQuiet
      <4>4. gic.icdiser \subseteq Implemented
        BY DEF GicTyped
      <4>5. QED
        BY <1>1, <4>3, <4>4
    <3>2. CASE main # 6
      BY <1>1, <1>2, <3>2 DEF Masked
    <3>3. QED
      BY <3>1, <3>2
  <2>4. main' = 17 => gic'.icdiser \subseteq {UART0} /\ GicCall(todo)'
    <3> SUFFICES ASSUME main' = 17 PROVE gic'.icdiser \subseteq {UART0} /\ GicCall(todo)'
      OBVIOUS
    <3>1. main = 16
      OBVIOUS
    <3>2. gic'.icdiser = {}
      BY <1>1, <1>2, <3>1 DEF Masked
    <3>3. GicCall(todo')
      BY <3>1, SetupGic, PlainGic
    <3>4. QED
      BY <3>2, <3>3 DEF GicCall, GicAccesses, PlainAccess
  <2>5. QED
    BY <2>1, <2>2, <2>3, <2>4 DEF Masked
<1>5. Interrupting'
  BY <1>1 DEF Interrupting
<1>6. Fifos'
  <2>1. CASE main <= 8
    BY <2>1 DEF Fifos
  <2>2. CASE main = 9
    <3>1. FifosComing(todo')
      BY <2>2, SetupComing
    <3>2. QED
      BY <1>1, <3>1 DEF Fifos, FifosComing
  <2>3. CASE main >= 10
    <3>1. FifosOn
      BY <1>2, <2>3, NothingComing DEF Fifos
    <3>2. CASE main \in {10, 11, 12, 13}
      <4>1. FifosComing(todo')
        BY <3>1, <3>2, SetupComing
      <4>2. QED
        BY <1>1, <4>1 DEF Fifos, FifosComing
    <3>3. CASE main \in {14, 15, 16}
      <4>1. GicCall(todo')
        BY <3>3, SetupGic, PlainGic
      <4>2. FifosOn'
        BY <1>1, <3>1 DEF FifosOn
      <4>3. QED
        BY <4>1, <4>2 DEF Fifos, GicCall, GicAccesses, PlainAccess
    <3>4. QED
      BY <2>3, <3>2, <3>3
  <2>4. QED
    BY <2>1, <2>2, <2>3
<1>7. Callbacks'
  <2>1. main' = 15 => CallbackComing(todo)'
    <3> SUFFICES ASSUME main = 14 PROVE CallbackComing(todo')
      BY DEF CallbackComing, Dispatch
    <3>1. UART0 < Provision
      BY SetupAssumption, InterruptsAssumption
    <3>2. todo' = <<Dispatch(UART0, "callback", "uart_callback"), Dispatch(UART0, "context", "NULL")>>
      BY <3>1, SetupCalls DEF alt_int_isr_register, When
    <3>3. Len(todo') = 2 /\ todo'[1] = Dispatch(UART0, "callback", "uart_callback")
      BY <3>2, TwoAccesses
    <3>4. QED
      BY <3>3 DEF CallbackComing
  <2>2. main = 15 => CallbackSet
    <3>1. \A k \in 1..Len(<<>>) : FALSE
      OBVIOUS
    <3>2. QED
      BY <1>2, <3>1 DEF Callbacks, CallbackComing
  <2>3. main' >= 16 => CallbackSet'
    BY <1>1, <1>2, <2>2 DEF Callbacks, CallbackSet
  <2>4. QED
    BY <2>1, <2>3 DEF Callbacks
<1>8. QED
  BY <1>3, <1>4, <1>5, <1>6, <1>7 DEF SetupInv

\* An access of it is made.
LEMMA SetupAccess ==
  ASSUME HandleInv, GicTyped, CallsTyped, SetupInv, isr.at = "none", Access, calls = 0
  PROVE  SetupInv'
<1>1. /\ todo # <<>> /\ todo' = Tail(todo) /\ IsCall(todo) /\ main' = main /\ calls' = calls
      /\ \/ /\ GicCall(todo) /\ GicAccesses(todo[1]) /\ GicAccess(todo[1])
            /\ isr' = isr /\ UNCHANGED uartVars
         \/ /\ ~GicCall(todo) /\ Fine(todo) /\ todo[1].dev = "uart" /\ UartAccesses(todo[1])
            /\ UartAccess(todo[1]) /\ Moves(todo[1]) /\ UNCHANGED interruptVars
  BY NextAccess
<1>2. /\ 1 \in 1..Len(todo) /\ IsCall(Tail(todo)) /\ Len(todo) \in Nat
      /\ \A k \in 1..Len(Tail(todo)) : Tail(todo)[k] = todo[k + 1] /\ k + 1 \in 2..Len(todo)
      /\ \A k \in 2..Len(todo) : k - 1 \in 1..Len(Tail(todo)) /\ Tail(todo)[k - 1] = todo[k]
  BY <1>1, Rest
<1>3. AllStaged(main, todo) /\ Masked /\ Interrupting /\ Fifos /\ Callbacks
  BY <1>1 DEF SetupInv
<1>4. Staged(main, todo[1])
  BY <1>2, <1>3 DEF AllStaged
<1>5. \/ GicAccesses(todo[1]) /\ GicMoves(todo[1]) /\ GicTyped'
      \/ Ok(todo[1]) /\ gic' = gic /\ irq' = irq /\ driver' = driver
  <2>1. CASE GicAccesses(todo[1]) /\ GicAccess(todo[1])
    BY <2>1, GicAccessMoves
  <2>2. CASE todo[1].dev = "uart" /\ UartAccesses(todo[1]) /\ UNCHANGED interruptVars
    BY <2>2 DEF Ok, interruptVars
  <2>3. QED
    BY <1>1, <2>1, <2>2
<1>6. isr' = isr
  BY <1>1 DEF interruptVars
<1>7. AllStaged(main, todo)'
  <2>1. \A k \in 1..Len(todo') : Staged(main', todo'[k])
    <3>1. \A k \in 1..Len(Tail(todo)) : k + 1 \in 1..Len(todo)
      BY <1>2
    <3>2. QED
      BY <1>1, <1>2, <1>3, <3>1 DEF AllStaged
  <2>2. QED
    BY <2>1 DEF AllStaged, Staged, TurnsOn
<1>8. GicCall(todo) => GicCall(todo')
  <2>1. \A k \in 1..Len(Tail(todo)) : k + 1 \in 1..Len(todo)
    BY <1>2
  <2>2. QED
    BY <1>1, <1>2, <2>1 DEF GicCall
<1>9. Masked'
  <2>1. main <= 7 => ~irq'
    BY <1>3, <1>4, <1>5 DEF Masked, Staged, GicMoves
  <2>2. main = 6 => LeftQuiet(todo)'
    <3> SUFFICES ASSUME main = 6, NEW i \in Implemented
                 PROVE  /\ i \in gic'.icdiser => \E k \in 1..Len(todo') : TurnsOff(todo'[k], i)
                        /\ \A k \in 1..Len(todo') : TurnsOn(todo'[k], i) =>
                             \E j \in 1..Len(todo') : k < j /\ TurnsOff(todo'[j], i)
      BY DEF LeftQuiet, TurnsOff, TurnsOn
    <3>1. /\ i \in gic.icdiser => \E k \in 1..Len(todo) : TurnsOff(todo[k], i)
          /\ \A k \in 1..Len(todo) : TurnsOn(todo[k], i) => \E j \in 1..Len(todo) : k < j /\ TurnsOff(todo[j], i)
      BY <1>3 DEF Masked, LeftQuiet
    <3>2. ASSUME i \in gic'.icdiser PROVE \E k \in 1..Len(todo') : TurnsOff(todo'[k], i)
      <4>1. \/ TurnsOn(todo[1], i)
            \/ i \in gic.icdiser /\ ~TurnsOff(todo[1], i)
        BY <1>5, <3>2 DEF GicMoves, TurnsOn, TurnsOff, Ok, UartAccesses
      <4>2. PICK j \in 1..Len(todo) : j # 1 /\ TurnsOff(todo[j], i)
        <5>1. CASE TurnsOn(todo[1], i)
          <6>1. PICK j \in 1..Len(todo) : 1 < j /\ TurnsOff(todo[j], i)
            BY <1>2, <3>1, <5>1
          <6>2. QED
            BY <6>1
        <5>2. CASE i \in gic.icdiser /\ ~TurnsOff(todo[1], i)
          BY <3>1, <5>2
        <5>3. QED
          BY <4>1, <5>1, <5>2
      <4>3. j \in 2..Len(todo)
        BY <1>2, <4>2
      <4>4. j - 1 \in 1..Len(todo') /\ TurnsOff(todo'[j - 1], i)
        BY <1>1, <1>2, <4>2, <4>3
      <4>5. QED
        BY <4>4
    <3>3. ASSUME NEW k \in 1..Len(todo'), TurnsOn(todo'[k], i)
          PROVE  \E j \in 1..Len(todo') : k < j /\ TurnsOff(todo'[j], i)
      <4>1. k + 1 \in 2..Len(todo) /\ k + 1 \in 1..Len(todo) /\ TurnsOn(todo[k + 1], i)
        <5>1. k \in 1..Len(Tail(todo)) /\ TurnsOn(Tail(todo)[k], i)
          BY <1>1, <3>3
        <5>2. k + 1 \in 2..Len(todo) /\ TurnsOn(todo[k + 1], i)
          BY <1>2, <5>1
        <5>3. QED
          BY <1>2, <5>2
      <4>2. PICK j \in 1..Len(todo) : k + 1 < j /\ TurnsOff(todo[j], i)
        BY <3>1, <4>1
      <4>3. j \in 2..Len(todo) /\ k < j - 1
        BY <1>2, <4>1, <4>2
      <4>4. j - 1 \in 1..Len(todo') /\ TurnsOff(todo'[j - 1], i)
        BY <1>1, <1>2, <4>2, <4>3
      <4>5. QED
        BY <4>3, <4>4
    <3>4. QED
      BY <3>2, <3>3
  <2>3. main >= 7 /\ main <= 16 => gic'.icdiser = {}
    <3>1. main >= 7 /\ main <= 16 => gic'.icdiser = gic.icdiser
      BY <1>4, <1>5 DEF Staged, GicMoves
    <3>2. QED
      BY <1>3, <3>1 DEF Masked
  <2>4. main = 17 => gic'.icdiser \subseteq {UART0}
    <3> SUFFICES ASSUME main = 17, NEW i \in gic'.icdiser PROVE i = UART0
      OBVIOUS
    <3>1. gic.icdiser \subseteq {UART0} /\ \A j \in Implemented : TurnsOn(todo[1], j) => j = UART0
      BY <1>3, <1>4 DEF Masked, Staged
    <3>2. i \in gic.icdiser \/ (TurnsOn(todo[1], i) /\ i \in Implemented)
      BY <1>5 DEF GicMoves, TurnsOn, GicAccesses, PlainAccess
    <3>3. QED
      BY <3>1, <3>2
  <2>5. main = 17 => GicCall(todo)'
    <3>1. main = 17 => GicCall(todo')
      BY <1>3, <1>8 DEF Masked
    <3>2. QED
      BY <3>1 DEF GicCall, GicAccesses, PlainAccess
  <2>6. QED
    BY <1>1, <2>1, <2>2, <2>3, <2>4, <2>5 DEF Masked
<1>10. Interrupting'
  BY <1>1, <1>3, <1>6 DEF Interrupting
<1>11. Fifos'
  <2> SUFFICES ASSUME main >= 10
               PROVE  (GicCall(todo') /\ FifosOn') \/ FifosComing(todo)'
    BY <1>1 DEF Fifos, GicCall, GicAccesses, PlainAccess
  <2>1. CASE GicCall(todo)
    <3>1. FifosOn
      <4>1. ASSUME FifosComing(todo) PROVE FALSE
        <5>1. PICK w : Runs(View, todo, w)
          BY <4>1 DEF FifosComing
        <5>2. Ok(todo[1])
          BY <1>1, <5>1, FirstRuns
        <5>3. QED
          BY <1>2, <2>1, <5>2 DEF Ok, GicCall, GicAccesses
      <4>2. QED
        BY <1>3, <4>1 DEF Fifos
    <3>2. FifosOn'
      BY <1>1, <2>1, <3>1 DEF FifosOn, uartVars
    <3>3. QED
      BY <1>8, <2>1, <3>2
  <2>2. CASE ~GicCall(todo)
    <3>1. FifosComing(todo)
      BY <1>3, <2>2 DEF Fifos
    <3>2. PICK w : Runs(View, todo, w) /\ "FIFOE" \in w.fcr
      BY <3>1 DEF FifosComing
    <3>3. Runs(Effect(View, todo[1]), Tail(todo), w)
      BY <1>1, <3>2, FirstRuns
    <3>4. View' = Effect(View, todo[1])
      BY <1>1, <2>2, ViewMoves DEF HandleInv
    <3>5. Runs(View', todo', w) /\ IsCall(todo')
      BY <1>1, <1>2, <3>3, <3>4
    <3>6. QED
      BY <3>2, <3>5 DEF FifosComing
  <2>3. QED
    BY <2>1, <2>2
<1>12. Callbacks'
  <2>1. ASSUME main >= 15, CallbackSet PROVE CallbackSet'
    <3>1. DOMAIN driver.dispatch = Implemented /\ UART0 \in Implemented
          /\ DOMAIN driver.dispatch[UART0] = {"callback", "context"}
      BY SetupAssumption DEF GicTyped
    <3>2. CASE todo[1].op # "dispatch" \/ Ok(todo[1])
      <4>1. driver'.dispatch = driver.dispatch
        BY <1>4, <1>5, <2>1, <3>2 DEF Staged, GicMoves, Ok, GicAccesses
      <4>2. QED
        BY <2>1, <4>1 DEF CallbackSet
    <3>3. CASE todo[1].op = "dispatch" /\ ~Ok(todo[1])
      <4> DEFINE a == todo[1]
      <4>1. /\ driver'.dispatch = [driver.dispatch EXCEPT ![a.id][a.field] = a.val]
            /\ a.field = "callback" => a.val = "uart_callback"
            /\ a.field \in {"callback", "context"}
        BY <1>4, <1>5, <2>1, <3>3 DEF Staged, GicMoves, GicAccesses, PlainAccess
      <4> HIDE DEF a
      <4>2. driver'.dispatch[UART0] = IF UART0 = a.id THEN [driver.dispatch[UART0] EXCEPT ![a.field] = a.val]
                                      ELSE driver.dispatch[UART0]
        BY <3>1, <4>1
      <4>3. QED
        BY <2>1, <3>1, <4>1, <4>2 DEF CallbackSet
    <3>4. QED
      BY <3>2, <3>3
  <2>2. ASSUME main = 15, CallbackComing(todo) PROVE CallbackSet' \/ CallbackComing(todo')
    <3>1. PICK k \in 1..Len(todo) : todo[k] = Dispatch(UART0, "callback", "uart_callback")
      BY <2>2 DEF CallbackComing
    <3>2. CASE k = 1
      <4> DEFINE a == Dispatch(UART0, "callback", "uart_callback")
      <4>1. a.op = "dispatch" /\ a.id = UART0 /\ a.field = "callback" /\ a.val = "uart_callback" /\ todo[1] = a
        BY <3>1, <3>2 DEF Dispatch
      <4> HIDE DEF a
      <4>2. driver'.dispatch = [driver.dispatch EXCEPT ![UART0]["callback"] = "uart_callback"]
        BY <1>5, <4>1 DEF GicMoves, Ok, UartAccesses
      <4>3. DOMAIN driver.dispatch = Implemented /\ UART0 \in Implemented
            /\ DOMAIN driver.dispatch[UART0] = {"callback", "context"}
        BY SetupAssumption DEF GicTyped
      <4>4. QED
        BY <4>2, <4>3 DEF CallbackSet
    <3>3. CASE k # 1
      <4>1. k \in 2..Len(todo)
        BY <1>2, <3>3
      <4>2. k - 1 \in 1..Len(todo') /\ todo'[k - 1] = Dispatch(UART0, "callback", "uart_callback")
        BY <1>1, <1>2, <3>1, <4>1
      <4>3. QED
        BY <4>2 DEF CallbackComing
    <3>4. QED
      BY <3>2, <3>3
  <2>3. CallbackComing(todo') => CallbackComing(todo)'
    BY DEF CallbackComing, Dispatch
  <2>4. main = 15 => CallbackSet' \/ CallbackComing(todo)'
    BY <1>3, <2>1, <2>2, <2>3 DEF Callbacks
  <2>5. main >= 16 => CallbackSet'
    <3>1. main >= 16 => main >= 15
      BY DEF CallsTyped
    <3>2. QED
      BY <1>3, <2>1, <3>1 DEF Callbacks
  <2>6. QED
    BY <1>1, <2>4, <2>5 DEF Callbacks
<1>13. QED
  BY <1>7, <1>9, <1>10, <1>11, <1>12 DEF SetupInv

\* A step of the handler, of a device or of the line.
LEMMA SetupOther ==
  ASSUME HandleInv, GicTyped, HandlerTyped, CallsTyped, SetupInv, Handler \/ Environment
  PROVE  SetupInv'
<1> SUFFICES ASSUME calls = 0
             PROVE  (AllStaged(main, todo) /\ Masked /\ Interrupting /\ Fifos /\ Callbacks)'
  BY OtherStep DEF SetupInv
<1>1. /\ AllStaged(main, todo) /\ Masked /\ Interrupting /\ Fifos /\ Callbacks
      /\ View' = View /\ handle' = handle /\ main' = main /\ todo' = todo
      /\ gic'.icdiser = gic.icdiser /\ irq' = irq /\ driver' = driver
  BY OtherStep, OtherGic DEF SetupInv
<1>2. AllStaged(main, todo)' /\ (GicCall(todo)' <=> GicCall(todo))
  BY <1>1 DEF AllStaged, Staged, TurnsOn, GicCall, GicAccesses, PlainAccess
<1>3. Masked'
  <2>1. LeftQuiet(todo)' <=> LeftQuiet(todo)
    BY <1>1 DEF LeftQuiet, TurnsOn, TurnsOff
  <2>2. QED
    BY <1>1, <1>2, <2>1 DEF Masked
<1>4. Fifos'
  <2>1. FifosComing(todo) => FifosComing(todo)'
    BY <1>1 DEF FifosComing
  <2>2. FifosOn => FifosOn'
    BY <1>1 DEF FifosOn
  <2>3. QED
    BY <1>1, <1>2, <2>1, <2>2 DEF Fifos
<1>5. Callbacks'
  BY <1>1 DEF Callbacks, CallbackSet, CallbackComing, Dispatch
<1>6. Interrupting'
  <2>1. CASE isr' = isr
    BY <1>1, <2>1 DEF Interrupting
  <2>2. CASE isr.at = "none" /\ isr'.at = "acknowledge" /\ irq /\ gic.icdiser # {}
    <3>1. main = 17
      BY <1>1, <2>2 DEF Masked, CallsTyped
    <3>2. QED
      BY <1>1, <2>2, <3>1 DEF Interrupting
  <2>3. CASE isr.at # "none" /\ isr'.at = "none"
    BY <1>1, <2>3 DEF Interrupting
  <2>4. CASE isr.at = "acknowledge" /\ isr'.at = "end" /\ isr'.id \in {1022, 1023}
    BY <1>1, <2>4 DEF Interrupting
  <2>5. CASE isr.at = "acknowledge" /\ isr'.id \in gic.icdiser
    <3>1. main = 17
      BY <1>1, <2>5 DEF Interrupting
    <3>2. isr'.id = UART0
      BY <1>1, <2>5, <3>1 DEF Masked
    <3>3. QED
      BY <1>1, <3>1, <3>2 DEF Interrupting
  <2>6. CASE isr.at = "callback" /\ isr'.at = "end" /\ isr'.id = isr.id
    BY <1>1, <2>6 DEF Interrupting
  <2>7. QED
    BY <2>1, <2>2, <2>3, <2>4, <2>5, <2>6, HandlerMoves
<1>7. QED
  BY <1>2, <1>3, <1>4, <1>5, <1>6

\* The latch is closed and the FIFOs are on when the handler runs.
LEMMA SetupInvSafe ==
  ASSUME HandleInv, SetupInv
  PROVE  SetupSafe
<1> SUFFICES ASSUME calls = 0, isr.at \in {"callback", "end"}, isr.id < Provision
             PROVE  /\ driver.dispatch[isr.id].callback # "0"
                    /\ FifosOn /\ "DLAB" \notin uart.lcr
  BY DEF SetupSafe
<1>1. Masked /\ Interrupting /\ Fifos /\ Callbacks
  BY DEF SetupInv
<1>2. main = 17 /\ isr.id \in {UART0, 1022, 1023}
  BY <1>1 DEF Interrupting
<1>3. isr.id = UART0
  <2>1. ~(1022 < Provision) /\ ~(1023 < Provision)
    BY InterruptsAssumption
  <2>2. QED
    BY <1>2, <2>1
<1>4. CallbackSet /\ GicCall(todo) /\ (FifosOn \/ FifosComing(todo))
  BY <1>1, <1>2 DEF Callbacks, Masked, Fifos
<1>5. ASSUME NEW w, IsCall(todo), Runs(View, todo, w) PROVE todo = <<>>
  <2> SUFFICES ASSUME todo # <<>> PROVE FALSE
    OBVIOUS
  <2>1. Ok(todo[1])
    BY <1>5, FirstRuns
  <2>2. 1 \in 1..Len(todo)
    BY <1>5, Rest
  <2>3. QED
    BY <1>4, <2>1, <2>2 DEF Ok, GicCall, GicAccesses
<1>6. FifosOn
  <2>1. CASE FifosComing(todo)
    <3>1. todo = <<>>
      BY <1>5, <2>1 DEF FifosComing
    <3>2. QED
      BY <2>1, <3>1, NothingComing
  <2>2. QED
    BY <1>4, <2>1
<1>7. Agreed(View)
  <2>1. CASE Fine(todo)
    <3>1. todo = <<>>
      BY <1>5, <2>1 DEF Fine
    <3>2. QED
      BY <3>1, InvMatches
  <2>2. QED
    BY <2>1 DEF HandleInv
<1>8. "DLAB" \notin uart.lcr
  BY <1>7 DEF Agreed, View
<1>9. QED
  BY <1>3, <1>4, <1>6, <1>8 DEF CallbackSet

\* At reset.
LEMMA SetupStarts ==
  ASSUME Init
  PROVE  SetupInv /\ CallsTyped /\ HandlerTyped /\ Registered(todo)
<1>1. main = 1 /\ todo = <<>> /\ calls = 0
  BY DEF Init
<1>2. irq = FALSE /\ isr.at = "none" /\ driver.dispatch = [i \in Implemented |-> NoCallback]
  BY GicStarts
<1>3. AllStaged(main, todo)
  BY <1>1, NoneStaged
<1>4. Masked /\ Interrupting /\ Fifos /\ Callbacks
  BY <1>1, <1>2 DEF Masked, Interrupting, Fifos, Callbacks
<1>5. Registered(todo)
  <2>1. \A i \in Implemented : driver.dispatch[i] \in Pairs
    BY <1>2 DEF Pairs
  <2>2. \A k \in 1..Len(todo) : FALSE
    BY <1>1
  <2>3. QED
    BY <2>1, <2>2 DEF Registered, NoneUnderWay
<1>6. QED
  BY <1>1, <1>2, <1>3, <1>4, <1>5 DEF SetupInv, CallsTyped, HandlerTyped

(***************************************************************************)
(* The theorems.                                                           *)
(***************************************************************************)
Inv == HandleInv /\ GicTyped /\ CallsTyped /\ HandlerTyped /\ Registered(todo) /\ SetupInv

\* Every step keeps the whole invariant.
LEMMA InvStep ==
  ASSUME Inv, [Next]_vars
  PROVE  Inv'
<1>0. HandleInv /\ GicTyped /\ CallsTyped /\ HandlerTyped /\ Registered(todo) /\ SetupInv /\ main \in 1..17
  BY DEF Inv, CallsTyped
<1>1. CASE Program
  <2>1. HandleInv' /\ Registered(todo)'
    BY <1>0, <1>1, ProgramStep, RegisteredProgram
  <2>2. /\ GicTyped' /\ CallsTyped' /\ isr' = isr /\ isr.at = "none"
        /\ \/ Access
           \/ /\ todo = <<>> /\ UNCHANGED <<interruptVars, uartVars>>
              /\ \/ main \in 1..16 /\ calls = 0 /\ main' = main + 1 /\ calls' = calls /\ todo' = Accesses(Setup[main])
                 \/ calls' > 0 /\ main' = 17 /\ main = 17 /\ (DistributorCall \/ ControllerCall \/ UartCall)
    BY <1>0, <1>1, ProgramMoves
  <2>3. HandlerTyped'
    BY <2>2 DEF HandlerTyped
  <2>4. SetupInv'
    <3>1. CASE calls' > 0
      <4>1. calls' # 0
        BY <3>1
      <4>2. QED
        BY <4>1 DEF SetupInv
    <3>2. CASE Access /\ calls = 0
      BY <1>0, <2>2, <3>2, SetupAccess
    <3>3. CASE Access /\ calls # 0
      <4>1. calls' = calls
        BY <3>3 DEF Access
      <4>2. QED
        BY <3>3, <4>1 DEF SetupInv
    <3>4. CASE /\ todo = <<>> /\ UNCHANGED <<interruptVars, uartVars>>
               /\ main \in 1..16 /\ calls = 0 /\ main' = main + 1 /\ calls' = calls /\ todo' = Accesses(Setup[main])
      BY <1>0, <2>2, <3>4, SetupBegins
    <3>5. QED
      BY <2>2, <3>1, <3>2, <3>3, <3>4
  <2>5. QED
    BY <2>1, <2>2, <2>3, <2>4 DEF Inv
<1>2. CASE Handler \/ Environment
  <2>1. HandleInv' /\ main' = main /\ todo' = todo /\ calls' = calls
    BY <1>0, <1>2, OtherStep
  <2>2. GicTyped' /\ driver' = driver
    BY <1>0, <1>2, OtherGic
  <2>3. HandlerTyped' /\ SetupInv'
    BY <1>0, <1>2, HandlerTypedStep, SetupOther
  <2>4. Registered(todo)'
    BY <1>0, <2>1, <2>2, RegisteredStays
  <2>5. CallsTyped'
    BY <1>0, <2>1 DEF CallsTyped
  <2>6. QED
    BY <2>1, <2>2, <2>3, <2>4, <2>5 DEF Inv
<1>3. CASE UNCHANGED vars
  <2>1. /\ gic' = gic /\ irq' = irq /\ driver' = driver /\ isr' = isr /\ uart' = uart /\ handle' = handle
        /\ l4_sp' = l4_sp /\ main' = main /\ todo' = todo /\ calls' = calls
    BY <1>3 DEF vars, interruptVars, uartVars
  <2>2. HandleInv' /\ View' = View
    BY <1>0, <2>1, UartStays DEF HandleInv, HandleTyped
  <2>3. GicTyped' /\ CallsTyped' /\ HandlerTyped' /\ Registered(todo)'
    BY <1>0, <2>1, GicStays, RegisteredStays DEF CallsTyped, HandlerTyped
  <2>4. SetupInv'
    <3>1. CASE calls = 0
      <4>1. AllStaged(main, todo) /\ Masked /\ Interrupting /\ Fifos /\ Callbacks
        BY <1>0, <3>1 DEF SetupInv
      <4>2. AllStaged(main, todo)' /\ (GicCall(todo)' <=> GicCall(todo))
        BY <2>1, <4>1 DEF AllStaged, Staged, TurnsOn, GicCall, GicAccesses, PlainAccess
      <4>3. LeftQuiet(todo)' <=> LeftQuiet(todo)
        BY <2>1 DEF LeftQuiet, TurnsOn, TurnsOff
      <4>4. Masked' /\ Interrupting'
        BY <2>1, <4>1, <4>2, <4>3 DEF Masked, Interrupting
      <4>5. Fifos'
        <5>1. FifosComing(todo) => FifosComing(todo)'
          BY <2>1, <2>2 DEF FifosComing
        <5>2. FifosOn => FifosOn'
          BY <2>1 DEF FifosOn
        <5>3. QED
          BY <2>1, <4>1, <4>2, <5>1, <5>2 DEF Fifos
      <4>6. Callbacks'
        BY <2>1, <4>1 DEF Callbacks, CallbackSet, CallbackComing, Dispatch
      <4>7. QED
        BY <4>2, <4>4, <4>5, <4>6 DEF SetupInv
    <3>2. CASE calls # 0
      BY <2>1, <3>2 DEF SetupInv
    <3>3. QED
      BY <3>1, <3>2
  <2>5. QED
    BY <2>2, <2>3, <2>4 DEF Inv
<1>4. QED
  BY <1>1, <1>2, <1>3 DEF Next

\* The invariant holds in every behaviour.
LEMMA InvAlways == Spec => []Inv
<1>1. Init => Inv
  BY HandleStarts, GicStarts, SetupStarts DEF Inv
<1>2. Inv /\ [Next]_vars => Inv'
  BY InvStep
<1>3. QED
  BY <1>1, <1>2, PTL DEF Spec

\* Between two calls of alt_16550_uart.c the handle knows whether the UART has a divisor and
\* whether its FIFOs are on, whatever the calls before, but for a reset it is not told of.
THEOREM HandlesMatch == Spec => []HandleMatches
<1>1. Inv => HandleMatches
  BY InvMatches DEF Inv
<1>2. QED
  BY <1>1, InvAlways, PTL

\* While main of hps_baremetal.c sets up, an interrupt that is acknowledged finds its callback
\* registered, the FIFOs on and the divisor latch closed, whatever the preloader left enabled.
THEOREM SetupIsSafe == Spec => []SetupSafe
<1>1. Inv => SetupSafe
  BY SetupInvSafe DEF Inv
<1>2. QED
  BY <1>1, InvAlways, PTL

\* A callback of alt_interrupt.c is run with the context it was registered with, though callback
\* and context are two assignments, unless the interrupt comes between the two.
THEOREM ContextsMatch == Spec => []ContextMatches
<1>1. Inv => ContextMatches
  <2>1. Inv => (isr.at # "none" /\ calls = 0 => main = 17)
    BY DEF Inv, SetupInv, Interrupting
  <2>2. QED
    BY <2>1, RegisteredMatches DEF Inv
<1>2. QED
  BY <1>1, InvAlways, PTL

=============================================================================
