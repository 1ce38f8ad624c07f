-------------------------- MODULE InputListLemmas --------------------------
(***************************************************************************)
(* Facts about the lists of inputs and their totals that the makers'       *)
(* proofs rest on.                                                        *)
(***************************************************************************)
EXTENDS InputLists, ChannelStates, SequenceTheorems, FiniteSetTheorems, WellFoundedInduction,
        TLAPS

-----------------------------------------------------------------------------
(* Induction on the natural numbers, with sets in the place of predicates *)

\* A nonempty set of naturals has a least element.
LEMMA LeastElement ==
  ASSUME NEW T \in SUBSET Nat, T # {}
  PROVE  \E m \in T : \A k \in T : m <= k
<1> DEFINE R == { ss \in Nat \X Nat : ss[1] < ss[2] }
<1>1. IsWellFoundedOn(R, Nat)
  BY NatLessThanWellFounded DEF OpToRel
<1> HIDE DEF R
<1>2. PICK m \in T : \A k \in T : ~ (<<k, m>> \in R)
  BY <1>1, WFMin
<1>3. ASSUME NEW k \in T PROVE m <= k
  <2>1. k \in Nat /\ m \in Nat  OBVIOUS
  <2>2. ~ (k < m)
    <3> SUFFICES ASSUME k < m PROVE FALSE
      OBVIOUS
    <3>1. <<k, m>> \in Nat \X Nat  BY <2>1
    <3>2. <<k, m>>[1] = k /\ <<k, m>>[2] = m  OBVIOUS
    <3>3. <<k, m>> \in R  BY <2>1, <3>1, <3>2 DEF R
    <3> QED  BY <1>2, <3>3
  <2> QED  BY <2>1, <2>2
<1> QED  BY <1>3

\* Induction: a set of naturals with 0 and all successors is all of them.
LEMMA NaturalsBySuccessor ==
  ASSUME NEW T, T \subseteq Nat, 0 \in T, \A n \in T : n + 1 \in T
  PROVE  T = Nat
<1> SUFFICES ASSUME Nat \ T # {} PROVE FALSE
  OBVIOUS
<1>1. PICK m \in Nat \ T : \A k \in Nat \ T : m <= k
  BY LeastElement
<1>2. m - 1 \in Nat /\ m - 1 \notin Nat \ T  BY <1>1
<1> QED  BY <1>1, <1>2

\* A loop of N rounds: what holds before it and survives each round holds
\* after every one.
LEMMA InductionUpTo ==
  ASSUME NEW N \in Nat, NEW T, 0 \in T, \A n \in 1 .. N : n - 1 \in T => n \in T
  PROVE  \A n \in 0 .. N : n \in T
<1> DEFINE U == { n \in Nat : n <= N => n \in T }
<1>1. 0 \in U  OBVIOUS
<1>2. ASSUME NEW n \in U PROVE n + 1 \in U
  <2>1. CASE n + 1 <= N
    <3>1. n + 1 \in 1 .. N /\ (n + 1) - 1 = n /\ n <= N  BY <2>1
    <3>2. n + 1 \in T  BY <3>1
    <3> QED  BY <3>1, <3>2
  <2>2. CASE ~ (n + 1 <= N)  BY <2>2
  <2> QED  BY <2>1, <2>2
<1>3. U \subseteq Nat  OBVIOUS
<1> HIDE DEF U
<1>4. U = Nat  BY <1>1, <1>2, <1>3, NaturalsBySuccessor
<1> QED  BY <1>4 DEF U

\* The runs of a loop from first: after each round what the round makes of
\* what was there before it.
LoopRuns(V, first, N, step) ==
  { g \in [0 .. N -> V] : g[0] = first /\ \A n \in 1 .. N : g[n] = step[n][g[n - 1]] }

\* A loop whose rounds lead from values of V to values of V can be run, and
\* its recursive definition has a solution.
LEMMA LoopHasARun ==
  ASSUME NEW V, NEW first \in V, NEW N \in Nat, NEW step \in [1 .. N -> [V -> V]]
  PROVE  LoopRuns(V, first, N, step) # {}
<1> DEFINE Runs(g, k) == /\ g \in [0 .. k -> V] /\ g[0] = first
                         /\ \A n \in 1 .. k : g[n] = step[n][g[n - 1]]
           T == { k \in 0 .. N : \E g : Runs(g, k) }
<1>1. 0 \in T
  <2>1. Runs([n \in 0 .. 0 |-> first], 0)  OBVIOUS
  <2> HIDE DEF Runs
  <2> QED  BY <2>1
<1>2. ASSUME NEW k \in 1 .. N, k - 1 \in T PROVE k \in T
  <2>1. PICK g : Runs(g, k - 1)  BY <1>2
  <2>2. PICK last \in V : last = step[k][g[k - 1]]
    <3>1. k - 1 \in 0 .. (k - 1) /\ g[k - 1] \in V  BY <2>1
    <3>2. step[k] \in [V -> V]  OBVIOUS
    <3> QED  BY <3>1, <3>2
  <2> DEFINE h == [n \in 0 .. k |-> IF n = k THEN last ELSE g[n]]
  <2>3. \A n \in 0 .. k : n # k => n \in 0 .. (k - 1)  OBVIOUS
  <2>4. h \in [0 .. k -> V] /\ h[0] = first
    <3>1. ASSUME NEW n \in 0 .. k PROVE (IF n = k THEN last ELSE g[n]) \in V
      BY <2>1, <2>3
    <3>2. 0 \in 0 .. k /\ 0 # k  OBVIOUS
    <3> QED  BY <2>1, <3>1, <3>2
  <2>5. ASSUME NEW n \in 1 .. k PROVE h[n] = step[n][h[n - 1]]
    <3>1. n - 1 \in 0 .. k /\ n - 1 # k /\ h[n - 1] = g[n - 1]  OBVIOUS
    <3>2. CASE n = k  BY <2>2, <3>1, <3>2
    <3>3. CASE n # k
      <4>1. n \in 1 .. (k - 1) /\ h[n] = g[n]  BY <3>3
      <4> QED  BY <2>1, <3>1, <4>1
    <3> QED  BY <3>2, <3>3
  <2> HIDE DEF h
  <2>6. Runs(h, k)  BY <2>4, <2>5
  <2> QED  BY <2>6
<1> HIDE DEF T
<1>3. \A k \in 0 .. N : k \in T  BY <1>1, <1>2, InductionUpTo
<1>4. N \in T  BY <1>3
<1> QED  BY <1>4 DEF T, LoopRuns

-----------------------------------------------------------------------------
(* Arithmetic modulo the width of a C++ type *)

\* What a % m is.
LEMMA ModDefinition ==
  ASSUME NEW a \in Int, NEW m \in Nat \ {0}
  PROVE  a % m \in 0 .. m - 1 /\ \E q \in Int : a = m * q + (a % m)
<1>1. a % m \in 0 .. m - 1  OBVIOUS
<1>2. a = m * (a \div m) + (a % m)  OBVIOUS
<1>3. a \div m \in Int  OBVIOUS
<1> QED  BY <1>1, <1>2, <1>3

\* Two numbers below m that differ by a multiple of m are the same.
LEMMA RemainderUnique ==
  ASSUME NEW m \in Nat \ {0}, NEW q \in Int, NEW p \in Int,
         NEW r \in 0 .. m - 1, NEW s \in 0 .. m - 1,
         m * q + r = m * p + s
  PROVE  r = s
<1>0. m * q \in Int /\ m * p \in Int  OBVIOUS
<1>1. CASE q = p  BY <1>0, <1>1
<1>2. CASE q < p
  <2>1. m * p >= m * q + m  BY <1>2
  <2> QED  BY <1>0, <2>1
<1>3. CASE q > p
  <2>1. m * q >= m * p + m  BY <1>3
  <2> QED  BY <1>0, <2>1
<1> QED  BY <1>1, <1>2, <1>3

\* A sum may be reduced at any time: adding to, or taking from, a truncated
\* number and truncating again is truncating once.
LEMMA ModPlus ==
  ASSUME NEW a \in Int, NEW b \in Int, NEW m \in Nat \ {0}
  PROVE  ((a % m) + b) % m = (a + b) % m
<1>1. PICK c \in Int : c = (a % m) + b  OBVIOUS
<1>2. PICK d \in Int : d = a + b  OBVIOUS
<1>3. PICK q \in Int : a = m * q + (a % m)  BY ModDefinition
<1>4. PICK p \in Int : c = m * p + (c % m)  BY ModDefinition
<1>5. PICK t \in Int : d = m * t + (d % m)  BY ModDefinition
<1>6. c % m \in 0 .. m - 1 /\ d % m \in 0 .. m - 1  BY ModDefinition
<1>7. m * (q + p) = m * q + m * p  OBVIOUS
<1>8. d = m * (q + p) + (c % m)
  <2>1. m * q \in Int /\ m * p \in Int /\ a % m \in Int /\ c % m \in Int  OBVIOUS
  <2>2. d = m * q + (a % m) + b  BY <1>2, <1>3, <2>1
  <2> QED  BY <1>1, <1>4, <1>7, <2>1, <2>2
<1>9. q + p \in Int  OBVIOUS
<1>10. c % m = d % m  BY <1>5, <1>6, <1>8, <1>9, RemainderUnique
<1> QED  BY <1>1, <1>2, <1>10

\* Of two divisions in a row the second result is one more exactly when it
\* comes out even.
LEMMA DivStep ==
  ASSUME NEW a \in Nat, NEW p \in Nat \ {0}
  PROVE  (a + 1) \div p = IF (a + 1) % p = 0 THEN (a \div p) + 1 ELSE a \div p
<1>1. PICK q \in Int, r \in 0 .. p - 1 : q = a \div p /\ r = a % p /\ a = p * q + r
  OBVIOUS
<1>2. PICK b \in Nat : b = a + 1  OBVIOUS
<1>3. PICK t \in Int, s \in 0 .. p - 1 : t = b \div p /\ s = b % p /\ b = p * t + s
  OBVIOUS
<1>4. ASSUME NEW u \in Int, NEW v \in 0 .. p - 1, b = p * u + v PROVE t = u /\ s = v
  <2>1. p * u + v = p * t + s  BY <1>3, <1>4
  <2>2. s = v  BY <2>1, RemainderUnique
  <2>3. p * u \in Int /\ p * t \in Int /\ p * u = p * t  BY <2>1, <2>2
  <2>4. ASSUME NEW x \in Int, NEW y \in Int, x < y PROVE p * x # p * y
    <3>1. p * x \in Int /\ p * y \in Int  OBVIOUS
    <3>2. p * y >= p * x + p  BY <2>4
    <3> QED  BY <3>1, <3>2
  <2>5. ~ (u < t) /\ ~ (t < u)  BY <2>3, <2>4
  <2> QED  BY <2>2, <2>5
<1>5. CASE r + 1 < p
  <2>1. b = p * q + (r + 1) /\ r + 1 \in 0 .. p - 1 /\ p * q \in Int  BY <1>1, <1>2, <1>5
  <2>2. t = q /\ s = r + 1  BY <1>4, <2>1
  <2> QED  BY <1>1, <1>2, <1>3, <2>2
<1>6. CASE r + 1 = p
  <2>1. p * (q + 1) = p * q + p  OBVIOUS
  <2>2. b = p * (q + 1) + 0 /\ 0 \in 0 .. p - 1 /\ q + 1 \in Int
    BY <1>1, <1>2, <1>6, <2>1
  <2>3. t = q + 1 /\ s = 0  BY <1>4, <2>2
  <2> QED  BY <1>1, <1>2, <1>3, <2>3
<1> QED  BY <1>5, <1>6

\* The numbers that follow a multiple of p are those with the remainder of 1.
LEMMA NextAfterMultiple ==
  ASSUME NEW a \in Nat, NEW p \in Nat \ {0}
  PROVE  a % p = 0 <=> (a + 1) % p = 1 % p
<1>1. ((a % p) + 1) % p = (a + 1) % p
  <2>1. a \in Int /\ 1 \in Int  OBVIOUS
  <2> QED  BY <2>1, ModPlus
<1>2. (((a + 1) % p) + (0 - 1)) % p = ((a + 1) + (0 - 1)) % p
  <2>1. a + 1 \in Int /\ 0 - 1 \in Int  OBVIOUS
  <2> QED  BY <2>1, ModPlus
<1>3. ((1 % p) + (0 - 1)) % p = (1 + (0 - 1)) % p
  <2>1. 1 \in Int /\ 0 - 1 \in Int  OBVIOUS
  <2> QED  BY <2>1, ModPlus
<1>4. (a + 1) + (0 - 1) = a /\ 1 + (0 - 1) = 0 /\ 0 + 1 = 1 /\ 0 % p = 0  OBVIOUS
<1>5. ASSUME a % p = 0 PROVE (a + 1) % p = 1 % p
  BY <1>1, <1>4, <1>5
<1>6. ASSUME (a + 1) % p = 1 % p PROVE a % p = 0
  <2>1. ((1 % p) + (0 - 1)) % p = a % p  BY <1>2, <1>4, <1>6
  <2> QED  BY <1>3, <1>4, <2>1
<1> QED  BY <1>5, <1>6

-----------------------------------------------------------------------------
(* Times in order *)

\* On times in order the wrapped difference is the difference, so what fits a
\* reference time fits every later one that is not after it,
LEMMA FitsLater ==
  ASSUME NEW a \in Nat, NEW b \in Nat, NEW c \in Nat, NEW length \in Nat,
         a <= b, b <= c, fits(c, a, length)
  PROVE  fits(c, b, length)
<1>1. c - a < length  BY DEF fits, elapsed, UIntMinus
<1>2. c - b < length  BY <1>1
<1> QED  BY <1>2 DEF fits, elapsed, UIntMinus

\* and what a time does not fit, no later one does.
LEMMA FitsEarlier ==
  ASSUME NEW a \in Nat, NEW b \in Nat, NEW c \in Nat, NEW length \in Nat,
         a <= b, b <= c, fits(c, a, length)
  PROVE  fits(b, a, length)
<1>1. c - a < length  BY DEF fits, elapsed, UIntMinus
<1>2. b - a < length  BY <1>1
<1> QED  BY <1>2 DEF fits, elapsed, UIntMinus

\* The inputs of a list are in time order and none is later than now.
InTimeOrder(inputs, now) ==
  /\ \A i, j \in DOMAIN inputs : i < j => inputs[i].time_start <= inputs[j].time_start
  /\ \A i \in DOMAIN inputs : inputs[i].time_start <= now

\* The next input keeps a stream in order.
LEMMA InOrderAppend ==
  ASSUME NEW S, \A e \in S : e.time_start \in Nat, NEW s \in Seq(S), NEW e \in S,
         NEW now \in Nat, InTimeOrder(s, now), now <= e.time_start
  PROVE  InTimeOrder(Append(s, e), e.time_start)
<1> DEFINE a == Append(s, e)
<1>1. PICK m \in Nat : m = Len(s) /\ DOMAIN s = 1 .. m
  OBVIOUS
<1>2. /\ DOMAIN a = 1 .. (m + 1) /\ a[m + 1] = e /\ \A i \in 1 .. m : a[i] = s[i]
      /\ \A i \in 1 .. m : s[i].time_start \in Nat
      /\ e.time_start \in Nat
  BY <1>1
<1> HIDE DEF a
<1>3. \A i \in 1 .. m : s[i].time_start <= e.time_start
  BY <1>1, <1>2 DEF InTimeOrder
<1>4. ASSUME NEW i \in 1 .. (m + 1), NEW j \in 1 .. (m + 1), i < j
      PROVE  a[i].time_start <= a[j].time_start
  <2>1. i \in 1 .. m  BY <1>4
  <2>2. CASE j = m + 1  BY <1>2, <1>3, <2>1, <2>2
  <2>3. CASE j # m + 1
    <3>1. j \in 1 .. m  BY <2>3
    <3> QED  BY <1>1, <1>2, <1>4, <2>1, <3>1 DEF InTimeOrder
  <2> QED  BY <2>2, <2>3
<1>5. \A i \in 1 .. (m + 1) : a[i].time_start <= e.time_start
  BY <1>2, <1>3
<1> QED  BY <1>2, <1>4, <1>5 DEF InTimeOrder, a

-----------------------------------------------------------------------------
(* What move() erases *)

\* The number of inputs to erase exists and is what the loop counts, on any
\* list: everything in front of the first input that fits.
LEMMA NToErase ==
  ASSUME NEW inputs, Len(inputs) \in Nat, NEW t, NEW length
  PROVE  LET n == n_to_erase(inputs, t, length)
         IN  /\ n \in 0 .. Len(inputs)
             /\ \A i \in 1 .. n : ~ fits(t, inputs[i].time_start, length)
             /\ n < Len(inputs) => fits(t, inputs[n + 1].time_start, length)
<1> DEFINE Fitting == { k \in 1 .. Len(inputs) : fits(t, inputs[k].time_start, length) }
           Erases(n) == /\ \A i \in 1 .. n : ~ fits(t, inputs[i].time_start, length)
                        /\ n < Len(inputs) => fits(t, inputs[n + 1].time_start, length)
<1>1. \E n \in 0 .. Len(inputs) : Erases(n)
  <2>1. CASE Fitting = {}
    <3>1. Erases(Len(inputs))  BY <2>1
    <3> QED  BY <3>1
  <2>2. CASE Fitting # {}
    <3>1. Fitting \in SUBSET Nat  OBVIOUS
    <3>2. PICK m \in Fitting : \A k \in Fitting : m <= k
      BY <2>2, <3>1, LeastElement
    <3>3. m \in 1 .. Len(inputs) /\ m - 1 \in 0 .. Len(inputs) /\ (m - 1) + 1 = m  OBVIOUS
    <3>4. ASSUME NEW i \in 1 .. (m - 1) PROVE ~ fits(t, inputs[i].time_start, length)
      <4>1. i \in 1 .. Len(inputs) /\ ~ (m <= i)  BY <3>3
      <4> QED  BY <3>2, <4>1
    <3>5. Erases(m - 1)  BY <3>3, <3>4
    <3> QED  BY <3>3, <3>5
  <2> QED  BY <2>1, <2>2
<1>2. n_to_erase(inputs, t, length) = CHOOSE n \in 0 .. Len(inputs) : Erases(n)
  BY DEF n_to_erase
<1> HIDE DEF Erases
<1>3. LET n == n_to_erase(inputs, t, length) IN n \in 0 .. Len(inputs) /\ Erases(n)
  BY <1>1, <1>2
<1> QED  BY <1>3 DEF Erases

-----------------------------------------------------------------------------
(* The charge of a list *)

\* The sums are what their definition says: it has a solution on every list.
LEMMA TotalsUpToDefined ==
  ASSUME NEW inputs, Len(inputs) \in Nat
  PROVE  TotalsUpTo(inputs) =
           [n \in 0 .. Len(inputs) |->
              IF n = 0 THEN 0 ELSE TotalsUpTo(inputs)[n - 1] + inputs[n].adc_integral]
<1> DEFINE N == Len(inputs)
           Sums(g, k) == g = [n \in 0 .. k |->
                                IF n = 0 THEN 0 ELSE g[n - 1] + inputs[n].adc_integral]
           T == { k \in Nat : \E g : Sums(g, k) }
<1>1. 0 \in T
  <2>1. Sums([n \in 0 .. 0 |-> 0], 0)  OBVIOUS
  <2> QED  BY <2>1
<1>2. ASSUME NEW k \in T PROVE k + 1 \in T
  <2>1. PICK g : Sums(g, k)  OBVIOUS
  <2> DEFINE h == [n \in 0 .. (k + 1) |->
                     IF n = k + 1 THEN g[k] + inputs[k + 1].adc_integral ELSE g[n]]
  <2>2. ASSUME NEW n \in 0 .. (k + 1)
        PROVE  h[n] = IF n = 0 THEN 0 ELSE h[n - 1] + inputs[n].adc_integral
    <3>1. CASE n = k + 1
      <4>1. n # 0 /\ n - 1 = k /\ k \in 0 .. (k + 1) /\ k # k + 1  BY <3>1
      <4>2. h[k] = g[k]  BY <4>1
      <4> QED  BY <3>1, <4>1, <4>2
    <3>2. CASE n # k + 1
      <4>1. n \in 0 .. k /\ h[n] = g[n]  BY <3>2
      <4>2. CASE n = 0  BY <2>1, <4>1, <4>2
      <4>3. CASE n # 0
        <5>1. n - 1 \in 0 .. (k + 1) /\ n - 1 # k + 1  BY <4>1, <4>3
        <5>2. h[n - 1] = g[n - 1]  BY <5>1
        <5> QED  BY <2>1, <4>1, <4>3, <5>2
      <4> QED  BY <4>2, <4>3
    <3> QED  BY <3>1, <3>2
  <2>3. Sums(h, k + 1)
    <3> HIDE DEF h
    <3>1. h = [n \in 0 .. (k + 1) |-> h[n]]  BY DEF h
    <3> QED  BY <2>2, <3>1
  <2>4. k + 1 \in Nat  OBVIOUS
  <2> HIDE DEF h, Sums
  <2> QED  BY <2>3, <2>4
<1>3. N \in T
  <2> HIDE DEF T
  <2>1. T = Nat
    <3>1. T \subseteq Nat  BY DEF T
    <3> QED  BY <1>1, <1>2, <3>1, NaturalsBySuccessor
  <2> QED  BY <2>1
<1>4. PICK g : Sums(g, N)  BY <1>3
<1>5. TotalsUpTo(inputs) = CHOOSE totals : Sums(totals, N)
  BY DEF TotalsUpTo
<1> HIDE DEF Sums
<1>6. Sums(TotalsUpTo(inputs), N)  BY <1>4, <1>5
<1> QED  BY <1>6 DEF Sums

\* The sums start at 0 and grow by one input's charge at a time.
LEMMA TotalsStep ==
  ASSUME NEW inputs, Len(inputs) \in Nat
  PROVE  /\ TotalsUpTo(inputs)[0] = 0
         /\ \A n \in 1 .. Len(inputs) :
              TotalsUpTo(inputs)[n] = TotalsUpTo(inputs)[n - 1] + inputs[n].adc_integral
<1> DEFINE tot == TotalsUpTo(inputs)
<1>1. tot = [n \in 0 .. Len(inputs) |->
               IF n = 0 THEN 0 ELSE tot[n - 1] + inputs[n].adc_integral]
  BY TotalsUpToDefined
<1> HIDE DEF tot
<1>2. tot[0] = 0  BY <1>1
<1>3. ASSUME NEW n \in 1 .. Len(inputs) PROVE tot[n] = tot[n - 1] + inputs[n].adc_integral
  BY <1>1
<1> QED  BY <1>2, <1>3 DEF tot

\* Charges are natural numbers, and so are their sums.
LEMMA TotalsType ==
  ASSUME NEW S, \A e \in S : e.adc_integral \in Nat, NEW s \in Seq(S)
  PROVE  \A n \in 0 .. Len(s) : TotalsUpTo(s)[n] \in Nat
<1> DEFINE tot == TotalsUpTo(s)
           T == { n \in Nat : n <= Len(s) => tot[n] \in Nat }
<1>1. tot[0] = 0 /\ \A n \in 1 .. Len(s) : tot[n] = tot[n - 1] + s[n].adc_integral
  BY TotalsStep
<1> HIDE DEF tot
<1>2. \A n \in 1 .. Len(s) : s[n].adc_integral \in Nat  OBVIOUS
<1>3. 0 \in T  BY <1>1
<1>4. ASSUME NEW n \in T PROVE n + 1 \in T
  <2>1. CASE n + 1 <= Len(s)
    <3>1. n + 1 \in 1 .. Len(s) /\ (n + 1) - 1 = n /\ tot[n] \in Nat  BY <2>1
    <3>2. tot[n + 1] = tot[n] + s[n + 1].adc_integral  BY <1>1, <3>1
    <3> QED  BY <1>2, <3>1, <3>2
  <2>2. CASE ~ (n + 1 <= Len(s))  BY <2>2
  <2> QED  BY <2>1, <2>2
<1>5. T = Nat
  <2>1. T \subseteq Nat  OBVIOUS
  <2> HIDE DEF T
  <2> QED  BY <1>3, <1>4, <2>1, NaturalsBySuccessor
<1> QED  BY <1>5 DEF tot

\* The sum of n elements depends on those n only, wherever they are.
LEMMA TotalsOfSlice ==
  ASSUME NEW S, \A e \in S : e.adc_integral \in Nat, NEW s \in Seq(S), NEW u \in Seq(S),
         NEW m \in Nat, NEW size \in 0 .. Len(u), NEW end \in 0 .. Len(s),
         end = m + size,
         \A i \in 1 .. size : u[i] = s[m + i]
  PROVE  TotalsUpTo(s)[end] = TotalsUpTo(s)[m] + TotalsUpTo(u)[size]
<1> DEFINE ts == TotalsUpTo(s)
           tu == TotalsUpTo(u)
           T == { n \in Nat : n <= size => ts[m + n] = ts[m] + tu[n] }
<1>1. ts[0] = 0 /\ \A n \in 1 .. Len(s) : ts[n] = ts[n - 1] + s[n].adc_integral
  BY TotalsStep
<1>2. tu[0] = 0 /\ \A n \in 1 .. Len(u) : tu[n] = tu[n - 1] + u[n].adc_integral
  BY TotalsStep
<1>3. \A n \in 0 .. Len(s) : ts[n] \in Nat  BY TotalsType
<1>4. \A n \in 0 .. Len(u) : tu[n] \in Nat  BY TotalsType
<1> HIDE DEF ts, tu
<1>5. 0 \in T
  <2>1. m \in 0 .. Len(s) /\ m + 0 = m  OBVIOUS
  <2> QED  BY <1>2, <1>3, <2>1
<1>6. ASSUME NEW n \in T PROVE n + 1 \in T
  <2>1. CASE n + 1 <= size
    <3>1. /\ n + 1 \in 1 .. Len(u) /\ (n + 1) - 1 = n /\ n \in 0 .. Len(u)
          /\ m + (n + 1) \in 1 .. Len(s) /\ (m + (n + 1)) - 1 = m + n
          /\ n + 1 \in 1 .. size /\ m \in 0 .. Len(s)
      BY <2>1
    <3>2. ts[m + n] = ts[m] + tu[n]  BY <2>1
    <3>3. tu[n + 1] = tu[n] + u[n + 1].adc_integral  BY <1>2, <3>1
    <3>4. ts[m + (n + 1)] = ts[m + n] + s[m + (n + 1)].adc_integral  BY <1>1, <3>1
    <3>5. u[n + 1] = s[m + (n + 1)] /\ u[n + 1].adc_integral \in Nat
      <4>1. PICK k \in 1 .. size : k = n + 1  BY <3>1
      <4>2. u[k] = s[m + k]  BY <4>1
      <4>3. k \in 1 .. Len(u)  BY <3>1, <4>1
      <4>4. u[k] \in S  BY <4>3, ElementOfSeq
      <4> QED  BY <4>1, <4>2, <4>4
    <3>6. ts[m] \in Nat /\ tu[n] \in Nat  BY <1>3, <1>4, <3>1
    <3>7. PICK k \in Nat : k = n + 1  OBVIOUS
    <3>8. tu[k] = tu[n] + u[k].adc_integral  BY <3>3, <3>7
    <3>9. ts[m + k] = ts[m + n] + u[k].adc_integral  BY <3>4, <3>5, <3>7
    <3>10. u[k].adc_integral \in Nat  BY <3>5, <3>7
    <3>11. ts[m + k] = ts[m] + tu[k]  BY <3>2, <3>6, <3>8, <3>9, <3>10
    <3>12. k \in T  BY <3>11
    <3> QED  BY <3>7, <3>12
  <2>2. CASE ~ (n + 1 <= size)  BY <2>2
  <2> QED  BY <2>1, <2>2
<1>7. T = Nat
  <2>1. T \subseteq Nat  OBVIOUS
  <2> HIDE DEF T
  <2> QED  BY <1>5, <1>6, <2>1, NaturalsBySuccessor
<1>8. size \in T  BY <1>7
<1> QED  BY <1>8 DEF ts, tu

\* In particular, it is the same in every list that begins with them.
LEMMA TotalsOfPrefix ==
  ASSUME NEW S, \A e \in S : e.adc_integral \in Nat, NEW s \in Seq(S), NEW u \in Seq(S),
         NEW size \in 0 .. Len(u), size \in 0 .. Len(s),
         \A i \in 1 .. size : u[i] = s[i]
  PROVE  TotalsUpTo(s)[size] = TotalsUpTo(u)[size]
<1>1. PICK m \in Nat : m = 0  OBVIOUS
<1>2. PICK end \in 0 .. Len(s) : end = size  OBVIOUS
<1>3. end = m + size  BY <1>1, <1>2
<1>4. \A i \in 1 .. size : u[i] = s[m + i]
  <2>1. ASSUME NEW i \in 1 .. size PROVE u[i] = s[m + i]
    <3>1. m + i = i  BY <1>1
    <3> QED  BY <3>1
  <2> QED  BY <2>1
<1>5. TotalsUpTo(s)[end] = TotalsUpTo(s)[m] + TotalsUpTo(u)[size]
  BY <1>3, <1>4, TotalsOfSlice
<1>6. TotalsUpTo(s)[m] = 0  BY <1>1, TotalsStep
<1>7. TotalsUpTo(u)[size] \in Nat  BY TotalsType
<1> QED  BY <1>2, <1>5, <1>6, <1>7

\* The charge of a list is a natural number; that of the empty list is 0.
LEMMA TotalAdcType ==
  ASSUME NEW S, \A e \in S : e.adc_integral \in Nat, NEW s \in Seq(S)
  PROVE  TotalAdc(s) \in Nat
BY TotalsType DEF TotalAdc

LEMMA TotalAdcEmpty == TotalAdc(<<>>) = 0
BY TotalsStep DEF TotalAdc

\* A list and one more element.
LEMMA TotalAdcAppend ==
  ASSUME NEW S, \A e \in S : e.adc_integral \in Nat, NEW s \in Seq(S), NEW e \in S
  PROVE  TotalAdc(Append(s, e)) = TotalAdc(s) + e.adc_integral
<1> DEFINE a == Append(s, e)
<1>1. /\ a \in Seq(S) /\ Len(a) = Len(s) + 1 /\ a[Len(s) + 1] = e
      /\ \A i \in 1 .. Len(s) : a[i] = s[i]
  OBVIOUS
<1> HIDE DEF a
<1>2. TotalsUpTo(a)[Len(s)] = TotalsUpTo(s)[Len(s)]
  <2>1. PICK n \in 0 .. Len(a) : n = Len(s)  BY <1>1
  <2>2. n \in 0 .. Len(s) /\ \A i \in 1 .. n : s[i] = a[i]  BY <1>1, <2>1
  <2>3. TotalsUpTo(a)[n] = TotalsUpTo(s)[n]  BY <1>1, <2>2, TotalsOfPrefix
  <2> QED  BY <2>1, <2>3
<1>3. TotalsUpTo(a)[Len(a)] = TotalsUpTo(a)[Len(a) - 1] + a[Len(a)].adc_integral
  <2>1. \A n \in 1 .. Len(a) : TotalsUpTo(a)[n] = TotalsUpTo(a)[n - 1] + a[n].adc_integral
    BY TotalsStep
  <2>2. Len(s) \in Nat  OBVIOUS
  <2>3. Len(a) \in 1 .. Len(a)  BY <1>1, <2>2
  <2> QED  BY <2>1, <2>3
<1>4. Len(a) - 1 = Len(s)  BY <1>1
<1> QED  BY <1>1, <1>2, <1>3, <1>4 DEF TotalAdc, a

\* A list cut in two.
LEMMA TotalAdcSplit ==
  ASSUME NEW S, \A e \in S : e.adc_integral \in Nat, NEW s \in Seq(S), NEW n \in 0 .. Len(s)
  PROVE  TotalAdc(s) = TotalAdc(SubSeq(s, 1, n)) + TotalAdc(SubSeq(s, n + 1, Len(s)))
<1> DEFINE p == SubSeq(s, 1, n)
           q == SubSeq(s, n + 1, Len(s))
<1>1. p \in Seq(S) /\ Len(p) = n /\ \A i \in 1 .. n : p[i] = s[i]
  OBVIOUS
<1>2. q \in Seq(S) /\ Len(q) = Len(s) - n /\ \A i \in 1 .. (Len(s) - n) : q[i] = s[n + i]
  OBVIOUS
<1> HIDE DEF p, q
<1>3. TotalsUpTo(s)[n] = TotalsUpTo(p)[n]
  <2>1. p \in Seq(S) /\ n \in 0 .. Len(p)  BY <1>1
  <2>2. \A i \in 1 .. n : p[i] = s[i]  BY <1>1
  <2> QED  BY <2>1, <2>2, TotalsOfPrefix
<1>4. TotalsUpTo(s)[Len(s)] = TotalsUpTo(s)[n] + TotalsUpTo(q)[Len(q)]
  <2>0. q \in Seq(S) /\ Len(q) \in Nat /\ Len(q) \in 0 .. Len(q)
    <3>1. q \in Seq(S)  BY <1>2
    <3>2. Len(q) \in Nat  BY <3>1
    <3> QED  BY <3>1, <3>2
  <2>1. PICK k \in 0 .. Len(q) : k = Len(q)  BY <2>0
  <2>2. PICK end \in 0 .. Len(s) : end = Len(s)  OBVIOUS
  <2>3. n \in Nat /\ end = n + k  BY <1>2, <2>1, <2>2
  <2>4. \A i \in 1 .. k : q[i] = s[n + i]  BY <1>2, <2>1
  <2>5. TotalsUpTo(s)[end] = TotalsUpTo(s)[n] + TotalsUpTo(q)[k]
    BY <2>0, <2>3, <2>4, TotalsOfSlice
  <2> QED  BY <2>1, <2>2, <2>5
<1> QED  BY <1>1, <1>3, <1>4 DEF TotalAdc, p, q

\* The running sums never fall, and the charge of a slice of a list is the
\* difference of two of them.
LEMMA TotalOfSlice ==
  ASSUME NEW S, \A e \in S : e.adc_integral \in Nat, NEW s \in Seq(S),
         NEW m \in 0 .. Len(s), NEW n \in m .. Len(s), NEW u \in Seq(S),
         Len(u) = n - m, \A i \in 1 .. Len(u) : u[i] = s[m + i]
  PROVE  /\ TotalAdc(u) \in Nat /\ TotalsUpTo(s)[m] \in Nat /\ TotalsUpTo(s)[n] \in Nat
         /\ TotalsUpTo(s)[n] = TotalsUpTo(s)[m] + TotalAdc(u)
<1>1. PICK k \in Nat : k = Len(u)  OBVIOUS
<1>2. k \in 0 .. Len(u) /\ n \in 0 .. Len(s) /\ n = m + k /\ m \in Nat  BY <1>1
<1>3. \A i \in 1 .. k : u[i] = s[m + i]  BY <1>1
<1>4. TotalsUpTo(s)[n] = TotalsUpTo(s)[m] + TotalsUpTo(u)[k]
  BY <1>2, <1>3, TotalsOfSlice
<1>5. TotalsUpTo(s)[m] \in Nat /\ TotalsUpTo(s)[n] \in Nat  BY <1>2, TotalsType
<1>6. TotalsUpTo(u)[k] \in Nat  BY <1>2, TotalsType
<1> QED  BY <1>1, <1>4, <1>5, <1>6 DEF TotalAdc

LEMMA TotalsGrow ==
  ASSUME NEW S, \A e \in S : e.adc_integral \in Nat, NEW s \in Seq(S),
         NEW m \in 0 .. Len(s), NEW n \in m .. Len(s)
  PROVE  /\ TotalsUpTo(s)[m] \in Nat /\ TotalsUpTo(s)[n] \in Nat
         /\ TotalsUpTo(s)[m] <= TotalsUpTo(s)[n]
<1> DEFINE u == SubSeq(s, m + 1, n)
<1>1. u \in Seq(S) /\ Len(u) = n - m /\ \A i \in 1 .. (n - m) : u[i] = s[m + i]
  OBVIOUS
<1> HIDE DEF u
<1>2. /\ TotalAdc(u) \in Nat /\ TotalsUpTo(s)[m] \in Nat /\ TotalsUpTo(s)[n] \in Nat
      /\ TotalsUpTo(s)[n] = TotalsUpTo(s)[m] + TotalAdc(u)
  BY <1>1, TotalOfSlice
<1> QED  BY <1>2

\* A slice of a stream is that of the stream and one more element.
LEMMA SliceOfAppend ==
  ASSUME NEW S, NEW s \in Seq(S), NEW e \in S, NEW i \in 1 .. Len(s), NEW j \in i .. Len(s)
  PROVE  SubSeq(Append(s, e), i, j) = SubSeq(s, i, j)
<1>1. PICK m \in Nat, a \in Seq(S) :
        /\ m = Len(s) /\ a = Append(s, e) /\ Len(a) = m + 1
        /\ \A x \in 1 .. m : a[x] = s[x]
  <2>0. Append(s, e) \in Seq(S)  OBVIOUS
  <2>1. PICK a \in Seq(S) : a = Append(s, e)  BY <2>0
  <2>2. /\ Len(s) \in Nat /\ Len(a) = Len(s) + 1
        /\ \A x \in 1 .. Len(s) : a[x] = s[x]
    BY <2>1
  <2> QED  BY <2>1, <2>2
<1>2. i \in Nat /\ j \in Nat /\ 1 <= i /\ i <= j /\ j <= m  BY <1>1
<1>3. PICK n \in Nat : n = j - i + 1  BY <1>2
<1>4. /\ SubSeq(s, i, j) \in Seq(S) /\ Len(SubSeq(s, i, j)) = n
      /\ \A x \in 1 .. n : SubSeq(s, i, j)[x] = s[i + x - 1]
  <2>1. \A x \in i .. j : s[x] \in S  BY <1>1, <1>2
  <2> QED  BY <1>2, <1>3, <2>1, SubSeqProperties
<1>5. /\ SubSeq(a, i, j) \in Seq(S) /\ Len(SubSeq(a, i, j)) = n
      /\ \A x \in 1 .. n : SubSeq(a, i, j)[x] = a[i + x - 1]
  <2>1. \A x \in i .. j : a[x] \in S  BY <1>1, <1>2
  <2> QED  BY <1>2, <1>3, <2>1, SubSeqProperties
<1>6. \A x \in 1 .. n : i + x - 1 \in 1 .. m  BY <1>2, <1>3
<1>7. \A x \in 1 .. n : SubSeq(a, i, j)[x] = SubSeq(s, i, j)[x]
  BY <1>1, <1>4, <1>5, <1>6
<1>8. SubSeq(a, i, j) = SubSeq(s, i, j)  BY <1>4, <1>5, <1>7, SeqEqual
<1> QED  BY <1>1, <1>8

\* Two lists, one after the other.
LEMMA TotalAdcConcat ==
  ASSUME NEW S, \A e \in S : e.adc_integral \in Nat, NEW s \in Seq(S), NEW u \in Seq(S)
  PROVE  TotalAdc(s \o u) = TotalAdc(s) + TotalAdc(u)
<1>1. PICK c \in Seq(S) : c = s \o u
  BY ConcatProperties
<1>2. PICK m \in Nat, k \in Nat, n \in Nat : m = Len(s) /\ k = Len(u) /\ n = Len(c)
  OBVIOUS
<1>3. n = m + k /\ \A i \in 1 .. n : c[i] = IF i <= m THEN s[i] ELSE u[i - m]
  BY <1>1, <1>2, ConcatProperties
<1>4. \A i \in 1 .. m : s[i] = c[i]  BY <1>3
<1>5. \A i \in 1 .. k : u[i] = c[m + i]
  <2>1. ASSUME NEW i \in 1 .. k PROVE u[i] = c[m + i]
    <3>1. m + i \in 1 .. n /\ ~ (m + i <= m) /\ (m + i) - m = i  BY <1>3
    <3> QED  BY <1>3, <3>1
  <2> QED  BY <2>1
<1>6. TotalsUpTo(c)[m] = TotalsUpTo(s)[m]
  <2>1. m \in 0 .. Len(s) /\ m \in 0 .. Len(c)  BY <1>2, <1>3
  <2> QED  BY <1>4, <2>1, TotalsOfPrefix
<1>7. TotalsUpTo(c)[n] = TotalsUpTo(c)[m] + TotalsUpTo(u)[k]
  <2>1. k \in 0 .. Len(u) /\ n \in 0 .. Len(c)  BY <1>2
  <2> QED  BY <1>3, <1>5, <2>1, TotalsOfSlice
<1> QED  BY <1>1, <1>2, <1>6, <1>7 DEF TotalAdc

\* A list of one.
LEMMA TotalAdcOne ==
  ASSUME NEW S, \A e \in S : e.adc_integral \in Nat, NEW e \in S
  PROVE  TotalAdc(<<e>>) = e.adc_integral
<1>1. <<e>> = Append(<<>>, e) /\ <<>> \in Seq(S)  OBVIOUS
<1>2. TotalAdc(Append(<<>>, e)) = TotalAdc(<<>>) + e.adc_integral
  BY <1>1, TotalAdcAppend
<1>3. e.adc_integral \in Nat  OBVIOUS
<1> QED  BY <1>1, <1>2, <1>3, TotalAdcEmpty

-----------------------------------------------------------------------------
(* The arrival numbers of a list *)

\* They are those of its elements,
LEMMA IdsOfRange ==
  ASSUME NEW list
  PROVE  Ids(list) = { e.id : e \in Range(list) }
BY DEF Ids, Range

LEMMA RangeOfOne ==
  ASSUME NEW e
  PROVE  Range(<<e>>) = {e} /\ Ids(<<e>>) = {e.id}
<1>1. DOMAIN <<e>> = {1} /\ <<e>>[1] = e  OBVIOUS
<1> QED  BY <1>1 DEF Range, Ids

LEMMA RangeOfNone == Range(<<>>) = {} /\ Ids(<<>>) = {}
<1>1. DOMAIN <<>> = {}  OBVIOUS
<1> QED  BY <1>1 DEF Range, Ids

\* those of two lists together,
LEMMA RangeOfConcat ==
  ASSUME NEW S, NEW s \in Seq(S), NEW u \in Seq(S)
  PROVE  Range(s \o u) = Range(s) \cup Range(u) /\ Ids(s \o u) = Ids(s) \cup Ids(u)
<1>1. Range(s \o u) = Range(s) \cup Range(u)  BY RangeConcatenation
<1> QED  BY <1>1, IdsOfRange

\* and an element more is a number more.
LEMMA RangeOfAppend ==
  ASSUME NEW S, NEW s \in Seq(S), NEW e \in S
  PROVE  Range(Append(s, e)) = Range(s) \cup {e} /\ Ids(Append(s, e)) = Ids(s) \cup {e.id}
<1>1. Append(s, e) = s \o <<e>>  BY AppendIsConcat
<1>2. PICK u \in Seq(S) : u = <<e>>
  <2>1. <<e>> \in Seq(S)  OBVIOUS
  <2> QED  BY <2>1
<1>3. Range(s \o u) = Range(s) \cup Range(u) /\ Ids(s \o u) = Ids(s) \cup Ids(u)
  BY RangeOfConcat
<1>4. Range(u) = {e} /\ Ids(u) = {e.id}  BY <1>2, RangeOfOne
<1> QED  BY <1>1, <1>2, <1>3, <1>4

\* What is left of a list without its front is part of it.
LEMMA EndOfList ==
  ASSUME NEW S, NEW s \in Seq(S), NEW n \in 0 .. Len(s)
  PROVE  LET q == SubSeq(s, n + 1, Len(s))
         IN  /\ q \in Seq(S)
             /\ Len(q) = Len(s) - n /\ DOMAIN q = 1 .. (Len(s) - n)
             /\ \A i \in 1 .. (Len(s) - n) : q[i] = s[n + i]
             /\ Range(q) \subseteq Range(s)
<1>1. PICK m \in Nat : m = Len(s) /\ DOMAIN s = 1 .. m
  OBVIOUS
<1>2. /\ SubSeq(s, n + 1, m) \in Seq(S) /\ Len(SubSeq(s, n + 1, m)) = m - n
      /\ \A i \in 1 .. (m - n) : SubSeq(s, n + 1, m)[i] = s[n + i]
  BY <1>1
<1>3. PICK q \in Seq(S) : q = SubSeq(s, n + 1, m)  BY <1>2
<1>4. Len(q) = m - n /\ \A i \in 1 .. (m - n) : q[i] = s[n + i]  BY <1>2, <1>3
<1>5. DOMAIN q = 1 .. (m - n)  BY <1>4
<1>6. ASSUME NEW i \in 1 .. (m - n) PROVE q[i] \in Range(s)
  <2>1. n + i \in 1 .. m  BY <1>1
  <2> QED  BY <1>1, <1>4, <2>1 DEF Range
<1>7. Range(q) \subseteq Range(s)  BY <1>5, <1>6 DEF Range
<1> QED  BY <1>1, <1>3, <1>4, <1>5, <1>7

-----------------------------------------------------------------------------
(* The objects a maker has given out *)

\* For each, the arrival numbers of its inputs; and all of them together.
Given(outs) == [k \in DOMAIN outs |-> Ids(outs[k].inputs)]
AllGiven(outs) == UNION { Ids(outs[k].inputs) : k \in DOMAIN outs }

\* One more object is one more set of numbers.
LEMMA GivenAppend ==
  ASSUME NEW S, NEW outs \in Seq(S), NEW o
  PROVE  /\ Append(outs, o) \in Seq(S \cup {o})
         /\ Given(Append(outs, o)) = Append(Given(outs), Ids(o.inputs))
         /\ AllGiven(Append(outs, o)) = AllGiven(outs) \cup Ids(o.inputs)
<1>1. outs \in Seq(S \cup {o})
  <2>1. S \subseteq S \cup {o}  OBVIOUS
  <2> QED  BY <2>1, SeqMonotonic
<1>2. Append(outs, o) \in Seq(S \cup {o})  BY <1>1
<1>3. PICK m \in Nat : m = Len(outs) /\ DOMAIN outs = 1 .. m  OBVIOUS
<1>4. PICK more \in Seq(S \cup {o}) : more = Append(outs, o)  BY <1>2
<1>5. /\ Len(more) = m + 1 /\ DOMAIN more = 1 .. (m + 1) /\ more[m + 1] = o
      /\ \A k \in 1 .. m : more[k] = outs[k]
  BY <1>1, <1>3, <1>4
<1> DEFINE T == { Ids(more[k].inputs) : k \in 1 .. (m + 1) }
<1>6. 1 .. (m + 1) = (1 .. m) \cup {m + 1}  OBVIOUS
<1>7. Ids(o.inputs) \in T  BY <1>5, <1>6
<1>8. PICK g : g = Given(outs)  OBVIOUS
<1>9. /\ g \in Seq(T) /\ Len(g) = m
      /\ \A k \in 1 .. m : g[k] = Ids(outs[k].inputs)
  <2>1. g = [k \in 1 .. m |-> Ids(outs[k].inputs)]  BY <1>3, <1>8 DEF Given
  <2>2. ASSUME NEW k \in 1 .. m PROVE Ids(outs[k].inputs) \in T
    <3>1. k \in 1 .. (m + 1)  BY <1>6
    <3> QED  BY <1>5, <3>1
  <2> HIDE DEF T
  <2>3. g \in [1 .. m -> T]  BY <2>1, <2>2
  <2> QED  BY <2>1, <2>3, SeqDef
<1>10. PICK h : h = Given(more)  OBVIOUS
<1>11. /\ h \in Seq(T) /\ Len(h) = m + 1
       /\ \A k \in 1 .. (m + 1) : h[k] = Ids(more[k].inputs)
  <2>1. h = [k \in 1 .. (m + 1) |-> Ids(more[k].inputs)]  BY <1>5, <1>10 DEF Given
  <2>2. h \in [1 .. (m + 1) -> T]  BY <2>1
  <2> HIDE DEF T
  <2>3. m + 1 \in Nat  OBVIOUS
  <2> QED  BY <2>1, <2>2, <2>3, SeqDef
<1> HIDE DEF T
<1>12. h = Append(g, Ids(o.inputs))
  <2>0. Append(g, Ids(o.inputs)) \in Seq(T)  BY <1>7, <1>9, AppendProperties
  <2>1. PICK a \in Seq(T) : a = Append(g, Ids(o.inputs))  BY <2>0
  <2>2. /\ Len(a) = m + 1 /\ a[m + 1] = Ids(o.inputs)
        /\ \A k \in 1 .. m : a[k] = g[k]
    BY <1>7, <1>9, <2>1
  <2>3. ASSUME NEW k \in 1 .. (m + 1) PROVE h[k] = a[k]
    <3>1. CASE k = m + 1  BY <1>5, <1>11, <2>2, <3>1
    <3>2. CASE k \in 1 .. m  BY <1>5, <1>9, <1>11, <2>2, <3>2
    <3> QED  BY <3>1, <3>2
  <2> QED  BY <1>11, <2>1, <2>2, <2>3, SeqEqual
<1>13. AllGiven(more) = AllGiven(outs) \cup Ids(o.inputs)
  <2>1. AllGiven(more) = UNION { Ids(more[k].inputs) : k \in 1 .. (m + 1) }
    BY <1>5 DEF AllGiven
  <2>2. AllGiven(outs) = UNION { Ids(outs[k].inputs) : k \in 1 .. m }
    BY <1>3 DEF AllGiven
  <2>3. { Ids(more[k].inputs) : k \in 1 .. (m + 1) }
          = { Ids(outs[k].inputs) : k \in 1 .. m } \cup {Ids(o.inputs)}
    BY <1>5, <1>6
  <2> QED  BY <2>1, <2>2, <2>3
<1> QED  BY <1>2, <1>4, <1>8, <1>10, <1>12, <1>13

-----------------------------------------------------------------------------
(* A window as the end of its stream *)

\* The list is what is left of the stream without its first n elements.
IsEnd(list, stream, n) ==
  /\ n \in 0 .. Len(stream)
  /\ Len(list) = Len(stream) - n
  /\ \A i \in 1 .. Len(list) : list[i] = stream[n + i]

\* add(): both grow by the same element.
LEMMA EndAppend ==
  ASSUME NEW S, NEW list \in Seq(S), NEW stream \in Seq(S), NEW n, IsEnd(list, stream, n), NEW e \in S
  PROVE  IsEnd(Append(list, e), Append(stream, e), n)
<1> DEFINE l == Append(list, e)
           s == Append(stream, e)
<1>1. PICK k \in Nat, m \in Nat : k = Len(list) /\ m = Len(stream)
  OBVIOUS
<1>2. /\ Len(l) = k + 1 /\ l[k + 1] = e /\ \A i \in 1 .. k : l[i] = list[i]
      /\ Len(s) = m + 1 /\ s[m + 1] = e /\ \A i \in 1 .. m : s[i] = stream[i]
  BY <1>1
<1>3. n \in 0 .. m /\ k = m - n /\ \A i \in 1 .. k : list[i] = stream[n + i]
  BY <1>1 DEF IsEnd
<1> HIDE DEF l, s
<1>4. ASSUME NEW i \in 1 .. (k + 1) PROVE l[i] = s[n + i]
  <2>1. CASE i = k + 1
    <3>1. n + i = m + 1  BY <1>3, <2>1
    <3> QED  BY <1>2, <2>1, <3>1
  <2>2. CASE i # k + 1
    <3>1. i \in 1 .. k /\ n + i \in 1 .. m  BY <1>3, <2>2
    <3> QED  BY <1>2, <1>3, <3>1
  <2> QED  BY <2>1, <2>2
<1>5. IsEnd(l, s, n)
  <2>1. n \in 0 .. (m + 1) /\ k + 1 = (m + 1) - n  BY <1>3
  <2> QED  BY <1>2, <1>4, <2>1 DEF IsEnd
<1> QED  BY <1>5 DEF l, s

\* reset(): only the new element is left.
LEMMA EndReset ==
  ASSUME NEW S, NEW stream \in Seq(S), NEW e \in S
  PROVE  IsEnd(<<e>>, Append(stream, e), Len(stream))
<1>1. /\ Len(Append(stream, e)) = Len(stream) + 1 /\ Append(stream, e)[Len(stream) + 1] = e
      /\ Len(stream) \in Nat
  OBVIOUS
<1>2. Len(<<e>>) = 1 /\ <<e>>[1] = e  OBVIOUS
<1> QED  BY <1>1, <1>2 DEF IsEnd

\* Erasing a front.
LEMMA EndErase ==
  ASSUME NEW S, NEW list \in Seq(S), NEW stream \in Seq(S), NEW n, IsEnd(list, stream, n),
         NEW d \in 0 .. Len(list)
  PROVE  IsEnd(SubSeq(list, d + 1, Len(list)), stream, n + d)
<1> DEFINE l == SubSeq(list, d + 1, Len(list))
<1>1. PICK k \in Nat, m \in Nat : k = Len(list) /\ m = Len(stream)
  OBVIOUS
<1>2. Len(l) = k - d /\ \A i \in 1 .. (k - d) : l[i] = list[d + i]
  BY <1>1
<1>3. n \in 0 .. m /\ k = m - n /\ \A i \in 1 .. k : list[i] = stream[n + i]
  BY <1>1 DEF IsEnd
<1>4. d \in 0 .. k  BY <1>1
<1> HIDE DEF l
<1>5. ASSUME NEW i \in 1 .. (k - d) PROVE l[i] = stream[(n + d) + i]
  <2>1. d + i \in 1 .. k /\ n + (d + i) = (n + d) + i  BY <1>3, <1>4
  <2>2. list[d + i] = stream[n + (d + i)]  BY <1>3, <2>1
  <2> QED  BY <1>2, <2>1, <2>2
<1>6. n + d \in 0 .. m /\ k - d = m - (n + d)  BY <1>3, <1>4
<1> QED  BY <1>1, <1>2, <1>5, <1>6 DEF IsEnd, l

\* When the stream is numbered, the end holds the last numbers.
LEMMA EndIds ==
  ASSUME NEW S, NEW list \in Seq(S), NEW stream \in Seq(S), NEW n, IsEnd(list, stream, n),
         \A i \in DOMAIN stream : stream[i].id = i
  PROVE  Ids(list) = (n + 1) .. Len(stream)
<1>1. PICK k \in Nat, m \in Nat :
        k = Len(list) /\ DOMAIN list = 1 .. k /\ m = Len(stream) /\ DOMAIN stream = 1 .. m
  OBVIOUS
<1>2. n \in 0 .. m /\ k = m - n /\ \A i \in 1 .. k : list[i] = stream[n + i]
  BY <1>1 DEF IsEnd
<1>3. ASSUME NEW i \in 1 .. k PROVE list[i].id = n + i /\ n + i \in (n + 1) .. m
  <2>1. n + i \in 1 .. m /\ n + i \in (n + 1) .. m  BY <1>2
  <2>2. list[i] = stream[n + i] /\ stream[n + i].id = n + i  BY <1>1, <1>2, <2>1
  <2> QED  BY <2>1, <2>2
<1>4. ASSUME NEW x \in (n + 1) .. m PROVE x - n \in 1 .. k /\ n + (x - n) = x
  BY <1>2
<1>5. Ids(list) \subseteq (n + 1) .. m  BY <1>1, <1>3 DEF Ids
<1>6. ASSUME NEW x \in (n + 1) .. m PROVE x \in Ids(list)
  <2>1. PICK i \in 1 .. k : i = x - n  BY <1>4
  <2>2. list[i].id = x  BY <1>3, <1>4, <2>1
  <2> QED  BY <1>1, <2>2 DEF Ids
<1> QED  BY <1>1, <1>5, <1>6

\* The list a move() to e leaves.
Moved(list, e, length) ==
  LET n == n_to_erase(list, e.time_start, length)
  IN  IF n < Len(list) THEN Append(SubSeq(list, n + 1, Len(list)), e) ELSE <<e>>

\* move(): nothing goes that fits e, and what is left is still an end.
LEMMA EndMove ==
  ASSUME NEW S, NEW list \in Seq(S), NEW stream \in Seq(S), NEW n, IsEnd(list, stream, n),
         NEW e \in S, NEW length
  PROVE  \E b \in n .. Len(stream) :
           /\ IsEnd(Moved(list, e, length), Append(stream, e), b)
           /\ Moved(list, e, length) \in Seq(S)
           /\ \A i \in (n + 1) .. b : ~ fits(e.time_start, stream[i].time_start, length)
<1>1. PICK k \in Nat, m \in Nat : k = Len(list) /\ m = Len(stream)
  OBVIOUS
<1>2. n \in 0 .. m /\ k = m - n /\ \A i \in 1 .. k : list[i] = stream[n + i]
  BY <1>1 DEF IsEnd
<1>3. PICK d \in 0 .. k :
        /\ d = n_to_erase(list, e.time_start, length)
        /\ \A i \in 1 .. d : ~ fits(e.time_start, list[i].time_start, length)
  BY <1>1, NToErase
<1>4. PICK b \in n .. m : b = n + d  BY <1>2
<1>5. ASSUME NEW i \in (n + 1) .. b PROVE ~ fits(e.time_start, stream[i].time_start, length)
  <2>1. i - n \in 1 .. d /\ i - n \in 1 .. k /\ n + (i - n) = i  BY <1>2, <1>4
  <2> QED  BY <1>2, <1>3, <2>1
<1>6. CASE d < k
  <2> DEFINE l == SubSeq(list, d + 1, Len(list))
  <2>1. IsEnd(l, stream, b)  BY <1>1, <1>4, EndErase
  <2>2. l \in Seq(S)  BY <1>1
  <2>3. Moved(list, e, length) = Append(l, e)  BY <1>1, <1>3, <1>6 DEF Moved
  <2> HIDE DEF l
  <2>4. IsEnd(Append(l, e), Append(stream, e), b)  BY <2>1, <2>2, EndAppend
  <2>5. Append(l, e) \in Seq(S)  BY <2>2
  <2> QED  BY <1>1, <1>5, <2>3, <2>4, <2>5
<1>7. CASE ~ (d < k)
  <2>1. b = Len(stream)  BY <1>1, <1>2, <1>4, <1>7
  <2>2. Moved(list, e, length) = <<e>>  BY <1>1, <1>3, <1>7 DEF Moved
  <2>3. IsEnd(<<e>>, Append(stream, e), b)  BY <2>1, EndReset
  <2>4. <<e>> \in Seq(S)  OBVIOUS
  <2> QED  BY <1>1, <1>5, <2>2, <2>3, <2>4
<1> QED  BY <1>6, <1>7

-----------------------------------------------------------------------------
(* Lists of elements of a stream *)

\* The elements of a list are elements of the stream, at their numbers.
FromStream(list, stream) ==
  \A e \in Range(list) : e.id \in DOMAIN stream /\ stream[e.id] = e

LEMMA FromLongerStream ==
  ASSUME NEW S, NEW list, NEW stream \in Seq(S), FromStream(list, stream), NEW e \in S
  PROVE  FromStream(list, Append(stream, e))
<1>1. \A i \in DOMAIN stream : i \in DOMAIN Append(stream, e) /\ Append(stream, e)[i] = stream[i]
  OBVIOUS
<1> QED  BY <1>1 DEF FromStream

\* A list that took in the newest element and no other: what it kept of the list
\* before, and why the rest had to go.
LEMMA ListTakes ==
  ASSUME NEW S, NEW old, NEW new, NEW stream \in Seq(S), FromStream(old, stream),
         NEW e \in S, e.id = Len(stream) + 1, e \in Range(new),
         Range(new) \subseteq Range(old) \cup {e}
  PROVE  LET kept == Ids(new) \cap Ids(old)
         IN  /\ Ids(new) = kept \cup {e.id}
             /\ FromStream(new, Append(stream, e))
             /\ \A x \in Ids(old) \ kept :
                  /\ x \in DOMAIN stream
                  /\ stream[x] \in Range(old) \ Range(new)
<1>1. Ids(new) = { d.id : d \in Range(new) } /\ Ids(old) = { d.id : d \in Range(old) }
  BY IdsOfRange
<1>2. Ids(new) = (Ids(new) \cap Ids(old)) \cup {e.id}  BY <1>1
<1>3. FromStream(new, Append(stream, e))
  <2>1. FromStream(old, Append(stream, e))  BY FromLongerStream
  <2>2. e.id \in DOMAIN Append(stream, e) /\ Append(stream, e)[e.id] = e  OBVIOUS
  <2> QED  BY <2>1, <2>2 DEF FromStream
<1>4. ASSUME NEW x \in Ids(old) \ (Ids(new) \cap Ids(old))
      PROVE  x \in DOMAIN stream /\ stream[x] \in Range(old) \ Range(new)
  <2>1. PICK d \in Range(old) : x = d.id  BY <1>1
  <2>2. x \in DOMAIN stream /\ stream[x] = d  BY <2>1 DEF FromStream
  <2>3. d \notin Range(new)  BY <1>1, <1>4, <2>1
  <2> QED  BY <2>1, <2>2, <2>3
<1> QED  BY <1>2, <1>3, <1>4

\* The list a move() to e leaves has e, nothing that was not in it, and all
\* that fits e.
LEMMA MovedTakes ==
  ASSUME NEW S, NEW list \in Seq(S), NEW e \in S, NEW length
  PROVE  LET new == Moved(list, e, length)
         IN  /\ e \in Range(new) /\ Range(new) \subseteq Range(list) \cup {e}
             /\ \A d \in Range(list) \ Range(new) : ~ fits(e.time_start, d.time_start, length)
<1>1. PICK m \in Nat : m = Len(list) /\ DOMAIN list = 1 .. m  OBVIOUS
<1>2. PICK n \in 0 .. m :
        /\ n = n_to_erase(list, e.time_start, length)
        /\ \A i \in 1 .. n : ~ fits(e.time_start, list[i].time_start, length)
  BY <1>1, NToErase
<1>3. PICK new : new = Moved(list, e, length)  OBVIOUS
<1>4. CASE n < m
  <2>1. PICK q : q = SubSeq(list, n + 1, Len(list))  OBVIOUS
  <2>2. /\ q \in Seq(S) /\ DOMAIN q = 1 .. (m - n)
        /\ \A i \in 1 .. (m - n) : q[i] = list[n + i]
        /\ Range(q) \subseteq Range(list)
    BY <1>1, <2>1, EndOfList
  <2>3. new = Append(q, e)  BY <1>1, <1>2, <1>3, <1>4, <2>1 DEF Moved
  <2>4. Range(new) = Range(q) \cup {e}  BY <2>2, <2>3, RangeOfAppend
  <2>5. ASSUME NEW d \in Range(list), d \notin Range(q)
        PROVE  ~ fits(e.time_start, d.time_start, length)
    <3>1. PICK i \in 1 .. m : d = list[i]  BY <1>1 DEF Range
    <3>2. ~ (i > n)
      <4> SUFFICES ASSUME i > n PROVE FALSE  OBVIOUS
      <4>1. i - n \in 1 .. (m - n) /\ n + (i - n) = i  BY <1>2
      <4>2. q[i - n] = d  BY <2>2, <3>1, <4>1
      <4> QED  BY <2>2, <2>5, <4>1, <4>2 DEF Range
    <3> QED  BY <1>2, <3>1, <3>2
  <2> QED  BY <1>3, <2>2, <2>4, <2>5
<1>5. CASE ~ (n < m)
  <2>1. new = <<e>> /\ n = m  BY <1>1, <1>2, <1>3, <1>5 DEF Moved
  <2>2. Range(new) = {e}  BY <2>1, RangeOfOne
  <2> QED  BY <1>1, <1>2, <1>3, <2>1, <2>2 DEF Range
<1> QED  BY <1>4, <1>5

-----------------------------------------------------------------------------
(* Sums over a list *)

\* Any weight of the elements of a list can be added up as charges are.
Weighed(list, weight) == [i \in DOMAIN list |-> [adc_integral |-> weight[list[i]]]]

Weight(list, weight) == TotalAdc(Weighed(list, weight))

WeightUpTo(list, weight) == TotalsUpTo(Weighed(list, weight))

Charges == [adc_integral : Nat]

LEMMA WeighedType ==
  ASSUME NEW S, NEW weight \in [S -> Nat], NEW s \in Seq(S)
  PROVE  /\ Weighed(s, weight) \in Seq(Charges)
         /\ Len(Weighed(s, weight)) = Len(s)
         /\ \A i \in 1 .. Len(s) : Weighed(s, weight)[i] = [adc_integral |-> weight[s[i]]]
<1>1. PICK n \in Nat : n = Len(s) /\ DOMAIN s = 1 .. n  OBVIOUS
<1>2. \A i \in 1 .. n : s[i] \in S  BY <1>1
<1>3. Weighed(s, weight) = [i \in 1 .. n |-> [adc_integral |-> weight[s[i]]]]
  BY <1>1 DEF Weighed
<1>4. \A i \in 1 .. n : [adc_integral |-> weight[s[i]]] \in Charges  BY <1>2 DEF Charges
<1>5. Weighed(s, weight) \in [1 .. n -> Charges]  BY <1>3, <1>4
<1>6. Weighed(s, weight) \in Seq(Charges)  BY <1>1, <1>5, IsASeq
<1>7. Len(Weighed(s, weight)) = n  BY <1>3, <1>6, LenProperties
<1> QED  BY <1>1, <1>3, <1>6, <1>7

LEMMA WeighedAt ==
  ASSUME NEW s, NEW weight, NEW i \in DOMAIN s
  PROVE  Weighed(s, weight)[i] = [adc_integral |-> weight[s[i]]]
BY DEF Weighed

LEMMA ChargesAreNat == \A e \in Charges : e.adc_integral \in Nat
BY DEF Charges

\* It starts at 0 and grows by one element's weight at a time.
LEMMA WeightStep ==
  ASSUME NEW S, NEW weight \in [S -> Nat], NEW s \in Seq(S)
  PROVE  /\ WeightUpTo(s, weight)[0] = 0
         /\ \A n \in 0 .. Len(s) : WeightUpTo(s, weight)[n] \in Nat
         /\ \A n \in 1 .. Len(s) :
              WeightUpTo(s, weight)[n] = WeightUpTo(s, weight)[n - 1] + weight[s[n]]
         /\ Weight(s, weight) = WeightUpTo(s, weight)[Len(s)]
         /\ Weight(s, weight) \in Nat
<1>1. PICK u : u = Weighed(s, weight)  OBVIOUS
<1>2. PICK k \in Nat : k = Len(s)  OBVIOUS
<1>3. /\ u \in Seq(Charges) /\ Len(u) = k
      /\ \A i \in 1 .. k : u[i] = [adc_integral |-> weight[s[i]]]
  BY <1>1, <1>2, WeighedType
<1>4. /\ TotalsUpTo(u)[0] = 0
      /\ \A n \in 1 .. k : TotalsUpTo(u)[n] = TotalsUpTo(u)[n - 1] + u[n].adc_integral
  BY <1>3, TotalsStep
<1>5. \A n \in 0 .. k : TotalsUpTo(u)[n] \in Nat  BY <1>3, TotalsType, ChargesAreNat
<1>6. \A n \in 1 .. k : u[n].adc_integral = weight[s[n]]  BY <1>3
<1>7. WeightUpTo(s, weight) = TotalsUpTo(u) /\ Weight(s, weight) = TotalsUpTo(u)[k]
  BY <1>1, <1>3 DEF WeightUpTo, Weight, TotalAdc
<1>8. k \in 0 .. k  OBVIOUS
<1> QED  BY <1>2, <1>4, <1>5, <1>6, <1>7, <1>8

LEMMA WeightNone ==
  ASSUME NEW weight
  PROVE  Weight(<<>>, weight) = 0
<1>1. Weighed(<<>>, weight) = <<>>  BY DEF Weighed
<1> QED  BY <1>1, TotalAdcEmpty DEF Weight

\* A list in two parts.
Joins(c, s, u) ==
  /\ Len(c) = Len(s) + Len(u)
  /\ \A i \in 1 .. Len(s) : c[i] = s[i]
  /\ \A i \in 1 .. Len(u) : c[Len(s) + i] = u[i]

LEMMA TotalAdcJoins ==
  ASSUME NEW S, \A e \in S : e.adc_integral \in Nat,
         NEW c \in Seq(S), NEW s \in Seq(S), NEW u \in Seq(S), Joins(c, s, u)
  PROVE  TotalAdc(c) = TotalAdc(s) + TotalAdc(u)
<1>1. PICK m \in Nat, k \in Nat, n \in Nat : m = Len(s) /\ k = Len(u) /\ n = Len(c)
  OBVIOUS
<1>2. n = m + k /\ (\A i \in 1 .. m : c[i] = s[i]) /\ (\A i \in 1 .. k : c[m + i] = u[i])
  BY <1>1 DEF Joins
<1>3. \A i \in 1 .. m : s[i] = c[i]  BY <1>2
<1>4. \A i \in 1 .. k : u[i] = c[m + i]  BY <1>2
<1>5. TotalsUpTo(c)[m] = TotalsUpTo(s)[m]
  <2>1. m \in 0 .. Len(s) /\ m \in 0 .. Len(c)  BY <1>1, <1>2
  <2> QED  BY <1>3, <2>1, TotalsOfPrefix
<1>6. TotalsUpTo(c)[n] = TotalsUpTo(c)[m] + TotalsUpTo(u)[k]
  <2>1. k \in 0 .. Len(u) /\ n \in 0 .. Len(c)  BY <1>1
  <2>2. n = m + k  BY <1>2
  <2> HIDE DEF Joins
  <2> QED  BY <1>4, <2>1, <2>2, TotalsOfSlice
<1> QED  BY <1>1, <1>5, <1>6 DEF TotalAdc

LEMMA WeighedJoins ==
  ASSUME NEW S, NEW weight \in [S -> Nat], NEW c \in Seq(S), NEW s \in Seq(S), NEW u \in Seq(S),
         Joins(c, s, u)
  PROVE  Joins(Weighed(c, weight), Weighed(s, weight), Weighed(u, weight))
<1>1. PICK m \in Nat, k \in Nat : m = Len(s) /\ k = Len(u)  OBVIOUS
<1>2. Len(c) = m + k /\ (\A i \in 1 .. m : c[i] = s[i]) /\ (\A i \in 1 .. k : c[m + i] = u[i])
  BY <1>1 DEF Joins
<1>3. /\ Len(Weighed(s, weight)) = m
      /\ Len(Weighed(u, weight)) = k
      /\ Len(Weighed(c, weight)) = m + k
  BY <1>1, <1>2, WeighedType
<1>4. DOMAIN s = 1 .. m /\ DOMAIN u = 1 .. k /\ DOMAIN c = 1 .. (m + k)  BY <1>1, <1>2
<1>5. ASSUME NEW i \in 1 .. m PROVE Weighed(c, weight)[i] = Weighed(s, weight)[i]
  <2>1. i \in DOMAIN s /\ i \in DOMAIN c  BY <1>4
  <2>2. c[i] = s[i]  BY <1>2
  <2>3. Weighed(s, weight)[i] = [adc_integral |-> weight[s[i]]]  BY <2>1, WeighedAt
  <2>4. Weighed(c, weight)[i] = [adc_integral |-> weight[c[i]]]  BY <2>1, WeighedAt
  <2> QED  BY <2>2, <2>3, <2>4
<1>6. ASSUME NEW i \in 1 .. k PROVE Weighed(c, weight)[m + i] = Weighed(u, weight)[i]
  <2>0. PICK j : j = m + i  OBVIOUS
  <2>1. i \in DOMAIN u /\ j \in DOMAIN c  BY <1>4, <2>0
  <2>2. c[j] = u[i]  BY <1>2, <2>0
  <2>3. Weighed(u, weight)[i] = [adc_integral |-> weight[u[i]]]  BY <2>1, WeighedAt
  <2>4. Weighed(c, weight)[j] = [adc_integral |-> weight[c[j]]]  BY <2>1, WeighedAt
  <2> QED  BY <2>0, <2>2, <2>3, <2>4
<1> QED  BY <1>3, <1>5, <1>6 DEF Joins

LEMMA WeightOfParts ==
  ASSUME NEW S, NEW weight \in [S -> Nat], NEW c \in Seq(S), NEW s \in Seq(S), NEW u \in Seq(S),
         Joins(c, s, u)
  PROVE  Weight(c, weight) = Weight(s, weight) + Weight(u, weight)
<1>1. PICK a \in Seq(Charges) : a = Weighed(s, weight)  BY WeighedType
<1>2. PICK b \in Seq(Charges) : b = Weighed(u, weight)  BY WeighedType
<1>3. PICK d \in Seq(Charges) : d = Weighed(c, weight)  BY WeighedType
<1>4. Joins(d, a, b)  BY <1>1, <1>2, <1>3, WeighedJoins
<1>5. TotalAdc(d) = TotalAdc(a) + TotalAdc(b)  BY <1>4, TotalAdcJoins, ChargesAreNat
<1> QED  BY <1>1, <1>2, <1>3, <1>5 DEF Weight

LEMMA WeightOfTwo ==
  ASSUME NEW S, NEW weight \in [S -> Nat], NEW s \in Seq(S), NEW u \in Seq(S)
  PROVE  Weight(s \o u, weight) = Weight(s, weight) + Weight(u, weight)
<1>1. PICK c : c = s \o u  OBVIOUS
<1>2. PICK m \in Nat, k \in Nat : m = Len(s) /\ k = Len(u)  OBVIOUS
<1>3. /\ c \in Seq(S) /\ Len(c) = m + k
      /\ \A i \in 1 .. (m + k) : c[i] = IF i <= m THEN s[i] ELSE u[i - m]
  BY <1>1, <1>2, ConcatProperties
<1>4. \A i \in 1 .. m : c[i] = s[i]  BY <1>3
<1>5. ASSUME NEW i \in 1 .. k PROVE c[m + i] = u[i]
  <2>1. m + i \in 1 .. (m + k) /\ ~ (m + i <= m) /\ (m + i) - m = i  OBVIOUS
  <2> QED  BY <1>3, <2>1
<1>6. Joins(c, s, u)  BY <1>2, <1>3, <1>4, <1>5 DEF Joins
<1> QED  BY <1>1, <1>3, <1>6, WeightOfParts

LEMMA WeightOfOne ==
  ASSUME NEW S, NEW weight \in [S -> Nat], NEW e \in S
  PROVE  Weight(<<e>>, weight) = weight[e]
<1>1. <<e>> \in Seq(S) /\ Len(<<e>>) = 1 /\ <<e>>[1] = e  OBVIOUS
<1>2. PICK u : u = <<e>>  OBVIOUS
<1>3. /\ WeightUpTo(u, weight)[0] = 0
      /\ WeightUpTo(u, weight)[1] = WeightUpTo(u, weight)[0] + weight[u[1]]
      /\ Weight(u, weight) = WeightUpTo(u, weight)[1]
  <2>1. 1 \in 1 .. Len(u) /\ u \in Seq(S) /\ Len(u) = 1 /\ 1 - 1 = 0  BY <1>1, <1>2
  <2> QED  BY <2>1, WeightStep
<1>4. weight[u[1]] = weight[e] /\ weight[e] \in Nat  BY <1>1, <1>2
<1> QED  BY <1>2, <1>3, <1>4

LEMMA WeightAppend ==
  ASSUME NEW S, NEW weight \in [S -> Nat], NEW s \in Seq(S), NEW e \in S
  PROVE  Weight(Append(s, e), weight) = Weight(s, weight) + weight[e]
<1>1. Append(s, e) = s \o <<e>> /\ <<e>> \in Seq(S)  BY AppendIsConcat
<1> QED  BY <1>1, WeightOfTwo, WeightOfOne

\* A list cut in two.
LEMMA WeightSplit ==
  ASSUME NEW S, NEW weight \in [S -> Nat], NEW s \in Seq(S), NEW n \in 0 .. Len(s)
  PROVE  Weight(s, weight) =
           Weight(SubSeq(s, 1, n), weight) + Weight(SubSeq(s, n + 1, Len(s)), weight)
<1>1. PICK p, q : p = SubSeq(s, 1, n) /\ q = SubSeq(s, n + 1, Len(s))  OBVIOUS
<1>0. LET r == SubSeq(s, 1, n)
      IN  r \in Seq(S) /\ Len(r) = n /\ \A i \in 1 .. n : r[i] = s[i]
  OBVIOUS
<1>2. p \in Seq(S) /\ Len(p) = n /\ \A i \in 1 .. n : p[i] = s[i]
  BY <1>0, <1>1
<1>3. q \in Seq(S) /\ Len(q) = Len(s) - n /\ \A i \in 1 .. (Len(s) - n) : q[i] = s[n + i]
  BY <1>1, EndOfList
<1>4. PICK k \in Nat : k = Len(s)  OBVIOUS
<1>5. Len(s) = Len(p) + Len(q)  BY <1>2, <1>3, <1>4
<1>6. \A i \in 1 .. Len(p) : s[i] = p[i]  BY <1>2
<1>7. \A i \in 1 .. Len(q) : s[Len(p) + i] = q[i]  BY <1>2, <1>3
<1>8. Joins(s, p, q)  BY <1>5, <1>6, <1>7 DEF Joins
<1>9. Weight(s, weight) = Weight(p, weight) + Weight(q, weight)
  BY <1>2, <1>3, <1>8, WeightOfParts
<1> QED  BY <1>1, <1>9

\* How many elements of a list are in a set is the sum of a weight of 1 for each.
Indicator(S, Q) == [e \in S |-> IF e \in Q THEN 1 ELSE 0]

LEMMA CountOf ==
  ASSUME NEW S, NEW Q, NEW s \in Seq(S)
  PROVE  /\ IsFiniteSet({ i \in DOMAIN s : s[i] \in Q })
         /\ Cardinality({ i \in DOMAIN s : s[i] \in Q }) = Weight(s, Indicator(S, Q))
<1>1. PICK w \in [S -> Nat] : w = Indicator(S, Q)  BY DEF Indicator
<1>2. PICK k \in Nat : k = Len(s) /\ DOMAIN s = 1 .. k  OBVIOUS
<1>3. PICK f : f = WeightUpTo(s, w)  OBVIOUS
<1>4. /\ f[0] = 0 /\ f[k] = Weight(s, w)
      /\ \A n \in 1 .. k : f[n] = f[n - 1] + w[s[n]]
  BY <1>2, <1>3, WeightStep
<1> DEFINE in(n) == { i \in 1 .. n : s[i] \in Q }
           T == { n \in 0 .. k : IsFiniteSet(in(n)) /\ Cardinality(in(n)) = f[n] }
<1>5. 0 \in T
  <2>1. in(0) = {}  OBVIOUS
  <2> HIDE DEF in
  <2> QED  BY <1>4, <2>1, FS_EmptySet
<1>6. ASSUME NEW n \in 1 .. k, n - 1 \in T PROVE n \in T
  <2>1. IsFiniteSet(in(n - 1)) /\ Cardinality(in(n - 1)) = f[n - 1] /\ n \in 0 .. k  BY <1>6
  <2>2. s[n] \in S /\ f[n] = f[n - 1] + w[s[n]]  BY <1>2, <1>4
  <2>3. CASE s[n] \in Q
    <3>1. in(n) = in(n - 1) \cup {n} /\ n \notin in(n - 1)  BY <2>3
    <3>2. f[n] = f[n - 1] + 1  BY <1>1, <2>2, <2>3 DEF Indicator
    <3>3. PICK A : A = in(n - 1)  OBVIOUS
    <3>4. PICK B : B = in(n)  OBVIOUS
    <3>5. IsFiniteSet(A) /\ Cardinality(A) = f[n - 1] /\ B = A \cup {n} /\ n \notin A
      BY <2>1, <3>1, <3>3, <3>4
    <3>6. IsFiniteSet(A \cup {n}) /\ Cardinality(A \cup {n}) = Cardinality(A) + 1
      BY <3>5, FS_AddElement
    <3>7. IsFiniteSet(B) /\ Cardinality(B) = f[n]  BY <3>2, <3>5, <3>6
    <3> QED  BY <2>1, <3>4, <3>7
  <2>4. CASE s[n] \notin Q
    <3>1. in(n) = in(n - 1)  BY <2>4
    <3>2. f[n] = f[n - 1]
      <4>1. Cardinality(in(n - 1)) \in Nat  BY <2>1, FS_CardinalityType
      <4>2. w[s[n]] = 0  BY <1>1, <2>2, <2>4 DEF Indicator
      <4> HIDE DEF in
      <4> QED  BY <2>1, <2>2, <4>1, <4>2
    <3> HIDE DEF in
    <3> QED  BY <2>1, <3>1, <3>2
  <2> QED  BY <2>3, <2>4
<1> HIDE DEF T
<1>7. \A n \in 0 .. k : n \in T  BY <1>5, <1>6, InductionUpTo
<1>8. k \in T  BY <1>7
<1>9. IsFiniteSet(in(k)) /\ Cardinality(in(k)) = f[k]  BY <1>8 DEF T
<1> QED  BY <1>1, <1>2, <1>4, <1>9

\* How many pairs of a place in a list and something the element there has is
\* the sum of how many of them each element has.
HaveAll(s, has, weight) ==
  \A i \in DOMAIN s : IsFiniteSet(has[i]) /\ Cardinality(has[i]) = weight[s[i]]

Pairs(s, has) == UNION { {i} \X has[i] : i \in DOMAIN s }

LEMMA CountPairs ==
  ASSUME NEW S, NEW has, NEW weight \in [S -> Nat], NEW s \in Seq(S), HaveAll(s, has, weight)
  PROVE  /\ IsFiniteSet(Pairs(s, has))
         /\ Cardinality(Pairs(s, has)) = Weight(s, weight)
<1>1. PICK k \in Nat : k = Len(s) /\ DOMAIN s = 1 .. k  OBVIOUS
<1>2. PICK f : f = WeightUpTo(s, weight)  OBVIOUS
<1>3. /\ f[0] = 0 /\ f[k] = Weight(s, weight)
      /\ \A n \in 1 .. k : f[n] = f[n - 1] + weight[s[n]]
  BY <1>1, <1>2, WeightStep
<1> DEFINE upto(n) == UNION { {i} \X has[i] : i \in 1 .. n }
           T == { n \in 0 .. k : IsFiniteSet(upto(n)) /\ Cardinality(upto(n)) = f[n] }
<1>4. 0 \in T
  <2>1. upto(0) = {}  OBVIOUS
  <2> HIDE DEF upto
  <2>2. IsFiniteSet(upto(0)) /\ Cardinality(upto(0)) = 0  BY <2>1, FS_EmptySet
  <2> QED  BY <1>3, <2>2
<1>5. ASSUME NEW n \in 1 .. k, n - 1 \in T PROVE n \in T
  <2>1. IsFiniteSet(upto(n - 1)) /\ Cardinality(upto(n - 1)) = f[n - 1] /\ n \in 0 .. k  BY <1>5
  <2>2. f[n] = f[n - 1] + weight[s[n]]  BY <1>3
  <2>3. IsFiniteSet(has[n]) /\ Cardinality(has[n]) = weight[s[n]]  BY <1>1 DEF HaveAll
  <2>4. PICK row : row = {n} \X has[n]  OBVIOUS
  <2>5. IsFiniteSet(row) /\ Cardinality(row) = Cardinality(has[n])
    <3>1. IsFiniteSet({n}) /\ Cardinality({n}) = 1  BY FS_Singleton
    <3>2. Cardinality(has[n]) \in Nat  BY <2>3, FS_CardinalityType
    <3>3. IsFiniteSet(row) /\ Cardinality(row) = 1 * Cardinality(has[n])
      BY <2>3, <2>4, <3>1, FS_Product
    <3> QED  BY <3>2, <3>3
  <2>6. upto(n) = upto(n - 1) \cup row
    <3>1. 1 .. n = (1 .. (n - 1)) \cup {n}  OBVIOUS
    <3> QED  BY <2>4, <3>1
  <2>7. upto(n - 1) \cap row = {}
    <3>1. \A p \in upto(n - 1) : p[1] \in 1 .. (n - 1)  OBVIOUS
    <3>2. \A p \in row : p[1] = n  BY <2>4
    <3>3. n \notin 1 .. (n - 1)  OBVIOUS
    <3> HIDE DEF upto
    <3> QED  BY <3>1, <3>2, <3>3
  <2> HIDE DEF upto
  <2>8. /\ IsFiniteSet(upto(n))
        /\ Cardinality(upto(n)) = Cardinality(upto(n - 1)) + Cardinality(row) - Cardinality(upto(n - 1) \cap row)
    <3>1. PICK A : A = upto(n - 1)  OBVIOUS
    <3>2. IsFiniteSet(A) /\ IsFiniteSet(row)  BY <2>1, <2>5, <3>1
    <3>3. /\ IsFiniteSet(A \cup row)
          /\ Cardinality(A \cup row) = Cardinality(A) + Cardinality(row) - Cardinality(A \cap row)
      BY <3>2, FS_Union
    <3> QED  BY <2>6, <3>1, <3>3
  <2>9. Cardinality(upto(n - 1) \cap row) = 0  BY <2>7, FS_EmptySet
  <2>10. Cardinality(upto(n - 1)) \in Nat /\ Cardinality(row) \in Nat
    BY <2>1, <2>5, FS_CardinalityType
  <2>11. Cardinality(upto(n)) = f[n]  BY <2>1, <2>2, <2>3, <2>5, <2>8, <2>9, <2>10
  <2> QED  BY <2>1, <2>8, <2>11
<1> HIDE DEF T
<1>6. \A n \in 0 .. k : n \in T  BY <1>4, <1>5, InductionUpTo
<1>7. k \in T  BY <1>6
<1>8. IsFiniteSet(upto(k)) /\ Cardinality(upto(k)) = f[k]  BY <1>7 DEF T
<1>9. Pairs(s, has) = upto(k)  BY <1>1 DEF Pairs
<1> QED  BY <1>1, <1>3, <1>8, <1>9

\* The sums never fall.
LEMMA WeightGrows ==
  ASSUME NEW S, NEW weight \in [S -> Nat], NEW s \in Seq(S), NEW n \in 0 .. Len(s)
  PROVE  WeightUpTo(s, weight)[n] <= Weight(s, weight)
<1>1. PICK u \in Seq(Charges) : u = Weighed(s, weight) /\ Len(u) = Len(s)  BY WeighedType
<1>2. PICK k \in Nat : k = Len(s)  OBVIOUS
<1>3. n \in 0 .. Len(u) /\ k \in n .. Len(u)  BY <1>1, <1>2
<1>4. TotalsUpTo(u)[n] <= TotalsUpTo(u)[k]  BY <1>3, TotalsGrow, ChargesAreNat
<1> QED  BY <1>1, <1>2, <1>4 DEF WeightUpTo, Weight, TotalAdc

-----------------------------------------------------------------------------
(* Counting hits *)

\* How often each channel is in a list of channels.
HitsOn(channels) == [c \in Nat |-> Weight(channels, Indicator(Nat, {c}))]

LEMMA IndicatorType ==
  ASSUME NEW S, NEW Q
  PROVE  Indicator(S, Q) \in [S -> Nat]
BY DEF Indicator

\* A number of hits for each channel.
Tallies == [Nat -> Nat]

LEMMA HitsOnType ==
  ASSUME NEW channels \in Seq(Nat)
  PROVE  HitsOn(channels) \in Tallies
<1>1. ASSUME NEW c \in Nat PROVE Weight(channels, Indicator(Nat, {c})) \in Nat
  BY IndicatorType, WeightStep
<1> QED  BY <1>1 DEF HitsOn, Tallies

\* A channel has hits when it is in the list.
LEMMA HitsOnSome ==
  ASSUME NEW channels \in Seq(Nat), NEW c \in Nat
  PROVE  HitsOn(channels)[c] # 0 <=> \E j \in DOMAIN channels : channels[j] = c
<1>1. PICK on : on = { j \in DOMAIN channels : channels[j] \in {c} }  OBVIOUS
<1>2. IsFiniteSet(on) /\ Cardinality(on) = HitsOn(channels)[c]
  BY <1>1, CountOf DEF HitsOn
<1>3. Cardinality(on) = 0 <=> on = {}  BY <1>2, FS_EmptySet
<1> QED  BY <1>1, <1>2, <1>3

\* Maps of counts, and what every ++ and -- leaves is one.
LEMMA CountMapType ==
  ASSUME NEW S, NEW states \in CountMaps(S)
  PROVE  /\ DOMAIN states \subseteq S
         /\ \A c \in DOMAIN states : states[c] \in 0 .. CountModulus - 1
         /\ \A c : hits(states, c) \in 0 .. CountModulus - 1
<1>1. PICK chs \in SUBSET S : states \in [chs -> 0 .. CountModulus - 1]  BY DEF CountMaps
<1>2. DOMAIN states \subseteq S /\ \A c \in DOMAIN states : states[c] \in 0 .. CountModulus - 1
  BY <1>1
<1>3. 0 \in 0 .. CountModulus - 1  BY ChannelStatesAssumption
<1> QED  BY <1>2, <1>3 DEF hits

LEMMA CountMapsGrow ==
  ASSUME NEW S, NEW T, S \subseteq T
  PROVE  CountMaps(S) \subseteq CountMaps(T)
BY DEF CountMaps

LEMMA EmptyMapType ==
  ASSUME NEW S
  PROVE  <<>> \in CountMaps(S)
<1>1. <<>> \in [{} -> 0 .. CountModulus - 1] /\ {} \in SUBSET S  OBVIOUS
<1> QED  BY <1>1 DEF CountMaps

LEMMA HitType ==
  ASSUME NEW S, NEW states \in CountMaps(S), NEW ch \in S
  PROVE  hit(states, ch) \in CountMaps(S) /\ unhit(states, ch) \in CountMaps(S)
<1>1. PICK D \in SUBSET S : D = DOMAIN states  BY CountMapType
<1>2. \A c \in D : states[c] \in 0 .. CountModulus - 1  BY <1>1, CountMapType
<1>3. hits(states, ch) \in 0 .. CountModulus - 1  BY CountMapType
<1>4. UIntPlus(hits(states, ch), 1, CountModulus) \in 0 .. CountModulus - 1
  BY <1>3, ChannelStatesAssumption DEF UIntPlus
<1>5. PICK left \in 0 .. CountModulus - 1 : left = UIntMinus(hits(states, ch), 1, CountModulus)
  <2>1. UIntMinus(hits(states, ch), 1, CountModulus) \in 0 .. CountModulus - 1
    BY <1>3, ChannelStatesAssumption DEF UIntMinus
  <2> QED  BY <2>1
<1>6. hit(states, ch) \in [D \cup {ch} -> 0 .. CountModulus - 1]
  BY <1>1, <1>2, <1>4 DEF hit
<1>7. CASE left = 0
  <2>1. unhit(states, ch) \in [D \ {ch} -> 0 .. CountModulus - 1]
    BY <1>1, <1>2, <1>5, <1>7 DEF unhit
  <2>2. D \cup {ch} \in SUBSET S /\ D \ {ch} \in SUBSET S  BY <1>1
  <2> QED  BY <1>6, <2>1, <2>2 DEF CountMaps
<1>8. CASE left # 0
  <2>1. unhit(states, ch) \in [D \cup {ch} -> 0 .. CountModulus - 1]
    BY <1>1, <1>2, <1>5, <1>8 DEF unhit
  <2>2. D \cup {ch} \in SUBSET S  BY <1>1
  <2> QED  BY <1>6, <2>1, <2>2 DEF CountMaps
<1> QED  BY <1>7, <1>8

\* A map of counts says what a tally f says, as far as 16 bits can: a channel without
\* a hit is not in it.
Counted(states, f) ==
  /\ states \in CountMaps(Nat)
  /\ \A c \in Nat : hits(states, c) = f[c] % CountModulus
  /\ \A c \in DOMAIN states : f[c] > 0

\* Two tallies are the same, or one has one more hit than the other.
Same(g, f) == \A c \in Nat : g[c] = f[c]
OneMore(g, f, ch) == \A c \in Nat : g[c] = f[c] + (IF ch = c THEN 1 ELSE 0)

\* Before any hit the map is empty.
LEMMA NoneCounted ==
  ASSUME NEW f, \A c \in Nat : f[c] = 0
  PROVE  Counted(<<>>, f)
<1>1. DOMAIN <<>> = {}  OBVIOUS
<1>2. 0 % CountModulus = 0  BY ChannelStatesAssumption
<1> QED  BY <1>1, <1>2, EmptyMapType DEF Counted, hits

LEMMA CountedIsOne ==
  ASSUME NEW states, NEW f, Counted(states, f), NEW g, Same(g, f)
  PROVE  Counted(states, g)
<1>1. DOMAIN states \subseteq Nat  BY CountMapType DEF Counted
<1> QED  BY <1>1 DEF Counted, Same

\* Where no count has wrapped, the map holds the channels with hits.
LEMMA CountedSmall ==
  ASSUME NEW f \in Tallies, NEW states, Counted(states, f),
         NEW c \in Nat, f[c] < CountModulus
  PROVE  /\ c \in DOMAIN states <=> f[c] # 0
         /\ c \in DOMAIN states => states[c] = f[c]
<1>1. PICK k \in Nat : k = f[c]  BY DEF Tallies
<1>2. k % CountModulus = k  BY <1>1, ChannelStatesAssumption
<1>3. hits(states, c) = k  BY <1>1, <1>2 DEF Counted
<1> QED  BY <1>1, <1>3 DEF Counted, hits

LEMMA HitCounts ==
  ASSUME NEW f \in Tallies, NEW states, Counted(states, f), NEW ch \in Nat,
         NEW g, OneMore(g, f, ch)
  PROVE  Counted(hit(states, ch), g)
<1>1. PICK t : t = hit(states, ch)  OBVIOUS
<1>2. t \in CountMaps(Nat)  BY <1>1, HitType DEF Counted
<1>3. DOMAIN states \subseteq Nat  BY CountMapType DEF Counted
<1>4. PICK k \in Nat : k = f[ch] /\ g[ch] = k + 1  BY DEF OneMore, Tallies
<1>5. UIntPlus(hits(states, ch), 1, CountModulus) = (k + 1) % CountModulus
  <2>1. hits(states, ch) = k % CountModulus  BY <1>4 DEF Counted
  <2>2. ((k % CountModulus) + 1) % CountModulus = (k + 1) % CountModulus
    <3>1. k \in Int /\ 1 \in Int  OBVIOUS
    <3> QED  BY <3>1, ModPlus, ChannelStatesAssumption
  <2> QED  BY <2>1, <2>2 DEF UIntPlus
<1>6. t = [c \in DOMAIN states \cup {ch} |->
             IF c = ch THEN (k + 1) % CountModulus ELSE states[c]]
  BY <1>1, <1>5 DEF hit
<1>7. ASSUME NEW c \in Nat, c # ch PROVE f[c] \in Nat /\ g[c] = f[c]
  <2>1. f[c] \in Nat  BY DEF Tallies
  <2> QED  BY <1>7, <2>1 DEF OneMore
<1>8. ASSUME NEW c \in Nat PROVE hits(t, c) = g[c] % CountModulus
  <2>1. CASE c = ch
    <3>1. hits(t, c) = (k + 1) % CountModulus  BY <1>6, <2>1 DEF hits
    <3> QED  BY <1>4, <2>1, <3>1
  <2>2. CASE c # ch
    <3>1. hits(t, c) = hits(states, c)  BY <1>6, <2>2 DEF hits
    <3> QED  BY <1>7, <2>2, <3>1 DEF Counted
  <2> QED  BY <2>1, <2>2
<1>9. ASSUME NEW c \in DOMAIN t PROVE g[c] > 0
  <2>1. c = ch \/ (c # ch /\ c \in DOMAIN states)  BY <1>6
  <2>2. CASE c = ch  BY <1>4, <2>2
  <2>3. CASE c # ch /\ c \in DOMAIN states
    <3>1. g[c] = f[c] /\ f[c] > 0  BY <1>3, <1>7, <2>3 DEF Counted
    <3> QED  BY <3>1
  <2> QED  BY <2>1, <2>2, <2>3
<1> QED  BY <1>1, <1>2, <1>8, <1>9 DEF Counted

LEMMA UnhitCounts ==
  ASSUME NEW f, NEW states, Counted(states, f), NEW ch \in Nat,
         NEW g \in Tallies, OneMore(f, g, ch)
  PROVE  Counted(unhit(states, ch), g)
<1>1. PICK t : t = unhit(states, ch)  OBVIOUS
<1>2. t \in CountMaps(Nat)  BY <1>1, HitType DEF Counted
<1>3. DOMAIN states \subseteq Nat  BY CountMapType DEF Counted
<1>4. PICK k \in Nat : k = g[ch] /\ f[ch] = k + 1  BY DEF OneMore, Tallies
<1>5. UIntMinus(hits(states, ch), 1, CountModulus) = k % CountModulus
  <2>1. PICK h \in 0 .. CountModulus - 1 : h = hits(states, ch)  BY CountMapType DEF Counted
  <2>2. h = (k + 1) % CountModulus  BY <1>4, <2>1 DEF Counted
  <2>3. (h + (-1)) % CountModulus = k % CountModulus
    <3>1. (((k + 1) % CountModulus) + (-1)) % CountModulus = ((k + 1) + (-1)) % CountModulus
      <4>1. k + 1 \in Int /\ -1 \in Int  OBVIOUS
      <4> QED  BY <4>1, ModPlus, ChannelStatesAssumption
    <3> QED  BY <2>2, <3>1
  <2>4. CASE h >= 1
    <3>1. (h + (-1)) % CountModulus = h - 1  BY <2>4, ChannelStatesAssumption
    <3> QED  BY <2>1, <2>3, <2>4, <3>1 DEF UIntMinus
  <2>5. CASE h = 0
    <3>1. (-1) % CountModulus = CountModulus - 1  BY ChannelStatesAssumption
    <3>2. UIntMinus(h, 1, CountModulus) = CountModulus - 1
      BY <2>5, ChannelStatesAssumption DEF UIntMinus
    <3>3. (h + (-1)) % CountModulus = CountModulus - 1  BY <2>5, <3>1
    <3> QED  BY <2>1, <2>3, <3>2, <3>3
  <2> QED  BY <2>4, <2>5
<1>6. hits(t, ch) = k % CountModulus
  <2>1. CASE k % CountModulus = 0
    <3>1. t = [c \in DOMAIN states \ {ch} |-> states[c]]  BY <1>1, <1>5, <2>1 DEF unhit
    <3> QED  BY <2>1, <3>1 DEF hits
  <2>2. CASE k % CountModulus # 0
    <3>1. t = [c \in DOMAIN states \cup {ch} |-> IF c = ch THEN k % CountModulus ELSE states[c]]
      BY <1>1, <1>5, <2>2 DEF unhit
    <3> QED  BY <3>1 DEF hits
  <2> QED  BY <2>1, <2>2
<1>7. ASSUME NEW c \in Nat, c # ch PROVE g[c] \in Nat /\ g[c] = f[c]
  <2>1. g[c] \in Nat  BY DEF Tallies
  <2> QED  BY <1>7, <2>1 DEF OneMore
<1>8. ASSUME NEW c \in Nat PROVE hits(t, c) = g[c] % CountModulus
  <2>1. CASE c = ch  BY <1>4, <1>6, <2>1
  <2>2. CASE c # ch
    <3>1. hits(t, c) = hits(states, c)  BY <1>1, <2>2 DEF hits, unhit
    <3> QED  BY <1>7, <2>2, <3>1 DEF Counted
  <2> QED  BY <2>1, <2>2
<1>9. ASSUME NEW c \in DOMAIN t PROVE g[c] > 0
  <2>1. c \in DOMAIN states \cup {ch}  BY <1>1 DEF unhit
  <2>2. CASE c # ch
    <3>1. c \in Nat /\ f[c] > 0  BY <1>3, <2>1, <2>2 DEF Counted
    <3> QED  BY <1>7, <2>2, <3>1
  <2>3. CASE c = ch
    <3>1. k # 0
      <4>1. k % CountModulus # 0  BY <1>1, <1>5, <2>3 DEF unhit
      <4>2. 0 % CountModulus = 0  BY ChannelStatesAssumption
      <4> QED  BY <4>1, <4>2
    <3> QED  BY <1>4, <2>3, <3>1
  <2> QED  BY <2>2, <2>3
<1> QED  BY <1>1, <1>2, <1>8, <1>9 DEF Counted

=============================================================================
