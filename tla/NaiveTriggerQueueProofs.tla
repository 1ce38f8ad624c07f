------------------------ MODULE NaiveTriggerQueueProofs ------------------------
(***************************************************************************)
(* The threads of the demonstration program, for every capacity of the     *)
(* queue, any number of TPs and of tries: no TP is lost, repeated or       *)
(* reordered between them, and the worker stops when told.                 *)
(***************************************************************************)
EXTENDS NaiveTriggerQueue, SequenceTheorems, WellFoundedInduction, TLAPS

\* Induction, with a set in the place of a predicate: a set of naturals with 0
\* and all successors is all of them.
LEMMA NaturalsBySuccessor ==
  ASSUME NEW T, T \subseteq Nat, 0 \in T, \A n \in T : n + 1 \in T
  PROVE  T = Nat
<1> DEFINE R == { ss \in Nat \X Nat : ss[1] < ss[2] }
           Rest == Nat \ T
<1>1. IsWellFoundedOn(R, Nat)  BY NatLessThanWellFounded DEF OpToRel
<1> SUFFICES ASSUME Rest # {} PROVE FALSE
  OBVIOUS
<1> HIDE DEF R
<1>2. PICK m \in Rest : \A k \in Rest : ~ (<<k, m>> \in R)
  BY <1>1, WFMin
<1>3. m - 1 \in Rest /\ m - 1 < m /\ m \in Nat /\ m - 1 \in Nat  OBVIOUS
<1>4. <<m - 1, m>> \in R
  <2>1. <<m - 1, m>> \in Nat \X Nat /\ <<m - 1, m>>[1] = m - 1 /\ <<m - 1, m>>[2] = m
    BY <1>3
  <2> QED  BY <1>3, <2>1 DEF R
<1> QED  BY <1>2, <1>3, <1>4

-----------------------------------------------------------------------------
(* Flattening a list of sequences *)

\* Whether a middle part is counted with what is before it or what is behind it.
Associates(a, b, c) == (a \o b) \o c = a \o (b \o c)

LEMMA ConcatAssociates ==
  ASSUME NEW S
  PROVE  \A a, b, c \in Seq(S) : Associates(a, b, c)
BY ConcatAssociative DEF Associates

\* What flattening builds, element after element, and which k elements define.
Flattens(f, list, k) ==
  f = [i \in 1 .. k |-> IF i = 1 THEN list[i] ELSE f[i - 1] \o list[i]]

Flattened(list) == CHOOSE f : Flattens(f, list, Len(list))

\* FlattenSeq's recursion has a solution on every list.
LEMMA FlattenedDefined ==
  ASSUME NEW list, Len(list) \in Nat
  PROVE  Flattens(Flattened(list), list, Len(list))
<1> DEFINE T == { k \in Nat : \E f : Flattens(f, list, k) }
<1>1. 0 \in T
  <2>1. Flattens([i \in 1 .. 0 |-> list[i]], list, 0)  BY DEF Flattens
  <2> QED  BY <2>1
<1>2. ASSUME NEW k \in T PROVE k + 1 \in T
  <2>1. PICK f : Flattens(f, list, k)  OBVIOUS
  <2> DEFINE new == IF k = 0 THEN list[1] ELSE f[k] \o list[k + 1]
             g == [i \in 1 .. (k + 1) |-> IF i = k + 1 THEN new ELSE f[i]]
  <2>2. ASSUME NEW i \in 1 .. (k + 1)
        PROVE  g[i] = IF i = 1 THEN list[i] ELSE g[i - 1] \o list[i]
    <3>1. CASE i = k + 1 /\ k = 0  BY <3>1
    <3>2. CASE i = k + 1 /\ k # 0
      <4>1. i - 1 = k /\ k \in 1 .. (k + 1) /\ k # k + 1 /\ i # 1  BY <3>2
      <4>2. g[k] = f[k]  BY <4>1
      <4>3. g[i] = f[k] \o list[k + 1]  BY <3>2
      <4> QED  BY <3>2, <4>1, <4>2, <4>3
    <3>3. CASE i # k + 1
      <4>1. i \in 1 .. k /\ g[i] = f[i]  BY <3>3
      <4>2. f[i] = IF i = 1 THEN list[i] ELSE f[i - 1] \o list[i]
        BY <2>1, <4>1 DEF Flattens
      <4>3. CASE i = 1  BY <4>1, <4>2, <4>3
      <4>4. CASE i # 1
        <5>1. i - 1 \in 1 .. (k + 1) /\ i - 1 # k + 1  BY <4>1, <4>4
        <5>2. g[i - 1] = f[i - 1]  BY <5>1
        <5> QED  BY <4>1, <4>2, <4>4, <5>2
      <4> QED  BY <4>3, <4>4
    <3> QED  BY <3>1, <3>2, <3>3
  <2>3. Flattens(g, list, k + 1)
    <3> HIDE DEF g
    <3>1. g = [i \in 1 .. (k + 1) |-> g[i]]  BY DEF g
    <3> QED  BY <2>2, <3>1 DEF Flattens
  <2>4. k + 1 \in Nat  OBVIOUS
  <2> HIDE DEF g
  <2> QED  BY <2>3, <2>4
<1>3. Len(list) \in T
  <2> HIDE DEF T
  <2>1. T = Nat
    <3>1. T \subseteq Nat  BY DEF T
    <3> QED  BY <1>1, <1>2, <3>1, NaturalsBySuccessor
  <2> QED  BY <2>1
<1>4. PICK f : Flattens(f, list, Len(list))  BY <1>3
<1> QED  BY <1>4 DEF Flattened

\* So it starts with the first element and goes on with one at a time.
LEMMA FlattenedStep ==
  ASSUME NEW list, Len(list) \in Nat
  PROVE  \A i \in 1 .. Len(list) :
           Flattened(list)[i] = IF i = 1 THEN list[i] ELSE Flattened(list)[i - 1] \o list[i]
<1>1. PICK f : f = Flattened(list)  OBVIOUS
<1>2. f = [i \in 1 .. Len(list) |-> IF i = 1 THEN list[i] ELSE f[i - 1] \o list[i]]
  BY <1>1, FlattenedDefined DEF Flattens
<1>3. \A i \in 1 .. Len(list) : f[i] = IF i = 1 THEN list[i] ELSE f[i - 1] \o list[i]
  BY <1>2
<1> QED  BY <1>1, <1>3

\* FlattenSeq() is its last value.
LEMMA FlattenIs ==
  ASSUME NEW list, Len(list) \in Nat
  PROVE  FlattenSeq(list) = IF Len(list) = 0 THEN list ELSE Flattened(list)[Len(list)]
BY DEF FlattenSeq, Flattened, Flattens

LEMMA FlattenedType ==
  ASSUME NEW S, NEW list \in Seq(Seq(S))
  PROVE  \A i \in 1 .. Len(list) : Flattened(list)[i] \in Seq(S)
<1> DEFINE f == Flattened(list)
           T == { n \in Nat : n \in 1 .. Len(list) => f[n] \in Seq(S) }
<1>1. \A i \in 1 .. Len(list) : f[i] = IF i = 1 THEN list[i] ELSE f[i - 1] \o list[i]
  BY FlattenedStep
<1>2. \A i \in 1 .. Len(list) : list[i] \in Seq(S)  OBVIOUS
<1> HIDE DEF f
<1>3. 0 \in T  OBVIOUS
<1>4. ASSUME NEW n \in T PROVE n + 1 \in T
  <2>1. PICK k \in Nat : k = n + 1  OBVIOUS
  <2>2. CASE k \in 1 .. Len(list) /\ k = 1  BY <1>1, <1>2, <2>1, <2>2
  <2>3. CASE k \in 1 .. Len(list) /\ k # 1
    <3>1. n \in 1 .. Len(list) /\ k - 1 = n  BY <2>1, <2>3
    <3>2. f[n] \in Seq(S) /\ list[k] \in Seq(S) /\ f[k] = f[n] \o list[k]
      BY <1>1, <1>2, <2>3, <3>1
    <3>3. f[k] \in Seq(S)  BY <3>2, ConcatProperties
    <3> QED  BY <2>1, <3>3
  <2>4. CASE k \notin 1 .. Len(list)  BY <2>1, <2>4
  <2> QED  BY <2>2, <2>3, <2>4
<1>5. T = Nat
  <2>1. T \subseteq Nat  OBVIOUS
  <2> HIDE DEF T
  <2> QED  BY <1>3, <1>4, <2>1, NaturalsBySuccessor
<1> QED  BY <1>5 DEF f

\* A list of sequences flattens to a sequence: none to nothing, one to itself.
LEMMA FlattenType ==
  ASSUME NEW S, NEW list \in Seq(Seq(S))
  PROVE  FlattenSeq(list) \in Seq(S)
<1>1. Len(list) \in Nat  OBVIOUS
<1>2. CASE Len(list) = 0
  <2>1. list = <<>>  BY <1>2, EmptySeq
  <2>2. FlattenSeq(list) = <<>>  BY <1>1, <1>2, <2>1, FlattenIs
  <2> QED  BY <2>2, EmptySeq
<1>3. CASE Len(list) # 0
  <2>1. Len(list) \in 1 .. Len(list)  BY <1>1, <1>3
  <2> QED  BY <1>1, <1>3, <2>1, FlattenIs, FlattenedType
<1> QED  BY <1>2, <1>3

LEMMA FlattenNone == FlattenSeq(<<>>) = <<>>
<1>1. Len(<<>>) = 0  OBVIOUS
<1> QED  BY <1>1, FlattenIs

LEMMA FlattenOne ==
  ASSUME NEW S, NEW s \in Seq(S)
  PROVE  FlattenSeq(<<s>>) = s
<1>1. PICK list : list = <<s>>  OBVIOUS
<1>2. Len(list) = 1 /\ list[1] = s /\ 1 \in 1 .. 1  BY <1>1
<1>3. Flattened(list)[1] = s  BY <1>2, FlattenedStep
<1>4. FlattenSeq(list) = s
  <2>1. Len(list) \in Nat /\ Len(list) # 0  BY <1>2
  <2>2. FlattenSeq(list) = Flattened(list)[Len(list)]  BY <2>1, FlattenIs
  <2> QED  BY <1>2, <1>3, <2>2
<1> QED  BY <1>1, <1>4

\* The first elements of a longer list flatten as they do alone.
LEMMA FlattenedPrefix ==
  ASSUME NEW S, NEW s \in Seq(Seq(S)), NEW t \in Seq(Seq(S))
  PROVE  \A i \in 1 .. Len(s) : Flattened(s \o t)[i] = Flattened(s)[i]
<1>1. PICK u : u = s \o t  OBVIOUS
<1>2. /\ u \in Seq(Seq(S)) /\ Len(u) = Len(s) + Len(t) /\ Len(s) \in Nat /\ Len(t) \in Nat
      /\ \A i \in 1 .. Len(s) : u[i] = s[i]
  BY <1>1, ConcatProperties
<1>a. Len(u) \in Nat  BY <1>2
<1> DEFINE f == Flattened(u)
           g == Flattened(s)
           T == { n \in Nat : n \in 1 .. Len(s) => f[n] = g[n] }
<1>3. \A i \in 1 .. Len(u) : f[i] = IF i = 1 THEN u[i] ELSE f[i - 1] \o u[i]
  BY <1>a, FlattenedStep
<1>4. \A i \in 1 .. Len(s) : g[i] = IF i = 1 THEN s[i] ELSE g[i - 1] \o s[i]
  BY <1>2, FlattenedStep
<1> HIDE DEF f, g
<1>5. 0 \in T  OBVIOUS
<1>6. ASSUME NEW n \in T PROVE n + 1 \in T
  <2>1. PICK k \in Nat : k = n + 1  OBVIOUS
  <2>2. CASE k \in 1 .. Len(s)
    <3>1. k \in 1 .. Len(u) /\ u[k] = s[k]  BY <1>2, <2>2
    <3>2. CASE k = 1  BY <1>3, <1>4, <2>1, <2>2, <3>1, <3>2
    <3>3. CASE k # 1
      <4>1. n \in 1 .. Len(s) /\ k - 1 = n  BY <2>1, <2>2, <3>3
      <4>2. f[n] = g[n]  BY <4>1
      <4>3. f[k] = f[n] \o u[k] /\ g[k] = g[n] \o s[k]
        BY <1>3, <1>4, <2>2, <3>1, <3>3, <4>1
      <4> QED  BY <2>1, <3>1, <4>2, <4>3
    <3> QED  BY <3>2, <3>3
  <2>3. CASE k \notin 1 .. Len(s)  BY <2>1, <2>3
  <2> QED  BY <2>2, <2>3
<1>7. T = Nat
  <2>1. T \subseteq Nat  OBVIOUS
  <2> HIDE DEF T
  <2> QED  BY <1>5, <1>6, <2>1, NaturalsBySuccessor
<1>8. \A i \in 1 .. Len(s) : f[i] = g[i]
  <2>1. \A i \in 1 .. Len(s) : i \in T
    <3> HIDE DEF T
    <3> QED  BY <1>7
  <2> QED  BY <2>1
<1> QED  BY <1>1, <1>8 DEF f, g

\* What follows them is put behind.
LEMMA FlattenedSuffix ==
  ASSUME NEW S, NEW s \in Seq(Seq(S)), NEW t \in Seq(Seq(S)), s # <<>>
  PROVE  \A i \in 1 .. Len(t) :
           Flattened(s \o t)[Len(s) + i] = Flattened(s)[Len(s)] \o Flattened(t)[i]
<1>1. PICK u : u = s \o t  OBVIOUS
<1>2. PICK m : m = Len(s)  OBVIOUS
<1>3. /\ u \in Seq(Seq(S)) /\ Len(u) = m + Len(t) /\ m \in Nat \ {0} /\ Len(t) \in Nat
      /\ \A i \in 1 .. Len(t) : u[m + i] = t[i]
  <2>1. u \in Seq(Seq(S)) /\ Len(u) = m + Len(t) /\ m \in Nat /\ Len(t) \in Nat
    BY <1>1, <1>2, ConcatProperties
  <2>2. m # 0  BY <1>2, EmptySeq
  <2>3. ASSUME NEW i \in 1 .. Len(t) PROVE u[m + i] = t[i]
    <3>0. PICK b \in Nat : b = Len(t)  BY <2>1
    <3>2. m + i \in 1 .. m + b /\ ~ (m + i <= m) /\ (m + i) - m = i
      <4>1. i \in 1 .. b /\ m \in Nat  BY <2>1, <3>0
      <4> QED  BY <4>1
    <3>1. m + i \in 1 .. Len(s) + Len(t) /\ ~ (m + i <= Len(s)) /\ (m + i) - Len(s) = i
      BY <1>2, <3>0, <3>2
    <3> QED  BY <1>1, <3>1, ConcatProperties
  <2> QED  BY <2>1, <2>2, <2>3
<1>a. Len(u) \in Nat  BY <1>3
<1> DEFINE f == Flattened(u)
           a == Flattened(s)[m]
           g == Flattened(t)
           T == { n \in Nat : n \in 1 .. Len(t) => f[m + n] = a \o g[n] }
<1>4. \A i \in 1 .. Len(u) : f[i] = IF i = 1 THEN u[i] ELSE f[i - 1] \o u[i]
  BY <1>a, FlattenedStep
<1>5. \A i \in 1 .. Len(t) : g[i] = IF i = 1 THEN t[i] ELSE g[i - 1] \o t[i]
  BY <1>3, FlattenedStep
<1>6. f[m] = a
  <2>1. m \in 1 .. Len(s)  BY <1>2, <1>3
  <2> QED  BY <1>1, <2>1, FlattenedPrefix
<1>7. /\ a \in Seq(S) /\ \A i \in 1 .. Len(t) : g[i] \in Seq(S) /\ t[i] \in Seq(S)
  <2>1. m \in 1 .. Len(s)  BY <1>2, <1>3
  <2> QED  BY <2>1, FlattenedType
<1> HIDE DEF f, g, a
<1>8. 0 \in T  OBVIOUS
<1>9. ASSUME NEW n \in T PROVE n + 1 \in T
  <2>1. PICK k \in Nat : k = n + 1  OBVIOUS
  <2>2. CASE k \in 1 .. Len(t)
    <3>1. PICK j \in Nat : j = m + k  BY <1>3
    <3>2. j \in 1 .. Len(u) /\ j # 1 /\ j - 1 = m + n  BY <1>3, <2>1, <2>2, <3>1
    <3>3. f[j] = f[m + n] \o t[k]  BY <1>3, <1>4, <2>2, <3>1, <3>2
    <3>4. CASE k = 1
      <4>1. m + n = m  BY <1>3, <2>1, <3>4
      <4>2. g[k] = t[k]  BY <1>5, <2>2, <3>4
      <4>3. f[j] = a \o g[k]  BY <1>6, <3>3, <4>1, <4>2
      <4> QED  BY <2>1, <3>1, <4>3
    <3>5. CASE k # 1
      <4>1. n \in 1 .. Len(t) /\ k - 1 = n  BY <2>1, <2>2, <3>5
      <4>2. f[m + n] = a \o g[n]  BY <4>1
      <4>3. g[k] = g[n] \o t[k]  BY <1>5, <2>2, <3>5, <4>1
      <4>4. (a \o g[n]) \o t[k] = a \o (g[n] \o t[k])
        <5>1. PICK x \in Seq(S) : x = a  BY <1>7, <2>2
        <5>2. PICK y \in Seq(S) : y = g[n]  BY <1>7, <4>1
        <5>3. PICK z \in Seq(S) : z = t[k]  BY <1>7, <2>2
        <5>4. Associates(x, y, z)  BY ConcatAssociates
        <5> QED  BY <5>1, <5>2, <5>3, <5>4 DEF Associates
      <4>5. f[j] = a \o g[k]  BY <3>3, <4>2, <4>3, <4>4
      <4> QED  BY <2>1, <3>1, <4>5
    <3> QED  BY <3>4, <3>5
  <2>3. CASE k \notin 1 .. Len(t)  BY <2>1, <2>3
  <2> QED  BY <2>2, <2>3
<1>10. T = Nat
  <2>1. T \subseteq Nat  OBVIOUS
  <2> HIDE DEF T
  <2> QED  BY <1>8, <1>9, <2>1, NaturalsBySuccessor
<1>11. \A i \in 1 .. Len(t) : f[m + i] = a \o g[i]
  <2>1. \A i \in 1 .. Len(t) : i \in T
    <3> HIDE DEF T
    <3> QED  BY <1>10
  <2> QED  BY <2>1
<1> QED  BY <1>1, <1>2, <1>11 DEF f, g, a

\* Two lists, one after the other.
LEMMA FlattenConcat ==
  ASSUME NEW S, NEW s \in Seq(Seq(S)), NEW t \in Seq(Seq(S))
  PROVE  FlattenSeq(s \o t) = FlattenSeq(s) \o FlattenSeq(t)
<1>1. FlattenSeq(s) \in Seq(S) /\ FlattenSeq(t) \in Seq(S)  BY FlattenType
<1>2. CASE s = <<>>
  <2>1. s \o t = t  BY <1>2, ConcatEmptySeq
  <2>2. FlattenSeq(s) = <<>>  BY <1>2, FlattenNone
  <2>3. FlattenSeq(s) \o FlattenSeq(t) = FlattenSeq(t)  BY <1>1, <2>2, ConcatEmptySeq
  <2> QED  BY <2>1, <2>3
<1>3. CASE t = <<>>
  <2>1. s \o t = s  BY <1>3, ConcatEmptySeq
  <2>2. FlattenSeq(t) = <<>>  BY <1>3, FlattenNone
  <2>3. FlattenSeq(s) \o FlattenSeq(t) = FlattenSeq(s)  BY <1>1, <2>2, ConcatEmptySeq
  <2> QED  BY <2>1, <2>3
<1>4. CASE s # <<>> /\ t # <<>>
  <2>1. PICK u : u = s \o t  OBVIOUS
  <2>2. Len(s) \in Nat \ {0} /\ Len(t) \in Nat \ {0} /\ Len(u) = Len(s) + Len(t)
    BY <1>4, <2>1, EmptySeq, ConcatProperties
  <2>3. Len(u) \in Nat \ {0} /\ Len(t) \in 1 .. Len(t)  BY <2>2
  <2>4. FlattenSeq(u) = Flattened(u)[Len(u)]  BY <2>3, FlattenIs
  <2>5. FlattenSeq(s) = Flattened(s)[Len(s)] /\ FlattenSeq(t) = Flattened(t)[Len(t)]
    BY <2>2, FlattenIs
  <2>6. Flattened(u)[Len(s) + Len(t)] = Flattened(s)[Len(s)] \o Flattened(t)[Len(t)]
    BY <1>4, <2>1, <2>3, FlattenedSuffix
  <2> QED  BY <2>1, <2>2, <2>4, <2>5, <2>6
<1> QED  BY <1>2, <1>3, <1>4

-----------------------------------------------------------------------------
(* The inductive invariant *)

Lines == [by : {"main", "consumer"}, tc : Seq(TPs)]

SequencesOfTPs ==
  /\ queue_in \in Seq(TPs) /\ cluster \in Seq(TPs) /\ tp \in Seq(TPs) /\ tc \in Seq(TPs)
  /\ last \in Seq(TPs) /\ unread \in Seq(TPs) /\ accepted \in Seq(TPs)
  /\ queue_out \in Seq(Seq(TPs)) /\ tcs \in Seq(Seq(TPs)) /\ file_out \in Seq(Lines)
  /\ n_tps_total \in 0 .. MaxTPs

\* A thread has something in its hands only where it got it and not yet passed it on.
HandsEmpty ==
  /\ worker \notin {"make", "making"} => tp = <<>>
  /\ worker # "push" => tcs = <<>>
  /\ consumer \notin {"load", "store", "write"} => tc = <<>>

\* Once told to stop, the worker is at most one TP further, and none if it is
\* about to take another.
Stopping ==
  /\ process_on \in BOOLEAN
  /\ main \in {"add", "soft_stop", "stop"} => process_on
  /\ ~ process_on =>
       /\ Len(unread) - Len(queue_in) \in 0 .. 1
       /\ worker = "pop" => Len(unread) = Len(queue_in)

Inv == SequencesOfTPs /\ HandsEmpty /\ Stopping /\ EveryTPInItsPlace

-----------------------------------------------------------------------------
(* Moving TPs from one place to the next *)

LEMMA TPsAssociate == \A a, b, c \in Seq(TPs) : Associates(a, b, c)
BY ConcatAssociates

LEMMA PlacesType ==
  ASSUME SequencesOfTPs
  PROVE  /\ ConsumedLines \in Seq(Seq(TPs))
         /\ FlattenSeq(ConsumedLines) \in Seq(TPs) /\ FlattenSeq(queue_out) \in Seq(TPs)
         /\ FlattenSeq(tcs) \in Seq(TPs) /\ cluster \o tp \in Seq(TPs)
         /\ TPsConsumed \in Seq(TPs) /\ TPsInTCs \in Seq(TPs) /\ TPsToCome \in Seq(TPs)
<1>1. <<>> \in Seq(TPs)  BY EmptySeq
<1>2. ConsumedLines \in Seq(Seq(TPs))
  <2>1. \A i \in DOMAIN file_out : file_out[i] \in Lines
    BY DEF SequencesOfTPs
  <2>2. \A i \in DOMAIN file_out :
          (IF file_out[i].by = "consumer" THEN file_out[i].tc ELSE <<>>) \in Seq(TPs)
    BY <1>1, <2>1 DEF Lines
  <2>3. DOMAIN file_out = 1 .. Len(file_out) /\ Len(file_out) \in Nat
    BY DEF SequencesOfTPs
  <2>4. ConsumedLines \in [1 .. Len(file_out) -> Seq(TPs)]  BY <2>2, <2>3 DEF ConsumedLines
  <2> QED  BY <2>3, <2>4
<1>3. /\ FlattenSeq(ConsumedLines) \in Seq(TPs) /\ FlattenSeq(queue_out) \in Seq(TPs)
      /\ FlattenSeq(tcs) \in Seq(TPs)
  BY <1>2, FlattenType DEF SequencesOfTPs
<1>4. cluster \o tp \in Seq(TPs)  BY ConcatProperties DEF SequencesOfTPs
<1>5. TPsConsumed \in Seq(TPs)
  <2>1. tc \in Seq(TPs)  BY DEF SequencesOfTPs
  <2> QED  BY <1>3, <2>1, ConcatProperties DEF TPsConsumed
<1>6. TPsInTCs \in Seq(TPs)  BY <1>3, ConcatProperties DEF TPsInTCs
<1>7. TPsToCome \in Seq(TPs)
  <2>1. queue_in \in Seq(TPs)  BY DEF SequencesOfTPs
  <2> QED  BY <1>4, <2>1, ConcatProperties DEF TPsToCome
<1> QED  BY <1>2, <1>3, <1>4, <1>5, <1>6, <1>7

\* A place nobody touches stays as it is.
LEMMA PlacesKept ==
  /\ UNCHANGED <<file_out, tc>> => TPsConsumed' = TPsConsumed
  /\ UNCHANGED <<queue_out, tcs>> => TPsInTCs' = TPsInTCs
  /\ UNCHANGED <<cluster, tp, queue_in>> => TPsToCome' = TPsToCome
BY DEF TPsConsumed, ConsumedLines, TPsInTCs, TPsToCome

\* A line the consumer writes is added to what it has written, main's line is not.
LEMMA LineWritten ==
  ASSUME SequencesOfTPs, NEW thread \in {"main", "consumer"}, NEW line \in Seq(TPs),
         WriteLine(thread, line)
  PROVE  FlattenSeq(ConsumedLines') =
           FlattenSeq(ConsumedLines) \o (IF thread = "consumer" THEN line ELSE <<>>)
<1> DEFINE rec == [by |-> thread, tc |-> line]
<1>1. PICK new \in Seq(TPs) : new = IF thread = "consumer" THEN line ELSE <<>>
  BY EmptySeq
<1>2. PICK n \in Nat : n = Len(file_out)  BY DEF SequencesOfTPs
<1>3. /\ rec \in Lines /\ file_out \in Seq(Lines)
      /\ file_out' = Append(file_out, rec)
  BY DEF SequencesOfTPs, WriteLine, Lines
<1>4. /\ file_out' \in Seq(Lines) /\ Len(file_out') = n + 1 /\ file_out'[n + 1] = rec
      /\ \A i \in 1 .. n : file_out'[i] = file_out[i]
  BY <1>2, <1>3, AppendProperties
<1> HIDE DEF rec
<1>5. PICK old \in Seq(Seq(TPs)) : old = ConsumedLines  BY PlacesType
<1>6. <<new>> \in Seq(Seq(TPs)) /\ Len(<<new>>) = 1 /\ <<new>>[1] = new  OBVIOUS
<1>7. Len(old) = n /\ DOMAIN file_out = 1 .. n /\ DOMAIN file_out' = 1 .. (n + 1)
  <2>1. DOMAIN file_out = 1 .. n  BY <1>2, <1>3
  <2>2. DOMAIN file_out' = 1 .. (n + 1)  BY <1>4
  <2>3. old = [i \in 1 .. n |-> IF file_out[i].by = "consumer" THEN file_out[i].tc ELSE <<>>]
    BY <1>5, <2>1 DEF ConsumedLines
  <2> QED  BY <2>1, <2>2, <2>3
<1>8. ConsumedLines' = old \o <<new>>
  <2>1. PICK both \in Seq(Seq(TPs)) : both = old \o <<new>>  BY <1>6, ConcatProperties
  <2>2. Len(both) = n + 1  BY <1>6, <1>7, <2>1, ConcatProperties
  <2>3. \A i \in 1 .. n : both[i] = old[i]  BY <1>6, <1>7, <2>1, ConcatProperties
  <2>4. both[n + 1] = new
    <3>1. n + 1 \in 1 .. (Len(old) + Len(<<new>>)) /\ ~ (n + 1 <= Len(old))
          /\ (n + 1) - Len(old) = 1
      BY <1>6, <1>7
    <3> QED  BY <1>6, <2>1, <3>1, ConcatProperties
  <2>5. \A i \in 1 .. (n + 1) :
          both[i] = IF file_out'[i].by = "consumer" THEN file_out'[i].tc ELSE <<>>
    <3>1. ASSUME NEW i \in 1 .. n
          PROVE  both[i] = IF file_out'[i].by = "consumer" THEN file_out'[i].tc ELSE <<>>
      <4>1. old[i] = IF file_out[i].by = "consumer" THEN file_out[i].tc ELSE <<>>
        BY <1>5, <1>7 DEF ConsumedLines
      <4> QED  BY <1>4, <2>3, <4>1
    <3>2. both[n + 1] =
            IF file_out'[n + 1].by = "consumer" THEN file_out'[n + 1].tc ELSE <<>>
      BY <1>1, <1>4, <2>4 DEF rec
    <3>3. \A i \in 1 .. (n + 1) : i \in 1 .. n \/ i = n + 1  OBVIOUS
    <3> QED  BY <3>1, <3>2, <3>3
  <2>6. both = [i \in 1 .. (n + 1) |-> both[i]]  BY <2>2
  <2>7. both = [i \in 1 .. (n + 1) |->
                  IF file_out'[i].by = "consumer" THEN file_out'[i].tc ELSE <<>>]
    BY <2>5, <2>6
  <2> QED  BY <1>7, <2>1, <2>7 DEF ConsumedLines
<1>9. FlattenSeq(old \o <<new>>) = FlattenSeq(old) \o FlattenSeq(<<new>>)
  BY <1>6, FlattenConcat
<1>10. FlattenSeq(<<new>>) = new  BY FlattenOne
<1> QED  BY <1>1, <1>5, <1>8, <1>9, <1>10

-----------------------------------------------------------------------------
(* The worker *)

LEMMA PopKeeps ==
  ASSUME Inv, Pop
  PROVE  Inv'
<1>1. CASE queue_in = <<>>
  <2>1. UNCHANGED <<queue_in, tp, queue_out, process_on, cluster, consumerVars, mainVars, tcs,
                    takerVars>> /\ worker' = "check" /\ worker = "pop"
    BY <1>1 DEF Pop
  <2> QED
    BY <2>1, PlacesKept
    DEF Inv, SequencesOfTPs, HandsEmpty, Stopping, EveryTPInItsPlace,
        consumerVars, mainVars, takerVars
<1>2. CASE queue_in # <<>>
  <2>1. PICK q \in Seq(TPs) : q = queue_in /\ q # <<>>
    BY <1>2 DEF Inv, SequencesOfTPs
  <2>2. PICK h \in TPs : h = Head(q)  BY <2>1, HeadTailProperties
  <2>3. PICK r \in Seq(TPs) : r = Tail(q) /\ Len(r) = Len(q) - 1
    BY <2>1, HeadTailProperties
  <2>4. /\ tp' = <<h>> /\ queue_in' = r /\ worker' = "make" /\ worker = "pop"
        /\ UNCHANGED <<queue_out, process_on, cluster, tcs, accepted, unread, main, last,
                       n_tps_total, file_out, consumer, tc>>
    BY <1>2, <2>1, <2>2, <2>3 DEF Pop, consumerVars, mainVars, takerVars
  <2>5. tp = <<>> /\ tcs = <<>>  BY <2>4 DEF Inv, HandsEmpty
  <2>6. <<h>> \in Seq(TPs) /\ <<>> \in Seq(TPs)  OBVIOUS
  <2>7. SequencesOfTPs'
    BY <2>4, <2>6 DEF Inv, SequencesOfTPs
  <2>8. HandsEmpty'  BY <2>4 DEF Inv, HandsEmpty
  <2>9. Stopping'
    <3>1. Len(unread) \in Nat /\ Len(q) \in Nat /\ Len(r) \in Nat
      BY DEF Inv, SequencesOfTPs
    <3>2. ASSUME ~ process_on
          PROVE  Len(unread) - Len(r) \in 0 .. 1
      <4>1. Len(unread) = Len(q)  BY <2>1, <2>4, <3>2 DEF Inv, Stopping
      <4> QED  BY <2>3, <3>1, <4>1
    <3>3. worker' # "pop" /\ process_on' = process_on /\ unread' = unread /\ queue_in' = r
      BY <2>4
    <3>4. process_on \in BOOLEAN /\ (main' \in {"add", "soft_stop", "stop"} => process_on)
      BY <2>4 DEF Inv, Stopping
    <3> QED  BY <3>2, <3>3, <3>4 DEF Stopping
  <2>10. TPsToCome' = TPsToCome
    <3>1. cluster \in Seq(TPs)  BY DEF Inv, SequencesOfTPs
    <3>2. q = <<h>> \o r  BY <2>1, <2>2, <2>3
    <3>3. Associates(cluster, <<h>>, r)  BY <2>6, <3>1, TPsAssociate
    <3>4. cluster \o <<>> = cluster  BY <3>1, ConcatEmptySeq
    <3> QED  BY <2>1, <2>4, <2>5, <3>2, <3>3, <3>4 DEF TPsToCome, Associates
  <2>11. EveryTPInItsPlace'
    BY <2>4, <2>10, PlacesKept DEF Inv, EveryTPInItsPlace
  <2> QED  BY <2>7, <2>8, <2>9, <2>11 DEF Inv
<1> QED  BY <1>1, <1>2

LEMMA EnterMakerKeeps ==
  ASSUME Inv, EnterMaker
  PROVE  Inv'
<1>1. /\ worker = "make" /\ worker' = "making"
      /\ UNCHANGED <<queue_in, queue_out, process_on, cluster, tp, tcs, accepted, unread, main,
                     last, n_tps_total, file_out, consumer, tc>>
  BY DEF EnterMaker, queueVars, consumerVars, mainVars, takerVars
<1>2. SequencesOfTPs'  BY <1>1 DEF Inv, SequencesOfTPs
<1>3. HandsEmpty'  BY <1>1 DEF Inv, HandsEmpty
<1>4. Stopping'  BY <1>1 DEF Inv, Stopping
<1>5. EveryTPInItsPlace'  BY <1>1, PlacesKept DEF Inv, EveryTPInItsPlace
<1> QED  BY <1>2, <1>3, <1>4, <1>5 DEF Inv

\* The TC maker takes the TP in, alone or with the cluster, or lets go of the cluster.
LEMMA MakeTCKeeps ==
  ASSUME Inv, MakeTC
  PROVE  Inv'
<1>1. /\ worker = "making" /\ worker' = "push" /\ tp' = <<>>
      /\ UNCHANGED <<queue_in, queue_out, process_on, accepted, unread, main, last,
                     n_tps_total, file_out, consumer, tc>>
  BY DEF MakeTC, None, consumerVars, mainVars, takerVars
<1>2. tcs = <<>>  BY <1>1 DEF Inv, HandsEmpty
<1>3. PICK x \in Seq(TPs) : x = cluster  BY DEF Inv, SequencesOfTPs
<1>4. PICK y \in Seq(TPs) : y = tp  BY DEF Inv, SequencesOfTPs
<1>5. PICK z \in Seq(TPs) : z = queue_in  BY DEF Inv, SequencesOfTPs
<1>6. PICK xy \in Seq(TPs) : xy = x \o y  BY ConcatProperties
<1>7. \/ cluster' = xy /\ tcs' = <<>>
      \/ cluster' = <<>> /\ tcs' = <<xy>>
      \/ cluster' = y /\ tcs' = <<x>>
  BY <1>3, <1>4, <1>6 DEF MakeTC
<1>8. <<>> \in Seq(TPs) /\ <<>> \in Seq(Seq(TPs)) /\ <<xy>> \in Seq(Seq(TPs))
      /\ <<x>> \in Seq(Seq(TPs))
  OBVIOUS
<1>9. SequencesOfTPs'
  BY <1>1, <1>7, <1>8 DEF Inv, SequencesOfTPs
<1>10. HandsEmpty'  BY <1>1 DEF Inv, HandsEmpty
<1>11. Stopping'  BY <1>1 DEF Inv, Stopping
<1>12. EveryTPInItsPlace'
  <2>1. PICK c \in Seq(TPs) : c = TPsConsumed  BY PlacesType DEF Inv
  <2>2. PICK q \in Seq(TPs) : q = FlattenSeq(queue_out)  BY PlacesType DEF Inv
  <2>8. PICK cq \in Seq(TPs) : cq = c \o q  BY ConcatProperties
  <2>3. accepted = cq \o (xy \o z)
    <3>1. TPsInTCs = q \o <<>>  BY <1>2, <2>2, FlattenNone DEF TPsInTCs
    <3>2. q \o <<>> = q  BY ConcatEmptySeq
    <3>3. TPsToCome = xy \o z  BY <1>3, <1>4, <1>5, <1>6 DEF TPsToCome
    <3> QED  BY <2>8, <2>1, <3>1, <3>2, <3>3 DEF Inv, EveryTPInItsPlace
  <2>4. /\ accepted' = accepted /\ TPsConsumed' = c
        /\ TPsInTCs' = q \o FlattenSeq(tcs')
        /\ TPsToCome' = (cluster' \o <<>>) \o z
    BY <1>1, <1>5, <2>1, <2>2, PlacesKept DEF TPsInTCs, TPsToCome
  <2>5. CASE cluster' = xy /\ tcs' = <<>>
    <3>1. cluster' \o <<>> = xy  BY <2>5, ConcatEmptySeq
    <3>2. q \o FlattenSeq(tcs') = q  BY <2>5, FlattenNone, ConcatEmptySeq
    <3> QED  BY <2>8, <2>3, <2>4, <3>1, <3>2 DEF EveryTPInItsPlace
  <2>6. CASE cluster' = <<>> /\ tcs' = <<xy>>
    <3>1. cluster' \o <<>> = <<>>  BY <1>8, <2>6, ConcatEmptySeq
    <3>2. <<>> \o z = z  BY ConcatEmptySeq
    <3>3. FlattenSeq(tcs') = xy  BY <2>6, FlattenOne
    <3>4. Associates(c, q, xy) /\ Associates(cq, xy, z)  BY TPsAssociate
    <3>5. c \o (q \o xy) = cq \o xy /\ (cq \o xy) \o z = cq \o (xy \o z)
      BY <2>8, <3>4 DEF Associates
    <3> QED  BY <2>3, <2>4, <3>1, <3>2, <3>3, <3>4, <3>5 DEF EveryTPInItsPlace
  <2>7. CASE cluster' = y /\ tcs' = <<x>>
    <3>1. cluster' \o <<>> = y  BY <2>7, ConcatEmptySeq
    <3>2. FlattenSeq(tcs') = x  BY <2>7, FlattenOne
    <3>3. xy \o z = x \o (y \o z)
      <4>1. Associates(x, y, z)  BY TPsAssociate
      <4> QED  BY <1>6, <4>1 DEF Associates
    <3>4. PICK yz \in Seq(TPs) : yz = y \o z  BY ConcatProperties
    <3>5. Associates(c, q, x) /\ Associates(cq, x, yz)  BY TPsAssociate
    <3>6. c \o (q \o x) = cq \o x /\ (cq \o x) \o yz = cq \o (x \o yz)
      BY <2>8, <3>5 DEF Associates
    <3> QED  BY <2>3, <2>4, <3>1, <3>2, <3>3, <3>4, <3>5, <3>6 DEF EveryTPInItsPlace
  <2> QED  BY <1>7, <2>5, <2>6, <2>7
<1> QED  BY <1>9, <1>10, <1>11, <1>12 DEF Inv

LEMMA PushTCsKeeps ==
  ASSUME Inv, PushTCs
  PROVE  Inv'
<1>1. /\ worker = "push" /\ worker' = "check" /\ tcs' = <<>> /\ queue_out' = queue_out \o tcs
      /\ UNCHANGED <<queue_in, process_on, cluster, tp, accepted, unread, main, last,
                     n_tps_total, file_out, consumer, tc>>
  BY DEF PushTCs, consumerVars, mainVars, takerVars
<1>2. PICK o \in Seq(Seq(TPs)) : o = queue_out  BY DEF Inv, SequencesOfTPs
<1>3. PICK t \in Seq(Seq(TPs)) : t = tcs  BY DEF Inv, SequencesOfTPs
<1>4. PICK ot \in Seq(Seq(TPs)) : ot = o \o t  BY ConcatProperties
<1>5. <<>> \in Seq(Seq(TPs))  OBVIOUS
<1>6. SequencesOfTPs'
  BY <1>1, <1>2, <1>3, <1>4, <1>5 DEF Inv, SequencesOfTPs
<1>7. HandsEmpty'  BY <1>1 DEF Inv, HandsEmpty
<1>8. Stopping'  BY <1>1 DEF Inv, Stopping
<1>9. TPsInTCs' = TPsInTCs
  <2>1. FlattenSeq(ot) = FlattenSeq(o) \o FlattenSeq(t)  BY <1>4, FlattenConcat
  <2>2. FlattenSeq(ot) \o <<>> = FlattenSeq(ot)  BY FlattenType, ConcatEmptySeq
  <2> QED  BY <1>1, <1>2, <1>3, <1>4, <2>1, <2>2, FlattenNone DEF TPsInTCs
<1>10. EveryTPInItsPlace'  BY <1>1, <1>9, PlacesKept DEF Inv, EveryTPInItsPlace
<1> QED  BY <1>6, <1>7, <1>8, <1>10 DEF Inv

\* The worker looks at process_on only with empty hands.
LEMMA CheckProcessOnKeeps ==
  ASSUME Inv, CheckProcessOn
  PROVE  Inv'
<1>1. /\ worker = "check" /\ worker' \in {"pop", "done"} /\ (worker' = "pop" => process_on)
      /\ UNCHANGED <<queue_in, queue_out, process_on, cluster, tp, tcs, accepted, unread, main,
                     last, n_tps_total, file_out, consumer, tc>>
  BY DEF CheckProcessOn, queueVars, consumerVars, mainVars, takerVars
<1>2. SequencesOfTPs'  BY <1>1 DEF Inv, SequencesOfTPs
<1>3. HandsEmpty'  BY <1>1 DEF Inv, HandsEmpty
<1>4. Stopping'  BY <1>1 DEF Inv, Stopping
<1>5. EveryTPInItsPlace'  BY <1>1, PlacesKept DEF Inv, EveryTPInItsPlace
<1> QED  BY <1>2, <1>3, <1>4, <1>5 DEF Inv

-----------------------------------------------------------------------------
(* The consumer *)

\* What the consumer takes it has; what it or main writes it had.
LEMMA TakenByConsumer ==
  ASSUME Inv, GetNextProcessed, queue_out # <<>>
  PROVE  TPsConsumed' = TPsConsumed \o Head(queue_out)
<1>1. tc = <<>>  BY DEF Inv, HandsEmpty, GetNextProcessed
<1>2. PICK w \in Seq(TPs) : w = FlattenSeq(ConsumedLines)  BY PlacesType DEF Inv
<1>3. w \o <<>> = w  BY ConcatEmptySeq
<1>4. TPsConsumed = w  BY <1>1, <1>2, <1>3 DEF TPsConsumed
<1>5. tc' = Head(queue_out) /\ file_out' = file_out  BY DEF GetNextProcessed, consumerVars
<1> QED  BY <1>2, <1>4, <1>5 DEF TPsConsumed, ConsumedLines

LEMMA LineOfConsumer ==
  ASSUME SequencesOfTPs, WriteLine("consumer", tc), tc' = <<>>
  PROVE  TPsConsumed' = TPsConsumed
<1>1. PICK line \in Seq(TPs) : line = tc  BY DEF SequencesOfTPs
<1>2. FlattenSeq(ConsumedLines') = FlattenSeq(ConsumedLines) \o line
  BY <1>1, LineWritten
<1>3. PICK w \in Seq(TPs) : w = FlattenSeq(ConsumedLines)  BY PlacesType
<1>4. PICK wl \in Seq(TPs) : wl = w \o line  BY ConcatProperties
<1>5. wl \o <<>> = wl  BY ConcatEmptySeq
<1> QED  BY <1>1, <1>2, <1>3, <1>4, <1>5 DEF TPsConsumed

LEMMA LineOfMain ==
  ASSUME SequencesOfTPs, WriteLine("main", last), tc' = tc
  PROVE  TPsConsumed' = TPsConsumed
<1>1. PICK line \in Seq(TPs) : line = last  BY DEF SequencesOfTPs
<1>2. FlattenSeq(ConsumedLines') = FlattenSeq(ConsumedLines) \o <<>>
  BY <1>1, LineWritten
<1>3. FlattenSeq(ConsumedLines) \o <<>> = FlattenSeq(ConsumedLines)
  BY PlacesType, ConcatEmptySeq
<1> QED  BY <1>2, <1>3 DEF TPsConsumed

LEMMA GetNextProcessedKeeps ==
  ASSUME Inv, GetNextProcessed
  PROVE  Inv'
<1>1. /\ consumer = "pop"
      /\ UNCHANGED <<queue_in, process_on, cluster, tp, tcs, accepted, unread, main, last,
                     n_tps_total, file_out, worker>>
  BY DEF GetNextProcessed, consumerVars, mainVars, workerVars
<1>2. tc = <<>>  BY <1>1 DEF Inv, HandsEmpty
<1>3. Stopping'  BY <1>1 DEF Inv, Stopping
<1>4. CASE queue_out = <<>>
  <2>1. consumer' = "check" /\ UNCHANGED <<queue_out, tc>>  BY <1>4 DEF GetNextProcessed
  <2>2. SequencesOfTPs'  BY <1>1, <2>1 DEF Inv, SequencesOfTPs
  <2>3. HandsEmpty'  BY <1>1, <1>2, <2>1 DEF Inv, HandsEmpty
  <2>4. EveryTPInItsPlace'  BY <1>1, <2>1, PlacesKept DEF Inv, EveryTPInItsPlace
  <2> QED  BY <1>3, <2>2, <2>3, <2>4 DEF Inv
<1>5. CASE queue_out # <<>>
  <2>1. PICK o \in Seq(Seq(TPs)) : o = queue_out /\ o # <<>>
    BY <1>5 DEF Inv, SequencesOfTPs
  <2>2. PICK h \in Seq(TPs) : h = Head(o)  BY <2>1, HeadTailProperties
  <2>3. PICK r \in Seq(Seq(TPs)) : r = Tail(o)  BY <2>1, HeadTailProperties
  <2>4. consumer' = "load" /\ tc' = h /\ queue_out' = r
    BY <1>5, <2>1, <2>2, <2>3 DEF GetNextProcessed
  <2>5. SequencesOfTPs'  BY <1>1, <2>4 DEF Inv, SequencesOfTPs
  <2>6. HandsEmpty'  BY <1>1, <2>4 DEF Inv, HandsEmpty
  <2>7. EveryTPInItsPlace'
    <3>1. PICK w \in Seq(TPs) : w = FlattenSeq(ConsumedLines)  BY PlacesType DEF Inv
    <3>2. PICK f \in Seq(TPs) : f = FlattenSeq(r)  BY FlattenType
    <3>3. PICK t \in Seq(TPs) : t = FlattenSeq(tcs)  BY PlacesType DEF Inv
    <3>4. <<h>> \in Seq(Seq(TPs)) /\ o = <<h>> \o r
      BY <2>1, <2>2, <2>3
    <3>5. FlattenSeq(o) = h \o f
      <4>1. FlattenSeq(<<h>> \o r) = FlattenSeq(<<h>>) \o FlattenSeq(r)
        BY <3>4, FlattenConcat
      <4>2. FlattenSeq(<<h>>) = h  BY FlattenOne
      <4> QED  BY <3>2, <3>4, <4>1, <4>2
    <3>6. w \o <<>> = w  BY ConcatEmptySeq
    <3>7. TPsConsumed = w /\ TPsConsumed' = w \o h
      BY <1>2, <1>5, <2>1, <2>2, <3>1, <3>6, TakenByConsumer DEF TPsConsumed
    <3>8. TPsInTCs = (h \o f) \o t  BY <2>1, <3>3, <3>5 DEF TPsInTCs
    <3>9. TPsInTCs' = f \o t  BY <1>1, <2>4, <3>2, <3>3 DEF TPsInTCs
    <3>10. PICK ft \in Seq(TPs) : ft = f \o t  BY ConcatProperties
    <3>11. Associates(h, f, t) /\ Associates(w, h, ft)  BY TPsAssociate
    <3>12. w \o ((h \o f) \o t) = (w \o h) \o ft  BY <3>10, <3>11 DEF Associates
    <3>13. TPsConsumed' \o TPsInTCs' = TPsConsumed \o TPsInTCs
      BY <3>7, <3>8, <3>9, <3>10, <3>12
    <3> QED  BY <1>1, <3>13, PlacesKept DEF Inv, EveryTPInItsPlace
  <2> QED  BY <1>3, <2>5, <2>6, <2>7 DEF Inv
<1> QED  BY <1>4, <1>5

LEMMA PrintTCKeeps ==
  ASSUME Inv, PrintTC
  PROVE  Inv'
<1>1. UNCHANGED <<queue_in, queue_out, process_on, cluster, tp, tcs, accepted, unread, main,
                  last, n_tps_total, worker>>
  BY DEF PrintTC, queueVars, mainVars, workerVars
<1>2. Stopping'  BY <1>1 DEF Inv, Stopping
<1>3. CASE consumer' \in {"store", "write"} /\ UNCHANGED <<file_out, tc>>
  <2>1. SequencesOfTPs'  BY <1>1, <1>3 DEF Inv, SequencesOfTPs
  <2>2. HandsEmpty'  BY <1>1, <1>3 DEF Inv, HandsEmpty
  <2>3. EveryTPInItsPlace'  BY <1>1, <1>3, PlacesKept DEF Inv, EveryTPInItsPlace
  <2> QED  BY <1>2, <2>1, <2>2, <2>3 DEF Inv
<1>4. CASE WriteLine("consumer", tc) /\ consumer' = "check" /\ tc' = <<>>
  <2>1. PICK line \in Seq(TPs) : line = tc  BY DEF Inv, SequencesOfTPs
  <2>2. SequencesOfTPs'
    <3>1. file_out' \in Seq(Lines)
      <4>1. [by |-> "consumer", tc |-> line] \in Lines  BY DEF Lines
      <4> QED  BY <1>4, <2>1, <4>1, AppendProperties DEF Inv, SequencesOfTPs, WriteLine
    <3>2. <<>> \in Seq(TPs)  BY EmptySeq
    <3> QED  BY <1>1, <1>4, <3>1, <3>2 DEF Inv, SequencesOfTPs
  <2>3. HandsEmpty'  BY <1>1, <1>4 DEF Inv, HandsEmpty
  <2>4. TPsConsumed' = TPsConsumed  BY <1>4, LineOfConsumer DEF Inv
  <2>5. EveryTPInItsPlace'  BY <1>1, <2>4, PlacesKept DEF Inv, EveryTPInItsPlace
  <2> QED  BY <1>2, <2>2, <2>3, <2>5 DEF Inv
<1> QED  BY <1>3, <1>4 DEF PrintTC, LoadCount, StoreCount, None

LEMMA CheckConsumeOnKeeps ==
  ASSUME Inv, CheckConsumeOn
  PROVE  Inv'
<1>1. /\ consumer = "check"
      /\ consumer' \in {"pop", "done"}
      /\ UNCHANGED <<queue_in, queue_out, process_on, cluster, tp, tcs, accepted, unread, main,
                     last, n_tps_total, file_out, worker, tc>>
  BY DEF CheckConsumeOn, queueVars, consumerVars, mainVars, workerVars
<1>2. SequencesOfTPs'  BY <1>1 DEF Inv, SequencesOfTPs
<1>3. HandsEmpty'  BY <1>1 DEF Inv, HandsEmpty
<1>4. Stopping'  BY <1>1 DEF Inv, Stopping
<1>5. EveryTPInItsPlace'  BY <1>1, PlacesKept DEF Inv, EveryTPInItsPlace
<1> QED  BY <1>2, <1>3, <1>4, <1>5 DEF Inv

-----------------------------------------------------------------------------
(* main() *)

LEMMA AddToQueueKeeps ==
  ASSUME Inv, AddToQueue
  PROVE  Inv'
<1>1. /\ main = "add" /\ n_tps_total < MaxTPs
      /\ n_tps_total' = n_tps_total + 1
      /\ UNCHANGED <<queue_out, process_on, cluster, main, last, unread, file_out,
                     worker, tp, tcs, consumer, tc>>
  BY DEF AddToQueue, consumerVars, workerVars, takerVars
<1>2. PICK n \in TPs : n = n_tps_total'
  BY <1>1, BoundsAssumption DEF Inv, SequencesOfTPs, TPs
<1>3. n_tps_total' \in 0 .. MaxTPs  BY <1>2 DEF TPs
<1>4. HandsEmpty'  BY <1>1 DEF Inv, HandsEmpty
<1>5. Stopping'  BY <1>1 DEF Inv, Stopping
<1>6. CASE UNCHANGED <<queue_in, accepted>>
  <2>1. SequencesOfTPs'  BY <1>1, <1>3, <1>6 DEF Inv, SequencesOfTPs
  <2>2. EveryTPInItsPlace'  BY <1>1, <1>6, PlacesKept DEF Inv, EveryTPInItsPlace
  <2> QED  BY <1>4, <1>5, <2>1, <2>2 DEF Inv
<1>7. CASE queue_in' = Append(queue_in, n) /\ accepted' = Append(accepted, n)
  <2>1. PICK q \in Seq(TPs) : q = queue_in  BY DEF Inv, SequencesOfTPs
  <2>2. PICK a \in Seq(TPs) : a = accepted  BY DEF Inv, SequencesOfTPs
  <2>0. <<n>> \in Seq(TPs)  OBVIOUS
  <2>3. PICK e \in Seq(TPs) : e = <<n>>  BY <2>0
  <2>4. queue_in' = q \o e /\ accepted' = a \o e  BY <1>7, <2>1, <2>2, <2>3, AppendIsConcat
  <2>5. q \o e \in Seq(TPs) /\ a \o e \in Seq(TPs)  BY ConcatProperties
  <2>6. SequencesOfTPs'  BY <1>1, <1>3, <2>4, <2>5 DEF Inv, SequencesOfTPs
  <2>7. EveryTPInItsPlace'
    <3>1. PICK x \in Seq(TPs) : x = cluster \o tp  BY PlacesType DEF Inv
    <3>2. PICK xq \in Seq(TPs) : xq = x \o q  BY ConcatProperties
    <3>3. PICK c \in Seq(TPs) : c = TPsConsumed  BY PlacesType DEF Inv
    <3>4. PICK i \in Seq(TPs) : i = TPsInTCs  BY PlacesType DEF Inv
    <3>5. PICK ci \in Seq(TPs) : ci = c \o i  BY ConcatProperties
    <3>6. a = ci \o xq
      BY <2>1, <2>2, <3>1, <3>2, <3>3, <3>4, <3>5 DEF Inv, EveryTPInItsPlace, TPsToCome
    <3>7. TPsToCome' = x \o (q \o e)  BY <1>1, <2>4, <3>1 DEF TPsToCome
    <3>8. TPsConsumed' = c /\ TPsInTCs' = i  BY <1>1, <3>3, <3>4, PlacesKept
    <3>9. Associates(x, q, e) /\ Associates(ci, xq, e)  BY TPsAssociate
    <3>10. a \o e = ci \o (x \o (q \o e))  BY <3>2, <3>6, <3>9 DEF Associates
    <3> QED  BY <2>4, <3>5, <3>7, <3>8, <3>10 DEF EveryTPInItsPlace
  <2> QED  BY <1>4, <1>5, <2>6, <2>7 DEF Inv
<1> QED  BY <1>2, <1>6, <1>7 DEF AddToQueue

\* Whatever a race gives main is TPs.
LEMMA TornReadsType == TornReads \subseteq Seq(TPs)
<1>1. SUFFICES ASSUME NEW s \in TornReads PROVE s \in Seq(TPs)
  OBVIOUS
<1>2. PICK n \in 0 .. MaxTPs : s \in [1 .. n -> TPs]
  BY <1>1 DEF TornReads
<1>3. n \in Nat  BY BoundsAssumption
<1> QED  BY <1>2, <1>3

\* Everything main does between the last TP and the stop, and after it, leaves
\* the TPs where they are.
LEMMA MainMovesOn ==
  ASSUME Inv,
         UNCHANGED <<queue_in, queue_out, process_on, cluster, tp, tcs, accepted, unread,
                     n_tps_total, file_out, worker, consumer, tc>>,
         last' \in Seq(TPs),
         main' \in {"add", "soft_stop", "stop"} => main \in {"add", "soft_stop", "stop"}
  PROVE  Inv'
<1>1. SequencesOfTPs'  BY DEF Inv, SequencesOfTPs
<1>2. HandsEmpty'  BY DEF Inv, HandsEmpty
<1>3. Stopping'  BY DEF Inv, Stopping
<1>4. EveryTPInItsPlace'  BY PlacesKept DEF Inv, EveryTPInItsPlace
<1> QED  BY <1>1, <1>2, <1>3, <1>4 DEF Inv

\* At the stop nothing of what is queued has been taken.
LEMMA StopProcessingKeeps ==
  ASSUME Inv, StopProcessing
  PROVE  Inv'
<1>1. /\ process_on' = FALSE /\ unread' = queue_in /\ main' = "consumer_stop"
      /\ UNCHANGED <<queue_in, queue_out, cluster, tp, tcs, accepted, last, n_tps_total,
                     file_out, worker, consumer, tc>>
  BY DEF StopProcessing, consumerVars, workerVars, takerVars
<1>2. SequencesOfTPs'  BY <1>1 DEF Inv, SequencesOfTPs
<1>3. HandsEmpty'  BY <1>1 DEF Inv, HandsEmpty
<1>4. Stopping'
  <2>1. Len(queue_in) \in Nat  BY DEF Inv, SequencesOfTPs
  <2>2. Len(queue_in) - Len(queue_in) = 0  BY <2>1
  <2>3. Len(queue_in) - Len(queue_in) \in 0 .. 1  BY <2>2
  <2> QED  BY <1>1, <2>3 DEF Stopping
<1>5. EveryTPInItsPlace'  BY <1>1, PlacesKept DEF Inv, EveryTPInItsPlace
<1> QED  BY <1>2, <1>3, <1>4, <1>5 DEF Inv

LEMMA PrintLastClusterKeeps ==
  ASSUME Inv, PrintLastCluster
  PROVE  Inv'
<1>1. /\ main \notin {"add", "soft_stop", "stop"} /\ main' \notin {"add", "soft_stop", "stop"}
      /\ UNCHANGED <<queue_in, queue_out, process_on, cluster, tp, tcs, accepted, unread,
                     last, n_tps_total, worker, consumer, tc>>
  BY DEF PrintLastCluster, queueVars, workerVars, takerVars
<1>2. PICK line \in Seq(TPs) : line = last  BY DEF Inv, SequencesOfTPs
<1>3. CASE file_out' = file_out
  BY <1>1, <1>2, <1>3, MainMovesOn
<1>4. CASE WriteLine("main", last)
  <2>1. SequencesOfTPs'
    <3>1. file_out' \in Seq(Lines)
      <4>1. [by |-> "main", tc |-> line] \in Lines  BY DEF Lines
      <4> QED  BY <1>2, <1>4, <4>1, AppendProperties DEF Inv, SequencesOfTPs, WriteLine
    <3> QED  BY <1>1, <3>1 DEF Inv, SequencesOfTPs
  <2>2. HandsEmpty'  BY <1>1 DEF Inv, HandsEmpty
  <2>3. Stopping'  BY <1>1 DEF Inv, Stopping
  <2>4. TPsConsumed' = TPsConsumed  BY <1>1, <1>4, LineOfMain DEF Inv
  <2>5. EveryTPInItsPlace'  BY <1>1, <2>4, PlacesKept DEF Inv, EveryTPInItsPlace
  <2> QED  BY <2>1, <2>2, <2>3, <2>5 DEF Inv
<1> QED  BY <1>3, <1>4 DEF PrintLastCluster, LoadCount, StoreCount

-----------------------------------------------------------------------------
LEMMA InvInit == Init => Inv
<1> SUFFICES ASSUME Init PROVE Inv
  OBVIOUS
<1>1. <<>> \in Seq(TPs) /\ <<>> \in Seq(Seq(TPs)) /\ <<>> \in Seq(Lines)  BY EmptySeq
<1>2. SequencesOfTPs
  BY <1>1, BoundsAssumption DEF Init, None, SequencesOfTPs
<1>3. HandsEmpty  BY DEF Init, None, HandsEmpty
<1>4. Stopping  BY DEF Init, Stopping
<1>5. EveryTPInItsPlace
  <2>1. <<>> \o <<>> = <<>>  BY <1>1, ConcatEmptySeq
  <2>2. ConsumedLines = <<>>
    <3>1. ConsumedLines \in Seq(Seq(TPs)) /\ DOMAIN ConsumedLines = {}
      BY <1>2, PlacesType DEF Init, ConsumedLines
    <3> QED  BY <3>1, EmptySeq
  <2> QED
    BY <2>1, <2>2, FlattenNone
    DEF Init, None, EveryTPInItsPlace, TPsConsumed, TPsInTCs, TPsToCome
<1> QED  BY <1>2, <1>3, <1>4, <1>5 DEF Inv

LEMMA InvNext == Inv /\ [Next]_vars => Inv'
<1> SUFFICES ASSUME Inv, [Next]_vars PROVE Inv'
  OBVIOUS
<1>0. last \in Seq(TPs) /\ cluster \in Seq(TPs)  BY DEF Inv, SequencesOfTPs
<1>1. CASE AddToQueue  BY <1>1, AddToQueueKeeps
<1>2. CASE StopAdding
  BY <1>0, <1>2, MainMovesOn DEF StopAdding, queueVars, consumerVars, workerVars, takerVars
<1>3. CASE SoftStopWaits
  BY <1>0, <1>3, MainMovesOn DEF SoftStopWaits, queueVars, consumerVars, workerVars, takerVars
<1>4. CASE SoftStopGivesUp
  BY <1>0, <1>4, MainMovesOn DEF SoftStopGivesUp, queueVars, consumerVars, workerVars, takerVars
<1>5. CASE StopProcessing  BY <1>5, StopProcessingKeeps
<1>6. CASE StopConsuming
  BY <1>0, <1>6, MainMovesOn DEF StopConsuming, queueVars, workerVars, takerVars
<1>7. CASE GetLastCluster
  <2>1. last' \in Seq(TPs)
    BY <1>0, <1>7, TornReadsType DEF GetLastCluster
  <2> QED
    BY <1>7, <2>1, MainMovesOn
    DEF GetLastCluster, queueVars, consumerVars, workerVars, takerVars
<1>18. CASE EnterLastCluster
  BY <1>0, <1>18, MainMovesOn DEF EnterLastCluster, queueVars, consumerVars, takerVars
<1>19. CASE EnterMaker  BY <1>19, EnterMakerKeeps
<1>8. CASE PrintLastCluster  BY <1>8, PrintLastClusterKeeps
<1>9. CASE Join
  BY <1>0, <1>9, MainMovesOn DEF Join, queueVars, consumerVars, workerVars, takerVars
<1>10. CASE Pop  BY <1>10, PopKeeps
<1>11. CASE MakeTC  BY <1>11, MakeTCKeeps
<1>12. CASE PushTCs  BY <1>12, PushTCsKeeps
<1>13. CASE CheckProcessOn  BY <1>13, CheckProcessOnKeeps
<1>14. CASE GetNextProcessed  BY <1>14, GetNextProcessedKeeps
<1>15. CASE PrintTC  BY <1>15, PrintTCKeeps
<1>16. CASE CheckConsumeOn  BY <1>16, CheckConsumeOnKeeps
<1>17. CASE UNCHANGED vars
  BY <1>0, <1>17, MainMovesOn
  DEF vars, queueVars, consumerVars, mainVars, workerVars, takerVars
<1> QED
  BY <1>1, <1>2, <1>3, <1>4, <1>5, <1>6, <1>7, <1>8, <1>9, <1>10, <1>11, <1>12, <1>13,
     <1>14, <1>15, <1>16, <1>17, <1>18, <1>19
  DEF Next, Main, Worker, Consumer

\* The TPs the queue accepted are, in order, what is written, in the consumer's
\* hands, queued as TCs, with the worker, clustered and still queued: the three
\* threads lose, repeat and reorder nothing, wherever they are when stopped.
THEOREM NoTPLostOrReordered == Spec => []EveryTPInItsPlace
<1>1. Inv => EveryTPInItsPlace  BY DEF Inv
<1> QED  BY <1>1, InvInit, InvNext, PTL DEF Spec

\* After SoftStop() the worker takes at most one more TP.
THEOREM WorkerStops == Spec => []OneMoreAfterStop
<1>1. Inv => OneMoreAfterStop
  <2> SUFFICES ASSUME Inv, ~ process_on PROVE Len(unread) - Len(queue_in) <= 1
    BY DEF OneMoreAfterStop
  <2>1. Len(unread) \in Nat /\ Len(queue_in) \in Nat  BY DEF Inv, SequencesOfTPs
  <2>2. Len(unread) - Len(queue_in) \in 0 .. 1  BY DEF Inv, Stopping
  <2> QED  BY <2>1, <2>2
<1> QED  BY <1>1, InvInit, InvNext, PTL DEF Spec

-----------------------------------------------------------------------------
(* The threads' counts, and the cluster that main takes at the end *)

Holding == {"load", "store", "write"}
AsNumber(b) == IF b THEN 1 ELSE 0

ThreadsType ==
  /\ worker \in {"pop", "make", "making", "push", "check", "done"} /\ raced \in BOOLEAN
  /\ consumer \in Holding \cup {"pop", "check", "done"}
  /\ main \in Holding \cup {"add", "soft_stop", "stop", "consumer_stop", "last_cluster",
                            "taking", "join", "done"}
  /\ consume_on \in BOOLEAN /\ i_try \in 0 .. n_tries
  /\ n_tc \in Nat /\ loaded \in [{"main", "consumer"} -> Nat]
  /\ Len(queue_in) <= depth_in

\* No TC is empty, and the consumer has one in its hands exactly while it prints it.
TCsHoldTPs ==
  /\ \A i \in 1 .. Len(queue_out) : queue_out[i] # <<>>
  /\ \A i \in 1 .. Len(tcs) : tcs[i] # <<>>
  /\ worker \in {"make", "making"} => tp # <<>>
  /\ consumer \in Holding <=> tc # <<>>

\* A line takes a TP that was accepted, but for the one line of main; n_tc, however
\* the two threads' steps fall, is at most the lines written or about to be.
LinesAreCounted ==
  /\ Len(accepted) <= n_tps_total
  /\ Len(file_out) + AsNumber(consumer \in Holding)
       <= Len(TPsConsumed) + AsNumber(main \in {"join", "done"})
  /\ \A n \in {n_tc, loaded["main"], loaded["consumer"]} :
       n <= Len(file_out) + AsNumber(consumer = "write") + AsNumber(main = "write")

\* A cluster that main took without a race is the beginning of what the worker,
\* which has at most this TP to go, will make of it.
LastIsLast ==
  /\ main \notin {"add", "soft_stop", "stop"} => ~ process_on
  /\ last # <<>> =>
       /\ ~ process_on
       /\ worker \in {"pop", "make", "making"} => raced \/ IsPrefix(last, cluster)

EndInv == Inv /\ ThreadsType /\ TCsHoldTPs /\ LinesAreCounted /\ LastIsLast
            /\ LastClusterEndsTheFile

-----------------------------------------------------------------------------
(* Beginnings of sequences *)

LEMMA PrefixIs ==
  ASSUME NEW s \in Seq(TPs), NEW t \in Seq(TPs)
  PROVE  IsPrefix(s, t) <=> Len(s) <= Len(t) /\ \A i \in 1 .. Len(s) : s[i] = t[i]
<1> DEFINE n == Len(s)
<1>1. n \in Nat /\ Len(t) \in Nat  OBVIOUS
<1>2. CASE n <= Len(t)
  <2>1. SubSeq(s, 1, n) = s  BY SubSeqFull
  <2>2. SubSeq(t, 1, n) = [i \in 1 .. n |-> t[i]]
    BY <1>1, <1>2
  <2>3. s = [i \in 1 .. n |-> s[i]]  OBVIOUS
  <2>4. SubSeq(s, 1, n) = SubSeq(t, 1, n) <=> \A i \in 1 .. n : s[i] = t[i]
    BY <2>1, <2>2, <2>3
  <2> QED  BY <1>2, <2>4 DEF IsPrefix
<1>3. CASE ~ (n <= Len(t))
  BY <1>3 DEF IsPrefix
<1> QED  BY <1>2, <1>3

LEMMA NothingIsPrefix == \A s \in Seq(TPs) : IsPrefix(<<>>, s)
<1> SUFFICES ASSUME NEW s \in Seq(TPs) PROVE IsPrefix(<<>>, s)
  OBVIOUS
<1>1. PICK none \in Seq(TPs) : none = <<>>  BY EmptySeq
<1>2. Len(none) = 0 /\ Len(s) \in Nat  BY <1>1
<1>3. 1 .. Len(none) = {} /\ Len(none) <= Len(s)  BY <1>2
<1>4. IsPrefix(none, s)  BY <1>3, PrefixIs
<1> QED  BY <1>1, <1>4

LEMMA PrefixGrows ==
  ASSUME NEW s \in Seq(TPs), NEW t \in Seq(TPs), NEW u \in Seq(TPs), IsPrefix(s, t)
  PROVE  IsPrefix(s, t \o u)
<1>1. PICK tu \in Seq(TPs) : tu = t \o u  BY ConcatProperties
<1>2. Len(tu) = Len(t) + Len(u) /\ \A i \in 1 .. Len(t) : tu[i] = t[i]
  BY <1>1, ConcatProperties
<1>3. Len(s) <= Len(t) /\ \A i \in 1 .. Len(s) : s[i] = t[i]  BY PrefixIs
<1>4. Len(s) \in Nat /\ Len(t) \in Nat /\ Len(u) \in Nat  OBVIOUS
<1>5. Len(s) <= Len(tu)  BY <1>2, <1>3, <1>4
<1>6. \A i \in 1 .. Len(s) : s[i] = tu[i]  BY <1>2, <1>3, <1>4
<1> QED  BY <1>1, <1>5, <1>6, PrefixIs

LEMMA PrefixOfItself == \A s \in Seq(TPs) : IsPrefix(s, s)
BY PrefixIs

-----------------------------------------------------------------------------
(* The lines of the consumer, and the last of them *)

LEMMA LargestExists ==
  ASSUME NEW n \in Nat, NEW S \in SUBSET (1 .. n), S # {}
  PROVE  Max(S) \in S
<1> DEFINE T == {k \in Nat : \A R \in SUBSET (1 .. k) :
                               R # {} => \E x \in R : \A y \in R : x >= y}
<1>1. 0 \in T
  <2>1. \A R \in SUBSET (1 .. 0) : R = {}  OBVIOUS
  <2> QED  BY <2>1
<1>2. ASSUME NEW k \in T
      PROVE  k + 1 \in T
  <2>1. SUFFICES ASSUME NEW R \in SUBSET (1 .. (k + 1)), R # {}
                 PROVE  \E x \in R : \A y \in R : x >= y
    OBVIOUS
  <2>2. CASE k + 1 \in R
    <3>1. \A y \in R : k + 1 >= y  OBVIOUS
    <3> QED  BY <2>2, <3>1
  <2>3. CASE k + 1 \notin R
    <3>1. R \in SUBSET (1 .. k)  BY <2>3
    <3> QED  BY <2>1, <3>1
  <2> QED  BY <2>2, <2>3
<1>3. T \subseteq Nat  OBVIOUS
<1>4. T = Nat
  <2> HIDE DEF T
  <2> QED  BY <1>1, <1>2, <1>3, NaturalsBySuccessor
<1>5. \E x \in S : \A y \in S : x >= y  BY <1>4
<1> QED  BY <1>5 DEF Max

LEMMA LastLine ==
  ASSUME SequencesOfTPs, NEW thread \in {"main", "consumer"}, NEW line \in Seq(TPs),
         WriteLine(thread, line)
  PROVE  /\ thread = "consumer" =>
              ConsumerLines' # {} /\ file_out'[Max(ConsumerLines')].tc = line
         /\ thread = "main" =>
              /\ ConsumerLines' = ConsumerLines
              /\ ConsumerLines # {} =>
                   file_out'[Max(ConsumerLines')].tc = file_out[Max(ConsumerLines)].tc
<1> DEFINE rec == [by |-> thread, tc |-> line]
<1>1. PICK n \in Nat : n = Len(file_out)  BY DEF SequencesOfTPs
<1>2. /\ rec \in Lines /\ file_out \in Seq(Lines)
      /\ file_out' = Append(file_out, rec)
      /\ rec.by = thread /\ rec.tc = line
  BY DEF SequencesOfTPs, WriteLine, Lines
<1> HIDE DEF rec
<1>3. /\ DOMAIN file_out = 1 .. n /\ DOMAIN file_out' = 1 .. (n + 1) /\ file_out'[n + 1] = rec
      /\ \A i \in 1 .. n : file_out'[i] = file_out[i]
  <2>1. file_out' \in Seq(Lines) /\ Len(file_out') = n + 1  BY <1>1, <1>2, AppendProperties
  <2> QED  BY <1>1, <1>2, <2>1, AppendProperties
<1>4. ConsumerLines \subseteq 1 .. n  BY <1>3 DEF ConsumerLines
<1>5. CASE thread = "consumer"
  <2>1. ConsumerLines' = ConsumerLines \cup {n + 1}
    BY <1>2, <1>3, <1>5 DEF ConsumerLines
  <2>2. PICK L : L = ConsumerLines'  OBVIOUS
  <2>3. n + 1 \in L /\ \A y \in L : n + 1 >= y /\ y \in Nat  BY <1>4, <2>1, <2>2
  <2>4. \A x \in L : (\A y \in L : x >= y) => x = n + 1  BY <2>3
  <2>5. Max(L) = n + 1  BY <2>3, <2>4 DEF Max
  <2> QED  BY <1>2, <1>3, <1>5, <2>2, <2>3, <2>5
<1>6. CASE thread = "main"
  <2>1. ConsumerLines' = ConsumerLines
    <3>1. \A i \in 1 .. (n + 1) : i \in 1 .. n \/ i = n + 1  OBVIOUS
    <3>2. file_out'[n + 1].by # "consumer"  BY <1>2, <1>3, <1>6
    <3> QED  BY <1>3, <3>1, <3>2 DEF ConsumerLines
  <2>2. ConsumerLines # {} => Max(ConsumerLines) \in 1 .. n  BY <1>4, LargestExists
  <2> QED  BY <1>3, <1>6, <2>1, <2>2
<1> QED  BY <1>5, <1>6

-----------------------------------------------------------------------------
(* The threads' own state *)

LEMMA ThreadsTypeKeeps ==
  ASSUME EndInv, [Next]_vars
  PROVE  ThreadsType'
<1> DEFINE q == queue_in
<1>0. queue_in \in Seq(TPs) /\ Len(queue_in) \in Nat /\ depth_in \in Nat /\ n_tries \in Nat
  BY BoundsAssumption DEF EndInv, Inv, SequencesOfTPs
<1>1. Len(queue_in') <= depth_in
  <2>1. CASE queue_in' = queue_in  BY <2>1 DEF EndInv, ThreadsType
  <2>2. CASE AddToQueue /\ queue_in' # queue_in
    <3>1. Len(queue_in) < depth_in /\ queue_in' = Append(queue_in, n_tps_total')
      BY <2>2 DEF AddToQueue
    <3>2. Len(queue_in') = Len(queue_in) + 1  BY <1>0, <3>1
    <3> QED  BY <1>0, <3>1, <3>2
  <2>3. CASE Pop /\ queue_in' # queue_in
    <3>1. queue_in # <<>> /\ queue_in' = Tail(queue_in)  BY <2>3 DEF Pop
    <3>2. Len(queue_in') = Len(queue_in) - 1  BY <1>0, <3>1
    <3> QED  BY <1>0, <3>2 DEF EndInv, ThreadsType
  <2> QED
    BY <2>1, <2>2, <2>3
    DEF Next, Main, Worker, Consumer, StopAdding, SoftStopWaits, SoftStopGivesUp,
        StopProcessing, StopConsuming, EnterLastCluster, GetLastCluster, PrintLastCluster,
        Join, EnterMaker, MakeTC, PushTCs,
        CheckProcessOn, GetNextProcessed, PrintTC, CheckConsumeOn, vars, queueVars
<1>8. raced' \in BOOLEAN
  BY DEF EndInv, ThreadsType, Next, Main, Worker, Consumer, AddToQueue, StopAdding,
         SoftStopWaits, SoftStopGivesUp, StopProcessing, StopConsuming, EnterLastCluster,
         GetLastCluster,
         PrintLastCluster, Join, Pop, EnterMaker, MakeTC, PushTCs, CheckProcessOn,
         GetNextProcessed, PrintTC,
         CheckConsumeOn, vars, workerVars
<1>2. worker' \in {"pop", "make", "making", "push", "check", "done"}
  BY DEF EndInv, ThreadsType, Next, Main, Worker, Consumer, AddToQueue, StopAdding,
         SoftStopWaits, SoftStopGivesUp, StopProcessing, StopConsuming, EnterLastCluster,
         GetLastCluster,
         PrintLastCluster, Join, Pop, EnterMaker, MakeTC, PushTCs, CheckProcessOn,
         GetNextProcessed, PrintTC,
         CheckConsumeOn, vars, workerVars
<1>3. consumer' \in Holding \cup {"pop", "check", "done"}
  BY DEF EndInv, ThreadsType, Holding, Next, Main, Worker, Consumer, AddToQueue, StopAdding,
         SoftStopWaits, SoftStopGivesUp, StopProcessing, StopConsuming, EnterLastCluster,
         GetLastCluster,
         PrintLastCluster, Join, Pop, EnterMaker, MakeTC, PushTCs, CheckProcessOn,
         GetNextProcessed, PrintTC,
         CheckConsumeOn, vars, takerVars
<1>4. main' \in Holding \cup {"add", "soft_stop", "stop", "consumer_stop", "last_cluster",
                              "taking", "join", "done"}
  BY DEF EndInv, ThreadsType, Holding, Next, Main, Worker, Consumer, AddToQueue, StopAdding,
         SoftStopWaits, SoftStopGivesUp, StopProcessing, StopConsuming, EnterLastCluster,
         GetLastCluster,
         PrintLastCluster, Join, Pop, EnterMaker, MakeTC, PushTCs, CheckProcessOn,
         GetNextProcessed, PrintTC,
         CheckConsumeOn, vars, mainVars
<1>5. i_try' \in 0 .. n_tries
  <2>1. CASE SoftStopWaits
    <3>1. i_try \in 0 .. n_tries /\ i_try < n_tries /\ i_try' = i_try + 1
      BY <2>1 DEF EndInv, ThreadsType, SoftStopWaits
    <3> QED  BY <1>0, <3>1
  <2>2. CASE i_try' = i_try  BY <2>2 DEF EndInv, ThreadsType
  <2> QED
    BY <2>1, <2>2
    DEF Next, Main, Worker, Consumer, AddToQueue, StopAdding, SoftStopGivesUp,
        StopProcessing, StopConsuming, EnterLastCluster, GetLastCluster, PrintLastCluster,
        Join, Pop, EnterMaker, MakeTC,
        PushTCs, CheckProcessOn, GetNextProcessed, PrintTC, CheckConsumeOn, vars, mainVars
<1>6. consume_on' \in BOOLEAN
  BY DEF EndInv, ThreadsType, Next, Main, Worker, Consumer, AddToQueue, StopAdding,
         SoftStopWaits, SoftStopGivesUp, StopProcessing, StopConsuming, EnterLastCluster,
         GetLastCluster,
         PrintLastCluster, Join, Pop, EnterMaker, MakeTC, PushTCs, CheckProcessOn,
         GetNextProcessed, PrintTC,
         CheckConsumeOn, vars, consumerVars
<1>7. n_tc' \in Nat /\ loaded' \in [{"main", "consumer"} -> Nat]
  <2>1. n_tc \in Nat /\ loaded \in [{"main", "consumer"} -> Nat]  BY DEF EndInv, ThreadsType
  <2>2. CASE UNCHANGED <<n_tc, loaded>>  BY <2>1, <2>2
  <2>3. ASSUME NEW thread \in {"main", "consumer"}, LoadCount(thread) \/ StoreCount(thread)
        PROVE  n_tc' \in Nat /\ loaded' \in [{"main", "consumer"} -> Nat]
    BY <2>1, <2>3 DEF LoadCount, StoreCount
  <2> QED
    BY <2>2, <2>3
    DEF Next, Main, Worker, Consumer, AddToQueue, StopAdding, SoftStopWaits, SoftStopGivesUp,
        StopProcessing, StopConsuming, EnterLastCluster, GetLastCluster, PrintLastCluster,
        Join, Pop, EnterMaker, MakeTC,
        PushTCs, CheckProcessOn, GetNextProcessed, PrintTC, CheckConsumeOn, WriteLine, vars,
        consumerVars
<1> QED  BY <1>1, <1>2, <1>3, <1>4, <1>5, <1>6, <1>7, <1>8 DEF ThreadsType

LEMMA TCsHoldTPsKeeps ==
  ASSUME EndInv, [Next]_vars
  PROVE  TCsHoldTPs'
<1>0. TCsHoldTPs /\ SequencesOfTPs /\ HandsEmpty  BY DEF EndInv, Inv
<1>1. CASE Pop
  <2>1. /\ UNCHANGED <<queue_out, tcs, consumer, tc>>
        /\ worker' # "making" /\ (worker' = "make" => tp' = <<Head(queue_in)>>)
    BY <1>1 DEF Pop, takerVars
  <2>2. <<Head(queue_in)>> # <<>>  OBVIOUS
  <2> QED  BY <1>0, <2>1, <2>2 DEF TCsHoldTPs
<1>2. CASE MakeTC
  <2>1. UNCHANGED <<queue_out, consumer, tc>> /\ worker = "making" /\ worker' = "push"
    BY <1>2 DEF MakeTC, takerVars
  <2>2. PICK x \in Seq(TPs) : x = cluster  BY <1>0 DEF SequencesOfTPs
  <2>3. PICK y \in Seq(TPs) : y = tp /\ y # <<>>  BY <1>0, <2>1 DEF SequencesOfTPs, TCsHoldTPs
  <2>4. PICK xy \in Seq(TPs) : xy = x \o y  BY ConcatProperties
  <2>5. xy # <<>>
    <3>1. Len(xy) = Len(x) + Len(y) /\ Len(y) # 0 /\ Len(x) \in Nat /\ Len(y) \in Nat
      BY <2>3, <2>4, ConcatProperties, EmptySeq
    <3> QED  BY <3>1
  <2>6. tcs' = <<>> \/ \E z \in Seq(TPs) : z # <<>> /\ tcs' = <<z>>
    BY <1>2, <2>2, <2>3, <2>4, <2>5 DEF MakeTC
  <2>7. \A i \in 1 .. Len(tcs') : tcs'[i] # <<>>  BY <2>6
  <2> QED  BY <1>0, <2>1, <2>7 DEF TCsHoldTPs
<1>3. CASE PushTCs
  <2>1. /\ UNCHANGED <<consumer, tc>> /\ worker' = "check" /\ tcs' = <<>>
        /\ queue_out' = queue_out \o tcs
    BY <1>3 DEF PushTCs, takerVars
  <2>2. PICK o \in Seq(Seq(TPs)) : o = queue_out  BY <1>0 DEF SequencesOfTPs
  <2>3. PICK t \in Seq(Seq(TPs)) : t = tcs  BY <1>0 DEF SequencesOfTPs
  <2>4. PICK ot \in Seq(Seq(TPs)) : ot = o \o t  BY ConcatProperties
  <2>5. \A i \in 1 .. Len(ot) : ot[i] # <<>>
    <3>1. SUFFICES ASSUME NEW i \in 1 .. Len(ot) PROVE ot[i] # <<>>
      OBVIOUS
    <3>2. Len(ot) = Len(o) + Len(t) /\ Len(o) \in Nat /\ Len(t) \in Nat
      BY <2>4, ConcatProperties
    <3>3. CASE i <= Len(o)
      <4>1. i \in 1 .. Len(o) /\ ot[i] = o[i]  BY <2>4, <3>2, <3>3, ConcatProperties
      <4> QED  BY <1>0, <2>2, <4>1 DEF TCsHoldTPs
    <3>4. CASE ~ (i <= Len(o))
      <4>1. i - Len(o) \in 1 .. Len(t) /\ ot[i] = t[i - Len(o)]
        BY <2>4, <3>2, <3>4, ConcatProperties
      <4> QED  BY <1>0, <2>3, <4>1 DEF TCsHoldTPs
    <3> QED  BY <3>3, <3>4
  <2>6. \A i \in 1 .. Len(<<>>) : <<>>[i] # <<>>
    <3>1. 1 .. Len(<<>>) = {}  BY EmptySeq
    <3> QED  BY <3>1
  <2> QED  BY <1>0, <2>1, <2>2, <2>3, <2>4, <2>5, <2>6 DEF TCsHoldTPs
<1>4. CASE GetNextProcessed
  <2>1. UNCHANGED <<tcs, worker, tp>> /\ consumer = "pop"
    BY <1>4 DEF GetNextProcessed, workerVars
  <2>2. CASE queue_out = <<>>
    <3>1. consumer' = "check" /\ UNCHANGED <<queue_out, tc>>  BY <1>4, <2>2 DEF GetNextProcessed
    <3> QED  BY <1>0, <2>1, <3>1 DEF TCsHoldTPs, Holding
  <2>3. CASE queue_out # <<>>
    <3>1. PICK o \in Seq(Seq(TPs)) : o = queue_out /\ o # <<>>
      BY <1>0, <2>3 DEF SequencesOfTPs
    <3>2. consumer' = "load" /\ tc' = Head(o) /\ queue_out' = Tail(o)
      BY <1>4, <2>3, <3>1 DEF GetNextProcessed
    <3>3. Head(o) = o[1] /\ Len(o) \in Nat \ {0}  BY <3>1, HeadTailProperties, EmptySeq
    <3>4. PICK r \in Seq(Seq(TPs)) : r = Tail(o) /\ Len(r) = Len(o) - 1
      BY <3>1, HeadTailProperties
    <3>5. \A i \in 1 .. Len(r) : r[i] = o[i + 1] /\ i + 1 \in 1 .. Len(o)
      BY <3>1, <3>3, <3>4, HeadTailProperties
    <3>6. \A i \in 1 .. Len(o) : o[i] # <<>>  BY <1>0, <3>1 DEF TCsHoldTPs
    <3>7. Head(o) # <<>>  BY <3>3, <3>6
    <3>8. \A i \in 1 .. Len(r) : r[i] # <<>>  BY <3>5, <3>6
    <3> QED  BY <1>0, <2>1, <3>2, <3>4, <3>7, <3>8 DEF TCsHoldTPs, Holding
  <2> QED  BY <2>2, <2>3
<1>5. CASE PrintTC
  BY <1>0, <1>5 DEF PrintTC, TCsHoldTPs, Holding, None, queueVars, workerVars
<1>6. CASE CheckConsumeOn
  <2>1. UNCHANGED <<queue_out, tcs, worker, tp, tc>> /\ consumer = "check"
        /\ consumer' \in {"pop", "done"}
    BY <1>6 DEF CheckConsumeOn, queueVars, workerVars
  <2> QED  BY <1>0, <2>1 DEF TCsHoldTPs, Holding
<1>7. CASE CheckProcessOn
  <2>1. UNCHANGED <<queue_out, tcs, tp, tc, consumer>> /\ worker' \in {"pop", "done"}
    BY <1>7 DEF CheckProcessOn, queueVars, takerVars
  <2> QED  BY <1>0, <2>1 DEF TCsHoldTPs
<1>8. CASE UNCHANGED <<queue_out, tcs, worker, tp, tc, consumer>>
  BY <1>0, <1>8 DEF TCsHoldTPs
<1>9. CASE EnterMaker
  <2>1. UNCHANGED <<queue_out, tcs, tp, tc, consumer>> /\ worker = "make"
    BY <1>9 DEF EnterMaker, queueVars, takerVars
  <2> QED  BY <1>0, <2>1 DEF TCsHoldTPs
<1> QED
  BY <1>1, <1>2, <1>3, <1>4, <1>5, <1>6, <1>7, <1>8, <1>9
  DEF Next, Main, Worker, Consumer, AddToQueue, StopAdding, SoftStopWaits, SoftStopGivesUp,
      StopProcessing, StopConsuming, EnterLastCluster, GetLastCluster, PrintLastCluster, Join,
      vars, queueVars,
      workerVars, takerVars

\* Of the numbers of lines, TPs and counts no step but those that print changes any.
LEMMA CountsKept ==
  ASSUME LinesAreCounted,
         UNCHANGED <<accepted, n_tps_total, file_out, tc, n_tc, loaded>>,
         (consumer \in Holding) <=> (consumer' \in Holding),
         (consumer = "write") <=> (consumer' = "write"),
         (main = "write") <=> (main' = "write"),
         SequencesOfTPs, main \in {"join", "done"} => main' \in {"join", "done"}
  PROVE  LinesAreCounted'
<1>1. TPsConsumed' = TPsConsumed  BY PlacesKept
<1>2. PICK c \in Nat : c = Len(TPsConsumed)  BY PlacesType
<1>3. PICK f \in Nat : f = Len(file_out)  BY DEF SequencesOfTPs
<1>4. f + AsNumber(consumer \in Holding) <= c + AsNumber(main \in {"join", "done"})
  BY <1>2, <1>3 DEF LinesAreCounted
<1>5. f + AsNumber(consumer' \in Holding) <= c + AsNumber(main' \in {"join", "done"})
  BY <1>4 DEF AsNumber
<1>6. /\ AsNumber(consumer' = "write") = AsNumber(consumer = "write")
      /\ AsNumber(main' = "write") = AsNumber(main = "write")
  BY DEF AsNumber
<1> QED  BY <1>1, <1>2, <1>3, <1>5, <1>6 DEF LinesAreCounted

LEMMA LinesAreCountedKeeps ==
  ASSUME EndInv, [Next]_vars
  PROVE  LinesAreCounted'
<1>0. LinesAreCounted /\ TCsHoldTPs /\ SequencesOfTPs /\ HandsEmpty /\ ThreadsType
  BY DEF EndInv, Inv
<1>1. PICK c \in Nat : c = Len(TPsConsumed)  BY <1>0, PlacesType
<1>2. PICK f \in Nat : f = Len(file_out)  BY <1>0 DEF SequencesOfTPs
<1>3. PICK lm \in Nat, lc \in Nat, n \in Nat :
         lm = loaded["main"] /\ lc = loaded["consumer"] /\ n = n_tc
  BY <1>0 DEF ThreadsType
<1>4. /\ f + AsNumber(consumer \in Holding) <= c + AsNumber(main \in {"join", "done"})
      /\ \A k \in {n, lm, lc} :
           k <= f + AsNumber(consumer = "write") + AsNumber(main = "write")
  BY <1>0, <1>1, <1>2, <1>3 DEF LinesAreCounted
<1>5. CASE AddToQueue
  <2>1. /\ UNCHANGED <<file_out, tc, n_tc, loaded, consumer, main>>
        /\ n_tps_total' = n_tps_total + 1
        /\ accepted' = accepted \/ accepted' = Append(accepted, n_tps_total')
    BY <1>5 DEF AddToQueue, consumerVars, takerVars
  <2>2. PICK a \in Nat, p \in Nat : a = Len(accepted) /\ p = n_tps_total /\ a <= p
    BY <1>0, BoundsAssumption DEF SequencesOfTPs, LinesAreCounted
  <2>3. Len(accepted') \in {a, a + 1}
    <3>1. PICK old \in Seq(TPs) : old = accepted  BY <1>0 DEF SequencesOfTPs
    <3>2. PICK new \in TPs : new = n_tps_total'
      BY <1>0, <1>5, BoundsAssumption DEF AddToQueue, SequencesOfTPs, TPs
    <3>3. Len(Append(old, new)) = Len(old) + 1  BY AppendProperties
    <3> QED  BY <2>1, <2>2, <3>1, <3>2, <3>3
  <2>4. Len(accepted') <= n_tps_total'  BY <2>1, <2>2, <2>3
  <2>5. TPsConsumed' = TPsConsumed  BY <2>1, PlacesKept
  <2> QED  BY <1>0, <2>1, <2>4, <2>5 DEF LinesAreCounted
<1>6. CASE GetNextProcessed
  <2>1. /\ UNCHANGED <<accepted, n_tps_total, file_out, n_tc, loaded, main>>
        /\ consumer = "pop"
    BY <1>6 DEF GetNextProcessed, mainVars, consumerVars
  <2>2. CASE queue_out = <<>>
    <3>1. consumer' = "check" /\ tc' = tc  BY <1>6, <2>2 DEF GetNextProcessed
    <3> QED  BY <1>0, <2>1, <3>1, CountsKept DEF Holding
  <2>3. CASE queue_out # <<>>
    <3>1. PICK h \in Seq(TPs) : h = Head(queue_out) /\ h # <<>>
      <4>1. PICK o \in Seq(Seq(TPs)) : o = queue_out /\ o # <<>>
        BY <1>0, <2>3 DEF SequencesOfTPs
      <4>2. Head(o) = o[1] /\ 1 \in 1 .. Len(o) /\ Head(o) \in Seq(TPs)
        BY <4>1, HeadTailProperties, EmptySeq
      <4> QED  BY <1>0, <4>1, <4>2 DEF TCsHoldTPs
    <3>2. PICK w \in Seq(TPs) : w = TPsConsumed  BY <1>0, PlacesType
    <3>3. PICK m \in Nat : m = Len(h) /\ m >= 1  BY <3>1, EmptySeq
    <3>4. Len(TPsConsumed') = c + m
      <4>1. TPsConsumed' = w \o h  BY <1>6, <2>3, <3>1, <3>2, TakenByConsumer DEF EndInv
      <4> QED  BY <1>1, <3>2, <3>3, <4>1, ConcatProperties
    <3>5. consumer' = "load"  BY <1>6, <2>3 DEF GetNextProcessed
    <3>6. /\ AsNumber(consumer \in Holding) = 0 /\ AsNumber(consumer' \in Holding) = 1
          /\ AsNumber(consumer' = "write") = AsNumber(consumer = "write")
      BY <2>1, <3>5 DEF AsNumber, Holding
    <3>7. PICK aj \in Nat : aj = AsNumber(main \in {"join", "done"})  BY DEF AsNumber
    <3>8. f + 0 <= c + aj  BY <1>4, <3>6, <3>7
    <3>9. f + 1 <= (c + m) + aj  BY <3>3, <3>8
    <3>10. f + AsNumber(consumer' \in Holding)
             <= Len(TPsConsumed') + AsNumber(main \in {"join", "done"})
      BY <3>4, <3>6, <3>7, <3>9
    <3> QED  BY <1>0, <1>2, <2>1, <3>6, <3>10 DEF LinesAreCounted
  <2> QED  BY <2>2, <2>3
<1>7. CASE PrintTC
  <2>1. UNCHANGED <<accepted, n_tps_total, main>>
    BY <1>7 DEF PrintTC, mainVars
  <2>2. /\ AsNumber(main = "write") \in Nat /\ AsNumber(main \in {"join", "done"}) \in Nat
    BY DEF AsNumber
  <2>3. PICK am \in Nat, aj \in Nat :
          am = AsNumber(main = "write") /\ aj = AsNumber(main \in {"join", "done"})
    BY <2>2
  <2>4. CASE consumer = "load" /\ LoadCount("consumer") /\ consumer' = "store" /\ tc' = tc
    <3>1. /\ loaded'["consumer"] = n /\ loaded'["main"] = lm /\ n_tc' = n /\ file_out' = file_out
      BY <1>0, <1>3, <2>4 DEF LoadCount, ThreadsType
    <3>2. /\ AsNumber(consumer' \in Holding) = AsNumber(consumer \in Holding)
          /\ AsNumber(consumer' = "write") = AsNumber(consumer = "write")
      BY <2>4 DEF AsNumber, Holding
    <3>3. TPsConsumed' = TPsConsumed  BY <2>4, <3>1, PlacesKept
    <3> QED  BY <1>0, <1>1, <1>2, <1>4, <2>1, <3>1, <3>2, <3>3 DEF LinesAreCounted
  <2>5. CASE consumer = "store" /\ StoreCount("consumer") /\ consumer' = "write" /\ tc' = tc
    <3>1. n_tc' = lc + 1 /\ loaded' = loaded /\ file_out' = file_out
      BY <1>3, <2>5 DEF StoreCount
    <3>2. /\ AsNumber(consumer' \in Holding) = AsNumber(consumer \in Holding)
          /\ AsNumber(consumer' = "write") = 1 /\ AsNumber(consumer = "write") = 0
      BY <2>5 DEF AsNumber, Holding
    <3>3. TPsConsumed' = TPsConsumed  BY <2>5, <3>1, PlacesKept
    <3>4. lm <= f + 0 + am /\ lc <= f + 0 + am  BY <1>4, <2>3, <3>2
    <3>5. \A k \in {lc + 1, lm, lc} : k <= f + 1 + am  BY <3>4
    <3>6. \A k \in {n_tc', loaded'["main"], loaded'["consumer"]} :
             k <= f + AsNumber(consumer' = "write") + am
      BY <1>3, <3>1, <3>2, <3>5
    <3> QED  BY <1>0, <1>1, <1>2, <1>4, <2>1, <2>3, <3>1, <3>2, <3>3, <3>6 DEF LinesAreCounted
  <2>6. CASE consumer = "write" /\ WriteLine("consumer", tc) /\ consumer' = "check" /\ tc' = None
    <3>1. Len(file_out') = f + 1 /\ UNCHANGED <<n_tc, loaded>>
      BY <1>0, <1>2, <2>6 DEF WriteLine, SequencesOfTPs
    <3>2. /\ AsNumber(consumer' \in Holding) = 0 /\ AsNumber(consumer \in Holding) = 1
          /\ AsNumber(consumer' = "write") = 0 /\ AsNumber(consumer = "write") = 1
      BY <2>6 DEF AsNumber, Holding
    <3>3. TPsConsumed' = TPsConsumed  BY <1>0, <2>6, LineOfConsumer DEF None
    <3>4. f + 1 + 0 <= c + aj  BY <1>4, <2>3, <3>2
    <3>5. \A k \in {n, lm, lc} : k <= f + 1 + 0 + am  BY <1>4, <2>3, <3>2
    <3> QED
      BY <1>0, <1>1, <1>3, <2>1, <2>3, <3>1, <3>2, <3>3, <3>4, <3>5 DEF LinesAreCounted
  <2> QED  BY <1>7, <2>4, <2>5, <2>6 DEF PrintTC
<1>8. CASE PrintLastCluster
  <2>1. UNCHANGED <<accepted, n_tps_total, consumer, tc>>
    BY <1>8 DEF PrintLastCluster, takerVars
  <2>3. PICK ah \in Nat, aw \in Nat :
          ah = AsNumber(consumer \in Holding) /\ aw = AsNumber(consumer = "write")
    BY DEF AsNumber
  <2>4. CASE main = "load" /\ LoadCount("main") /\ main' = "store"
    <3>1. /\ loaded'["main"] = n /\ loaded'["consumer"] = lc /\ n_tc' = n /\ file_out' = file_out
      BY <1>0, <1>3, <2>4 DEF LoadCount, ThreadsType
    <3>2. /\ AsNumber(main' \in {"join", "done"}) = AsNumber(main \in {"join", "done"})
          /\ AsNumber(main' = "write") = AsNumber(main = "write")
      BY <2>4 DEF AsNumber
    <3>3. TPsConsumed' = TPsConsumed  BY <2>1, <3>1, PlacesKept
    <3> QED  BY <1>0, <1>1, <1>2, <1>4, <2>1, <3>1, <3>2, <3>3 DEF LinesAreCounted
  <2>5. CASE main = "store" /\ StoreCount("main") /\ main' = "write"
    <3>1. n_tc' = lm + 1 /\ loaded' = loaded /\ file_out' = file_out
      BY <1>3, <2>5 DEF StoreCount
    <3>2. /\ AsNumber(main' \in {"join", "done"}) = AsNumber(main \in {"join", "done"})
          /\ AsNumber(main' = "write") = 1 /\ AsNumber(main = "write") = 0
      BY <2>5 DEF AsNumber
    <3>3. TPsConsumed' = TPsConsumed  BY <2>1, <3>1, PlacesKept
    <3>4. lm <= f + aw + 0 /\ lc <= f + aw + 0  BY <1>4, <2>3, <3>2
    <3>5. \A k \in {lm + 1, lm, lc} : k <= f + aw + 1  BY <3>4
    <3>6. \A k \in {n_tc', loaded'["main"], loaded'["consumer"]} :
             k <= f + aw + AsNumber(main' = "write")
      BY <1>3, <3>1, <3>2, <3>5
    <3> QED  BY <1>0, <1>1, <1>2, <1>4, <2>1, <2>3, <3>1, <3>2, <3>3, <3>6 DEF LinesAreCounted
  <2>6. CASE main = "write" /\ WriteLine("main", last) /\ main' = "join"
    <3>1. Len(file_out') = f + 1 /\ UNCHANGED <<n_tc, loaded>>
      BY <1>0, <1>2, <2>6 DEF WriteLine, SequencesOfTPs
    <3>2. /\ AsNumber(main' \in {"join", "done"}) = 1 /\ AsNumber(main \in {"join", "done"}) = 0
          /\ AsNumber(main' = "write") = 0 /\ AsNumber(main = "write") = 1
      BY <2>6 DEF AsNumber
    <3>3. TPsConsumed' = TPsConsumed  BY <1>0, <2>1, <2>6, LineOfMain
    <3>4. f + 1 + ah <= c + 1  BY <1>4, <2>3, <3>2
    <3>5. \A k \in {n, lm, lc} : k <= f + 1 + aw + 0  BY <1>4, <2>3, <3>2
    <3> QED
      BY <1>0, <1>1, <1>3, <2>1, <2>3, <3>1, <3>2, <3>3, <3>4, <3>5 DEF LinesAreCounted
  <2> QED  BY <1>8, <2>4, <2>5, <2>6 DEF PrintLastCluster
<1>9. CASE CheckConsumeOn
  <2>1. /\ UNCHANGED <<accepted, n_tps_total, file_out, tc, n_tc, loaded, main>>
        /\ consumer = "check" /\ consumer' \in {"pop", "done"}
    BY <1>9 DEF CheckConsumeOn, mainVars, consumerVars
  <2> QED  BY <1>0, <2>1, CountsKept DEF Holding
<1>10. CASE \/ StopAdding \/ SoftStopWaits \/ SoftStopGivesUp \/ StopProcessing
            \/ StopConsuming \/ EnterLastCluster \/ GetLastCluster \/ Join
  <2>1. /\ UNCHANGED <<accepted, n_tps_total, file_out, tc, n_tc, loaded, consumer>>
        /\ main # "write" /\ main' # "write"
        /\ main \in {"join", "done"} => main' \in {"join", "done"}
    BY <1>10
    DEF StopAdding, SoftStopWaits, SoftStopGivesUp, StopProcessing, StopConsuming,
        EnterLastCluster, GetLastCluster, Join, consumerVars, takerVars
  <2> QED  BY <1>0, <2>1, CountsKept
<1>11. CASE Pop \/ EnterMaker \/ MakeTC \/ PushTCs \/ CheckProcessOn \/ UNCHANGED vars
  <2>1. UNCHANGED <<accepted, n_tps_total, file_out, tc, n_tc, loaded, consumer, main>>
    BY <1>11
    DEF Pop, EnterMaker, MakeTC, PushTCs, CheckProcessOn, vars, consumerVars, mainVars, takerVars
  <2> QED  BY <1>0, <2>1, CountsKept
<1> QED
  BY <1>5, <1>6, <1>7, <1>8, <1>9, <1>10, <1>11 DEF Next, Main, Worker, Consumer

-----------------------------------------------------------------------------
(* The last cluster *)

\* From hand to hand, the TC that was made last stays that.
LEMMA NewestKept ==
  ASSUME EndInv, PushTCs \/ GetNextProcessed \/ PrintTC \/ PrintLastCluster
  PROVE  NewestTC' = NewestTC
<1>0. TCsHoldTPs /\ SequencesOfTPs /\ HandsEmpty  BY DEF EndInv, Inv
<1>1. CASE PushTCs
  <2>1. UNCHANGED <<tc, file_out>> /\ tcs' = <<>> /\ queue_out' = queue_out \o tcs
    BY <1>1 DEF PushTCs, consumerVars, takerVars
  <2>2. PICK o \in Seq(Seq(TPs)) : o = queue_out  BY <1>0 DEF SequencesOfTPs
  <2>3. PICK t \in Seq(Seq(TPs)) : t = tcs  BY <1>0 DEF SequencesOfTPs
  <2>4. PICK ot \in Seq(Seq(TPs)) : ot = o \o t  BY ConcatProperties
  <2>5. CASE t = <<>>
    <3>1. o \o <<>> = o  BY ConcatEmptySeq
    <3>2. queue_out' = queue_out /\ tcs' = tcs  BY <2>1, <2>2, <2>3, <2>5, <3>1
    <3> QED  BY <2>1, <3>2 DEF NewestTC, ConsumerLines
  <2>6. CASE t # <<>>
    <3>1. Len(ot) = Len(o) + Len(t) /\ Len(t) \in Nat \ {0} /\ Len(o) \in Nat
      BY <2>4, <2>6, ConcatProperties, EmptySeq
    <3>2. ot # <<>>  BY <3>1, EmptySeq
    <3>3. Len(ot) \in 1 .. (Len(o) + Len(t)) /\ ~ (Len(ot) <= Len(o))
          /\ Len(ot) - Len(o) = Len(t)
      BY <3>1
    <3>4. ot[Len(ot)] = t[Len(t)]  BY <2>4, <3>3, ConcatProperties
    <3>5. NewestTC = t[Len(t)]  BY <2>3, <2>6 DEF NewestTC, Last
    <3>6. NewestTC' = ot[Len(ot)]  BY <2>1, <2>2, <2>3, <2>4, <3>2 DEF NewestTC, Last
    <3> QED  BY <3>4, <3>5, <3>6
  <2> QED  BY <2>5, <2>6
<1>2. CASE GetNextProcessed
  <2>1. UNCHANGED <<tcs, file_out>> /\ consumer = "pop"
    BY <1>2 DEF GetNextProcessed, workerVars, consumerVars
  <2>2. CASE queue_out = <<>>
    <3>1. UNCHANGED <<queue_out, tc>>  BY <1>2, <2>2 DEF GetNextProcessed
    <3> QED  BY <2>1, <3>1 DEF NewestTC, ConsumerLines
  <2>3. CASE queue_out # <<>>
    <3>1. PICK o \in Seq(Seq(TPs)) : o = queue_out /\ o # <<>>
      BY <1>0, <2>3 DEF SequencesOfTPs
    <3>2. tc' = Head(o) /\ queue_out' = Tail(o)
      BY <1>2, <2>3, <3>1 DEF GetNextProcessed
    <3>3. Head(o) = o[1] /\ Len(o) \in Nat \ {0}  BY <3>1, HeadTailProperties, EmptySeq
    <3>4. PICK r \in Seq(Seq(TPs)) : r = Tail(o) /\ Len(r) = Len(o) - 1
      BY <3>1, HeadTailProperties
    <3>5. CASE tcs # <<>>  BY <2>1, <3>5 DEF NewestTC
    <3>6. CASE tcs = <<>> /\ r # <<>>
      <4>1. Len(r) \in Nat \ {0}  BY <3>6, EmptySeq
      <4>2. r[Len(r)] = o[Len(r) + 1]  BY <3>1, <3>4, <4>1, HeadTailProperties
      <4>3. Len(r) + 1 = Len(o)  BY <3>3, <3>4, <4>1
      <4>4. NewestTC = o[Len(o)]  BY <3>1, <3>6 DEF NewestTC, Last
      <4>5. NewestTC' = r[Len(r)]  BY <2>1, <3>2, <3>4, <3>6 DEF NewestTC, Last
      <4> QED  BY <4>2, <4>3, <4>4, <4>5
    <3>7. CASE tcs = <<>> /\ r = <<>>
      <4>0. Len(r) = 0  BY <3>7, EmptySeq
      <4>1. Len(o) = 1
        <5>1. PICK k \in Nat : k = Len(o)  BY <3>3
        <5>2. 0 = k - 1  BY <3>4, <4>0, <5>1, Zenon
        <5>3. k = 1
          <6>1. ASSUME NEW m \in Nat, 0 = m - 1 PROVE m = 1  BY <6>1
          <6> QED  BY <5>2, <6>1, Zenon
        <5> QED  BY <5>1, <5>3, Zenon
      <4>2. o[1] # <<>>  BY <1>0, <3>1, <4>1 DEF TCsHoldTPs
      <4>3. NewestTC = o[1]  BY <3>1, <3>7, <4>1 DEF NewestTC, Last
      <4>4. NewestTC' = o[1]  BY <2>1, <3>2, <3>3, <3>4, <3>7, <4>2 DEF NewestTC, None
      <4> QED  BY <4>3, <4>4
    <3> QED  BY <3>5, <3>6, <3>7
  <2> QED  BY <2>2, <2>3
<1>3. CASE WriteLine("consumer", tc) /\ consumer = "write" /\ tc' = <<>>
           /\ UNCHANGED <<tcs, queue_out>>
  <2>1. PICK line \in Seq(TPs) : line = tc /\ line # <<>>
    BY <1>0, <1>3 DEF SequencesOfTPs, TCsHoldTPs, Holding
  <2>2. ConsumerLines' # {} /\ file_out'[Max(ConsumerLines')].tc = line
    BY <1>0, <1>3, <2>1, LastLine
  <2>3. CASE tcs # <<>> \/ queue_out # <<>>  BY <1>3, <2>3 DEF NewestTC
  <2>4. CASE tcs = <<>> /\ queue_out = <<>>
    BY <1>3, <2>1, <2>2, <2>4 DEF NewestTC, None
  <2> QED  BY <2>3, <2>4
<1>4. CASE WriteLine("main", last) /\ UNCHANGED <<tcs, queue_out, tc>>
  <2>1. PICK line \in Seq(TPs) : line = last  BY <1>0 DEF SequencesOfTPs
  <2>2. /\ ConsumerLines' = ConsumerLines
        /\ ConsumerLines # {} =>
             file_out'[Max(ConsumerLines')].tc = file_out[Max(ConsumerLines)].tc
    BY <1>0, <1>4, <2>1, LastLine
  <2> QED  BY <1>4, <2>2 DEF NewestTC
<1>5. CASE UNCHANGED <<tcs, queue_out, tc, file_out>>
  BY <1>5 DEF NewestTC, ConsumerLines
<1> QED
  BY <1>1, <1>2, <1>3, <1>4, <1>5
  DEF PrintTC, PrintLastCluster, LoadCount, StoreCount, None, queueVars, workerVars, takerVars

LEMMA LastKeeps ==
  ASSUME EndInv, [Next]_vars
  PROVE  LastIsLast' /\ LastClusterEndsTheFile'
<1>0. TCsHoldTPs /\ SequencesOfTPs /\ HandsEmpty /\ LastIsLast /\ LastClusterEndsTheFile
  BY DEF EndInv, Inv
<1>1. SequencesOfTPs'  BY InvNext DEF EndInv, Inv
<1>6. main' \notin {"add", "soft_stop", "stop"} => ~ process_on'
  BY <1>0
  DEF LastIsLast, Next, Main, Worker, Consumer, AddToQueue, StopAdding, SoftStopWaits,
      SoftStopGivesUp, StopProcessing, StopConsuming, EnterLastCluster, GetLastCluster,
      PrintLastCluster, Join,
      Pop, EnterMaker, MakeTC, PushTCs, CheckProcessOn, GetNextProcessed, PrintTC,
      CheckConsumeOn, vars,
      queueVars, mainVars
<1>2. CASE last' = <<>>
  <2>1. LastIsLast'  BY <1>2, <1>6 DEF LastIsLast
  <2>2. PICK s \in Seq(TPs) : s = (cluster \o tp)'  BY <1>1, ConcatProperties DEF SequencesOfTPs
  <2>3. LastClusterEndsTheFile'  BY <1>2, <2>2, NothingIsPrefix DEF LastClusterEndsTheFile
  <2> QED  BY <2>1, <2>3
<1>3. CASE last' # <<>> /\ last' # last
  <2>1. GetLastCluster
    BY <1>3
    DEF Next, Main, Worker, Consumer, AddToQueue, StopAdding, SoftStopWaits, SoftStopGivesUp,
        StopProcessing, StopConsuming, EnterLastCluster, PrintLastCluster, Join, Pop,
        EnterMaker, MakeTC, PushTCs,
        CheckProcessOn, GetNextProcessed, PrintTC, CheckConsumeOn, vars, mainVars
  <2>0. raced' = raced  BY <2>1 DEF GetLastCluster, workerVars
  <2>r. CASE raced
    <3>1. LastIsLast'
      <4>1. ~ process_on /\ process_on' = process_on
        BY <1>0, <2>1 DEF LastIsLast, GetLastCluster, queueVars
      <4> QED  BY <1>6, <2>r, <2>0, <4>1, Zenon DEF LastIsLast
    <3> QED  BY <2>r, <2>0, <3>1, Zenon DEF LastClusterEndsTheFile
  <2>n. CASE ~ raced
   <3>2. /\ last' = cluster /\ main = "taking" /\ main' \in Holding
         /\ UNCHANGED <<cluster, tp, worker, process_on>>
     BY <1>3, <2>1, <2>n DEF GetLastCluster, Holding, queueVars, workerVars
   <3>3. PICK x \in Seq(TPs) : x = cluster  BY <1>0 DEF SequencesOfTPs
   <3>4. PICK y \in Seq(TPs) : y = tp  BY <1>0 DEF SequencesOfTPs
   <3>5. IsPrefix(x, x) /\ IsPrefix(x, x \o y)  BY PrefixOfItself, PrefixGrows
   <3>6. ~ process_on  BY <1>0, <3>2 DEF LastIsLast
   <3>7. IsPrefix(last', cluster') /\ ~ process_on'  BY <3>2, <3>3, <3>5, <3>6
   <3>8. LastIsLast'  BY <1>6, <3>7 DEF LastIsLast
   <3>9. LastClusterEndsTheFile'
     <4>1. IsPrefix(last', cluster' \o tp')  BY <3>2, <3>3, <3>4, <3>5
     <4> QED  BY <4>1 DEF LastClusterEndsTheFile
   <3> QED  BY <3>8, <3>9
  <2> QED  BY <2>r, <2>n
<1>4. CASE last' # <<>> /\ last' = last
  <2>1. PICK l \in Seq(TPs) : l = last /\ l # <<>> /\ l = last'
    BY <1>0, <1>4 DEF SequencesOfTPs
  <2>2. /\ ~ process_on
        /\ worker \in {"pop", "make", "making"} => raced \/ IsPrefix(l, cluster)
    BY <1>0, <2>1 DEF LastIsLast
  <2>3. ~ process_on'
    BY <2>2
    DEF Next, Main, Worker, Consumer, AddToQueue, StopAdding, SoftStopWaits, SoftStopGivesUp,
        StopProcessing, StopConsuming, EnterLastCluster, GetLastCluster, PrintLastCluster,
        Join, Pop, EnterMaker, MakeTC,
        PushTCs, CheckProcessOn, GetNextProcessed, PrintTC, CheckConsumeOn, vars, queueVars
  <2>7. raced => raced'
    BY DEF Next, Main, Worker, Consumer, AddToQueue, StopAdding, SoftStopWaits,
        SoftStopGivesUp, StopProcessing, StopConsuming, EnterLastCluster, GetLastCluster,
        PrintLastCluster, Join, Pop, EnterMaker, MakeTC, PushTCs, CheckProcessOn,
        GetNextProcessed, PrintTC, CheckConsumeOn, vars, workerVars
  <2>8. CASE raced
    <3>1. LastIsLast'  BY <1>6, <2>3, <2>7, <2>8, Zenon DEF LastIsLast
    <3> QED  BY <2>7, <2>8, <3>1, Zenon DEF LastClusterEndsTheFile
  <2>9. ~ raced /\ worker \in {"pop", "make", "making"} => IsPrefix(l, cluster)
    BY <2>2, Zenon
  <2>4. CASE MakeTC /\ ~ raced
    <3>1. worker = "making" /\ worker' = "push" /\ tp' = <<>>  BY <2>4 DEF MakeTC, None
    <3>2. PICK x \in Seq(TPs) : x = cluster  BY <1>0 DEF SequencesOfTPs
    <3>3. PICK y \in Seq(TPs) : y = tp  BY <1>0 DEF SequencesOfTPs
    <3>4. PICK xy \in Seq(TPs) : xy = x \o y  BY ConcatProperties
    <3>5. IsPrefix(l, x) /\ IsPrefix(l, xy)  BY <2>9, <2>4, <3>1, <3>2, <3>4, PrefixGrows
    <3>6. LastIsLast'  BY <1>6, <2>1, <2>3, <3>1 DEF LastIsLast
    <3>7. CASE cluster' = xy
      <4>1. xy \o <<>> = xy  BY ConcatEmptySeq
      <4> QED  BY <2>1, <3>1, <3>5, <3>6, <3>7, <4>1 DEF LastClusterEndsTheFile
    <3>8. CASE tcs' = <<xy>> \/ tcs' = <<x>>
      <4>1. PICK z \in Seq(TPs) : z \in {x, xy} /\ tcs' = <<z>>  BY <3>8
      <4>2. <<z>> # <<>> /\ Len(<<z>>) = 1 /\ <<z>>[1] = z  OBVIOUS
      <4>3. NewestTC' = z  BY <4>1, <4>2 DEF NewestTC, Last
      <4> QED  BY <2>1, <3>5, <3>6, <4>1, <4>3 DEF LastClusterEndsTheFile
    <3> QED  BY <2>4, <3>2, <3>3, <3>4, <3>7, <3>8 DEF MakeTC
  <2>5. CASE Pop /\ ~ raced
    <3>1. /\ UNCHANGED <<cluster, queue_out, tcs, tc, file_out>> /\ worker = "pop"
      BY <2>5 DEF Pop, consumerVars, takerVars
    <3>2. IsPrefix(l, cluster)  BY <2>5, <2>9, <3>1
    <3>3. LastIsLast'  BY <1>6, <2>1, <2>3, <3>1, <3>2 DEF LastIsLast
    <3>4. PICK x \in Seq(TPs) : x = cluster /\ x = cluster'
      BY <1>0, <3>1 DEF SequencesOfTPs
    <3>5. PICK y \in Seq(TPs) : y = tp'  BY <1>1 DEF SequencesOfTPs
    <3>6. IsPrefix(l, x \o y)  BY <3>2, <3>4, PrefixGrows
    <3> QED  BY <2>1, <3>3, <3>4, <3>5, <3>6 DEF LastClusterEndsTheFile
  <2>6. CASE ~ MakeTC /\ ~ Pop /\ ~ raced
    <3>1. UNCHANGED <<cluster, tp>>
      BY <2>6
      DEF Next, Main, Worker, Consumer, AddToQueue, StopAdding, SoftStopWaits,
          SoftStopGivesUp, StopProcessing, StopConsuming, EnterLastCluster, GetLastCluster,
          PrintLastCluster,
          Join, EnterMaker, PushTCs, CheckProcessOn, GetNextProcessed, PrintTC, CheckConsumeOn,
          vars,
          queueVars, workerVars
    <3>2. worker' \in {"pop", "make", "making"} => worker \in {"pop", "make", "making"}
      BY <2>2, <2>6
      DEF Next, Main, Worker, Consumer, AddToQueue, StopAdding, SoftStopWaits,
          SoftStopGivesUp, StopProcessing, StopConsuming, EnterLastCluster, GetLastCluster,
          PrintLastCluster,
          Join, EnterMaker, PushTCs, CheckProcessOn, GetNextProcessed, PrintTC, CheckConsumeOn,
          vars,
          workerVars
    <3>3. LastIsLast'
      <4>1. worker' \in {"pop", "make", "making"} => IsPrefix(l, cluster')
        BY <2>6, <2>9, <3>1, <3>2
      <4> QED  BY <1>6, <2>1, <2>3, <4>1 DEF LastIsLast
    <3>4. NewestTC' = NewestTC
      <4>1. CASE UNCHANGED <<tcs, queue_out, tc, file_out>>
        BY <4>1 DEF NewestTC, ConsumerLines
      <4> QED
        BY <2>6, <4>1, NewestKept
        DEF Next, Main, Worker, Consumer, AddToQueue, StopAdding, SoftStopWaits,
            SoftStopGivesUp, StopProcessing, StopConsuming, EnterLastCluster, GetLastCluster,
            Join, EnterMaker, CheckProcessOn, CheckConsumeOn, vars, queueVars, consumerVars, workerVars,
            takerVars
    <3>5. IsPrefix(last, cluster \o tp) \/ IsPrefix(last, NewestTC)
      BY <1>0, <2>6, Zenon DEF LastClusterEndsTheFile
    <3> QED  BY <2>1, <3>1, <3>3, <3>4, <3>5 DEF LastClusterEndsTheFile
  <2> QED  BY <2>4, <2>5, <2>6, <2>8
<1> QED  BY <1>2, <1>3, <1>4

-----------------------------------------------------------------------------
LEMMA EndInvInit == Init => EndInv
<1> SUFFICES ASSUME Init PROVE EndInv
  OBVIOUS
<1>1. Inv  BY InvInit
<1>2. ThreadsType
  <2>1. raced \in BOOLEAN  BY Zenon DEF Init
  <2> QED  BY <2>1, BoundsAssumption, EmptySeq DEF Init, ThreadsType, Holding
<1>3. TCsHoldTPs
  <2>1. 1 .. Len(<<>>) = {}  BY EmptySeq
  <2> QED  BY <2>1 DEF Init, None, TCsHoldTPs, Holding
<1>4. LinesAreCounted
  <2>1. Len(TPsConsumed) \in Nat  BY <1>1, PlacesType DEF Inv
  <2>2. Len(file_out) = 0 /\ Len(accepted) = 0  BY EmptySeq DEF Init
  <2>3. /\ AsNumber(consumer \in Holding) = 0 /\ AsNumber(main \in {"join", "done"}) = 0
        /\ AsNumber(consumer = "write") = 0 /\ AsNumber(main = "write") = 0
    BY DEF Init, AsNumber, Holding
  <2>4. n_tps_total = 0 /\ n_tc = 0 /\ loaded["main"] = 0 /\ loaded["consumer"] = 0
    BY DEF Init
  <2> QED  BY <2>1, <2>2, <2>3, <2>4 DEF LinesAreCounted
<1>5. LastIsLast  BY DEF Init, None, LastIsLast
<1>6. LastClusterEndsTheFile
  <2>1. PICK s \in Seq(TPs) : s = cluster \o tp
    BY <1>1, PlacesType DEF Inv
  <2> QED  BY <2>1, NothingIsPrefix DEF Init, None, LastClusterEndsTheFile
<1> QED  BY <1>1, <1>2, <1>3, <1>4, <1>5, <1>6 DEF EndInv

LEMMA EndInvNext == EndInv /\ [Next]_vars => EndInv'
<1> SUFFICES ASSUME EndInv, [Next]_vars PROVE EndInv'
  OBVIOUS
<1>1. Inv'  BY InvNext DEF EndInv
<1> QED
  BY <1>1, ThreadsTypeKeeps, TCsHoldTPsKeeps, LinesAreCountedKeeps, LastKeeps DEF EndInv

\* Every variable is of its type; in particular n_tc, which two threads count
\* without a lock, is at most one above the TPs.
THEOREM ThreadsTypeCorrectness == Spec => []TypeOK
<1>1. EndInv => TypeOK
  <2> SUFFICES ASSUME EndInv PROVE TypeOK
    OBVIOUS
  <2>0. Inv /\ SequencesOfTPs /\ ThreadsType /\ LinesAreCounted  BY DEF EndInv, Inv
  <2>1. PICK w \in Seq(TPs) : w = TPsConsumed  BY <2>0, PlacesType
  <2>2. PICK i \in Seq(TPs) : i = TPsInTCs  BY <2>0, PlacesType
  <2>3. PICK z \in Seq(TPs) : z = TPsToCome  BY <2>0, PlacesType
  <2>4. PICK wi \in Seq(TPs) : wi = w \o i /\ Len(wi) = Len(w) + Len(i)
    BY ConcatProperties
  <2>5. Len(accepted) = Len(wi) + Len(z)
    <3>1. accepted = (w \o i) \o z
      BY <2>0, <2>1, <2>2, <2>3 DEF Inv, EveryTPInItsPlace
    <3> QED  BY <2>4, <3>1, ConcatProperties
  <2>6. PICK lw \in Nat, li \in Nat, lz \in Nat, f \in Nat, n \in Nat, p \in Nat :
          /\ lw = Len(w) /\ li = Len(i) /\ lz = Len(z) /\ f = Len(file_out) /\ n = n_tc
          /\ p = n_tps_total
    <3>1. n_tc \in Nat /\ n_tps_total \in Nat /\ Len(file_out) \in Nat
      BY <2>0, BoundsAssumption DEF SequencesOfTPs, ThreadsType
    <3>2. Len(w) \in Nat /\ Len(i) \in Nat /\ Len(z) \in Nat  OBVIOUS
    <3> QED  BY <3>1, <3>2
  <2>7. lw + li + lz <= p /\ p <= MaxTPs
    BY <2>0, <2>4, <2>5, <2>6, BoundsAssumption DEF LinesAreCounted, SequencesOfTPs
  <2>8. PICK a \in Nat, b \in Nat, c \in Nat, d \in Nat :
          /\ a = AsNumber(consumer \in Holding) /\ b = AsNumber(main \in {"join", "done"})
          /\ c = AsNumber(consumer = "write") /\ d = AsNumber(main = "write")
    BY DEF AsNumber
  <2>9. c <= a /\ b + d <= 1  BY <2>8 DEF AsNumber, Holding
  <2>10. f + a <= lw + b /\ n <= f + c + d
    BY <2>0, <2>1, <2>6, <2>8 DEF LinesAreCounted
  <2>11. n <= MaxTPs + 1
    <3>1. MaxTPs \in Nat  BY BoundsAssumption
    <3>2. n <= f + c + d /\ f + a <= lw + b  BY <2>10
    <3>3. n <= lw + (b + d)  BY <2>9, <3>2
    <3>4. lw <= MaxTPs  BY <2>7, <3>1
    <3> QED  BY <2>9, <3>1, <3>3, <3>4
  <2>12. n_tc \in 0 .. (MaxTPs + 1)
    BY <2>6, <2>11, BoundsAssumption
  <2> QED
    BY <2>0, <2>12 DEF TypeOK, Inv, Stopping, SequencesOfTPs, Lines, ThreadsType, Holding
<1> QED  BY <1>1, EndInvInit, EndInvNext, PTL DEF Spec

\* The last cluster ends the file: main takes it without waiting for the worker,
\* which may still turn what it holds into a last TC, and the consumer writes the
\* cluster too only as the beginning of that TC. What main reads while the worker
\* is inside the TC maker is undefined, and nothing is said of it.
THEOREM LastClusterIsLast == Spec => []LastClusterEndsTheFile
<1>1. EndInv => LastClusterEndsTheFile  BY DEF EndInv
<1> QED  BY <1>1, EndInvInit, EndInvNext, PTL DEF Spec

=============================================================================
